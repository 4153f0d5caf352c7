\* Every expired client is eventually evicted (expected violated).
CONSTANTS
    Origin = {o1, o2}
    SecureMode = TRUE
    HBTimeout = 1
    RemoveInterval = 1
    MaxRegDuration = 1
    RegCheckInterval = 2
    MaxNonce = 3
    MaxToken = 2
    ShutdownPeriod = 1
SPECIFICATION RegLiveSpec
PROPERTIES
    ExpiredClientsEvicted
