\* The dead-client sweep evicts only expired clients (expected violated).
CONSTANTS
    Origin = {o1, o2}
    SecureMode = TRUE
    HBTimeout = 1
    RemoveInterval = 1
    MaxRegDuration = 1
    RegCheckInterval = 2
    MaxNonce = 2
    MaxToken = 2
    ShutdownPeriod = 1
SPECIFICATION RegSpec
SYMMETRY OriginSymmetry
PROPERTIES
    NoLiveClientEvicted
