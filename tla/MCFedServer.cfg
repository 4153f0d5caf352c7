\* The registry and the HA state machine together: types, and the ssid a
\* client receives with its token, handshake replay and session expiry,
\* and that a started shutdown completes.
CONSTANTS
    Origin = {o1}
    SecureMode = TRUE
    HBTimeout = 2
    RemoveInterval = 1
    MaxRegDuration = 1
    RegCheckInterval = 2
    MaxNonce = 1
    MaxToken = 2
    ShutdownPeriod = 1
    Job = {j1}
    HAModes = {TRUE}
    MaxSsid = 3
    MaxRestoreFail = 1
SPECIFICATION FedSpec
INVARIANTS
    TypeOK
    ClientSsidGranted
    SessionSingleUse
    SessionAgeBounded
PROPERTIES
    ShutdownCompletes
