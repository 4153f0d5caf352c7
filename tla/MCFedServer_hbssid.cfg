\* client_heartbeat against a stale ssid (expected violated).
CONSTANTS
    Origin = {o1}
    SecureMode = TRUE
    HBTimeout = 2
    RemoveInterval = 1
    MaxRegDuration = 1
    RegCheckInterval = 2
    MaxNonce = 2
    MaxToken = 2
    ShutdownPeriod = 1
    Job = {j1}
    HAModes = {TRUE}
    MaxSsid = 3
    MaxRestoreFail = 0
SPECIFICATION Spec
PROPERTIES
    HeartbeatSsidChecked
