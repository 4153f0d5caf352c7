\* A failed restore is retried by the next poll (expected violated).
CONSTANTS
    Job = {j1, j2}
    HAModes = {TRUE}
    MaxSsid = 2
    MaxRestoreFail = 1
SPECIFICATION HASpec
PROPERTIES
    NoDoubleRestore
