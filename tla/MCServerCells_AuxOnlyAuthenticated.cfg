\* Expected violated: AuxOnlyAuthenticated.
CONSTANTS
    Job = {j1}
    HAModes = {TRUE}
    MaxSsid = 3
    MaxRestoreFail = 1
    AbortTimeout = 1
SPECIFICATION CellsSpec
INVARIANTS
    AuxOnlyAuthenticated
