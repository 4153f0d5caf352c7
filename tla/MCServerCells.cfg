\* Parent HA state machine with its job cells, with and without HA mode:
\* refinement of HAAbstract, failover/failback, abort replies, quiescence.
CONSTANTS
    Job = {j1}
    HAModes = {TRUE, FALSE}
    MaxSsid = 2
    MaxRestoreFail = 1
    AbortTimeout = 1
SPECIFICATION CellsSpec
INVARIANTS
    CellsTypeOK
    ServedUnderOwnGrant
    AppCommandMatchesSpec
PROPERTIES
    HAImplementsAbstract
    AbortReplies
    ColdCellsQuiesce
    PrimaryBecomesHot
    OtherBecomesCold
