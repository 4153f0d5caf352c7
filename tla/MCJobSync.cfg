CONSTANTS
    c1 = c1
    c2 = c2
    j1 = j1
    j2 = j2
    Client <- MCClient
    Job <- MCJob1
SPECIFICATION JobSyncSpec
INVARIANTS
    JobSyncTypeOK
    DeadClientNotifiedOnce
PROPERTIES
    OrphanCellStopped
    ClientJobsConverge
