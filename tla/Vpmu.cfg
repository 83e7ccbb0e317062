\* Both workers, profiles of every origin, on two threads.
SPECIFICATION FairSpec
CONSTANTS
    BRANCH_QUEUE_SIZE = 3
    TRACE_SET = 2
    TRACE_QUEUE_SIZE = 2
    DeviceModel = {"D", "E"}
    SETModel = {"E"}
    Controller = {"cpu", "ctrl"}
    MaxBranches = 3
    MaxRefs = 5
    MaxCalls = 2
    Patient = FALSE
INVARIANTS
    TypeOK
    BranchInOrder
    RefsInOrder
    ReportIsComplete
PROPERTIES
    SyncReturns
CHECK_DEADLOCK FALSE
