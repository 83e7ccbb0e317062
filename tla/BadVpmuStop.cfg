\* Only the guest controls the VPMU: the branch predictor stops with branches left.
SPECIFICATION FairSpec
CONSTANTS
    BRANCH_QUEUE_SIZE = 3
    TRACE_SET = 2
    TRACE_QUEUE_SIZE = 2
    DeviceModel = {"E"}
    SETModel = {}
    Controller = {"cpu"}
    MaxBranches = 3
    MaxRefs = 5
    MaxCalls = 2
    Patient = TRUE
PROPERTIES
    StopReturns
CHECK_DEADLOCK FALSE
