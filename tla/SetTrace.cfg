\* Programs, applications and threads that start and end in any order, and a user.
SPECIFICATION Spec
CONSTANTS
    MAX_PROC_TABLE_SIZE = 3
    PROC_HASH_TABLE_SIZE = 4
    Name = {"app_process", "a", "b"}
    Type = {{"OUTPUT", "USER_C", "LIBRARY"}}
    TimingModel = {"valid"}
    Pid = {1, 2}
    MaxProcess = 4
    MaxFile = 2
    MaxConnect = 1
INVARIANTS
    TypeOK
    
    HashHoldsTraced
    CountsItsThreads
    FilesStayLoaded
    TracesTheRunning
PROPERTIES
    ProfileFollowsTracing
CHECK_DEADLOCK FALSE
