\* One thread, every connected network of four devices.
SPECIFICATION Spec
CONSTANTS
    TotalDeviceNum = 4
    Caller = {"guest"}
    MaxCalls = 2
INVARIANTS
    TypeOK
    VisitedIsFinal
    HopIsNearer
CHECK_DEADLOCK FALSE
