\* Devices start in any order, or once the coordinator waits for them.
SPECIFICATION FairSpec
CONSTANTS
    TotalDeviceNum = 4
    DeviceType <- Star
    Scenario <- Usual
INVARIANTS
    TypeOK
    BarrierHolds
PROPERTIES
    AllStart
CHECK_DEADLOCK FALSE
