\* A coordinator sends, receives and forwards between two end devices.
SPECIFICATION FairSpec
CONSTANTS
    TotalDeviceNum = 3
    DeviceType <- HubType
    Neighbors <- HubNeighbors
    NextHop <- HubHop
    Program <- HubProgram
    Latency = {1, 2}
    FailLatency = {}
    MaxFails = 0
    Work = {1}
    MaxWork = 1
    OneHopLatency = {0}
    FailPointer = 0
    TimeMod = 64
INVARIANTS
    ReceivesOwnPayloads
    TypeOK
    WaitingSenderIsServed
    DeadlineHolds
PROPERTIES
    ImplementsService
CHECK_DEADLOCK FALSE
