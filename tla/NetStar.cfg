\* Two end devices report to the coordinator through one router.
SPECIFICATION FairSpec
CONSTANTS
    TotalDeviceNum = 4
    DeviceType <- StarType
    Neighbors <- StarNeighbors
    NextHop <- StarHop
    Program <- StarReport
    Latency = {1, 2}
    FailLatency = {}
    MaxFails = 0
    Work = {1}
    MaxWork = 1
    OneHopLatency = {0, 63}
    FailPointer = 0
    TimeMod = 64
INVARIANTS
    SignalIsArrival
    DeadlineHolds
PROPERTIES
    ImplementsService
    ClockNeverBack
CHECK_DEADLOCK FALSE
