\* The router's wait for the other neighbours.
SPECIFICATION FairSpec
CONSTANTS
    TotalDeviceNum = 4
    DeviceType <- StarType
    Neighbors <- StarNeighbors
    NextHop <- StarHop
    Program <- StarReport
    Latency = {1}
    FailLatency = {}
    MaxFails = 0
    Work = {1}
    MaxWork = 0
    OneHopLatency = {0}
    FailPointer = 0
    TimeMod = 64
PROPERTIES
    AllReturn
CHECK_DEADLOCK FALSE
