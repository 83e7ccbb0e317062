\* The shipped topology: three reports in a row and an answer through a router,
\* when transmissions fail at the sender or on the way.  There is never a choice
\* between two packets here, so one latency is enough, and the fails take two.
SPECIFICATION FairSpec
CONSTANTS
    TotalDeviceNum = 3
    DeviceType <- ChainType
    Neighbors <- ChainNeighbors
    NextHop <- ChainHop
    Program <- ChainReports
    Latency = {1}
    FailLatency = {1, 2}
    MaxFails = 2
    Work = {1}
    MaxWork = 0
    OneHopLatency = {0}
    FailPointer = 500
    TimeMod = 65536
INVARIANTS
    WaitingSenderIsServed
    LateReadSeesHeader
PROPERTIES
    ImplementsService
    AllReturn
CHECK_DEADLOCK FALSE
