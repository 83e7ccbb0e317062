\* A queue that an application or a routing thread fills.
SPECIFICATION FairSpec
CONSTANTS
    Message = {m1, m2, m3}
    MaxMessages = 4
INVARIANTS
    TypeOK
    ExclusiveEntries
    WholeMessages
    LateReadOwnHeader
PROPERTIES
    ImplementsChannel
    PushEnds
CHECK_DEADLOCK FALSE
