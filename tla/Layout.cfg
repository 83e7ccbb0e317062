\* Every network of up to four devices, 32-bit build.
SPECIFICATION Spec
CONSTANTS
    MaxDevice = 4
    FlagSize = 12
INVARIANTS
    TypeOK
    EndsAgree
    RegionsDisjoint
CHECK_DEADLOCK FALSE
