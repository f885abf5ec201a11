SPECIFICATION Spec
CONSTANTS
    RamSize = 2
    CgSize = 1
    Port1 <- MCPort1
    LeftOver <- MCLeftOver
    BusyAccess = 2
    BusyCommand = 2
    BusyClear = 3
    MaxTransfers = 4
INVARIANTS
    TypeOK
    InitializationSynchronises
PROPERTIES
    WholeBytes
    ContentsSpec
