SPECIFICATION Spec
CONSTANTS
    Size = 9
    RamTop = 6
    SPAddr = 6
    PSWAddr = 7
    ACCAddr = 8
    ResetSP = 0
    Data = {0, 2}
    MaxOps = 7
    Targets <- MCTargets
    VectorOf <- MCVectorOf
INVARIANTS
    SlotsMatchFrames
PROPERTIES
    MismatchesAreReal
    ReturnRestores
