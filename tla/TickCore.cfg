SPECIFICATION Spec
CONSTANTS
    Sources <- MCSources
    PconBits <- MCPconBits
    ShortDelays = {1}
INVARIANTS
    TypeOK
    StepBounded
PROPERTIES
    LowPowerAtBoundary
    ServesFirstRequest
    RequestsKept
    PowerDownFreezes
    IdleWakes
    NestSpec
