SPECIFICATION SerialSpec
CONSTANTS
    FrameBits = 2
    OutSize = 2
    MaxSent = 4
INVARIANTS
    RingHoldsLastSent
    OneInterruptPerFrame
PROPERTIES
    WholeFrames
