SPECIFICATION Spec
CONSTANTS
    Cells <- MCCells
    HasUpper = TRUE
    Ports <- MCPorts
    opt_input_outputlow = 1
    Pins <- MCPins
    Noise <- MCNoise
    Immediates <- MCImmediates
    RegisterNumbers <- MCRegisterNumbers
    BitAddresses <- MCBitAddresses
    Start <- MCStart
    Locks <- MCLocks
    MaxOps = 2
INVARIANTS
    ParityOfA
    LockGrantedOnce
PROPERTIES
    OtherBitsKept
    ExchangeTwice
