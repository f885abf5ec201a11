SPECIFICATION Spec
CONSTANTS
    Size <- MCSize
    Width = 1
    MainRows = 2
    Heights = {5, 10, 16}
    Regs = 1
    ACC = 0
    B = 1
    DPH = 2
    DPL = 3
    PSW = 4
    PSWs = {0, 24}
    Digits = {9}
    MaxKeys = 5
INVARIANTS
    CursorsOnMemory
PROPERTIES
    CaretSpec
    MainViewCaret
    RegisterDigit
CHECK_DEADLOCK FALSE
