SPECIFICATION Spec
CONSTANTS
    Addresses <- MCAddresses
    VectorPC = 1
    Breakpoints <- MCBreakpoints
    HistoryLines = 2
    RebuildLines = 1
    SlotClocks = 2
    Waits = {0, 1}
    Word = 4
PROPERTIES
    PrintsWhatRan
    BreakpointStops
    KeyboardAnswered
