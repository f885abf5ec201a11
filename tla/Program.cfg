\* Every opcode is loaded and executed at the edges of pages and of memory.
SPECIFICATION Spec
CONSTANTS
    Records <- MCRecords
    Whole <- MCWhole
    PCs <- MCPCs
    Vectors <- MCVectors
    Elsewhere <- MCElsewhere
    MaxJunk = 1
    MaxSteps = 2
INVARIANTS LoadedAsWritten ListsOperands
PROPERTIES LoadReturns ExecutesAsListed
