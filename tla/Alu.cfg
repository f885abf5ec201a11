SPECIFICATION AluSpec
CONSTANTS
    Operands <- MCOperands
    MaxOps = 2
PROPERTIES
    WideArithmetic
    DecimalAdjust
