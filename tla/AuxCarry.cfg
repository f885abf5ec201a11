SPECIFICATION AluSpec
CONSTANTS
    Operands <- MCOperands
    MaxOps = 2
PROPERTIES
    AuxiliaryCarry
