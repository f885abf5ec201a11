SPECIFICATION Spec
CONSTANTS
    Byte = 4
    Low = 2
    TmodValues <- MCTmodValues
PROPERTIES
    CountsByOne
    FlagsWhenWrapping
    TF1HasOneTaker
    WithinTimerEffect
    OverflowsIfLeftAlone
