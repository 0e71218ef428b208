\* Functions that return from within a loop.
CONSTANTS
    M = 5
    LimbBits = 1
    Limbs = 5
    Programs <- Searching
    Instructions <- SearchInstructions
    Expressions <- SearchExpressions
    Indexes = 10
    SampleValues = {}
SPECIFICATION BuildSpec
INVARIANT
    GraphComputesTheCircuit
CHECK_DEADLOCK FALSE
