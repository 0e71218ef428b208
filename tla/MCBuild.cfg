\* Programs of five families: straight ones, components, functions, arrays,
\* divisions.
CONSTANTS
    M = 5
    LimbBits = 1
    Limbs = 5
    Programs <- MCPrograms
    Instructions <- MCInstructions
    Expressions <- MCExpressions
    Indexes = 10
    SampleValues = {2, 3}
SPECIFICATION BuildSpec
INVARIANTS
    BuildTypeOK
    NodesReferBack
    ComponentsWaitForTheirInputs
    GraphComputesTheCircuit
    WitnessIsTheCircuits
    FileKeepsTheGraph
    OnlyUnsetSignalsStopOptimize
    PrintingStopsOnlyInDivision
    PrintedIsTheWitness
PROPERTIES
    SignalsAreSetOnce
CHECK_DEADLOCK FALSE
