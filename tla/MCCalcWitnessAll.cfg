\* An input that no node reads any more makes calc-witness panic.
CONSTANTS
    M = 5
    LimbBits = 3
    Limbs = 2
    Names <- MCNames
    Layouts <- MCLayouts
    Files <- MCFiles
SPECIFICATION Spec
INVARIANTS
    CompleteInputsRun
CHECK_DEADLOCK FALSE
