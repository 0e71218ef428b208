\* The builder stops on a graph that could be evaluated.
CONSTANTS
    M = 5
    LimbBits = 1
    Limbs = 5
    Sources <- PanicGraphs
SPECIFICATION Spec
INVARIANTS
    StoppedIsUnrunnable
CHECK_DEADLOCK FALSE
