\* Computations of two or three operations on up to three inputs, in a field of 5.
CONSTANTS
    M = 5
    LimbBits = 1
    Limbs = 5
    Sources <- SmallGraphs
SPECIFICATION Spec
INVARIANTS
    TypeOK
    NoInternalPanic
    SemanticsPreserved
    NothingUnused
    NothingDrawnTwice
    InputsAreCovered
    RefusedIsUnrunnable
CHECK_DEADLOCK FALSE
