\* M = 47 in an 8-bit word mirrors the 254-bit modulus in a 256-bit word.
CONSTANTS
    M = 47
    LimbBits = 2
    Limbs = 4
    Ops <- MCSoundOps
    Regs <- MCRegs
    Loads <- MCField
SPECIFICATION Spec
INVARIANTS
    TypeOK
    FoldingIsEvaluation
    EvaluationIsTotal
    FoldingStopsOnlyInDivision
    OrderIsSigned
    ShrIsDivision
    BandStaysBelow
CHECK_DEADLOCK FALSE
