\* Every operation but Pow: evaluation does not always return.
CONSTANTS
    M = 47
    LimbBits = 4
    Limbs = 2
    Ops <- MCAllOps
    Regs <- MCRegs
    Loads <- MCField
SPECIFICATION Spec
INVARIANTS
    EvaluationIsTotal
CHECK_DEADLOCK FALSE
