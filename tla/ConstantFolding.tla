--------------------------- MODULE ConstantFolding ---------------------------
(***************************************************************************)
(* Straight-line computations on constants, run both ways the program can  *)
(* run them: folded at build time with Eval (Nodes::to_const, propagate)   *)
(* and at witness time with EvalFr (evaluate).  A register holds the value *)
(* of one node; a step is a node whose operands are earlier nodes.         *)
(***************************************************************************)
EXTENDS FieldOps

CONSTANTS Ops,        \* the two-operand operations computations use
          Regs,       \* the registers
          Loads       \* the constants a register may start from

ASSUME OpsAssumption == Ops \subseteq DuoOps /\ Loads \subseteq Field

VARIABLES folded,     \* what each register holds when folded
          ran,        \* what it holds when evaluated
          last        \* the operation of the last step
vars == <<folded, ran, last>>

\* A panic ends the program that meets it.
NoPanic(regs) == \A r \in Regs : regs[r] # Panic

Init ==
    /\ folded \in [Regs -> Loads]
    /\ ran = folded
    /\ last = "load"

Duo(r, op, x, y) ==
    /\ folded' = [folded EXCEPT ![r] = Eval(op, folded[x], folded[y])]
    /\ ran' = [ran EXCEPT ![r] = EvalFr(op, ran[x], ran[y])]
    /\ last' = op

Uno(r, x) ==
    /\ folded' = [folded EXCEPT ![r] = UnoEval("Neg", folded[x])]
    /\ ran' = [ran EXCEPT ![r] = UnoEvalFr("Neg", ran[x])]
    /\ last' = "Neg"

Tres(r, x, y, z) ==
    /\ folded' = [folded EXCEPT ![r] =
                      TresEval("TernCond", folded[x], folded[y], folded[z])]
    /\ ran' = [ran EXCEPT ![r] =
                      TresEvalFr("TernCond", ran[x], ran[y], ran[z])]
    /\ last' = "TernCond"

Next ==
    /\ NoPanic(folded) /\ NoPanic(ran)
    /\ \/ \E r, x, y \in Regs, op \in Ops : Duo(r, op, x, y)
       \/ \E r, x \in Regs : Uno(r, x)
       \/ \E r, x, y, z \in Regs : Tres(r, x, y, z)

Spec == Init /\ [][Next]_vars

-----------------------------------------------------------------------------
\* Registers hold words at build time, field elements at witness time, or
\* the mark of a panic: the two representations graph.rs gives a value.
TypeOK ==
    /\ folded \in [Regs -> Words \cup {Panic}]
    /\ ran \in [Regs -> Field \cup {Panic}]
    /\ last \in DuoOps \cup {"load", "Neg", "TernCond"}

\* Folding a computation on constants gives the value evaluating it would
\* have given: propagate may replace a node by the constant it folds to.
FoldingIsEvaluation ==
    NoPanic(folded) /\ NoPanic(ran) =>
        \A r \in Regs : folded[r] % M = ran[r]

\* Evaluation returns a value whatever the operands: "We always should return
\* something on the circuit execution" (src/src/graph.rs:106).
EvaluationIsTotal == NoPanic(ran)

\* Folding stops the builder only in the integer divisions, and only where
\* evaluation would have gone on with 0.
FoldingStopsOnlyInDivision ==
    ~NoPanic(folded) => /\ last \in {"Idiv", "Mod"}
                        /\ \A r \in Regs : folded[r] = Panic => ran[r] = 0

\* The four comparisons are the order of the signed representatives
\* -(M-1)/2 .. (M-1)/2 of the field elements (u_lt, u_lte, u_gt, u_gte).
Signed(x) == IF x > (M - 1) \div 2 THEN x - M ELSE x
OrderIsSigned ==
    \A x, y \in Regs :
        LET a == ran[x]
            b == ran[y]
        IN  NoPanic(ran) =>
              /\ EvalFr("Lt", a, b) = Bool(Signed(a) < Signed(b))
              /\ EvalFr("Gt", a, b) = Bool(Signed(a) > Signed(b))
              /\ EvalFr("Leq", a, b) = Bool(Signed(a) <= Signed(b))
              /\ EvalFr("Geq", a, b) = Bool(Signed(a) >= Signed(b))

\* The limb-by-limb right shift is division by a power of two: no bit is
\* lost or duplicated where a limb ends (shr, src/src/graph.rs:637-672).
ShrIsDivision ==
    \A x, y \in Regs :
        NoPanic(ran) =>
            EvalFr("Shr", ran[x], ran[y]) =
                IF ran[y] < W THEN ran[x] \div 2^(ran[y]) ELSE 0

\* The bitwise conjunction of field elements is a field element no larger
\* than either operand, so that it never needs to be reduced (bit_and).
BandStaysBelow ==
    \A x, y \in Regs :
        NoPanic(ran) =>
            EvalFr("Band", ran[x], ran[y]) \in 0..Min({ran[x], ran[y]})
=============================================================================
