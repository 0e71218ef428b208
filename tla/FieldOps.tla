------------------------------ MODULE FieldOps ------------------------------
(***************************************************************************)
(* The operators of a computation graph (src/src/graph.rs), each in the    *)
(* two versions the program has:                                           *)
(*                                                                         *)
(*   Eval   on raw machine words (U256), used while the graph is built and *)
(*          when constants are folded;                                     *)
(*   EvalFr on field elements (Fr), used when a witness is calculated.     *)
(*                                                                         *)
(* The field has M elements and a word has W bits; the code has a 254-bit  *)
(* M in a 256-bit word made of 4 limbs of 64 bits.  An operation that      *)
(* panics returns Panic.                                                   *)
(***************************************************************************)
EXTENDS Integers, FiniteSets, FiniteSetsExt

CONSTANTS M,          \* the modulus of the field
          LimbBits,   \* bits in a limb of a word (64 in the code)
          Limbs       \* limbs in a word (4 in the code)

W == Limbs * LimbBits
Word == 2^W           \* the number of machine words
Limb == 2^LimbBits
Field == 0..M - 1
Words == 0..Word - 1

\* M is an odd prime and leaves the two top bits of a word free.
ASSUME FieldAssumption ==
    /\ M \in Nat /\ M > 2 /\ LimbBits \in Nat \ {0} /\ Limbs \in Nat \ {0}
    /\ 4 * M < Word
    /\ \A b \in 1..M - 1 : \E x \in 1..M - 1 : (b * x) % M = 1

\* What the powers of 2 and of the size of a limb are, which the provers do
\* not know.
ASSUME PowersAssumption ==
    /\ 2^0 = 1 /\ \A n \in 0..W - 1 : 2^(n + 1) = 2 * 2^n
    /\ Limb^0 = 1 /\ \A n \in 0..Limbs - 1 : Limb^(n + 1) = Limb * Limb^n

Panic == -1
ModulusBits == CHOOSE n \in 1..W : 2^(n - 1) <= M /\ M < 2^n
HalfM == M \div 2
Bool(p) == IF p THEN 1 ELSE 0

-----------------------------------------------------------------------------
\* Words as sets of bit positions.

Bits(x) == {i \in 0..W - 1 : (x \div 2^i) % 2 = 1}
FromBits(s) ==
    LET below[n \in 0..W] ==
            IF n = 0 THEN 0 ELSE below[n - 1] + (IF n - 1 \in s THEN 2^(n - 1) ELSE 0)
    IN  below[W]
\* A variant for the mutation runs: | for &.
BitAndAsOr(a, b) == FromBits(Bits(a) \cup Bits(b))
BitAnd(a, b) == FromBits(Bits(a) \cap Bits(b))
BitOr(a, b) == FromBits(Bits(a) \cup Bits(b))
BitXor(a, b) == FromBits((Bits(a) \cup Bits(b)) \ (Bits(a) \cap Bits(b)))

-----------------------------------------------------------------------------
\* Comparisons: the upper half of the field stands for negative numbers.

\* A variant for the mutation runs: the largest positive number is negative.
NegFromHalf(x) == HalfM <= x
Neg(x) == HalfM < x
Lt(a, b) == IF Neg(a) = Neg(b) THEN a < b ELSE Neg(a)
Gt(a, b) == IF Neg(a) = Neg(b) THEN a > b ELSE Neg(b)
Leq(a, b) == IF Neg(a) = Neg(b) THEN a <= b ELSE Neg(a)
Geq(a, b) == IF Neg(a) = Neg(b) THEN a >= b ELSE Neg(b)

-----------------------------------------------------------------------------
\* Operations on words.

InvMod(b) == CHOOSE x \in 1..M - 1 : (b * x) % M = 1
\* A variant for the mutation runs: the product is not reduced.
DivNotReduced(a, b) == a * InvMod(b % M)
DivMod(a, b) == (a * InvMod(b % M)) % M
\* A variant for the mutation runs: no case of its own for b = 0.
DivWordNoZero(a, b) == IF b % M = 0 THEN Panic ELSE DivMod(a, b)
DivWord(a, b) == IF b = 0 THEN 0
                 ELSE IF b % M = 0 THEN Panic ELSE DivMod(a, b)

PowMod(a, n) ==
    LET power[k \in 0..n] == IF k = 0 THEN 1 ELSE (power[k - 1] * a) % M
    IN  power[n]

\* The shifts count by the least significant limb of b alone, and do not
\* reduce their result to the field.
LowLimb(b) == b % Limb
ShlWord(a, b) == IF LowLimb(b) >= W THEN 0 ELSE (a * 2^LowLimb(b)) % Word
ShrWord(a, b) == IF LowLimb(b) >= W THEN 0 ELSE a \div 2^LowLimb(b)

DuoOps == {"Mul", "Div", "Add", "Sub", "Pow", "Idiv", "Mod", "Eq", "Neq",
           "Lt", "Gt", "Leq", "Geq", "Land", "Lor", "Shl", "Shr", "Bor",
           "Band", "Bxor"}
UnoOps == {"Neg", "Id"}
TresOps == {"TernCond"}

Eval(op, a, b) ==
    CASE op = "Mul" -> (a * b) % M
      [] op = "Div" -> DivWord(a, b)
      [] op = "Add" -> (a + b) % M
      [] op = "Sub" -> (a + ((M - b) % Word)) % M
      [] op = "Pow" -> PowMod(a, b)
      [] op = "Idiv" -> IF b = 0 THEN Panic ELSE a \div b
      [] op = "Mod" -> IF b = 0 THEN Panic ELSE a % b
      [] op = "Eq" -> Bool(a = b)
      [] op = "Neq" -> Bool(a # b)
      [] op = "Lt" -> Bool(Lt(a, b))
      [] op = "Gt" -> Bool(Gt(a, b))
      [] op = "Leq" -> Bool(Leq(a, b))
      [] op = "Geq" -> Bool(Geq(a, b))
      [] op = "Land" -> Bool(a # 0 /\ b # 0)
      [] op = "Lor" -> Bool(a # 0 \/ b # 0)
      [] op = "Shl" -> ShlWord(a, b)
      [] op = "Shr" -> ShrWord(a, b)
      [] op = "Bor" -> BitOr(a, b)
      [] op = "Band" -> BitAnd(a, b)
      [] op = "Bxor" -> BitXor(a, b)

\* A variant for the mutation runs: 0 is negated like any other number.
UnoEvalNoZero(op, a) ==
    CASE op = "Neg" -> (M - a) % Word
      [] op = "Id" -> a

UnoEval(op, a) ==
    CASE op = "Neg" -> IF a = 0 THEN 0 ELSE (M - a) % Word
      [] op = "Id" -> a

TresEval(op, a, b, c) == IF a = 0 THEN c ELSE b

-----------------------------------------------------------------------------
\* Operations on field elements.

\* Fr::from_bigint(x).unwrap() fails on a word that is not reduced.
Unwrap(x) == IF x < M THEN x ELSE Panic
\* The bitwise operations subtract the modulus only from what exceeds it.
UnwrapBits(x) == Unwrap(IF x > M THEN x - M ELSE x)

ShlFr(a, b) ==
    IF b = 0 THEN a
    ELSE IF b >= ModulusBits THEN 0 ELSE Unwrap((a * 2^b) % Word)

\* The right shift moves whole limbs and then carries n bits from each limb
\* to the next lower one.
LimbOf(a, i) == IF i < Limbs THEN (a \div Limb^i) % Limb ELSE 0
\* A variant for the mutation runs: the mask is one bit short.
CarriedShort(limb, n) == limb % 2^(n - 1)
Carried(limb, n) == limb % 2^n
ShrFr(a, b) ==
    IF b = 0 THEN a
    ELSE IF b >= ModulusBits THEN 0
    ELSE LET n == b % LimbBits
             moved(i) == LimbOf(a, i + (b \div LimbBits))
             shifted(i) == (moved(i) \div 2^n)
                               + Carried(moved(i + 1), n) * 2^(LimbBits - n)
             sum[k \in 0..Limbs] ==
                 IF k = 0 THEN 0
                 ELSE sum[k - 1] + (IF n = 0 THEN moved(k - 1) ELSE shifted(k - 1)) * Limb^(k - 1)
         IN  Unwrap(sum[Limbs])

EvalFr(op, a, b) ==
    CASE op = "Mul" -> (a * b) % M
      [] op = "Div" -> IF b = 0 THEN 0 ELSE DivMod(a, b)
      [] op = "Add" -> (a + b) % M
      [] op = "Sub" -> (a - b) % M
      [] op = "Pow" -> Panic
      [] op = "Idiv" -> IF b = 0 THEN 0 ELSE a \div b
      [] op = "Mod" -> IF b = 0 THEN 0 ELSE a % b
      [] op = "Eq" -> Bool(a = b)
      [] op = "Neq" -> Bool(a # b)
      [] op = "Lt" -> Bool(Lt(a, b))
      [] op = "Gt" -> Bool(Gt(a, b))
      [] op = "Leq" -> Bool(Leq(a, b))
      [] op = "Geq" -> Bool(Geq(a, b))
      [] op = "Land" -> Bool(a # 0 /\ b # 0)
      [] op = "Lor" -> Bool(a # 0 \/ b # 0)
      [] op = "Shl" -> ShlFr(a, b)
      [] op = "Shr" -> ShrFr(a, b)
      [] op = "Bor" -> UnwrapBits(BitOr(a, b))
      [] op = "Band" -> UnwrapBits(BitAnd(a, b))
      [] op = "Bxor" -> UnwrapBits(BitXor(a, b))

\* A variant for the mutation runs: 0 is negated like any other element.
UnoEvalFrNoZero(op, a) ==
    CASE op = "Neg" -> Unwrap(M - a)
      [] op = "Id" -> Panic

UnoEvalFr(op, a) ==
    CASE op = "Neg" -> IF a = 0 THEN 0 ELSE Unwrap(M - a)
      [] op = "Id" -> Panic

TresEvalFr(op, a, b, c) == IF a = 0 THEN c ELSE b
=============================================================================
