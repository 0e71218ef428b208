----------------------------- MODULE Graph_proofs -----------------------------
(***************************************************************************)
(* Facts about numbers, operators and graphs of any size that the proofs   *)
(* about the other modules rest on.                                        *)
(***************************************************************************)
EXTENDS Graph, FiniteSetTheorems, FunctionTheorems, SequenceTheorems, TLAPS

-----------------------------------------------------------------------------
(***************************************************************************)
(* The least and the greatest of a set of numbers.                         *)
(***************************************************************************)

\* Min of a set of numbers that is not empty is its least element.
LEMMA LeastNatural ==
    ASSUME NEW T \in SUBSET Nat, T # {}
    PROVE  Min(T) \in T /\ \A y \in T : Min(T) <= y
<1>1. PICK x \in T : \A y \in T : ~(<<y, x>> \in OpToRel(<, Nat))
  BY NatLessThanWellFounded, WFMin
<1>2. \A y \in T : ~(y < x)
  BY <1>1 DEF OpToRel
<1>3. \A y \in T : x <= y
  BY <1>2
<1> QED
  BY <1>3 DEF Min

\* Max of a set of numbers that is not empty and has a bound is its greatest
\* element.
LEMMA GreatestNatural ==
    ASSUME NEW T \in SUBSET Nat, T # {}, NEW b \in Nat, \A x \in T : x <= b
    PROVE  Max(T) \in T /\ \A y \in T : y <= Max(T)
<1> DEFINE D == {b - x : x \in T}
<1>1. D \in SUBSET Nat /\ D # {}
  <2>1. \A x \in T : b - x \in Nat
    OBVIOUS
  <2>2. \A d \in D : d \in Nat
    BY <2>1
  <2>3. PICK x \in T : TRUE
    OBVIOUS
  <2> QED
    BY <2>2, <2>3
<1>2. Min(D) \in D /\ \A d \in D : Min(D) <= d
  BY <1>1, LeastNatural
<1>3. PICK x \in T : Min(D) = b - x
  BY <1>2
<1>4. \A y \in T : b - x <= b - y
  BY <1>2, <1>3
<1>5. \A y \in T : x >= y
  BY <1>4
<1>6. Max(T) \in T /\ \A y \in T : Max(T) >= y
  BY <1>5 DEF Max
<1> QED
  BY <1>6

\* Induction: a set of numbers that has 0 and the successor of each of its
\* members below a bound has all numbers up to the bound.
LEMMA Induction ==
    ASSUME NEW N \in Nat, NEW T, 0 \in T, \A n \in 0..N - 1 : n \in T => n + 1 \in T
    PROVE  \A n \in 0..N : n \in T
<1> DEFINE Bad == {n \in 0..N : n \notin T}
<1> SUFFICES ASSUME Bad # {} PROVE FALSE
  OBVIOUS
<1>1. Bad \in SUBSET Nat
  OBVIOUS
<1>2. Min(Bad) \in Bad /\ \A y \in Bad : Min(Bad) <= y
  BY <1>1, LeastNatural
<1> DEFINE m == Min(Bad)
<1>3. m \in 0..N /\ m \notin T /\ m # 0
  BY <1>2
<1> HIDE DEF m
<1>4. m - 1 \in 0..N - 1 /\ m - 1 \in 0..N /\ (m - 1) + 1 = m
  BY <1>3
<1>5. m - 1 \in T
  <2>1. m - 1 \in Bad => m <= m - 1
    BY <1>2 DEF m
  <2>2. m - 1 \notin Bad
    BY <2>1, <1>3
  <2> QED BY <2>2, <1>4
<1> QED
  BY <1>3, <1>4, <1>5

\* Recursion: what starts with v0 and goes on with step.
Iterates(f, N, v0, step) == f[0] = v0 /\ \A i \in 1..N : f[i] = step[<<i, f[i - 1]>>]
\* A function that is defined by its first value and a step exists; this is
\* what a recursive definition over 0..N needs.
LEMMA Recursion ==
    ASSUME NEW N \in Nat, NEW V, NEW v0 \in V, NEW step \in [(0..N) \X V -> V]
    PROVE  \E f \in [0..N -> V] : Iterates(f, N, v0, step)
<1> DEFINE Fits(f, n) == f[0] = v0 /\ \A i \in 1..n : f[i] = step[<<i, f[i - 1]>>]
           T == {n \in 0..N : \E f \in [0..n -> V] : Fits(f, n)}
<1>1. 0 \in T
  <2> DEFINE f == [i \in 0..0 |-> v0]
  <2>1. f \in [0..0 -> V] /\ Fits(f, 0)
    OBVIOUS
  <2> HIDE DEF f
  <2>2. \E h \in [0..0 -> V] : Fits(h, 0)
    BY <2>1
  <2> QED
    BY <2>2
<1>2. ASSUME NEW n \in 0..N - 1, n \in T PROVE n + 1 \in T
  <2>1. PICK f \in [0..n -> V] : Fits(f, n)
    BY <1>2
  <2> DEFINE g == [i \in 0..n + 1 |-> IF i <= n THEN f[i] ELSE step[<<n + 1, f[n]>>]]
  <2>2. g \in [0..n + 1 -> V]
    OBVIOUS
  <2>3. Fits(g, n + 1)
    <3>1. \A i \in 0..n : g[i] = f[i]
      OBVIOUS
    <3>2. g[n + 1] = step[<<n + 1, f[n]>>]
      OBVIOUS
    <3> HIDE DEF g
    <3>3. ASSUME NEW i \in 1..n + 1 PROVE g[i] = step[<<i, g[i - 1]>>]
      <4>1. CASE i = n + 1
        BY <3>1, <3>2, <4>1
      <4>2. CASE i \in 1..n
        BY <2>1, <3>1, <4>2
      <4> QED
        BY <4>1, <4>2
    <3> QED
      BY <2>1, <3>1, <3>3
  <2> HIDE DEF g, Fits
  <2>4. \E h \in [0..n + 1 -> V] : Fits(h, n + 1)
    BY <2>2, <2>3
  <2>5. n + 1 \in 0..N
    OBVIOUS
  <2> QED
    BY <2>4, <2>5
<1>3. \A n \in 0..N : n \in T
  BY <1>1, <1>2, Induction
<1> QED
  BY <1>3 DEF Iterates

-----------------------------------------------------------------------------
\* A word has at least one bit, and each limb is within it.
LEMMA WordBits ==
    /\ LimbBits \in Nat \ {0} /\ Limbs \in Nat \ {0}
    /\ W \in Nat \ {0} /\ LimbBits <= W
    /\ \A k \in 0..Limbs : k * LimbBits \in 0..W
<1>1. LimbBits \in Nat \ {0} /\ Limbs \in Nat \ {0}
  BY FieldAssumption
<1>2. \A k \in Nat : k * LimbBits \in Nat
  BY <1>1
<1>3. \A j, k \in Nat : j <= k => j * LimbBits <= k * LimbBits
  <2>1. SUFFICES ASSUME NEW j \in Nat, NEW k \in Nat, j <= k
                 PROVE  j * LimbBits <= k * LimbBits
    OBVIOUS
  <2>2. (k - j) * LimbBits \in Nat /\ k * LimbBits = j * LimbBits + (k - j) * LimbBits
    BY <1>1, <2>1
  <2> QED
    BY <1>2, <2>2
<1>4. 1 * LimbBits = LimbBits
  BY <1>1
<1>5. 1 * LimbBits <= Limbs * LimbBits
  BY <1>1, <1>3
<1> QED
  BY <1>1, <1>2, <1>3, <1>4, <1>5 DEF W

\* Powers of two are positive.
LEMMA PowersType == \A n \in 0..W : 2^n \in Nat \ {0}
<1> DEFINE T == {n \in 0..W : 2^n \in Nat \ {0}}
<1>1. W \in Nat
  BY WordBits
<1>2. 0 \in T
  BY <1>1, PowersAssumption
<1>3. ASSUME NEW n \in 0..W - 1, n \in T PROVE n + 1 \in T
  <2>1. 2^(n + 1) = 2 * 2^n /\ 2^n \in Nat \ {0}
    BY <1>3, PowersAssumption
  <2>2. n + 1 \in 0..W
    BY <1>1
  <2> QED
    BY <2>1, <2>2
<1>4. \A n \in 0..W : n \in T
  BY <1>1, <1>2, <1>3, Induction
<1> QED
  BY <1>4

\* Exponents add up.
LEMMA PowersAdd == \A m, n \in 0..W : m + n <= W => 2^(m + n) = 2^m * 2^n
<1> DEFINE T == {n \in 0..W : \A m \in 0..W : m + n <= W => 2^(m + n) = 2^m * 2^n}
<1>1. W \in Nat /\ \A n \in 0..W : 2^n \in Nat
  BY WordBits, PowersType
<1>2. 0 \in T
  BY <1>1, PowersAssumption
<1>3. ASSUME NEW n \in 0..W - 1, n \in T PROVE n + 1 \in T
  <2>1. n + 1 \in 0..W
    BY <1>1
  <2>2. SUFFICES ASSUME NEW m \in 0..W, m + (n + 1) <= W
                 PROVE  2^(m + (n + 1)) = 2^m * 2^(n + 1)
    BY <2>1
  <2>3. /\ m + n \in 0..W - 1 /\ m + n <= W /\ m + (n + 1) = (m + n) + 1
    BY <1>1, <2>2
  <2>4. 2^(m + n) = 2^m * 2^n
    BY <1>3, <2>3
  <2>5. 2^((m + n) + 1) = 2 * 2^(m + n) /\ 2^(n + 1) = 2 * 2^n
    BY <2>3, PowersAssumption
  <2>6. 2^m \in Nat /\ 2^n \in Nat
    BY <1>1
  <2>7. \A x, y \in Nat : 2 * (x * y) = x * (2 * y)
    OBVIOUS
  <2> QED
    BY <2>3, <2>4, <2>5, <2>6, <2>7
<1>4. \A n \in 0..W : n \in T
  BY <1>1, <1>2, <1>3, Induction
<1> QED
  BY <1>4

\* Powers grow with their exponents.
LEMMA PowersGrow == \A m, n \in 0..W : m <= n => 2^m <= 2^n
<1>1. W \in Nat
  BY WordBits
<1> SUFFICES ASSUME NEW m \in 0..W, NEW n \in 0..W, m <= n PROVE 2^m <= 2^n
  OBVIOUS
<1>2. n - m \in 0..W /\ m + (n - m) = n
  BY <1>1
<1>3. 2^(m + (n - m)) = 2^m * 2^(n - m)
  BY <1>1, <1>2, PowersAdd
<1>4. 2^m \in Nat \ {0} /\ 2^(n - m) \in Nat \ {0}
  BY <1>2, PowersType
<1>5. \A x, y \in Nat \ {0} : x <= x * y
  OBVIOUS
<1> QED
  BY <1>2, <1>3, <1>4, <1>5

\* A power of the size of a limb is a power of two.
LEMMA LimbPowers == \A k \in 0..Limbs : Limb^k = 2^(k * LimbBits) /\ Limb^k \in Nat \ {0}
<1> DEFINE T == {k \in 0..Limbs : Limb^k = 2^(k * LimbBits)}
<1>1. /\ Limbs \in Nat /\ LimbBits \in Nat /\ W \in Nat /\ LimbBits \in 0..W
      /\ \A k \in 0..Limbs : k * LimbBits \in 0..W
  BY WordBits
<1>2. 0 \in T
  <2>1. 0 * LimbBits = 0 /\ 0 \in 0..Limbs
    BY <1>1
  <2>2. Limb^0 = 1 /\ 2^0 = 1
    BY PowersAssumption
  <2>3. Limb^0 = 2^(0 * LimbBits)
    BY <2>1, <2>2
  <2> QED
    BY <2>1, <2>3
<1>3. ASSUME NEW k \in 0..Limbs - 1, k \in T PROVE k + 1 \in T
  <2>1. k + 1 \in 0..Limbs /\ k \in 0..Limbs
    BY <1>1
  <2>2. (k + 1) * LimbBits = k * LimbBits + LimbBits
    BY <1>1
  <2>3. k * LimbBits \in 0..W /\ k * LimbBits + LimbBits <= W
    BY <1>1, <2>1, <2>2
  <2>4. 2^(k * LimbBits + LimbBits) = 2^(k * LimbBits) * 2^LimbBits
    BY <1>1, <2>3, PowersAdd
  <2>5. Limb^(k + 1) = Limb * Limb^k /\ Limb^k = 2^(k * LimbBits)
    BY <1>3, PowersAssumption
  <2>6. 2^(k * LimbBits) \in Nat /\ 2^LimbBits \in Nat
    BY <1>1, <2>3, PowersType
  <2>7. Limb = 2^LimbBits
    BY DEF Limb
  <2>8. \A x, y \in Nat : x * y = y * x
    OBVIOUS
  <2>9. Limb^(k + 1) = 2^((k + 1) * LimbBits)
    BY <2>2, <2>4, <2>5, <2>6, <2>7, <2>8
  <2> QED
    BY <2>1, <2>9
<1>4. \A k \in 0..Limbs : k \in T
  BY <1>1, <1>2, <1>3, Induction
<1> QED
  BY <1>1, <1>4, PowersType

\* The numbers the code works with: words, limbs and field elements.
LEMMA Sizes ==
    /\ Limb \in Nat \ {0} /\ Word \in Nat \ {0} /\ Limb <= Word
    /\ Word = Limb^Limbs /\ M \in Nat /\ M > 2 /\ M < Word
<1>1. W \in 0..W /\ LimbBits \in 0..W /\ Limbs \in 0..Limbs
  BY WordBits
<1>2. Limb \in Nat \ {0} /\ Word \in Nat \ {0}
  BY <1>1, PowersType DEF Limb, Word
<1>3. Limb <= Word
  BY <1>1, WordBits, PowersGrow DEF Limb, Word
<1>4. Word = Limb^Limbs
  BY <1>1, LimbPowers DEF Word, W
<1> QED
  BY <1>2, <1>3, <1>4, FieldAssumption

\* The sum of FromBits, bit by bit.
LEMMA FromBitsSum ==
    ASSUME NEW s
    PROVE  \E below \in [0..W -> Nat] :
              /\ below[0] = 0
              /\ \A n \in 1..W :
                    below[n] = below[n - 1] + (IF n - 1 \in s THEN 2^(n - 1) ELSE 0)
              /\ FromBits(s) = below[W]
<1> DEFINE bit(n) == IF n - 1 \in s THEN 2^(n - 1) ELSE 0
           step == [t \in (0..W) \X Nat |-> t[2] + (IF t[1] = 0 THEN 0 ELSE bit(t[1]))]
           IsBelow(g) == g = [n \in 0..W |-> IF n = 0 THEN 0 ELSE g[n - 1] + bit(n)]
           below == CHOOSE g : IsBelow(g)
<1>1. W \in Nat
  BY WordBits
<1>2. \A n \in 1..W : bit(n) \in Nat
  <2>1. \A n \in 1..W : n - 1 \in 0..W
    BY <1>1
  <2> QED
    BY <2>1, PowersType
<1>3. FromBits(s) = below[W]
  BY DEF FromBits
<1> HIDE DEF bit
<1>4. step \in [(0..W) \X Nat -> Nat]
  BY <1>2
<1>5. PICK f \in [0..W -> Nat] : f[0] = 0 /\ \A i \in 1..W : f[i] = step[<<i, f[i - 1]>>]
  <2> HIDE DEF step
  <2>1. PICK f \in [0..W -> Nat] : Iterates(f, W, 0, step)
    BY <1>1, <1>4, Recursion
  <2> QED
    BY <2>1 DEF Iterates
<1>6. \A i \in 1..W : f[i] = f[i - 1] + bit(i)
  <2>1. \A i \in 1..W : <<i, f[i - 1]>> \in (0..W) \X Nat /\ i # 0
    BY <1>1
  <2> QED
    BY <1>5, <2>1
<1>7. IsBelow(f)
  <2>1. \A n \in 0..W : f[n] = IF n = 0 THEN 0 ELSE f[n - 1] + bit(n)
    BY <1>1, <1>5, <1>6
  <2> QED
    BY <2>1
<1>8. IsBelow(below)
  BY <1>7
<1> HIDE DEF below
<1>9. /\ below[0] = 0
      /\ \A n \in 1..W : below[n] = below[n - 1] + bit(n)
      /\ DOMAIN below = 0..W
  BY <1>1, <1>8
<1>10. \A n \in 0..W : n \in {k \in 0..W : below[k] = f[k]}
  <2> DEFINE T == {k \in 0..W : below[k] = f[k]}
  <2>1. 0 \in T
    BY <1>1, <1>5, <1>9
  <2>2. ASSUME NEW n \in 0..W - 1, n \in T PROVE n + 1 \in T
    <3>1. n + 1 \in 1..W /\ (n + 1) - 1 = n
      BY <1>1
    <3>2. below[n + 1] = below[n] + bit(n + 1) /\ f[n + 1] = f[n] + bit(n + 1)
      BY <1>6, <1>9, <3>1
    <3> QED
      BY <2>2, <3>1, <3>2
  <2> QED
    BY <1>1, <2>1, <2>2, Induction
<1>11. below \in [0..W -> Nat]
  BY <1>8, <1>10
<1> QED
  BY <1>3, <1>9, <1>11 DEF bit

\* Quotient and remainder are the only ones.
LEMMA Division ==
    /\ \A x \in Nat, d \in Nat \ {0} :
          /\ x \div d \in Nat /\ x % d \in 0..d - 1 /\ x = (x \div d) * d + (x % d)
          /\ x \div d <= x
    /\ \A d \in Nat \ {0}, q \in Nat : \A r \in 0..d - 1 :
          (q * d + r) \div d = q /\ (q * d + r) % d = r
<1>1. ASSUME NEW x \in Nat, NEW d \in Nat \ {0}
      PROVE  /\ x \div d \in Nat /\ x % d \in 0..d - 1 /\ x = (x \div d) * d + (x % d)
             /\ x \div d <= x
  OBVIOUS
<1>2. ASSUME NEW d \in Nat \ {0}, NEW q \in Nat, NEW r \in 0..d - 1
      PROVE (q * d + r) \div d = q /\ (q * d + r) % d = r
  OBVIOUS
<1> QED
  BY <1>1, <1>2

\* The sum of a set of bits is a word, ...
LEMMA FromBitsType == \A s : FromBits(s) \in Words
<1> SUFFICES ASSUME NEW s PROVE FromBits(s) \in Words
  OBVIOUS
<1>1. PICK below \in [0..W -> Nat] :
              /\ below[0] = 0
              /\ \A n \in 1..W :
                    below[n] = below[n - 1] + (IF n - 1 \in s THEN 2^(n - 1) ELSE 0)
              /\ FromBits(s) = below[W]
  BY FromBitsSum
<1> DEFINE T == {n \in 0..W : below[n] < 2^n}
<1>2. W \in Nat /\ 2^0 = 1
  BY WordBits, PowersAssumption
<1>3. 0 \in T
  BY <1>1, <1>2
<1>4. ASSUME NEW n \in 0..W - 1, n \in T PROVE n + 1 \in T
  <2>1. n + 1 \in 1..W /\ (n + 1) - 1 = n /\ n \in 0..W
    BY <1>2
  <2>2. below[n + 1] = below[n] + (IF n \in s THEN 2^n ELSE 0)
    BY <1>1, <2>1
  <2>3. 2^(n + 1) = 2 * 2^n /\ 2^n \in Nat \ {0} /\ below[n] < 2^n /\ below[n] \in Nat
    BY <1>4, <2>1, PowersAssumption, PowersType
  <2>4. below[n + 1] < 2^(n + 1)
    BY <2>2, <2>3
  <2> QED
    BY <2>1, <2>4
<1>5. \A n \in 0..W : n \in T
  BY <1>2, <1>3, <1>4, Induction
<1>6. below[W] < 2^W /\ below[W] \in Nat
  BY <1>2, <1>5
<1> QED
  BY <1>1, <1>6, Sizes DEF Word, Words

\* ...no larger than the sum of a set that contains it, ...
LEMMA FromBitsGrow == \A s, t : s \subseteq t => FromBits(s) <= FromBits(t)
<1> SUFFICES ASSUME NEW s, NEW t, s \subseteq t PROVE FromBits(s) <= FromBits(t)
  OBVIOUS
<1>1. PICK f \in [0..W -> Nat] :
              /\ f[0] = 0
              /\ \A n \in 1..W : f[n] = f[n - 1] + (IF n - 1 \in s THEN 2^(n - 1) ELSE 0)
              /\ FromBits(s) = f[W]
  BY FromBitsSum
<1>2. PICK g \in [0..W -> Nat] :
              /\ g[0] = 0
              /\ \A n \in 1..W : g[n] = g[n - 1] + (IF n - 1 \in t THEN 2^(n - 1) ELSE 0)
              /\ FromBits(t) = g[W]
  BY FromBitsSum
<1> DEFINE T == {n \in 0..W : f[n] <= g[n]}
<1>3. W \in Nat
  BY WordBits
<1>4. 0 \in T
  BY <1>1, <1>2, <1>3
<1>5. ASSUME NEW n \in 0..W - 1, n \in T PROVE n + 1 \in T
  <2>1. n + 1 \in 1..W /\ (n + 1) - 1 = n /\ n \in 0..W
    BY <1>3
  <2>2. /\ f[n + 1] = f[n] + (IF n \in s THEN 2^n ELSE 0)
        /\ g[n + 1] = g[n] + (IF n \in t THEN 2^n ELSE 0)
    BY <1>1, <1>2, <2>1
  <2>3. 2^n \in Nat /\ f[n] \in Nat /\ g[n] \in Nat /\ f[n] <= g[n]
    BY <1>5, <2>1, PowersType
  <2>4. f[n + 1] <= g[n + 1]
    BY <2>2, <2>3
  <2> QED
    BY <2>1, <2>4
<1>6. \A n \in 0..W : n \in T
  BY <1>3, <1>4, <1>5, Induction
<1> QED
  BY <1>1, <1>2, <1>3, <1>6

\* ...and the bits of a word add up to the word.
LEMMA BitsAddUp == \A x \in Words : FromBits(Bits(x)) = x
<1> SUFFICES ASSUME NEW x \in Words PROVE FromBits(Bits(x)) = x
  OBVIOUS
<1>1. PICK f \in [0..W -> Nat] :
              /\ f[0] = 0
              /\ \A n \in 1..W :
                    f[n] = f[n - 1] + (IF n - 1 \in Bits(x) THEN 2^(n - 1) ELSE 0)
              /\ FromBits(Bits(x)) = f[W]
  BY FromBitsSum
<1> DEFINE T == {n \in 0..W : f[n] = x % 2^n}
<1>2. W \in Nat /\ 2^0 = 1 /\ x \in Nat /\ x < Word
  BY WordBits, Sizes, PowersAssumption DEF Words
<1>3. 0 \in T
  BY <1>1, <1>2
<1>4. ASSUME NEW n \in 0..W - 1, n \in T PROVE n + 1 \in T
  <2>1. n + 1 \in 1..W /\ (n + 1) - 1 = n /\ n \in 0..W
    BY <1>2
  <2>2. f[n + 1] = f[n] + (IF n \in Bits(x) THEN 2^n ELSE 0)
    BY <1>1, <2>1
  <2> DEFINE p == 2^n
             q == x \div p
             r == x % p
             h == q \div 2
             b == q % 2
  <2>3. p \in Nat \ {0} /\ 2^(n + 1) = 2 * p /\ f[n] = r
    BY <1>4, <2>1, PowersAssumption, PowersType
  <2>4. n \in Bits(x) <=> b = 1
    BY <1>2 DEF Bits
  <2> HIDE DEF p
  <2>5. q \in Nat /\ r \in 0..p - 1 /\ x = q * p + r
    BY <1>2, <2>3, Division
  <2> HIDE DEF q, r
  <2>6. h \in Nat /\ b \in 0..1 /\ q = h * 2 + b
    BY <2>5
  <2> HIDE DEF h, b
  <2>7. x = h * (2 * p) + (b * p + r)
    BY <2>3, <2>5, <2>6
  <2>8. b * p + r \in 0..(2 * p) - 1
    <3>1. b = 0 \/ b = 1
      BY <2>6
    <3> QED
      BY <2>3, <2>5, <3>1
  <2>9. x % (2 * p) = b * p + r
    <3> DEFINE d == 2 * p
               s == b * p + r
    <3>1. d \in Nat \ {0} /\ s \in 0..d - 1 /\ x = h * d + s
      BY <2>3, <2>7, <2>8
    <3> HIDE DEF d, s
    <3>2. (h * d + s) % d = s
      BY <2>6, <3>1, Division
    <3>3. x % d = s
      BY <3>1, <3>2
    <3> QED
      BY <3>3 DEF d, s
  <2>10. f[n + 1] = r + (IF b = 1 THEN p ELSE 0)
    BY <2>2, <2>3, <2>4 DEF p
  <2>11. b * p = IF b = 1 THEN p ELSE 0
    BY <2>3, <2>6
  <2>12. f[n + 1] = x % 2^(n + 1)
    BY <2>3, <2>5, <2>6, <2>9, <2>10, <2>11, SMTT(30)
  <2> QED
    BY <2>1, <2>12
<1>5. \A n \in 0..W : n \in T
  BY <1>2, <1>3, <1>4, Induction
<1>6. f[W] = x % Word
  BY <1>2, <1>5 DEF Word
<1>7. x % Word = x
  BY <1>2, Sizes
<1> QED
  BY <1>1, <1>6, <1>7

-----------------------------------------------------------------------------
\* An element that is not 0 has an inverse, which InvMod finds.
LEMMA InverseIsElement ==
    ASSUME NEW b \in Field, b # 0 PROVE InvMod(b) \in 1..M - 1
<1>1. b \in 1..M - 1
  BY Sizes DEF Field
<1>2. \E x \in 1..M - 1 : (b * x) % M = 1
  BY <1>1, FieldAssumption
<1> QED
  BY <1>2 DEF InvMod

\* What is left of any number is a field element, and a field element is a word.
LEMMA Remainders ==
    /\ \A x \in Int : x % M \in Field /\ x % Word \in Words
    /\ Field \subseteq Words /\ Words \subseteq Nat /\ {0, 1} \subseteq Field
    /\ \A w \in Words, n \in Nat : n <= w => n \in Words
BY Sizes DEF Field, Words

\* The bitwise operations leave words; a conjunction is no larger than either
\* operand.
LEMMA BitwiseType ==
    /\ \A a, b : BitAnd(a, b) \in Words /\ BitOr(a, b) \in Words /\ BitXor(a, b) \in Words
    /\ \A a, b \in Words : BitAnd(a, b) <= a /\ BitAnd(a, b) <= b
<1>1. ASSUME NEW a \in Words, NEW b \in Words PROVE BitAnd(a, b) <= a /\ BitAnd(a, b) <= b
  <2>1. Bits(a) \cap Bits(b) \subseteq Bits(a) /\ Bits(a) \cap Bits(b) \subseteq Bits(b)
    OBVIOUS
  <2>2. /\ FromBits(Bits(a) \cap Bits(b)) <= FromBits(Bits(a))
        /\ FromBits(Bits(a) \cap Bits(b)) <= FromBits(Bits(b))
    BY <2>1, FromBitsGrow
  <2> QED
    BY <2>2, BitsAddUp DEF BitAnd
<1> QED
  BY <1>1, FromBitsType DEF BitAnd, BitOr, BitXor

\* Powers are 1 or have been reduced.
LEMMA PowModType == ASSUME NEW a \in Nat, NEW n \in Nat PROVE PowMod(a, n) \in Field
<1> DEFINE step == [t \in (0..n) \X Field |-> (t[2] * a) % M]
           IsPower(g) == g = [k \in 0..n |-> IF k = 0 THEN 1 ELSE (g[k - 1] * a) % M]
           power == CHOOSE g : IsPower(g)
<1>1. PowMod(a, n) = power[n]
  BY DEF PowMod
<1>2. step \in [(0..n) \X Field -> Field]
  <2>1. \A x \in Field : (x * a) % M \in Field
    <3>1. \A x \in Field : x \in Nat /\ x * a \in Int
      BY Remainders
    <3> QED
      BY <3>1, Remainders
  <2> QED
    BY <2>1
<1>3. PICK f \in [0..n -> Field] : f[0] = 1 /\ \A i \in 1..n : f[i] = (f[i - 1] * a) % M
  <2>1. PICK f \in [0..n -> Field] : Iterates(f, n, 1, step)
    <3> HIDE DEF step
    <3> QED
      BY <1>2, Remainders, Recursion
  <2>2. \A i \in 1..n : step[<<i, f[i - 1]>>] = (f[i - 1] * a) % M
    <3>1. \A i \in 1..n : i - 1 \in 0..n /\ i \in 0..n
      OBVIOUS
    <3> QED
      BY <3>1
  <2> QED
    BY <2>1, <2>2 DEF Iterates
<1>4. IsPower(f)
  <2>1. \A k \in 0..n : f[k] = IF k = 0 THEN 1 ELSE (f[k - 1] * a) % M
    BY <1>3
  <2> QED
    BY <2>1
<1>5. IsPower(power)
  BY <1>4
<1> HIDE DEF power
<1> DEFINE T == {k \in 0..n : power[k] \in Field}
<1>6. 0 \in T
  BY <1>5, Remainders
<1>7. ASSUME NEW k \in 0..n - 1, k \in T PROVE k + 1 \in T
  <2>1. k + 1 \in 0..n /\ k + 1 # 0 /\ (k + 1) - 1 = k /\ power[k] \in Field
    BY <1>7
  <2>2. power[k + 1] = (power[k] * a) % M
    BY <1>5, <2>1
  <2>3. power[k] * a \in Int
    <3>1. power[k] \in Nat
      BY <2>1, Remainders
    <3> QED
      BY <3>1
  <2>4. power[k + 1] \in Field
    BY <2>2, <2>3, Remainders
  <2> QED
    BY <2>1, <2>4
<1>8. \A k \in 0..n : k \in T
  BY <1>6, <1>7, Induction
<1> QED
  BY <1>1, <1>8

\* Shifts leave words.
LEMMA ShiftsType == \A a, b \in Words : ShlWord(a, b) \in Words /\ ShrWord(a, b) \in Words
<1> SUFFICES ASSUME NEW a \in Words, NEW b \in Words
             PROVE  ShlWord(a, b) \in Words /\ ShrWord(a, b) \in Words
  OBVIOUS
<1>1. a \in Nat /\ b \in Nat /\ LowLimb(b) \in Nat /\ 0 \in Words /\ W \in Nat
  BY Sizes, Remainders, WordBits DEF LowLimb
<1>2. ASSUME ~(LowLimb(b) >= W)
      PROVE  (a * 2^LowLimb(b)) % Word \in Words /\ a \div 2^LowLimb(b) \in Words
  <2>1. 2^LowLimb(b) \in Nat \ {0}
    BY <1>1, <1>2, PowersType
  <2>2. a * 2^LowLimb(b) \in Int
    BY <1>1, <2>1
  <2>3. a \div 2^LowLimb(b) \in Nat /\ a \div 2^LowLimb(b) <= a
    BY <1>1, <2>1, Division
  <2>4. a \div 2^LowLimb(b) \in Words
    BY <1>1, <2>3, Sizes DEF Words
  <2> QED
    BY <2>2, <2>4, Remainders
<1> QED
  BY <1>1, <1>2 DEF ShlWord, ShrWord

\* An operation on words has a word as its result, unless it divides.
LEMMA EvalIsWord ==
    ASSUME NEW op \in DuoOps \ {"Div", "Idiv", "Mod"}, NEW a \in Words, NEW b \in Words
    PROVE  Eval(op, a, b) \in Words
<1>0. a \in Nat /\ b \in Nat /\ M \in Nat \ {0} /\ Word \in Nat \ {0}
  BY Remainders, Sizes
<1>1. /\ a \in Nat /\ b \in Nat /\ M \in Nat \ {0} /\ Word \in Nat \ {0}
      /\ \A x \in Int : x % M \in Words /\ x % Word \in Words
      /\ \A p : Bool(p) \in Words
  <2>1. {0, 1} \subseteq Words
    BY Remainders
  <2> QED
    BY <1>0, <2>1, Remainders DEF Bool
<1>2. CASE op = "Mul"
  <2>1. a * b \in Int
    BY <1>1
  <2> QED
    BY <1>1, <1>2, <2>1 DEF Eval
<1>4. CASE op = "Add"
  <2>1. a + b \in Int
    BY <1>1
  <2> QED
    BY <1>1, <1>4, <2>1 DEF Eval
<1>5. CASE op = "Sub"
  <2>1. M - b \in Int
    BY <1>1
  <2>3. (M - b) % Word \in Words
    BY <2>1, Remainders
  <2>2. a + ((M - b) % Word) \in Int
    BY <1>1, <2>3, Remainders
  <2> QED
    BY <1>1, <1>5, <2>2 DEF Eval
<1>6. CASE op = "Pow"
  <2>1. PowMod(a, b) \in Words
    BY <1>1, PowModType, Remainders
  <2> QED
    BY <1>6, <2>1 DEF Eval
<1>8. CASE op \in {"Eq", "Neq", "Lt", "Gt", "Leq", "Geq", "Land", "Lor"}
  <2>1. /\ op = "Eq" => Eval(op, a, b) = Bool(a = b)
        /\ op = "Neq" => Eval(op, a, b) = Bool(a # b)
        /\ op = "Lt" => Eval(op, a, b) = Bool(Lt(a, b))
        /\ op = "Gt" => Eval(op, a, b) = Bool(Gt(a, b))
    BY DEF Eval
  <2>2. /\ op = "Leq" => Eval(op, a, b) = Bool(Leq(a, b))
        /\ op = "Geq" => Eval(op, a, b) = Bool(Geq(a, b))
        /\ op = "Land" => Eval(op, a, b) = Bool(a # 0 /\ b # 0)
        /\ op = "Lor" => Eval(op, a, b) = Bool(a # 0 \/ b # 0)
    BY DEF Eval
  <2> QED
    BY <1>1, <1>8, <2>1, <2>2, SMTT(30)
<1>9. CASE op \in {"Shl", "Shr"}
  <2>1. CASE op = "Shl"
    BY <2>1, ShiftsType DEF Eval
  <2>2. CASE op = "Shr"
    BY <2>2, ShiftsType DEF Eval
  <2> QED
    BY <1>9, <2>1, <2>2
<1>10. CASE op \in {"Bor", "Band", "Bxor"}
  <2>1. CASE op = "Bor"
    BY <2>1, BitwiseType DEF Eval
  <2>2. CASE op = "Band"
    BY <2>2, BitwiseType DEF Eval
  <2>3. CASE op = "Bxor"
    BY <2>3, BitwiseType DEF Eval
  <2> QED
    BY <1>10, <2>1, <2>2, <2>3
<1> QED
  BY <1>2, <1>4, <1>5, <1>6, <1>8, <1>9, <1>10 DEF DuoOps

\* Every operation on words leaves a word or panics.
LEMMA EvalType ==
    ASSUME NEW op \in DuoOps, NEW a \in Words, NEW b \in Words
    PROVE  Eval(op, a, b) \in Words \cup {Panic}
<1>0. a \in Nat /\ b \in Nat /\ M \in Nat \ {0} /\ Word \in Nat \ {0}
  BY Remainders, Sizes
<1>1. /\ a \in Nat /\ b \in Nat /\ M \in Nat \ {0} /\ Word \in Nat \ {0}
      /\ \A x \in Int : x % M \in Words /\ x % Word \in Words
      /\ \A p : Bool(p) \in Words
  <2>1. {0, 1} \subseteq Words
    BY Remainders
  <2> QED
    BY <1>0, <2>1, Remainders DEF Bool
<1>3. CASE op = "Div"
  <2>1. b % M \in Field
    BY <1>1, Remainders
  <2>2. ASSUME b % M # 0 PROVE DivMod(a, b) \in Words
    <3>1. InvMod(b % M) \in Nat
      BY <2>1, <2>2, InverseIsElement, Sizes
    <3>2. a * InvMod(b % M) \in Int
      BY <1>1, <3>1
    <3> QED
      BY <1>1, <3>2 DEF DivMod
  <2>3. 0 \in Words
    BY Remainders
  <2>4. DivWord(a, b) \in Words \cup {Panic}
    BY <2>2, <2>3 DEF DivWord
  <2> QED
    BY <1>3, <2>4 DEF Eval
<1>7. CASE op \in {"Idiv", "Mod"}
  <2>1. ASSUME b # 0 PROVE a \div b \in Words /\ a % b \in Words
    <3>1. a \div b \in Nat /\ a \div b <= a /\ a % b \in 0..b - 1
      BY <1>1, <2>1, Division
    <3>2. a % b \in Nat /\ a % b <= b
      BY <1>0, <3>1
    <3> QED
      BY <3>1, <3>2, Remainders
  <2>2. CASE op = "Idiv"
    BY <2>1, <2>2 DEF Eval
  <2>3. CASE op = "Mod"
    BY <2>1, <2>3 DEF Eval
  <2> QED
    BY <1>7, <2>2, <2>3
<1> QED
  BY <1>3, <1>7, EvalIsWord

\* Words stay words under the operations on one and on three operands.
LEMMA OtherEvalTypes ==
    /\ \A op \in UnoOps, a \in Words : UnoEval(op, a) \in Words
    /\ \A op, a : \A b, c \in Words : TresEval(op, a, b, c) \in Words
<1>1. ASSUME NEW op \in UnoOps, NEW a \in Words PROVE UnoEval(op, a) \in Words
  <2>1. M - a \in Int
    BY Remainders, Sizes
  <2>2. (M - a) % Word \in Words /\ 0 \in Words
    BY <2>1, Remainders
  <2>3. CASE op = "Neg"
    BY <2>2, <2>3 DEF UnoEval
  <2>4. CASE op = "Id"
    BY <2>4 DEF UnoEval
  <2> QED
    BY <2>3, <2>4 DEF UnoOps
<1> QED
  BY <1>1 DEF TresEval

-----------------------------------------------------------------------------
(***************************************************************************)
(* What the two versions of an operation make of field elements.           *)
(***************************************************************************)
Arithmetic == DuoOps \ {"Pow", "Shl", "Shr", "Bor", "Bxor"}

\* The modulus is odd: 2 would have no inverse otherwise.
LEMMA ModulusIsOdd == M \in Nat /\ M > 2 /\ 2 * HalfM + 1 = M /\ HalfM \in Nat
<1>1. M \in Nat /\ M > 2 /\ 2 \in 1..M - 1
  BY FieldAssumption
<1>2. PICK x \in 1..M - 1 : (2 * x) % M = 1
  BY <1>1, FieldAssumption
<1>3. 2 * x < M => (2 * x) % M = 2 * x
  BY <1>1, <1>2
<1>4. 2 * x >= M => (2 * x) % M = 2 * x - M
  <2> SUFFICES ASSUME 2 * x >= M PROVE (2 * x) % M = 2 * x - M
    OBVIOUS
  <2>1. 2 * x - M \in 0..M - 1
    BY <1>1, <1>2
  <2>2. 2 * x = 1 * M + (2 * x - M)
    BY <1>1, <1>2
  <2> QED
    BY <1>1, <1>2, <2>1, <2>2
<1>5. 2 * x # 1
  BY <1>2
<1>6. M = 2 * (x - 1) + 1
  BY <1>1, <1>2, <1>3, <1>4, <1>5
<1>7. HalfM = x - 1
  BY <1>2, <1>6 DEF HalfM
<1> QED
  BY <1>1, <1>2, <1>6, <1>7

\* A field element is a word.
LEMMA FieldIsWords == Field \subseteq Words
BY Remainders

\* What is left of a number less than one modulus away from the field.
LEMMA Reduced ==
    ASSUME NEW x \in Int, x > -M, x < 2 * M
    PROVE  /\ x < 0 => x % M = x + M
           /\ x \in 0..M - 1 => x % M = x
           /\ x >= M => x % M = x - M
<1>1. M \in Nat /\ M > 2
  BY ModulusIsOdd
<1>2. ASSUME x < 0 PROVE x % M = x + M
  BY <1>1, <1>2
<1>3. ASSUME x \in 0..M - 1 PROVE x % M = x
  BY <1>1, <1>3
<1>4. ASSUME x >= M PROVE x % M = x - M
  BY <1>1, <1>4
<1> QED
  BY <1>2, <1>3, <1>4

\* A division of field elements is folded to what it is evaluated to.
LEMMA DivisionAgrees ==
    ASSUME NEW a \in Field, NEW b \in Field
    PROVE  /\ DivWord(a, b) = IF b = 0 THEN 0 ELSE DivMod(a, b)
           /\ b # 0 => DivMod(a, b) \in Field
<1>1. M \in Nat /\ M > 2 /\ a \in Nat /\ b \in 0..M - 1 /\ b % M = b
  BY ModulusIsOdd, Reduced DEF Field
<1>2. DivWord(a, b) = IF b = 0 THEN 0 ELSE DivMod(a, b)
  BY <1>1 DEF DivWord
<1>3. ASSUME b # 0 PROVE DivMod(a, b) \in Field
  <2>1. InvMod(b) \in Nat
    BY <1>3, InverseIsElement, ModulusIsOdd
  <2>2. a * InvMod(b) \in Nat
    BY <1>1, <2>1
  <2>3. DivMod(a, b) = (a * InvMod(b)) % M
    BY <1>1 DEF DivMod
  <2> QED
    BY <1>1, <2>2, <2>3 DEF Field
<1> QED
  BY <1>2, <1>3

\* A difference of field elements is folded to what it is evaluated to,
\* although folding subtracts in words and evaluation in the field.
LEMMA DifferenceAgrees ==
    ASSUME NEW a \in Field, NEW b \in Field
    PROVE  (a + ((M - b) % Word)) % M = (a - b) % M /\ (a - b) % M \in Field
<1>1. /\ M \in Nat /\ M > 2 /\ a \in 0..M - 1 /\ b \in 0..M - 1
      /\ Word \in Nat /\ M < Word
  BY ModulusIsOdd, Sizes DEF Field
<1>2. (M - b) % Word = M - b
  <2>1. M - b \in 0..Word - 1
    BY <1>1
  <2> QED
    BY <1>1, <2>1
<1>3. CASE a < b
  <2>1. a + (M - b) \in 0..M - 1 /\ a - b \in Int /\ a - b < 0 /\ a - b > -M
    BY <1>1, <1>3
  <2>2. (a + (M - b)) % M = a + (M - b)
    BY <1>1, <2>1
  <2>3. (a - b) % M = (a - b) + M
    BY <1>1, <2>1, Reduced
  <2> QED
    BY <1>1, <1>2, <2>1, <2>2, <2>3 DEF Field
<1>4. CASE a >= b
  <2>1. a + (M - b) \in Int /\ a + (M - b) >= M /\ a + (M - b) < 2 * M
        /\ a + (M - b) > -M /\ a - b \in 0..M - 1
    BY <1>1, <1>4
  <2>2. (a + (M - b)) % M = a + (M - b) - M
    BY <1>1, <2>1, Reduced
  <2>3. (a - b) % M = a - b
    BY <1>1, <2>1
  <2> QED
    BY <1>1, <1>2, <2>1, <2>2, <2>3 DEF Field
<1> QED
  BY <1>1, <1>3, <1>4

-----------------------------------------------------------------------------
\* What the two versions of an operation make of the same two elements.
Agrees(op, a, b) ==
    /\ EvalFr(op, a, b) \in Field
    /\ \/ Eval(op, a, b) = EvalFr(op, a, b)
       \/ op \in {"Idiv", "Mod"} /\ Eval(op, a, b) = Panic /\ EvalFr(op, a, b) = 0

\* Every arithmetic operation gives both versions the same field element, but
\* for a division by 0.
LEMMA OperationsAgree ==
    ASSUME NEW a \in Field, NEW b \in Field, NEW op \in Arithmetic
    PROVE  Agrees(op, a, b)
<1>1. /\ M \in Nat /\ M > 2 /\ a \in 0..M - 1 /\ b \in 0..M - 1
      /\ a \in Nat /\ b \in Nat
  BY ModulusIsOdd DEF Field
<1>2. \A x \in Int : x % M \in Field
  BY <1>1 DEF Field
<1>3. \A p \in BOOLEAN : Bool(p) \in Field
  BY <1>1 DEF Bool, Field
<1>4. CASE op = "Mul"
  <2>1. a * b \in Int
    BY <1>1
  <2>2. (a * b) % M \in Field
    BY <1>2, <2>1
  <2>3. Eval(op, a, b) = (a * b) % M /\ EvalFr(op, a, b) = (a * b) % M
    BY <1>4 DEF Eval, EvalFr
  <2> QED
    BY <2>2, <2>3 DEF Agrees
<1>5. CASE op = "Div"
  <2>1. Eval(op, a, b) = DivWord(a, b)
        /\ EvalFr(op, a, b) = IF b = 0 THEN 0 ELSE DivMod(a, b)
    BY <1>5 DEF Eval, EvalFr
  <2>2. 0 \in Field
    BY <1>1 DEF Field
  <2> QED
    BY <2>1, <2>2, DivisionAgrees DEF Agrees
<1>6. CASE op = "Add"
  <2>1. a + b \in Int
    BY <1>1
  <2>2. (a + b) % M \in Field
    BY <1>2, <2>1
  <2>3. Eval(op, a, b) = (a + b) % M /\ EvalFr(op, a, b) = (a + b) % M
    BY <1>6 DEF Eval, EvalFr
  <2> QED
    BY <2>2, <2>3 DEF Agrees
<1>7. CASE op = "Sub"
  <2>1. Eval(op, a, b) = (a + ((M - b) % Word)) % M /\ EvalFr(op, a, b) = (a - b) % M
    BY <1>7 DEF Eval, EvalFr
  <2> QED
    BY <2>1, DifferenceAgrees DEF Agrees
<1>8. CASE op = "Idiv"
  <2>1. Eval(op, a, b) = (IF b = 0 THEN Panic ELSE a \div b)
        /\ EvalFr(op, a, b) = (IF b = 0 THEN 0 ELSE a \div b)
    BY <1>8 DEF Eval, EvalFr
  <2>2. 0 \in Field
    BY <1>1 DEF Field
  <2>3. ASSUME b # 0 PROVE a \div b \in Field
    <3>1. a \div b \in Nat /\ a \div b <= a
      BY <1>1, <2>3
    <3> QED
      BY <1>1, <3>1 DEF Field
  <2> QED
    BY <1>8, <2>1, <2>2, <2>3 DEF Agrees
<1>9. CASE op = "Mod"
  <2>1. Eval(op, a, b) = (IF b = 0 THEN Panic ELSE a % b)
        /\ EvalFr(op, a, b) = (IF b = 0 THEN 0 ELSE a % b)
    BY <1>9 DEF Eval, EvalFr
  <2>2. 0 \in Field
    BY <1>1 DEF Field
  <2>3. ASSUME b # 0 PROVE a % b \in Field
    <3>1. a % b \in 0..b - 1
      BY <1>1, <2>3
    <3> QED
      BY <1>1, <3>1 DEF Field
  <2> QED
    BY <1>9, <2>1, <2>2, <2>3 DEF Agrees
<1>10. CASE op \in {"Eq", "Neq", "Land", "Lor"}
  <2>1. PICK p \in BOOLEAN : Eval(op, a, b) = Bool(p) /\ EvalFr(op, a, b) = Bool(p)
    <3>1. CASE op = "Eq"
      BY <3>1 DEF Eval, EvalFr
    <3>2. CASE op = "Neq"
      BY <3>2 DEF Eval, EvalFr
    <3>3. CASE op = "Land"
      BY <3>3 DEF Eval, EvalFr
    <3>4. CASE op = "Lor"
      BY <3>4 DEF Eval, EvalFr
    <3> QED
      BY <1>10, <3>1, <3>2, <3>3, <3>4
  <2> QED
    BY <1>3, <2>1 DEF Agrees
<1>11. CASE op \in {"Lt", "Gt", "Leq", "Geq"}
  <2>1. Eval(op, a, b) = EvalFr(op, a, b)
    <3>1. CASE op = "Lt"
      BY <3>1 DEF Eval, EvalFr
    <3>2. CASE op = "Gt"
      BY <3>2 DEF Eval, EvalFr
    <3>3. CASE op = "Leq"
      BY <3>3 DEF Eval, EvalFr
    <3>4. CASE op = "Geq"
      BY <3>4 DEF Eval, EvalFr
    <3> QED
      BY <1>11, <3>1, <3>2, <3>3, <3>4
  <2>2. EvalFr(op, a, b) \in Field
    <3>0. Bool(Lt(a, b)) \in Field /\ Bool(Gt(a, b)) \in Field
          /\ Bool(Leq(a, b)) \in Field /\ Bool(Geq(a, b)) \in Field
      BY <1>1 DEF Bool, Field
    <3>1. CASE op = "Lt"
      BY <3>0, <3>1 DEF EvalFr
    <3>2. CASE op = "Gt"
      BY <3>0, <3>2 DEF EvalFr
    <3>3. CASE op = "Leq"
      BY <3>0, <3>3 DEF EvalFr
    <3>4. CASE op = "Geq"
      BY <3>0, <3>4 DEF EvalFr
    <3> QED
      BY <1>11, <3>1, <3>2, <3>3, <3>4
  <2> QED
    BY <2>1, <2>2 DEF Agrees
<1>12. CASE op = "Band"
  <2>1. a \in Words /\ b \in Words
    BY Remainders
  <2>2. BitAnd(a, b) \in Nat /\ BitAnd(a, b) <= a
    BY <2>1, BitwiseType, Remainders
  <2>3. BitAnd(a, b) < M /\ BitAnd(a, b) \in Field
    BY <1>1, <2>2 DEF Field
  <2>4. UnwrapBits(BitAnd(a, b)) = BitAnd(a, b)
    BY <1>1, <2>2, <2>3 DEF UnwrapBits, Unwrap
  <2>5. Eval(op, a, b) = BitAnd(a, b) /\ EvalFr(op, a, b) = UnwrapBits(BitAnd(a, b))
    BY <1>12 DEF Eval, EvalFr
  <2> QED
    BY <2>3, <2>4, <2>5 DEF Agrees
<1> QED
  BY <1>4, <1>5, <1>6, <1>7, <1>8, <1>9, <1>10, <1>11, <1>12 DEF Arithmetic, DuoOps

\* The same of the negation.
LEMMA NegationAgrees ==
    ASSUME NEW a \in Field
    PROVE  UnoEvalFr("Neg", a) \in Field /\ UnoEval("Neg", a) = UnoEvalFr("Neg", a)
<1>1. /\ M \in Nat /\ M > 2 /\ a \in 0..M - 1
      /\ Word \in Nat /\ M < Word
  BY ModulusIsOdd, Sizes DEF Field
<1>2. /\ UnoEval("Neg", a) = IF a = 0 THEN 0 ELSE (M - a) % Word
      /\ UnoEvalFr("Neg", a) = IF a = 0 THEN 0 ELSE Unwrap(M - a)
  BY DEF UnoEval, UnoEvalFr
<1>3. ASSUME a # 0 PROVE (M - a) % Word = M - a /\ Unwrap(M - a) = M - a /\ M - a \in Field
  <2>1. M - a \in 0..Word - 1 /\ M - a \in 0..M - 1
    BY <1>1, <1>3
  <2>2. (M - a) % Word = M - a
    BY <1>1, <2>1
  <2>3. M - a < M
    BY <1>1, <1>3
  <2>4. Unwrap(M - a) = M - a
    BY <2>3 DEF Unwrap
  <2>5. M - a \in Field
    BY <2>1 DEF Field
  <2> QED
    BY <2>2, <2>4, <2>5
<1>4. 0 \in Field
  BY <1>1 DEF Field
<1> QED
  BY <1>2, <1>3, <1>4

\* Panic is no field element.
LEMMA PanicIsNoElement == Panic \notin Field
BY ModulusIsOdd DEF Panic, Field

-----------------------------------------------------------------------------
(***************************************************************************)
(* Renumbering: the rank of a kept position among the kept positions.      *)
(***************************************************************************)

\* Ranks are positions of the new vector.
LEMMA RankType ==
    ASSUME NEW keep \in SUBSET Nat, IsFiniteSet(keep)
    PROVE  /\ Cardinality(keep) \in Nat
           /\ Renumber(keep) \in [keep -> 1..Cardinality(keep)]
<1>1. Cardinality(keep) \in Nat
  BY FS_CardinalityType
<1>2. ASSUME NEW i \in keep
      PROVE  Cardinality({j \in keep : j <= i}) \in 1..Cardinality(keep)
  <2> DEFINE S == {j \in keep : j <= i}
  <2>1. IsFiniteSet(S) /\ Cardinality(S) <= Cardinality(keep)
    BY FS_Subset
  <2>2. i \in S
    OBVIOUS
  <2>3. Cardinality(S) \in Nat /\ Cardinality(S) # 0
    BY <2>1, <2>2, FS_CardinalityType, FS_EmptySet
  <2> QED
    BY <2>1, <2>3, <1>1
<1> QED
  BY <1>1, <1>2 DEF Renumber

\* Renumbering keeps the order of the nodes.
LEMMA RankIncreases ==
    ASSUME NEW keep \in SUBSET Nat, IsFiniteSet(keep),
           NEW i \in keep, NEW j \in keep, i < j
    PROVE  Renumber(keep)[i] < Renumber(keep)[j]
<1> DEFINE S == {k \in keep : k <= i}
           T == {k \in keep : k <= j}
<1>1. S \in SUBSET T /\ j \in T /\ j \notin S
  <2>1. keep \subseteq Int /\ i \in Int /\ j \in Int
    OBVIOUS
  <2>2. \A k \in keep : k <= i => k <= j
    BY <2>1
  <2>3. j \in T /\ j \notin S
    BY <2>1
  <2> QED
    BY <2>2, <2>3
<1>2. IsFiniteSet(T)
  BY FS_Subset
<1>3. /\ IsFiniteSet(S) /\ Cardinality(S) <= Cardinality(T)
      /\ Cardinality(S) # Cardinality(T)
  BY <1>1, <1>2, FS_Subset
<1>4. Cardinality(S) \in Nat /\ Cardinality(T) \in Nat
  BY <1>2, <1>3, FS_CardinalityType
<1> QED
  BY <1>3, <1>4 DEF Renumber

\* Every position of the new vector is the rank of one kept position, so
\* that Kept takes each kept node exactly once.
LEMMA RankIsBijective ==
    ASSUME NEW keep \in SUBSET Nat, IsFiniteSet(keep)
    PROVE  /\ \A k \in 1..Cardinality(keep) :
                  \E i \in keep : Renumber(keep)[i] = k
           /\ \A i, j \in keep : Renumber(keep)[i] = Renumber(keep)[j] => i = j
<1> DEFINE C == Cardinality(keep)
           r == Renumber(keep)
<1>1. C \in Nat /\ r \in [keep -> 1..C]
  BY RankType
<1>2. \A i, j \in keep : r[i] = r[j] => i = j
  <2>1. SUFFICES ASSUME NEW i \in keep, NEW j \in keep, r[i] = r[j], i # j
                 PROVE  FALSE
    OBVIOUS
  <2>2. i < j \/ j < i
    BY <2>1
  <2>3. r[i] < r[j] \/ r[j] < r[i]
    BY <2>2, RankIncreases
  <2> QED
    BY <2>1, <2>3, <1>1
<1>3. r \in Injection(keep, 1..C)
  BY <1>1, <1>2, Fun_IsInj
<1>4. IsFiniteSet(1..C) /\ Cardinality(1..C) = C
  BY <1>1, FS_Interval
<1>5. r \in Surjection(keep, 1..C)
  BY <1>3, <1>4, FS_Injection
<1> QED
  BY <1>2, <1>5 DEF Surjection

-----------------------------------------------------------------------------
(***************************************************************************)
(* Graphs.                                                                 *)
(***************************************************************************)

\* The positions of a graph are 1..Len(ns), and there is a node at each.
LEMMA GraphShape ==
    ASSUME NEW ns, IsGraph(ns)
    PROVE  /\ Len(ns) \in Nat /\ DOMAIN ns = 1..Len(ns)
           /\ \A i \in 1..Len(ns) : IsNode(ns[i])
BY LenProperties DEF IsGraph

\* A function from 1..n to nodes is a graph of n nodes.
LEMMA GraphOf ==
    ASSUME NEW n \in Nat, NEW f, f = [k \in 1..n |-> f[k]],
           \A k \in 1..n : IsNode(f[k])
    PROVE  IsGraph(f) /\ Len(f) = n
<1>1. f \in [1..n -> Range(f)]
  BY DEF Range
<1>2. f \in Seq(Range(f)) /\ Len(f) = n
  BY <1>1
<1> QED
  BY <1>2 DEF IsGraph

\* A set of positions of a graph is a finite set of numbers.
LEMMA PositionsAreFinite ==
    ASSUME NEW ns, IsGraph(ns), NEW keep \in SUBSET (DOMAIN ns)
    PROVE  keep \in SUBSET Nat /\ IsFiniteSet(keep)
<1>1. Len(ns) \in Nat /\ DOMAIN ns = 1..Len(ns)
  BY GraphShape
<1>2. IsFiniteSet(1..Len(ns))
  BY <1>1, FS_Interval
<1>3. IsFiniteSet(keep)
  BY <1>1, <1>2, FS_Subset
<1> QED
  BY <1>1, <1>3

\* Moving the references of a node moves nothing else.
LEMMA MovedNode ==
    ASSUME NEW n, IsNode(n), NEW f, \A a \in Refs(n) : f[a] \in Nat
    PROVE  /\ IsNode(MapRefs(n, f))
           /\ Refs(MapRefs(n, f)) = {f[a] : a \in Refs(n)}
           /\ MapRefs(n, f).kind = n.kind
<1> DEFINE d == 1..Arity[n.kind]
           moved == [k \in DOMAIN n.args |-> f[n.args[k]]]
<1>1. n.args \in [d -> Nat] /\ DOMAIN n.args = d
  BY DEF IsNode
<1>2. \A k \in d : n.args[k] \in Refs(n)
  BY <1>1 DEF Refs, Range
<1>3. moved \in [d -> Nat]
  BY <1>1, <1>2
<1>4. /\ MapRefs(n, f).kind = n.kind /\ MapRefs(n, f).op = n.op
      /\ MapRefs(n, f).val = n.val /\ MapRefs(n, f).args = moved
      /\ MapRefs(n, f) = Node(n.kind, n.op, n.val, moved)
  BY DEF MapRefs, Node
<1>5. IsNode(MapRefs(n, f))
  BY <1>3, <1>4 DEF IsNode
<1>6. Range(moved) = {f[a] : a \in Range(n.args)}
  BY <1>1 DEF Range
<1> QED
  BY <1>4, <1>5, <1>6 DEF Refs

\* Constant and MontConstant make nodes without references.
LEMMA ConstantNode ==
    ASSUME NEW c
    PROVE  /\ IsNode(Constant(c)) /\ Refs(Constant(c)) = {}
           /\ IsNode(MontConstant(c)) /\ Refs(MontConstant(c)) = {}
<1>1. \A f \in [1..0 -> Nat] : Range(f) = {}
  BY DEF Range
<1>2. <<>> \in [1..0 -> Nat]
  OBVIOUS
<1>3. Arity["Constant"] = 0 /\ Arity["MontConstant"] = 0
  BY DEF Arity
<1>4. {"Constant", "MontConstant"} \subseteq DOMAIN Arity
  BY DEF Arity
<1>5. Operations["Constant"] = {"none"} /\ Operations["MontConstant"] = {"none"}
  BY DEF Operations
<1> QED
  BY <1>1, <1>2, <1>3, <1>4, <1>5 DEF IsNode, Constant, MontConstant, Node, Refs

\* InputNode makes nodes, and so does an operation on two earlier nodes.
LEMMA InputAndOpNode ==
    /\ \A i : /\ IsNode(InputNode(i)) /\ InputNode(i).kind = "Input"
              /\ InputNode(i).val = i
    /\ \A op \in DuoOps, a, b \in Nat :
          /\ IsNode(Op(op, a, b)) /\ Op(op, a, b).kind = "Op"
          /\ Op(op, a, b).op = op /\ Op(op, a, b).val = 0
          /\ Op(op, a, b).args[1] = a /\ Op(op, a, b).args[2] = b
<1>1. <<>> \in [1..0 -> Nat] /\ \A a, b \in Nat : <<a, b>> \in [1..2 -> Nat]
  OBVIOUS
<1>2. Arity["Input"] = 0 /\ Arity["Op"] = 2 /\ {"Input", "Op"} \subseteq DOMAIN Arity
  BY DEF Arity
<1>3. Operations["Input"] = {"none"} /\ Operations["Op"] = DuoOps
  BY DEF Operations
<1> QED
  BY <1>1, <1>2, <1>3 DEF IsNode, InputNode, Op, Node

\* The nodes retain keeps, in their order.
LEMMA KeptNodes ==
    ASSUME NEW keep \in SUBSET Nat, IsFiniteSet(keep), NEW ns
    PROVE  /\ DOMAIN Kept(ns, keep) = 1..Cardinality(keep)
           /\ \A k \in 1..Cardinality(keep) : \E i \in keep :
                  Renumber(keep)[i] = k /\ Kept(ns, keep)[k] = ns[i]
           /\ \A i \in keep : Kept(ns, keep)[Renumber(keep)[i]] = ns[i]
<1> DEFINE r == Renumber(keep)
           C == Cardinality(keep)
           at(k) == CHOOSE i \in keep : r[i] = k
<1>1. \A k \in 1..C : at(k) \in keep /\ r[at(k)] = k
  BY RankIsBijective
<1>2. \A k \in 1..C : Kept(ns, keep)[k] = ns[at(k)]
  BY DEF Kept
<1>3. ASSUME NEW i \in keep
      PROVE  r[i] \in 1..C /\ at(r[i]) = i
  <2>1. r[i] \in 1..C
    BY RankType
  <2>2. at(r[i]) \in keep /\ r[at(r[i])] = r[i]
    BY <1>1, <2>1
  <2>3. \A j \in keep : r[j] = r[i] => j = i
    BY RankIsBijective
  <2> QED
    BY <2>1, <2>2, <2>3
<1>4. DOMAIN Kept(ns, keep) = 1..C
  BY DEF Kept
<1> QED
  BY <1>1, <1>2, <1>3, <1>4, ZenonT(60)

\* A pass that keeps the references of every node, or moves them to earlier
\* nodes, leaves a graph whose references point backwards.
LEMMA SameLength ==
    ASSUME NEW ns, IsGraph(ns), NEW new,
           new = [k \in DOMAIN ns |-> new[k]],
           \A k \in DOMAIN ns : IsNode(new[k]) /\ Refs(new[k]) \subseteq 1..k - 1
    PROVE  IsGraph(new) /\ BackRefs(new) /\ DOMAIN new = DOMAIN ns
<1>1. Len(ns) \in Nat /\ DOMAIN ns = 1..Len(ns)
  BY GraphShape
<1>2. IsGraph(new)
  BY <1>1, GraphOf
<1>3. DOMAIN new = DOMAIN ns
  OBVIOUS
<1> QED
  BY <1>2, <1>3 DEF BackRefs

-----------------------------------------------------------------------------
(***************************************************************************)
(* The size of the input buffer.                                           *)
(***************************************************************************)

\* Numbers of which there are finitely many have a bound.
LEMMA BoundOfNumbers ==
    ASSUME NEW N \in Nat, NEW f, \A k \in 1..N : f[k] \in Nat
    PROVE  \E b \in Nat : \A k \in 1..N : f[k] <= b
<1> DEFINE Bounded(n) == \E b \in Nat : \A k \in 1..n : f[k] <= b
           T == {n \in 0..N : Bounded(n)}
<1>1. 0 \in T
  <2>1. Bounded(0)
    <3>1. \A k \in 1..0 : f[k] <= 0
      OBVIOUS
    <3> QED
      BY <3>1
  <2> HIDE DEF Bounded
  <2> QED
    BY <2>1
<1>2. ASSUME NEW n \in 0..N - 1, n \in T PROVE n + 1 \in T
  <2>1. PICK b \in Nat : \A k \in 1..n : f[k] <= b
    BY <1>2
  <2>2. f[n + 1] \in Nat /\ n + 1 \in 0..N
    OBVIOUS
  <2>3. \A k \in 1..n + 1 : f[k] \in Nat /\ (k \in 1..n \/ k = n + 1)
    OBVIOUS
  <2>4. \A k \in 1..n + 1 : f[k] <= b + f[n + 1]
    BY <2>1, <2>2, <2>3
  <2>5. b + f[n + 1] \in Nat
    BY <2>2
  <2>6. Bounded(n + 1)
    BY <2>4, <2>5
  <2> HIDE DEF Bounded
  <2> QED
    BY <2>2, <2>6
<1> HIDE DEF T
<1>3. \A n \in 0..N : n \in T
  BY <1>1, <1>2, Induction
<1>4. N \in T
  <2> N \in 0..N
    OBVIOUS
  <2> QED
    BY <1>3
<1> QED
  BY <1>4, Zenon DEF T

\* When no other node stands between two Input nodes, the first run of Input
\* nodes is all of them, and the buffer has a place for each of them and none
\* behind the last.
THEOREM BufferSize ==
    ASSUME NEW ns, IsGraph(ns), InputNodes(ns) # {}, InputsTogether(ns),
           \A k \in InputNodes(ns) : ns[k].val \in Nat
    PROVE  /\ InputsSize(ns) - 1 = Max({ns[k].val : k \in InputNodes(ns)})
           /\ InputsSize(ns) \in Nat \ {0}
           /\ \A k \in InputNodes(ns) : ns[k].val \in 0..InputsSize(ns) - 1
<1> DEFINE I == InputNodes(ns)
           vals == {ns[k].val : k \in I}
<1>1. Len(ns) \in Nat /\ DOMAIN ns = 1..Len(ns)
  BY GraphShape
<1>2. I \in SUBSET Nat /\ I \subseteq 1..Len(ns)
  BY <1>1 DEF InputNodes
<1>3. Min(I) \in I /\ \A k \in I : Min(I) <= k
  BY <1>2, LeastNatural
<1>4. FirstRun(ns) = I
  BY <1>3 DEF FirstRun, InputsTogether
<1>5. PICK b \in Nat : \A x \in vals : x <= b
  <2> DEFINE f == [k \in 1..Len(ns) |-> IF k \in I THEN ns[k].val ELSE 0]
  <2>1. \A k \in 1..Len(ns) : f[k] \in Nat
    OBVIOUS
  <2>2. \A k \in I : k \in 1..Len(ns) /\ f[k] = ns[k].val
    BY <1>2
  <2> HIDE DEF f, I
  <2>3. \E b \in Nat : \A k \in 1..Len(ns) : f[k] <= b
    BY <1>1, <2>1, BoundOfNumbers
  <2> QED
    BY <2>2, <2>3
<1>6. vals \in SUBSET Nat /\ vals # {}
  OBVIOUS
<1>7. Max(vals) \in vals /\ \A y \in vals : y <= Max(vals)
  BY <1>5, <1>6, GreatestNatural
<1>8. InputsSize(ns) = Max(vals) + 1
  BY <1>4 DEF InputsSize
<1>9. Max(vals) \in Nat
  BY <1>6, <1>7
<1>10. InputsSize(ns) - 1 = Max(vals) /\ InputsSize(ns) \in Nat \ {0}
  <2> HIDE DEF vals
  <2> QED
    BY <1>8, <1>9
<1>11. ASSUME NEW k \in I PROVE ns[k].val \in 0..InputsSize(ns) - 1
  <2>1. ns[k].val \in Nat /\ ns[k].val <= Max(vals)
    BY <1>7
  <2> HIDE DEF vals
  <2> QED
    BY <1>9, <1>10, <2>1
<1> QED
  BY <1>10, <1>11

\* The first i elements of g, as a sequence.
StartsAs(s, g, i) == s \in Seq(Range(g)) /\ Len(s) = i /\ \A k \in 1..i : s[k] = g[k]

\* What is appended one by one stays where it is.
LEMMA AppendedOneByOne ==
    ASSUME NEW N \in Nat, NEW f, NEW g, DOMAIN g = 1..N, f[0] = <<>>,
           \A i \in 1..N : f[i] = Append(f[i - 1], g[i])
    PROVE  \A i \in 0..N : StartsAs(f[i], g, i)
<1> DEFINE Good(i) == /\ f[i] \in Seq(Range(g)) /\ Len(f[i]) = i
                      /\ \A k \in 1..i : f[i][k] = g[k]
           T == {i \in 0..N : Good(i)}
<1>1. 0 \in T
  <2>1. <<>> \in Seq(Range(g)) /\ Len(<<>>) = 0
    OBVIOUS
  <2>2. Good(0)
    BY <2>1
  <2> HIDE DEF Good
  <2> QED
    BY <2>2
<1>2. ASSUME NEW n \in 0..N - 1, n \in T PROVE n + 1 \in T
  <2>1. n + 1 \in 1..N /\ (n + 1) - 1 = n /\ n + 1 \in 0..N
    OBVIOUS
  <2>2. f[n] \in Seq(Range(g)) /\ Len(f[n]) = n /\ \A k \in 1..n : f[n][k] = g[k]
    BY <1>2
  <2>3. f[n + 1] = Append(f[n], g[n + 1])
    BY <2>1
  <2>4. g[n + 1] \in Range(g)
    BY <2>1 DEF Range
  <2> DEFINE s == f[n]
             e == g[n + 1]
  <2> HIDE DEF s, e
  <2>5. /\ Append(s, e) \in Seq(Range(g)) /\ Len(Append(s, e)) = n + 1
        /\ Append(s, e)[n + 1] = e /\ \A k \in 1..n : Append(s, e)[k] = s[k]
    <3> DEFINE R == Range(g)
    <3>1. s \in Seq(R) /\ Len(s) = n /\ e \in R
      BY <2>2, <2>4 DEF s, e
    <3> HIDE DEF R
    <3>2. Append(s, e) \in Seq(R)
      BY <3>1, AppendProperties
    <3>3. Len(Append(s, e)) = n + 1
      BY <3>1, AppendProperties
    <3>4. Append(s, e)[n + 1] = e /\ \A k \in 1..n : Append(s, e)[k] = s[k]
      BY <3>1, AppendProperties
    <3> QED
      BY <3>2, <3>3, <3>4 DEF R
  <2>6. \A k \in 1..n + 1 : k = n + 1 \/ k \in 1..n
    OBVIOUS
  <2>7. Good(n + 1)
    BY <2>2, <2>3, <2>5, <2>6 DEF s, e
  <2> QED
    BY <2>1, <2>7
<1> HIDE DEF Good
<1>3. \A i \in 0..N : i \in T
  BY <1>1, <1>2, Induction
<1> QED
  BY <1>3 DEF Good, StartsAs

\* What a node evaluates to depends on the values it refers to.
LEMMA NodeValueDepends ==
    ASSUME NEW n, IsNode(n), NEW vs, NEW ws, NEW inputs,
           \A a \in Refs(n) : vs[a] = ws[a]
    PROVE  NodeValue(n, vs, inputs) = NodeValue(n, ws, inputs)
<1>1. \A k \in 1..Arity[n.kind] : n.args[k] \in Refs(n)
  BY DEF IsNode, Refs, Range
<1>2. \A k \in 1..Arity[n.kind] : vs[n.args[k]] = ws[n.args[k]]
  BY <1>1
<1>3. n.kind \in {"Input", "Constant", "MontConstant", "UnoOp", "Op", "TresOp"}
  BY DEF IsNode, Arity
<1>4. CASE n.kind = "UnoOp"
  <2>1. vs[n.args[1]] = ws[n.args[1]]
    BY <1>2, <1>4 DEF Arity
  <2> QED
    BY <1>4, <2>1 DEF NodeValue
<1>5. CASE n.kind = "Op"
  <2>1. vs[n.args[1]] = ws[n.args[1]] /\ vs[n.args[2]] = ws[n.args[2]]
    BY <1>2, <1>5 DEF Arity
  <2> QED
    BY <1>5, <2>1 DEF NodeValue
<1>6. CASE n.kind = "TresOp"
  <2>1. /\ vs[n.args[1]] = ws[n.args[1]] /\ vs[n.args[2]] = ws[n.args[2]]
        /\ vs[n.args[3]] = ws[n.args[3]]
    BY <1>2, <1>6 DEF Arity
  <2> QED
    BY <1>6, <2>1 DEF NodeValue
<1>7. CASE n.kind \notin {"UnoOp", "Op", "TresOp"}
  BY <1>3, <1>7 DEF NodeValue
<1> QED
  BY <1>4, <1>5, <1>6, <1>7

\* evaluate gives each node the value of its operation on the values of the
\* nodes it refers to.
LEMMA ValuesFound ==
    ASSUME NEW ns, IsGraph(ns), BackRefs(ns), NEW inputs
    PROVE  LET vs == Values(ns, inputs)
           IN  /\ vs \in Seq(Range(vs)) /\ DOMAIN vs = DOMAIN ns
               /\ \A i \in DOMAIN ns : vs[i] = NodeValue(ns[i], vs, inputs)
<1> DEFINE N == Len(ns)
           IsUpTo(f, n) ==
               f = [i \in 0..n |-> IF i = 0 THEN <<>>
                                   ELSE Append(f[i - 1], NodeValue(ns[i], f[i - 1], inputs))]
           upTo == CHOOSE f : IsUpTo(f, N)
           T == {n \in 0..N : \E f : IsUpTo(f, n)}
<1>1. N \in Nat /\ DOMAIN ns = 1..N /\ \A i \in 1..N : IsNode(ns[i])
  BY GraphShape
<1>2. Values(ns, inputs) = upTo[N]
  BY DEF Values
<1>3. 0 \in T
  <2>1. IsUpTo([i \in 0..0 |-> <<>>], 0)
    OBVIOUS
  <2> HIDE DEF IsUpTo
  <2> QED
    BY <1>1, <2>1
<1>4. ASSUME NEW n \in 0..N - 1, n \in T PROVE n + 1 \in T
  <2>1. PICK f : IsUpTo(f, n)
    BY <1>4
  <2> DEFINE g == [i \in 0..n + 1 |->
                      IF i <= n THEN f[i] ELSE Append(f[n], NodeValue(ns[n + 1], f[n], inputs))]
  <2>2. \A i \in 0..n : g[i] = f[i]
    BY <1>1
  <2>3. g[n + 1] = Append(f[n], NodeValue(ns[n + 1], f[n], inputs))
    BY <1>1
  <2>4. ASSUME NEW i \in 0..n + 1
        PROVE  g[i] = IF i = 0 THEN <<>>
                      ELSE Append(g[i - 1], NodeValue(ns[i], g[i - 1], inputs))
    <3> HIDE DEF g
    <3>1. CASE i = n + 1
      <4>1. n + 1 # 0 /\ (n + 1) - 1 = n /\ n \in 0..n
        BY <1>1
      <4> QED
        BY <2>2, <2>3, <3>1, <4>1
    <3>2. CASE i = 0
      BY <1>1, <2>1, <2>2, <3>2
    <3>3. CASE i \in 1..n
      <4>1. i \in 0..n /\ i - 1 \in 0..n /\ i # 0
        BY <1>1, <3>3
      <4>2. f[i] = Append(f[i - 1], NodeValue(ns[i], f[i - 1], inputs))
        BY <2>1, <4>1
      <4> QED
        BY <2>2, <4>1, <4>2
    <3> QED
      BY <1>1, <3>1, <3>2, <3>3
  <2>5. IsUpTo(g, n + 1)
    <3>1. g = [i \in 0..n + 1 |-> g[i]]
      OBVIOUS
    <3> HIDE DEF g
    <3> QED
      BY <2>4, <3>1
  <2>6. n + 1 \in 0..N
    BY <1>1
  <2> HIDE DEF g, IsUpTo
  <2> QED
    BY <2>5, <2>6
<1>5. \A n \in 0..N : n \in T
  <2> HIDE DEF T
  <2> QED
    BY <1>1, <1>3, <1>4, Induction, SMTT(30)
<1>6. IsUpTo(upTo, N)
  <2>1. \E f : IsUpTo(f, N)
    <3> HIDE DEF IsUpTo
    <3>2. N \in 0..N
      BY <1>1
    <3>1. N \in T
      BY <1>5, <3>2
    <3> QED
      BY <3>1
  <2> QED
    BY <2>1
<1> HIDE DEF upTo
<1> DEFINE e == [i \in 1..N |-> NodeValue(ns[i], upTo[i - 1], inputs)]
<1>7. upTo[0] = <<>> /\ \A i \in 1..N : upTo[i] = Append(upTo[i - 1], e[i])
  <2>1. 0 \in 0..N /\ \A i \in 1..N : i \in 0..N /\ i # 0
    BY <1>1
  <2> QED
    BY <1>6, <2>1
<1>8. DOMAIN e = 1..N
  OBVIOUS
<1>9. \A i \in 1..N : e[i] = NodeValue(ns[i], upTo[i - 1], inputs)
  OBVIOUS
<1> HIDE DEF e, IsUpTo, N
<1>10. \A i \in 0..N : StartsAs(upTo[i], e, i)
  <2>1. upTo[0] = <<>>
    BY <1>7
  <2>2. \A i \in 1..N : upTo[i] = Append(upTo[i - 1], e[i])
    BY <1>7
  <2> QED
    BY <1>1, <1>8, <2>1, <2>2, AppendedOneByOne
<1> DEFINE vs == upTo[N]
<1>11. vs \in Seq(Range(e)) /\ Len(vs) = N /\ \A k \in 1..N : vs[k] = e[k]
  BY <1>1, <1>10 DEF StartsAs
<1>12. ASSUME NEW i \in 1..N PROVE vs[i] = NodeValue(ns[i], vs, inputs)
  <2>1. i - 1 \in 0..N /\ \A a \in 1..i - 1 : a \in 1..N
    BY <1>1
  <2>2. \A a \in Refs(ns[i]) : a \in 1..i - 1
    BY <1>1 DEF BackRefs
  <2>3. \A a \in Refs(ns[i]) : upTo[i - 1][a] = e[a] /\ vs[a] = e[a]
    BY <1>10, <1>11, <2>1, <2>2 DEF StartsAs
  <2>4. \A a \in Refs(ns[i]) : upTo[i - 1][a] = vs[a]
    BY <2>3
  <2> HIDE DEF vs
  <2>5. NodeValue(ns[i], upTo[i - 1], inputs) = NodeValue(ns[i], vs, inputs)
    BY <1>1, <2>4, NodeValueDepends
  <2> QED
    BY <1>9, <1>11, <2>5
<1> HIDE DEF vs
<1>13. vs \in Seq(Range(vs)) /\ DOMAIN vs = 1..N
  <2>1. vs \in [1..N -> Range(e)]
    BY <1>11
  <2>2. vs \in [1..N -> Range(vs)]
    BY <2>1 DEF Range
  <2> QED
    BY <1>1, <2>1, <2>2
<1>14. Values(ns, inputs) = vs
  BY <1>2 DEF vs
<1> QED
  BY <1>1, <1>12, <1>13, <1>14

\* What a node draws depends on what the nodes it refers to have drawn.
LEMMA RandomValueDepends ==
    ASSUME NEW n, IsNode(n), NEW vs, NEW ws, \A a \in Refs(n) : vs[a] = ws[a]
    PROVE  RandomValue(n, vs) = RandomValue(n, ws)
<1>1. DOMAIN n.args = 1..Arity[n.kind] /\ \A k \in 1..Arity[n.kind] : n.args[k] \in Refs(n)
  BY DEF IsNode, Refs, Range
<1>2. \A k \in 1..Arity[n.kind] : vs[n.args[k]] = ws[n.args[k]]
  BY <1>1
<1>3. CASE n.op \in {"Add", "Sub", "Mul"}
  <2>1. n.kind = "Op"
    BY <1>3 DEF IsNode, Arity, Operations, UnoOps, TresOps
  <2>2. vs[n.args[1]] = ws[n.args[1]] /\ vs[n.args[2]] = ws[n.args[2]]
    BY <1>2, <2>1 DEF Arity
  <2> QED
    BY <1>3, <2>1, <2>2 DEF RandomValue
<1>4. CASE n.op \notin {"Add", "Sub", "Mul"}
  <2>1. [k \in DOMAIN n.args |-> vs[n.args[k]]] = [k \in DOMAIN n.args |-> ws[n.args[k]]]
    BY <1>1, <1>2
  <2> QED
    BY <1>4, <2>1 DEF RandomValue
<1> QED
  BY <1>3, <1>4

\* random_eval gives each node what it draws on what the nodes it refers to
\* have drawn.
LEMMA DrawnFound ==
    ASSUME NEW ns, IsGraph(ns), BackRefs(ns)
    PROVE  LET vs == RandomEval(ns)
           IN  /\ vs \in Seq(Range(vs)) /\ DOMAIN vs = DOMAIN ns
               /\ \A i \in DOMAIN ns : vs[i] = RandomValue(ns[i], vs)
<1> DEFINE N == Len(ns)
           IsUpTo(f, n) ==
               f = [i \in 0..n |-> IF i = 0 THEN <<>>
                                   ELSE Append(f[i - 1], RandomValue(ns[i], f[i - 1]))]
           upTo == CHOOSE f : IsUpTo(f, N)
           T == {n \in 0..N : \E f : IsUpTo(f, n)}
<1>1. N \in Nat /\ DOMAIN ns = 1..N /\ \A i \in 1..N : IsNode(ns[i])
  BY GraphShape
<1>2. RandomEval(ns) = upTo[N]
  BY DEF RandomEval
<1>3. 0 \in T
  <2>1. IsUpTo([i \in 0..0 |-> <<>>], 0)
    OBVIOUS
  <2> HIDE DEF IsUpTo
  <2> QED
    BY <1>1, <2>1
<1>4. ASSUME NEW n \in 0..N - 1, n \in T PROVE n + 1 \in T
  <2>1. PICK f : IsUpTo(f, n)
    BY <1>4
  <2> DEFINE g == [i \in 0..n + 1 |->
                      IF i <= n THEN f[i] ELSE Append(f[n], RandomValue(ns[n + 1], f[n]))]
  <2>2. \A i \in 0..n : g[i] = f[i]
    BY <1>1
  <2>3. g[n + 1] = Append(f[n], RandomValue(ns[n + 1], f[n]))
    BY <1>1
  <2>4. ASSUME NEW i \in 0..n + 1
        PROVE  g[i] = IF i = 0 THEN <<>>
                      ELSE Append(g[i - 1], RandomValue(ns[i], g[i - 1]))
    <3> HIDE DEF g
    <3>1. CASE i = n + 1
      <4>1. n + 1 # 0 /\ (n + 1) - 1 = n /\ n \in 0..n
        BY <1>1
      <4> QED
        BY <2>2, <2>3, <3>1, <4>1
    <3>2. CASE i = 0
      BY <1>1, <2>1, <2>2, <3>2
    <3>3. CASE i \in 1..n
      <4>1. i \in 0..n /\ i - 1 \in 0..n /\ i # 0
        BY <1>1, <3>3
      <4>2. f[i] = Append(f[i - 1], RandomValue(ns[i], f[i - 1]))
        BY <2>1, <4>1
      <4> QED
        BY <2>2, <4>1, <4>2
    <3> QED
      BY <1>1, <3>1, <3>2, <3>3
  <2>5. IsUpTo(g, n + 1)
    <3>1. g = [i \in 0..n + 1 |-> g[i]]
      OBVIOUS
    <3> HIDE DEF g
    <3> QED
      BY <2>4, <3>1
  <2>6. n + 1 \in 0..N
    BY <1>1
  <2> HIDE DEF g, IsUpTo
  <2> QED
    BY <2>5, <2>6
<1>5. \A n \in 0..N : n \in T
  <2> HIDE DEF T
  <2> QED
    BY <1>1, <1>3, <1>4, Induction
<1>6. IsUpTo(upTo, N)
  <2>1. \E f : IsUpTo(f, N)
    <3> HIDE DEF IsUpTo
    <3>2. N \in 0..N
      BY <1>1
    <3>1. N \in T
      BY <1>5, <3>2
    <3> QED
      BY <3>1
  <2> QED
    BY <2>1
<1> HIDE DEF upTo
<1> DEFINE e == [i \in 1..N |-> RandomValue(ns[i], upTo[i - 1])]
<1>7. upTo[0] = <<>> /\ \A i \in 1..N : upTo[i] = Append(upTo[i - 1], e[i])
  <2>1. 0 \in 0..N /\ \A i \in 1..N : i \in 0..N /\ i # 0
    BY <1>1
  <2> QED
    BY <1>6, <2>1
<1>8. DOMAIN e = 1..N
  OBVIOUS
<1>9. \A i \in 1..N : e[i] = RandomValue(ns[i], upTo[i - 1])
  OBVIOUS
<1> HIDE DEF e, IsUpTo, N
<1>10. \A i \in 0..N : StartsAs(upTo[i], e, i)
  <2>1. upTo[0] = <<>>
    BY <1>7
  <2>2. \A i \in 1..N : upTo[i] = Append(upTo[i - 1], e[i])
    BY <1>7
  <2> QED
    BY <1>1, <1>8, <2>1, <2>2, AppendedOneByOne
<1> DEFINE vs == upTo[N]
<1>11. vs \in Seq(Range(e)) /\ Len(vs) = N /\ \A k \in 1..N : vs[k] = e[k]
  BY <1>1, <1>10 DEF StartsAs
<1>12. ASSUME NEW i \in 1..N PROVE vs[i] = RandomValue(ns[i], vs)
  <2>1. i - 1 \in 0..N /\ \A a \in 1..i - 1 : a \in 1..N
    BY <1>1
  <2>2. \A a \in Refs(ns[i]) : a \in 1..i - 1
    BY <1>1 DEF BackRefs
  <2>3. \A a \in Refs(ns[i]) : upTo[i - 1][a] = e[a] /\ vs[a] = e[a]
    BY <1>10, <1>11, <2>1, <2>2 DEF StartsAs
  <2>4. \A a \in Refs(ns[i]) : upTo[i - 1][a] = vs[a]
    BY <2>3
  <2> HIDE DEF vs
  <2>5. RandomValue(ns[i], upTo[i - 1]) = RandomValue(ns[i], vs)
    BY <1>1, <2>4, RandomValueDepends
  <2> QED
    BY <1>9, <1>11, <2>5
<1> HIDE DEF vs
<1>13. vs \in Seq(Range(vs)) /\ DOMAIN vs = 1..N
  <2>1. vs \in [1..N -> Range(e)]
    BY <1>11
  <2>2. vs \in [1..N -> Range(vs)]
    BY <2>1 DEF Range
  <2> QED
    BY <1>1, <2>1, <2>2
<1>14. RandomEval(ns) = vs
  BY <1>2 DEF vs
<1> QED
  BY <1>1, <1>12, <1>13, <1>14
\* Values that fit the operations of all nodes are what evaluate calculates.
LEMMA ValuesUnique ==
    ASSUME NEW ns, IsGraph(ns), BackRefs(ns), NEW inputs, NEW vs,
           \A i \in DOMAIN ns : vs[i] = NodeValue(ns[i], vs, inputs)
    PROVE  \A i \in DOMAIN ns : Values(ns, inputs)[i] = vs[i]
<1> DEFINE N == Len(ns)
           ws == Values(ns, inputs)
           T == {n \in 0..N : \A i \in 1..n : ws[i] = vs[i]}
<1>1. N \in Nat /\ DOMAIN ns = 1..N /\ \A i \in 1..N : IsNode(ns[i])
  BY GraphShape
<1>2. \A i \in 1..N : ws[i] = NodeValue(ns[i], ws, inputs)
  BY <1>1, ValuesFound
<1> HIDE DEF N, ws
<1>3. 0 \in T
  BY <1>1
<1>4. ASSUME NEW n \in 0..N - 1, n \in T PROVE n + 1 \in T
  <2>1. n + 1 \in 1..N /\ n + 1 \in 0..N /\ \A i \in 1..n + 1 : i = n + 1 \/ i \in 1..n
    BY <1>1
  <2>2. Refs(ns[n + 1]) \subseteq 1..n
    BY <1>1, <2>1 DEF BackRefs
  <2>3. \A a \in Refs(ns[n + 1]) : ws[a] = vs[a]
    BY <1>4, <2>2
  <2>4. NodeValue(ns[n + 1], ws, inputs) = NodeValue(ns[n + 1], vs, inputs)
    BY <1>1, <2>1, <2>3, NodeValueDepends
  <2>5. ws[n + 1] = vs[n + 1]
    BY <1>1, <1>2, <2>1, <2>4
  <2> QED
    BY <1>4, <2>1, <2>5
<1>5. \A n \in 0..N : n \in T
  <2> HIDE DEF T
  <2> QED
    BY <1>1, <1>3, <1>4, Induction
<1>6. N \in 0..N
  BY <1>1
<1>7. N \in T
  <2> HIDE DEF T
  <2> QED
    BY <1>5, <1>6
<1> QED
  BY <1>1, <1>7 DEF ws

\* The same for what random_eval draws.
LEMMA DrawnUnique ==
    ASSUME NEW ns, IsGraph(ns), BackRefs(ns), NEW vs,
           \A i \in DOMAIN ns : vs[i] = RandomValue(ns[i], vs)
    PROVE  \A i \in DOMAIN ns : RandomEval(ns)[i] = vs[i]
<1> DEFINE N == Len(ns)
           ws == RandomEval(ns)
           T == {n \in 0..N : \A i \in 1..n : ws[i] = vs[i]}
<1>1. N \in Nat /\ DOMAIN ns = 1..N /\ \A i \in 1..N : IsNode(ns[i])
  BY GraphShape
<1>2. \A i \in 1..N : ws[i] = RandomValue(ns[i], ws)
  BY <1>1, DrawnFound
<1> HIDE DEF N, ws
<1>3. 0 \in T
  BY <1>1
<1>4. ASSUME NEW n \in 0..N - 1, n \in T PROVE n + 1 \in T
  <2>1. n + 1 \in 1..N /\ n + 1 \in 0..N /\ \A i \in 1..n + 1 : i = n + 1 \/ i \in 1..n
    BY <1>1
  <2>2. Refs(ns[n + 1]) \subseteq 1..n
    BY <1>1, <2>1 DEF BackRefs
  <2>3. \A a \in Refs(ns[n + 1]) : ws[a] = vs[a]
    BY <1>4, <2>2
  <2>4. RandomValue(ns[n + 1], ws) = RandomValue(ns[n + 1], vs)
    BY <1>1, <2>1, <2>3, RandomValueDepends
  <2>5. ws[n + 1] = vs[n + 1]
    BY <1>1, <1>2, <2>1, <2>4
  <2> QED
    BY <1>4, <2>1, <2>5
<1>5. \A n \in 0..N : n \in T
  <2> HIDE DEF T
  <2> QED
    BY <1>1, <1>3, <1>4, Induction
<1>6. N \in 0..N
  BY <1>1
<1>7. N \in T
  <2> HIDE DEF T
  <2> QED
    BY <1>5, <1>6
<1> QED
  BY <1>1, <1>7 DEF ws

-----------------------------------------------------------------------------
(***************************************************************************)
(* Totals: a commutative operation over all elements of a finite set.      *)
(* Sums and products of a polynomial are such totals.                      *)
(***************************************************************************)
On(op, x, y) == op[<<x, y>>]
IsMonoid(V, op, e) ==
    /\ e \in V /\ op \in [V \X V -> V]
    /\ \A x \in V : On(op, x, e) = x
    /\ \A x, y \in V : On(op, x, y) = On(op, y, x)
    /\ \A x, y, z \in V : On(op, x, On(op, y, z)) = On(op, On(op, x, y), z)

IsTotal(t, f, S, V, op, e) ==
    /\ t \in [SUBSET S -> V] /\ t[{}] = e
    /\ \A U \in SUBSET S : \A x \in U : t[U] = On(op, f[x], t[U \ {x}])
AddsUp(u, f, S, op) ==
    \A U \in SUBSET S : U # {} => \E x \in U : u[U] = On(op, f[x], u[U \ {x}])
Total(f, S, V, op, e) == (CHOOSE t : IsTotal(t, f, S, V, op, e))[S]

\* The operation on values.
LEMMA Operates ==
    ASSUME NEW V, NEW op, NEW e, IsMonoid(V, op, e)
    PROVE  /\ e \in V /\ \A x, y \in V : On(op, x, y) \in V /\ On(op, x, y) = On(op, y, x)
           /\ \A x \in V : On(op, x, e) = x /\ On(op, e, x) = x
           /\ \A x, y, z \in V : /\ On(op, x, On(op, y, z)) = On(op, On(op, x, y), z)
                                 /\ On(op, x, On(op, y, z)) = On(op, y, On(op, x, z))
<1>1. e \in V /\ \A x, y \in V : On(op, x, y) \in V /\ On(op, x, y) = On(op, y, x)
  BY DEF IsMonoid, On
<1>2. \A x \in V : On(op, x, e) = x /\ On(op, e, x) = x
  BY <1>1 DEF IsMonoid
<1>3. \A x, y, z \in V : On(op, x, On(op, y, z)) = On(op, On(op, x, y), z)
  BY DEF IsMonoid
<1>4. ASSUME NEW x \in V, NEW y \in V, NEW z \in V
      PROVE  On(op, x, On(op, y, z)) = On(op, y, On(op, x, z))
  <2>1. /\ On(op, x, On(op, y, z)) = On(op, On(op, x, y), z)
        /\ On(op, y, On(op, x, z)) = On(op, On(op, y, x), z)
    BY <1>3
  <2>2. On(op, x, y) = On(op, y, x)
    BY <1>1
  <2> QED
    BY <2>1, <2>2
<1> QED
  BY <1>1, <1>2, <1>3, <1>4

\* Induction over the subsets of a finite set.
LEMMA SetInduction ==
    ASSUME NEW S, IsFiniteSet(S), NEW T, {} \in T,
           \A U \in SUBSET S : U # {} /\ (\A x \in U : U \ {x} \in T) => U \in T
    PROVE  \A U \in SUBSET S : U \in T
<1> DEFINE N == Cardinality(S)
           R == {n \in 0..N : \A U \in SUBSET S : Cardinality(U) = n => U \in T}
<1>1. N \in Nat
  BY FS_CardinalityType
<1>2. \A U \in SUBSET S : IsFiniteSet(U) /\ Cardinality(U) \in 0..N
  <2>1. \A U \in SUBSET S : IsFiniteSet(U) /\ Cardinality(U) <= N
    BY FS_Subset
  <2> QED
    BY <1>1, <2>1, FS_CardinalityType
<1> HIDE DEF N
<1>3. 0 \in R
  <2>1. \A U \in SUBSET S : Cardinality(U) = 0 => U = {}
    BY <1>2, FS_EmptySet
  <2>2. \A U \in SUBSET S : Cardinality(U) = 0 => U \in T
    BY <2>1
  <2>3. 0 \in 0..N
    BY <1>1
  <2> QED
    BY <2>2, <2>3
<1>4. ASSUME NEW n \in 0..N - 1, n \in R PROVE n + 1 \in R
  <2>1. ASSUME NEW U \in SUBSET S, Cardinality(U) = n + 1 PROVE U \in T
    <3>1. IsFiniteSet(U) /\ U # {}
      BY <1>1, <1>2, <2>1, FS_EmptySet
    <3>2. ASSUME NEW x \in U PROVE Cardinality(U \ {x}) = n
      <4>1. Cardinality(U \ {x}) = Cardinality(U) - 1
        BY <3>1, FS_RemoveElement
      <4> QED
        BY <1>1, <2>1, <4>1
    <3>3. \A x \in U : U \ {x} \in SUBSET S
      OBVIOUS
    <3>4. \A x \in U : U \ {x} \in T
      BY <1>4, <3>2, <3>3
    <3> QED
      BY <3>1, <3>4
  <2>2. n + 1 \in 0..N
    BY <1>1
  <2> QED
    BY <2>1, <2>2
<1>5. \A n \in 0..N : n \in R
  <2> HIDE DEF R
  <2> QED
    BY <1>1, <1>3, <1>4, Induction
<1> QED
  BY <1>2, <1>5

\* Every family of values has a total, ...
LEMMA TotalExists ==
    ASSUME NEW V, NEW op, NEW e, IsMonoid(V, op, e),
           NEW S, IsFiniteSet(S), NEW f, \A x \in S : f[x] \in V
    PROVE  \E t : IsTotal(t, f, S, V, op, e)
<1> DEFINE T == {U \in SUBSET S : \E t : IsTotal(t, f, U, V, op, e)}
<1>1. {} \in T
  <2>1. IsTotal([U \in SUBSET {} |-> e], f, {}, V, op, e)
    BY Operates DEF IsTotal
  <2> QED
    BY <2>1
<1>2. ASSUME NEW U \in SUBSET S, U # {}, \A x \in U : U \ {x} \in T PROVE U \in T
  <2>1. PICK a \in U : TRUE
    BY <1>2
  <2> DEFINE B == U \ {a}
  <2>2. PICK t : IsTotal(t, f, B, V, op, e)
    BY <1>2
  <2> DEFINE g == [A \in SUBSET U |-> IF a \in A THEN On(op, f[a], t[A \ {a}]) ELSE t[A]]
  <2>3. /\ t \in [SUBSET B -> V] /\ t[{}] = e
        /\ \A A \in SUBSET B : \A x \in A : t[A] = On(op, f[x], t[A \ {x}])
    BY <2>2 DEF IsTotal
  <2>4. f[a] \in V /\ \A x \in U : f[x] \in V
    OBVIOUS
  <2>5. \A A \in SUBSET U : A \ {a} \in SUBSET B /\ (a \notin A => A \in SUBSET B)
    OBVIOUS
  <2> HIDE DEF B
  <2>6. \A A \in SUBSET U : t[A \ {a}] \in V /\ (a \notin A => t[A] \in V)
    BY <2>3, <2>5
  <2>7. g \in [SUBSET U -> V]
    <3>1. \A A \in SUBSET U : (IF a \in A THEN On(op, f[a], t[A \ {a}]) ELSE t[A]) \in V
      <4>1. \A v \in V : On(op, f[a], v) \in V
        BY <2>4, Operates
      <4> QED
        BY <2>6, <4>1
    <3> QED
      BY <3>1
  <2>8. g[{}] = e
    BY <2>3
  <2>9. ASSUME NEW A \in SUBSET U, NEW x \in A PROVE g[A] = On(op, f[x], g[A \ {x}])
    <3> DEFINE C == A \ {a}
    <3>1. A \ {x} \in SUBSET U
      OBVIOUS
    <3>2. CASE x = a
      BY <3>1, <3>2
    <3>3. CASE x # a /\ a \in A
      <4>1. g[A] = On(op, f[a], t[C]) /\ g[A \ {x}] = On(op, f[a], t[(A \ {x}) \ {a}])
        BY <3>1, <3>3
      <4>2. (A \ {x}) \ {a} = C \ {x} /\ x \in C /\ C \in SUBSET B
        BY <2>5, <3>3
      <4>3. t[C] = On(op, f[x], t[C \ {x}])
        BY <2>3, <4>2
      <4>4. t[C \ {x}] \in V
        <5>1. C \ {x} \in SUBSET B
          BY <4>2
        <5> QED
          BY <2>3, <5>1
      <4> HIDE DEF C, g
      <4>5. On(op, f[a], On(op, f[x], t[C \ {x}])) = On(op, f[x], On(op, f[a], t[C \ {x}]))
        BY <2>4, <4>4, Operates
      <4> QED
        BY <4>1, <4>2, <4>3, <4>5
    <3>4. CASE a \notin A
      <4>1. g[A] = t[A] /\ g[A \ {x}] = t[A \ {x}]
        BY <3>1, <3>4
      <4>2. A \in SUBSET B
        BY <2>5, <3>4
      <4> HIDE DEF g
      <4> QED
        BY <2>3, <4>1, <4>2
    <3> QED
      BY <3>2, <3>3, <3>4
  <2> HIDE DEF g
  <2>10. IsTotal(g, f, U, V, op, e)
    BY <2>7, <2>8, <2>9 DEF IsTotal
  <2> QED
    BY <2>10
<1> HIDE DEF T
<1>3. \A U \in SUBSET S : U \in T
  BY <1>1, <1>2, SetInduction
<1>4. S \in T
  BY <1>3
<1> QED
  BY <1>4 DEF T

\* ...and only one.
LEMMA TotalUnique ==
    ASSUME NEW V, NEW op, NEW e, NEW S, IsFiniteSet(S), NEW f,
           NEW t, IsTotal(t, f, S, V, op, e), NEW u, u[{}] = e, AddsUp(u, f, S, op)
    PROVE  \A U \in SUBSET S : u[U] = t[U]
<1> DEFINE T == {U \in SUBSET S : u[U] = t[U]}
<1>1. {} \in T
  BY DEF IsTotal
<1>2. ASSUME NEW U \in SUBSET S, U # {}, \A x \in U : U \ {x} \in T PROVE U \in T
  <2>1. PICK x \in U : u[U] = On(op, f[x], u[U \ {x}])
    BY <1>2 DEF AddsUp
  <2>2. t[U] = On(op, f[x], t[U \ {x}])
    BY DEF IsTotal
  <2>3. u[U \ {x}] = t[U \ {x}]
    BY <1>2
  <2> QED
    BY <2>1, <2>2, <2>3
<1>3. \A U \in SUBSET S : U \in T
  <2> HIDE DEF T
  <2> QED
    BY <1>1, <1>2, SetInduction
<1> QED
  BY <1>3

\* What a total is: nothing gives the neutral element, one element more gives
\* its value in addition.
LEMMA TotalStep ==
    ASSUME NEW V, NEW op, NEW e, IsMonoid(V, op, e),
           NEW S, IsFiniteSet(S), NEW f, \A x \in S : f[x] \in V
    PROVE  /\ Total(f, {}, V, op, e) = e
           /\ \A U \in SUBSET S :
                 /\ Total(f, U, V, op, e) \in V
                 /\ \A x \in U : Total(f, U, V, op, e) = On(op, f[x], Total(f, U \ {x}, V, op, e))
<1>1. PICK t : IsTotal(t, f, S, V, op, e)
  BY TotalExists
<1>2. /\ t \in [SUBSET S -> V] /\ t[{}] = e
      /\ \A U \in SUBSET S : \A x \in U : t[U] = On(op, f[x], t[U \ {x}])
  BY <1>1 DEF IsTotal
<1>3. ASSUME NEW U \in SUBSET S PROVE Total(f, U, V, op, e) = t[U]
  <2> DEFINE u == CHOOSE u : IsTotal(u, f, U, V, op, e)
  <2>1. IsFiniteSet(U) /\ \A x \in U : f[x] \in V
    BY FS_Subset
  <2>2. \E v : IsTotal(v, f, U, V, op, e)
    BY <2>1, TotalExists
  <2>3. IsTotal(u, f, U, V, op, e)
    BY <2>2
  <2> HIDE DEF u
  <2>4. AddsUp(t, f, U, op)
    BY <1>2 DEF AddsUp
  <2>7. t[{}] = e
    BY <1>2
  <2>8. IsFiniteSet(U)
    BY <2>1
  <2>5. \A A \in SUBSET U : t[A] = u[A]
    BY <2>3, <2>4, <2>7, <2>8, TotalUnique
  <2>6. Total(f, U, V, op, e) = u[U]
    BY DEF Total, u
  <2> QED
    BY <2>5, <2>6
<1>4. {} \in SUBSET S /\ \A U \in SUBSET S : \A x \in U : U \ {x} \in SUBSET S
  OBVIOUS
<1> QED
  BY <1>2, <1>3, <1>4

\* Families that are equal have the same total.
LEMMA TotalOfEqual ==
    ASSUME NEW V, NEW op, NEW e, IsMonoid(V, op, e), NEW S, IsFiniteSet(S),
           NEW f, NEW g, \A x \in S : f[x] \in V /\ g[x] = f[x]
    PROVE  Total(f, S, V, op, e) = Total(g, S, V, op, e)
<1> DEFINE F(U) == Total(f, U, V, op, e)
           G(U) == Total(g, U, V, op, e)
           T == {U \in SUBSET S : F(U) = G(U)}
<1>1. /\ F({}) = e
      /\ \A U \in SUBSET S : \A x \in U : F(U) = On(op, f[x], F(U \ {x}))
  BY TotalStep
<1>2. /\ G({}) = e
      /\ \A U \in SUBSET S : \A x \in U : G(U) = On(op, g[x], G(U \ {x}))
  <2>1. \A x \in S : g[x] \in V
    OBVIOUS
  <2> QED
    BY <2>1, TotalStep
<1> HIDE DEF F, G
<1>3. {} \in T
  BY <1>1, <1>2
<1>4. ASSUME NEW U \in SUBSET S, U # {}, \A x \in U : U \ {x} \in T PROVE U \in T
  <2>1. PICK x \in U : TRUE
    BY <1>4
  <2>2. F(U) = On(op, f[x], F(U \ {x})) /\ G(U) = On(op, g[x], G(U \ {x}))
    BY <1>1, <1>2
  <2>3. F(U \ {x}) = G(U \ {x}) /\ f[x] = g[x]
    BY <1>4
  <2> QED
    BY <2>2, <2>3
<1>5. \A U \in SUBSET S : U \in T
  <2> HIDE DEF T
  <2> QED
    BY <1>3, <1>4, SetInduction
<1>6. S \in T
  BY <1>5
<1> QED
  BY <1>6 DEF F, G

\* The total of two families together.
LEMMA TotalOfBoth ==
    ASSUME NEW V, NEW op, NEW e, IsMonoid(V, op, e), NEW S, IsFiniteSet(S),
           NEW f, NEW g, NEW h,
           \A x \in S : f[x] \in V /\ g[x] \in V /\ h[x] = On(op, f[x], g[x])
    PROVE  Total(h, S, V, op, e) = On(op, Total(f, S, V, op, e), Total(g, S, V, op, e))
<1> DEFINE F(U) == Total(f, U, V, op, e)
           G(U) == Total(g, U, V, op, e)
           H(U) == Total(h, U, V, op, e)
           T == {U \in SUBSET S : H(U) = On(op, F(U), G(U))}
<1>1. /\ F({}) = e
      /\ \A U \in SUBSET S : F(U) \in V /\ \A x \in U : F(U) = On(op, f[x], F(U \ {x}))
  BY TotalStep
<1>2. /\ G({}) = e
      /\ \A U \in SUBSET S : G(U) \in V /\ \A x \in U : G(U) = On(op, g[x], G(U \ {x}))
  BY TotalStep
<1>3. /\ H({}) = e
      /\ \A U \in SUBSET S : \A x \in U : H(U) = On(op, h[x], H(U \ {x}))
  <2>1. \A x \in S : h[x] \in V
    BY Operates
  <2> QED
    BY <2>1, TotalStep
<1> HIDE DEF F, G, H
<1>4. {} \in T
  BY <1>1, <1>2, <1>3, Operates
<1>5. ASSUME NEW U \in SUBSET S, U # {}, \A x \in U : U \ {x} \in T PROVE U \in T
  <2>1. PICK x \in U : TRUE
    BY <1>5
  <2> DEFINE a == f[x]
             b == g[x]
             c == F(U \ {x})
             d == G(U \ {x})
  <2>2. F(U) = On(op, a, c) /\ G(U) = On(op, b, d) /\ H(U) = On(op, h[x], H(U \ {x}))
    BY <1>1, <1>2, <1>3
  <2>3. H(U \ {x}) = On(op, c, d) /\ h[x] = On(op, a, b)
    BY <1>5
  <2>4. a \in V /\ b \in V /\ c \in V /\ d \in V
    <3>1. U \ {x} \in SUBSET S
      OBVIOUS
    <3> QED
      BY <1>1, <1>2, <3>1
  <2> HIDE DEF a, b, c, d
  <2>5. On(op, On(op, a, b), On(op, c, d)) = On(op, On(op, a, c), On(op, b, d))
    <3>1. On(op, c, d) \in V /\ On(op, b, d) \in V
      BY <2>4, Operates
    <3>2. On(op, On(op, a, b), On(op, c, d)) = On(op, a, On(op, b, On(op, c, d)))
      BY <2>4, <3>1, Operates
    <3>3. On(op, b, On(op, c, d)) = On(op, c, On(op, b, d))
      BY <2>4, Operates
    <3>4. On(op, a, On(op, c, On(op, b, d))) = On(op, On(op, a, c), On(op, b, d))
      BY <2>4, <3>1, Operates
    <3> QED
      BY <3>2, <3>3, <3>4
  <2> QED
    BY <2>2, <2>3, <2>5
<1>6. \A U \in SUBSET S : U \in T
  <2> HIDE DEF T
  <2> QED
    BY <1>4, <1>5, SetInduction
<1>7. S \in T
  BY <1>6
<1> QED
  BY <1>7 DEF F, G, H

\* The total of a set is that of a part of it and that of the rest.
LEMMA TotalOfParts ==
    ASSUME NEW V, NEW op, NEW e, IsMonoid(V, op, e), NEW S, IsFiniteSet(S),
           NEW f, \A x \in S : f[x] \in V, NEW P \in SUBSET S
    PROVE  Total(f, S, V, op, e) = On(op, Total(f, P, V, op, e), Total(f, S \ P, V, op, e))
<1> DEFINE F(U) == Total(f, U, V, op, e)
           T == {U \in SUBSET S : F(U) = On(op, F(U \cap P), F(U \ P))}
<1>1. /\ F({}) = e
      /\ \A U \in SUBSET S : F(U) \in V /\ \A x \in U : F(U) = On(op, f[x], F(U \ {x}))
  BY TotalStep
<1> HIDE DEF F
<1>2. {} \in T
  <2>1. {} \cap P = {} /\ {} \ P = {}
    OBVIOUS
  <2>2. On(op, e, e) = e
    BY Operates
  <2> QED
    BY <1>1, <2>1, <2>2
<1>3. ASSUME NEW U \in SUBSET S, U # {}, \A x \in U : U \ {x} \in T PROVE U \in T
  <2>1. PICK x \in U : TRUE
    BY <1>3
  <2> DEFINE B == U \ {x}
  <2>2. F(U) = On(op, f[x], F(B)) /\ F(B) = On(op, F(B \cap P), F(B \ P))
    BY <1>1, <1>3
  <2>3. f[x] \in V /\ F(B \cap P) \in V /\ F(B \ P) \in V
    <3>1. B \cap P \in SUBSET S /\ B \ P \in SUBSET S
      OBVIOUS
    <3> QED
      BY <1>1, <3>1
  <2>4. CASE x \in P
    <3>1. (U \cap P) \ {x} = B \cap P /\ U \ P = B \ P /\ x \in U \cap P /\ U \cap P \in SUBSET S
      BY <2>4
    <3>2. F(U \cap P) = On(op, f[x], F(B \cap P))
      BY <1>1, <3>1
    <3> DEFINE a == f[x]
               b == F(B \cap P)
               c == F(B \ P)
    <3>3. On(op, a, On(op, b, c)) = On(op, On(op, a, b), c)
      <4>1. a \in V /\ b \in V /\ c \in V
        BY <2>3
      <4> HIDE DEF a, b, c
      <4> QED
        BY <4>1, Operates
    <3> HIDE DEF B
    <3> QED
      BY <2>2, <3>1, <3>2, <3>3
  <2>5. CASE x \notin P
    <3>1. (U \ P) \ {x} = B \ P /\ U \cap P = B \cap P /\ x \in U \ P /\ U \ P \in SUBSET S
      BY <2>5
    <3>2. F(U \ P) = On(op, f[x], F(B \ P))
      BY <1>1, <3>1
    <3> DEFINE a == f[x]
               b == F(B \cap P)
               c == F(B \ P)
    <3>3. On(op, a, On(op, b, c)) = On(op, b, On(op, a, c))
      <4>1. a \in V /\ b \in V /\ c \in V
        BY <2>3
      <4> HIDE DEF a, b, c
      <4> QED
        BY <4>1, Operates
    <3> HIDE DEF B
    <3> QED
      BY <2>2, <3>1, <3>2, <3>3
  <2> QED
    BY <2>4, <2>5
<1>4. \A U \in SUBSET S : U \in T
  <2> HIDE DEF T
  <2> QED
    BY <1>2, <1>3, SetInduction
<1>5. S \in T
  BY <1>4
<1>6. S \cap P = P
  OBVIOUS
<1> QED
  BY <1>5, <1>6 DEF F

\* Neutral elements add nothing.
LEMMA TotalOfNeutral ==
    ASSUME NEW V, NEW op, NEW e, IsMonoid(V, op, e), NEW S, IsFiniteSet(S),
           NEW f, \A x \in S : f[x] = e
    PROVE  Total(f, S, V, op, e) = e
<1> DEFINE F(U) == Total(f, U, V, op, e)
           T == {U \in SUBSET S : F(U) = e}
<1>1. F({}) = e /\ \A U \in SUBSET S : \A x \in U : F(U) = On(op, f[x], F(U \ {x}))
  <2>1. \A x \in S : f[x] \in V
    BY Operates
  <2> QED
    BY <2>1, TotalStep
<1> HIDE DEF F
<1>2. {} \in T
  BY <1>1
<1>3. ASSUME NEW U \in SUBSET S, U # {}, \A x \in U : U \ {x} \in T PROVE U \in T
  <2>1. PICK x \in U : TRUE
    BY <1>3
  <2>2. F(U) = On(op, e, e)
    BY <1>1, <1>3
  <2>3. On(op, e, e) = e
    BY Operates
  <2> QED
    BY <2>2, <2>3
<1>4. \A U \in SUBSET S : U \in T
  <2> HIDE DEF T
  <2> QED
    BY <1>2, <1>3, SetInduction
<1>5. S \in T
  BY <1>4
<1> QED
  BY <1>5 DEF F

\* What is neutral may be left out.
LEMMA TotalOfRest ==
    ASSUME NEW V, NEW op, NEW e, IsMonoid(V, op, e), NEW S, IsFiniteSet(S),
           NEW f, \A x \in S : f[x] \in V, NEW P \in SUBSET S, \A x \in S \ P : f[x] = e
    PROVE  Total(f, S, V, op, e) = Total(f, P, V, op, e)
<1>1. IsFiniteSet(S \ P)
  BY FS_Subset
<1>2. Total(f, S \ P, V, op, e) = e
  BY <1>1, TotalOfNeutral
<1>3. Total(f, P, V, op, e) \in V
  BY TotalStep
<1>4. On(op, Total(f, P, V, op, e), e) = Total(f, P, V, op, e)
  BY <1>3, Operates
<1> QED
  BY <1>2, <1>4, TotalOfParts

\* The total of a family with one element that counts.
LEMMA TotalOfOne ==
    ASSUME NEW V, NEW op, NEW e, IsMonoid(V, op, e), NEW S, IsFiniteSet(S),
           NEW f, NEW a \in S, f[a] \in V, \A x \in S \ {a} : f[x] = e
    PROVE  Total(f, S, V, op, e) = f[a]
<1>1. \A x \in S : f[x] \in V
  BY Operates
<1>2. {a} \in SUBSET S /\ S \ {a} = S \ {a} /\ {a} \ {a} = {}
  OBVIOUS
<1>3. Total(f, S, V, op, e) = Total(f, {a}, V, op, e)
  BY <1>1, <1>2, TotalOfRest
<1>4. Total(f, {a}, V, op, e) = On(op, f[a], Total(f, {a} \ {a}, V, op, e))
  BY <1>1, <1>2, TotalStep
<1>5. Total(f, {}, V, op, e) = e
  BY <1>1, TotalStep
<1>6. On(op, f[a], e) = f[a]
  BY Operates
<1> QED
  BY <1>2, <1>3, <1>4, <1>5, <1>6

Fibre(h, r, S) == {x \in S : h[x] = r}

\* The total of a set is the total over r of the totals of the elements that
\* h maps to r.
LEMMA TotalOfFibres ==
    ASSUME NEW V, NEW op, NEW e, IsMonoid(V, op, e), NEW S, IsFiniteSet(S),
           NEW f, \A x \in S : f[x] \in V, NEW R, IsFiniteSet(R),
           NEW h, \A x \in S : h[x] \in R, NEW g,
           \A r \in R : g[r] = Total(f, Fibre(h, r, S), V, op, e)
    PROVE  Total(f, S, V, op, e) = Total(g, R, V, op, e)
<1> DEFINE F(U) == Total(f, U, V, op, e)
           G(A) == Total(g, A, V, op, e)
           Over(A) == {x \in S : h[x] \in A}
           T == {A \in SUBSET R : F(Over(A)) = G(A)}
<1>1. F({}) = e /\ \A U \in SUBSET S : F(U) \in V
  BY TotalStep
<1>2. \A r \in R : g[r] = F({x \in S : h[x] = r})
  BY DEF Fibre
<1>3. \A A \in SUBSET R : IsFiniteSet(Over(A))
  <2>1. \A A \in SUBSET R : Over(A) \in SUBSET S
    OBVIOUS
  <2> HIDE DEF Over
  <2> QED
    BY <2>1, FS_Subset
<1>4. \A r \in R : g[r] \in V
  <2> TAKE r \in R
  <2>1. {x \in S : h[x] = r} \in SUBSET S
    OBVIOUS
  <2> QED
    BY <1>1, <1>2, <2>1
<1>5. G({}) = e /\ \A A \in SUBSET R : \A r \in A : G(A) = On(op, g[r], G(A \ {r}))
  BY <1>4, TotalStep
<1>6. {} \in T
  <2>1. Over({}) = {}
    OBVIOUS
  <2> QED
    BY <1>1, <1>5, <2>1
<1>7. ASSUME NEW A \in SUBSET R, A # {}, \A r \in A : A \ {r} \in T PROVE A \in T
  <2>1. PICK r \in A : TRUE
    BY <1>7
  <2> DEFINE U == Over(A)
             P == {x \in S : h[x] = r}
  <2>2. P \in SUBSET U /\ U \ P = Over(A \ {r}) /\ U \in SUBSET S
    BY <2>1
  <2>3. \A x \in U : f[x] \in V
    OBVIOUS
  <2>4. IsFiniteSet(U)
    BY <1>3
  <2>5. F(U) = On(op, F(P), F(U \ P))
    <3> HIDE DEF U, P
    <3>1. P \in SUBSET U
      BY <2>2
    <3> QED
      BY <2>3, <2>4, <3>1, TotalOfParts
  <2>6. F(U \ P) = G(A \ {r})
    BY <1>7, <2>1, <2>2
  <2>7. F(P) = g[r]
    BY <1>2, <2>1
  <2>8. G(A) = On(op, g[r], G(A \ {r}))
    BY <1>5, <2>1
  <2>9. F(Over(A)) = G(A)
    <3> HIDE DEF F, G, P, Over
    <3> QED
      BY <2>5, <2>6, <2>7, <2>8
  <2> HIDE DEF F, G, Over
  <2> QED
    BY <2>9
<1>8. \A A \in SUBSET R : A \in T
  <2> HIDE DEF T
  <2> QED
    BY <1>6, <1>7, SetInduction
<1>9. R \in T
  BY <1>8
<1>10. Over(R) = S
  OBVIOUS
<1> HIDE DEF Over
<1> QED
  BY <1>9, <1>10

Row(f, a, B) == [b \in B |-> f[<<a, b>>]]

\* Totals over pairs are totals of totals.
LEMMA TotalOfPairs ==
    ASSUME NEW V, NEW op, NEW e, IsMonoid(V, op, e),
           NEW A, IsFiniteSet(A), NEW B, IsFiniteSet(B),
           NEW f, \A x \in A \X B : f[x] \in V,
           NEW g, \A a \in A : g[a] = Total(Row(f, a, B), B, V, op, e)
    PROVE  Total(f, A \X B, V, op, e) = Total(g, A, V, op, e)
<1> DEFINE S == A \X B
           first == [x \in S |-> x[1]]
           second == [x \in S |-> x[2]]
           row(a) == Fibre(first, a, S)
<1>1. IsFiniteSet(S)
  BY FS_Product
<1>2. ASSUME NEW a \in A PROVE g[a] = Total(f, row(a), V, op, e)
  <2> DEFINE fb == Row(f, a, B)
  <2>1. row(a) \in SUBSET S
    BY DEF Fibre
  <2>2. IsFiniteSet(row(a))
    <3> HIDE DEF S, row
    <3> QED
      BY <1>1, <2>1, FS_Subset
  <2>3. \A x \in row(a) : f[x] \in V /\ second[x] \in B
    BY DEF Fibre
  <2>6. \A b \in B : fb[b] = f[<<a, b>>]
    BY DEF Row
  <2>4. ASSUME NEW b \in B PROVE fb[b] = Total(f, Fibre(second, b, row(a)), V, op, e)
    <3>1. Fibre(second, b, row(a)) = {<<a, b>>}
      BY DEF Fibre
    <3>2. f[<<a, b>>] \in V
      OBVIOUS
    <3>3. IsFiniteSet({<<a, b>>})
      BY FS_Singleton
    <3> DEFINE p == <<a, b>>
    <3>4. \A x \in {p} : f[x] \in V
      BY <3>2
    <3> HIDE DEF p
    <3>5. Total(f, {p}, V, op, e) = f[p]
      <4>1. p \in {p} /\ f[p] \in V /\ \A x \in {p} \ {p} : f[x] = e
        BY <3>4
      <4>2. IsFiniteSet({p})
        BY FS_Singleton
      <4> QED
        BY <4>1, <4>2, TotalOfOne
    <3> QED
      BY <2>6, <3>1, <3>5 DEF p
  <2> HIDE DEF row, second, fb
  <2>5. Total(f, row(a), V, op, e) = Total(fb, B, V, op, e)
    BY <2>2, <2>3, <2>4, TotalOfFibres
  <2> QED
    BY <2>5 DEF fb
<1>3. \A x \in S : first[x] \in A
  OBVIOUS
<1> HIDE DEF S, first
<1>4. \A x \in S : f[x] \in V
  BY DEF S
<1>5. ASSUME NEW a \in A PROVE g[a] = Total(f, Fibre(first, a, S), V, op, e)
  BY <1>2
<1> HIDE DEF row
<1>6. Total(f, S, V, op, e) = Total(g, A, V, op, e)
  BY <1>1, <1>3, <1>4, <1>5, TotalOfFibres
<1> QED
  BY <1>6 DEF S

-----------------------------------------------------------------------------
(***************************************************************************)
(* Arithmetic modulo M.                                                    *)
(***************************************************************************)

\* Multiples of the modulus leave no remainder.
LEMMA Multiples == \A x, k \in Int : (x + k * M) % M = x % M
<1>1. M \in Nat \ {0}
  BY FieldAssumption
<1>2. ASSUME NEW d \in Nat \ {0}, NEW q \in Int, NEW r \in 0..d - 1
      PROVE (q * d + r) % d = r
  OBVIOUS
<1>3. ASSUME NEW x \in Int, NEW k \in Int PROVE (x + k * M) % M = x % M
  <2> DEFINE q == x \div M
             r == x % M
  <2>1. q \in Int /\ r \in 0..M - 1 /\ x = q * M + r
    BY <1>1
  <2> HIDE DEF q, r
  <2>2. x + k * M = (q + k) * M + r /\ q + k \in Int
    BY <1>1, <2>1
  <2>3. ((q + k) * M + r) % M = r
    BY <1>1, <1>2, <2>1, <2>2
  <2> QED
    BY <2>2, <2>3 DEF r
<1> QED
  BY <1>3

\* A sum or a product may be reduced at any time.
LEMMA ReducedTerm ==
    ASSUME NEW x \in Int, NEW y \in Int
    PROVE  /\ x % M \in Int
           /\ ((x % M) + y) % M = (x + y) % M
           /\ ((x % M) * y) % M = (x * y) % M
           /\ ((x % M) - y) % M = (x - y) % M
           /\ (y - (x % M)) % M = (y - x) % M
<1>1. M \in Nat /\ M > 2
  BY FieldAssumption
<1> DEFINE r == x % M
           q == x \div M
<1>2. r \in Int /\ q \in Int /\ x = r + q * M
  BY <1>1
<1> HIDE DEF r, q
<1>3. (r + y) % M = (x + y) % M
  <2>1. x + y = (r + y) + q * M
    BY <1>1, <1>2
  <2>2. r + y \in Int
    BY <1>2
  <2> QED
    BY <1>2, <2>1, <2>2, Multiples
<1>4. (r * y) % M = (x * y) % M
  <2>1. x * y = (r * y) + (q * y) * M
    BY <1>1, <1>2
  <2>2. r * y \in Int /\ q * y \in Int
    BY <1>2
  <2> QED
    BY <2>1, <2>2, Multiples
<1>5. (r - y) % M = (x - y) % M
  <2>1. x - y = (r - y) + q * M
    BY <1>1, <1>2
  <2>2. r - y \in Int
    BY <1>2
  <2> QED
    BY <1>2, <2>1, <2>2, Multiples
<1>6. (y - r) % M = (y - x) % M
  <2>1. y - r = (y - x) + q * M
    BY <1>1, <1>2
  <2>2. y - x \in Int
    OBVIOUS
  <2> QED
    BY <1>2, <2>1, <2>2, Multiples
<1> QED
  BY <1>2, <1>3, <1>4, <1>5, <1>6 DEF r

AddM == [p \in Field \X Field |-> (p[1] + p[2]) % M]
TimesM == [p \in Field \X Field |-> (p[1] * p[2]) % M]

\* The two operations on field elements.
LEMMA AddTimesM ==
    \A x, y \in Field : On(AddM, x, y) = (x + y) % M /\ On(TimesM, x, y) = (x * y) % M
BY DEF On, AddM, TimesM

\* Elements of the field are natural numbers and their own remainders.
LEMMA FieldElements ==
    /\ \A x \in Field : x \in Nat /\ x \in Int /\ x % M = x
    /\ \A x \in Int : x % M \in Field
    /\ 0 \in Field /\ 1 \in Field
<1>1. M \in Nat /\ M > 2
  BY FieldAssumption
<1> QED
  BY <1>1 DEF Field

\* Field elements add up in any order.
LEMMA AddIsMonoid == IsMonoid(Field, AddM, 0)
<1>1. \A x, y \in Field : On(AddM, x, y) = (x + y) % M /\ On(AddM, x, y) \in Field
  BY AddTimesM, FieldElements
<1>2. AddM \in [Field \X Field -> Field]
  BY FieldElements DEF AddM
<1>3. \A x \in Field : On(AddM, x, 0) = x
  BY <1>1, FieldElements
<1>4. \A x, y \in Field : On(AddM, x, y) = On(AddM, y, x)
  BY <1>1, FieldElements
<1>5. ASSUME NEW x \in Field, NEW y \in Field, NEW z \in Field
      PROVE  On(AddM, x, On(AddM, y, z)) = On(AddM, On(AddM, x, y), z)
  <2>1. On(AddM, x, On(AddM, y, z)) = (x + ((y + z) % M)) % M
    BY <1>1
  <2>2. On(AddM, On(AddM, x, y), z) = (((x + y) % M) + z) % M
    BY <1>1
  <2>3. x \in Int /\ y \in Int /\ z \in Int
    BY FieldElements
  <2>4. (((x + y) % M) + z) % M = ((x + y) + z) % M
    BY <2>3, ReducedTerm
  <2>5. (((y + z) % M) + x) % M = ((y + z) + x) % M /\ (y + z) % M \in Int
    BY <2>3, ReducedTerm
  <2>6. x + ((y + z) % M) = ((y + z) % M) + x /\ (y + z) + x = (x + y) + z
    BY <2>3, <2>5
  <2> QED
    BY <2>1, <2>2, <2>4, <2>5, <2>6
<1> QED
  BY <1>2, <1>3, <1>4, <1>5, FieldElements DEF IsMonoid

\* Field elements multiply in any order.
LEMMA TimesIsMonoid == IsMonoid(Field, TimesM, 1)
<1>1. \A x, y \in Field : On(TimesM, x, y) = (x * y) % M /\ On(TimesM, x, y) \in Field
  <2>1. \A x, y \in Field : x * y \in Int
    BY FieldElements
  <2> QED
    BY <2>1, AddTimesM, FieldElements
<1>2. TimesM \in [Field \X Field -> Field]
  <2>1. \A p \in Field \X Field : (p[1] * p[2]) % M \in Field
    <3>1. \A p \in Field \X Field : p[1] \in Int /\ p[2] \in Int
      BY FieldElements
    <3>2. \A p \in Field \X Field : p[1] * p[2] \in Int
      BY <3>1
    <3> QED
      BY <3>2, FieldElements
  <2> QED
    BY <2>1 DEF TimesM
<1>3. \A x \in Field : On(TimesM, x, 1) = x
  <2>1. \A x \in Field : x * 1 = x
    BY FieldElements
  <2> QED
    BY <1>1, <2>1, FieldElements
<1>4. \A x, y \in Field : On(TimesM, x, y) = On(TimesM, y, x)
  <2>1. \A x, y \in Field : x * y = y * x
    BY FieldElements
  <2> QED
    BY <1>1, <2>1
<1>5. ASSUME NEW x \in Field, NEW y \in Field, NEW z \in Field
      PROVE  On(TimesM, x, On(TimesM, y, z)) = On(TimesM, On(TimesM, x, y), z)
  <2>1. On(TimesM, x, On(TimesM, y, z)) = (x * ((y * z) % M)) % M
    BY <1>1
  <2>2. On(TimesM, On(TimesM, x, y), z) = (((x * y) % M) * z) % M
    BY <1>1
  <2>3. x \in Int /\ y \in Int /\ z \in Int
    BY FieldElements
  <2>4. x * y \in Int /\ y * z \in Int
    BY <2>3
  <2>5. (((x * y) % M) * z) % M = ((x * y) * z) % M
    BY <2>3, <2>4, ReducedTerm
  <2>6. (((y * z) % M) * x) % M = ((y * z) * x) % M /\ (y * z) % M \in Int
    BY <2>3, <2>4, ReducedTerm
  <2>7. x * ((y * z) % M) = ((y * z) % M) * x
    BY <2>3, <2>6
  <2>8. (y * z) * x = (x * y) * z
    BY <2>3
  <2> QED
    BY <2>1, <2>2, <2>5, <2>6, <2>7, <2>8
<1> QED
  BY <1>2, <1>3, <1>4, <1>5, FieldElements DEF IsMonoid

\* Products distribute over sums.
LEMMA TimesAdd ==
    ASSUME NEW x \in Field, NEW y \in Field, NEW z \in Field
    PROVE  On(TimesM, x, On(AddM, y, z)) = On(AddM, On(TimesM, x, y), On(TimesM, x, z))
<1>1. x \in Int /\ y \in Int /\ z \in Int
  BY FieldElements
<1>2. x * y \in Int /\ x * z \in Int /\ y + z \in Int
  BY <1>1
<1>3. (y + z) % M \in Field /\ (x * y) % M \in Field /\ (x * z) % M \in Field
  BY <1>2, FieldElements
<1>4. On(TimesM, x, On(AddM, y, z)) = (x * ((y + z) % M)) % M
  BY <1>3, AddTimesM
<1>5. On(AddM, On(TimesM, x, y), On(TimesM, x, z)) = (((x * y) % M) + ((x * z) % M)) % M
  BY <1>3, AddTimesM
<1>6. (((y + z) % M) * x) % M = ((y + z) * x) % M /\ (y + z) % M \in Int
  BY <1>1, <1>2, ReducedTerm
<1>7. x * ((y + z) % M) = ((y + z) % M) * x
  BY <1>1, <1>6
<1>8. (((x * y) % M) + ((x * z) % M)) % M = (x * y + ((x * z) % M)) % M /\ (x * z) % M \in Int
  BY <1>2, ReducedTerm
<1>9. (((x * z) % M) + x * y) % M = (x * z + x * y) % M
  BY <1>2, ReducedTerm
<1>10. x * y + ((x * z) % M) = ((x * z) % M) + x * y
  BY <1>2, <1>8
<1>11. (y + z) * x = x * z + x * y
  BY <1>1
<1> QED
  BY <1>4, <1>5, <1>6, <1>7, <1>8, <1>9, <1>10, <1>11

\* The powers of a up to the n-th.
ArePowers(f, a, n) == f[0] = 1 /\ \A i \in 1..n : f[i] = (f[i - 1] * a) % M

\* PowMod computes powers.
LEMMA PowModFound ==
    ASSUME NEW a \in Nat, NEW n \in Nat
    PROVE  \E f \in [0..n -> Field] : ArePowers(f, a, n) /\ \A k \in 0..n : PowMod(a, k) = f[k]
<1> DEFINE step == [t \in (0..n) \X Field |-> (t[2] * a) % M]
<1>2. step \in [(0..n) \X Field -> Field]
  <2>1. \A x \in Field : (x * a) % M \in Field
    <3>1. \A x \in Field : x \in Nat /\ x * a \in Int
      BY Remainders
    <3> QED
      BY <3>1, Remainders
  <2> QED
    BY <2>1
<1>3. PICK f \in [0..n -> Field] : ArePowers(f, a, n)
  <2>1. PICK f \in [0..n -> Field] : Iterates(f, n, 1, step)
    <3> HIDE DEF step
    <3> QED
      BY <1>2, Remainders, Recursion
  <2>2. \A i \in 1..n : step[<<i, f[i - 1]>>] = (f[i - 1] * a) % M
    <3>1. \A i \in 1..n : i - 1 \in 0..n /\ i \in 0..n
      OBVIOUS
    <3> QED
      BY <3>1
  <2> QED
    BY <2>1, <2>2 DEF Iterates, ArePowers
<1> HIDE DEF step
<1>4. ASSUME NEW k \in 0..n PROVE PowMod(a, k) = f[k]
  <2> DEFINE IsPower(g) == g = [i \in 0..k |-> IF i = 0 THEN 1 ELSE (g[i - 1] * a) % M]
             power == CHOOSE g : IsPower(g)
             h == [i \in 0..k |-> f[i]]
  <2>1. PowMod(a, k) = power[k]
    BY DEF PowMod
  <2>2. IsPower(h)
    <3>1. \A i \in 0..k : f[i] = IF i = 0 THEN 1 ELSE (f[i - 1] * a) % M
      BY <1>3 DEF ArePowers
    <3>2. \A i \in 0..k : i # 0 => h[i - 1] = f[i - 1]
      OBVIOUS
    <3> QED
      BY <3>1, <3>2
  <2> HIDE DEF h
  <2>3. IsPower(power)
    BY <2>2
  <2> HIDE DEF power
  <2> DEFINE T == {i \in 0..k : power[i] = f[i]}
  <2>4. 0 \in T
    BY <1>3, <2>3 DEF ArePowers
  <2>5. ASSUME NEW i \in 0..k - 1, i \in T PROVE i + 1 \in T
    <3>1. i + 1 \in 0..k /\ i + 1 \in 1..n /\ i + 1 # 0 /\ (i + 1) - 1 = i
      OBVIOUS
    <3>2. power[i + 1] = (power[i] * a) % M
      BY <2>3, <3>1
    <3>3. f[i + 1] = (f[i] * a) % M
      BY <1>3, <3>1 DEF ArePowers
    <3> QED
      BY <2>5, <3>1, <3>2, <3>3
  <2>6. k \in 0..k /\ k \in Nat
    OBVIOUS
  <2>7. \A i \in 0..k : i \in T
    <3> HIDE DEF T
    <3> QED
      BY <2>4, <2>5, <2>6, Induction
  <2> QED
    BY <2>1, <2>6, <2>7
<1> QED
  BY <1>3, <1>4

\* The powers of an element.
LEMMA PowModSteps ==
    ASSUME NEW a \in Field
    PROVE  /\ \A n \in Nat : PowMod(a, n) \in Field
           /\ PowMod(a, 0) = 1 /\ PowMod(a, 1) = a
           /\ \A n \in Nat : PowMod(a, n + 1) = On(TimesM, PowMod(a, n), a)
<1>1. ASSUME NEW n \in Nat
      PROVE  /\ PowMod(a, n) \in Field /\ PowMod(a, 0) = 1
             /\ PowMod(a, n + 1) = On(TimesM, PowMod(a, n), a)
  <2>1. a \in Nat /\ n + 1 \in Nat
    BY FieldElements
  <2>2. PICK f \in [0..n + 1 -> Field] :
            ArePowers(f, a, n + 1) /\ \A k \in 0..n + 1 : PowMod(a, k) = f[k]
    BY <2>1, PowModFound
  <2>3. /\ 0 \in 0..n + 1 /\ n \in 0..n + 1 /\ n + 1 \in 1..n + 1
        /\ n + 1 \in 0..n + 1 /\ (n + 1) - 1 = n
    OBVIOUS
  <2>4. f[n + 1] = (f[n] * a) % M /\ f[0] = 1 /\ f[n] \in Field
    BY <2>2, <2>3 DEF ArePowers
  <2>5. f[n + 1] = On(TimesM, f[n], a)
    BY <2>4, AddTimesM
  <2> QED
    BY <2>2, <2>3, <2>4, <2>5
<1>2. PowMod(a, 0 + 1) = On(TimesM, 1, a)
  BY <1>1
<1>3. On(TimesM, 1, a) = a
  BY TimesIsMonoid, Operates
<1>4. 0 + 1 = 1 /\ 0 \in Nat
  OBVIOUS
<1> QED
  BY <1>1, <1>2, <1>3, <1>4

\* Exponents add up.
LEMMA PowModAdd ==
    ASSUME NEW a \in Field, NEW m \in Nat, NEW n \in Nat
    PROVE  PowMod(a, m + n) = On(TimesM, PowMod(a, m), PowMod(a, n))
<1> DEFINE p(k) == PowMod(a, k)
           T == {k \in 0..n : p(m + k) = On(TimesM, p(m), p(k))}
<1>1. p(0) = 1 /\ \A k \in Nat : p(k) \in Field /\ p(k + 1) = On(TimesM, p(k), a)
  BY PowModSteps
<1> HIDE DEF p
<1>2. /\ \A x \in Field : On(TimesM, x, 1) = x
      /\ \A x, y, z \in Field : On(TimesM, x, On(TimesM, y, z)) = On(TimesM, On(TimesM, x, y), z)
  BY TimesIsMonoid, Operates, SMTT(30)
<1>3. 0 \in T
  <2>1. m + 0 = m
    OBVIOUS
  <2> QED
    BY <1>1, <1>2, <2>1
<1>4. ASSUME NEW k \in 0..n - 1, k \in T PROVE k + 1 \in T
  <2>1. k \in Nat /\ m + k \in Nat /\ m + (k + 1) = (m + k) + 1 /\ k + 1 \in 0..n
    OBVIOUS
  <2>2. p(m + (k + 1)) = On(TimesM, p(m + k), a) /\ p(k + 1) = On(TimesM, p(k), a)
    BY <1>1, <2>1
  <2>3. p(m + k) = On(TimesM, p(m), p(k))
    BY <1>4
  <2>4. On(TimesM, On(TimesM, p(m), p(k)), a) = On(TimesM, p(m), On(TimesM, p(k), a))
    BY <1>1, <1>2, <2>1
  <2> QED
    BY <2>1, <2>2, <2>3, <2>4
<1>5. \A k \in 0..n : k \in T
  <2> HIDE DEF T
  <2> QED
    BY <1>3, <1>4, Induction
<1>6. n \in T
  BY <1>5
<1> QED
  BY <1>6 DEF p

-----------------------------------------------------------------------------
\* Sums and products of field elements.
Sum(f, S) == Total(f, S, Field, AddM, 0)
Prod(f, S) == Total(f, S, Field, TimesM, 1)

\* A factor can be taken out of a sum.
LEMMA FactorOut ==
    ASSUME NEW S, IsFiniteSet(S), NEW f, \A x \in S : f[x] \in Field, NEW c \in Field,
           NEW g, \A x \in S : g[x] = On(TimesM, c, f[x])
    PROVE  Sum(g, S) = On(TimesM, c, Sum(f, S))
<1> DEFINE F(U) == Sum(f, U)
           G(U) == Sum(g, U)
           T == {U \in SUBSET S : G(U) = On(TimesM, c, F(U))}
<1>1. /\ F({}) = 0
      /\ \A U \in SUBSET S : /\ F(U) \in Field
                            /\ \A x \in U : F(U) = On(AddM, f[x], F(U \ {x}))
  BY AddIsMonoid, TotalStep DEF Sum
<1>2. \A x \in S : g[x] \in Field
  <2>1. \A x, y \in Field : On(TimesM, x, y) \in Field
    BY TimesIsMonoid, Operates
  <2> QED
    BY <2>1
<1>3. G({}) = 0 /\ \A U \in SUBSET S : \A x \in U : G(U) = On(AddM, g[x], G(U \ {x}))
  BY <1>2, AddIsMonoid, TotalStep DEF Sum
<1> HIDE DEF F, G
<1>4. {} \in T
  <2>1. On(TimesM, c, 0) = (c * 0) % M /\ c \in Int
    BY AddTimesM, FieldElements
  <2>2. c * 0 = 0 /\ 0 % M = 0
    BY <2>1, FieldElements
  <2> QED
    BY <1>1, <1>3, <2>1, <2>2
<1>5. ASSUME NEW U \in SUBSET S, U # {}, \A x \in U : U \ {x} \in T PROVE U \in T
  <2>1. PICK x \in U : TRUE
    BY <1>5
  <2> DEFINE a == f[x]
             b == F(U \ {x})
  <2>2. F(U) = On(AddM, a, b)
    BY <1>1
  <2>3. G(U) = On(AddM, On(TimesM, c, a), On(TimesM, c, b))
    BY <1>3, <1>5
  <2>4. a \in Field /\ b \in Field
    <3>1. U \ {x} \in SUBSET S
      OBVIOUS
    <3> QED
      BY <1>1, <3>1
  <2> HIDE DEF a, b
  <2> QED
    BY <2>2, <2>3, <2>4, TimesAdd
<1>6. \A U \in SUBSET S : U \in T
  <2> HIDE DEF T
  <2> QED
    BY <1>4, <1>5, SetInduction
<1>7. S \in T
  BY <1>6
<1> QED
  BY <1>7 DEF F, G

Plus == [p \in Int \X Int |-> p[1] + p[2]]

\* Integers add up in any order.
LEMMA PlusIsMonoid == IsMonoid(Int, Plus, 0)
<1>1. \A x, y \in Int : On(Plus, x, y) = x + y
  BY DEF On, Plus
<1>2. Plus \in [Int \X Int -> Int]
  BY DEF Plus
<1>3. /\ 0 \in Int
      /\ \A x \in Int : On(Plus, x, 0) = x
      /\ \A x, y \in Int : On(Plus, x, y) = On(Plus, y, x)
  BY <1>1
<1>4. \A x, y, z \in Int : On(Plus, x, On(Plus, y, z)) = On(Plus, On(Plus, x, y), z)
  BY <1>1
<1> QED
  BY <1>2, <1>3, <1>4 DEF IsMonoid

\* SumOver is a sum, and its remainder the sum of the remainders.
LEMMA SumOverIsSum ==
    ASSUME NEW S, IsFiniteSet(S), NEW f, \A x \in S : f[x] \in Field
    PROVE  SumOver(f, S) % M = Sum(f, S)
<1> DEFINE IsSum(g) == g = [T \in SUBSET S |->
                               IF T = {} THEN 0
                               ELSE LET t == CHOOSE t \in T : TRUE IN f[t] + g[T \ {t}]]
           sum == CHOOSE g : IsSum(g)
           w == [U \in SUBSET S |-> sum[U] % M]
<1>1. SumOver(f, S) = sum[S]
  BY DEF SumOver
<1>2. \A x \in S : f[x] \in Int
  BY FieldElements
<1>3. PICK t : IsTotal(t, f, S, Int, Plus, 0)
  BY <1>2, PlusIsMonoid, TotalExists
<1>4. /\ t \in [SUBSET S -> Int] /\ t[{}] = 0
      /\ \A U \in SUBSET S : \A x \in U : t[U] = f[x] + t[U \ {x}]
  <2>1. \A x, y \in Int : On(Plus, x, y) = x + y
    BY DEF On, Plus
  <2>2. \A U \in SUBSET S : \A x \in U : U \ {x} \in SUBSET S
    OBVIOUS
  <2>3. /\ t \in [SUBSET S -> Int] /\ t[{}] = 0
        /\ \A U \in SUBSET S : \A x \in U : t[U] = On(Plus, f[x], t[U \ {x}])
    BY <1>3 DEF IsTotal
  <2>4. ASSUME NEW U \in SUBSET S, NEW x \in U PROVE t[U] = f[x] + t[U \ {x}]
    <3>1. f[x] \in Int /\ t[U \ {x}] \in Int
      BY <1>2, <2>2, <2>3
    <3> QED
      BY <2>1, <2>3, <3>1
  <2> QED
    BY <2>3, <2>4
<1>5. IsSum(t)
  <2>1. \A T \in SUBSET S : t[T] = IF T = {} THEN 0
                                   ELSE LET x == CHOOSE x \in T : TRUE IN f[x] + t[T \ {x}]
    <3> TAKE T \in SUBSET S
    <3>1. CASE T = {}
      BY <1>4, <3>1
    <3>2. CASE T # {}
      <4> DEFINE x == CHOOSE x \in T : TRUE
      <4>1. x \in T
        BY <3>2
      <4> HIDE DEF x
      <4>2. t[T] = f[x] + t[T \ {x}]
        BY <1>4, <4>1
      <4> QED
        BY <3>2, <4>2 DEF x
    <3> QED
      BY <3>1, <3>2
  <2> QED
    BY <1>4, <2>1
<1>6. IsSum(sum)
  BY <1>5
<1> HIDE DEF sum
<1>7. ASSUME NEW U \in SUBSET S, U # {} PROVE \E x \in U : sum[U] = f[x] + sum[U \ {x}]
  <2> DEFINE x == CHOOSE x \in U : TRUE
  <2>1. x \in U
    BY <1>7
  <2>2. sum[U] = f[x] + sum[U \ {x}]
    BY <1>6, <1>7
  <2> HIDE DEF x
  <2> QED
    BY <2>1, <2>2
<1>8. sum[{}] = 0
  BY <1>6
<1>9. \A U \in SUBSET S : sum[U] = t[U]
  <2> DEFINE T == {U \in SUBSET S : sum[U] = t[U]}
  <2>1. {} \in T
    BY <1>4, <1>8
  <2>2. ASSUME NEW U \in SUBSET S, U # {}, \A x \in U : U \ {x} \in T PROVE U \in T
    <3>1. PICK x \in U : sum[U] = f[x] + sum[U \ {x}]
      BY <1>7, <2>2
    <3>2. sum[U \ {x}] = t[U \ {x}] /\ t[U] = f[x] + t[U \ {x}]
      BY <1>4, <2>2
    <3> QED
      BY <3>1, <3>2
  <2> HIDE DEF T
  <2>3. \A U \in SUBSET S : U \in T
    BY <2>1, <2>2, SetInduction
  <2> QED
    BY <2>3 DEF T
<1> HIDE DEF IsSum
<1> DEFINE v == CHOOSE v : IsTotal(v, f, S, Field, AddM, 0)
<1>10. IsTotal(v, f, S, Field, AddM, 0)
  BY AddIsMonoid, TotalExists
<1> HIDE DEF v
<1>11. w[{}] = 0
  <2>1. {} \in SUBSET S /\ 0 % M = 0
    BY FieldElements
  <2> QED
    BY <1>8, <2>1
<1>12. AddsUp(w, f, S, AddM)
  <2> SUFFICES ASSUME NEW U \in SUBSET S, U # {}
               PROVE \E x \in U : w[U] = On(AddM, f[x], w[U \ {x}])
    BY DEF AddsUp
  <2>1. PICK x \in U : TRUE
    OBVIOUS
  <2> DEFINE a == f[x]
             b == t[U \ {x}]
  <2>2. U \ {x} \in SUBSET S /\ x \in S
    OBVIOUS
  <2>3. a \in Field /\ a \in Int /\ b \in Int
    BY <1>2, <1>4, <2>2
  <2>4. w[U] = (a + b) % M /\ w[U \ {x}] = b % M
    BY <1>4, <1>9, <2>2
  <2> HIDE DEF a, b, w
  <2>5. b % M \in Field /\ b % M \in Int
    BY <2>3, FieldElements
  <2>6. On(AddM, a, b % M) = (a + (b % M)) % M
    BY <2>3, <2>5, AddTimesM
  <2>7. ((b % M) + a) % M = (b + a) % M
    BY <2>3, ReducedTerm
  <2>8. a + (b % M) = (b % M) + a /\ a + b = b + a
    BY <2>3, <2>5
  <2> QED
    BY <2>4, <2>6, <2>7, <2>8 DEF a
<1> HIDE DEF w
<1>13. \A U \in SUBSET S : w[U] = v[U]
  BY <1>10, <1>11, <1>12, TotalUnique
<1>14. Sum(f, S) = v[S]
  BY DEF Sum, Total, v
<1>15. w[S] = sum[S] % M
  BY DEF w
<1> QED
  BY <1>1, <1>13, <1>14, <1>15

-----------------------------------------------------------------------------
(***************************************************************************)
(* The polynomials that nodes draw, in draws K, and what they are when     *)
(* every draw has a value in the field.                                    *)
(***************************************************************************)
Monomials(K) == UNION {[D -> Nat] : D \in SUBSET K}
IsPoly(p, K) ==
    /\ p = [m \in DOMAIN p |-> p[m]]
    /\ IsFiniteSet(DOMAIN p) /\ DOMAIN p \subseteq Monomials(K)
    /\ \A m \in DOMAIN p : p[m] \in Field

MonoVal(m, env) == Prod([d \in DOMAIN m |-> PowMod(env[d], m[d])], DOMAIN m)
TermVal(p, m, env) == On(TimesM, Coef(p, m), MonoVal(m, env))
PolyVal(p, env) == Sum([m \in DOMAIN p |-> TermVal(p, m, env)], DOMAIN p)

\* A monomial over some of the draws.
LEMMA MonomialShape ==
    ASSUME NEW K, NEW m
    PROVE  m \in Monomials(K) <=> /\ m = [d \in DOMAIN m |-> m[d]]
                                  /\ DOMAIN m \subseteq K
                                  /\ \A d \in DOMAIN m : m[d] \in Nat
BY DEF Monomials

\* A monomial has a value, which is the product over any set of draws that
\* has all of its own.
LEMMA MonoValOver ==
    ASSUME NEW K, IsFiniteSet(K), NEW env \in [K -> Field], NEW m \in Monomials(K),
           NEW D \in SUBSET K, DOMAIN m \subseteq D,
           NEW f, \A d \in D : f[d] = PowMod(env[d], Coef(m, d))
    PROVE  /\ \A d \in D : f[d] \in Field
           /\ MonoVal(m, env) \in Field
           /\ MonoVal(m, env) = Prod(f, D)
<1> DEFINE g == [d \in DOMAIN m |-> PowMod(env[d], m[d])]
           P == DOMAIN m
<1>1. /\ P \in SUBSET D /\ \A d \in P : m[d] \in Nat /\ Coef(m, d) = m[d]
      /\ \A d \in D \ P : Coef(m, d) = 0
  BY MonomialShape DEF Coef
<1>2. \A d \in D : Coef(m, d) \in Nat /\ env[d] \in Field
  BY <1>1
<1>3. \A d \in D : f[d] \in Field
  BY <1>2, PowModSteps
<1>4. \A d \in D \ P : f[d] = 1
  BY <1>1, <1>2, PowModSteps
<1>5. IsFiniteSet(D) /\ IsFiniteSet(P)
  BY <1>1, FS_Subset
<1>6. \A d \in P : f[d] \in Field /\ g[d] = f[d]
  BY <1>1, <1>3
<1>7. MonoVal(m, env) = Prod(g, P)
  BY DEF MonoVal
<1> HIDE DEF g, P
<1>8. Prod(f, D) = Prod(f, P)
  BY <1>1, <1>3, <1>4, <1>5, TimesIsMonoid, TotalOfRest DEF Prod
<1>9. Prod(f, P) = Prod(g, P)
  BY <1>5, <1>6, TimesIsMonoid, TotalOfEqual DEF Prod
<1>10. P \in SUBSET P /\ \A d \in P : f[d] \in Field
  BY <1>6
<1>11. Prod(f, P) \in Field
  BY <1>5, <1>10, TimesIsMonoid, TotalStep DEF Prod
<1> QED
  BY <1>3, <1>7, <1>8, <1>9, <1>11

\* The value of a monomial is a field element.
LEMMA MonoValType ==
    ASSUME NEW K, IsFiniteSet(K), NEW env \in [K -> Field], NEW m \in Monomials(K)
    PROVE  MonoVal(m, env) \in Field
<1> DEFINE f == [d \in K |-> PowMod(env[d], Coef(m, d))]
<1>1. K \in SUBSET K /\ DOMAIN m \subseteq K
  BY MonomialShape
<1>2. \A d \in K : f[d] = PowMod(env[d], Coef(m, d))
  OBVIOUS
<1> HIDE DEF f
<1> QED
  BY <1>1, <1>2, MonoValOver

\* The product of two monomials has the product of their values.
LEMMA TimesVal ==
    ASSUME NEW K, IsFiniteSet(K), NEW env \in [K -> Field],
           NEW m \in Monomials(K), NEW n \in Monomials(K)
    PROVE  /\ Times(m, n) \in Monomials(K)
           /\ MonoVal(Times(m, n), env) = On(TimesM, MonoVal(m, env), MonoVal(n, env))
<1> DEFINE mn == Times(m, n)
           D == DOMAIN m \cup DOMAIN n
           val(h) == [d \in D |-> PowMod(env[d], Coef(h, d))]
           f == val(m)
           g == val(n)
           e == val(mn)
<1>1. /\ \A d \in DOMAIN m : m[d] \in Nat
      /\ \A d \in DOMAIN n : n[d] \in Nat
      /\ D \in SUBSET K
  BY MonomialShape
<1>2. \A d \in D : Coef(m, d) \in Nat /\ Coef(n, d) \in Nat
  BY <1>1 DEF Coef
<1>3. mn = [d \in D |-> Coef(m, d) + Coef(n, d)]
  BY DEF Times
<1>4. DOMAIN mn = D /\ \A d \in D : mn[d] = Coef(m, d) + Coef(n, d) /\ mn[d] \in Nat
  BY <1>2, <1>3
<1>5. mn \in Monomials(K)
  <2>1. mn = [d \in DOMAIN mn |-> mn[d]]
    BY <1>3
  <2> HIDE DEF mn, D
  <2> QED
    BY <1>1, <1>4, <2>1, MonomialShape
<1> HIDE DEF mn
<1>6. \A d \in D : e[d] = On(TimesM, f[d], g[d])
  <2> TAKE d \in D
  <2>1. env[d] \in Field
    BY <1>1
  <2>2. Coef(mn, d) = Coef(m, d) + Coef(n, d)
    BY <1>4 DEF Coef
  <2>3. PowMod(env[d], Coef(m, d) + Coef(n, d))
            = On(TimesM, PowMod(env[d], Coef(m, d)), PowMod(env[d], Coef(n, d)))
    BY <1>2, <2>1, PowModAdd
  <2> QED
    BY <2>2, <2>3
<1>7. /\ \A d \in D : f[d] = PowMod(env[d], Coef(m, d))
      /\ \A d \in D : g[d] = PowMod(env[d], Coef(n, d))
      /\ \A d \in D : e[d] = PowMod(env[d], Coef(mn, d))
  OBVIOUS
<1>8. DOMAIN m \subseteq D /\ DOMAIN n \subseteq D /\ DOMAIN mn \subseteq D
  BY <1>4
<1>9. IsFiniteSet(D)
  BY <1>1, FS_Subset
<1> HIDE DEF D, f, g, e
<1>10. MonoVal(m, env) = Prod(f, D)
  <2>0. D \in SUBSET K
    BY <1>1
  <2>1. DOMAIN m \subseteq D
    BY <1>8
  <2>2. \A d \in D : f[d] = PowMod(env[d], Coef(m, d))
    BY <1>7
  <2> QED
    BY <2>0, <2>1, <2>2, MonoValOver
<1>11. MonoVal(n, env) = Prod(g, D)
  <2>0. D \in SUBSET K
    BY <1>1
  <2>1. DOMAIN n \subseteq D
    BY <1>8
  <2>2. \A d \in D : g[d] = PowMod(env[d], Coef(n, d))
    BY <1>7
  <2> QED
    BY <2>0, <2>1, <2>2, MonoValOver
<1>12. MonoVal(mn, env) = Prod(e, D)
  BY <1>1, <1>5, <1>7, <1>8, MonoValOver
<1>13. \A d \in D : f[d] \in Field /\ g[d] \in Field /\ e[d] = On(TimesM, f[d], g[d])
  <2>1. \A d \in D : env[d] \in Field
    BY <1>1
  <2> QED
    BY <1>2, <1>6, <1>7, <2>1, PowModSteps
<1>14. Prod(e, D) = On(TimesM, Prod(f, D), Prod(g, D))
  BY <1>9, <1>13, TimesIsMonoid, TotalOfBoth DEF Prod
<1> QED
  BY <1>5, <1>10, <1>11, <1>12, <1>14 DEF mn

\* A polynomial has a value, which is the sum over any set of monomials that
\* has all of its own.
LEMMA PolyValOver ==
    ASSUME NEW K, IsFiniteSet(K), NEW env \in [K -> Field], NEW p, IsPoly(p, K),
           NEW D, IsFiniteSet(D), D \subseteq Monomials(K), DOMAIN p \subseteq D,
           NEW f, \A m \in D : f[m] = TermVal(p, m, env)
    PROVE  /\ \A m \in D : Coef(p, m) \in Field /\ f[m] \in Field
           /\ PolyVal(p, env) \in Field
           /\ PolyVal(p, env) = Sum(f, D)
<1> DEFINE P == DOMAIN p
           g == [m \in P |-> TermVal(p, m, env)]
<1>1. P \in SUBSET D /\ \A m \in P : p[m] \in Field
  BY DEF IsPoly
<1>2. \A m \in D : Coef(p, m) \in Field /\ MonoVal(m, env) \in Field
  BY <1>1, FieldElements, MonoValType DEF Coef
<1>3. ASSUME NEW m \in D PROVE f[m] \in Field
  <2>1. \A x, y \in Field : On(TimesM, x, y) \in Field
    BY TimesIsMonoid, Operates
  <2> QED
    BY <1>2, <2>1 DEF TermVal
<1>4. ASSUME NEW m \in D \ P PROVE f[m] = 0
  <2> DEFINE v == MonoVal(m, env)
  <2>1. Coef(p, m) = 0 /\ v \in Field /\ v \in Int /\ 0 \in Field
    BY <1>2, FieldElements DEF Coef
  <2>2. On(TimesM, 0, v) = (0 * v) % M
    BY <2>1, AddTimesM
  <2>3. 0 * v = 0 /\ 0 % M = 0
    BY <2>1, FieldElements
  <2> QED
    BY <2>1, <2>2, <2>3 DEF TermVal
<1>5. IsFiniteSet(P)
  BY DEF IsPoly
<1>6. \A m \in P : f[m] \in Field /\ g[m] = f[m]
  BY <1>1, <1>3
<1>7. PolyVal(p, env) = Sum(g, P)
  BY DEF PolyVal
<1> HIDE DEF g, P
<1>8. Sum(f, D) = Sum(f, P)
  BY <1>1, <1>3, <1>4, AddIsMonoid, TotalOfRest DEF Sum
<1>9. Sum(f, P) = Sum(g, P)
  BY <1>5, <1>6, AddIsMonoid, TotalOfEqual DEF Sum
<1>10. P \in SUBSET P /\ \A m \in P : f[m] \in Field
  BY <1>6
<1>11. Sum(f, P) \in Field
  BY <1>5, <1>10, AddIsMonoid, TotalStep DEF Sum
<1> QED
  BY <1>2, <1>3, <1>7, <1>8, <1>9, <1>11

\* The value of a polynomial is a field element.
LEMMA PolyValType ==
    ASSUME NEW K, IsFiniteSet(K), NEW env \in [K -> Field], NEW p, IsPoly(p, K)
    PROVE  PolyVal(p, env) \in Field
<1> DEFINE f == [m \in DOMAIN p |-> TermVal(p, m, env)]
           D == DOMAIN p
<1>1. IsFiniteSet(D) /\ D \subseteq Monomials(K) /\ DOMAIN p \subseteq D
  BY DEF IsPoly
<1>2. \A m \in D : f[m] = TermVal(p, m, env)
  OBVIOUS
<1> HIDE DEF f, D
<1> QED
  BY <1>1, <1>2, PolyValOver

\* The family of the terms of p over the monomials D.
Terms(p, D, env) == [m \in D |-> TermVal(p, m, env)]
\* PolyValOver for that family.
LEMMA PolyValTerms ==
    ASSUME NEW K, IsFiniteSet(K), NEW env \in [K -> Field], NEW p, IsPoly(p, K),
           NEW D, IsFiniteSet(D), D \subseteq Monomials(K), DOMAIN p \subseteq D
    PROVE  /\ \A m \in D : Terms(p, D, env)[m] \in Field
           /\ PolyVal(p, env) = Sum(Terms(p, D, env), D)
<1> DEFINE f == Terms(p, D, env)
<1>1. \A m \in D : f[m] = TermVal(p, m, env)
  BY DEF Terms
<1> HIDE DEF f
<1>2. \A m \in D : f[m] \in Field
  BY <1>1, PolyValOver
<1>3. PolyVal(p, env) = Sum(f, D)
  BY <1>1, PolyValOver
<1> QED
  BY <1>2, <1>3 DEF f

\* Terms that are zero can be dropped.
LEMMA NonZeroVal ==
    ASSUME NEW K, IsFiniteSet(K), NEW env \in [K -> Field], NEW p, IsPoly(p, K)
    PROVE  /\ IsPoly(NonZero(p), K)
           /\ PolyVal(NonZero(p), env) = PolyVal(p, env)
<1> DEFINE q == NonZero(p)
           D == DOMAIN p
<1>1. /\ q = [m \in DOMAIN q |-> q[m]] /\ DOMAIN q \subseteq D
      /\ \A m \in DOMAIN q : q[m] = p[m]
      /\ \A m \in D : m \notin DOMAIN q => p[m] = 0
  BY DEF NonZero
<1> HIDE DEF q
<1>2. IsFiniteSet(D) /\ D \subseteq Monomials(K)
  BY DEF IsPoly
<1>3. IsFiniteSet(DOMAIN q)
  BY <1>1, <1>2, FS_Subset
<1>4. IsPoly(q, K)
  BY <1>1, <1>3 DEF IsPoly
<1>5. \A m \in D : Coef(q, m) = Coef(p, m)
  BY <1>1 DEF Coef
<1>6. Terms(q, D, env) = Terms(p, D, env)
  BY <1>5 DEF Terms, TermVal
<1>7. PolyVal(q, env) = Sum(Terms(q, D, env), D)
  BY <1>1, <1>2, <1>4, PolyValTerms
<1>8. PolyVal(p, env) = Sum(Terms(p, D, env), D)
  <2>1. DOMAIN p \subseteq D
    OBVIOUS
  <2> HIDE DEF D
  <2> QED
    BY <1>2, <2>1, PolyValTerms
<1> QED
  BY <1>4, <1>6, <1>7, <1>8 DEF q

\* The empty product.
LEMMA OneVal ==
    ASSUME NEW K, NEW env
    PROVE  One \in Monomials(K) /\ MonoVal(One, env) = 1
<1> DEFINE f == [d \in DOMAIN One |-> PowMod(env[d], One[d])]
<1>1. DOMAIN One = {}
  BY DEF One
<1>2. One \in Monomials(K)
  BY MonomialShape DEF One
<1>3. IsFiniteSet({}) /\ \A x \in {} : f[x] \in Field
  BY FS_EmptySet
<1>4. MonoVal(One, env) = Prod(f, {})
  BY <1>1 DEF MonoVal
<1> HIDE DEF f
<1>5. Prod(f, {}) = 1
  BY <1>3, TimesIsMonoid, TotalStep DEF Prod
<1> QED
  BY <1>2, <1>4, <1>5

\* A polynomial with one term.
LEMMA OneTerm ==
    ASSUME NEW K, IsFiniteSet(K), NEW env \in [K -> Field],
           NEW m \in Monomials(K), NEW c \in Field, NEW p, p = [n \in {m} |-> c]
    PROVE  IsPoly(p, K) /\ PolyVal(p, env) = On(TimesM, c, MonoVal(m, env))
<1> DEFINE f == Terms(p, {m}, env)
<1>1. IsFiniteSet({m}) /\ DOMAIN p = {m} /\ p[m] = c
  BY FS_Singleton
<1>2. IsPoly(p, K)
  BY <1>1 DEF IsPoly
<1>3. PolyVal(p, env) = Sum(f, {m}) /\ \A x \in {m} : f[x] \in Field
  BY <1>1, <1>2, PolyValTerms
<1>4. f[m] = On(TimesM, c, MonoVal(m, env))
  BY <1>1 DEF Terms, TermVal, Coef
<1> HIDE DEF f
<1>5. Sum(f, {m}) = f[m]
  <2>1. m \in {m} /\ f[m] \in Field /\ \A x \in {m} \ {m} : f[x] = 0
    BY <1>3
  <2> QED
    BY <1>1, <2>1, AddIsMonoid, TotalOfOne DEF Sum
<1> QED
  BY <1>2, <1>3, <1>4, <1>5

\* A constant is worth itself, a draw what the draw is.
LEMMA ConstVal ==
    ASSUME NEW K, IsFiniteSet(K), NEW env \in [K -> Field], NEW c \in Field
    PROVE  IsPoly(ConstPoly(c), K) /\ PolyVal(ConstPoly(c), env) = c
<1> DEFINE p == [m \in {One} |-> c]
<1>1. One \in Monomials(K) /\ MonoVal(One, env) = 1
  BY OneVal
<1>2. IsPoly(p, K) /\ PolyVal(p, env) = On(TimesM, c, MonoVal(One, env))
  BY <1>1, OneTerm
<1>3. On(TimesM, c, 1) = c
  BY TimesIsMonoid, Operates
<1>4. ConstPoly(c) = NonZero(p)
  BY DEF ConstPoly
<1> HIDE DEF p
<1> QED
  BY <1>1, <1>2, <1>3, <1>4, NonZeroVal

\* A draw is worth what it has drawn.
LEMMA DrawVal ==
    ASSUME NEW K, IsFiniteSet(K), NEW env \in [K -> Field], NEW key \in K
    PROVE  IsPoly(Draw(key), K) /\ PolyVal(Draw(key), env) = env[key]
<1> DEFINE m == [d \in {key} |-> 1]
           f == [d \in {key} |-> PowMod(env[d], Coef(m, d))]
<1>1. m \in Monomials(K) /\ DOMAIN m = {key} /\ Coef(m, key) = 1
  BY MonomialShape DEF Coef
<1>2. Draw(key) = [n \in {m} |-> 1]
  BY DEF Draw
<1>3. \A d \in {key} : f[d] = PowMod(env[d], Coef(m, d))
  OBVIOUS
<1> HIDE DEF m
<1>4. f[key] = env[key] /\ env[key] \in Field
  BY <1>1, PowModSteps
<1> HIDE DEF f
<1>5. {key} \in SUBSET K /\ DOMAIN m \subseteq {key}
  BY <1>1
<1>6. MonoVal(m, env) = Prod(f, {key})
  BY <1>1, <1>3, <1>5, MonoValOver, SMTT(30)
<1>7. Prod(f, {key}) = f[key]
  <2>1. key \in {key} /\ f[key] \in Field /\ \A x \in {key} \ {key} : f[x] = 1
    BY <1>4
  <2>2. IsFiniteSet({key})
    BY FS_Singleton
  <2> QED
    BY <2>1, <2>2, TimesIsMonoid, TotalOfOne DEF Prod
<1>8. 1 \in Field
  BY FieldElements
<1>9. IsPoly(Draw(key), K) /\ PolyVal(Draw(key), env) = On(TimesM, 1, MonoVal(m, env))
  BY <1>1, <1>2, <1>8, OneTerm
<1>10. On(TimesM, 1, env[key]) = env[key]
  BY <1>4, TimesIsMonoid, Operates
<1> QED
  BY <1>4, <1>6, <1>7, <1>9, <1>10

\* What Add, Sub and Mul come to on elements.
LEMMA RingOps ==
    ASSUME NEW x \in Field, NEW y \in Field
    PROVE  /\ Eval("Add", x, y) = On(AddM, x, y) /\ On(AddM, x, y) \in Field
           /\ Eval("Mul", x, y) = On(TimesM, x, y) /\ On(TimesM, x, y) \in Field
           /\ On(TimesM, x, y) = On(TimesM, y, x)
           /\ Eval("Sub", x, y) \in Field
           /\ x = On(AddM, Eval("Sub", x, y), y)
<1>1. Eval("Add", x, y) = (x + y) % M /\ Eval("Mul", x, y) = (x * y) % M
  BY DEF Eval
<1>2. Eval("Sub", x, y) = (x - y) % M /\ Eval("Sub", x, y) \in Field
  <2>1. Eval("Sub", x, y) = (x + ((M - y) % Word)) % M
    BY DEF Eval
  <2> QED
    BY <2>1, DifferenceAgrees
<1>3. On(AddM, x, y) \in Field
  BY AddIsMonoid, Operates
<1>4. On(TimesM, x, y) \in Field /\ On(TimesM, x, y) = On(TimesM, y, x)
  BY TimesIsMonoid, Operates
<1>5. x \in Int /\ y \in Int /\ x % M = x
  BY FieldElements
<1>6. On(AddM, Eval("Sub", x, y), y) = (((x - y) % M) + y) % M
  BY <1>2, AddTimesM
<1>7. x - y \in Int /\ (x - y) + y = x
  BY <1>5
<1>8. (((x - y) % M) + y) % M = ((x - y) + y) % M
  BY <1>5, <1>7, ReducedTerm
<1> QED
  BY <1>1, <1>2, <1>3, <1>4, <1>5, <1>6, <1>7, <1>8, AddTimesM

\* A polynomial whose coefficients are sums is worth the sum.
LEMMA SumVal ==
    ASSUME NEW K, IsFiniteSet(K), NEW env \in [K -> Field],
           NEW p, IsPoly(p, K), NEW q, IsPoly(q, K), NEW r, IsPoly(r, K),
           NEW D, IsFiniteSet(D), D \subseteq Monomials(K),
           DOMAIN p \subseteq D, DOMAIN q \subseteq D, DOMAIN r \subseteq D,
           \A m \in D : Coef(r, m) = On(AddM, Coef(p, m), Coef(q, m))
    PROVE  PolyVal(r, env) = On(AddM, PolyVal(p, env), PolyVal(q, env))
<1> DEFINE f == Terms(p, D, env)
           g == Terms(q, D, env)
           h == Terms(r, D, env)
<1>1. PolyVal(p, env) = Sum(f, D) /\ \A m \in D : f[m] \in Field
  BY PolyValTerms
<1>2. PolyVal(q, env) = Sum(g, D) /\ \A m \in D : g[m] \in Field
  BY PolyValTerms
<1>3. PolyVal(r, env) = Sum(h, D)
  BY PolyValTerms
<1>4. ASSUME NEW m \in D PROVE h[m] = On(AddM, f[m], g[m])
  <2> DEFINE x == Coef(p, m)
             y == Coef(q, m)
             v == MonoVal(m, env)
  <2>1. f[m] = On(TimesM, x, v) /\ g[m] = On(TimesM, y, v) /\ h[m] = On(TimesM, On(AddM, x, y), v)
    BY DEF Terms, TermVal
  <2>2. x \in Field /\ y \in Field
    BY FieldElements DEF Coef, IsPoly
  <2>3. v \in Field
    BY MonoValType
  <2> HIDE DEF x, y, v
  <2>4. On(AddM, x, y) \in Field
    BY <2>2, RingOps
  <2>5. /\ On(TimesM, x, v) = On(TimesM, v, x) /\ On(TimesM, y, v) = On(TimesM, v, y)
        /\ On(TimesM, On(AddM, x, y), v) = On(TimesM, v, On(AddM, x, y))
    BY <2>2, <2>3, <2>4, RingOps
  <2>6. On(TimesM, v, On(AddM, x, y)) = On(AddM, On(TimesM, v, x), On(TimesM, v, y))
    BY <2>2, <2>3, TimesAdd
  <2> QED
    BY <2>1, <2>5, <2>6
<1> HIDE DEF f, g, h
<1>5. \A m \in D : f[m] \in Field /\ g[m] \in Field /\ h[m] = On(AddM, f[m], g[m])
  BY <1>1, <1>2, <1>4
<1>6. Sum(h, D) = On(AddM, Sum(f, D), Sum(g, D))
  BY <1>5, AddIsMonoid, TotalOfBoth DEF Sum
<1> QED
  BY <1>1, <1>2, <1>3, <1>6

\* The coefficients of a polynomial are the same without the zero terms.
LEMMA NonZeroCoef == \A p, m : Coef(NonZero(p), m) = Coef(p, m)
BY DEF NonZero, Coef

\* AddPoly adds.
LEMMA AddVal ==
    ASSUME NEW K, IsFiniteSet(K), NEW env \in [K -> Field],
           NEW p, IsPoly(p, K), NEW q, IsPoly(q, K)
    PROVE  /\ IsPoly(AddPoly(p, q), K)
           /\ PolyVal(AddPoly(p, q), env) = On(AddM, PolyVal(p, env), PolyVal(q, env))
<1> DEFINE D == DOMAIN p \cup DOMAIN q
           r == [m \in D |-> Eval("Add", Coef(p, m), Coef(q, m))]
<1>1. \A m \in D : Coef(p, m) \in Field /\ Coef(q, m) \in Field
  BY FieldElements DEF Coef, IsPoly
<1>2. IsFiniteSet(D) /\ D \subseteq Monomials(K)
  BY FS_Union DEF IsPoly
<1>3. \A m \in D : r[m] \in Field /\ r[m] = On(AddM, Coef(p, m), Coef(q, m))
  BY <1>1, RingOps
<1>4. DOMAIN r = D /\ r = [m \in D |-> r[m]] /\ AddPoly(p, q) = NonZero(r)
  BY DEF AddPoly
<1>5. DOMAIN p \subseteq D /\ DOMAIN q \subseteq D
  OBVIOUS
<1> HIDE DEF r, D
<1>6. IsPoly(r, K)
  BY <1>2, <1>3, <1>4 DEF IsPoly
<1>7. \A m \in D : Coef(r, m) = On(AddM, Coef(p, m), Coef(q, m))
  BY <1>3, <1>4 DEF Coef
<1>8. PolyVal(r, env) = On(AddM, PolyVal(p, env), PolyVal(q, env))
  BY <1>2, <1>4, <1>5, <1>6, <1>7, SumVal
<1> QED
  BY <1>4, <1>6, <1>8, NonZeroVal

\* SubPoly subtracts.
LEMMA SubVal ==
    ASSUME NEW K, IsFiniteSet(K), NEW env \in [K -> Field],
           NEW p, IsPoly(p, K), NEW q, IsPoly(q, K)
    PROVE  /\ IsPoly(SubPoly(p, q), K)
           /\ PolyVal(SubPoly(p, q), env) = (PolyVal(p, env) - PolyVal(q, env)) % M
<1> DEFINE D == DOMAIN p \cup DOMAIN q
           r == [m \in D |-> Eval("Sub", Coef(p, m), Coef(q, m))]
           a == PolyVal(p, env)
           b == PolyVal(q, env)
           c == PolyVal(r, env)
<1>1. \A m \in D : Coef(p, m) \in Field /\ Coef(q, m) \in Field
  BY FieldElements DEF Coef, IsPoly
<1>2. IsFiniteSet(D) /\ D \subseteq Monomials(K)
  BY FS_Union DEF IsPoly
<1>3. \A m \in D : r[m] \in Field /\ Coef(p, m) = On(AddM, r[m], Coef(q, m))
  BY <1>1, RingOps
<1>4. DOMAIN r = D /\ r = [m \in D |-> r[m]] /\ SubPoly(p, q) = NonZero(r)
  BY DEF SubPoly
<1>5. DOMAIN p \subseteq D /\ DOMAIN q \subseteq D
  OBVIOUS
<1> HIDE DEF r, D
<1>6. IsPoly(r, K)
  BY <1>2, <1>3, <1>4 DEF IsPoly
<1>7. \A m \in D : Coef(p, m) = On(AddM, Coef(r, m), Coef(q, m))
  BY <1>3, <1>4 DEF Coef
<1>8. a = On(AddM, c, b)
  BY <1>2, <1>4, <1>5, <1>6, <1>7, SumVal
<1>9. a \in Field /\ b \in Field /\ c \in Field
  BY <1>6, PolyValType
<1>10. PolyVal(SubPoly(p, q), env) = c /\ IsPoly(SubPoly(p, q), K)
  BY <1>4, <1>6, NonZeroVal
<1> HIDE DEF a, b, c
<1>11. c = (a - b) % M
  <2>1. a = (c + b) % M
    BY <1>8, <1>9, AddTimesM
  <2>2. c \in Int /\ b \in Int /\ a \in Int /\ c % M = c /\ c + b \in Int
    BY <1>9, FieldElements
  <2>3. (((c + b) % M) - b) % M = ((c + b) - b) % M
    BY <2>2, ReducedTerm
  <2>4. (c + b) - b = c
    BY <2>2
  <2> QED
    BY <2>1, <2>2, <2>3, <2>4
<1> QED
  BY <1>10, <1>11 DEF a, b

\* What a function makes of a finite set is finite.
LEMMA FiniteImage ==
    ASSUME NEW S, IsFiniteSet(S), NEW h, DOMAIN h = S, h = [x \in S |-> h[x]]
    PROVE  IsFiniteSet({h[x] : x \in S})
<1> DEFINE T == {h[x] : x \in S}
<1>1. h \in [S -> T] /\ \A t \in T : \E x \in S : h[x] = t
  OBVIOUS
<1> HIDE DEF T
<1>2. h \in Surjection(S, T)
  BY <1>1 DEF Surjection
<1> QED
  BY <1>2, FS_Surjection DEF T

\* The product of two terms is the product of their coefficients with the
\* product of their monomials.
LEMMA TermTimes ==
    ASSUME NEW x \in Field, NEW y \in Field, NEW v \in Field, NEW w \in Field
    PROVE  On(TimesM, On(TimesM, x, y), On(TimesM, v, w))
               = On(TimesM, On(TimesM, x, v), On(TimesM, y, w))
<1>1. On(TimesM, v, w) \in Field /\ On(TimesM, y, w) \in Field
  BY RingOps
<1>2. On(TimesM, On(TimesM, x, y), On(TimesM, v, w))
          = On(TimesM, x, On(TimesM, y, On(TimesM, v, w)))
  BY <1>1, TimesIsMonoid, Operates
<1>3. On(TimesM, y, On(TimesM, v, w)) = On(TimesM, v, On(TimesM, y, w))
  BY TimesIsMonoid, Operates
<1>4. On(TimesM, x, On(TimesM, v, On(TimesM, y, w)))
          = On(TimesM, On(TimesM, x, v), On(TimesM, y, w))
  BY <1>1, TimesIsMonoid, Operates
<1> QED
  BY <1>2, <1>3, <1>4

\* The value of the product of a term of p with one of q.
PairVal(p, q, env, t) ==
    On(TimesM, Eval("Mul", p[t[1]], q[t[2]]), MonoVal(Times(t[1], t[2]), env))

\* The sum over all pairs of terms is the product of the sums.
LEMMA PairsVal ==
    ASSUME NEW K, IsFiniteSet(K), NEW env \in [K -> Field],
           NEW p, IsPoly(p, K), NEW q, IsPoly(q, K),
           NEW f, \A t \in (DOMAIN p) \X (DOMAIN q) : f[t] = PairVal(p, q, env, t)
    PROVE  Sum(f, (DOMAIN p) \X (DOMAIN q)) = On(TimesM, PolyVal(p, env), PolyVal(q, env))
<1> DEFINE A == DOMAIN p
           B == DOMAIN q
           fp == Terms(p, A, env)
           fq == Terms(q, B, env)
           sp == PolyVal(p, env)
           sq == PolyVal(q, env)
           g == [a \in A |-> Sum(Row(f, a, B), B)]
<1>1. /\ IsFiniteSet(A) /\ A \subseteq Monomials(K) /\ \A a \in A : p[a] \in Field
      /\ IsFiniteSet(B) /\ B \subseteq Monomials(K) /\ \A b \in B : q[b] \in Field
  BY DEF IsPoly
<1>2. sp = Sum(fp, A) /\ (\A a \in A : fp[a] \in Field) /\ sp \in Field
  <2>1. DOMAIN p \subseteq A
    OBVIOUS
  <2> HIDE DEF A
  <2> QED
    BY <1>1, <2>1, PolyValTerms, PolyValType
<1>3. sq = Sum(fq, B) /\ (\A b \in B : fq[b] \in Field) /\ sq \in Field
  <2>1. DOMAIN q \subseteq B
    OBVIOUS
  <2> HIDE DEF B
  <2> QED
    BY <1>1, <2>1, PolyValTerms, PolyValType
<1>4. ASSUME NEW a \in A, NEW b \in B
      PROVE  f[<<a, b>>] = On(TimesM, fp[a], fq[b]) /\ f[<<a, b>>] \in Field
  <2> DEFINE x == p[a]
             y == q[b]
             v == MonoVal(a, env)
             w == MonoVal(b, env)
  <2>1. fp[a] = On(TimesM, x, v) /\ fq[b] = On(TimesM, y, w)
    BY DEF Terms, TermVal, Coef
  <2>2. f[<<a, b>>] = On(TimesM, Eval("Mul", x, y), MonoVal(Times(a, b), env))
    <3> DEFINE t == <<a, b>>
    <3>1. t \in A \X B /\ t[1] = a /\ t[2] = b
      OBVIOUS
    <3> HIDE DEF t
    <3>2. f[t] = PairVal(p, q, env, t)
      BY <3>1
    <3>3. PairVal(p, q, env, t) = On(TimesM, Eval("Mul", x, y), MonoVal(Times(a, b), env))
      BY <3>1 DEF PairVal
    <3> QED
      BY <3>2, <3>3 DEF t
  <2>3. x \in Field /\ y \in Field /\ a \in Monomials(K) /\ b \in Monomials(K)
    BY <1>1
  <2>4. v \in Field /\ w \in Field /\ MonoVal(Times(a, b), env) = On(TimesM, v, w)
    BY <2>3, MonoValType, TimesVal
  <2> HIDE DEF x, y, v, w, fp, fq
  <2>5. Eval("Mul", x, y) = On(TimesM, x, y)
    BY <2>3, RingOps
  <2>6. f[<<a, b>>] = On(TimesM, fp[a], fq[b])
    BY <2>1, <2>2, <2>3, <2>4, <2>5, TermTimes
  <2> QED
    BY <1>2, <1>3, <2>6, RingOps
<1>5. \A t \in A \X B : f[t] \in Field
  <2> TAKE t \in A \X B
  <2>1. t = <<t[1], t[2]>> /\ t[1] \in A /\ t[2] \in B
    OBVIOUS
  <2> HIDE DEF A, B
  <2> QED
    BY <1>4, <2>1
<1>6. ASSUME NEW a \in A PROVE g[a] = On(TimesM, sq, fp[a])
  <2> DEFINE fb == Row(f, a, B)
  <2>1. g[a] = Sum(fb, B)
    OBVIOUS
  <2>2. \A b \in B : fb[b] = On(TimesM, fp[a], fq[b])
    BY <1>4 DEF Row
  <2>3. fp[a] \in Field
    BY <1>2
  <2> HIDE DEF fb, fq, B, fp, g
  <2>4. Sum(fb, B) = On(TimesM, fp[a], Sum(fq, B))
    BY <1>1, <1>3, <2>2, <2>3, FactorOut
  <2> HIDE DEF sq
  <2> QED
    BY <1>3, <2>1, <2>3, <2>4, RingOps
<1>7. \A a \in A : g[a] = Total(Row(f, a, B), B, Field, AddM, 0)
  BY DEF Sum
<1> HIDE DEF A, B, g, fp, fq, sp, sq
<1>8. Sum(f, A \X B) = Sum(g, A)
  BY <1>1, <1>5, <1>7, AddIsMonoid, TotalOfPairs DEF Sum
<1>9. Sum(g, A) = On(TimesM, sq, Sum(fp, A))
  BY <1>1, <1>2, <1>3, <1>6, FactorOut
<1>10. On(TimesM, sq, sp) = On(TimesM, sp, sq)
  BY <1>2, <1>3, RingOps
<1>11. Sum(f, A \X B) = On(TimesM, sp, sq)
  BY <1>2, <1>8, <1>9, <1>10
<1> QED
  BY <1>11 DEF A, B, sp, sq

\* MulPoly multiplies.
LEMMA MulVal ==
    ASSUME NEW K, IsFiniteSet(K), NEW env \in [K -> Field],
           NEW p, IsPoly(p, K), NEW q, IsPoly(q, K)
    PROVE  /\ IsPoly(MulPoly(p, q), K)
           /\ PolyVal(MulPoly(p, q), env) = On(TimesM, PolyVal(p, env), PolyVal(q, env))
<1> DEFINE S == (DOMAIN p) \X (DOMAIN q)
           term == [t \in S |-> Eval("Mul", p[t[1]], q[t[2]])]
           h == [t \in S |-> Times(t[1], t[2])]
           R == {Times(t[1], t[2]) : t \in S}
           r == [m \in R |-> SumOver(term, {t \in S : Times(t[1], t[2]) = m}) % M]
           f == [t \in S |-> PairVal(p, q, env, t)]
           g == Terms(r, R, env)
<1>1. MulPoly(p, q) = NonZero(r)
  BY Zenon DEF MulPoly
<1>2. /\ IsFiniteSet(S)
      /\ \A t \in S : /\ t[1] \in Monomials(K) /\ t[2] \in Monomials(K)
                      /\ p[t[1]] \in Field /\ q[t[2]] \in Field
  <2>1. IsFiniteSet(DOMAIN p) /\ IsFiniteSet(DOMAIN q)
    BY DEF IsPoly
  <2>2. IsFiniteSet(S)
    BY <2>1, FS_Product
  <2>3. /\ \A m \in DOMAIN p : m \in Monomials(K) /\ p[m] \in Field
        /\ \A m \in DOMAIN q : m \in Monomials(K) /\ q[m] \in Field
    BY DEF IsPoly
  <2>4. \A t \in S : t[1] \in DOMAIN p /\ t[2] \in DOMAIN q
    OBVIOUS
  <2> HIDE DEF S
  <2> QED
    BY <2>2, <2>3, <2>4
<1>3. \A t \in S : term[t] \in Field /\ h[t] = Times(t[1], t[2]) /\ h[t] \in Monomials(K)
  <2> TAKE t \in S
  <2>1. Eval("Mul", p[t[1]], q[t[2]]) \in Field
    BY <1>2, RingOps
  <2>2. Times(t[1], t[2]) \in Monomials(K)
    BY <1>2, TimesVal
  <2> QED
    BY <2>1, <2>2
<1>4. /\ R = {h[t] : t \in S} /\ R \subseteq Monomials(K)
      /\ DOMAIN h = S /\ h = [t \in S |-> h[t]]
  BY <1>3
<1>5. IsFiniteSet(R)
  <2> HIDE DEF S, h, R
  <2> QED
    BY <1>2, <1>4, FiniteImage
<1>6. ASSUME NEW m \in R
      PROVE  /\ r[m] = Sum(term, Fibre(h, m, S)) /\ r[m] \in Field
             /\ IsFiniteSet(Fibre(h, m, S)) /\ \A t \in Fibre(h, m, S) : t \in S /\ h[t] = m
  <2> DEFINE U == Fibre(h, m, S)
  <2>1. U = {t \in S : Times(t[1], t[2]) = m} /\ U \in SUBSET S
    BY DEF Fibre
  <2>2. \A t \in U : t \in S /\ h[t] = m
    BY DEF Fibre
  <2>3. r[m] = SumOver(term, U) % M
    BY <2>1
  <2> HIDE DEF U
  <2>4. IsFiniteSet(U)
    BY <1>2, <2>1, FS_Subset
  <2>5. \A t \in U : term[t] \in Field
    BY <1>3, <2>1
  <2> HIDE DEF r, S, term, h
  <2>6. SumOver(term, U) % M = Sum(term, U)
    BY <2>4, <2>5, SumOverIsSum
  <2>7. Sum(term, U) \in Field
    <3>1. U \in SUBSET U
      OBVIOUS
    <3> QED
      BY <2>4, <2>5, <3>1, AddIsMonoid, TotalStep DEF Sum
  <2> QED
    BY <2>2, <2>3, <2>4, <2>6, <2>7 DEF U
<1>7. DOMAIN r = R /\ r = [m \in R |-> r[m]]
  OBVIOUS
<1>8. \A t \in S : f[t] = PairVal(p, q, env, t)
  OBVIOUS
<1>9. \A t \in S : h[t] \in R
  OBVIOUS
<1>10. \A t \in S : f[t] = On(TimesM, term[t], MonoVal(h[t], env))
  BY DEF PairVal
<1>11. (\A t \in S : f[t] \in Field) /\ Sum(f, S) = On(TimesM, PolyVal(p, env), PolyVal(q, env))
  <2> HIDE DEF f
  <2>1. \A t \in S : f[t] \in Field
    <3> HIDE DEF S, term, h
    <3>1. \A t \in S : MonoVal(h[t], env) \in Field
      BY <1>3, MonoValType
    <3> QED
      BY <1>3, <1>10, <3>1, RingOps
  <2>2. Sum(f, S) = On(TimesM, PolyVal(p, env), PolyVal(q, env))
    BY <1>8, PairsVal
  <2> QED
    BY <2>1, <2>2
<1> HIDE DEF r, R, S, term, h, f
<1>12. IsPoly(r, K)
  BY <1>4, <1>5, <1>6, <1>7 DEF IsPoly
<1>13. PolyVal(r, env) = Sum(g, R)
  <2>1. DOMAIN r \subseteq R
    BY <1>7
  <2> QED
    BY <1>4, <1>5, <1>12, <2>1, PolyValTerms
<1>14. ASSUME NEW m \in R PROVE g[m] = Sum(f, Fibre(h, m, S))
  <2> DEFINE U == Fibre(h, m, S)
             v == MonoVal(m, env)
  <2>1. g[m] = On(TimesM, Sum(term, U), v)
    BY <1>6, <1>7 DEF Terms, TermVal, Coef
  <2>2. v \in Field
    BY <1>4, MonoValType
  <2>3. \A t \in U : term[t] \in Field /\ f[t] = On(TimesM, term[t], v)
    BY <1>3, <1>6, <1>10
  <2>4. IsFiniteSet(U) /\ Sum(term, U) \in Field
    BY <1>6
  <2> HIDE DEF U, v, g
  <2>5. \A t \in U : f[t] = On(TimesM, v, term[t])
    BY <2>2, <2>3, RingOps
  <2>6. Sum(f, U) = On(TimesM, v, Sum(term, U))
    BY <2>2, <2>3, <2>4, <2>5, FactorOut
  <2> QED
    BY <2>1, <2>2, <2>4, <2>6, RingOps DEF U
<1> HIDE DEF g
<1>15. Sum(f, S) = Sum(g, R)
  <2>1. \A m \in R : g[m] = Total(f, Fibre(h, m, S), Field, AddM, 0)
    BY <1>14 DEF Sum
  <2>2. \A t \in S : f[t] \in Field
    BY <1>11
  <2> QED
    BY <1>2, <1>5, <1>9, <2>1, <2>2, AddIsMonoid, TotalOfFibres DEF Sum
<1> QED
  BY <1>1, <1>11, <1>12, <1>13, <1>15, NonZeroVal
=============================================================================
