------------------------ MODULE ConstantFolding_proofs ------------------------
(***************************************************************************)
(* What is proved of folding and evaluation, for every modulus that has    *)
(* inverses, every size of a word and computations of any length.          *)
(***************************************************************************)
EXTENDS ConstantFolding, Graph_proofs

-----------------------------------------------------------------------------
\* The comparisons of two field elements, whichever they are.
LEMMA ComparisonsAreSigned ==
    ASSUME NEW a \in Field, NEW b \in Field
    PROVE  /\ Lt(a, b) = (Signed(a) < Signed(b))
           /\ Gt(a, b) = (Signed(a) > Signed(b))
           /\ Leq(a, b) = (Signed(a) <= Signed(b))
           /\ Geq(a, b) = (Signed(a) >= Signed(b))
<1>1. /\ M \in Nat /\ 2 * HalfM + 1 = M /\ HalfM \in Nat
      /\ a \in 0..M - 1 /\ b \in 0..M - 1
  BY ModulusIsOdd DEF Field
<1>2. (M - 1) \div 2 = HalfM
  BY <1>1
<1>3. /\ Signed(a) = IF Neg(a) THEN a - M ELSE a
      /\ Signed(b) = IF Neg(b) THEN b - M ELSE b
  BY <1>1, <1>2 DEF Signed, Neg
<1>4. CASE Neg(a) /\ Neg(b)
  BY <1>1, <1>3, <1>4 DEF Lt, Gt, Leq, Geq
<1>5. CASE Neg(a) /\ ~Neg(b)
  BY <1>1, <1>3, <1>5 DEF Lt, Gt, Leq, Geq, Neg
<1>6. CASE ~Neg(a) /\ Neg(b)
  BY <1>1, <1>3, <1>6 DEF Lt, Gt, Leq, Geq, Neg
<1>7. CASE ~Neg(a) /\ ~Neg(b)
  BY <1>1, <1>3, <1>7 DEF Lt, Gt, Leq, Geq, Neg
<1> QED
  BY <1>4, <1>5, <1>6, <1>7

-----------------------------------------------------------------------------
(***************************************************************************)
(* The right shift of field elements moves limbs, then carries bits from   *)
(* each limb to the next.                                                  *)
(***************************************************************************)

\* The modulus has fewer bits than a word.
LEMMA ModulusBitsType == ModulusBits \in 1..W /\ M < 2^ModulusBits
<1> DEFINE T == {n \in 0..W : M < 2^n}
<1>1. W \in 1..W /\ W \in Nat /\ M < Word /\ M \in Nat /\ M > 2
  BY WordBits, Sizes
<1>2. T \in SUBSET Nat /\ W \in T
  BY <1>1 DEF Word
<1>3. Min(T) \in T /\ \A n \in T : Min(T) <= n
  BY <1>2, LeastNatural
<1> DEFINE m == Min(T)
<1>4. m \in 0..W /\ M < 2^m
  BY <1>3
<1> HIDE DEF m
<1>5. m # 0
  <2>1. 2^0 = 1
    BY PowersAssumption
  <2>2. M < 2^0 => FALSE
    BY <1>1, <2>1
  <2> QED
    BY <1>4, <2>2
<1>6. m \in 1..W /\ m - 1 \in 0..W
  BY <1>1, <1>4, <1>5
<1>7. 2^(m - 1) <= M
  <2>1. m - 1 \notin T
    <3>1. m - 1 \in T => m <= m - 1
      BY <1>3 DEF m
    <3> QED
      BY <1>6, <3>1
  <2>2. ~(M < 2^(m - 1)) /\ 2^(m - 1) \in Nat
    BY <1>6, <2>1, PowersType
  <2> QED
    BY <1>1, <2>2
<1>8. \E n \in 1..W : 2^(n - 1) <= M /\ M < 2^n
  BY <1>4, <1>6, <1>7
<1> QED
  BY <1>8 DEF ModulusBits

\* Divisions one after the other, and remainders.
LEMMA DivDiv ==
    ASSUME NEW x \in Nat, NEW c \in Nat \ {0}, NEW d \in Nat \ {0}
    PROVE  (x \div c) \div d = x \div (c * d)
<1> DEFINE q == x \div c
           r == x % c
           h == q \div d
           s == q % d
           e == c * d
           t == s * c + r
<1>1. q \in Nat /\ r \in 0..c - 1 /\ x = q * c + r
  BY Division
<1> HIDE DEF q, r
<1>2. h \in Nat /\ s \in 0..d - 1 /\ q = h * d + s
  BY <1>1, Division
<1> HIDE DEF h, s
<1>3. e \in Nat \ {0}
  OBVIOUS
<1>4. x = h * e + t
  BY <1>1, <1>2
<1>5. t \in 0..e - 1
  <2>1. (d - 1) - s \in Nat
    BY <1>2
  <2>2. ((d - 1) - s) * c \in Nat /\ s * c \in Nat
    BY <1>2, <2>1
  <2>3. ((d - 1) - s) * c = (e - c) - s * c
    BY <1>2
  <2>4. s * c <= e - c /\ e \in Nat
    BY <2>2, <2>3, <1>3
  <2> QED
    BY <1>1, <2>2, <2>4
<1> HIDE DEF e, t
<1>6. (h * e + t) \div e = h
  BY <1>2, <1>3, <1>5, Division
<1>7. x \div e = h
  BY <1>4, <1>6
<1> QED
  BY <1>7 DEF h, e, q

\* Reducing to more bits before reducing to fewer changes nothing.
LEMMA ModMod ==
    ASSUME NEW y \in Nat, NEW u \in Nat \ {0}, NEW v \in Nat \ {0}
    PROVE  (y % (u * v)) % u = y % u
<1> DEFINE e == u * v
           h == y \div e
           r == y % e
           g == r \div u
           s == r % u
           k == h * v + g
<1>1. e \in Nat \ {0}
  OBVIOUS
<1>2. h \in Nat /\ r \in Nat /\ y = h * e + r
  <2> HIDE DEF e
  <2>1. h \in Nat /\ r \in 0..e - 1 /\ y = h * e + r
    BY <1>1, Division
  <2> HIDE DEF h, r
  <2> QED
    BY <1>1, <2>1
<1> HIDE DEF h, r
<1>3. g \in Nat /\ s \in 0..u - 1 /\ r = g * u + s
  BY <1>2, Division
<1> HIDE DEF g, s
<1>4. y = k * u + s /\ k \in Nat
  BY <1>2, <1>3
<1> HIDE DEF k
<1>5. (k * u + s) % u = s
  BY <1>3, <1>4, Division
<1>6. y % u = s
  BY <1>4, <1>5
<1> QED
  BY <1>6 DEF s, r, e

\* A number shifted by one limb less: n bits of the limb go down to the next.
LEMMA CarryStep ==
    ASSUME NEW y \in Nat, NEW m \in Nat, NEW u \in Nat \ {0}, NEW v \in Nat \ {0}
    PROVE  (y * (u * v) + m) \div u = (m \div u) + (y % u) * v + (u * v) * (y \div u)
<1> DEFINE g == m \div u
           s == m % u
           h == y \div u
           t == y % u
           k == v * y + g
           x == y * (u * v) + m
<1>1. g \in Nat /\ s \in 0..u - 1 /\ m = g * u + s
  BY Division
<1> HIDE DEF g, s
<1>2. h \in Nat /\ t \in 0..u - 1 /\ y = h * u + t
  BY Division
<1> HIDE DEF h, t
<1>3. k \in Nat
  BY <1>1
<1>4. x = k * u + s
  <2>1. k * u = (v * y) * u + g * u
    BY <1>1
  <2>2. (v * y) * u = y * (u * v)
    OBVIOUS
  <2> HIDE DEF k
  <2> QED
    BY <1>1, <1>3, <2>1, <2>2
<1>5. k = g + t * v + (u * v) * h
  <2>1. v * y = v * (h * u) + v * t
    BY <1>2
  <2>2. v * (h * u) = (u * v) * h /\ v * t = t * v
    BY <1>2
  <2> QED
    BY <1>1, <1>2, <2>1, <2>2
<1> HIDE DEF k
<1>6. (k * u + s) \div u = k
  BY <1>1, <1>3, Division
<1>7. x \div u = g + t * v + (u * v) * h
  BY <1>4, <1>5, <1>6
<1> QED
  BY <1>7 DEF g, h, t

\* Powers of limbs are powers of 2, so that their exponents add up.
LEMMA LimbPowersAdd ==
    \A i, j \in 0..Limbs : i + j <= Limbs => Limb^(i + j) = Limb^i * Limb^j
<1> SUFFICES ASSUME NEW i \in 0..Limbs, NEW j \in 0..Limbs, i + j <= Limbs
             PROVE  Limb^(i + j) = Limb^i * Limb^j
  OBVIOUS
<1>1. Limbs \in Nat /\ i + j \in 0..Limbs /\ LimbBits \in Nat
  BY WordBits
<1>2. i * LimbBits \in 0..W /\ j * LimbBits \in 0..W /\ (i + j) * LimbBits \in 0..W
  BY <1>1, WordBits
<1>3. (i + j) * LimbBits = i * LimbBits + j * LimbBits
  BY <1>1
<1>4. 2^(i * LimbBits + j * LimbBits) = 2^(i * LimbBits) * 2^(j * LimbBits)
  BY <1>1, <1>2, <1>3, WordBits, PowersAdd
<1> QED
  BY <1>1, <1>3, <1>4, LimbPowers

\* Dividing by more than there is leaves nothing.
LEMMA NothingLeft == ASSUME NEW x \in Nat, NEW d \in Nat \ {0}, x < d PROVE x \div d = 0
<1>1. (0 * d + x) \div d = 0
  BY Division
<1> QED
  BY <1>1

\* The limbs a shift looks at are those of the number without its q lowest.
LEMMA MovedLimbs ==
    ASSUME NEW a \in Words, NEW q \in 0..Limbs - 1, NEW k \in 0..Limbs
    PROVE  LimbOf(a, k + q) = ((a \div Limb^q) \div Limb^k) % Limb
<1>1. /\ Limbs \in Nat /\ k + q \in Nat /\ q \in 0..Limbs /\ a \in Nat /\ a < Word
      /\ Word \in Nat \ {0} /\ Limb \in Nat \ {0}
  BY WordBits, Sizes, Remainders DEF Words
<1>2. Limb^q \in Nat \ {0} /\ Limb^k \in Nat \ {0}
  BY <1>1, LimbPowers
<1>3. (a \div Limb^q) \div Limb^k = a \div (Limb^q * Limb^k)
  BY <1>1, <1>2, DivDiv
<1>4. CASE k + q < Limbs
  <2>1. Limb^(k + q) = Limb^k * Limb^q
    BY <1>1, <1>4, LimbPowersAdd
  <2>2. Limb^(k + q) = Limb^q * Limb^k
    BY <1>2, <2>1
  <2>3. LimbOf(a, k + q) = (a \div Limb^(k + q)) % Limb
    BY <1>4 DEF LimbOf
  <2> QED
    BY <1>3, <2>2, <2>3
<1>5. CASE ~(k + q < Limbs)
  <2> DEFINE r == Limbs - q
             j == k - r
             e == Limb^q * Limb^k
  <2>1. r \in 0..Limbs /\ j \in 0..Limbs /\ q + r = Limbs /\ r + j = k
    BY <1>1, <1>5
  <2> HIDE DEF r, j
  <2>2. Limb^j \in Nat \ {0} /\ Limb^r \in Nat \ {0}
    BY <2>1, LimbPowers
  <2>3. Limb^(q + r) = Limb^q * Limb^r
    BY <1>1, <2>1, LimbPowersAdd
  <2>4. Limb^(r + j) = Limb^r * Limb^j
    BY <1>1, <2>1, LimbPowersAdd
  <2>5. Word = Limb^q * Limb^r /\ Limb^k = Limb^r * Limb^j
    BY <2>1, <2>3, <2>4, Sizes
  <2>6. e = Word * Limb^j
    BY <1>2, <2>2, <2>5
  <2>7. Word <= Word * Limb^j /\ Word * Limb^j \in Nat \ {0}
    BY <1>1, <2>2
  <2>8. e \in Nat \ {0} /\ a < e
    BY <1>1, <2>6, <2>7
  <2> HIDE DEF e
  <2>9. a \div e = 0
    BY <1>1, <2>8, NothingLeft
  <2>10. 0 % Limb = 0
    BY <1>1
  <2>11. LimbOf(a, k + q) = 0
    BY <1>5 DEF LimbOf
  <2> QED
    BY <1>3, <2>9, <2>10, <2>11 DEF e
<1> QED
  BY <1>4, <1>5

\* Where the bits of a shift by b are: q limbs and n bits.
LEMMA ShiftParts ==
    ASSUME NEW b \in 0..W - 1
    PROVE  LET n == b % LimbBits
               q == b \div LimbBits
           IN  /\ n \in 0..LimbBits - 1 /\ q \in 0..Limbs - 1
               /\ 2^n \in Nat \ {0} /\ 2^(LimbBits - n) \in Nat \ {0}
               /\ 2^n * 2^(LimbBits - n) = Limb
               /\ 2^b = Limb^q * 2^n
<1> DEFINE n == b % LimbBits
           q == b \div LimbBits
<1>1. LimbBits \in Nat \ {0} /\ Limbs \in Nat /\ W \in Nat /\ LimbBits <= W /\ b \in Nat
  BY WordBits
<1>2. n \in 0..LimbBits - 1 /\ q \in Nat /\ b = q * LimbBits + n
  BY <1>1, Division
<1> HIDE DEF n, q
<1>3. q < Limbs
  <2>1. SUFFICES ASSUME q >= Limbs PROVE FALSE
    BY <1>1, <1>2
  <2>2. (q - Limbs) * LimbBits \in Nat
    BY <1>1, <1>2, <2>1
  <2>3. q * LimbBits = Limbs * LimbBits + (q - Limbs) * LimbBits
    BY <1>1, <1>2
  <2>4. W = Limbs * LimbBits
    BY DEF W
  <2>5. q * LimbBits >= W
    BY <1>1, <2>2, <2>3, <2>4
  <2> QED
    BY <1>1, <1>2, <2>5
<1>4. q \in 0..Limbs - 1 /\ q \in 0..Limbs /\ q * LimbBits \in 0..W
  BY <1>1, <1>2, <1>3, WordBits
<1>5. n \in 0..W /\ LimbBits - n \in 0..W /\ n + (LimbBits - n) = LimbBits
  BY <1>1, <1>2
<1>6. 2^n \in Nat \ {0} /\ 2^(LimbBits - n) \in Nat \ {0}
  BY <1>5, PowersType
<1>7. 2^n * 2^(LimbBits - n) = Limb
  BY <1>1, <1>5, PowersAdd DEF Limb
<1>8. 2^b = Limb^q * 2^n
  <2>1. 2^(q * LimbBits + n) = 2^(q * LimbBits) * 2^n
    BY <1>1, <1>2, <1>4, <1>5, PowersAdd
  <2> QED
    BY <1>2, <1>4, <2>1, LimbPowers
<1> QED
  BY <1>2, <1>4, <1>6, <1>7, <1>8 DEF n, q

\* Shifting limb by limb divides: whatever the limbs of the sum have got so far,
\* the rest is what the limbs that are left make.
LEMMA LimbShift ==
    ASSUME NEW a \in Field, NEW b \in Field, b # 0, b < ModulusBits
    PROVE  ShrFr(a, b) = a \div 2^b
<1> DEFINE n == b % LimbBits
           q == b \div LimbBits
           u == 2^n
           v == 2^(LimbBits - n)
           moved(i) == LimbOf(a, i + q)
           shifted(i) == (moved(i) \div u) + Carried(moved(i + 1), n) * v
           digit(k) == IF n = 0 THEN moved(k - 1) ELSE shifted(k - 1)
           IsSum(g) == g = [k \in 0..Limbs |->
                               IF k = 0 THEN 0 ELSE g[k - 1] + digit(k) * Limb^(k - 1)]
           sum == CHOOSE g : IsSum(g)
           A == a \div Limb^q
           rest(k) == A \div Limb^k
<1>1. ShrFr(a, b) = Unwrap(sum[Limbs])
  BY ModulusBitsType, Remainders DEF ShrFr
<1>2. /\ a \in Words /\ a \in Nat /\ a < M /\ b \in 0..W - 1
      /\ M \in Nat /\ M < Word /\ W \in Nat
  <2>1. a \in Words /\ a \in Nat /\ b \in Nat /\ M \in Nat /\ M < Word /\ W \in Nat
    BY Remainders, Sizes, WordBits
  <2>2. a < M
    BY <2>1 DEF Field
  <2>3. b < W
    BY <2>1, ModulusBitsType
  <2> QED
    BY <2>1, <2>2, <2>3
<1>3. /\ n \in 0..LimbBits - 1 /\ q \in 0..Limbs - 1
      /\ u \in Nat \ {0} /\ v \in Nat \ {0} /\ u * v = Limb
      /\ 2^b = Limb^q * u
  BY <1>2, ShiftParts
<1>4. Limbs \in Nat \ {0} /\ Limb \in Nat \ {0} /\ q \in 0..Limbs /\ Word \in Nat \ {0}
  BY <1>3, WordBits, Sizes
<1>5. n = 0 => u = 1
  <2>1. 2^0 = 1
    BY PowersAssumption
  <2> QED
    BY <2>1
<1>6. Limb^q \in Nat \ {0} /\ \A k \in 0..Limbs : Limb^k \in Nat \ {0}
  BY <1>4, LimbPowers
<1>7. A \in Nat /\ A <= a /\ A \div u = a \div 2^b
  <2>1. A \in Nat /\ A <= a
    <3> DEFINE p == Limb^q
    <3>1. p \in Nat \ {0} /\ a \in Nat
      BY <1>2, <1>6
    <3> HIDE DEF p
    <3>2. a \div p \in Nat /\ a \div p <= a
      BY <3>1, Division
    <3> QED
      BY <3>2 DEF p
  <2>2. (a \div Limb^q) \div u = a \div (Limb^q * u)
    BY <1>2, <1>3, <1>6, DivDiv
  <2> QED
    BY <1>3, <2>1, <2>2
<1>8. \A k \in 0..Limbs : moved(k) = rest(k) % Limb
  BY <1>2, <1>3, MovedLimbs
<1>9. \A k \in 0..Limbs : rest(k) \in Nat
  <2> HIDE DEF A
  <2> QED
    BY <1>6, <1>7, Division
<1> HIDE DEF A, n, q, u, v
<1>10. rest(0) = A /\ rest(Limbs) = 0
  <2>1. Limb^0 = 1 /\ A \div 1 = A
    BY <1>7, PowersAssumption
  <2>2. A < Word
    BY <1>2, <1>4, <1>7
  <2>3. A \div Word = 0
    BY <1>4, <1>7, <2>2, NothingLeft
  <2> QED
    BY <2>1, <2>3, Sizes
<1>11. ASSUME NEW k \in 0..Limbs - 1
       PROVE  /\ rest(k) \div u = digit(k + 1) + Limb * (rest(k + 1) \div u)
              /\ digit(k + 1) \in Nat
  <2>1. k \in 0..Limbs /\ k + 1 \in 0..Limbs /\ (k + 1) - 1 = k
    BY <1>4
  <2> DEFINE x == rest(k)
             y == rest(k + 1)
             m == moved(k)
  <2>2. x \in Nat /\ y \in Nat /\ m = x % Limb /\ moved(k + 1) = y % Limb
    BY <1>8, <1>9, <2>1
  <2>3. y = x \div Limb
    <3>1. Limb^(k + 1) = Limb * Limb^k /\ Limb^k \in Nat \ {0}
      BY <1>6, <2>1, PowersAssumption
    <3>2. Limb * Limb^k = Limb^k * Limb
      BY <1>4, <3>1
    <3>3. (A \div Limb^k) \div Limb = A \div (Limb^k * Limb)
      BY <1>4, <1>7, <3>1, DivDiv
    <3> QED
      BY <3>1, <3>2, <3>3
  <2>4. digit(k + 1) = IF n = 0 THEN m ELSE (m \div u) + (moved(k + 1) % u) * v
    BY <2>1 DEF Carried, u
  <2> HIDE DEF rest, moved, digit, x, y, m
  <2>5. x = y * Limb + m /\ m \in Nat
    BY <1>4, <2>2, <2>3, Division
  <2>6. (y % Limb) % u = y % u
    BY <1>3, <2>2, ModMod
  <2>7. x \div u = (m \div u) + (y % u) * v + Limb * (y \div u)
    <3>1. (y * (u * v) + m) \div u = (m \div u) + (y % u) * v + (u * v) * (y \div u)
      <4>1. y \in Nat /\ m \in Nat /\ u \in Nat \ {0} /\ v \in Nat \ {0}
        BY <1>3, <2>2, <2>5
      <4> QED
        BY <4>1, CarryStep, ZenonT(60)
    <3>2. x = y * (u * v) + m
      BY <1>3, <2>5
    <3> QED
      BY <1>3, <3>1, <3>2
  <2>8. digit(k + 1) = (m \div u) + (y % u) * v
    <3>1. CASE n = 0
      <4>1. m \div 1 = m /\ y % 1 = 0 /\ v \in Nat
        BY <1>3, <2>2, <2>5
      <4> QED
        BY <1>5, <2>4, <2>5, <3>1, <4>1
    <3>2. CASE n # 0
      BY <2>2, <2>4, <2>6, <3>2
    <3> QED
      BY <3>1, <3>2
  <2>9. m \div u \in Nat /\ y % u \in Nat
    <3>1. m \div u \in Nat /\ y % u \in 0..u - 1 /\ u \in Nat
      BY <1>3, <2>2, <2>5, Division
    <3> QED
      BY <3>1
  <2>10. (y % u) * v \in Nat
    BY <1>3, <2>9
  <2> QED
    BY <2>7, <2>8, <2>9, <2>10 DEF x, y
<1> HIDE DEF rest, digit
<1>12. \A k \in 1..Limbs : digit(k) * Limb^(k - 1) \in Nat
  <2>1. \A k \in 1..Limbs : k - 1 \in 0..Limbs - 1 /\ (k - 1) + 1 = k /\ k - 1 \in 0..Limbs
    BY <1>4
  <2>2. \A k \in 1..Limbs : digit(k) \in Nat /\ Limb^(k - 1) \in Nat
    BY <1>6, <1>11, <2>1
  <2> QED
    BY <2>2
<1> DEFINE part(k) == digit(k) * Limb^(k - 1)
           step == [t \in (0..Limbs) \X Nat |-> t[2] + (IF t[1] = 0 THEN 0 ELSE part(t[1]))]
<1>13. PICK f \in [0..Limbs -> Nat] :
            f[0] = 0 /\ \A k \in 1..Limbs : f[k] = f[k - 1] + part(k)
  <2> HIDE DEF part
  <2>1. step \in [(0..Limbs) \X Nat -> Nat]
    BY <1>12 DEF part
  <2>2. PICK f \in [0..Limbs -> Nat] : Iterates(f, Limbs, 0, step)
    <3> HIDE DEF step
    <3> QED
      BY <1>4, <2>1, Recursion
  <2>3. \A k \in 1..Limbs : step[<<k, f[k - 1]>>] = f[k - 1] + part(k)
    <3>1. \A k \in 1..Limbs : <<k, f[k - 1]>> \in (0..Limbs) \X Nat /\ k # 0
      BY <1>4
    <3> QED
      BY <3>1
  <2> QED
    BY <2>2, <2>3, ZenonT(60) DEF Iterates
<1>14. IsSum(f)
  <2>1. \A k \in 0..Limbs : f[k] = IF k = 0 THEN 0 ELSE f[k - 1] + part(k)
    BY <1>4, <1>13
  <2> QED
    BY <2>1
<1>15. IsSum(sum)
  BY <1>14
<1> HIDE DEF sum
<1> DEFINE T == {k \in 0..Limbs : /\ sum[k] \in Nat
                                  /\ A \div u = sum[k] + Limb^k * (rest(k) \div u)}
<1>16. 0 \in T
  <2>1. sum[0] = 0 /\ Limb^0 = 1
    BY <1>4, <1>15, PowersAssumption
  <2>2. A \div u \in Nat
    BY <1>3, <1>7, Division
  <2>3. A \div u = 0 + 1 * (A \div u)
    BY <2>2
  <2> QED
    BY <1>4, <1>10, <2>1, <2>3
<1>17. ASSUME NEW k \in 0..Limbs - 1, k \in T PROVE k + 1 \in T
  <2>1. k + 1 \in 0..Limbs /\ k \in 0..Limbs /\ (k + 1) - 1 = k /\ k + 1 # 0
    BY <1>4
  <2> DEFINE d == digit(k + 1)
             p == Limb^k
             c == rest(k + 1) \div u
  <2>2. sum[k + 1] = sum[k] + d * p
    BY <1>15, <2>1
  <2>3. Limb^(k + 1) = Limb * p
    BY PowersAssumption
  <2>4. A \div u = sum[k] + p * (rest(k) \div u) /\ sum[k] \in Nat
    BY <1>17
  <2>5. rest(k) \div u = d + Limb * c /\ d \in Nat
    BY <1>11
  <2>6. p \in Nat /\ c \in Nat /\ Limb \in Nat
    BY <1>3, <1>4, <1>6, <1>9, <2>1, Division
  <2> HIDE DEF d, p, c
  <2>7. p * (d + Limb * c) = d * p + (Limb * p) * c /\ d * p \in Nat
    BY <2>5, <2>6
  <2>8. A \div u = sum[k + 1] + Limb^(k + 1) * c /\ sum[k + 1] \in Nat
    <3>1. (Limb * p) * c \in Nat
      BY <2>6
    <3> QED
      BY <2>2, <2>3, <2>4, <2>5, <2>7, <3>1
  <2> QED
    BY <2>1, <2>8 DEF c
<1>18. \A k \in 0..Limbs : k \in T
  BY <1>4, <1>16, <1>17, Induction
<1>19. A \div u = sum[Limbs] + Limb^Limbs * (0 \div u) /\ sum[Limbs] \in Nat
  BY <1>4, <1>10, <1>18
<1>20. 0 \div u = 0
  BY <1>3, NothingLeft
<1>21. sum[Limbs] = a \div 2^b
  <2>1. Limb^Limbs * 0 = 0
    BY <1>4, Sizes
  <2> QED
    BY <1>7, <1>19, <1>20, <2>1
<1>22. sum[Limbs] < M
  <2>1. A \div u <= A
    BY <1>3, <1>7, Division
  <2>2. sum[Limbs] \in Nat /\ sum[Limbs] = A \div u
    BY <1>7, <1>19, <1>21
  <2> QED
    BY <1>2, <1>7, <2>1, <2>2
<1> QED
  BY <1>1, <1>21, <1>22 DEF Unwrap

\* The shift by limbs and bits is a division, whatever is shifted by whatever.
LEMMA ShrFrIsDivision ==
    ASSUME NEW a \in Field, NEW b \in Field
    PROVE  /\ ShrFr(a, b) = IF b < W THEN a \div 2^b ELSE 0
           /\ ShrFr(a, b) \in Field
<1>1. /\ a \in Nat /\ b \in Nat /\ a < M /\ W \in Nat \ {0} /\ M \in Nat
  BY Remainders, Sizes, WordBits DEF Field
<1>2. ModulusBits \in 1..W /\ M < 2^ModulusBits
  BY ModulusBitsType
<1>3. \A c \in 0..W : a \div 2^c \in Field
  <2>1. ASSUME NEW c \in 0..W PROVE a \div 2^c \in Nat /\ a \div 2^c <= a
    BY <1>1, PowersType, Division
  <2> QED
    BY <1>1, <2>1 DEF Field
<1>4. CASE b = 0
  <2>1. 2^0 = 1 /\ a \div 1 = a
    BY <1>1, PowersAssumption
  <2>2. ShrFr(a, b) = a
    BY <1>4 DEF ShrFr
  <2> QED
    BY <1>1, <1>4, <2>1, <2>2
<1>5. CASE b # 0 /\ b >= ModulusBits
  <2>1. ShrFr(a, b) = 0
    BY <1>5 DEF ShrFr
  <2>2. ASSUME b < W PROVE a \div 2^b = 0
    <3>1. 2^ModulusBits <= 2^b /\ 2^b \in Nat \ {0} /\ 2^ModulusBits \in Nat
      BY <1>1, <1>2, <1>5, <2>2, PowersGrow, PowersType
    <3>2. a < 2^b
      BY <1>1, <1>2, <3>1
    <3> QED
      BY <1>1, <3>1, <3>2, NothingLeft
  <2> QED
    BY <2>1, <2>2, Remainders
<1>6. CASE b # 0 /\ b < ModulusBits
  <2>1. ShrFr(a, b) = a \div 2^b /\ b < W /\ b \in 0..W
    BY <1>1, <1>2, <1>6, LimbShift
  <2> QED
    BY <1>3, <2>1
<1> QED
  BY <1>1, <1>2, <1>4, <1>5, <1>6

-----------------------------------------------------------------------------
\* Every operation on field elements leaves a field element or panics.
LEMMA EvalFrType ==
    ASSUME NEW op \in DuoOps, NEW a \in Field, NEW b \in Field
    PROVE  EvalFr(op, a, b) \in Field \cup {Panic}
<1>1. ASSUME NEW x \in Nat PROVE Unwrap(x) \in Field \cup {Panic}
  BY Sizes DEF Unwrap, Field
<1>2. ASSUME NEW x \in Words PROVE UnwrapBits(x) \in Field \cup {Panic}
  <2>1. x \in Nat /\ (x > M => x - M \in Nat)
    BY Remainders, Sizes
  <2> QED
    BY <1>1, <2>1 DEF UnwrapBits
<1>3. CASE op \in Arithmetic
  BY <1>3, OperationsAgree DEF Agrees
<1>4. CASE op = "Pow"
  BY <1>4 DEF EvalFr
<1>5. CASE op = "Shl"
  <2>1. a \in Nat /\ b \in Nat /\ W \in Nat /\ Word \in Nat \ {0} /\ ModulusBits \in 1..W
    BY Remainders, Sizes, WordBits, ModulusBitsType
  <2>2. ASSUME b < ModulusBits PROVE (a * 2^b) % Word \in Nat
    <3>1. 2^b \in Nat
      BY <2>1, <2>2, PowersType
    <3>2. a * 2^b \in Int
      BY <2>1, <3>1
    <3> QED
      BY <3>2, Remainders
  <2>3. ShlFr(a, b) \in Field \cup {Panic}
    <3>1. b >= ModulusBits \/ b < ModulusBits
      BY <2>1
    <3> QED
      BY <1>1, <2>2, <3>1, Remainders DEF ShlFr
  <2> QED
    BY <1>5, <2>3 DEF EvalFr
<1>6. CASE op = "Shr"
  BY <1>6, ShrFrIsDivision DEF EvalFr
<1>7. CASE op = "Bor"
  BY <1>2, <1>7, BitwiseType DEF EvalFr
<1>8. CASE op = "Bxor"
  BY <1>2, <1>8, BitwiseType DEF EvalFr
<1> QED
  BY <1>3, <1>4, <1>5, <1>6, <1>7, <1>8 DEF Arithmetic

\* Field elements stay field elements under negation and choice.
LEMMA OtherEvalFrTypes ==
    /\ \A a \in Field : UnoEvalFr("Neg", a) \in Field
    /\ \A a : \A b, c \in Field : TresEvalFr("TernCond", a, b, c) \in Field
BY NegationAgrees DEF TresEvalFr

\* The registers start with field elements.
LEMMA InitTyped == Init => TypeOK
BY Remainders, OpsAssumption DEF Init, TypeOK

\* Every operation leaves words and field elements.
LEMMA StepTyped == ASSUME TypeOK, [Next]_vars PROVE TypeOK'
<1>1. CASE UNCHANGED vars
  BY <1>1 DEF vars, TypeOK
<1>2. CASE Next
  <2>1. \A r \in Regs : folded[r] \in Words /\ ran[r] \in Field
    BY <1>2 DEF Next, NoPanic, TypeOK
  <2>2. ASSUME NEW r \in Regs, NEW x, NEW y, x \in Words \cup {Panic}, y \in Field \cup {Panic},
               folded' = [folded EXCEPT ![r] = x], ran' = [ran EXCEPT ![r] = y],
               last' \in DuoOps \cup {"load", "Neg", "TernCond"}
        PROVE  TypeOK'
    BY <2>2 DEF TypeOK
  <2>3. ASSUME NEW r \in Regs, NEW x \in Regs, NEW y \in Regs, NEW op \in Ops,
               Duo(r, op, x, y)
        PROVE TypeOK'
    <3>1. op \in DuoOps
      BY OpsAssumption
    <3>2. /\ Eval(op, folded[x], folded[y]) \in Words \cup {Panic}
          /\ EvalFr(op, ran[x], ran[y]) \in Field \cup {Panic}
      BY <2>1, <3>1, EvalType, EvalFrType
    <3> QED
      BY <2>2, <2>3, <3>1, <3>2 DEF Duo
  <2>4. ASSUME NEW r \in Regs, NEW x \in Regs, Uno(r, x) PROVE TypeOK'
    <3>1. UnoEval("Neg", folded[x]) \in Words /\ UnoEvalFr("Neg", ran[x]) \in Field
      BY <2>1, OtherEvalTypes, OtherEvalFrTypes DEF UnoOps
    <3> QED
      BY <2>2, <2>4, <3>1 DEF Uno
  <2>5. ASSUME NEW r \in Regs, NEW x \in Regs, NEW y \in Regs, NEW z \in Regs,
               Tres(r, x, y, z)
        PROVE TypeOK'
    <3>1. /\ TresEval("TernCond", folded[x], folded[y], folded[z]) \in Words
          /\ TresEvalFr("TernCond", ran[x], ran[y], ran[z]) \in Field
      BY <2>1, OtherEvalTypes, OtherEvalFrTypes
    <3> QED
      BY <2>2, <2>5, <3>1 DEF Tres
  <2> QED
    BY <1>2, <2>3, <2>4, <2>5 DEF Next
<1> QED
  BY <1>1, <1>2

\* Words at build time, field elements at witness time, or the mark of a panic:
\* whatever the operations are, shifts and bitwise ones included.
THEOREM RegistersTyped == Spec => []TypeOK
<1>1. Init => TypeOK
  BY InitTyped
<1>2. TypeOK /\ [Next]_vars => TypeOK'
  BY StepTyped
<1> QED
  BY <1>1, <1>2, PTL DEF Spec

\* No bit is lost or duplicated where a limb ends, in fields and words of any
\* size: shr (src/src/graph.rs:637-672) divides.
THEOREM ShrDivides == Spec => []ShrIsDivision
<1>1. ASSUME TypeOK PROVE ShrIsDivision
  <2>1. ASSUME NEW x \in Regs, NEW y \in Regs, NoPanic(ran)
        PROVE  EvalFr("Shr", ran[x], ran[y])
                   = IF ran[y] < W THEN ran[x] \div 2^(ran[y]) ELSE 0
    <3>1. ran[x] \in Field /\ ran[y] \in Field
      BY <1>1, <2>1 DEF TypeOK, NoPanic
    <3>2. EvalFr("Shr", ran[x], ran[y]) = ShrFr(ran[x], ran[y])
      BY DEF EvalFr
    <3> QED
      BY <3>1, <3>2, ShrFrIsDivision
  <2> QED
    BY <2>1 DEF ShrIsDivision
<1> QED
  BY <1>1, RegistersTyped, PTL

\* A conjunction never needs to be reduced (bit_and).
THEOREM BandBelow == Spec => []BandStaysBelow
<1>1. ASSUME TypeOK PROVE BandStaysBelow
  <2>1. ASSUME NEW x \in Regs, NEW y \in Regs, NoPanic(ran)
        PROVE  EvalFr("Band", ran[x], ran[y]) \in 0..Min({ran[x], ran[y]})
    <3>1. ran[x] \in Field /\ ran[y] \in Field
      BY <1>1, <2>1 DEF TypeOK, NoPanic
    <3> DEFINE a == ran[x]
               b == ran[y]
    <3>0. M \in Nat /\ a \in 0..M - 1 /\ b \in 0..M - 1
      BY <3>1, Sizes DEF Field
    <3>2. /\ a \in Words /\ b \in Words /\ a \in Nat /\ b \in Nat /\ a < M /\ b < M
          /\ M \in Nat
      BY <3>0, <3>1, Remainders
    <3>3. BitAnd(a, b) \in Nat /\ BitAnd(a, b) <= a /\ BitAnd(a, b) <= b
      BY <3>2, BitwiseType, Remainders
    <3>4. EvalFr("Band", a, b) = UnwrapBits(BitAnd(a, b))
      BY DEF EvalFr
    <3> HIDE DEF a, b
    <3>5. UnwrapBits(BitAnd(a, b)) = BitAnd(a, b)
      BY <3>2, <3>3 DEF UnwrapBits, Unwrap
    <3>6. Min({a, b}) \in {a, b}
      BY <3>2, LeastNatural
    <3>7. EvalFr("Band", a, b) \in 0..Min({a, b})
      BY <3>2, <3>3, <3>4, <3>5, <3>6
    <3> QED
      BY <3>7 DEF a, b
  <2> QED
    BY <2>1 DEF BandStaysBelow
<1> QED
  BY <1>1, RegistersTyped, PTL

-----------------------------------------------------------------------------
(***************************************************************************)
(* Registers hold the same values in both versions, until an integer       *)
(* division by 0 stops folding; the other version goes on with 0.          *)
(***************************************************************************)
Stopped(r) == folded[r] = Panic /\ ran[r] = 0 /\ last \in {"Idiv", "Mod"}
Agree ==
    /\ folded \in [Regs -> Words \cup {Panic}]
    /\ ran \in [Regs -> Field]
    /\ last \in DuoOps \cup {"load", "Neg", "TernCond"}
    /\ \A r \in Regs : folded[r] = ran[r] \/ Stopped(r)

\* A step gives one register the results of an operation; the others held
\* the same values in both versions, or folding would have stopped before.
LEMMA OneRegister ==
    ASSUME Agree, NoPanic(folded), NEW r \in Regs, NEW x, NEW y \in Field,
           folded' = [folded EXCEPT ![r] = x], ran' = [ran EXCEPT ![r] = y],
           last' \in DuoOps \cup {"load", "Neg", "TernCond"},
           x = y \/ (x = Panic /\ y = 0 /\ last' \in {"Idiv", "Mod"})
    PROVE  Agree'
<1>1. \A q \in Regs : folded[q] = ran[q]
  BY DEF Agree, NoPanic, Stopped
<1>2. x \in Words \cup {Panic}
  BY FieldIsWords
<1>3. /\ folded' \in [Regs -> Words \cup {Panic}]
      /\ ran' \in [Regs -> Field]
  BY <1>2 DEF Agree
<1>4. ASSUME NEW q \in Regs PROVE folded'[q] = ran'[q] \/ Stopped(q)'
  <2>1. CASE q = r
    BY <2>1 DEF Agree, Stopped
  <2>2. CASE q # r
    BY <1>1, <2>2 DEF Agree
  <2> QED
    BY <2>1, <2>2
<1> QED
  BY <1>3, <1>4 DEF Agree

\* Both versions start with the same elements.
LEMMA InitAgree == Init => Agree
BY FieldIsWords, OpsAssumption DEF Init, Agree

\* Every arithmetic operation keeps the agreement.
LEMMA StepAgree ==
    ASSUME Ops \subseteq Arithmetic, Agree, [Next]_vars PROVE Agree'
<1>1. CASE UNCHANGED vars
  BY <1>1 DEF vars, Agree, Stopped
<1>2. CASE Next
  <2>1. NoPanic(folded) /\ \A q \in Regs : folded[q] = ran[q] /\ ran[q] \in Field
    BY <1>2 DEF Next, Agree, NoPanic, Stopped
  <2>2. ASSUME NEW r \in Regs, NEW x \in Regs, NEW y \in Regs, NEW op \in Ops,
               Duo(r, op, x, y)
        PROVE Agree'
    <3>1. op \in Arithmetic /\ op \in DuoOps
      BY DEF Arithmetic
    <3>2. Agrees(op, ran[x], ran[y])
      BY <2>1, <3>1, OperationsAgree
    <3>3. folded[x] = ran[x] /\ folded[y] = ran[y]
      BY <2>1
    <3>4. /\ EvalFr(op, ran[x], ran[y]) \in Field
          /\ \/ Eval(op, ran[x], ran[y]) = EvalFr(op, ran[x], ran[y])
             \/ /\ op \in {"Idiv", "Mod"} /\ Eval(op, ran[x], ran[y]) = Panic
                /\ EvalFr(op, ran[x], ran[y]) = 0
      BY <3>2 DEF Agrees
    <3>5. /\ folded' = [folded EXCEPT ![r] = Eval(op, ran[x], ran[y])]
          /\ ran' = [ran EXCEPT ![r] = EvalFr(op, ran[x], ran[y])]
          /\ last' = op
      BY <2>2, <3>3 DEF Duo
    <3> QED
      BY <2>1, <3>1, <3>4, <3>5, OneRegister
  <2>3. ASSUME NEW r \in Regs, NEW x \in Regs, Uno(r, x)
        PROVE Agree'
    <3>1. /\ UnoEvalFr("Neg", ran[x]) \in Field
          /\ UnoEval("Neg", ran[x]) = UnoEvalFr("Neg", ran[x])
      BY <2>1, NegationAgrees
    <3>2. /\ folded' = [folded EXCEPT ![r] = UnoEval("Neg", ran[x])]
          /\ ran' = [ran EXCEPT ![r] = UnoEvalFr("Neg", ran[x])]
          /\ last' = "Neg"
      BY <2>1, <2>3 DEF Uno
    <3> QED
      BY <2>1, <3>1, <3>2, OneRegister
  <2>4. ASSUME NEW r \in Regs, NEW x \in Regs, NEW y \in Regs, NEW z \in Regs,
               Tres(r, x, y, z)
        PROVE Agree'
    <3>1. /\ TresEvalFr("TernCond", ran[x], ran[y], ran[z]) \in Field
          /\ TresEval("TernCond", folded[x], folded[y], folded[z])
                 = TresEvalFr("TernCond", ran[x], ran[y], ran[z])
      BY <2>1 DEF TresEval, TresEvalFr
    <3>2. /\ folded' = [folded EXCEPT ![r] =
                           TresEval("TernCond", folded[x], folded[y], folded[z])]
          /\ ran' = [ran EXCEPT ![r] =
                           TresEvalFr("TernCond", ran[x], ran[y], ran[z])]
          /\ last' = "TernCond"
      BY <2>4 DEF Tres
    <3> QED
      BY <2>1, <3>1, <3>2, OneRegister
  <2> QED
    BY <1>2, <2>2, <2>3, <2>4 DEF Next
<1> QED
  BY <1>1, <1>2

-----------------------------------------------------------------------------
\* Folding and evaluation agree in every state of every computation that uses
\* arithmetic operations only.
THEOREM FoldingAgrees == ASSUME Ops \subseteq Arithmetic PROVE Spec => []Agree
<1>1. Init => Agree
  BY InitAgree
<1>2. Agree /\ [Next]_vars => Agree'
  BY StepAgree
<1> QED
  BY <1>1, <1>2, PTL DEF Spec

\* propagate may replace a node by the constant it folds to.
THEOREM FoldingSound ==
    ASSUME Ops \subseteq Arithmetic PROVE Spec => []FoldingIsEvaluation
<1>1. ASSUME Agree PROVE FoldingIsEvaluation
  <2>1. ASSUME NoPanic(folded), NEW r \in Regs PROVE folded[r] % M = ran[r]
    <3>1. folded[r] = ran[r] /\ ran[r] \in Field
      BY <1>1, <2>1 DEF Agree, NoPanic, Stopped
    <3>2. \A a \in 0..M - 1 : a % M = a
      BY ModulusIsOdd
    <3> QED
      BY <3>1, <3>2 DEF Field
  <2> QED
    BY <2>1 DEF FoldingIsEvaluation
<1> QED
  BY <1>1, FoldingAgrees, PTL

\* Arithmetic returns a value whatever the operands.
THEOREM EvaluationReturns ==
    ASSUME Ops \subseteq Arithmetic PROVE Spec => []EvaluationIsTotal
<1>1. Agree => EvaluationIsTotal
  BY PanicIsNoElement DEF Agree, EvaluationIsTotal, NoPanic
<1> QED
  BY <1>1, FoldingAgrees, PTL

\* Only a division of integers by 0 stops the builder.
THEOREM FoldingStops ==
    ASSUME Ops \subseteq Arithmetic PROVE Spec => []FoldingStopsOnlyInDivision
<1>1. ASSUME Agree PROVE FoldingStopsOnlyInDivision
  BY <1>1, PanicIsNoElement DEF Agree, FoldingStopsOnlyInDivision, NoPanic, Stopped
<1> QED
  BY <1>1, FoldingAgrees, PTL

\* The comparisons are the order of the signed representatives.
THEOREM ComparisonsSigned ==
    ASSUME Ops \subseteq Arithmetic PROVE Spec => []OrderIsSigned
<1>1. ASSUME Agree PROVE OrderIsSigned
  <2>1. ASSUME NEW x \in Regs, NEW y \in Regs
        PROVE  /\ EvalFr("Lt", ran[x], ran[y]) = Bool(Signed(ran[x]) < Signed(ran[y]))
               /\ EvalFr("Gt", ran[x], ran[y]) = Bool(Signed(ran[x]) > Signed(ran[y]))
               /\ EvalFr("Leq", ran[x], ran[y]) = Bool(Signed(ran[x]) <= Signed(ran[y]))
               /\ EvalFr("Geq", ran[x], ran[y]) = Bool(Signed(ran[x]) >= Signed(ran[y]))
    <3>1. ran[x] \in Field /\ ran[y] \in Field
      BY <1>1 DEF Agree
    <3> DEFINE a == ran[x]
               b == ran[y]
    <3>2. /\ EvalFr("Lt", a, b) = Bool(Lt(a, b)) /\ EvalFr("Gt", a, b) = Bool(Gt(a, b))
          /\ EvalFr("Leq", a, b) = Bool(Leq(a, b)) /\ EvalFr("Geq", a, b) = Bool(Geq(a, b))
      BY DEF EvalFr
    <3>3. /\ Lt(a, b) = (Signed(a) < Signed(b))
          /\ Gt(a, b) = (Signed(a) > Signed(b))
          /\ Leq(a, b) = (Signed(a) <= Signed(b))
          /\ Geq(a, b) = (Signed(a) >= Signed(b))
      BY <3>1, ComparisonsAreSigned
    <3> QED
      BY <3>2, <3>3 DEF Bool
  <2> QED
    BY <2>1 DEF OrderIsSigned
<1> QED
  BY <1>1, FoldingAgrees, PTL
=============================================================================
