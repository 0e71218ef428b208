---------------------------- MODULE Storage_proofs ----------------------------
(***************************************************************************)
(* The write-back reader and the graph file (src/src/storage.rs).          *)
(***************************************************************************)
EXTENDS GraphStorage, WriteBackReader, Graph_proofs, TLAPS

\* The smaller of two numbers.
LEMMA MinOfTwo ==
    ASSUME NEW a \in Int, NEW b \in Int
    PROVE  Min({a, b}) = IF a <= b THEN a ELSE b
<1>1. CASE a <= b
  <2>1. \A x \in {a, b} : (\A y \in {a, b} : x <= y) => x = a
    BY <1>1
  <2>2. a \in {a, b} /\ \A y \in {a, b} : a <= y
    BY <1>1
  <2>3. Min({a, b}) \in {a, b} /\ \A y \in {a, b} : Min({a, b}) <= y
    BY <2>2 DEF Min
  <2> QED BY <2>1, <2>3, <1>1
<1>2. CASE ~(a <= b)
  <2>1. \A x \in {a, b} : (\A y \in {a, b} : x <= y) => x = b
    BY <1>2
  <2>2. b \in {a, b} /\ \A y \in {a, b} : b <= y
    BY <1>2
  <2>3. Min({a, b}) \in {a, b} /\ \A y \in {a, b} : Min({a, b}) <= y
    BY <2>2 DEF Min
  <2> QED BY <2>1, <2>3, <1>2
<1> QED BY <1>1, <1>2

-----------------------------------------------------------------------------
\* Sequences of bytes: reversing, taking a part, joining.

\* Reverse keeps the elements and turns their order around.
LEMMA ReverseProperties ==
    ASSUME NEW s \in Seq(Nat)
    PROVE  /\ Reverse(s) \in Seq(Nat)
           /\ Len(Reverse(s)) = Len(s)
           /\ \A i \in 1..Len(s) : Reverse(s)[i] = s[Len(s) - i + 1]
BY DEF Reverse

\* The empty sequence reversed is empty.
LEMMA ReverseEmpty == Reverse(<<>>) = <<>>
BY DEF Reverse

\* Any end of a sequence, whether it has elements or not.
LEMMA PartProperties ==
    ASSUME NEW s \in Seq(Nat), NEW m \in 1..Len(s) + 1, NEW n \in 0..Len(s), m <= n + 1
    PROVE  /\ SubSeq(s, m, n) \in Seq(Nat)
           /\ Len(SubSeq(s, m, n)) = n - m + 1
           /\ \A i \in 1..n - m + 1 : SubSeq(s, m, n)[i] = s[m + i - 1]
<1>1. \A i \in m..n : s[i] \in Nat
  BY ElementOfSeq
<1>2. m \in Int /\ n \in Int
  OBVIOUS
<1> QED BY <1>1, <1>2, SubSeqProperties

\* A joined sequence has the elements of the first and then of the second.
LEMMA JoinProperties ==
    ASSUME NEW s \in Seq(Nat), NEW t \in Seq(Nat)
    PROVE  /\ s \o t \in Seq(Nat) /\ Len(s \o t) = Len(s) + Len(t)
           /\ \A i \in 1..Len(s) + Len(t) :
                  (s \o t)[i] = IF i <= Len(s) THEN s[i] ELSE t[i - Len(s)]
BY ConcatProperties

\* Joining is associative.
LEMMA JoinAssociative ==
    ASSUME NEW s \in Seq(Nat), NEW t \in Seq(Nat), NEW u \in Seq(Nat)
    PROVE  (s \o t) \o u = s \o (t \o u)
BY ConcatAssociative, SMTT(30)

\* What is taken from the end of the buffer is the beginning of the stream.
LEMMA TakenIsBeginning ==
    ASSUME NEW s \in Seq(Nat), NEW k \in 0..Len(s)
    PROVE  /\ Taken(s, k) \in Seq(Nat) /\ Len(Taken(s, k)) = k
           /\ Taken(s, k) \o Reverse(SubSeq(s, 1, Len(s) - k)) = Reverse(s)
<1> DEFINE e == SubSeq(s, Len(s) - k + 1, Len(s))
           b == SubSeq(s, 1, Len(s) - k)
<1>1. /\ e \in Seq(Nat) /\ Len(e) = k
      /\ \A i \in 1..k : e[i] = s[Len(s) - k + i]
  BY PartProperties
<1>2. /\ b \in Seq(Nat) /\ Len(b) = Len(s) - k
      /\ \A i \in 1..Len(s) - k : b[i] = s[i]
  BY PartProperties
<1>3. /\ Taken(s, k) \in Seq(Nat) /\ Len(Taken(s, k)) = k
      /\ \A i \in 1..k : Taken(s, k)[i] = s[Len(s) - i + 1]
  <2> HIDE DEF e
  <2>1. Taken(s, k) = Reverse(e)
    BY DEF Taken, e
  <2>2. \A i \in 1..k : k - i + 1 \in 1..k /\ Len(s) - k + (k - i + 1) = Len(s) - i + 1
    OBVIOUS
  <2>3. /\ Reverse(e) \in Seq(Nat) /\ Len(Reverse(e)) = Len(e)
        /\ \A i \in 1..Len(e) : Reverse(e)[i] = e[Len(e) - i + 1]
    BY <1>1, ReverseProperties
  <2>4. ASSUME NEW i \in 1..k PROVE Reverse(e)[i] = s[Len(s) - i + 1]
    <3>1. Reverse(e)[i] = e[k - i + 1]
      BY <1>1, <2>3
    <3>2. e[k - i + 1] = s[Len(s) - k + (k - i + 1)]
      BY <1>1, <2>2
    <3> QED BY <2>2, <3>1, <3>2
  <2> QED BY <1>1, <2>1, <2>3, <2>4
<1>4. /\ Reverse(b) \in Seq(Nat) /\ Len(Reverse(b)) = Len(s) - k
      /\ \A i \in 1..Len(s) - k : Reverse(b)[i] = s[Len(s) - k - i + 1]
  <2> HIDE DEF b
  <2>1. \A i \in 1..Len(s) - k : Len(s) - k - i + 1 \in 1..Len(s) - k
    OBVIOUS
  <2>2. /\ Reverse(b) \in Seq(Nat) /\ Len(Reverse(b)) = Len(b)
        /\ \A i \in 1..Len(b) : Reverse(b)[i] = b[Len(b) - i + 1]
    BY <1>2, ReverseProperties
  <2>3. ASSUME NEW i \in 1..Len(s) - k PROVE Reverse(b)[i] = s[Len(s) - k - i + 1]
    <3>1. Reverse(b)[i] = b[Len(s) - k - i + 1]
      BY <1>2, <2>2
    <3> QED BY <1>2, <2>1, <3>1
  <2> QED BY <1>2, <2>2, <2>3
<1>5. /\ Reverse(s) \in Seq(Nat) /\ Len(Reverse(s)) = Len(s)
      /\ \A i \in 1..Len(s) : Reverse(s)[i] = s[Len(s) - i + 1]
  BY ReverseProperties
<1> DEFINE j == Taken(s, k) \o Reverse(b)
<1>6. /\ j \in Seq(Nat) /\ Len(j) = Len(s)
      /\ \A i \in 1..Len(s) : j[i] = IF i <= k THEN Taken(s, k)[i] ELSE Reverse(b)[i - k]
  <2> HIDE DEF b
  <2> QED BY <1>3, <1>4, JoinProperties, SMTT(30)
<1>7. \A i \in 1..Len(s) : j[i] = s[Len(s) - i + 1]
  <2> TAKE i \in 1..Len(s)
  <2> HIDE DEF b, j
  <2>1. CASE i <= k
    BY <2>1, <1>3, <1>6
  <2>2. CASE ~(i <= k)
    <3>1. i - k \in 1..Len(s) - k
      BY <2>2
    <3>2. Len(s) - k - (i - k) + 1 = Len(s) - i + 1
      OBVIOUS
    <3> QED BY <2>2, <3>1, <3>2, <1>4, <1>6
  <2> QED BY <2>1, <2>2
<1>8. j = Reverse(s)
  <2> HIDE DEF j
  <2> QED BY <1>5, <1>6, <1>7, SeqEqual
<1> QED BY <1>3, <1>8

\* Bytes kept in reverse behind the others come before them in the stream.
LEMMA ReverseOfKept ==
    ASSUME NEW s \in Seq(Nat), NEW t \in Seq(Nat)
    PROVE  Reverse(s \o Reverse(t)) = t \o Reverse(s)
<1> DEFINE u == Reverse(t)
           v == Reverse(s)
           r == s \o u
<1>1. /\ u \in Seq(Nat) /\ Len(u) = Len(t)
      /\ \A i \in 1..Len(t) : u[i] = t[Len(t) - i + 1]
  BY ReverseProperties
<1>2. /\ v \in Seq(Nat) /\ Len(v) = Len(s)
      /\ \A i \in 1..Len(s) : v[i] = s[Len(s) - i + 1]
  BY ReverseProperties
<1>3. /\ r \in Seq(Nat) /\ Len(r) = Len(s) + Len(t)
      /\ \A i \in 1..Len(s) + Len(t) :
             r[i] = IF i <= Len(s) THEN s[i] ELSE u[i - Len(s)]
  <2> HIDE DEF u
  <2>1. /\ s \o u \in Seq(Nat) /\ Len(s \o u) = Len(s) + Len(u)
        /\ \A i \in 1..Len(s) + Len(u) :
               (s \o u)[i] = IF i <= Len(s) THEN s[i] ELSE u[i - Len(s)]
    BY <1>1, JoinProperties
  <2> QED BY <1>1, <2>1
<1>4. /\ Reverse(r) \in Seq(Nat) /\ Len(Reverse(r)) = Len(s) + Len(t)
      /\ \A i \in 1..Len(s) + Len(t) : Reverse(r)[i] = r[Len(s) + Len(t) - i + 1]
  <2> HIDE DEF r, u, v
  <2>1. /\ Reverse(r) \in Seq(Nat) /\ Len(Reverse(r)) = Len(r)
        /\ \A i \in 1..Len(r) : Reverse(r)[i] = r[Len(r) - i + 1]
    BY <1>3, ReverseProperties
  <2> QED BY <1>3, <2>1
<1>5. /\ t \o v \in Seq(Nat) /\ Len(t \o v) = Len(s) + Len(t)
      /\ \A i \in 1..Len(s) + Len(t) :
             (t \o v)[i] = IF i <= Len(t) THEN t[i] ELSE v[i - Len(t)]
  <2> HIDE DEF v
  <2>1. /\ t \o v \in Seq(Nat) /\ Len(t \o v) = Len(t) + Len(v)
        /\ \A i \in 1..Len(t) + Len(v) :
               (t \o v)[i] = IF i <= Len(t) THEN t[i] ELSE v[i - Len(t)]
    BY <1>2, JoinProperties
  <2>2. Len(t) + Len(v) = Len(s) + Len(t)
    BY <1>2
  <2> QED BY <2>1, <2>2
<1>6. \A i \in 1..Len(s) + Len(t) : Reverse(r)[i] = (t \o v)[i]
  <2> TAKE i \in 1..Len(s) + Len(t)
  <2> HIDE DEF r, u, v
  <2> DEFINE p == Len(s) + Len(t) - i + 1
  <2>0. p \in 1..Len(s) + Len(t) /\ Reverse(r)[i] = r[p]
    BY <1>4
  <2>1. CASE i <= Len(t)
    <3>1. ~(p <= Len(s)) /\ p - Len(s) \in 1..Len(t) /\ Len(t) - (p - Len(s)) + 1 = i
      BY <2>1
    <3>2. r[p] = u[p - Len(s)]
      BY <2>0, <3>1, <1>3
    <3>3. u[p - Len(s)] = t[i]
      <4> HIDE DEF p
      <4> QED BY <3>1, <1>1
    <3> QED BY <2>0, <2>1, <3>2, <3>3, <1>5
  <2>2. CASE ~(i <= Len(t))
    <3>1. p <= Len(s) /\ i - Len(t) \in 1..Len(s) /\ Len(s) - (i - Len(t)) + 1 = p
      BY <2>2
    <3>2. r[p] = s[p]
      BY <2>0, <3>1, <1>3
    <3>3. v[i - Len(t)] = s[p]
      <4> HIDE DEF p
      <4> QED BY <3>1, <1>2
    <3> QED BY <2>0, <2>2, <3>2, <3>3, <1>5
  <2> QED BY <2>1, <2>2
<1> QED
  <2> HIDE DEF r, u, v
  <2>1. Reverse(r) = t \o v
    BY <1>4, <1>5, <1>6, SeqEqual
  <2> QED BY <2>1 DEF r, u, v

\* A buffer of zeros into which bytes have been put.
LEMMA PaddedType ==
    ASSUME NEW s \in Seq(Nat), NEW n \in Nat
    PROVE  Padded(s, n) \in Seq(Nat) /\ Len(Padded(s, n)) = n
<1>1. \A i \in 1..n : (IF i <= Len(s) THEN s[i] ELSE 0) \in Nat
  BY ElementOfSeq
<1> QED BY <1>1 DEF Padded

-----------------------------------------------------------------------------
\* The variables of the reader keep their types.

\* The reader starts with variables of their types.
THEOREM TypeInit == Init => TypeOK
BY ReaderAssumption DEF Init, TypeOK

\* Every read and every write-back keeps the types.
THEOREM TypeStep == TypeOK /\ [Next]_vars => TypeOK'
<1> SUFFICES ASSUME TypeOK, [Next]_vars PROVE TypeOK'
  OBVIOUS
<1> USE ReaderAssumption
<1>r. reader \in Seq(Nat) /\ Len(reader) \in Nat
  BY DEF TypeOK
<1>f. buf \in Seq(Nat) /\ Len(buf) \in Nat
  BY DEF TypeOK
<1>b. buffer \in Seq(Nat) /\ Len(buffer) \in Nat
  BY DEF TypeOK
<1>g. got \in Seq(Nat) /\ Len(got) \in Nat
  BY DEF TypeOK
<1>1. CASE ReadNothing
  BY <1>1 DEF ReadNothing, TypeOK
<1>2. ASSUME NEW n \in 1..MaxRead, Start(n) PROVE TypeOK'
  <2> DEFINE k == Min({n, Len(buffer)})
  <2>0. k = IF n <= Len(buffer) THEN n ELSE Len(buffer)
    BY <1>b, MinOfTwo
  <2> HIDE DEF k
  <2>1. k \in 0..Len(buffer) /\ k <= n /\ (k < n => k = Len(buffer))
    BY <1>b, <2>0
  <2>2. buf' = Taken(buffer, k) /\ buffer' = SubSeq(buffer, 1, Len(buffer) - k)
    BY <1>2 DEF Start, k
  <2>3. buf' \in Seq(Nat) /\ Len(buf') = k
    BY <1>b, <2>1, <2>2, TakenIsBeginning
  <2>4. buffer' \in Seq(Nat) /\ Len(buffer') = Len(buffer) - k
    BY <1>b, <2>1, <2>2, PartProperties
  <2>5. k < n => buffer' = <<>>
    BY <2>1, <2>4, EmptySeq
  <2>6. want' = n /\ UNCHANGED <<reader, got, result>>
    BY <1>2 DEF Start
  <2> QED BY <2>1, <2>3, <2>4, <2>5, <2>6 DEF TypeOK
<1>3. ASSUME NEW m \in 1..MaxRead, Fill(m) PROVE TypeOK'
  <2>0. m \in 0..Len(reader) /\ m + 1 \in 1..Len(reader) + 1
    BY <1>r, <1>3 DEF Fill
  <2>1. /\ SubSeq(reader, 1, m) \in Seq(Nat) /\ Len(SubSeq(reader, 1, m)) = m
        /\ SubSeq(reader, m + 1, Len(reader)) \in Seq(Nat)
    <3>1. SubSeq(reader, 1, m) \in Seq(Nat) /\ Len(SubSeq(reader, 1, m)) = m
      BY <1>r, <2>0, PartProperties
    <3>2. SubSeq(reader, m + 1, Len(reader)) \in Seq(Nat)
      BY <1>r, <2>0, PartProperties
    <3> QED BY <3>1, <3>2
  <2>2. buf' \in Seq(Nat) /\ Len(buf') = Len(buf) + m
    BY <1>f, <1>3, <2>1, JoinProperties DEF Fill
  <2> QED BY <1>3, <2>1, <2>2 DEF Fill, TypeOK
<1>4. CASE Finish
  BY <1>4, PaddedType DEF Finish, Return, TypeOK
<1>5. CASE Fail
  BY <1>5 DEF Fail, Return, TypeOK
<1>6. ASSUME NEW n \in 0..MaxRead, Write(n) PROVE TypeOK'
  <2>0. n \in 0..Len(got) /\ n + 1 \in 1..Len(got) + 1
    BY <1>g, <1>6 DEF Write
  <2>1. /\ SubSeq(got, n + 1, Len(got)) \in Seq(Nat)
        /\ SubSeq(got, 1, n) \in Seq(Nat) /\ Len(SubSeq(got, 1, n)) = n
    <3>1. SubSeq(got, n + 1, Len(got)) \in Seq(Nat)
      BY <1>g, <2>0, PartProperties
    <3>2. SubSeq(got, 1, n) \in Seq(Nat) /\ Len(SubSeq(got, 1, n)) = n
      BY <1>g, <2>0, PartProperties
    <3> QED BY <3>1, <3>2
  <2>2. buffer' \in Seq(Nat)
    <3> DEFINE rest == SubSeq(got, n + 1, Len(got))
    <3>1. Reverse(rest) \in Seq(Nat)
      BY <2>1, ReverseProperties
    <3>2. buffer' = buffer \o Reverse(rest)
      BY <1>6 DEF Write
    <3> HIDE DEF rest
    <3> QED BY <1>b, <3>1, <3>2, JoinProperties
  <2> QED BY <1>6, <2>1, <2>2, SMTT(30) DEF Write, TypeOK
<1>7. CASE UNCHANGED vars
  BY <1>7 DEF vars, TypeOK
<1> QED BY <1>1, <1>2, <1>3, <1>4, <1>5, <1>6, <1>7 DEF Next

\* Whatever is read and given back, the variables keep their types.
THEOREM TypeCorrect == Spec => []TypeOK
BY TypeInit, TypeStep, PTL DEF Spec

-----------------------------------------------------------------------------
\* The reader implements a byte stream.  Where nothing is under way the stream
\* is what was given back and what the underlying reader holds; a read under
\* way has taken the beginning of it.

\* What is left of two joined sequences when the first is taken off.
LEMMA RestOfJoin ==
    ASSUME NEW s \in Seq(Nat), NEW t \in Seq(Nat)
    PROVE  SubSeq(s \o t, Len(s) + 1, Len(s \o t)) = t
<1> DEFINE j == s \o t
           r == SubSeq(j, Len(s) + 1, Len(j))
<1>1. /\ j \in Seq(Nat) /\ Len(j) = Len(s) + Len(t)
      /\ \A i \in 1..Len(s) + Len(t) : j[i] = IF i <= Len(s) THEN s[i] ELSE t[i - Len(s)]
  BY JoinProperties
<1> HIDE DEF j
<1>2. /\ r \in Seq(Nat) /\ Len(r) = Len(t)
      /\ \A i \in 1..Len(t) : r[i] = j[Len(s) + i]
  <2>1. /\ Len(s) + 1 \in 1..Len(j) + 1 /\ Len(j) \in 0..Len(j)
        /\ Len(s) + 1 <= Len(j) + 1 /\ Len(j) - (Len(s) + 1) + 1 = Len(t)
    BY <1>1
  <2>2. /\ r \in Seq(Nat) /\ Len(r) = Len(j) - (Len(s) + 1) + 1
        /\ \A i \in 1..Len(j) - (Len(s) + 1) + 1 : r[i] = j[Len(s) + 1 + i - 1]
    BY <1>1, <2>1, PartProperties
  <2> HIDE DEF r
  <2>3. ASSUME NEW i \in 1..Len(t) PROVE r[i] = j[Len(s) + i]
    <3>1. Len(s) + 1 + i - 1 = Len(s) + i /\ i \in 1..Len(j) - (Len(s) + 1) + 1
      BY <2>1
    <3>2. r[i] = j[Len(s) + 1 + i - 1]
      BY <2>2, <3>1
    <3> QED BY <3>1, <3>2
  <2> QED BY <2>1, <2>2, <2>3
<1>3. ASSUME NEW i \in 1..Len(t) PROVE r[i] = t[i]
  <2> HIDE DEF r
  <2>1. /\ Len(s) + i \in 1..Len(s) + Len(t) /\ ~(Len(s) + i <= Len(s))
        /\ Len(s) + i - Len(s) = i
    OBVIOUS
  <2>2. j[Len(s) + i] = t[Len(s) + i - Len(s)]
    BY <1>1, <2>1, SMTT(30)
  <2>3. r[i] = j[Len(s) + i]
    BY <1>2
  <2> QED BY <2>1, <2>2, <2>3
<1> HIDE DEF r
<1>4. r = t
  BY <1>2, <1>3, SeqEqual
<1> QED BY <1>4 DEF r, j

\* A sequence is its beginning joined with its rest.
LEMMA PartsOfSequence ==
    ASSUME NEW s \in Seq(Nat), NEW m \in 0..Len(s)
    PROVE  SubSeq(s, 1, m) \o SubSeq(s, m + 1, Len(s)) = s
<1>1. 1 \in 1..Len(s) + 1 /\ m \in 1 - 1..Len(s) /\ Len(s) \in m..Len(s)
  OBVIOUS
<1> QED BY <1>1, ConcatAdjacentSubSeq, SubSeqFull

\* The abstract stream takes minima as the reader does.
LEMMA StreamMin == \A S : Stream!Min(S) = Min(S)
BY DEF Stream!Min, Min

\* Only the part of the stream that fits is put into a buffer.
LEMMA PaddedBeginning ==
    ASSUME NEW s \in Seq(Nat), NEW t \in Seq(Nat), NEW n \in Nat,
           Len(s) = n \/ (Len(s) < n /\ t = <<>>)
    PROVE  Padded(s \o t, n) = Padded(s, n)
<1>1. CASE Len(s) = n
  <2>1. /\ Len(s \o t) = n + Len(t)
        /\ \A i \in 1..n : (s \o t)[i] = s[i]
    <3>1. \A i \in 1..Len(s) + Len(t) :
              (s \o t)[i] = IF i <= Len(s) THEN s[i] ELSE t[i - Len(s)]
      BY JoinProperties
    <3>2. ASSUME NEW i \in 1..n PROVE (s \o t)[i] = s[i]
      <4>1. i \in 1..Len(s) + Len(t) /\ i <= Len(s)
        BY <1>1
      <4> QED BY <3>1, <4>1
    <3>3. Len(s \o t) = Len(s) + Len(t)
      BY JoinProperties
    <3> QED BY <1>1, <3>2, <3>3
  <2> QED BY <1>1, <2>1 DEF Padded
<1>2. CASE t = <<>>
  BY <1>2, ConcatEmptySeq
<1> QED BY <1>1, <1>2

\* The reader starts as the stream starts.
THEOREM StreamInit == Init => Stream!Init
<1> SUFFICES ASSUME Init PROVE Stream!Init
  OBVIOUS
<1>1. reader \in Seq(Nat)
  BY ReaderAssumption DEF Init
<1>2. buf \o Reverse(buffer) \o reader = reader
  BY <1>1, ReverseEmpty, ConcatEmptySeq DEF Init
<1> QED BY <1>2 DEF Init, Stream!Init

\* Every step of the reader is a step of the stream or leaves it alone.
THEOREM StreamStep == TypeOK /\ [Next]_vars => [Stream!Next]_(Stream!vars)
<1> SUFFICES ASSUME TypeOK, [Next]_vars PROVE [Stream!Next]_(Stream!vars)
  OBVIOUS
<1> USE ReaderAssumption
<1> DEFINE kept == Reverse(buffer)
           s == buf \o kept \o reader
<1>r. reader \in Seq(Nat) /\ Len(reader) \in Nat
  BY DEF TypeOK
<1>f. buf \in Seq(Nat) /\ Len(buf) \in Nat
  BY DEF TypeOK
<1>b. buffer \in Seq(Nat) /\ Len(buffer) \in Nat
  BY DEF TypeOK
<1>g. got \in Seq(Nat) /\ Len(got) \in Nat
  BY DEF TypeOK
<1>k. kept \in Seq(Nat)
  BY <1>b, ReverseProperties
<1>s. s \in Seq(Nat)
  <2> HIDE DEF kept
  <2>1. buf \o kept \in Seq(Nat)
    BY <1>f, <1>k, JoinProperties
  <2> QED BY <1>r, <2>1, JoinProperties
<1>t. kept \o reader \in Seq(Nat) /\ s = buf \o (kept \o reader)
  <2> HIDE DEF kept
  <2>1. kept \o reader \in Seq(Nat)
    BY <1>r, <1>k, JoinProperties
  <2>2. (buf \o kept) \o reader = buf \o (kept \o reader)
    BY <1>f, <1>r, <1>k, JoinAssociative
  <2> QED BY <2>1, <2>2
\* Nothing is under way.
<1>n. ASSUME buf = <<>> PROVE s = kept \o reader
  <2> HIDE DEF kept
  <2>1. <<>> \o kept = kept
    BY <1>k, ConcatEmptySeq
  <2> QED BY <1>n, <2>1
\* Nothing is left of what was given back.
<1>e. ASSUME buffer = <<>> PROVE s = buf \o reader
  <2>1. kept = <<>>
    BY <1>e, ReverseEmpty
  <2>2. buf \o <<>> = buf
    BY <1>f, ConcatEmptySeq
  <2> QED BY <2>1, <2>2
<1>1. CASE ReadNothing
  <2>1. /\ Padded(s, 0) = <<>> /\ SubSeq(s, 0 + 1, Len(s)) = s
        /\ Min({0, Len(s)}) = 0
    <3> HIDE DEF s
    <3>1. SubSeq(s, 1, Len(s)) = s /\ Len(s) \in Nat
      BY <1>s, SubSeqFull
    <3>2. Min({0, Len(s)}) = 0
      BY <3>1, MinOfTwo
    <3> QED BY <3>1, <3>2 DEF Padded
  <2>2. s' = s
    BY <1>1 DEF ReadNothing
  <2>3. Stream!Read(0)
    BY <1>1, <2>1, <2>2, StreamMin DEF ReadNothing, Stream!Read, Stream!Rest, Stream!Padded, Padded
  <2> QED BY <2>3 DEF Stream!Next
<1>2. ASSUME NEW n \in 1..MaxRead, Start(n) PROVE UNCHANGED Stream!vars
  <2> DEFINE k == Min({n, Len(buffer)})
             b == SubSeq(buffer, 1, Len(buffer) - k)
  <2>0. k = IF n <= Len(buffer) THEN n ELSE Len(buffer)
    BY <1>b, MinOfTwo
  <2>1. /\ want = 0 /\ buf' = Taken(buffer, k) /\ buffer' = b
        /\ UNCHANGED <<reader, got, result>>
    BY <1>2 DEF Start
  <2> HIDE DEF k
  <2>2. k \in 0..Len(buffer)
    BY <1>b, <2>0
  <2>3. Taken(buffer, k) \o Reverse(b) = kept
    BY <1>b, <2>2, TakenIsBeginning
  <2>4. s' = kept \o reader
    BY <2>1, <2>3
  <2>5. buf = <<>>
    BY <2>1, <1>f, EmptySeq DEF TypeOK
  <2> QED BY <1>n, <2>1, <2>4, <2>5 DEF Stream!vars
<1>3. ASSUME NEW m \in 1..MaxRead, Fill(m) PROVE UNCHANGED Stream!vars
  <2> DEFINE pre == SubSeq(reader, 1, m)
             rest == SubSeq(reader, m + 1, Len(reader))
  <2>1. /\ buf' = buf \o pre /\ reader' = rest /\ buffer = <<>> /\ buffer' = <<>>
        /\ UNCHANGED <<got, result>>
    BY <1>f, <1>3 DEF Fill, TypeOK
  <2>2. m \in 0..Len(reader) /\ m + 1 \in 1..Len(reader) + 1
    BY <1>r, <1>3 DEF Fill
  <2>3. pre \in Seq(Nat) /\ rest \in Seq(Nat)
    BY <1>r, <2>2, PartProperties
  <2>4. pre \o rest = reader
    BY <1>r, <2>2, PartsOfSequence
  <2> HIDE DEF pre, rest
  <2>5. buf \o pre \in Seq(Nat)
    BY <1>f, <2>3, JoinProperties
  <2>6. (buf \o pre) \o rest = buf \o reader
    BY <1>f, <2>3, <2>4, JoinAssociative
  <2>7. s' = (buf \o pre) \o <<>> \o rest
    BY <2>1, ReverseEmpty
  <2>8. (buf \o pre) \o <<>> = buf \o pre
    BY <2>5, ConcatEmptySeq
  <2> QED BY <1>e, <2>1, <2>6, <2>7, <2>8 DEF Stream!vars
<1>4. CASE Finish
  <2> DEFINE tail == kept \o reader
  <2>1. /\ want \in 0..MaxRead /\ want > 0
        /\ got' = Padded(buf, want) /\ result' = Len(buf)
        /\ buf' = <<>> /\ UNCHANGED <<reader, buffer>>
    BY <1>4 DEF Finish, Return, TypeOK
  <2>2. tail \in Seq(Nat) /\ s = buf \o tail /\ s' = tail
    <3>1. s' = <<>> \o kept \o reader
      BY <2>1
    <3> HIDE DEF kept
    <3>2. <<>> \o kept = kept
      BY <1>k, ConcatEmptySeq
    <3> QED BY <1>t, <3>1, <3>2
  <2>3. Len(buf) = want \/ (Len(buf) < want /\ tail = <<>>)
    <3>1. CASE Len(buf) < want
      BY <3>1, <1>4, ReverseEmpty DEF Finish, TypeOK
    <3> QED BY <1>f, <3>1, <2>1 DEF TypeOK
  <2> HIDE DEF tail, s
  <2>4. Padded(s, want) = Padded(buf, want)
    BY <1>f, <2>1, <2>2, <2>3, PaddedBeginning
  <2>5. Len(s) = Len(buf) + Len(tail) /\ Len(tail) \in Nat
    BY <1>f, <2>2, JoinProperties
  <2>6. Min({want, Len(s)}) = Len(buf)
    <3>1. CASE Len(buf) = want
      BY <3>1, <2>1, <2>5, <1>f, MinOfTwo
    <3>2. CASE Len(buf) < want /\ tail = <<>>
      BY <3>2, <2>1, <2>5, <1>f, MinOfTwo
    <3> QED BY <2>3, <3>1, <3>2
  <2>7. SubSeq(s, want + 1, Len(s)) = tail
    <3>1. CASE Len(buf) = want
      BY <1>f, <3>1, <2>2, RestOfJoin
    <3>2. CASE Len(buf) < want /\ tail = <<>>
      BY <3>2, <2>1, <2>5, <1>f, SubSeqEmpty
    <3> QED BY <2>3, <3>1, <3>2
  <2>8. Stream!Read(want)
    BY <2>1, <2>2, <2>4, <2>6, <2>7, StreamMin
       DEF s, Stream!Read, Stream!Rest, Stream!Padded, Padded
  <2> QED BY <2>1, <2>8 DEF Stream!Next
<1>5. CASE Fail
  <2> DEFINE tail == kept \o reader
  <2>1. /\ want \in 0..MaxRead /\ Len(buf) \in 0..want
        /\ got' = <<>> /\ result' = -1
        /\ buf' = <<>> /\ UNCHANGED <<reader, buffer>>
    BY <1>f, <1>5 DEF Fail, Failed, Return, TypeOK
  <2>2. tail \in Seq(Nat) /\ s = buf \o tail /\ s' = tail
    <3>1. s' = <<>> \o kept \o reader
      BY <2>1
    <3> HIDE DEF kept
    <3>2. <<>> \o kept = kept
      BY <1>k, ConcatEmptySeq
    <3> QED BY <1>t, <3>1, <3>2
  <2>3. SubSeq(s, Len(buf) + 1, Len(s)) = tail
    <3> HIDE DEF tail, s
    <3> QED BY <1>f, <2>2, RestOfJoin
  <2>4. Stream!Fail(want)
    BY <2>1, <2>2, <2>3 DEF Stream!Fail, Stream!Failed, Stream!Rest
  <2> QED BY <2>1, <2>4 DEF Stream!Next
<1>6. ASSUME NEW n \in 0..MaxRead, Write(n) PROVE Stream!GiveBack(n)
  <2> DEFINE rest == SubSeq(got, n + 1, Len(got))
  <2>1. /\ want = 0 /\ n <= Len(got) /\ buffer' = buffer \o Reverse(rest)
        /\ got' = SubSeq(got, 1, n) /\ UNCHANGED <<reader, buf, result>>
    BY <1>6 DEF Write
  <2>2. buf = <<>>
    BY <1>f, <2>1, EmptySeq DEF TypeOK
  <2>3. rest \in Seq(Nat)
    <3>1. n \in 0..Len(got) /\ n + 1 \in 1..Len(got) + 1
      BY <1>g, <2>1
    <3> QED BY <1>g, <3>1, PartProperties
  <2>4. Min({n, Len(got)}) = n
    <3>1. n \in Int /\ Len(got) \in Int /\ n <= Len(got)
      BY <1>g, <2>1
    <3> QED BY <3>1, MinOfTwo
  <2> HIDE DEF rest
  <2>5. Reverse(buffer') = rest \o kept
    BY <1>b, <2>1, <2>3, ReverseOfKept
  <2>6. s' = <<>> \o (rest \o kept) \o reader
    BY <2>1, <2>2, <2>5
  <2>7. <<>> \o (rest \o kept) \o reader = rest \o (kept \o reader)
    <3> HIDE DEF kept
    <3>1. rest \o kept \in Seq(Nat)
      BY <1>k, <2>3, JoinProperties
    <3>2. (rest \o kept) \o reader = rest \o (kept \o reader)
      BY <1>k, <1>r, <2>3, JoinAssociative
    <3>3. <<>> \o (rest \o kept) = rest \o kept
      BY <3>1, ConcatEmptySeq
    <3> QED BY <3>2, <3>3
  <2>8. s' = rest \o s
    BY <1>n, <2>2, <2>6, <2>7
  <2> QED BY <2>1, <2>4, <2>8, StreamMin DEF rest, Stream!GiveBack, Stream!Rest, Stream!First
<1>7. CASE UNCHANGED vars
  BY <1>7 DEF vars, Stream!vars
<1> QED BY <1>1, <1>2, <1>3, <1>4, <1>5, <1>6, <1>7 DEF Next, Stream!Next

\* However short the reads of the underlying reader are and whatever is given
\* back: WriteBackReader is a byte stream.
THEOREM ReaderIsByteStream == Spec => IsByteStream
<1>1. Spec => Stream!Init
  BY StreamInit, PTL DEF Spec
<1>2. Spec => [][Stream!Next]_(Stream!vars)
  BY TypeCorrect, StreamStep, PTL DEF Spec
<1> QED BY <1>1, <1>2 DEF IsByteStream, Stream!Spec

-----------------------------------------------------------------------------
(***************************************************************************)
(* Numbers and their digits.                                               *)
(***************************************************************************)

\* What is left of a number, digit by digit.
IsLeft(f, base, n, e) == f[0] = n /\ \A i \in 1..e : f[i] = f[i - 1] \div base

\* Left divides once for every digit.
LEMMA LeftFound ==
    ASSUME NEW base \in Nat \ {0, 1}, NEW n \in Nat, NEW e \in Nat
    PROVE  /\ IsLeft(Left(base, n, e), base, n, e)
           /\ \A i \in 0..e : Left(base, n, e)[i] \in Nat
<1> DEFINE step == [t \in (0..e) \X Nat |-> t[2] \div base]
<1>1. step \in [(0..e) \X Nat -> Nat]
  <2>1. \A x \in Nat : x \div base \in Nat
    BY Division
  <2> QED BY <2>1
<1>2. PICK f \in [0..e -> Nat] : IsLeft(f, base, n, e)
  <2>1. PICK f \in [0..e -> Nat] : Iterates(f, e, n, step)
    <3> HIDE DEF step
    <3> QED BY <1>1, Recursion
  <2>2. \A i \in 1..e : step[<<i, f[i - 1]>>] = f[i - 1] \div base
    <3>1. \A i \in 1..e : i - 1 \in 0..e /\ i \in 0..e
      OBVIOUS
    <3> QED BY <3>1
  <2> QED BY <2>1, <2>2 DEF Iterates, IsLeft
<1> HIDE DEF step
<1> DEFINE Fix(g) == g = [i \in 0..e |-> IF i = 0 THEN n ELSE g[i - 1] \div base]
           left == CHOOSE g : Fix(g)
<1>3. Left(base, n, e) = left
  BY DEF Left
<1>4. Fix(f)
  BY <1>2 DEF IsLeft
<1> HIDE DEF Fix
<1>5. Fix(left)
  BY <1>4
<1> HIDE DEF left
<1>6. IsLeft(left, base, n, e)
  <2>1. \A i \in 0..e : left[i] = IF i = 0 THEN n ELSE left[i - 1] \div base
    BY <1>5 DEF Fix
  <2> QED BY <2>1 DEF IsLeft
<1> DEFINE T == {i \in 0..e : left[i] \in Nat}
<1>7. 0 \in T
  BY <1>6 DEF IsLeft
<1>8. ASSUME NEW i \in 0..e - 1, i \in T PROVE i + 1 \in T
  <2>1. i + 1 \in 1..e /\ i + 1 \in 0..e /\ (i + 1) - 1 = i
    OBVIOUS
  <2>2. left[i + 1] = left[i] \div base
    BY <1>6, <2>1 DEF IsLeft
  <2>3. left[i] \div base \in Nat
    BY <1>8, Division
  <2> QED BY <2>1, <2>2, <2>3
<1>9. \A i \in 0..e : i \in T
  <2> HIDE DEF T
  <2> QED BY <1>7, <1>8, Induction
<1> QED BY <1>3, <1>6, <1>9

\* One digit more.
LEMMA LeftStep ==
    ASSUME NEW base \in Nat \ {0, 1}, NEW n \in Nat, NEW e \in Nat, NEW i \in 1..e
    PROVE  /\ Left(base, n, e)[i - 1] \in Nat /\ Left(base, n, e)[i] \in Nat
           /\ Left(base, n, e)[i] = Left(base, n, e)[i - 1] \div base
           /\ Left(base, n, e)[i - 1] % base \in 0..base - 1
           /\ Left(base, n, e)[i - 1]
                  = base * Left(base, n, e)[i] + (Left(base, n, e)[i - 1] % base)
<1> DEFINE x == Left(base, n, e)[i - 1]
           y == Left(base, n, e)[i]
<1>1. i - 1 \in 0..e /\ i \in 0..e
  OBVIOUS
<1>2. x \in Nat /\ y \in Nat /\ y = x \div base
  BY <1>1, LeftFound DEF IsLeft
<1> HIDE DEF x, y
<1>3. x % base \in 0..base - 1 /\ x = (x \div base) * base + (x % base)
  BY <1>2, Division
<1>4. (x \div base) * base = base * y
  BY <1>2
<1>5. x = base * y + (x % base)
  BY <1>3, <1>4
<1> QED BY <1>2, <1>3, <1>5 DEF x, y

\* Where nothing is left, nothing is left further on.
LEMMA NothingLeft ==
    ASSUME NEW base \in Nat \ {0, 1}, NEW n \in Nat, NEW e \in Nat, NEW l \in 0..e,
           Left(base, n, e)[l] = 0
    PROVE  \A i \in l..e : Left(base, n, e)[i] = 0
<1> DEFINE T == {k \in 0..e - l : Left(base, n, e)[l + k] = 0}
<1>1. 0 \in T
  OBVIOUS
<1>2. ASSUME NEW k \in 0..(e - l) - 1, k \in T PROVE k + 1 \in T
  <2>1. k + 1 \in 0..e - l /\ l + (k + 1) \in 1..e /\ (l + (k + 1)) - 1 = l + k
    OBVIOUS
  <2>2. Left(base, n, e)[l + (k + 1)] = Left(base, n, e)[l + k] \div base
    BY <2>1, LeftStep
  <2>3. Left(base, n, e)[l + k] = 0
    BY <1>2
  <2>4. 0 \div base = 0
    OBVIOUS
  <2> QED BY <2>1, <2>2, <2>3, <2>4
<1>3. \A k \in 0..e - l : k \in T
  <2> HIDE DEF T
  <2>1. e - l \in Nat
    OBVIOUS
  <2> QED BY <1>1, <1>2, <2>1, Induction
<1>4. ASSUME NEW i \in l..e PROVE Left(base, n, e)[i] = 0
  <2>1. i - l \in 0..e - l /\ l + (i - l) = i
    OBVIOUS
  <2> QED BY <1>3, <2>1
<1> QED BY <1>4

-----------------------------------------------------------------------------
\* The numbers that the last digits of d stand for.
IsLast(f, base, d) ==
    /\ f[0] = 0
    /\ \A i \in 1..Len(d) : f[i] = d[Len(d) - i + 1] + base * f[i - 1]

\* Number adds one digit after the other, the last one first.
LEMMA NumberFound ==
    ASSUME NEW base \in Nat \ {0, 1}, NEW d \in Seq(Nat)
    PROVE  \E f \in [0..Len(d) -> Nat] : IsLast(f, base, d) /\ Number(base, d) = f[Len(d)]
<1> DEFINE e == Len(d)
           v(k) == IF k = 0 THEN 0 ELSE d[e - k + 1]
           step == [t \in (0..e) \X Nat |-> v(t[1]) + base * t[2]]
<1>0. e \in Nat
  OBVIOUS
<1>1. \A k \in 0..e : v(k) \in Nat
  <2>1. \A k \in 1..e : e - k + 1 \in 1..Len(d)
    OBVIOUS
  <2>2. \A k \in 1..e : d[e - k + 1] \in Nat
    BY <2>1, ElementOfSeq
  <2> QED BY <2>2
<1> HIDE DEF e, v
<1>2. step \in [(0..e) \X Nat -> Nat]
  <2>1. \A x \in Nat : base * x \in Nat
    OBVIOUS
  <2>2. \A k \in 0..e, x \in Nat : v(k) + base * x \in Nat
    BY <1>1, <2>1
  <2>3. \A t \in (0..e) \X Nat : v(t[1]) + base * t[2] \in Nat
    BY <2>2
  <2> QED BY <2>3
<1>3. PICK f \in [0..e -> Nat] : f[0] = 0 /\ \A i \in 1..e : f[i] = v(i) + base * f[i - 1]
  <2>1. PICK f \in [0..e -> Nat] : Iterates(f, e, 0, step)
    <3> HIDE DEF step
    <3> QED BY <1>0, <1>2, Recursion
  <2>2. \A i \in 1..e : step[<<i, f[i - 1]>>] = v(i) + base * f[i - 1]
    <3>1. \A i \in 1..e : i - 1 \in 0..e /\ i \in 0..e
      BY <1>0
    <3> QED BY <3>1
  <2> QED BY <2>1, <2>2 DEF Iterates
<1> HIDE DEF step
<1> DEFINE Fix(g) == g = [i \in 0..e |-> IF i = 0 THEN 0 ELSE v(i) + base * g[i - 1]]
           last == CHOOSE g : Fix(g)
<1>4. Number(base, d) = last[e]
  <2> DEFINE FixN(g) == g = [i \in 0..Len(d) |->
                                IF i = 0 THEN 0 ELSE d[Len(d) - i + 1] + base * g[i - 1]]
  <2>1. Number(base, d) = (CHOOSE g : FixN(g))[Len(d)]
    BY DEF Number
  <2>2. \A g : [i \in 0..Len(d) |-> IF i = 0 THEN 0 ELSE d[Len(d) - i + 1] + base * g[i - 1]]
                  = [i \in 0..e |-> IF i = 0 THEN 0 ELSE v(i) + base * g[i - 1]]
    BY DEF e, v
  <2>3. \A g : FixN(g) <=> Fix(g)
    BY <2>2
  <2> HIDE DEF Fix, FixN
  <2>4. (CHOOSE g : FixN(g)) = (CHOOSE g : Fix(g))
    BY <2>3
  <2> QED BY <2>1, <2>4 DEF e
<1>5. Fix(f)
  BY <1>0, <1>3
<1> HIDE DEF Fix
<1>6. Fix(last)
  BY <1>5
<1> HIDE DEF last
<1>7. \A i \in 0..e : last[i] = IF i = 0 THEN 0 ELSE v(i) + base * last[i - 1]
  BY <1>6 DEF Fix
<1> DEFINE T == {i \in 0..e : last[i] = f[i]}
<1>8. 0 \in T
  BY <1>0, <1>3, <1>7
<1>9. ASSUME NEW i \in 0..e - 1, i \in T PROVE i + 1 \in T
  <2>1. i + 1 \in 1..e /\ i + 1 \in 0..e /\ (i + 1) - 1 = i /\ i + 1 # 0
    BY <1>0
  <2>2. last[i + 1] = v(i + 1) + base * last[i]
    BY <1>7, <2>1
  <2>3. f[i + 1] = v(i + 1) + base * f[i]
    BY <1>3, <2>1
  <2> QED BY <1>9, <2>1, <2>2, <2>3
<1>10. \A i \in 0..e : i \in T
  <2> HIDE DEF T
  <2> QED BY <1>0, <1>8, <1>9, Induction
<1>11. last[e] = f[e]
  BY <1>0, <1>10
<1>12. IsLast(f, base, d)
  <2>1. \A i \in 1..Len(d) : v(i) = d[Len(d) - i + 1]
    BY DEF v, e
  <2> QED BY <1>3, <2>1 DEF IsLast, e
<1>13. f \in [0..Len(d) -> Nat] /\ Number(base, d) = f[Len(d)]
  BY <1>4, <1>11 DEF e
<1> QED BY <1>12, <1>13

\* The digits of a number stand for it.
LEMMA NumberOfDigits ==
    ASSUME NEW base \in Nat \ {0, 1}, NEW n \in Nat, NEW e \in Nat, NEW d \in Seq(Nat),
           Len(d) <= e, Left(base, n, e)[Len(d)] = 0,
           \A i \in 1..Len(d) : d[i] = Left(base, n, e)[i - 1] % base
    PROVE  Number(base, d) = n
<1> DEFINE l == Len(d)
<1>0. l \in Nat /\ l <= e
  OBVIOUS
<1>1. PICK f \in [0..Len(d) -> Nat] : IsLast(f, base, d) /\ Number(base, d) = f[Len(d)]
  BY NumberFound
<1>2. /\ f[0] = 0 /\ Number(base, d) = f[l]
      /\ \A i \in 1..l : f[i] = d[l - i + 1] + base * f[i - 1]
  BY <1>1 DEF IsLast
<1>3. \A i \in 1..l : d[i] = Left(base, n, e)[i - 1] % base
  OBVIOUS
<1>4. Left(base, n, e)[l] = 0
  OBVIOUS
<1> HIDE DEF l
<1> DEFINE T == {i \in 0..l : f[i] = Left(base, n, e)[l - i]}
<1>5. 0 \in T
  BY <1>0, <1>2, <1>4
<1>6. ASSUME NEW i \in 0..l - 1, i \in T PROVE i + 1 \in T
  <2> DEFINE j == l - i
  <2>1. /\ i + 1 \in 1..l /\ i + 1 \in 0..l /\ (i + 1) - 1 = i
        /\ l - (i + 1) + 1 = j /\ l - (i + 1) = j - 1 /\ j \in 1..l /\ j \in 1..e
    BY <1>0
  <2>2. f[i] = Left(base, n, e)[j]
    BY <1>6
  <2> HIDE DEF j
  <2>3. f[i + 1] = d[j] + base * f[i]
    BY <1>2, <2>1
  <2>4. d[j] = Left(base, n, e)[j - 1] % base
    BY <1>3, <2>1
  <2> DEFINE x == Left(base, n, e)[j - 1]
             y == Left(base, n, e)[j]
  <2>5. x = base * y + (x % base) /\ x % base \in 0..base - 1 /\ y \in Nat
    BY <2>1, LeftStep
  <2> HIDE DEF x, y
  <2>6. f[i + 1] = x
    <3>1. f[i + 1] = (x % base) + base * y
      BY <2>2, <2>3, <2>4 DEF x, y
    <3>2. base * y \in Int /\ x % base \in Int
      BY <2>5
    <3> QED BY <3>1, <3>2, <2>5
  <2> QED BY <2>1, <2>6 DEF x
<1>7. \A i \in 0..l : i \in T
  <2> HIDE DEF T
  <2> QED BY <1>0, <1>5, <1>6, Induction
<1>8. l \in T
  BY <1>0, <1>7
<1>9. f[l] = Left(base, n, e)[0]
  BY <1>0, <1>8
<1>10. Left(base, n, e)[0] = n
  BY LeftFound DEF IsLeft
<1> QED BY <1>2, <1>9, <1>10

\* The digits of the number that digits stand for are these digits.
LEMMA DigitsOfNumber ==
    ASSUME NEW base \in Nat \ {0, 1}, NEW e \in Nat, NEW d \in Seq(Nat), Len(d) <= e,
           \A i \in 1..Len(d) : d[i] < base
    PROVE  /\ Number(base, d) \in Nat
           /\ Left(base, Number(base, d), e)[Len(d)] = 0
           /\ \A i \in 1..Len(d) : d[i] = Left(base, Number(base, d), e)[i - 1] % base
<1> DEFINE l == Len(d)
           n == Number(base, d)
<1>0. l \in Nat /\ l <= e
  OBVIOUS
<1>1. PICK f \in [0..Len(d) -> Nat] : IsLast(f, base, d) /\ Number(base, d) = f[Len(d)]
  BY NumberFound
<1>2. /\ f[0] = 0 /\ n = f[l] /\ \A i \in 0..l : f[i] \in Nat
      /\ \A i \in 1..l : f[i] = d[l - i + 1] + base * f[i - 1]
  BY <1>1 DEF IsLast
<1>3. \A i \in 1..l : d[i] \in 0..base - 1
  <2>1. \A i \in 1..l : d[i] \in Nat
    BY ElementOfSeq
  <2> QED BY <2>1
<1> HIDE DEF l, n
<1>4. n \in Nat
  BY <1>0, <1>2
<1> DEFINE L == Left(base, n, e)
           T == {i \in 0..l : L[i] = f[l - i]}
<1>5. 0 \in T
  <2>1. L[0] = n
    BY <1>4, LeftFound DEF IsLeft
  <2> HIDE DEF L
  <2> QED BY <2>1, <1>0, <1>2
\* The number of the digits from the i-th on is split into the digit and the
\* rest of them.
<1>6. ASSUME NEW i \in 1..l
      PROVE  /\ f[l - i] \in Nat
             /\ f[l - i + 1] \div base = f[l - i] /\ f[l - i + 1] % base = d[i]
  <2> DEFINE x == f[l - i]
             y == d[i]
  <2>1. l - i + 1 \in 1..l /\ (l - i + 1) - 1 = l - i /\ l - (l - i + 1) + 1 = i /\ l - i \in 0..l
    BY <1>0
  <2>2. f[l - i + 1] = y + base * x
    BY <1>2, <2>1
  <2>3. x \in Nat /\ y \in 0..base - 1
    BY <1>2, <1>3, <2>1
  <2> HIDE DEF x, y
  <2>4. (x * base + y) \div base = x /\ (x * base + y) % base = y
    BY <2>3, Division
  <2>5. y + base * x = x * base + y
    BY <2>3
  <2>6. f[l - i + 1] \div base = x /\ f[l - i + 1] % base = y
    BY <2>2, <2>4, <2>5
  <2> QED BY <2>3, <2>6 DEF x, y
<1>7. ASSUME NEW i \in 0..l - 1, i \in T PROVE i + 1 \in T
  <2>1. i + 1 \in 1..l /\ i + 1 \in 1..e /\ i + 1 \in 0..l /\ (i + 1) - 1 = i
        /\ l - (i + 1) + 1 = l - i
    BY <1>0
  <2>2. L[i + 1] = L[i] \div base
    <3> DEFINE k == i + 1
    <3>1. k \in 1..e /\ k - 1 = i
      BY <2>1
    <3> HIDE DEF k
    <3>2. Left(base, n, e)[k] = Left(base, n, e)[k - 1] \div base
      BY <1>4, <3>1, LeftStep, ZenonT(60)
    <3> QED BY <3>1, <3>2 DEF k
  <2>3. f[l - (i + 1) + 1] \div base = f[l - (i + 1)]
    BY <1>6, <2>1
  <2>4. L[i] = f[l - i]
    BY <1>7
  <2>5. L[i + 1] = f[l - (i + 1)]
    BY <2>1, <2>2, <2>3, <2>4
  <2> QED BY <2>1, <2>5
<1>8. \A i \in 0..l : i \in T
  <2> HIDE DEF T
  <2> QED BY <1>0, <1>5, <1>7, Induction
<1>9. L[l] = 0
  <2>1. l \in T /\ l - l = 0
    BY <1>0, <1>8
  <2> HIDE DEF L
  <2> QED BY <2>1, <1>2
<1>10. ASSUME NEW i \in 1..l PROVE d[i] = L[i - 1] % base
  <2>1. i - 1 \in 0..l /\ l - (i - 1) = l - i + 1
    BY <1>0
  <2>2. L[i - 1] = f[l - (i - 1)]
    BY <1>8, <2>1
  <2> QED BY <1>6, <2>1, <2>2
<1> HIDE DEF L
<1>11. n \in Nat /\ L[l] = 0 /\ \A i \in 1..l : d[i] = L[i - 1] % base
  BY <1>4, <1>9, <1>10
<1> QED BY <1>11 DEF L, n, l

-----------------------------------------------------------------------------
(***************************************************************************)
(* Lengths as varints.                                                     *)
(***************************************************************************)

\* Bytes and digits are numbers.
LEMMA Bases ==
    /\ Radix \in Nat \ {0, 1} /\ Byte \in Nat \ {0, 1} /\ Byte = Radix + Radix
    /\ MaxVarint \in Nat \ {0} /\ CountBytes \in Nat \ {0}
    /\ Bytes \subseteq Nat /\ 0 \in Bytes
BY StorageAssumption DEF Byte, Bytes

\* Sequences of bytes are sequences of numbers.
LEMMA BytesAreNumbers ==
    ASSUME NEW s \in Seq(Bytes)
    PROVE  s \in Seq(Nat) /\ \A i \in 1..Len(s) : s[i] \in Bytes
<1>1. \A i \in 1..Len(s) : s[i] \in Bytes
  BY ElementOfSeq
<1>2. \A i \in 1..Len(s) : s[i] \in Nat
  BY <1>1, Bases
<1>3. s = [i \in 1..Len(s) |-> s[i]] /\ Len(s) \in Nat
  OBVIOUS
<1> QED BY <1>1, <1>2, <1>3

\* A function on the first numbers is a sequence.
LEMMA FunctionIsSequence ==
    ASSUME NEW S, NEW n \in Nat, NEW f, f = [i \in 1..n |-> f[i]], \A i \in 1..n : f[i] \in S
    PROVE  f \in Seq(S) /\ Len(f) = n
OBVIOUS

\* A byte is a digit, with or without a mark.
LEMMA ByteDigit ==
    ASSUME NEW b \in Bytes
    PROVE  /\ b % Radix \in 0..Radix - 1
           /\ b % Radix = IF b < Radix THEN b ELSE b - Radix
<1> DEFINE r == Radix
<1>1. r \in Nat \ {0, 1} /\ b \in Nat /\ b < r + r
  BY Bases DEF Bytes
<1> HIDE DEF r
<1>2. b < r => b % r = b
  <2>1. ASSUME b < r PROVE b % r = b
    <3>1. b \in 0..r - 1 /\ r \in Nat \ {0}
      BY <1>1, <2>1
    <3>2. \A q \in Nat : (q * r + b) % r = b
      BY <3>1, Division
    <3>3. (0 * r + b) % r = b /\ 0 * r + b = b
      BY <3>1, <3>2
    <3> QED BY <3>3
  <2> QED BY <2>1
<1>3. ~(b < r) => b % r = b - r
  <2>1. ASSUME ~(b < r) PROVE b % r = b - r
    <3>1. b - r \in 0..r - 1 /\ 1 \in Nat /\ r \in Nat \ {0}
      BY <1>1, <2>1
    <3>2. (1 * r + (b - r)) % r = b - r
      BY <3>1, Division, ZenonT(60)
    <3>3. 1 * r + (b - r) = b
      BY <1>1
    <3> QED BY <3>2, <3>3
  <2> QED BY <2>1
<1>4. b % r \in 0..r - 1
  BY <1>1, Division
<1> QED BY <1>2, <1>3, <1>4 DEF r

\* A length takes as many bytes as it has digits, and at least one.
LEMMA VarintLenFound ==
    ASSUME NEW n \in Nat, NEW l \in 1..MaxVarint, Left(Radix, n, MaxVarint)[l] = 0
    PROVE  /\ VarintLen(n) \in 1..l /\ VarintLen(n) \in 1..MaxVarint
           /\ Left(Radix, n, MaxVarint)[VarintLen(n)] = 0
<1> DEFINE T == {k \in 1..MaxVarint : Left(Radix, n, MaxVarint)[k] = 0}
<1>1. T \in SUBSET Nat /\ l \in T
  BY Bases
<1>2. VarintLen(n) = Min(T)
  BY DEF VarintLen
<1>3. \A k \in T : k \in 1..MaxVarint /\ Left(Radix, n, MaxVarint)[k] = 0
  OBVIOUS
<1> HIDE DEF T
<1>4. VarintLen(n) \in T /\ VarintLen(n) <= l
  BY <1>1, <1>2, LeastNatural
<1> QED BY <1>3, <1>4, Bases

\* The shape of a varint: the digits of its number, all but the last marked.
LEMMA VarintShape ==
    ASSUME NEW n \in Nat, Fits(Radix, n, MaxVarint)
    PROVE  /\ VarintLen(n) \in 1..MaxVarint
           /\ Left(Radix, n, MaxVarint)[VarintLen(n)] = 0
           /\ Varint(n) \in Seq(Bytes) /\ Len(Varint(n)) = VarintLen(n)
           /\ \A i \in 1..VarintLen(n) :
                 /\ Varint(n)[i] % Radix = Left(Radix, n, MaxVarint)[i - 1] % Radix
                 /\ (Varint(n)[i] < Radix) = (i = VarintLen(n))
<1> DEFINE e == VarintLen(n)
           v == Varint(n)
<1>1. e \in 1..MaxVarint /\ Left(Radix, n, MaxVarint)[e] = 0
  <2>1. MaxVarint \in 1..MaxVarint
    BY Bases
  <2> QED BY <2>1, VarintLenFound DEF Fits
<1>2. v = [i \in 1..e |-> Digits(Radix, n, MaxVarint)[i] + (IF i < e THEN Radix ELSE 0)]
  BY DEF Varint
<1> HIDE DEF e, v
<1>3. ASSUME NEW i \in 1..e
      PROVE  /\ v[i] \in Bytes /\ (v[i] < Radix) = (i = e)
             /\ v[i] % Radix = Left(Radix, n, MaxVarint)[i - 1] % Radix
  <2> DEFINE d == Left(Radix, n, MaxVarint)[i - 1] % Radix
  <2>1. i \in 1..MaxVarint
    BY <1>1, Bases
  <2>2. d \in 0..Radix - 1
    BY <2>1, Bases, LeftStep
  <2>3. Digits(Radix, n, MaxVarint)[i] = d
    BY <2>1 DEF Digits
  <2> HIDE DEF d
  <2>4. v[i] = d + (IF i < e THEN Radix ELSE 0)
    BY <1>2, <2>3
  <2>5. v[i] \in Bytes
    BY <2>2, <2>4, Bases DEF Bytes
  <2>6. (v[i] < Radix) = (i = e)
    BY <1>1, <2>2, <2>4, Bases
  <2>7. v[i] % Radix = d
    BY <2>2, <2>4, <2>5, Bases, ByteDigit
  <2> QED BY <2>5, <2>6, <2>7 DEF d
<1>4. v \in Seq(Bytes) /\ Len(v) = e
  <2>1. \A i \in 1..e : v[i] \in Bytes
    BY <1>3
  <2>2. v = [i \in 1..e |-> v[i]] /\ e \in Nat
    BY <1>1, <1>2
  <2> QED BY <2>1, <2>2, FunctionIsSequence
<1> QED BY <1>1, <1>3, <1>4 DEF e, v

\* A varint that ends with the e-th byte of s.
EndsAt(s, e) == /\ e \in 1..MaxVarint /\ s[e] < Radix
                /\ \A i \in 1..e - 1 : ~(s[i] < Radix)

\* What is read of a varint: its digits up to the first byte without a mark.
LEMMA DecodedEnd ==
    ASSUME NEW s \in Seq(Bytes), Len(s) = MaxVarint, NEW e, EndsAt(s, e)
    PROVE  DecodeVarint(s) = Number(Radix, [i \in 1..e |-> s[i] % Radix])
<1> DEFINE T == {i \in DOMAIN s : s[i] < Radix}
<1>1. DOMAIN s = 1..MaxVarint /\ e \in 1..MaxVarint
  BY DEF EndsAt
<1>2. e \in T /\ T \in SUBSET Nat
  BY <1>1, Bases DEF EndsAt
<1>3. Min(T) = e
  <2>1. Min(T) \in T /\ Min(T) <= e
    <3> HIDE DEF T
    <3>1. T # {}
      BY <1>2
    <3> QED BY <1>2, <3>1, LeastNatural
  <2> DEFINE k == Min(T)
  <2>2. k \in T /\ k <= e
    BY <2>1
  <2> HIDE DEF k
  <2>3. k \in 1..MaxVarint /\ s[k] < Radix
    BY <1>1, <2>2
  <2>4. ~(k \in 1..e - 1)
    BY <2>3 DEF EndsAt
  <2>5. k = e
    BY <1>1, <2>2, <2>3, <2>4, Bases
  <2> QED BY <2>5 DEF k
<1>4. T # {}
  BY <1>2
<1>5. DecodeVarint(s) = IF T = {} THEN -1
                        ELSE Number(Radix, [i \in 1..Min(T) |-> s[i] % Radix])
  BY DEF DecodeVarint
<1> HIDE DEF T
<1> QED BY <1>3, <1>4, <1>5

\* Where there is no such byte there is no varint.
LEMMA DecodedCases ==
    ASSUME NEW s \in Seq(Bytes), Len(s) = MaxVarint
    PROVE  \/ DecodeVarint(s) = -1
           \/ \E e \in 1..MaxVarint : EndsAt(s, e)
<1> DEFINE T == {i \in DOMAIN s : s[i] < Radix}
<1>1. DOMAIN s = 1..MaxVarint
  OBVIOUS
<1>2. CASE T = {}
  BY <1>2 DEF DecodeVarint
<1>3. CASE T # {}
  <2>1. T \in SUBSET Nat
    BY <1>1, Bases
  <2> DEFINE e == Min(T)
  <2>2. e \in T /\ \A y \in T : e <= y
    <3> HIDE DEF T
    <3> QED BY <1>3, <2>1, LeastNatural
  <2> HIDE DEF e
  <2>3. e \in 1..MaxVarint /\ s[e] < Radix
    BY <1>1, <2>2
  <2>4. ASSUME NEW i \in 1..e - 1 PROVE ~(s[i] < Radix)
    <3>1. i \in 1..MaxVarint /\ ~(e <= i)
      BY <2>3, Bases
    <3> QED BY <1>1, <2>2, <3>1
  <2> QED BY <2>3, <2>4 DEF EndsAt
<1> QED BY <1>2, <1>3

\* The digits of the number that has been read.
LEMMA DecodedDigits ==
    ASSUME NEW s \in Seq(Bytes), Len(s) = MaxVarint, NEW e, EndsAt(s, e)
    PROVE  /\ DecodeVarint(s) \in Nat
           /\ Left(Radix, DecodeVarint(s), MaxVarint)[e] = 0
           /\ \A i \in 1..e : s[i] % Radix = Left(Radix, DecodeVarint(s), MaxVarint)[i - 1] % Radix
<1> DEFINE d == [i \in 1..e |-> s[i] % Radix]
<1>1. e \in Nat /\ e <= MaxVarint /\ \A i \in 1..e : i \in 1..MaxVarint
  BY Bases DEF EndsAt
<1>2. \A i \in 1..e : d[i] \in 0..Radix - 1
  <2>1. \A i \in 1..e : s[i] \in Bytes
    BY <1>1, BytesAreNumbers
  <2> QED BY <2>1, ByteDigit
<1>3. d \in Seq(Nat) /\ Len(d) = e
  <2>1. \A i \in 1..e : d[i] \in Nat
    BY <1>2, Bases
  <2>2. d = [i \in 1..e |-> d[i]]
    OBVIOUS
  <2> HIDE DEF d
  <2> QED BY <1>1, <2>1, <2>2, FunctionIsSequence
<1>4. DecodeVarint(s) = Number(Radix, d)
  BY DecodedEnd
<1>5. \A i \in 1..e : d[i] = s[i] % Radix
  OBVIOUS
<1> HIDE DEF d
<1>6. \A i \in 1..Len(d) : d[i] < Radix
  BY <1>2, <1>3, Bases
<1>7. /\ Number(Radix, d) \in Nat /\ Left(Radix, Number(Radix, d), MaxVarint)[Len(d)] = 0
      /\ \A i \in 1..Len(d) : d[i] = Left(Radix, Number(Radix, d), MaxVarint)[i - 1] % Radix
  BY <1>1, <1>3, <1>6, Bases, DigitsOfNumber, ZenonT(60)
<1> QED BY <1>3, <1>4, <1>5, <1>7

\* A whole varint is read as the number it was written for.
LEMMA VarintDecoded ==
    ASSUME NEW n \in Nat, Fits(Radix, n, MaxVarint), NEW s \in Seq(Bytes),
           Len(s) = MaxVarint, \A i \in 1..VarintLen(n) : s[i] = Varint(n)[i]
    PROVE  DecodeVarint(s) = n
<1> DEFINE e == VarintLen(n)
           d == [i \in 1..e |-> s[i] % Radix]
<1>1. /\ e \in 1..MaxVarint /\ Left(Radix, n, MaxVarint)[e] = 0
      /\ \A i \in 1..e : /\ s[i] % Radix = Left(Radix, n, MaxVarint)[i - 1] % Radix
                         /\ (s[i] < Radix) = (i = e)
  BY VarintShape
<1> HIDE DEF e
<1>2. EndsAt(s, e)
  <2>1. s[e] < Radix
    BY <1>1, Bases
  <2>2. \A i \in 1..e - 1 : i \in 1..e /\ i # e
    BY <1>1, Bases
  <2> QED BY <1>1, <2>1, <2>2 DEF EndsAt
<1>3. DecodeVarint(s) = Number(Radix, d)
  BY <1>2, DecodedEnd
<1>4. e \in Nat /\ e <= MaxVarint
  BY <1>1, Bases
<1>5. \A i \in 1..e : i \in 1..MaxVarint /\ s[i] % Radix \in Nat
  <2>1. \A i \in 1..e : i \in 1..MaxVarint
    BY <1>1, Bases
  <2>2. \A i \in 1..e : s[i] \in Bytes
    BY <2>1, BytesAreNumbers
  <2>3. \A i \in 1..e : s[i] % Radix \in 0..Radix - 1
    BY <2>2, ByteDigit
  <2> QED BY <2>1, <2>3, Bases
<1>6. d \in Seq(Nat) /\ Len(d) = e
  <2>1. \A i \in 1..e : d[i] \in Nat
    BY <1>5
  <2>2. d = [i \in 1..e |-> d[i]]
    OBVIOUS
  <2> HIDE DEF d
  <2> QED BY <1>4, <2>1, <2>2, FunctionIsSequence
<1>7. \A i \in 1..e : d[i] = Left(Radix, n, MaxVarint)[i - 1] % Radix
  BY <1>1
<1> HIDE DEF d
<1>8. Number(Radix, d) = n
  <2>1. /\ Len(d) <= MaxVarint /\ Left(Radix, n, MaxVarint)[Len(d)] = 0
        /\ \A i \in 1..Len(d) : d[i] = Left(Radix, n, MaxVarint)[i - 1] % Radix
    BY <1>1, <1>4, <1>6, <1>7
  <2>2. Radix \in Nat \ {0, 1} /\ MaxVarint \in Nat
    BY Bases
  <2> QED BY <1>6, <2>1, <2>2, NumberOfDigits
<1> QED BY <1>3, <1>8

\* Only digits that are 0 are given back of a varint that has been read.
LEMMA DecodedGivesBack ==
    ASSUME NEW s \in Seq(Bytes), Len(s) = MaxVarint, NEW e, EndsAt(s, e)
    PROVE  /\ VarintLen(DecodeVarint(s)) \in 1..e
           /\ VarintLen(DecodeVarint(s)) \in 1..MaxVarint
           /\ \A i \in VarintLen(DecodeVarint(s)) + 1..e : s[i] % Radix = 0
<1> DEFINE v == DecodeVarint(s)
           l == VarintLen(v)
<1>1. /\ v \in Nat /\ Left(Radix, v, MaxVarint)[e] = 0
      /\ \A i \in 1..e : s[i] % Radix = Left(Radix, v, MaxVarint)[i - 1] % Radix
  BY DecodedDigits
<1>2. e \in 1..MaxVarint
  BY DEF EndsAt
<1> HIDE DEF v
<1>3. l \in 1..e /\ l \in 1..MaxVarint /\ Left(Radix, v, MaxVarint)[l] = 0
  BY <1>1, <1>2, VarintLenFound
<1> HIDE DEF l
<1>4. \A i \in l..MaxVarint : Left(Radix, v, MaxVarint)[i] = 0
  <2>1. l \in 0..MaxVarint
    BY <1>3, Bases
  <2> QED BY <1>1, <1>3, <2>1, Bases, NothingLeft
<1>5. ASSUME NEW i \in l + 1..e PROVE s[i] % Radix = 0
  <2>1. i \in 1..e /\ i - 1 \in l..MaxVarint
    BY <1>2, <1>3, Bases
  <2>2. Left(Radix, v, MaxVarint)[i - 1] = 0
    BY <1>4, <2>1
  <2>3. 0 % Radix = 0
    BY Bases
  <2> QED BY <1>1, <2>1, <2>2, <2>3
<1> QED BY <1>3, <1>5 DEF l, v

\* A varint of zeros is 0.
LEMMA DecodedBlank ==
    ASSUME NEW s \in Seq(Bytes), Len(s) = MaxVarint, \A i \in 1..MaxVarint : s[i] % Radix = 0
    PROVE  DecodeVarint(s) \in {-1, 0}
<1>1. ASSUME NEW e \in 1..MaxVarint, EndsAt(s, e) PROVE DecodeVarint(s) = 0
  <2> DEFINE d == [i \in 1..e |-> s[i] % Radix]
  <2>1. e \in Nat /\ e <= MaxVarint /\ \A i \in 1..e : i \in 1..MaxVarint
    BY Bases
  <2>2. \A i \in 1..e : d[i] = 0
    BY <2>1
  <2>3. d \in Seq(Nat) /\ Len(d) = e
    <3>1. d = [i \in 1..e |-> d[i]] /\ \A i \in 1..e : d[i] \in Nat
      BY <2>2
    <3> HIDE DEF d
    <3> QED BY <2>1, <3>1, FunctionIsSequence
  <2>4. DecodeVarint(s) = Number(Radix, d)
    BY <1>1, DecodedEnd
  <2>5. \A i \in 0..MaxVarint : Left(Radix, 0, MaxVarint)[i] = 0
    <3>1. 0 \in 0..MaxVarint /\ 0 \in Nat
      BY Bases
    <3>2. Left(Radix, 0, MaxVarint)[0] = 0
      BY <3>1, Bases, LeftFound DEF IsLeft
    <3> QED BY <3>1, <3>2, Bases, NothingLeft
  <2>6. \A i \in 1..Len(d) : d[i] = Left(Radix, 0, MaxVarint)[i - 1] % Radix
    <3>1. \A i \in 1..e : i - 1 \in 0..MaxVarint
      BY <2>1, Bases
    <3>2. 0 % Radix = 0
      BY Bases
    <3> HIDE DEF d
    <3> QED BY <2>2, <2>3, <2>5, <3>1, <3>2
  <2>7. Left(Radix, 0, MaxVarint)[Len(d)] = 0
    <3>1. e \in 0..MaxVarint
      BY <2>1, Bases
    <3> QED BY <2>3, <2>5, <3>1
  <2> HIDE DEF d
  <2>8. Number(Radix, d) = 0
    <3>1. 0 \in Nat /\ Len(d) <= MaxVarint
      BY <2>1, <2>3
    <3>2. Radix \in Nat \ {0, 1} /\ MaxVarint \in Nat
      BY Bases
    <3> QED BY <2>3, <2>6, <2>7, <3>1, <3>2, NumberOfDigits
  <2> QED BY <2>4, <2>8
<1> QED BY <1>1, DecodedCases

-----------------------------------------------------------------------------
\* Numbers of fixed length are read as they were written.
LEMMA LittleEndianRead ==
    ASSUME NEW n \in Nat, Fits(Byte, n, CountBytes)
    PROVE  /\ LittleEndian(n) \in Seq(Bytes) /\ Len(LittleEndian(n)) = CountBytes
           /\ FromLittleEndian(LittleEndian(n)) = n
<1> DEFINE d == LittleEndian(n)
<1>1. d = [i \in 1..CountBytes |-> Left(Byte, n, CountBytes)[i - 1] % Byte]
  BY DEF LittleEndian, Digits
<1> HIDE DEF d
<1>2. \A i \in 1..CountBytes : d[i] = Left(Byte, n, CountBytes)[i - 1] % Byte /\ d[i] \in Bytes
  BY <1>1, Bases, LeftStep DEF Bytes
<1>3. d \in Seq(Bytes) /\ Len(d) = CountBytes
  <2>1. d = [i \in 1..CountBytes |-> d[i]] /\ CountBytes \in Nat
    BY <1>1, Bases
  <2> QED BY <1>2, <2>1, FunctionIsSequence
<1>4. d \in Seq(Nat)
  BY <1>3, BytesAreNumbers
<1>5. Number(Byte, d) = n
  <2>1. /\ Len(d) <= CountBytes /\ Left(Byte, n, CountBytes)[Len(d)] = 0
        /\ \A i \in 1..Len(d) : d[i] = Left(Byte, n, CountBytes)[i - 1] % Byte
    BY <1>2, <1>3, Bases DEF Fits
  <2>2. Byte \in Nat \ {0, 1} /\ CountBytes \in Nat
    BY Bases
  <2> QED BY <1>4, <2>1, <2>2, NumberOfDigits
<1> QED BY <1>3, <1>5 DEF d, FromLittleEndian

\* Whatever bytes are read as a number are one.
LEMMA FromLittleEndianType ==
    ASSUME NEW s \in Seq(Bytes)
    PROVE  FromLittleEndian(s) \in Nat
<1>1. s \in Seq(Nat)
  BY BytesAreNumbers
<1>2. \A i \in 1..Len(s) : s[i] < Byte
  <2>1. \A i \in 1..Len(s) : s[i] \in Bytes
    BY BytesAreNumbers
  <2> QED BY <2>1, Bases DEF Bytes
<1>3. Len(s) \in Nat /\ Len(s) <= Len(s)
  OBVIOUS
<1> QED BY <1>1, <1>2, <1>3, Bases, DigitsOfNumber DEF FromLittleEndian

-----------------------------------------------------------------------------
(***************************************************************************)
(* Messages, chunks and files.                                             *)
(***************************************************************************)

\* What is left of s behind its first n bytes.
LEMMA RestShape ==
    ASSUME NEW s \in Seq(Bytes), NEW n \in Nat
    PROVE  /\ Rest(s, n) \in Seq(Bytes)
           /\ Len(Rest(s, n)) = IF n <= Len(s) THEN Len(s) - n ELSE 0
           /\ \A i \in 1..Len(Rest(s, n)) : Rest(s, n)[i] = s[n + i]
<1>1. \A i \in n + 1..Len(s) : s[i] \in Bytes
  BY BytesAreNumbers
<1>2. n + 1 \in Int /\ Len(s) \in Int
  OBVIOUS
<1> DEFINE r == SubSeq(s, n + 1, Len(s))
<1>3. /\ r \in Seq(Bytes) /\ Len(r) = IF n + 1 <= Len(s) THEN Len(s) - (n + 1) + 1 ELSE 0
      /\ \A i \in 1..Len(s) - (n + 1) + 1 : r[i] = s[n + 1 + i - 1]
  BY <1>1, <1>2, SubSeqProperties
<1>4. r = Rest(s, n)
  BY DEF Rest
<1> HIDE DEF r
<1>5. Len(r) = IF n <= Len(s) THEN Len(s) - n ELSE 0
  BY <1>2, <1>3
<1>6. ASSUME NEW i \in 1..Len(r) PROVE r[i] = s[n + i]
  <2>1. i \in 1..Len(s) - (n + 1) + 1 /\ n + 1 + i - 1 = n + i
    BY <1>2, <1>5
  <2> QED BY <1>3, <2>1
<1> QED BY <1>3, <1>4, <1>5, <1>6

\* The first n bytes of s, or all of it.
LEMMA FirstShape ==
    ASSUME NEW s \in Seq(Bytes), NEW n \in Nat
    PROVE  /\ First(s, n) \in Seq(Bytes)
           /\ Len(First(s, n)) = IF n <= Len(s) THEN n ELSE Len(s)
           /\ \A i \in 1..Len(First(s, n)) : First(s, n)[i] = s[i]
<1> DEFINE e == Min({n, Len(s)})
<1>1. e = (IF n <= Len(s) THEN n ELSE Len(s)) /\ Len(s) \in Nat
  BY MinOfTwo
<1>2. First(s, n) = SubSeq(s, 1, e)
  BY DEF First
<1> HIDE DEF e
<1>3. e \in Nat /\ e <= Len(s)
  BY <1>1
<1>4. \A i \in 1..e : s[i] \in Bytes
  BY <1>3, BytesAreNumbers
<1>5. /\ SubSeq(s, 1, e) \in Seq(Bytes) /\ Len(SubSeq(s, 1, e)) = IF 1 <= e THEN e - 1 + 1 ELSE 0
      /\ \A i \in 1..e - 1 + 1 : SubSeq(s, 1, e)[i] = s[1 + i - 1]
  <2>1. 1 \in Int /\ e \in Int
    BY <1>3
  <2> QED BY <1>4, <2>1, SubSeqProperties
<1> DEFINE r == SubSeq(s, 1, e)
<1>6. Len(r) = e
  BY <1>3, <1>5
<1>7. ASSUME NEW i \in 1..e PROVE r[i] = s[i]
  <2>1. i \in 1..e - 1 + 1 /\ 1 + i - 1 = i
    BY <1>3
  <2>2. r[i] = s[1 + i - 1]
    BY <1>5, <2>1
  <2> HIDE DEF r
  <2> QED BY <2>1, <2>2
<1>8. r \in Seq(Bytes)
  BY <1>5
<1> HIDE DEF r
<1>9. Len(r) = IF n <= Len(s) THEN n ELSE Len(s)
  BY <1>1, <1>6
<1>10. \A i \in 1..Len(r) : r[i] = s[i]
  BY <1>6, <1>7
<1> QED BY <1>2, <1>8, <1>9, <1>10 DEF r

\* A buffer of zeros with what there is of s.
LEMMA BufferShape ==
    ASSUME NEW s \in Seq(Bytes), NEW n \in Nat
    PROVE  /\ Buffer(s, n) \in Seq(Bytes) /\ Len(Buffer(s, n)) = n
           /\ \A i \in 1..n : Buffer(s, n)[i] = IF i <= Len(s) THEN s[i] ELSE 0
<1> DEFINE r == Buffer(s, n)
<1>1. r = [i \in 1..n |-> IF i <= Len(s) THEN s[i] ELSE 0]
  BY DEF Buffer
<1>2. \A i \in 1..n : i <= Len(s) => s[i] \in Bytes
  BY BytesAreNumbers
<1> HIDE DEF r
<1>3. \A i \in 1..n : r[i] = IF i <= Len(s) THEN s[i] ELSE 0
  BY <1>1
<1>4. \A i \in 1..n : r[i] \in Bytes
  BY <1>2, <1>3, Bases
<1>5. r = [i \in 1..n |-> r[i]]
  BY <1>1
<1>6. r \in Seq(Bytes) /\ Len(r) = n
  BY <1>4, <1>5, FunctionIsSequence
<1> QED BY <1>3, <1>6 DEF r

\* Joined bytes.
LEMMA JoinShape ==
    ASSUME NEW s \in Seq(Bytes), NEW t \in Seq(Bytes)
    PROVE  /\ s \o t \in Seq(Bytes) /\ Len(s \o t) = Len(s) + Len(t)
           /\ \A i \in 1..Len(s) : (s \o t)[i] = s[i]
           /\ \A i \in 1..Len(t) : (s \o t)[Len(s) + i] = t[i]
<1>1. /\ s \o t \in Seq(Bytes) /\ Len(s \o t) = Len(s) + Len(t)
      /\ \A i \in 1..Len(s) + Len(t) :
             (s \o t)[i] = IF i <= Len(s) THEN s[i] ELSE t[i - Len(s)]
  BY ConcatProperties
<1> DEFINE j == s \o t
<1>2. /\ j \in Seq(Bytes) /\ Len(j) = Len(s) + Len(t)
      /\ \A i \in 1..Len(s) + Len(t) : j[i] = IF i <= Len(s) THEN s[i] ELSE t[i - Len(s)]
  BY <1>1
<1> HIDE DEF j
<1>3. \A i \in 1..Len(s) : j[i] = s[i]
  <2>1. \A i \in 1..Len(s) : i \in 1..Len(s) + Len(t) /\ i <= Len(s)
    OBVIOUS
  <2> QED BY <1>2, <2>1
<1>4. ASSUME NEW i \in 1..Len(t) PROVE j[Len(s) + i] = t[i]
  <2>1. /\ Len(s) + i \in 1..Len(s) + Len(t) /\ ~(Len(s) + i <= Len(s))
        /\ (Len(s) + i) - Len(s) = i
    OBVIOUS
  <2>2. j[Len(s) + i] = t[(Len(s) + i) - Len(s)]
    BY <1>2, <2>1
  <2> QED BY <2>1, <2>2
<1> QED BY <1>2, <1>3, <1>4 DEF j

\* Halves of positions: odd ones hold tags, even ones values.
LEMMA Parity ==
    /\ \A k \in Nat : (2 * k) % 2 = 0 /\ (2 * k) \div 2 = k
    /\ \A i \in Nat : i % 2 \in {0, 1} /\ i = 2 * (i \div 2) + (i % 2) /\ i \div 2 \in Nat
OBVIOUS

\* An encoded message is decodable, and decoding gives the message.
LEMMA EncodeShape ==
    ASSUME NEW m \in Seq(Bytes)
    PROVE  /\ Encode(m) \in Seq(Bytes) /\ Len(Encode(m)) = 2 * Len(m)
           /\ Decodable(Encode(m)) /\ Decode(Encode(m)) = m
<1> DEFINE b == Encode(m)
           n == 2 * Len(m)
<1>1. b = [i \in 1..n |-> IF i % 2 = 1 THEN 1 ELSE m[i \div 2]]
  BY DEF Encode, Tag
<1>2. n \in Nat /\ Len(m) \in Nat /\ n % 2 = 0 /\ n \div 2 = Len(m)
  BY Parity
<1> HIDE DEF b
<1>3. \A i \in 1..n : b[i] = IF i % 2 = 1 THEN 1 ELSE m[i \div 2]
  BY <1>1
<1>4. ASSUME NEW i \in 1..n PROVE b[i] \in Bytes
  <2>1. 1 \in Bytes
    BY Bases DEF Bytes
  <2>2. CASE i % 2 = 1
    BY <1>3, <2>1, <2>2
  <2>3. CASE ~(i % 2 = 1)
    <3>1. i \div 2 \in 1..Len(m)
      BY <2>3, Parity
    <3> HIDE DEF n
    <3> QED BY <1>3, <2>3, <3>1, BytesAreNumbers
  <2> QED BY <2>2, <2>3
<1> HIDE DEF n
<1>5. b \in Seq(Bytes) /\ Len(b) = n
  <2>1. b = [i \in 1..n |-> b[i]]
    BY <1>1
  <2> QED BY <1>2, <1>4, <2>1, FunctionIsSequence
<1>6. Decodable(b)
  <2>1. DOMAIN b = 1..n
    BY <1>1
  <2>2. \A i \in 1..n : i % 2 = 1 => b[i] # 0
    BY <1>3
  <2> QED BY <1>2, <1>5, <2>1, <2>2 DEF Decodable
<1>7. Decode(b) = m
  <2> DEFINE d == Decode(b)
  <2>1. d = [k \in 1..Len(m) |-> b[2 * k]]
    BY <1>2, <1>5 DEF Decode
  <2> HIDE DEF d
  <2>2. ASSUME NEW k \in 1..Len(m) PROVE d[k] = m[k]
    <3>1. 2 * k \in 1..n /\ (2 * k) % 2 = 0 /\ (2 * k) \div 2 = k
      BY Parity DEF n
    <3>2. b[2 * k] = m[k]
      BY <1>3, <3>1
    <3> QED BY <2>1, <3>2
  <2>3. \A k \in 1..Len(m) : d[k] \in Bytes
    BY <2>2, BytesAreNumbers
  <2>4. d = [k \in 1..Len(m) |-> d[k]]
    BY <2>1
  <2>5. d \in Seq(Bytes) /\ Len(d) = Len(m)
    BY <1>2, <2>3, <2>4, FunctionIsSequence
  <2>6. d = m
    BY <2>2, <2>5, SeqEqual
  <2> QED BY <2>6 DEF d
<1> QED BY <1>5, <1>6, <1>7 DEF b, n

\* What is decoded are bytes.
LEMMA DecodeType ==
    ASSUME NEW b \in Seq(Bytes)
    PROVE  Decode(b) \in Seq(Bytes)
<1> DEFINE l == Len(b) \div 2
<1>1. l \in Nat /\ \A k \in 1..l : 2 * k \in 1..Len(b)
  BY Parity
<1> HIDE DEF l
<1>2. \A k \in 1..l : b[2 * k] \in Bytes
  BY <1>1, BytesAreNumbers
<1> QED BY <1>1, <1>2 DEF Decode, l

\* The messages of a graph: those of its nodes, then the metadata.
Msg(g, j) == IF j <= Len(g.nodes) THEN g.nodes[j] ELSE g.meta

\* Graphs consist of bytes, and their lengths and numbers fit.
LEMMA GraphTypes ==
    ASSUME NEW g \in Graphs
    PROVE  /\ Len(g.nodes) \in Nat /\ Fits(Byte, Len(g.nodes), CountBytes)
           /\ \A j \in 1..Len(g.nodes) + 1 :
                 /\ Msg(g, j) \in Seq(Bytes) /\ Fits(Radix, 2 * Len(Msg(g, j)), MaxVarint)
                 /\ j <= Len(g.nodes) => Msg(g, j) # <<>> /\ Msg(g, j) = g.nodes[j]
           /\ g.meta = Msg(g, Len(g.nodes) + 1)
<1>1. g.nodes \in Seq(Seq(Bytes) \ {<<>>}) /\ g.meta \in Seq(Bytes)
  BY StorageAssumption
<1>2. /\ Fits(Byte, Len(g.nodes), CountBytes) /\ Fits(Radix, 2 * Len(g.meta), MaxVarint)
      /\ \A k \in DOMAIN g.nodes : Fits(Radix, 2 * Len(g.nodes[k]), MaxVarint)
  BY StorageAssumption
<1> DEFINE n == Len(g.nodes)
<1>3. n \in Nat /\ DOMAIN g.nodes = 1..n
  BY <1>1
<1>4. \A j \in 1..n : g.nodes[j] \in Seq(Bytes) \ {<<>>}
  BY <1>1, ElementOfSeq
<1> HIDE DEF n
<1>5. ASSUME NEW j \in 1..n + 1
      PROVE  /\ Msg(g, j) \in Seq(Bytes) /\ Fits(Radix, 2 * Len(Msg(g, j)), MaxVarint)
             /\ j <= n => Msg(g, j) # <<>> /\ Msg(g, j) = g.nodes[j]
  <2>1. CASE j <= n
    <3>1. j \in 1..n /\ Msg(g, j) = g.nodes[j]
      BY <1>3, <2>1 DEF Msg, n
    <3>2. g.nodes[j] \in Seq(Bytes) /\ g.nodes[j] # <<>>
      BY <1>4, <3>1
    <3> QED BY <1>2, <1>3, <3>1, <3>2
  <2>2. CASE ~(j <= n)
    <3>1. Msg(g, j) = g.meta
      BY <2>2 DEF Msg, n
    <3> QED BY <1>1, <1>2, <2>2, <3>1
  <2> QED BY <2>1, <2>2
<1>6. g.meta = Msg(g, n + 1)
  BY <1>3 DEF Msg, n
<1> QED BY <1>2, <1>3, <1>5, <1>6 DEF n

\* A message behind its length.
LEMMA DelimitedShape ==
    ASSUME NEW m \in Seq(Bytes), Fits(Radix, 2 * Len(m), MaxVarint)
    PROVE  /\ 2 * Len(m) \in Nat
           /\ Delimited(m) \in Seq(Bytes)
           /\ Len(Delimited(m)) = VarintLen(2 * Len(m)) + 2 * Len(m)
           /\ \A i \in 1..VarintLen(2 * Len(m)) : Delimited(m)[i] = Varint(2 * Len(m))[i]
           /\ \A i \in 1..2 * Len(m) : Delimited(m)[VarintLen(2 * Len(m)) + i] = Encode(m)[i]
<1> DEFINE n == 2 * Len(m)
           v == Varint(n)
           b == Encode(m)
<1>1. n \in Nat
  OBVIOUS
<1>2. b \in Seq(Bytes) /\ Len(b) = n
  BY EncodeShape
<1>3. Delimited(m) = v \o b
  BY <1>2 DEF Delimited
<1> HIDE DEF n, b
<1>4. v \in Seq(Bytes) /\ Len(v) = VarintLen(n)
  BY <1>1, VarintShape DEF n
<1> HIDE DEF v
<1>5. /\ v \o b \in Seq(Bytes) /\ Len(v \o b) = Len(v) + Len(b)
      /\ \A i \in 1..Len(v) : (v \o b)[i] = v[i]
      /\ \A i \in 1..Len(b) : (v \o b)[Len(v) + i] = b[i]
  BY <1>2, <1>4, JoinShape
<1>6. /\ Delimited(m) \in Seq(Bytes) /\ Len(Delimited(m)) = VarintLen(n) + n
      /\ \A i \in 1..VarintLen(n) : Delimited(m)[i] = v[i]
      /\ \A i \in 1..n : Delimited(m)[VarintLen(n) + i] = b[i]
  BY <1>2, <1>3, <1>4, <1>5
<1> QED BY <1>1, <1>6 DEF n, v, b

\* The bytes of a number of fixed length.
LEMMA LittleEndianType ==
    ASSUME NEW n \in Nat
    PROVE  LittleEndian(n) \in Seq(Bytes)
<1> DEFINE d == LittleEndian(n)
<1>1. d = [i \in 1..CountBytes |-> Left(Byte, n, CountBytes)[i - 1] % Byte]
  BY DEF LittleEndian, Digits
<1> HIDE DEF d
<1>2. \A i \in 1..CountBytes : d[i] \in Bytes
  BY <1>1, Bases, LeftStep DEF Bytes
<1>3. d = [i \in 1..CountBytes |-> d[i]] /\ CountBytes \in Nat
  BY <1>1, Bases
<1>4. d \in Seq(Bytes)
  BY <1>2, <1>3, FunctionIsSequence
<1> QED BY <1>4 DEF d

\* What each chunk is.
LEMMA ChunkCases ==
    ASSUME NEW g \in Graphs, NEW p
    PROVE  /\ Chunk(g, 1, p) = Magic /\ Chunk(g, 2, p) = LittleEndian(Len(g.nodes))
           /\ \A j \in 1..Len(g.nodes) + 1 : Chunk(g, 2 + j, p) = Delimited(Msg(g, j))
           /\ Chunk(g, Chunks(g), p) = LittleEndian(p)
<1> DEFINE n == Len(g.nodes)
<1>1. n \in Nat
  BY GraphTypes
<1> HIDE DEF n
<1>2. Chunk(g, 1, p) = Magic /\ Chunk(g, 2, p) = LittleEndian(n)
  BY <1>1 DEF Chunk, n
<1>3. ASSUME NEW j \in 1..n + 1 PROVE Chunk(g, 2 + j, p) = Delimited(Msg(g, j))
  <2>1. CASE j <= n
    <3>1. /\ 2 + j # 1 /\ 2 + j # 2 /\ 2 + j > 2 /\ 2 + j <= 2 + n /\ (2 + j) - 2 = j
          /\ 2 + j # 3 + n /\ 2 + j # 4 + n
      BY <1>1, <2>1
    <3>2. Chunk(g, 2 + j, p) = Delimited(g.nodes[(2 + j) - 2])
      BY <3>1 DEF Chunk, n
    <3> QED BY <2>1, <3>1, <3>2 DEF Msg, n
  <2>2. CASE ~(j <= n)
    <3>1. j = n + 1
      BY <1>1, <2>2
    <3>2. Chunk(g, 3 + n, p) = Delimited(g.meta)
      <4>1. 3 + n # 1 /\ 3 + n # 2 /\ ~(3 + n <= 2 + n) /\ 3 + n # 4 + n
        BY <1>1
      <4> QED BY <4>1 DEF Chunk, n
    <3>3. 2 + j = 3 + n
      BY <1>1, <3>1
    <3> QED BY <2>2, <3>2, <3>3 DEF Msg, n
  <2> QED BY <2>1, <2>2
<1>4. Chunk(g, 4 + n, p) = LittleEndian(p)
  <2>1. 4 + n # 1 /\ 4 + n # 2 /\ ~(4 + n <= 2 + n) /\ 4 + n # 3 + n
    BY <1>1
  <2> QED BY <2>1 DEF Chunk, n
<1> QED BY <1>2, <1>3, <1>4 DEF n, Chunks

\* Which chunk it is.
LEMMA ChunkNumbers ==
    ASSUME NEW g \in Graphs, NEW k \in 1..Chunks(g)
    PROVE  k = 1 \/ k = 2 \/ k = Chunks(g) \/ \E j \in 1..Len(g.nodes) + 1 : k = 2 + j
<1> DEFINE n == Len(g.nodes)
<1>1. n \in Nat /\ k \in 1..4 + n
  BY GraphTypes DEF Chunks
<1> HIDE DEF n
<1>2. ASSUME k # 1, k # 2, k # 4 + n PROVE \E j \in 1..n + 1 : k = 2 + j
  <2>1. k - 2 \in 1..n + 1 /\ k = 2 + (k - 2)
    BY <1>1, <1>2
  <2> QED BY <2>1
<1> QED BY <1>2 DEF Chunks, n

\* Chunks are bytes.
LEMMA ChunkType ==
    ASSUME NEW g \in Graphs, NEW p \in Nat, NEW k \in 1..Chunks(g)
    PROVE  Chunk(g, k, p) \in Seq(Bytes)
<1>1. Chunk(g, 1, p) \in Seq(Bytes)
  BY ChunkCases, StorageAssumption
<1>2. Chunk(g, 2, p) \in Seq(Bytes)
  BY ChunkCases, GraphTypes, LittleEndianType, ZenonT(60)
<1>3. Chunk(g, Chunks(g), p) \in Seq(Bytes)
  BY ChunkCases, LittleEndianType
<1>4. \A j \in 1..Len(g.nodes) + 1 : Chunk(g, 2 + j, p) \in Seq(Bytes)
  <2> TAKE j \in 1..Len(g.nodes) + 1
  <2>1. Msg(g, j) \in Seq(Bytes) /\ Fits(Radix, 2 * Len(Msg(g, j)), MaxVarint)
    BY GraphTypes
  <2>2. Delimited(Msg(g, j)) \in Seq(Bytes)
    BY <2>1, DelimitedShape
  <2> QED BY <2>2, ChunkCases
<1> QED BY <1>1, <1>2, <1>3, <1>4, ChunkNumbers

-----------------------------------------------------------------------------
\* The chunks one after the other.
IsUpTo(f, g, p) == /\ f[0] = <<>>
                   /\ \A k \in 1..Chunks(g) : f[k] = f[k - 1] \o Chunk(g, k, p)

\* UpTo joins the chunks.
LEMMA UpToFound ==
    ASSUME NEW g \in Graphs, NEW p \in Nat
    PROVE  /\ IsUpTo(UpTo(g, p), g, p)
           /\ \A k \in 0..Chunks(g) : UpTo(g, p)[k] \in Seq(Bytes)
<1> DEFINE N == Chunks(g)
           c(k) == IF k = 0 THEN <<>> ELSE Chunk(g, k, p)
           step == [t \in (0..N) \X Seq(Bytes) |-> t[2] \o c(t[1])]
<1>0. N \in Nat
  BY GraphTypes DEF Chunks
<1> HIDE DEF N
<1>1. \A k \in 0..N : c(k) \in Seq(Bytes)
  <2>1. \A k \in 1..N : Chunk(g, k, p) \in Seq(Bytes)
    BY ChunkType DEF N
  <2>2. <<>> \in Seq(Bytes)
    OBVIOUS
  <2> QED BY <1>0, <2>1, <2>2
<1>2. \A k \in 1..N : c(k) = Chunk(g, k, p)
  BY <1>0
<1> HIDE DEF c
<1>3. step \in [(0..N) \X Seq(Bytes) -> Seq(Bytes)]
  <2>1. \A k \in 0..N, s \in Seq(Bytes) : s \o c(k) \in Seq(Bytes)
    BY <1>1, JoinShape
  <2> QED BY <2>1
<1>4. PICK f \in [0..N -> Seq(Bytes)] : f[0] = <<>> /\ \A k \in 1..N : f[k] = f[k - 1] \o c(k)
  <2>1. PICK f \in [0..N -> Seq(Bytes)] : Iterates(f, N, <<>>, step)
    <3>1. <<>> \in Seq(Bytes)
      OBVIOUS
    <3> HIDE DEF step
    <3> QED BY <1>0, <1>3, <3>1, Recursion
  <2>2. ASSUME NEW k \in 1..N PROVE f[k] = f[k - 1] \o c(k)
    <3>1. k - 1 \in 0..N /\ k \in 0..N
      BY <1>0
    <3>2. f[k - 1] \in Seq(Bytes)
      BY <3>1
    <3>3. step[<<k, f[k - 1]>>] = f[k - 1] \o c(k)
      BY <3>1, <3>2
    <3>4. f[k] = step[<<k, f[k - 1]>>]
      BY <2>1 DEF Iterates
    <3> QED BY <3>3, <3>4
  <2>3. f[0] = <<>>
    BY <2>1 DEF Iterates
  <2> QED BY <2>2, <2>3
<1> HIDE DEF step
<1> DEFINE Fix(h) == h = [k \in 0..N |-> IF k = 0 THEN <<>> ELSE h[k - 1] \o Chunk(g, k, p)]
           upTo == CHOOSE h : Fix(h)
<1>5. UpTo(g, p) = upTo
  BY DEF UpTo, N
<1>6. Fix(f)
  <2>1. \A k \in 0..N : f[k] = IF k = 0 THEN <<>> ELSE f[k - 1] \o Chunk(g, k, p)
    <3> TAKE k \in 0..N
    <3>1. CASE k = 0
      BY <1>4, <3>1, Zenon
    <3>2. CASE k # 0
      <4>1. k \in 1..N
        BY <1>0, <3>2
      <4>2. f[k] = f[k - 1] \o c(k) /\ c(k) = Chunk(g, k, p)
        BY <1>2, <1>4, <4>1
      <4>3. f[k] = f[k - 1] \o Chunk(g, k, p)
        BY <4>2, Zenon
      <4> QED BY <3>2, <4>3, Zenon
    <3> QED BY <3>1, <3>2
  <2>2. f = [k \in 0..N |-> f[k]]
    OBVIOUS
  <2> QED BY <2>1, <2>2
<1> HIDE DEF Fix
<1>7. Fix(upTo)
  BY <1>6
<1> HIDE DEF upTo
<1>8. \A k \in 0..N : upTo[k] = IF k = 0 THEN <<>> ELSE upTo[k - 1] \o Chunk(g, k, p)
  BY <1>7 DEF Fix
<1>9. upTo[0] = <<>> /\ \A k \in 1..N : upTo[k] = upTo[k - 1] \o Chunk(g, k, p)
  <2>1. 0 \in 0..N /\ \A k \in 1..N : k \in 0..N /\ k # 0
    BY <1>0
  <2>2. upTo[0] = <<>>
    BY <1>8, <2>1, Zenon
  <2>3. \A k \in 1..N : upTo[k] = upTo[k - 1] \o Chunk(g, k, p)
    BY <1>8, <2>1, Zenon
  <2> QED BY <2>2, <2>3
<1> DEFINE T == {k \in 0..N : upTo[k] \in Seq(Bytes)}
<1>10. 0 \in T
  <2>1. <<>> \in Seq(Bytes)
    OBVIOUS
  <2>2. 0 \in 0..N
    BY <1>0
  <2> QED BY <1>9, <2>1, <2>2, Zenon
<1>11. ASSUME NEW k \in 0..N - 1, k \in T PROVE k + 1 \in T
  <2>1. k + 1 \in 1..N /\ k + 1 \in 0..N /\ (k + 1) - 1 = k
    BY <1>0
  <2>2. upTo[k + 1] = upTo[k] \o Chunk(g, k + 1, p)
    BY <1>9, <2>1
  <2>3. Chunk(g, k + 1, p) \in Seq(Bytes)
    BY <2>1, ChunkType DEF N
  <2>4. upTo[k] \in Seq(Bytes)
    BY <1>11
  <2>5. upTo[k + 1] \in Seq(Bytes)
    BY <2>2, <2>3, <2>4, JoinShape
  <2> QED BY <2>1, <2>5
<1>12. \A k \in 0..N : k \in T
  <2> HIDE DEF T
  <2> QED BY <1>0, <1>10, <1>11, Induction
<1> QED BY <1>5, <1>9, <1>12 DEF IsUpTo, N

\* The offset does not matter for what is before it.
LEMMA UpToSame ==
    ASSUME NEW g \in Graphs, NEW p \in Nat, NEW q \in Nat, NEW k \in 0..3 + Len(g.nodes)
    PROVE  UpTo(g, p)[k] = UpTo(g, q)[k]
<1> DEFINE n == Len(g.nodes)
           N == 3 + n
           T == {i \in 0..N : UpTo(g, p)[i] = UpTo(g, q)[i]}
<1>0. n \in Nat /\ N \in Nat /\ Chunks(g) = N + 1
  BY GraphTypes DEF Chunks
<1>1. 0 \in T
  BY <1>0, UpToFound DEF IsUpTo
<1> HIDE DEF n
<1>2. ASSUME NEW i \in 0..N - 1, i \in T PROVE i + 1 \in T
  <2>1. i + 1 \in 1..Chunks(g) /\ i + 1 \in 0..N /\ (i + 1) - 1 = i /\ i + 1 # Chunks(g)
    BY <1>0
  <2>2. /\ UpTo(g, p)[i + 1] = UpTo(g, p)[(i + 1) - 1] \o Chunk(g, i + 1, p)
        /\ UpTo(g, q)[i + 1] = UpTo(g, q)[(i + 1) - 1] \o Chunk(g, i + 1, q)
    BY <2>1, UpToFound DEF IsUpTo
  <2>3. Chunk(g, i + 1, p) = Chunk(g, i + 1, q)
    <3>1. CASE i + 1 = 1 \/ i + 1 = 2
      BY <3>1, ChunkCases
    <3>2. CASE ~(i + 1 = 1 \/ i + 1 = 2)
      <4>1. PICK j \in 1..Len(g.nodes) + 1 : i + 1 = 2 + j
        BY <2>1, <3>2, ChunkNumbers
      <4> QED BY <4>1, ChunkCases
    <3> QED BY <3>1, <3>2
  <2>4. UpTo(g, p)[i] = UpTo(g, q)[i]
    BY <1>2
  <2>5. UpTo(g, p)[i + 1] = UpTo(g, q)[i + 1]
    BY <2>1, <2>2, <2>3, <2>4
  <2> QED BY <2>1, <2>5
<1>3. \A i \in 0..N : i \in T
  <2> HIDE DEF T, N
  <2> QED BY <1>0, <1>1, <1>2, Induction
<1>4. k \in T
  BY <1>3 DEF n
<1> QED BY <1>4

-----------------------------------------------------------------------------
\* The file up to the k-th chunk, and its length.
At(g, k) == UpTo(g, Offset(g))[k]
Pos(g, k) == Len(At(g, k))

\* A beginning of a file.
Begins(s, t) == Len(s) <= Len(t) /\ \A i \in 1..Len(s) : s[i] = t[i]

\* Each chunk begins where the one before it ends; the offset is the position
\* of the metadata.
LEMMA Positions ==
    ASSUME NEW g \in Graphs
    PROVE  /\ Offset(g) \in Nat /\ Chunks(g) \in Nat /\ Chunks(g) = 4 + Len(g.nodes)
           /\ Pos(g, 0) = 0 /\ At(g, 0) = <<>>
           /\ \A k \in 0..Chunks(g) : At(g, k) \in Seq(Bytes) /\ Pos(g, k) \in Nat
           /\ \A k \in 1..Chunks(g) :
                 /\ At(g, k) = At(g, k - 1) \o Chunk(g, k, Offset(g))
                 /\ Chunk(g, k, Offset(g)) \in Seq(Bytes)
                 /\ Pos(g, k) = Pos(g, k - 1) + Len(Chunk(g, k, Offset(g)))
           /\ Pos(g, 2 + Len(g.nodes)) = Offset(g)
           /\ Written(g) = At(g, Chunks(g)) /\ Written(g) \in Seq(Bytes)
           /\ Len(Written(g)) = Pos(g, Chunks(g))
<1> DEFINE n == Len(g.nodes)
           o == Offset(g)
<1>1. n \in Nat /\ Chunks(g) = 4 + n /\ Chunks(g) \in Nat
  BY GraphTypes DEF Chunks
<1>2. 2 + n \in 0..Chunks(g) /\ 2 + n \in 0..3 + n
  BY <1>1
<1>3. o \in Nat
  <2>1. UpTo(g, 0)[2 + n] \in Seq(Bytes)
    BY <1>2, UpToFound
  <2>2. o = Len(UpTo(g, 0)[2 + n])
    BY DEF Offset
  <2> HIDE DEF o, n
  <2> QED BY <2>1, <2>2
<1> HIDE DEF n, o
<1>4. /\ IsUpTo(UpTo(g, o), g, o)
      /\ \A k \in 0..Chunks(g) : UpTo(g, o)[k] \in Seq(Bytes)
  BY <1>3, UpToFound
<1>5. \A k \in 0..Chunks(g) : At(g, k) \in Seq(Bytes) /\ Pos(g, k) \in Nat
  <2> TAKE k \in 0..Chunks(g)
  <2>1. At(g, k) \in Seq(Bytes)
    BY <1>4 DEF At, o
  <2> QED BY <2>1 DEF Pos
<1>6. Pos(g, 0) = 0 /\ At(g, 0) = <<>>
  BY <1>4 DEF Pos, At, IsUpTo, o
<1>7. ASSUME NEW k \in 1..Chunks(g)
      PROVE  /\ At(g, k) = At(g, k - 1) \o Chunk(g, k, o) /\ Chunk(g, k, o) \in Seq(Bytes)
             /\ Pos(g, k) = Pos(g, k - 1) + Len(Chunk(g, k, o))
  <2>1. k \in 0..Chunks(g) /\ k - 1 \in 0..Chunks(g)
    BY <1>1
  <2>2. At(g, k) = At(g, k - 1) \o Chunk(g, k, o)
    BY <1>4 DEF At, IsUpTo, o
  <2>3. Chunk(g, k, o) \in Seq(Bytes)
    BY <1>3, ChunkType
  <2>4. At(g, k - 1) \in Seq(Bytes)
    BY <1>5, <2>1
  <2>5. Len(At(g, k - 1) \o Chunk(g, k, o)) = Len(At(g, k - 1)) + Len(Chunk(g, k, o))
    BY <2>3, <2>4, JoinShape
  <2> QED BY <2>2, <2>3, <2>5 DEF Pos
<1>8. Pos(g, 2 + n) = o
  <2>1. UpTo(g, o)[2 + n] = UpTo(g, 0)[2 + n]
    BY <1>2, <1>3, UpToSame DEF n
  <2> QED BY <2>1 DEF Pos, At, Offset, n, o
<1>9. Written(g) = At(g, Chunks(g))
  BY DEF Written, At
<1>10. Written(g) \in Seq(Bytes) /\ Len(Written(g)) = Pos(g, Chunks(g))
  <2>1. Chunks(g) \in 0..Chunks(g)
    BY <1>1
  <2> QED BY <1>5, <1>9, <2>1 DEF Pos
<1> QED BY <1>1, <1>3, <1>5, <1>6, <1>7, <1>8, <1>9, <1>10 DEF n, o

\* What has been written stays as it is.
LEMMA AtBegins ==
    ASSUME NEW g \in Graphs, NEW k \in 0..Chunks(g), NEW l \in k..Chunks(g)
    PROVE  Begins(At(g, k), At(g, l))
<1> DEFINE N == Chunks(g)
           T == {j \in 0..N - k : Begins(At(g, k), At(g, k + j))}
<1>0. N \in Nat /\ N - k \in Nat
  BY Positions
<1> HIDE DEF N
<1>1. 0 \in T
  <2>1. k + 0 = k /\ At(g, k) \in Seq(Bytes)
    BY Positions
  <2>2. Begins(At(g, k), At(g, k))
    BY <2>1 DEF Begins
  <2> QED BY <1>0, <2>1, <2>2
<1>2. ASSUME NEW j \in 0..(N - k) - 1, j \in T PROVE j + 1 \in T
  <2> DEFINE i == k + j
             s == At(g, i)
             c == Chunk(g, i + 1, Offset(g))
             b == At(g, k)
  <2>1. i + 1 \in 1..Chunks(g) /\ (i + 1) - 1 = i /\ i \in 0..Chunks(g) /\ k + (j + 1) = i + 1
        /\ j + 1 \in 0..N - k
    BY <1>0 DEF N
  <2>2. Begins(b, s)
    BY <1>2
  <2> HIDE DEF i
  <2>3. s \in Seq(Bytes) /\ c \in Seq(Bytes) /\ At(g, i + 1) = s \o c /\ b \in Seq(Bytes)
    BY <2>1, Positions
  <2> HIDE DEF s, c, b
  <2>4. Len(s \o c) = Len(s) + Len(c) /\ \A x \in 1..Len(s) : (s \o c)[x] = s[x]
    BY <2>3, JoinShape
  <2>5. Begins(b, s \o c)
    <3>1. \A x \in 1..Len(b) : x \in 1..Len(s)
      BY <2>2, <2>3 DEF Begins
    <3>2. Len(b) <= Len(s) + Len(c)
      BY <2>2, <2>3 DEF Begins
    <3> QED BY <2>2, <2>4, <3>1, <3>2 DEF Begins
  <2> QED BY <2>1, <2>3, <2>5 DEF b
<1>3. \A j \in 0..N - k : j \in T
  <2> HIDE DEF T
  <2> QED BY <1>0, <1>1, <1>2, Induction
<1>4. l - k \in 0..N - k /\ k + (l - k) = l
  BY <1>0 DEF N
<1>5. l - k \in T
  BY <1>3, <1>4
<1> QED BY <1>4, <1>5

\* Where a chunk is in the whole file.
LEMMA PartsOfFile ==
    ASSUME NEW g \in Graphs, NEW k \in 1..Chunks(g)
    PROVE  /\ Pos(g, k) <= Len(Written(g))
           /\ \A i \in 1..Len(Chunk(g, k, Offset(g))) :
                 Written(g)[Pos(g, k - 1) + i] = Chunk(g, k, Offset(g))[i]
<1> DEFINE s == At(g, k - 1)
           c == Chunk(g, k, Offset(g))
           w == Written(g)
<1>1. k \in 0..Chunks(g) /\ Chunks(g) \in k..Chunks(g) /\ k - 1 \in 0..Chunks(g)
  BY Positions
<1>2. s \in Seq(Bytes) /\ c \in Seq(Bytes) /\ At(g, k) = s \o c /\ Pos(g, k) = Len(s \o c)
  BY <1>1, Positions DEF Pos
<1>3. Begins(At(g, k), w)
  BY <1>1, AtBegins, Positions
<1>4. Pos(g, k - 1) = Len(s)
  BY DEF Pos
<1> HIDE DEF s, c, w
<1>5. Len(s \o c) = Len(s) + Len(c) /\ \A i \in 1..Len(c) : (s \o c)[Len(s) + i] = c[i]
  BY <1>2, JoinShape
<1>6. ASSUME NEW i \in 1..Len(c) PROVE w[Len(s) + i] = c[i]
  <2>1. Len(s) + i \in 1..Len(s \o c)
    BY <1>2, <1>5
  <2>2. w[Len(s) + i] = (s \o c)[Len(s) + i]
    BY <1>2, <1>3, <2>1 DEF Begins
  <2> QED BY <1>5, <2>2
<1>7. Pos(g, k) <= Len(w)
  BY <1>2, <1>3 DEF Begins
<1> QED BY <1>4, <1>6, <1>7 DEF c, w

-----------------------------------------------------------------------------
(***************************************************************************)
(* The writer: the file is always a beginning of the whole file.           *)
(***************************************************************************)

\* What serialize has written, and what it has counted; a writer that has
\* stopped leaves a beginning of the file.
WriterInv ==
    /\ old \in Graphs /\ graph \in Graphs
    /\ writer \in {"idle", "writing", "done", "crashed"}
    /\ written \in 0..Chunks(graph)
    /\ ptr = Pos(graph, IF written <= 2 + Len(graph.nodes) THEN written
                        ELSE 2 + Len(graph.nodes))
    /\ writer = "idle" => file = Written(old) /\ written = 0
    /\ writer = "writing" => written < Chunks(graph) /\ file = At(graph, written)
    /\ writer = "done" => file = Written(graph)
    /\ writer = "crashed" => file \in Seq(Bytes) /\ Begins(file, Written(graph))

\* The chunk that serialize writes is the one of the whole file.
LEMMA ChunkSame ==
    ASSUME NEW g \in Graphs, NEW p, NEW k \in 1..Chunks(g), k = Chunks(g) => p = Offset(g)
    PROVE  Chunk(g, k, p) = Chunk(g, k, Offset(g))
<1>1. CASE k = 1 \/ k = 2
  BY <1>1, ChunkCases
<1>2. CASE k = Chunks(g)
  BY <1>2
<1>3. ASSUME NEW j \in 1..Len(g.nodes) + 1, k = 2 + j
      PROVE  Chunk(g, k, p) = Chunk(g, k, Offset(g))
  BY <1>3, ChunkCases
<1> QED BY <1>1, <1>2, <1>3, ChunkNumbers

\* A beginning of a beginning.
LEMMA BeginsOfBegins ==
    ASSUME NEW s \in Seq(Bytes), NEW t \in Seq(Bytes), NEW u \in Seq(Bytes),
           Begins(s, t), Begins(t, u)
    PROVE  Begins(s, u)
<1>1. Len(s) \in Nat /\ Len(t) \in Nat /\ Len(u) \in Nat
  OBVIOUS
<1>2. \A i \in 1..Len(s) : i \in 1..Len(t)
  BY <1>1 DEF Begins
<1> QED BY <1>1, <1>2 DEF Begins

\* The file is of the old graph or begins that of the new one.
LEMMA FileBegins ==
    ASSUME WriterInv
    PROVE  /\ file \in Seq(Bytes)
           /\ file = Written(old) \/ Begins(file, Written(graph))
<1>1. old \in Graphs /\ graph \in Graphs /\ written \in 0..Chunks(graph)
  BY DEF WriterInv
<1>2. CASE writer = "idle"
  <2>1. file = Written(old)
    BY <1>2 DEF WriterInv
  <2> QED BY <1>1, <2>1, Positions
<1>3. CASE writer = "writing"
  <2>1. file = At(graph, written)
    BY <1>3 DEF WriterInv
  <2>2. Chunks(graph) \in written..Chunks(graph)
    BY <1>1, Positions
  <2>3. Begins(At(graph, written), At(graph, Chunks(graph)))
    BY <1>1, <2>2, AtBegins
  <2>4. At(graph, written) \in Seq(Bytes) /\ Written(graph) = At(graph, Chunks(graph))
    BY <1>1, Positions
  <2> QED BY <2>1, <2>3, <2>4
<1>4. CASE writer = "done"
  <2>1. file = Written(graph) /\ Written(graph) \in Seq(Bytes)
    BY <1>1, <1>4, Positions DEF WriterInv
  <2> QED BY <2>1 DEF Begins
<1>5. CASE writer = "crashed"
  BY <1>5 DEF WriterInv
<1> QED BY <1>2, <1>3, <1>4, <1>5 DEF WriterInv

\* The writer starts with the file of the old graph.
LEMMA WriterInit == FileInit => WriterInv
<1> SUFFICES ASSUME FileInit PROVE WriterInv
  OBVIOUS
<1>1. /\ old \in Graphs /\ graph \in Graphs /\ file = Written(old)
      /\ ptr = 0 /\ written = 0 /\ writer = "idle"
  BY DEF FileInit
<1>2. Chunks(graph) \in Nat /\ Pos(graph, 0) = 0 /\ Len(graph.nodes) \in Nat
  BY <1>1, Positions, GraphTypes
<1>3. written \in 0..Chunks(graph) /\ written <= 2 + Len(graph.nodes)
  BY <1>1, <1>2
<1> QED BY <1>1, <1>2, <1>3 DEF WriterInv

\* Every step of the writer keeps it; the reader does not write.
LEMMA WriterStep == WriterInv /\ [FileNext]_fileVars => WriterInv'
<1> SUFFICES ASSUME WriterInv, [FileNext]_fileVars PROVE WriterInv'
  OBVIOUS
<1> DEFINE n == Len(graph.nodes)
           at == IF written <= 2 + n THEN written ELSE 2 + n
<1>1. /\ old \in Graphs /\ graph \in Graphs /\ written \in 0..Chunks(graph)
      /\ ptr = Pos(graph, at)
  BY DEF WriterInv
<1>2. n \in Nat /\ Chunks(graph) = 4 + n /\ Chunks(graph) \in Nat
  BY <1>1, GraphTypes, Positions
<1>3. CASE Create
  <2>1. /\ old' = old /\ graph' = graph /\ written' = written /\ ptr' = ptr
        /\ writer = "idle" /\ writer' = "writing" /\ file' = <<>>
    BY <1>3 DEF Create
  <2>2. written = 0
    BY <2>1 DEF WriterInv
  <2>3. At(graph, 0) = <<>> /\ 0 < Chunks(graph)
    BY <1>1, <1>2, Positions
  <2> QED BY <1>1, <1>2, <2>1, <2>2, <2>3 DEF WriterInv
<1>4. ASSUME writer = "writing"
      PROVE  /\ written + 1 \in 1..Chunks(graph) /\ file = At(graph, written)
             /\ Chunk(graph, written + 1, ptr) = Chunk(graph, written + 1, Offset(graph))
             /\ Chunk(graph, written + 1, ptr) \in Seq(Bytes)
             /\ At(graph, written + 1) = file \o Chunk(graph, written + 1, ptr)
             /\ At(graph, written) \in Seq(Bytes)
  <2>1. written < Chunks(graph) /\ file = At(graph, written)
    BY <1>4 DEF WriterInv
  <2>2. written + 1 \in 1..Chunks(graph) /\ (written + 1) - 1 = written
    BY <1>1, <1>2, <2>1
  <2>3. written + 1 = Chunks(graph) => ptr = Offset(graph)
    <3>1. written + 1 = Chunks(graph) => at = 2 + n
      BY <1>1, <1>2
    <3>2. Pos(graph, 2 + n) = Offset(graph)
      BY <1>1, Positions
    <3> QED BY <1>1, <3>1, <3>2
  <2>4. Chunk(graph, written + 1, ptr) = Chunk(graph, written + 1, Offset(graph))
    BY <1>1, <2>2, <2>3, ChunkSame
  <2>5. /\ At(graph, written + 1) = At(graph, (written + 1) - 1)
                                      \o Chunk(graph, written + 1, Offset(graph))
        /\ Chunk(graph, written + 1, Offset(graph)) \in Seq(Bytes)
    BY <1>1, <2>2, Positions
  <2>6. At(graph, written) \in Seq(Bytes)
    BY <1>1, Positions
  <2> QED BY <2>1, <2>2, <2>4, <2>5, <2>6
<1>5. CASE WriteChunk
  <2>1. /\ old' = old /\ graph' = graph /\ writer = "writing" /\ written' = written + 1
        /\ file' = file \o Chunk(graph, written + 1, ptr)
        /\ ptr' = Advance(graph, written + 1, ptr)
        /\ writer' = IF written' = Chunks(graph) THEN "done" ELSE "writing"
    BY <1>5 DEF WriteChunk
  <2>2. file' = At(graph, written') /\ written' \in 1..Chunks(graph)
    BY <1>4, <2>1
  <2> DEFINE at2 == IF written' <= 2 + n THEN written' ELSE 2 + n
  <2>3. ptr' = Pos(graph, at2)
    <3>1. CASE written + 1 <= 2 + n
      <4>1. at = written /\ at2 = written + 1
        BY <1>1, <1>2, <2>1, <3>1
      <4>2. ptr' = ptr + Len(Chunk(graph, written + 1, Offset(graph)))
        BY <1>4, <2>1, <3>1 DEF Advance
      <4>3. written + 1 \in 1..Chunks(graph) /\ (written + 1) - 1 = written
        BY <1>1, <1>4, <2>1
      <4>4. Pos(graph, written + 1)
                = Pos(graph, (written + 1) - 1) + Len(Chunk(graph, written + 1, Offset(graph)))
        BY <1>1, <4>3, Positions
      <4> HIDE DEF at2
      <4> QED BY <1>1, <4>1, <4>2, <4>3, <4>4
    <3>2. CASE ~(written + 1 <= 2 + n)
      <4>1. at = 2 + n /\ at2 = 2 + n
        <5>1. written \in Nat /\ n \in Nat /\ written' = written + 1
          BY <1>1, <1>2, <2>1
        <5> HIDE DEF n
        <5> QED BY <3>2, <5>1
      <4>2. ptr' = ptr
        BY <2>1, <3>2 DEF Advance
      <4> HIDE DEF at2
      <4> QED BY <1>1, <4>1, <4>2
    <3> QED BY <3>1, <3>2
  <2>4. written' = Chunks(graph) => file' = Written(graph)
    BY <1>1, <2>2, Positions
  <2>5. written' # Chunks(graph) => written' < Chunks(graph)
    BY <1>2, <2>2
  <2>6. written' \in 0..Chunks(graph)
    BY <1>2, <2>2
  <2>7. \/ writer' = "done" /\ written' = Chunks(graph)
        \/ writer' = "writing" /\ written' # Chunks(graph)
    BY <2>1
  <2> QED BY <1>1, <2>1, <2>2, <2>3, <2>4, <2>5, <2>6, <2>7 DEF WriterInv
<1>6. CASE Crash
  <2> DEFINE c == Chunk(graph, written + 1, ptr)
  <2>1. PICK m \in 0..Len(c) - 1 : file' = file \o SubSeq(c, 1, m)
    BY <1>6 DEF Crash
  <2>2. /\ old' = old /\ graph' = graph /\ writer = "writing" /\ writer' = "crashed"
        /\ written' = written /\ ptr' = ptr
    BY <1>6 DEF Crash
  <2>3. /\ file \in Seq(Bytes) /\ c \in Seq(Bytes) /\ At(graph, written + 1) = file \o c
        /\ written + 1 \in 1..Chunks(graph)
    BY <1>4, <2>2
  <2> HIDE DEF c
  <2> DEFINE b == SubSeq(c, 1, m)
  <2>4. b \in Seq(Bytes) /\ Len(b) = m /\ \A i \in 1..m : b[i] = c[i]
    <3>1. \A i \in 1..m : c[i] \in Bytes
      BY <2>3, BytesAreNumbers
    <3>2. 1 \in Int /\ m \in Int /\ m >= 0
      OBVIOUS
    <3>3. /\ b \in Seq(Bytes) /\ Len(b) = IF 1 <= m THEN m - 1 + 1 ELSE 0
          /\ \A i \in 1..m - 1 + 1 : b[i] = c[1 + i - 1]
      BY <3>1, <3>2, SubSeqProperties
    <3> HIDE DEF b
    <3>4. Len(b) = m
      BY <3>2, <3>3
    <3>5. \A i \in 1..m : i \in 1..m - 1 + 1 /\ 1 + i - 1 = i
      BY <3>2
    <3> QED BY <3>3, <3>4, <3>5
  <2> HIDE DEF b
  <2>5. Begins(file \o b, file \o c)
    <3>1. /\ Len(file \o b) = Len(file) + m
          /\ \A i \in 1..Len(file) : (file \o b)[i] = file[i]
          /\ \A i \in 1..m : (file \o b)[Len(file) + i] = b[i]
      BY <2>3, <2>4, JoinShape
    <3>2. /\ Len(file \o c) = Len(file) + Len(c)
          /\ \A i \in 1..Len(file) : (file \o c)[i] = file[i]
          /\ \A i \in 1..Len(c) : (file \o c)[Len(file) + i] = c[i]
      BY <2>3, JoinShape
    <3>3. Len(file) \in Nat /\ Len(c) \in Nat /\ m \in Nat /\ m <= Len(c)
      BY <2>3
    <3>4. ASSUME NEW i \in 1..Len(file) + m PROVE (file \o b)[i] = (file \o c)[i]
      <4>1. CASE i <= Len(file)
        <5>1. i \in 1..Len(file)
          BY <3>3, <4>1
        <5> QED BY <3>1, <3>2, <5>1
      <4>2. CASE ~(i <= Len(file))
        <5>1. PICK j \in 1..m : i = Len(file) + j
          <6>1. i - Len(file) \in 1..m /\ i = Len(file) + (i - Len(file))
            BY <3>3, <4>2
          <6> QED BY <6>1
        <5>2. j \in 1..Len(c)
          BY <3>3
        <5> QED BY <2>4, <3>1, <3>2, <5>1, <5>2
      <4> QED BY <4>1, <4>2
    <3>5. Len(file \o b) <= Len(file \o c)
      BY <3>1, <3>2, <3>3
    <3> QED BY <3>1, <3>4, <3>5 DEF Begins
  <2>6. Begins(file \o b, Written(graph)) /\ file \o b \in Seq(Bytes)
    <3>1. written + 1 \in 0..Chunks(graph) /\ Chunks(graph) \in written + 1..Chunks(graph)
      BY <1>2, <2>3
    <3>2. Begins(At(graph, written + 1), Written(graph))
      BY <1>1, <3>1, AtBegins, Positions
    <3>3. file \o b \in Seq(Bytes) /\ file \o c \in Seq(Bytes) /\ Written(graph) \in Seq(Bytes)
      BY <1>1, <2>3, <2>4, JoinShape, Positions
    <3> QED BY <2>3, <2>5, <3>2, <3>3, BeginsOfBegins
  <2>7. file' = file \o b
    BY <2>1 DEF b
  <2> QED BY <1>1, <2>2, <2>6, <2>7 DEF WriterInv
<1>7. CASE Open \/ ReadMagic \/ ReadCount \/ ReadLength \/ ReadMessage \/ UNCHANGED fileVars
  <2>1. UNCHANGED <<old, graph, file, ptr, written, writer>>
    BY <1>7 DEF Open, ReadMagic, ReadCount, ReadLength, ReadMessage, fileVars, writerVars
  <2> QED BY <2>1 DEF WriterInv
<1> QED BY <1>3, <1>5, <1>6, <1>7 DEF FileNext

\* The writer's part of every behaviour.
LEMMA WriterCorrect == FileSpec => []WriterInv
BY WriterInit, WriterStep, PTL DEF FileSpec

\* The last bytes of a whole file are the position of its metadata.
LEMMA OffsetFound ==
    ASSUME NEW g \in Graphs
    PROVE  LET f == Written(g)
               o == FromLittleEndian(SubSeq(f, Len(f) - CountBytes + 1, Len(f)))
           IN  IsPrefix(Delimited(g.meta), Rest(f, o))
<1> DEFINE f == Written(g)
           n == Len(g.nodes)
           d == LittleEndian(Offset(g))
           s == At(g, 3 + n)
           e == SubSeq(f, Len(f) - CountBytes + 1, Len(f))
<1>1. n \in Nat /\ Chunks(g) = 4 + n
  BY GraphTypes, Positions
<1> HIDE DEF n
<1>2. 3 + n \in 1..Chunks(g) /\ 4 + n \in 1..Chunks(g) /\ (4 + n) - 1 = 3 + n /\ (3 + n) - 1 = 2 + n
      /\ 3 + n \in 0..Chunks(g)
  BY <1>1
<1>3. d \in Seq(Bytes) /\ Len(d) = CountBytes /\ FromLittleEndian(d) = Offset(g)
  BY Positions, OffsetAssumption, LittleEndianRead
<1>4. f = s \o d /\ s \in Seq(Bytes) /\ f \in Seq(Bytes)
  <2>1. f = At(g, 4 + n) /\ f \in Seq(Bytes)
    BY <1>1, Positions
  <2>2. At(g, 4 + n) = At(g, (4 + n) - 1) \o Chunk(g, 4 + n, Offset(g))
    BY <1>2, Positions
  <2>3. Chunk(g, 4 + n, Offset(g)) = d
    BY <1>1, ChunkCases
  <2>4. s \in Seq(Bytes)
    BY <1>2, Positions
  <2> QED BY <1>2, <2>1, <2>2, <2>3, <2>4
<1> HIDE DEF d, s, f
<1>5. Len(f) = Len(s) + CountBytes /\ \A i \in 1..CountBytes : f[Len(s) + i] = d[i]
  BY <1>3, <1>4, JoinShape
<1>6. e = d
  <2>1. Len(s) \in Nat /\ CountBytes \in Nat \ {0} /\ Len(f) - CountBytes + 1 = Len(s) + 1
    BY <1>4, <1>5, Bases
  <2>2. e = Rest(f, Len(s))
    BY <2>1 DEF Rest
  <2>3. /\ Rest(f, Len(s)) \in Seq(Bytes)
        /\ Len(Rest(f, Len(s))) = IF Len(s) <= Len(f) THEN Len(f) - Len(s) ELSE 0
        /\ \A i \in 1..Len(Rest(f, Len(s))) : Rest(f, Len(s))[i] = f[Len(s) + i]
    BY <1>4, <2>1, RestShape
  <2> DEFINE r == Rest(f, Len(s))
  <2>4. r \in Seq(Bytes) /\ Len(r) = CountBytes
    BY <1>5, <2>1, <2>3
  <2>5. \A i \in 1..CountBytes : r[i] = d[i]
    BY <1>5, <2>3, <2>4
  <2> HIDE DEF r
  <2>6. r = d
    BY <1>3, <2>4, <2>5, SeqEqual
  <2> QED BY <2>2, <2>6 DEF r
<1> HIDE DEF e
<1> DEFINE c == Delimited(g.meta)
           r == Rest(f, Offset(g))
<1>7. c \in Seq(Bytes) /\ Len(c) \in Nat
  <2>1. g.meta \in Seq(Bytes) /\ Fits(Radix, 2 * Len(g.meta), MaxVarint)
    BY StorageAssumption
  <2>2. c \in Seq(Bytes)
    BY <2>1, DelimitedShape
  <2> HIDE DEF c
  <2> QED BY <2>2
<1>8. /\ Offset(g) + Len(c) <= Len(f)
      /\ \A i \in 1..Len(c) : f[Offset(g) + i] = c[i]
  <2>1. Chunk(g, 3 + n, Offset(g)) = c
    <3>1. n + 1 \in 1..Len(g.nodes) + 1 /\ 2 + (n + 1) = 3 + n
      BY <1>1 DEF n
    <3>2. Chunk(g, 2 + (n + 1), Offset(g)) = Delimited(Msg(g, n + 1))
      BY <3>1, ChunkCases
    <3>3. Msg(g, n + 1) = g.meta
      BY GraphTypes DEF n
    <3> QED BY <3>1, <3>2, <3>3
  <2>2. /\ Pos(g, 3 + n) <= Len(f)
        /\ \A i \in 1..Len(c) : f[Pos(g, (3 + n) - 1) + i] = c[i]
    BY <1>2, <2>1, PartsOfFile DEF f
  <2>3. Pos(g, 3 + n) = Pos(g, (3 + n) - 1) + Len(c)
    BY <1>2, <2>1, Positions
  <2>4. Pos(g, 2 + n) = Offset(g)
    BY Positions DEF n
  <2> HIDE DEF c
  <2> QED BY <1>2, <2>2, <2>3, <2>4
<1> HIDE DEF c
<1>9. Offset(g) \in Nat
  BY Positions
<1>10. /\ r \in Seq(Bytes) /\ Len(r) = Len(f) - Offset(g) /\ Len(f) \in Nat
       /\ \A i \in 1..Len(r) : r[i] = f[Offset(g) + i]
  <2>1. Offset(g) <= Len(f) /\ Len(f) \in Nat
    BY <1>4, <1>7, <1>8, <1>9
  <2>2. /\ r \in Seq(Bytes) /\ Len(r) = IF Offset(g) <= Len(f) THEN Len(f) - Offset(g) ELSE 0
        /\ \A i \in 1..Len(r) : r[i] = f[Offset(g) + i]
    BY <1>4, <1>9, RestShape
  <2> HIDE DEF r
  <2> QED BY <2>1, <2>2
<1> HIDE DEF r
<1>11. IsPrefix(c, r)
  <2>1. Len(c) <= Len(r)
    BY <1>7, <1>8, <1>9, <1>10
  <2>2. \A i \in 1..Len(c) : c[i] = r[i]
    <3>1. \A i \in 1..Len(c) : i \in 1..Len(r)
      BY <1>7, <1>10, <2>1
    <3> QED BY <1>8, <1>10, <3>1
  <2>3. \A x \in {c, r} : SubSeq(x, 1, Len(c)) \in Seq(Bytes) /\ Len(SubSeq(x, 1, Len(c))) = Len(c)
                          /\ \A i \in 1..Len(c) : SubSeq(x, 1, Len(c))[i] = x[i]
    <3> TAKE x \in {c, r}
    <3>1. \A i \in 1..Len(c) : x[i] \in Bytes
      BY <1>7, <2>2, BytesAreNumbers
    <3> DEFINE y == SubSeq(x, 1, Len(c))
    <3>2. /\ y \in Seq(Bytes) /\ Len(y) = IF 1 <= Len(c) THEN Len(c) - 1 + 1 ELSE 0
          /\ \A i \in 1..Len(c) - 1 + 1 : y[i] = x[1 + i - 1]
      <4>1. 1 \in Int /\ Len(c) \in Int
        BY <1>7
      <4> QED BY <3>1, <4>1, SubSeqProperties
    <3> HIDE DEF y
    <3>3. Len(y) = Len(c)
      BY <1>7, <3>2
    <3>4. \A i \in 1..Len(c) : i \in 1..Len(c) - 1 + 1 /\ 1 + i - 1 = i
      BY <1>7
    <3>5. y \in Seq(Bytes) /\ Len(y) = Len(c) /\ \A i \in 1..Len(c) : y[i] = x[i]
      BY <3>2, <3>3, <3>4
    <3> QED BY <3>5 DEF y
  <2> DEFINE cs == SubSeq(c, 1, Len(c))
             rs == SubSeq(r, 1, Len(c))
  <2>4. /\ cs \in Seq(Bytes) /\ Len(cs) = Len(c) /\ \A i \in 1..Len(c) : cs[i] = c[i]
        /\ rs \in Seq(Bytes) /\ Len(rs) = Len(c) /\ \A i \in 1..Len(c) : rs[i] = r[i]
    BY <2>3
  <2> HIDE DEF cs, rs
  <2>5. cs = rs
    BY <2>2, <2>4, SeqEqual
  <2>6. cs = c
    BY <1>7, <2>4, SeqEqual
  <2> QED BY <2>1, <2>5, <2>6 DEF IsPrefix, cs, rs
<1>12. FromLittleEndian(e) = Offset(g)
  BY <1>3, <1>6
<1>13. IsPrefix(c, Rest(f, FromLittleEndian(e)))
  BY <1>11, <1>12 DEF r
<1> QED BY <1>13 DEF c, e, f

\* The position at the end of a finished file is that of its metadata
\* (serialize_witnesscalc_graph counts the bytes before it).
THEOREM OffsetIsOfMetadata == FileSpec => []OffsetOfMetadata
<1>1. WriterInv => OffsetOfMetadata
  <2> SUFFICES ASSUME WriterInv, writer = "done" PROVE OffsetOfMetadata
    BY DEF OffsetOfMetadata
  <2>1. file = Written(graph) /\ graph \in Graphs
    BY DEF WriterInv
  <2> QED BY <2>1, OffsetFound DEF OffsetOfMetadata
<1> QED BY <1>1, WriterCorrect, PTL

-----------------------------------------------------------------------------
(***************************************************************************)
(* The reader: in step with the file up to its end, and then reading zeros *)
(* that are not in it.                                                     *)
(***************************************************************************)

\* The bytes of s, and zeros behind them.
ByteAt(s, i) == IF i <= Len(s) THEN s[i] ELSE 0

\* A stream s that goes on behind the p-th byte of a file, with no more than
\* zeros behind its end.
StandsAt(s, f, p) == /\ Len(f) - p <= Len(s)
                     /\ \A i \in 1..Len(s) : s[i] = ByteAt(f, p + i)

\* Bytes that make no digit other than 0.
Blank(s) == \A i \in 1..Len(s) : s[i] % Radix = 0

\* The stream goes on behind what is read of it.
LEMMA StandsRest ==
    ASSUME NEW s \in Seq(Bytes), NEW f \in Seq(Bytes), NEW p \in Nat, NEW n \in Nat,
           StandsAt(s, f, p)
    PROVE  StandsAt(Rest(s, n), f, p + n)
<1> DEFINE r == Rest(s, n)
<1>1. /\ r \in Seq(Bytes) /\ Len(r) = IF n <= Len(s) THEN Len(s) - n ELSE 0
      /\ \A i \in 1..Len(r) : r[i] = s[n + i]
  BY RestShape
<1> HIDE DEF r
<1>2. Len(s) \in Nat /\ Len(f) \in Nat
  OBVIOUS
<1>3. Len(f) - (p + n) <= Len(r)
  BY <1>1, <1>2 DEF StandsAt
<1>4. ASSUME NEW i \in 1..Len(r) PROVE r[i] = ByteAt(f, p + n + i)
  <2>1. n + i \in 1..Len(s) /\ p + (n + i) = p + n + i
    BY <1>1, <1>2
  <2>2. s[n + i] = ByteAt(f, p + (n + i))
    BY <2>1 DEF StandsAt
  <2> QED BY <1>1, <2>1, <2>2
<1> QED BY <1>3, <1>4 DEF StandsAt, r

\* What is read into a buffer of zeros are the bytes of the file, and zeros.
LEMMA StandsBuffer ==
    ASSUME NEW s \in Seq(Bytes), NEW f \in Seq(Bytes), NEW p \in Nat, NEW n \in Nat,
           StandsAt(s, f, p)
    PROVE  \A i \in 1..n : Buffer(s, n)[i] = ByteAt(f, p + i)
<1> TAKE i \in 1..n
<1>1. Buffer(s, n)[i] = IF i <= Len(s) THEN s[i] ELSE 0
  BY BufferShape
<1>2. Len(s) \in Nat /\ Len(f) \in Nat
  OBVIOUS
<1>3. CASE i <= Len(s)
  <2>1. i \in 1..Len(s)
    BY <1>2, <1>3
  <2> QED BY <1>1, <1>3, <2>1 DEF StandsAt
<1>4. CASE ~(i <= Len(s))
  <2>1. ~(p + i <= Len(f))
    BY <1>2, <1>4 DEF StandsAt
  <2> QED BY <1>1, <1>4, <2>1 DEF ByteAt
<1> QED BY <1>3, <1>4

\* The stream after the end of a buffer has been given back.
LEMMA GivenBack ==
    ASSUME NEW s \in Seq(Bytes), NEW n \in Nat, NEW l \in 0..n
    PROVE  /\ Rest(Buffer(s, n), l) \o Rest(s, n) \in Seq(Bytes)
           /\ Len(Rest(Buffer(s, n), l) \o Rest(s, n))
                  = (n - l) + (IF n <= Len(s) THEN Len(s) - n ELSE 0)
           /\ \A i \in 1..Len(Rest(Buffer(s, n), l) \o Rest(s, n)) :
                  (Rest(Buffer(s, n), l) \o Rest(s, n))[i]
                      = IF l + i <= n THEN Buffer(s, n)[l + i] ELSE s[l + i]
<1> DEFINE u == Rest(Buffer(s, n), l)
           r == Rest(s, n)
           t == u \o r
<1>1. Buffer(s, n) \in Seq(Bytes) /\ Len(Buffer(s, n)) = n
  BY BufferShape
<1>2. l \in Nat /\ l <= n /\ Len(s) \in Nat
  OBVIOUS
<1>3. /\ u \in Seq(Bytes) /\ Len(u) = IF l <= Len(Buffer(s, n)) THEN Len(Buffer(s, n)) - l ELSE 0
      /\ \A i \in 1..Len(u) : u[i] = Buffer(s, n)[l + i]
  BY <1>1, <1>2, RestShape
<1>4. /\ r \in Seq(Bytes) /\ Len(r) = IF n <= Len(s) THEN Len(s) - n ELSE 0
      /\ \A i \in 1..Len(r) : r[i] = s[n + i]
  BY RestShape
<1> HIDE DEF u, r
<1>5. Len(u) = n - l
  BY <1>1, <1>2, <1>3
<1>6. /\ t \in Seq(Bytes) /\ Len(t) = Len(u) + Len(r)
      /\ \A i \in 1..Len(u) : t[i] = u[i]
      /\ \A i \in 1..Len(r) : t[Len(u) + i] = r[i]
  BY <1>3, <1>4, JoinShape
<1> HIDE DEF t
<1>7. Len(r) \in Nat /\ Len(u) \in Nat
  BY <1>2, <1>4, <1>5
<1>8. ASSUME NEW i \in 1..Len(t)
      PROVE  t[i] = IF l + i <= n THEN Buffer(s, n)[l + i] ELSE s[l + i]
  <2>1. CASE l + i <= n
    <3>1. i \in 1..Len(u)
      BY <1>2, <1>5, <2>1
    <3> QED BY <1>3, <1>6, <2>1, <3>1
  <2>2. CASE ~(l + i <= n)
    <3> DEFINE k == l + i - n
    <3>1. k \in 1..Len(r) /\ Len(u) + k = i /\ n + k = l + i
      BY <1>2, <1>5, <1>6, <1>7, <2>2
    <3> HIDE DEF k
    <3>2. t[Len(u) + k] = r[k] /\ r[k] = s[n + k]
      BY <1>4, <1>6, <3>1
    <3> QED BY <2>2, <3>1, <3>2
  <2> QED BY <2>1, <2>2
<1>9. Len(t) = (n - l) + (IF n <= Len(s) THEN Len(s) - n ELSE 0)
  BY <1>4, <1>5, <1>6
<1> QED BY <1>6, <1>8, <1>9 DEF t, u, r

\* Giving back the end of a buffer, its zeros among it, the stream goes on
\* behind what is kept.
LEMMA StandsGivenBack ==
    ASSUME NEW s \in Seq(Bytes), NEW f \in Seq(Bytes), NEW p \in Nat, NEW n \in Nat,
           NEW l \in 0..n, StandsAt(s, f, p)
    PROVE  StandsAt(Rest(Buffer(s, n), l) \o Rest(s, n), f, p + l)
<1> DEFINE t == Rest(Buffer(s, n), l) \o Rest(s, n)
<1>1. /\ Len(t) = (n - l) + (IF n <= Len(s) THEN Len(s) - n ELSE 0)
      /\ \A i \in 1..Len(t) : t[i] = IF l + i <= n THEN Buffer(s, n)[l + i] ELSE s[l + i]
  BY GivenBack
<1> HIDE DEF t
<1>2. Len(s) \in Nat /\ Len(f) \in Nat /\ l \in Nat /\ l <= n
  OBVIOUS
<1>3. Len(f) - (p + l) <= Len(t)
  <2>1. Len(f) - p <= Len(s)
    BY DEF StandsAt
  <2> QED BY <1>1, <1>2, <2>1
<1>4. ASSUME NEW i \in 1..Len(t) PROVE t[i] = ByteAt(f, p + l + i)
  <2>1. p + (l + i) = p + l + i
    BY <1>2
  <2>2. CASE l + i <= n
    <3>1. l + i \in 1..n
      BY <1>2, <2>2
    <3>2. Buffer(s, n)[l + i] = ByteAt(f, p + (l + i))
      BY <3>1, StandsBuffer
    <3> QED BY <1>1, <2>1, <2>2, <3>2
  <2>3. CASE ~(l + i <= n)
    <3>1. l + i \in 1..Len(s)
      BY <1>1, <1>2, <2>3
    <3>2. s[l + i] = ByteAt(f, p + (l + i))
      BY <3>1 DEF StandsAt
    <3> QED BY <1>1, <2>1, <2>3, <3>2
  <2> QED BY <2>2, <2>3
<1> QED BY <1>3, <1>4 DEF StandsAt, t

\* Beyond the end of the file a stream is blank.
LEMMA BeyondIsBlank ==
    ASSUME NEW s \in Seq(Bytes), NEW f \in Seq(Bytes), NEW p \in Nat, StandsAt(s, f, p),
           Len(f) <= p
    PROVE  Blank(s)
<1> SUFFICES ASSUME NEW i \in 1..Len(s) PROVE s[i] % Radix = 0
  BY DEF Blank
<1>1. ~(p + i <= Len(f))
  OBVIOUS
<1>2. s[i] = 0
  BY <1>1 DEF StandsAt, ByteAt
<1>3. 0 % Radix = 0
  BY Bases
<1> QED BY <1>2, <1>3

\* A blank stream stays blank when it is read, ...
LEMMA BlankRest ==
    ASSUME NEW s \in Seq(Bytes), NEW n \in Nat, Blank(s)
    PROVE  Blank(Rest(s, n))
<1> DEFINE r == Rest(s, n)
<1>1. /\ r \in Seq(Bytes) /\ Len(r) = IF n <= Len(s) THEN Len(s) - n ELSE 0
      /\ \A i \in 1..Len(r) : r[i] = s[n + i]
  BY RestShape
<1> HIDE DEF r
<1>2. ASSUME NEW i \in 1..Len(r) PROVE r[i] % Radix = 0
  <2>1. n + i \in 1..Len(s)
    BY <1>1
  <2> QED BY <1>1, <2>1 DEF Blank
<1> QED BY <1>2 DEF Blank, r

\* ...and when blank bytes are given back.
LEMMA BlankGivenBack ==
    ASSUME NEW s \in Seq(Bytes), NEW n \in Nat, NEW l \in 0..n, Blank(Rest(s, n)),
           \A i \in l + 1..n : Buffer(s, n)[i] % Radix = 0
    PROVE  Blank(Rest(Buffer(s, n), l) \o Rest(s, n))
<1> DEFINE t == Rest(Buffer(s, n), l) \o Rest(s, n)
<1>1. /\ Len(t) = (n - l) + (IF n <= Len(s) THEN Len(s) - n ELSE 0)
      /\ \A i \in 1..Len(t) : t[i] = IF l + i <= n THEN Buffer(s, n)[l + i] ELSE s[l + i]
  BY GivenBack
<1> HIDE DEF t
<1>2. Len(s) \in Nat /\ l \in Nat /\ l <= n
  OBVIOUS
<1>3. ASSUME NEW i \in 1..Len(t) PROVE t[i] % Radix = 0
  <2>1. CASE l + i <= n
    <3>1. l + i \in l + 1..n
      BY <1>2, <2>1
    <3> QED BY <1>1, <2>1, <3>1
  <2>2. CASE ~(l + i <= n)
    <3> DEFINE k == l + i - n
               r == Rest(s, n)
    <3>1. /\ Len(r) = IF n <= Len(s) THEN Len(s) - n ELSE 0
          /\ \A x \in 1..Len(r) : r[x] = s[n + x]
      BY RestShape
    <3>2. Blank(r)
      OBVIOUS
    <3> HIDE DEF r
    <3>3. k \in 1..Len(r) /\ n + k = l + i
      BY <1>1, <1>2, <2>2, <3>1
    <3> HIDE DEF k
    <3>4. s[l + i] % Radix = 0
      BY <3>1, <3>2, <3>3 DEF Blank
    <3> QED BY <1>1, <2>2, <3>4
  <2> QED BY <2>1, <2>2
<1> QED BY <1>3 DEF Blank, t

-----------------------------------------------------------------------------
\* The length of the next message, where the reader is in step.
LEMMA LengthInStep ==
    ASSUME NEW g \in Graphs, NEW j \in 0..Len(g.nodes), NEW f \in Seq(Bytes),
           Begins(f, Written(g)), NEW s \in Seq(Bytes), StandsAt(s, f, Pos(g, 2 + j)),
           NEW v, v = DecodeVarint(Buffer(s, MaxVarint)),
           NEW t, t = Rest(Buffer(s, MaxVarint), VarintLen(v)) \o Rest(s, MaxVarint)
    PROVE  /\ v \in Nat /\ VarintLen(v) \in 1..MaxVarint
           /\ \/ v = 2 * Len(Msg(g, j + 1)) /\ StandsAt(t, f, Pos(g, 2 + j) + VarintLen(v))
              \/ f # Written(g) /\ Blank(t)
<1> DEFINE n == Len(g.nodes)
           m == Msg(g, j + 1)
           p == Pos(g, 2 + j)
           w == Written(g)
           e == VarintLen(2 * Len(m))
           b == Buffer(s, MaxVarint)
<1>1. n \in Nat /\ Chunks(g) = 4 + n /\ j + 1 \in 1..n + 1 /\ MaxVarint \in Nat \ {0}
  BY GraphTypes, Positions, Bases
<1>2. m \in Seq(Bytes) /\ Fits(Radix, 2 * Len(m), MaxVarint) /\ 2 * Len(m) \in Nat
  BY <1>1, GraphTypes, DelimitedShape
<1>3. 3 + j \in 1..Chunks(g) /\ (3 + j) - 1 = 2 + j /\ 2 + j \in 0..Chunks(g)
      /\ 2 + (j + 1) = 3 + j
  BY <1>1
<1>4. p \in Nat /\ Len(w) \in Nat /\ Len(f) \in Nat
  <2>1. p \in Nat
    BY <1>3, Positions
  <2>2. w \in Seq(Bytes)
    BY Positions
  <2> HIDE DEF w, p
  <2>3. Len(w) \in Nat
    BY <2>2
  <2>4. Len(f) \in Nat
    OBVIOUS
  <2> QED BY <2>1, <2>3, <2>4
<1>5. Chunk(g, 3 + j, Offset(g)) = Delimited(m)
  BY <1>1, <1>3, ChunkCases, ZenonT(60)
<1> HIDE DEF n, m
<1>6. /\ e \in 1..MaxVarint /\ Len(Delimited(m)) = e + 2 * Len(m)
      /\ \A i \in 1..e : Delimited(m)[i] = Varint(2 * Len(m))[i]
      /\ \A i \in 1..e : (Varint(2 * Len(m))[i] < Radix) = (i = e)
  BY <1>2, DelimitedShape, VarintShape
<1>7. /\ p + Len(Delimited(m)) <= Len(w)
      /\ \A i \in 1..Len(Delimited(m)) : w[p + i] = Delimited(m)[i]
  <2>1. /\ Pos(g, 3 + j) <= Len(w)
        /\ \A i \in 1..Len(Chunk(g, 3 + j, Offset(g))) :
              w[Pos(g, (3 + j) - 1) + i] = Chunk(g, 3 + j, Offset(g))[i]
    BY <1>3, PartsOfFile
  <2>2. Pos(g, 3 + j) = Pos(g, (3 + j) - 1) + Len(Chunk(g, 3 + j, Offset(g)))
    BY <1>3, Positions
  <2> QED BY <1>3, <1>5, <2>1, <2>2
<1>8. \A i \in 1..e : w[p + i] = Varint(2 * Len(m))[i]
  <2>1. \A i \in 1..e : i \in 1..Len(Delimited(m))
    BY <1>1, <1>2, <1>6
  <2> QED BY <1>6, <1>7, <2>1
<1>9. p + e <= Len(w)
  BY <1>1, <1>2, <1>4, <1>6, <1>7, SMTT(30)
<1> HIDE DEF e, p, w
<1>10. b \in Seq(Bytes) /\ Len(b) = MaxVarint
  BY <1>1, BufferShape
<1>11. \A i \in 1..MaxVarint : b[i] = ByteAt(f, p + i)
  BY <1>1, <1>4, StandsBuffer DEF p
<1>12. \A i \in 1..Len(f) : f[i] = w[i]
  BY DEF Begins, w
<1>13. v = DecodeVarint(b) /\ t = Rest(b, VarintLen(v)) \o Rest(s, MaxVarint)
  OBVIOUS
<1>14. StandsAt(s, f, p)
  BY DEF p
<1>15. CASE p + e <= Len(f)
  <2>1. \A i \in 1..e : b[i] = Varint(2 * Len(m))[i]
    <3> TAKE i \in 1..e
    <3>1. i \in 1..MaxVarint /\ p + i \in 1..Len(f)
      BY <1>1, <1>4, <1>6, <1>15
    <3>2. b[i] = f[p + i]
      BY <1>11, <3>1 DEF ByteAt
    <3> QED BY <1>8, <1>12, <3>1, <3>2
  <2> HIDE DEF b
  <2>2. v = 2 * Len(m)
    <3>1. \A i \in 1..VarintLen(2 * Len(m)) : b[i] = Varint(2 * Len(m))[i]
      BY <2>1 DEF e
    <3>2. DecodeVarint(b) = 2 * Len(m)
      BY <1>2, <1>10, <3>1, VarintDecoded
    <3> QED BY <1>13, <3>2
  <2>3. VarintLen(v) = e
    BY <2>2 DEF e
  <2>4. StandsAt(t, f, p + e)
    <3>1. e \in 0..MaxVarint
      BY <1>1, <1>6
    <3>2. t = Rest(Buffer(s, MaxVarint), e) \o Rest(s, MaxVarint)
      BY <1>13, <2>3 DEF b
    <3> QED BY <1>1, <1>4, <1>14, <3>1, <3>2, StandsGivenBack
  <2> QED BY <1>2, <1>6, <2>2, <2>3, <2>4 DEF m, p
<1>16. CASE ~(p + e <= Len(f))
  <2> DEFINE c == IF p <= Len(f) THEN Len(f) - p ELSE 0
             k == c + 1
  <2>1. c \in 0..e - 1 /\ k \in 1..e /\ k \in 1..MaxVarint /\ e \in 1..MaxVarint
    BY <1>1, <1>4, <1>6, <1>16
  <2>2. \A i \in 1..k - 1 : ~(b[i] < Radix)
    <3> TAKE i \in 1..k - 1
    <3>1. i \in 1..c
      <4>1. c \in Nat /\ k = c + 1
        BY <2>1
      <4> HIDE DEF c, k
      <4> QED BY <4>1
    <3>2. i \in 1..e /\ i # e /\ i \in 1..MaxVarint /\ p + i \in 1..Len(f)
      <4>1. p <= Len(f)
        BY <3>1
      <4>2. c = Len(f) - p
        BY <4>1
      <4> HIDE DEF c
      <4> QED BY <1>1, <1>4, <2>1, <3>1, <4>2
    <3>3. b[i] = f[p + i]
      BY <1>11, <3>2 DEF ByteAt
    <3>4. b[i] = Varint(2 * Len(m))[i]
      BY <1>8, <1>12, <3>2, <3>3
    <3> QED BY <1>6, <3>2, <3>4 DEF e
  <2>3. \A i \in k..MaxVarint : b[i] = 0
    <3> TAKE i \in k..MaxVarint
    <3>1. i \in 1..MaxVarint /\ ~(p + i <= Len(f))
      BY <1>1, <1>4, <2>1
    <3> QED BY <1>11, <3>1 DEF ByteAt
  <2> HIDE DEF c, k, b
  <2>4. EndsAt(b, k)
    <3>1. k \in k..MaxVarint /\ 0 < Radix
      BY <1>1, <2>1, Bases
    <3> QED BY <2>1, <2>2, <2>3, <3>1 DEF EndsAt
  <2>5. v \in Nat
    BY <1>10, <1>13, <2>4, DecodedDigits
  <2>6. /\ VarintLen(v) \in 1..k /\ VarintLen(v) \in 1..MaxVarint
        /\ \A i \in VarintLen(v) + 1..k : b[i] % Radix = 0
    BY <1>10, <1>13, <2>4, DecodedGivesBack
  <2>7. \A i \in VarintLen(v) + 1..MaxVarint : b[i] % Radix = 0
    <3> TAKE i \in VarintLen(v) + 1..MaxVarint
    <3>1. CASE i <= k
      <4>1. i \in VarintLen(v) + 1..k
        BY <3>1, <2>6, <2>1
      <4> QED BY <2>6, <4>1
    <3>2. CASE ~(i <= k)
      <4>1. i \in k..MaxVarint
        BY <3>2, <2>6, <2>1
      <4>2. b[i] = 0 /\ 0 % Radix = 0
        BY <2>3, <4>1, Bases
      <4> QED BY <4>2
    <3> QED BY <3>1, <3>2
  <2>8. Blank(Rest(s, MaxVarint))
    <3>1. StandsAt(Rest(s, MaxVarint), f, p + MaxVarint)
      BY <1>1, <1>4, <1>14, StandsRest
    <3>2. Len(f) <= p + MaxVarint /\ p + MaxVarint \in Nat /\ MaxVarint \in Nat
      BY <1>1, <1>4, <1>6, <1>16
    <3>3. Rest(s, MaxVarint) \in Seq(Bytes)
      BY <3>2, RestShape
    <3> QED BY <3>1, <3>2, <3>3, BeyondIsBlank
  <2>9. Blank(t)
    <3>1. VarintLen(v) \in 0..MaxVarint /\ MaxVarint \in Nat
      BY <1>1, <2>6
    <3>2. t = Rest(Buffer(s, MaxVarint), VarintLen(v)) \o Rest(s, MaxVarint)
      OBVIOUS
    <3>3. \A i \in VarintLen(v) + 1..MaxVarint : Buffer(s, MaxVarint)[i] % Radix = 0
      BY <2>7 DEF b
    <3> QED BY <2>8, <3>1, <3>2, <3>3, BlankGivenBack
  <2>10. f # Written(g)
    BY <1>9, <1>16 DEF w
  <2> QED BY <2>5, <2>6, <2>9, <2>10
<1> QED BY <1>15, <1>16

\* The next message, where the reader is in step.
LEMMA MessageInStep ==
    ASSUME NEW g \in Graphs, NEW j \in 0..Len(g.nodes), NEW f \in Seq(Bytes),
           Begins(f, Written(g)), NEW s \in Seq(Bytes),
           NEW l \in Nat, l = 2 * Len(Msg(g, j + 1)),
           StandsAt(s, f, Pos(g, 2 + j) + VarintLen(l))
    PROVE  /\ StandsAt(Rest(s, l), f, Pos(g, 3 + j))
           /\ \/ First(s, l) = Encode(Msg(g, j + 1))
              \/ f # Written(g) /\ Blank(Rest(s, l))
<1> DEFINE n == Len(g.nodes)
           m == Msg(g, j + 1)
           w == Written(g)
           e == VarintLen(l)
           p == Pos(g, 2 + j)
           b == First(s, l)
<1>1. n \in Nat /\ Chunks(g) = 4 + n /\ j + 1 \in 1..n + 1 /\ MaxVarint \in Nat \ {0}
  BY GraphTypes, Positions, Bases, SMTT(30)
<1>2. m \in Seq(Bytes) /\ Fits(Radix, 2 * Len(m), MaxVarint) /\ l = 2 * Len(m)
  BY <1>1, GraphTypes
<1>3. 3 + j \in 1..Chunks(g) /\ (3 + j) - 1 = 2 + j /\ 2 + j \in 0..Chunks(g)
      /\ 2 + (j + 1) = 3 + j
  BY <1>1
<1>4. p \in Nat /\ Len(w) \in Nat /\ Len(f) \in Nat
  <2>1. p \in Nat
    BY <1>3, Positions
  <2>2. w \in Seq(Bytes)
    BY Positions
  <2> HIDE DEF w, p
  <2>3. Len(w) \in Nat
    BY <2>2
  <2>4. Len(f) \in Nat
    OBVIOUS
  <2> QED BY <2>1, <2>3, <2>4
<1>5. Chunk(g, 3 + j, Offset(g)) = Delimited(m)
  BY <1>1, <1>3, ChunkCases
<1> HIDE DEF n, m
<1>6. /\ Len(Delimited(m)) = e + l /\ e \in 1..MaxVarint
      /\ \A i \in 1..l : Delimited(m)[e + i] = Encode(m)[i]
  <2>1. /\ Len(Delimited(m)) = VarintLen(2 * Len(m)) + 2 * Len(m)
        /\ \A i \in 1..2 * Len(m) : Delimited(m)[VarintLen(2 * Len(m)) + i] = Encode(m)[i]
        /\ 2 * Len(m) \in Nat
    BY <1>2, DelimitedShape
  <2>2. VarintLen(2 * Len(m)) \in 1..MaxVarint
    BY <1>2, <2>1, VarintShape
  <2> QED BY <1>2, <2>1, <2>2
<1> HIDE DEF e
<1>7. /\ Pos(g, 3 + j) = p + e + l /\ Pos(g, 3 + j) <= Len(w)
      /\ \A i \in 1..e + l : w[p + i] = Delimited(m)[i]
  <2>1. /\ Pos(g, 3 + j) <= Len(w)
        /\ \A i \in 1..Len(Chunk(g, 3 + j, Offset(g))) :
              w[Pos(g, (3 + j) - 1) + i] = Chunk(g, 3 + j, Offset(g))[i]
    BY <1>3, PartsOfFile
  <2>2. Pos(g, 3 + j) = Pos(g, (3 + j) - 1) + Len(Chunk(g, 3 + j, Offset(g)))
    BY <1>3, Positions
  <2>3. p + (e + l) = p + e + l
    BY <1>4, <1>6
  <2> HIDE DEF w
  <2> QED BY <1>3, <1>5, <1>6, <2>1, <2>2, <2>3
<1> HIDE DEF p, w
<1>8. e \in Nat /\ p + e \in Nat
  BY <1>1, <1>4, <1>6
<1>9. StandsAt(s, f, p + e)
  BY DEF p, e
<1>10. StandsAt(Rest(s, l), f, Pos(g, 3 + j))
  BY <1>7, <1>8, <1>9, StandsRest
<1>11. CASE Pos(g, 3 + j) <= Len(f)
  <2>1. l <= Len(s) /\ Len(s) \in Nat
    BY <1>4, <1>7, <1>8, <1>9, <1>11 DEF StandsAt
  <2>2. b \in Seq(Bytes) /\ Len(b) = l /\ \A i \in 1..l : b[i] = s[i]
    BY <2>1, FirstShape
  <2> HIDE DEF b
  <2>3. ASSUME NEW i \in 1..l PROVE b[i] = Encode(m)[i]
    <3>1. /\ i \in 1..Len(s) /\ p + e + i \in 1..Len(f) /\ e + i \in 1..e + l
          /\ p + (e + i) = p + e + i
      BY <1>4, <1>7, <1>8, <1>11, <2>1
    <3>2. s[i] = f[p + e + i]
      BY <1>9, <3>1 DEF StandsAt, ByteAt
    <3>3. f[p + e + i] = w[p + (e + i)]
      BY <3>1 DEF Begins, w
    <3>4. w[p + (e + i)] = Delimited(m)[e + i]
      BY <1>7, <3>1
    <3> QED BY <1>6, <2>2, <3>2, <3>3, <3>4
  <2>4. Encode(m) \in Seq(Bytes) /\ Len(Encode(m)) = l
    BY <1>2, EncodeShape
  <2>5. b = Encode(m)
    BY <2>2, <2>3, <2>4, SeqEqual
  <2> QED BY <1>10, <2>5 DEF b, m
<1>12. CASE ~(Pos(g, 3 + j) <= Len(f))
  <2>1. f # w
    BY <1>7, <1>12
  <2>2. Rest(s, l) \in Seq(Bytes)
    BY RestShape
  <2>3. Pos(g, 3 + j) \in Nat /\ Len(f) <= Pos(g, 3 + j)
    BY <1>4, <1>7, <1>8, <1>12, SMTT(30)
  <2>4. Blank(Rest(s, l))
    BY <1>10, <2>2, <2>3, BeyondIsBlank
  <2> QED BY <1>10, <2>1, <2>4 DEF w
<1> QED BY <1>11, <1>12

-----------------------------------------------------------------------------
(***************************************************************************)
(* What the reader has read of a file f that begins that of a graph g: c   *)
(* is the number of nodes it still expects, ns are the nodes it has read,  *)
(* s is the stream and l the length of the message to be read.             *)
(***************************************************************************)

\* j nodes have been read, and the first r of them are nodes of g.
Right(g, ns, j, r) == Len(ns) = j /\ r <= j /\ \A i \in 1..r : ns[i] = g.nodes[i]

\* In step with the file: what comes next are a length or a message of g.
AtLength(g, c, ns, s, f) ==
    /\ c <= Len(g.nodes) /\ Right(g, ns, Len(g.nodes) - c, Len(g.nodes) - c)
    /\ StandsAt(s, f, Pos(g, 2 + (Len(g.nodes) - c)))
AtMessage(g, c, ns, s, f, l) ==
    /\ c <= Len(g.nodes) /\ Right(g, ns, Len(g.nodes) - c, Len(g.nodes) - c)
    /\ l = 2 * Len(Msg(g, Len(g.nodes) - c + 1))
    /\ StandsAt(s, f, Pos(g, 2 + (Len(g.nodes) - c)) + VarintLen(l))
\* The file ended within a length: what is read as a message are its zeros.
CutOff(g, c, ns, s, f) ==
    /\ f # Written(g) /\ Blank(s)
    /\ c <= Len(g.nodes) /\ Right(g, ns, Len(g.nodes) - c, Len(g.nodes) - c)
\* The file ended within a node, which may be wrong: what follows are zeros.
Lost(g, c, ns, s, f) ==
    /\ f # Written(g) /\ Blank(s)
    /\ c < Len(g.nodes) /\ Right(g, ns, Len(g.nodes) - c, Len(g.nodes) - c - 1)
\* All of a graph has been read, of a file that was written to its end; of
\* any other, all but the last node and the metadata.
GraphRead(g, ns, m, f) ==
    /\ Len(ns) = Len(g.nodes) /\ \A i \in 1..Len(g.nodes) - 1 : ns[i] = g.nodes[i]
    /\ f = Written(g) => ns = g.nodes /\ m = g.meta

\* The magic is the first chunk of the file.
LEMMA MagicRead ==
    ASSUME NEW g \in Graphs, NEW f \in Seq(Bytes)
    PROVE  /\ f = Written(g) => First(f, Len(Magic)) = Magic
           /\ First(f, Len(Magic)) = Magic =>
                 /\ Len(Rest(f, Len(Magic))) = Len(f) - Len(Magic)
                 /\ StandsAt(Rest(f, Len(Magic)), f, Len(Magic))
<1> DEFINE w == Written(g)
           b == First(f, Len(Magic))
           r == Rest(f, Len(Magic))
<1>1. Magic \in Seq(Bytes)
  BY StorageAssumption
<1>2. Len(Magic) \in Nat /\ Len(f) \in Nat
  BY <1>1
<1>3. /\ b \in Seq(Bytes) /\ Len(b) = IF Len(Magic) <= Len(f) THEN Len(Magic) ELSE Len(f)
      /\ \A i \in 1..Len(b) : b[i] = f[i]
  BY <1>2, FirstShape
<1>4. Len(r) = IF Len(Magic) <= Len(f) THEN Len(f) - Len(Magic) ELSE 0
  BY <1>2, RestShape
<1>5. ASSUME f = w PROVE b = Magic
  <2>1. 1 \in 1..Chunks(g) /\ 1 \in 0..Chunks(g)
    BY Positions, GraphTypes
  <2>2. Chunk(g, 1, Offset(g)) = Magic
    BY ChunkCases
  <2>3. Pos(g, 1 - 1) = 0
    BY Positions
  <2>4. Pos(g, 1) = Pos(g, 1 - 1) + Len(Magic)
    BY <2>1, <2>2, Positions
  <2>5. /\ Pos(g, 1) <= Len(w)
        /\ \A i \in 1..Len(Magic) : w[Pos(g, 1 - 1) + i] = Magic[i]
    BY <2>1, <2>2, PartsOfFile
  <2> HIDE DEF w, b
  <2>6. Len(Magic) <= Len(f) /\ \A i \in 1..Len(Magic) : f[i] = Magic[i]
    BY <1>2, <1>5, <2>3, <2>4, <2>5
  <2>7. Len(b) = Len(Magic) /\ \A i \in 1..Len(Magic) : b[i] = Magic[i]
    BY <1>2, <1>3, <2>6
  <2> QED BY <1>1, <1>3, <2>7, SeqEqual
<1>6. ASSUME b = Magic PROVE Len(r) = Len(f) - Len(Magic)
  <2> HIDE DEF r, b
  <2> QED BY <1>2, <1>3, <1>4, <1>6
<1>7. StandsAt(r, f, Len(Magic))
  <2>1. StandsAt(f, f, 0)
    <3>1. Len(f) - 0 <= Len(f)
      BY <1>2
    <3>2. ASSUME NEW i \in 1..Len(f) PROVE f[i] = ByteAt(f, 0 + i)
      BY <1>2 DEF ByteAt
    <3> QED BY <3>1, <3>2 DEF StandsAt
  <2>2. StandsAt(r, f, 0 + Len(Magic))
    BY <1>2, <2>1, StandsRest
  <2> QED BY <1>2, <2>2
<1> QED BY <1>5, <1>6, <1>7 DEF w, b, r

\* The count is the second: as many nodes as the graph has.
LEMMA CountRead ==
    ASSUME NEW g \in Graphs, NEW f \in Seq(Bytes), Begins(f, Written(g)),
           NEW s \in Seq(Bytes), Len(s) = Len(f) - Len(Magic), StandsAt(s, f, Len(Magic))
    PROVE  /\ f = Written(g) => ~(Len(First(s, CountBytes)) < CountBytes)
           /\ ~(Len(First(s, CountBytes)) < CountBytes) =>
                 /\ FromLittleEndian(First(s, CountBytes)) = Len(g.nodes)
                 /\ AtLength(g, Len(g.nodes), <<>>, Rest(s, CountBytes), f)
<1> DEFINE w == Written(g)
           n == Len(g.nodes)
           b == First(s, CountBytes)
           d == LittleEndian(n)
<1>1. CountBytes \in Nat /\ Magic \in Seq(Bytes)
  BY StorageAssumption
<1>2. Len(Magic) \in Nat /\ Len(f) \in Nat /\ Len(s) \in Nat
  BY <1>1
<1>3. n \in Nat /\ Fits(Byte, n, CountBytes)
  BY GraphTypes
<1>4. d \in Seq(Bytes) /\ Len(d) = CountBytes /\ FromLittleEndian(d) = n
  BY <1>3, LittleEndianRead
<1>5. /\ b \in Seq(Bytes) /\ Len(b) = IF CountBytes <= Len(s) THEN CountBytes ELSE Len(s)
      /\ \A i \in 1..Len(b) : b[i] = s[i]
  BY <1>1, FirstShape
<1>6. 1 \in 1..Chunks(g) /\ 2 \in 1..Chunks(g) /\ 2 - 1 = 1 /\ 1 - 1 = 0
  <2>1. Chunks(g) = 4 + n
    BY Positions
  <2> HIDE DEF n
  <2> QED BY <1>3, <2>1
<1>7. Chunk(g, 1, Offset(g)) = Magic /\ Chunk(g, 2, Offset(g)) = d
  BY ChunkCases
<1>8. Pos(g, 1) = Len(Magic)
  <2>1. Pos(g, 1) = Pos(g, 1 - 1) + Len(Magic)
    BY <1>6, <1>7, Positions
  <2>2. Pos(g, 0) = 0
    BY Positions
  <2> QED BY <1>2, <1>6, <2>1, <2>2
<1>9. Pos(g, 2) = Len(Magic) + CountBytes
  <2>1. Pos(g, 2) = Pos(g, 2 - 1) + Len(d)
    BY <1>6, <1>7, Positions
  <2> QED BY <1>4, <1>6, <1>8, <2>1
<1>10. /\ Pos(g, 2) <= Len(w)
       /\ \A i \in 1..Len(d) : w[Len(Magic) + i] = d[i]
  <2>1. /\ Pos(g, 2) <= Len(w)
        /\ \A i \in 1..Len(d) : w[Pos(g, 2 - 1) + i] = d[i]
    BY <1>6, <1>7, PartsOfFile
  <2> HIDE DEF w, d
  <2> QED BY <1>6, <1>8, <2>1
<1> HIDE DEF w, n, b, d
<1>11. ASSUME f = w PROVE ~(Len(b) < CountBytes)
  BY <1>1, <1>2, <1>5, <1>9, <1>10, <1>11
<1>12. ASSUME ~(Len(b) < CountBytes) PROVE b = d
  <2>1. CountBytes <= Len(s) /\ Len(b) = CountBytes
    BY <1>1, <1>2, <1>5, <1>12
  <2>2. ASSUME NEW i \in 1..CountBytes PROVE b[i] = d[i]
    <3>1. i \in 1..Len(b) /\ i \in 1..Len(s) /\ Len(Magic) + i \in 1..Len(f) /\ i \in 1..Len(d)
      BY <1>1, <1>2, <1>4, <2>1
    <3>2. b[i] = s[i]
      BY <1>5, <3>1
    <3>3. s[i] = f[Len(Magic) + i]
      BY <3>1 DEF StandsAt, ByteAt
    <3>4. f[Len(Magic) + i] = w[Len(Magic) + i]
      BY <3>1 DEF Begins, w
    <3> QED BY <1>10, <3>1, <3>2, <3>3, <3>4
  <2> QED BY <1>4, <1>5, <2>1, <2>2, SeqEqual
<1>13. AtLength(g, n, <<>>, Rest(s, CountBytes), f)
  <2>1. n <= n /\ n - n = 0 /\ 2 + 0 = 2
    BY <1>3
  <2>2. Right(g, <<>>, 0, 0)
    BY DEF Right
  <2>3. StandsAt(Rest(s, CountBytes), f, Pos(g, 2))
    BY <1>1, <1>2, <1>9, StandsRest
  <2> QED BY <2>1, <2>2, <2>3 DEF AtLength, n
<1> QED BY <1>4, <1>11, <1>12, <1>13 DEF w, n, b, d

\* A length: of the next message where the reader is in step, unless the file
\* ends within it; behind the end of the file there is none, or that of an
\* empty message.
LEMMA LengthRead ==
    ASSUME NEW g \in Graphs, NEW f \in Seq(Bytes), Begins(f, Written(g)),
           NEW c \in Nat, NEW ns, NEW s \in Seq(Bytes)
    PROVE  LET v == DecodeVarint(Buffer(s, MaxVarint))
               t == Rest(Buffer(s, MaxVarint), VarintLen(v)) \o Rest(s, MaxVarint)
           IN  /\ AtLength(g, c, ns, s, f) =>
                     v # -1 /\ (AtMessage(g, c, ns, t, f, v) \/ CutOff(g, c, ns, t, f))
               /\ Lost(g, c, ns, s, f) /\ v # -1 => v = 0 /\ Lost(g, c, ns, t, f)
<1> DEFINE n == Len(g.nodes)
           j == n - c
           v == DecodeVarint(Buffer(s, MaxVarint))
           t == Rest(Buffer(s, MaxVarint), VarintLen(v)) \o Rest(s, MaxVarint)
<1>0. /\ v = DecodeVarint(Buffer(s, MaxVarint))
      /\ t = Rest(Buffer(s, MaxVarint), VarintLen(v)) \o Rest(s, MaxVarint)
  OBVIOUS
<1> HIDE DEF v, t
<1>1. n \in Nat /\ MaxVarint \in Nat \ {0}
  BY GraphTypes, Bases
<1> HIDE DEF n
<1>2. ASSUME AtLength(g, c, ns, s, f)
      PROVE  v # -1 /\ (AtMessage(g, c, ns, t, f, v) \/ CutOff(g, c, ns, t, f))
  <2>1. /\ c <= n /\ Right(g, ns, j, j) /\ StandsAt(s, f, Pos(g, 2 + j))
    BY <1>2 DEF AtLength, n
  <2>2. j \in 0..Len(g.nodes)
    BY <1>1, <2>1 DEF n
  <2> HIDE DEF j
  <2>3. /\ v \in Nat
        /\ \/ v = 2 * Len(Msg(g, j + 1)) /\ StandsAt(t, f, Pos(g, 2 + j) + VarintLen(v))
           \/ f # Written(g) /\ Blank(t)
    BY <1>0, <2>1, <2>2, LengthInStep, ZenonT(60)
  <2>4. v # -1
    BY <2>3
  <2>5. ASSUME v = 2 * Len(Msg(g, j + 1)), StandsAt(t, f, Pos(g, 2 + j) + VarintLen(v))
        PROVE  AtMessage(g, c, ns, t, f, v)
    BY <2>1, <2>5 DEF AtMessage, j, n
  <2>6. ASSUME f # Written(g), Blank(t) PROVE CutOff(g, c, ns, t, f)
    BY <2>1, <2>6 DEF CutOff, j, n
  <2> QED BY <2>3, <2>4, <2>5, <2>6
<1>3. ASSUME Lost(g, c, ns, s, f), v # -1 PROVE v = 0 /\ Lost(g, c, ns, t, f)
  <2> DEFINE b == Buffer(s, MaxVarint)
  <2>1. Blank(s)
    BY <1>3 DEF Lost
  <2>2. /\ b \in Seq(Bytes) /\ Len(b) = MaxVarint
        /\ \A i \in 1..MaxVarint : b[i] = IF i <= Len(s) THEN s[i] ELSE 0
    BY <1>1, BufferShape
  <2> HIDE DEF b
  <2>3. ASSUME NEW i \in 1..MaxVarint PROVE b[i] % Radix = 0
    <3>1. CASE i <= Len(s)
      <4>1. i \in 1..Len(s) /\ b[i] = s[i]
        BY <1>1, <2>2, <3>1
      <4> QED BY <2>1, <4>1 DEF Blank
    <3>2. CASE ~(i <= Len(s))
      <4>1. b[i] = 0 /\ 0 % Radix = 0
        BY <2>2, <3>2, Bases
      <4> QED BY <4>1
    <3> QED BY <3>1, <3>2
  <2>4. \A i \in 1..MaxVarint : b[i] % Radix = 0
    BY <2>3
  <2>5. v = 0
    <3>1. DecodeVarint(b) \in {-1, 0}
      BY <2>2, <2>4, DecodedBlank
    <3>2. DecodeVarint(b) = v
      BY <1>0 DEF b
    <3> QED BY <1>3, <3>1, <3>2
  <2>6. VarintLen(v) \in 0..MaxVarint
    <3>1. 0 \in Nat /\ 1 \in 1..MaxVarint
      BY <1>1
    <3>2. Left(Radix, 0, MaxVarint)[1] = 0
      <4>1. Radix \in Nat \ {0, 1} /\ MaxVarint \in Nat
        BY Bases, <1>1
      <4>2. 0 \in 0..MaxVarint /\ 1 \in 0..MaxVarint
        BY <1>1
      <4>3. Left(Radix, 0, MaxVarint)[0] = 0
        BY <3>1, <4>1, LeftFound DEF IsLeft
      <4> QED BY <3>1, <4>1, <4>2, <4>3, NothingLeft
    <3>3. VarintLen(0) \in 1..MaxVarint
      BY <3>1, <3>2, VarintLenFound
    <3> QED BY <1>1, <2>5, <3>3
  <2>7. Blank(t)
    <3>1. Blank(Rest(s, MaxVarint))
      BY <1>1, <2>1, BlankRest
    <3>2. \A i \in VarintLen(v) + 1..MaxVarint : Buffer(s, MaxVarint)[i] % Radix = 0
      <4> TAKE i \in VarintLen(v) + 1..MaxVarint
      <4>1. i \in 1..MaxVarint
        BY <1>1, <2>6
      <4> QED BY <2>4, <4>1 DEF b
    <3>3. t = Rest(Buffer(s, MaxVarint), VarintLen(v)) \o Rest(s, MaxVarint) /\ MaxVarint \in Nat
      BY <1>0, <1>1
    <3> QED BY <2>6, <3>1, <3>2, <3>3, BlankGivenBack
  <2>8. /\ f # Written(g) /\ c < Len(g.nodes)
        /\ Right(g, ns, Len(g.nodes) - c, Len(g.nodes) - c - 1)
    BY <1>3 DEF Lost
  <2> QED BY <2>5, <2>7, <2>8 DEF Lost
<1> QED BY <1>2, <1>3 DEF v, t

\* The bytes of a message that does not end with the file.
LEMMA MessageWhole ==
    ASSUME NEW g \in Graphs, NEW f \in Seq(Bytes), Begins(f, Written(g)),
           NEW c \in Nat, NEW ns, NEW s \in Seq(Bytes), NEW l \in Nat,
           AtMessage(g, c, ns, s, f, l)
    PROVE  /\ StandsAt(Rest(s, l), f, Pos(g, 3 + (Len(g.nodes) - c)))
           /\ \/ LET m == Msg(g, Len(g.nodes) - c + 1)
                     b == First(s, l)
                 IN  /\ Len(b) = l /\ Decodable(b) /\ Decode(b) = m
                     /\ c > 0 => b # <<>> /\ m = g.nodes[Len(g.nodes) - c + 1]
                     /\ c = 0 => m = g.meta
              \/ CutOff(g, c, ns, Rest(s, l), f)
<1> DEFINE n == Len(g.nodes)
           j == n - c
           m == Msg(g, j + 1)
           b == First(s, l)
<1>1. n \in Nat
  BY GraphTypes
<1>2. /\ c <= n /\ Right(g, ns, j, j) /\ l = 2 * Len(m)
      /\ StandsAt(s, f, Pos(g, 2 + j) + VarintLen(l))
  BY DEF AtMessage
<1>3. j \in 0..Len(g.nodes) /\ j + 1 \in 1..n + 1
  BY <1>1, <1>2
<1>4. /\ m \in Seq(Bytes)
      /\ j + 1 <= n => m # <<>> /\ m = g.nodes[j + 1]
  BY <1>3, GraphTypes
<1>5. g.meta = Msg(g, n + 1)
  BY GraphTypes
<1>6. /\ StandsAt(Rest(s, l), f, Pos(g, 3 + j))
      /\ \/ b = Encode(m)
         \/ f # Written(g) /\ Blank(Rest(s, l))
  <2> HIDE DEF j, n
  <2> QED BY <1>2, <1>3, MessageInStep
<1>7. ASSUME f # Written(g), Blank(Rest(s, l)) PROVE CutOff(g, c, ns, Rest(s, l), f)
  BY <1>2, <1>7 DEF CutOff
<1>8. ASSUME b = Encode(m)
      PROVE  /\ Len(b) = l /\ Decodable(b) /\ Decode(b) = m
             /\ c > 0 => b # <<>> /\ m = g.nodes[j + 1]
             /\ c = 0 => m = g.meta
  <2>1. Len(b) = l /\ Decodable(b) /\ Decode(b) = m
    <3> HIDE DEF b, m
    <3> QED BY <1>2, <1>4, <1>8, EncodeShape
  <2>2. ASSUME c > 0 PROVE b # <<>> /\ m = g.nodes[j + 1]
    <3>1. j + 1 <= n
      BY <1>1, <1>2, <2>2
    <3>2. m # <<>> /\ m = g.nodes[j + 1]
      BY <1>4, <3>1
    <3> HIDE DEF m, b, j
    <3>3. Len(m) # 0
      BY <1>4, <3>2
    <3>4. Len(m) \in Nat
      BY <1>4
    <3>5. Len(b) # 0
      BY <1>2, <2>1, <3>3, <3>4
    <3>6. Len(<<>>) = 0
      OBVIOUS
    <3> QED BY <3>2, <3>5, <3>6
  <2>3. ASSUME c = 0 PROVE m = g.meta
    <3>1. j + 1 = n + 1
      BY <1>1, <2>3
    <3> QED BY <1>5, <3>1
  <2> QED BY <2>1, <2>2, <2>3
<1> QED BY <1>6, <1>7, <1>8

\* One node more, right or wrong.
LEMMA NodeRead ==
    ASSUME NEW g \in Graphs, NEW ns \in Seq(Seq(Bytes)), NEW x \in Seq(Bytes), NEW j \in Nat,
           Right(g, ns, j, j)
    PROVE  /\ Append(ns, x) \in Seq(Seq(Bytes)) /\ Right(g, Append(ns, x), j + 1, j)
           /\ x = g.nodes[j + 1] => Right(g, Append(ns, x), j + 1, j + 1)
<1> DEFINE a == Append(ns, x)
<1>1. Len(ns) = j /\ \A i \in 1..j : ns[i] = g.nodes[i]
  BY DEF Right
<1>2. /\ a \in Seq(Seq(Bytes)) /\ Len(a) = Len(ns) + 1 /\ a[Len(ns) + 1] = x
      /\ \A i \in 1..Len(ns) : a[i] = ns[i]
  OBVIOUS
<1> HIDE DEF a
<1>3. /\ Len(a) = j + 1 /\ a[j + 1] = x /\ \A i \in 1..j : a[i] = g.nodes[i]
  BY <1>1, <1>2
<1>4. Right(g, a, j + 1, j)
  BY <1>3 DEF Right
<1>5. ASSUME x = g.nodes[j + 1] PROVE Right(g, a, j + 1, j + 1)
  <2>1. ASSUME NEW i \in 1..j + 1 PROVE a[i] = g.nodes[i]
    <3>1. i \in 1..j \/ i = j + 1
      OBVIOUS
    <3> QED BY <1>3, <1>5, <3>1
  <2> QED BY <1>3, <2>1 DEF Right
<1> QED BY <1>2, <1>4, <1>5 DEF a

\* A message: of g where the reader is in step; where it is not, the file is
\* not whole, and only the last node can be wrong.
LEMMA MessageRead ==
    ASSUME NEW g \in Graphs, NEW f \in Seq(Bytes), Begins(f, Written(g)),
           NEW c \in Nat, NEW ns \in Seq(Seq(Bytes)), NEW s \in Seq(Bytes), NEW l \in Nat,
           \/ AtMessage(g, c, ns, s, f, l)
           \/ CutOff(g, c, ns, s, f)
           \/ Lost(g, c, ns, s, f) /\ l = 0,
           NEW b, b = First(s, l), NEW r, r = Rest(s, l)
    PROVE  /\ f = Written(g) => Len(b) = l /\ Decodable(b) /\ ~(c > 0 /\ b = <<>>)
           /\ c > 0 /\ b # <<>> => \/ AtLength(g, c - 1, Append(ns, Decode(b)), r, f)
                                   \/ Lost(g, c - 1, Append(ns, Decode(b)), r, f)
           /\ c = 0 => GraphRead(g, ns, Decode(b), f)
<1> DEFINE n == Len(g.nodes)
           j == n - c
           x == Decode(b)
<1>1. n \in Nat
  BY GraphTypes
<1>2. b \in Seq(Bytes)
  BY FirstShape
<1>3. x \in Seq(Bytes)
  BY <1>2, DecodeType
<1>4. g.nodes \in Seq(Seq(Bytes) \ {<<>>})
  BY StorageAssumption
<1> HIDE DEF n, x
<1>5. ASSUME AtMessage(g, c, ns, s, f, l), Len(b) = l, Decodable(b), x = Msg(g, j + 1),
             StandsAt(r, f, Pos(g, 3 + j)), c > 0 => b # <<>> /\ Msg(g, j + 1) = g.nodes[j + 1],
             c = 0 => Msg(g, j + 1) = g.meta
      PROVE  /\ Len(b) = l /\ Decodable(b) /\ ~(c > 0 /\ b = <<>>)
             /\ c > 0 => AtLength(g, c - 1, Append(ns, x), r, f)
             /\ c = 0 => GraphRead(g, ns, x, f)
  <2>1. c <= n /\ Right(g, ns, j, j)
    BY <1>5 DEF AtMessage, n
  <2>2. j \in Nat
    BY <1>1, <2>1
  <2>3. ASSUME c > 0 PROVE AtLength(g, c - 1, Append(ns, x), r, f)
    <3>1. x = g.nodes[j + 1]
      BY <1>5, <2>3
    <3>2. Right(g, Append(ns, x), j + 1, j + 1)
      <4> HIDE DEF j
      <4> QED BY <1>3, <2>1, <2>2, <3>1, NodeRead
    <3>3. n - (c - 1) = j + 1 /\ 2 + (j + 1) = 3 + j /\ c - 1 <= n
      BY <1>1, <2>1
    <3> HIDE DEF j
    <3> QED BY <1>5, <3>2, <3>3 DEF AtLength, n
  <2>4. ASSUME c = 0 PROVE GraphRead(g, ns, x, f)
    <3>1. j = n
      BY <1>1, <2>4
    <3>2. Len(ns) = n /\ \A i \in 1..n : ns[i] = g.nodes[i]
      BY <2>1, <3>1 DEF Right
    <3>3. ns = g.nodes
      <4>1. Len(ns) = Len(g.nodes) /\ \A i \in 1..Len(ns) : ns[i] = g.nodes[i]
        BY <3>2 DEF n
      <4>2. g.nodes \in Seq(Seq(Bytes))
        BY <1>4
      <4> QED BY <4>1, <4>2, SeqEqual
    <3>4. x = g.meta
      BY <1>5, <2>4
    <3>5. \A i \in 1..n - 1 : ns[i] = g.nodes[i]
      BY <3>3
    <3> QED BY <3>2, <3>3, <3>4, <3>5 DEF GraphRead, n
  <2> QED BY <1>5, <2>3, <2>4
<1>6. ASSUME CutOff(g, c, ns, r, f)
      PROVE  /\ f # Written(g)
             /\ c > 0 => Lost(g, c - 1, Append(ns, x), r, f)
             /\ c = 0 => GraphRead(g, ns, x, f)
  <2>1. f # Written(g) /\ Blank(r) /\ c <= n /\ Right(g, ns, j, j)
    BY <1>6 DEF CutOff, n
  <2>2. j \in Nat
    BY <1>1, <2>1
  <2>3. ASSUME c > 0 PROVE Lost(g, c - 1, Append(ns, x), r, f)
    <3>1. Right(g, Append(ns, x), j + 1, j)
      <4> HIDE DEF j
      <4> QED BY <1>3, <2>1, <2>2, NodeRead
    <3>2. n - (c - 1) = j + 1 /\ n - (c - 1) - 1 = j /\ c - 1 < n
      BY <1>1, <2>1
    <3> HIDE DEF j
    <3> QED BY <2>1, <3>1, <3>2 DEF Lost, n
  <2>4. ASSUME c = 0 PROVE GraphRead(g, ns, x, f)
    <3>1. j = n
      BY <1>1, <2>4
    <3>2. Len(ns) = n /\ \A i \in 1..n : ns[i] = g.nodes[i]
      BY <2>1, <3>1 DEF Right
    <3>3. \A i \in 1..n - 1 : ns[i] = g.nodes[i]
      BY <1>1, <3>2
    <3> QED BY <2>1, <3>2, <3>3 DEF GraphRead, n
  <2> QED BY <2>1, <2>3, <2>4
<1>7. CASE AtMessage(g, c, ns, s, f, l)
  <2>1. /\ StandsAt(r, f, Pos(g, 3 + j))
        /\ \/ /\ Len(b) = l /\ Decodable(b) /\ x = Msg(g, j + 1)
              /\ c > 0 => b # <<>> /\ Msg(g, j + 1) = g.nodes[j + 1]
              /\ c = 0 => Msg(g, j + 1) = g.meta
           \/ CutOff(g, c, ns, r, f)
    BY <1>7, MessageWhole DEF x, n
  <2> QED BY <1>5, <1>6, <1>7, <2>1 DEF x
<1>8. CASE CutOff(g, c, ns, s, f)
  <2>1. Blank(r)
    BY <1>8, BlankRest DEF CutOff
  <2>2. CutOff(g, c, ns, r, f)
    BY <1>8, <2>1 DEF CutOff
  <2> QED BY <1>6, <2>2 DEF x
<1>9. CASE Lost(g, c, ns, s, f) /\ l = 0
  <2>1. f # Written(g) /\ c < n /\ Right(g, ns, j, j - 1)
    BY <1>9 DEF Lost, n
  <2>2. b = <<>>
    <3>1. Len(s) \in Nat /\ 0 <= Len(s)
      OBVIOUS
    <3>2. Len(b) = 0
      <4>1. Len(b) = IF l <= Len(s) THEN l ELSE Len(s)
        BY FirstShape
      <4> QED BY <1>9, <3>1, <4>1
    <3> QED BY <1>2, <3>2
  <2>3. ASSUME c = 0 PROVE GraphRead(g, ns, x, f)
    <3>1. j = n
      BY <1>1, <2>3
    <3>2. Len(ns) = n /\ \A i \in 1..n - 1 : ns[i] = g.nodes[i]
      BY <2>1, <3>1 DEF Right
    <3> QED BY <2>1, <3>2 DEF GraphRead, n
  <2> QED BY <2>1, <2>2, <2>3 DEF x
<1> QED BY <1>7, <1>8, <1>9

-----------------------------------------------------------------------------
(***************************************************************************)
(* The invariant of the graph file.                                        *)
(***************************************************************************)

\* The variables of the reader.
ReadTypes ==
    /\ stream \in Seq(Bytes) /\ snapshot \in Seq(Bytes)
    /\ reading \in {"idle", "magic", "count", "length", "message", "ok", "error", "panic"}
    /\ length \in Nat /\ count \in Nat
    /\ nodes \in Seq(Seq(Bytes)) /\ meta \in Seq(Bytes)

\* What is read of a file that begins that of g.
ReadsGraph(g) ==
    /\ reading = "magic" => stream = snapshot /\ nodes = <<>>
    /\ reading = "count" =>
          /\ nodes = <<>> /\ Len(stream) = Len(snapshot) - Len(Magic)
          /\ StandsAt(stream, snapshot, Len(Magic))
    /\ reading = "length" => \/ AtLength(g, count, nodes, stream, snapshot)
                             \/ Lost(g, count, nodes, stream, snapshot)
    /\ reading = "message" => \/ AtMessage(g, count, nodes, stream, snapshot, length)
                              \/ CutOff(g, count, nodes, stream, snapshot)
                              \/ Lost(g, count, nodes, stream, snapshot) /\ length = 0
    /\ reading = "ok" => GraphRead(g, nodes, meta, snapshot)
    /\ reading \in {"error", "panic"} => snapshot # Written(g)

\* The invariant: the writer's, the types, and what the reader has read of
\* whichever graph the file it has opened begins.
FileInv ==
    /\ WriterInv
    /\ ReadTypes
    /\ reading = "idle" => nodes = <<>>
    /\ reading # "idle" => snapshot = Written(old) \/ Begins(snapshot, Written(graph))
    /\ \A g \in {old, graph} :
          reading # "idle" /\ Begins(snapshot, Written(g)) => ReadsGraph(g)

\* The reader's variables stay what they are, ...
LEMMA TypesKept ==
    ASSUME WriterInv, ReadTypes, [FileNext]_fileVars
    PROVE  ReadTypes'
<1>1. MaxVarint \in Nat /\ CountBytes \in Nat /\ Len(Magic) \in Nat
  BY StorageAssumption
<1>2. CASE UNCHANGED readVars
  BY <1>2 DEF ReadTypes, readVars
<1>3. CASE Open
  <2>1. file \in Seq(Bytes)
    BY FileBegins
  <2> QED BY <1>3, <2>1 DEF Open, ReadTypes
<1>4. CASE ReadMagic
  <2>1. stream' \in Seq(Bytes)
    BY <1>1, <1>4, RestShape DEF ReadMagic, ReadTypes
  <2> QED BY <1>4, <2>1 DEF ReadMagic, ReadTypes
<1>5. CASE ReadCount
  <2>1. stream' \in Seq(Bytes)
    BY <1>1, <1>5, RestShape DEF ReadCount, ReadTypes
  <2>2. First(stream, CountBytes) \in Seq(Bytes)
    BY <1>1, FirstShape DEF ReadTypes
  <2>3. FromLittleEndian(First(stream, CountBytes)) \in Nat
    BY <2>2, FromLittleEndianType
  <2> QED BY <1>5, <2>1, <2>3 DEF ReadCount, ReadTypes
<1>6. CASE ReadLength
  <2> DEFINE b == Buffer(stream, MaxVarint)
             v == DecodeVarint(b)
             t == Rest(b, VarintLen(v)) \o Rest(stream, MaxVarint)
  <2>1. b \in Seq(Bytes) /\ Len(b) = MaxVarint
    BY <1>1, BufferShape DEF ReadTypes
  <2>2. ASSUME v # -1 PROVE v \in Nat /\ t \in Seq(Bytes)
    <3> HIDE DEF b
    <3>1. PICK e \in 1..MaxVarint : EndsAt(b, e)
      BY <2>1, <2>2, DecodedCases
    <3>2. v \in Nat
      BY <2>1, <3>1, DecodedDigits
    <3>3. VarintLen(v) \in 1..MaxVarint
      BY <2>1, <3>1, DecodedGivesBack
    <3>4. VarintLen(v) \in 0..MaxVarint
      BY <1>1, <3>3
    <3>5. stream \in Seq(Bytes)
      BY DEF ReadTypes
    <3> QED BY <1>1, <3>2, <3>4, <3>5, GivenBack DEF b
  <2>3. \/ v = -1 /\ UNCHANGED <<length, stream>>
        \/ v # -1 /\ length' = v /\ stream' = t
    BY <1>6 DEF ReadLength
  <2>4. /\ reading' \in {"error", "message"}
        /\ UNCHANGED <<snapshot, count, nodes, meta>>
    BY <1>6 DEF ReadLength
  <2> HIDE DEF v, t, b
  <2>5. length' \in Nat /\ stream' \in Seq(Bytes)
    BY <2>2, <2>3 DEF ReadTypes
  <2> QED BY <2>4, <2>5 DEF ReadTypes
<1>7. CASE ReadMessage
  <2> DEFINE b == First(stream, length)
  <2>1. stream \in Seq(Bytes) /\ length \in Nat /\ count \in Nat
    BY DEF ReadTypes
  <2>2. b \in Seq(Bytes)
    BY <2>1, FirstShape
  <2>3. Decode(b) \in Seq(Bytes)
    BY <2>2, DecodeType
  <2>4. stream' \in Seq(Bytes)
    BY <1>7, <2>1, RestShape DEF ReadMessage
  <2>5. nodes' \in Seq(Seq(Bytes))
    <3>1. nodes \in Seq(Seq(Bytes))
      BY DEF ReadTypes
    <3>2. nodes' = nodes \/ nodes' = Append(nodes, Decode(b))
      BY <1>7 DEF ReadMessage
    <3> HIDE DEF b
    <3> QED BY <2>3, <3>1, <3>2
  <2>6. meta' \in Seq(Bytes)
    <3>1. meta' = meta \/ meta' = Decode(b)
      BY <1>7 DEF ReadMessage
    <3> QED BY <2>3, <3>1 DEF ReadTypes
  <2>7. count' \in Nat
    <3>1. count' = IF count = 0 THEN 0 ELSE count - 1
      BY <1>7 DEF ReadMessage
    <3> QED BY <2>1, <3>1
  <2>8. reading' \in {"error", "panic", "length", "ok"}
    <3> DEFINE whole == Len(b) = length /\ Decodable(b)
    <3>1. reading' = CASE ~whole -> "error"
                       [] whole /\ count > 0 /\ b = <<>> -> "panic"
                       [] whole /\ count > 0 /\ b # <<>> -> "length"
                       [] whole /\ count = 0 -> "ok"
      BY <1>7 DEF ReadMessage
    <3>2. count > 0 \/ count = 0
      BY <2>1
    <3> HIDE DEF b, whole
    <3> QED BY <3>1, <3>2
  <2>9. UNCHANGED <<snapshot, length>>
    BY <1>7 DEF ReadMessage
  <2> HIDE DEF b
  <2> QED BY <2>1, <2>4, <2>5, <2>6, <2>7, <2>8, <2>9 DEF ReadTypes
<1> QED
  BY <1>2, <1>3, <1>4, <1>5, <1>6, <1>7
     DEF FileNext, fileVars, readVars, Create, WriteChunk, Crash

\* ...and what is read of a file that begins that of g stays what it is.
LEMMA ReadingKept ==
    ASSUME ReadTypes, [FileNext]_fileVars, NEW g \in Graphs,
           Begins(snapshot, Written(g)), reading # "idle", ReadsGraph(g)
    PROVE  ReadsGraph(g)'
<1> USE DEF ReadsGraph
<1>0. /\ stream \in Seq(Bytes) /\ snapshot \in Seq(Bytes) /\ length \in Nat /\ count \in Nat
      /\ nodes \in Seq(Seq(Bytes)) /\ meta \in Seq(Bytes)
  BY DEF ReadTypes
<1>1. CASE UNCHANGED readVars
  BY <1>1 DEF readVars
<1>2. CASE Open
  BY <1>2 DEF Open
<1>3. CASE ReadMagic
  <2>1. /\ reading = "magic" /\ stream = snapshot /\ nodes = <<>>
        /\ reading' = IF First(stream, Len(Magic)) = Magic THEN "count" ELSE "error"
        /\ stream' = Rest(stream, Len(Magic)) /\ snapshot' = snapshot /\ nodes' = nodes
    BY <1>3 DEF ReadMagic
  <2>2. CASE First(stream, Len(Magic)) = Magic
    <3>1. First(snapshot, Len(Magic)) = Magic /\ stream' = Rest(snapshot, Len(Magic))
      BY <2>1, <2>2
    <3>2. /\ Len(stream') = Len(snapshot) - Len(Magic)
          /\ StandsAt(stream', snapshot, Len(Magic))
      BY <1>0, <3>1, MagicRead
    <3>3. reading' = "count"
      BY <2>1, <2>2
    <3> QED BY <2>1, <3>2, <3>3
  <2>3. CASE First(stream, Len(Magic)) # Magic
    <3>1. snapshot # Written(g)
      BY <1>0, <2>1, <2>3, MagicRead
    <3>2. reading' = "error"
      BY <2>1, <2>3
    <3> QED BY <2>1, <3>1, <3>2
  <2> QED BY <2>2, <2>3
<1>4. CASE ReadCount
  <2> DEFINE b == First(stream, CountBytes)
  <2>1. /\ reading = "count" /\ nodes = <<>> /\ Len(stream) = Len(snapshot) - Len(Magic)
        /\ StandsAt(stream, snapshot, Len(Magic))
        /\ stream' = Rest(stream, CountBytes) /\ snapshot' = snapshot /\ nodes' = nodes
    BY <1>4 DEF ReadCount
  <2>2. \/ Len(b) < CountBytes /\ reading' = "error"
        \/ ~(Len(b) < CountBytes) /\ reading' = "length" /\ count' = FromLittleEndian(b)
    BY <1>4 DEF ReadCount
  <2>3. /\ snapshot = Written(g) => ~(Len(b) < CountBytes)
        /\ ~(Len(b) < CountBytes) =>
              /\ FromLittleEndian(b) = Len(g.nodes)
              /\ AtLength(g, Len(g.nodes), <<>>, stream', snapshot)
    BY <1>0, <2>1, CountRead
  <2> HIDE DEF b
  <2>4. ASSUME Len(b) < CountBytes, reading' = "error" PROVE ReadsGraph(g)'
    <3>1. snapshot # Written(g)
      BY <2>3, <2>4
    <3> QED BY <2>1, <2>4, <3>1
  <2>5. ASSUME ~(Len(b) < CountBytes), reading' = "length", count' = FromLittleEndian(b)
        PROVE  ReadsGraph(g)'
    <3>1. AtLength(g, count', nodes', stream', snapshot')
      BY <2>1, <2>3, <2>5
    <3> QED BY <2>5, <3>1
  <2> QED BY <2>2, <2>4, <2>5
<1>5. CASE ReadLength
  <2> DEFINE b == Buffer(stream, MaxVarint)
             v == DecodeVarint(b)
             t == Rest(b, VarintLen(v)) \o Rest(stream, MaxVarint)
  <2>1. /\ \/ AtLength(g, count, nodes, stream, snapshot)
           \/ Lost(g, count, nodes, stream, snapshot)
        /\ UNCHANGED <<snapshot, count, nodes, meta>>
    BY <1>5 DEF ReadLength
  <2>2. \/ v = -1 /\ reading' = "error"
        \/ v # -1 /\ reading' = "message" /\ length' = v /\ stream' = t
    BY <1>5 DEF ReadLength
  <2>3. /\ AtLength(g, count, nodes, stream, snapshot) =>
              /\ v # -1
              /\ \/ AtMessage(g, count, nodes, t, snapshot, v)
                 \/ CutOff(g, count, nodes, t, snapshot)
        /\ Lost(g, count, nodes, stream, snapshot) /\ v # -1 =>
              v = 0 /\ Lost(g, count, nodes, t, snapshot)
    BY <1>0, LengthRead
  <2> HIDE DEF b, v, t
  <2>4. ASSUME v = -1, reading' = "error" PROVE ReadsGraph(g)'
    <3>1. snapshot # Written(g)
      BY <2>1, <2>3, <2>4 DEF Lost
    <3> QED BY <2>1, <2>4, <3>1
  <2>5. ASSUME v # -1, reading' = "message", length' = v, stream' = t PROVE ReadsGraph(g)'
    <3>1. \/ AtMessage(g, count', nodes', stream', snapshot', length')
          \/ CutOff(g, count', nodes', stream', snapshot')
          \/ Lost(g, count', nodes', stream', snapshot') /\ length' = 0
      BY <2>1, <2>3, <2>5
    <3> QED BY <2>5, <3>1
  <2> QED BY <2>2, <2>4, <2>5
<1>6. CASE ReadMessage
  <2> DEFINE b == First(stream, length)
             r == Rest(stream, length)
             whole == Len(b) = length /\ Decodable(b)
  <2>1. /\ \/ AtMessage(g, count, nodes, stream, snapshot, length)
           \/ CutOff(g, count, nodes, stream, snapshot)
           \/ Lost(g, count, nodes, stream, snapshot) /\ length = 0
        /\ UNCHANGED <<snapshot, length>> /\ stream' = r
        /\ count' = IF count = 0 THEN 0 ELSE count - 1
    BY <1>6 DEF ReadMessage
  <2>2. /\ snapshot = Written(g) =>
              Len(b) = length /\ Decodable(b) /\ ~(count > 0 /\ b = <<>>)
        /\ count > 0 /\ b # <<>> =>
              \/ AtLength(g, count - 1, Append(nodes, Decode(b)), r, snapshot)
              \/ Lost(g, count - 1, Append(nodes, Decode(b)), r, snapshot)
        /\ count = 0 => GraphRead(g, nodes, Decode(b), snapshot)
    BY <1>0, <2>1, MessageRead
  <2>3. reading' = CASE ~whole -> "error"
                     [] whole /\ count > 0 /\ b = <<>> -> "panic"
                     [] whole /\ count > 0 /\ b # <<>> -> "length"
                     [] whole /\ count = 0 -> "ok"
    BY <1>6 DEF ReadMessage
  <2>4. /\ nodes' = IF whole /\ count > 0 THEN Append(nodes, Decode(b)) ELSE nodes
        /\ meta' = IF whole /\ count = 0 THEN Decode(b) ELSE meta
    BY <1>6 DEF ReadMessage
  <2>5. (count > 0 \/ count = 0) /\ ~(count > 0 /\ count = 0)
    BY <1>0
  <2>6. snapshot = Written(g) => whole
    BY <2>2
  <2> HIDE DEF b, r, whole
  <2>7. CASE ~whole
    <3>1. reading' = "error" /\ snapshot' # Written(g)
      BY <2>1, <2>3, <2>6, <2>7
    <3> QED BY <3>1
  <2>8. CASE whole /\ count > 0 /\ b = <<>>
    <3>1. reading' = "panic" /\ snapshot' # Written(g)
      BY <2>1, <2>2, <2>3, <2>5, <2>8
    <3> QED BY <3>1
  <2>9. CASE whole /\ count > 0 /\ b # <<>>
    <3>1. reading' = "length"
      BY <2>3, <2>5, <2>9
    <3>2. nodes' = Append(nodes, Decode(b)) /\ count' = count - 1
      BY <2>1, <2>4, <2>5, <2>9
    <3>3. \/ AtLength(g, count', nodes', stream', snapshot')
          \/ Lost(g, count', nodes', stream', snapshot')
      BY <2>1, <2>2, <2>9, <3>2
    <3> QED BY <3>1, <3>3
  <2>10. CASE whole /\ count = 0
    <3>1. reading' = "ok"
      BY <2>3, <2>5, <2>10
    <3>2. nodes' = nodes /\ meta' = Decode(b)
      BY <2>4, <2>5, <2>10
    <3>3. GraphRead(g, nodes', meta', snapshot')
      BY <2>1, <2>2, <2>10, <3>2
    <3> QED BY <3>1, <3>3
  <2> QED BY <2>5, <2>7, <2>8, <2>9, <2>10
<1> QED
  BY <1>1, <1>2, <1>3, <1>4, <1>5, <1>6
     DEF FileNext, fileVars, readVars, Create, WriteChunk, Crash

\* The file a reader opens is whole and old, or begins the new one.
LEMMA Opened ==
    ASSUME FileInv, [FileNext]_fileVars
    PROVE  /\ UNCHANGED <<old, graph>>
           /\ \/ Open /\ reading = "idle" /\ nodes = <<>> /\ nodes' = <<>>
                      /\ reading' = "magic" /\ snapshot' = file /\ stream' = file
                      /\ (file = Written(old) \/ Begins(file, Written(graph)))
              \/ reading = "idle" /\ UNCHANGED readVars
              \/ reading # "idle" /\ reading' # "idle" /\ snapshot' = snapshot
<1>1. WriterInv /\ (reading = "idle" => nodes = <<>>)
  BY DEF FileInv
<1>2. file = Written(old) \/ Begins(file, Written(graph))
  BY <1>1, FileBegins
<1>3. UNCHANGED <<old, graph>>
  BY DEF FileNext, fileVars, Create, WriteChunk, Crash, Open, ReadMagic, ReadCount,
         ReadLength, ReadMessage
<1>4. CASE UNCHANGED readVars
  BY <1>3, <1>4 DEF readVars
<1>5. CASE Open
  BY <1>1, <1>2, <1>3, <1>5 DEF Open
<1>6. CASE ReadMagic \/ ReadCount \/ ReadLength
  BY <1>3, <1>6 DEF ReadMagic, ReadCount, ReadLength
<1>7. CASE ReadMessage
  <2>1. reading = "message" /\ snapshot' = snapshot
    BY <1>7 DEF ReadMessage
  <2>2. reading' # "idle"
    <3> DEFINE b == First(stream, length)
               whole == Len(b) = length /\ Decodable(b)
    <3>1. reading' = CASE ~whole -> "error"
                       [] whole /\ count > 0 /\ b = <<>> -> "panic"
                       [] whole /\ count > 0 /\ b # <<>> -> "length"
                       [] whole /\ count = 0 -> "ok"
      BY <1>7 DEF ReadMessage
    <3>2. count > 0 \/ count = 0
      BY DEF FileInv, ReadTypes
    <3> HIDE DEF b, whole
    <3> QED BY <3>1, <3>2
  <2> QED BY <1>3, <2>1, <2>2
<1> QED
  BY <1>4, <1>5, <1>6, <1>7 DEF FileNext, fileVars, readVars, Create, WriteChunk, Crash

\* The invariant holds where nothing is written or read yet.
LEMMA FileStarts == FileInit => FileInv
<1> SUFFICES ASSUME FileInit PROVE FileInv
  OBVIOUS
<1>1. WriterInv
  BY WriterInit
<1>2. /\ stream = <<>> /\ snapshot = <<>> /\ reading = "idle" /\ length = 0 /\ count = 0
      /\ nodes = <<>> /\ meta = <<>>
  BY DEF FileInit
<1>3. ReadTypes
  BY <1>2 DEF ReadTypes
<1> QED BY <1>1, <1>2, <1>3 DEF FileInv

\* Every step of the writer and of the reader keeps the invariant.
LEMMA FileStep == FileInv /\ [FileNext]_fileVars => FileInv'
<1> SUFFICES ASSUME FileInv, [FileNext]_fileVars PROVE FileInv'
  OBVIOUS
<1>1. /\ WriterInv /\ ReadTypes
      /\ reading # "idle" => snapshot = Written(old) \/ Begins(snapshot, Written(graph))
      /\ \A g \in {old, graph} :
            reading # "idle" /\ Begins(snapshot, Written(g)) => ReadsGraph(g)
  BY DEF FileInv
<1>2. WriterInv'
  BY <1>1, WriterStep
<1>3. ReadTypes'
  BY <1>1, TypesKept
<1>4. /\ UNCHANGED <<old, graph>>
      /\ \/ Open /\ reading = "idle" /\ nodes = <<>> /\ nodes' = <<>>
                 /\ reading' = "magic" /\ snapshot' = file /\ stream' = file
                 /\ (file = Written(old) \/ Begins(file, Written(graph)))
         \/ reading = "idle" /\ UNCHANGED readVars
         \/ reading # "idle" /\ reading' # "idle" /\ snapshot' = snapshot
  BY Opened
<1>5. reading' = "idle" => nodes' = <<>>
  BY <1>4 DEF readVars, FileInv
<1>6. reading' # "idle" => snapshot' = Written(old') \/ Begins(snapshot', Written(graph'))
  BY <1>1, <1>4 DEF readVars
<1>7. ASSUME NEW g \in {old, graph}, reading' # "idle", Begins(snapshot', Written(g))
      PROVE  ReadsGraph(g)'
  <2>1. g \in Graphs
    BY <1>1 DEF WriterInv
  <2>2. CASE reading = "idle"
    <3>1. reading' = "magic" /\ stream' = snapshot' /\ nodes' = <<>>
      BY <1>4, <1>7, <2>2 DEF readVars
    <3> QED BY <3>1 DEF ReadsGraph
  <2>3. CASE reading # "idle"
    <3>1. snapshot' = snapshot
      BY <1>4, <2>3 DEF readVars
    <3>2. Begins(snapshot, Written(g))
      BY <1>7, <3>1
    <3>3. ReadsGraph(g)
      BY <1>1, <2>3, <3>2
    <3> QED BY <1>1, <2>1, <2>3, <3>2, <3>3, ReadingKept
  <2> QED BY <2>2, <2>3
<1>8. \A g \in {old', graph'} :
          reading' # "idle" /\ Begins(snapshot', Written(g)) => ReadsGraph(g)'
  BY <1>4, <1>7
<1> QED BY <1>2, <1>3, <1>5, <1>6, <1>8 DEF FileInv

\* It holds in every state.
LEMMA FileCorrect == FileSpec => []FileInv
BY FileStarts, FileStep, PTL DEF FileSpec

-----------------------------------------------------------------------------
\* The variables have their types: what is written, and what is read of any
\* file an interrupted writer leaves, are bytes.
THEOREM FileTypesCorrect == FileSpec => []FileTypeOK
<1>1. FileInv => FileTypeOK
  <2> SUFFICES ASSUME FileInv PROVE FileTypeOK
    OBVIOUS
  <2>1. WriterInv /\ ReadTypes
    BY DEF FileInv
  <2>2. file \in Seq(Bytes)
    BY <2>1, FileBegins
  <2>3. old \in Graphs /\ graph \in Graphs /\ written \in 0..Chunks(graph)
    BY <2>1 DEF WriterInv
  <2>4. ptr \in Nat
    <3> DEFINE n == Len(graph.nodes)
               k == IF written <= 2 + n THEN written ELSE 2 + n
    <3>1. ptr = Pos(graph, k)
      BY <2>1 DEF WriterInv
    <3>2. n \in Nat /\ Chunks(graph) = 4 + n
      BY <2>3, GraphTypes DEF Chunks
    <3>3. k \in 0..Chunks(graph)
      <4> HIDE DEF n
      <4> QED BY <2>3, <3>2
    <3> HIDE DEF k, n
    <3> QED BY <2>3, <3>1, <3>3, Positions
  <2>5. writer \in {"idle", "writing", "done", "crashed"}
    BY <2>1 DEF WriterInv
  <2> QED BY <2>1, <2>2, <2>3, <2>4, <2>5 DEF ReadTypes, FileTypeOK
<1> QED BY <1>1, FileCorrect, PTL

\* A whole file is read back as the graph it was written from: the bytes that
\* a length takes from the message behind it are given back, all of them.
THEOREM RoundTripHolds == FileSpec => []RoundTrip
<1>1. FileInv => RoundTrip
  <2> SUFFICES ASSUME FileInv, NEW g \in {old, graph}, Ended, Whole(g)
               PROVE  reading = "ok" /\ nodes = g.nodes /\ meta = g.meta
    BY DEF RoundTrip
  <2>1. /\ reading \in {"ok", "error", "panic"} /\ snapshot = Written(g)
    BY DEF Ended, Whole
  <2>2. Begins(snapshot, Written(g))
    <3>1. snapshot \in Seq(Bytes)
      BY DEF FileInv, ReadTypes
    <3>2. Len(snapshot) \in Nat
      BY <3>1
    <3> QED BY <2>1, <3>2 DEF Begins
  <2>3. ReadsGraph(g)
    BY <2>1, <2>2 DEF FileInv
  <2> QED BY <2>1, <2>3 DEF ReadsGraph, GraphRead
<1> QED BY <1>1, FileCorrect, PTL

\* Whatever a reader accepts of a file that is still being written, or whose
\* writer has stopped, has all the nodes, and all but the last as written.
THEOREM OnlyTheEndIsLostHolds == FileSpec => []OnlyTheEndIsLost
<1>1. FileInv => OnlyTheEndIsLost
  <2> SUFFICES ASSUME FileInv, reading = "ok", ~Whole(old)
               PROVE  /\ Len(nodes) = Len(graph.nodes)
                      /\ \A k \in 1..Len(nodes) - 1 : nodes[k] = graph.nodes[k]
    BY DEF OnlyTheEndIsLost
  <2>1. Begins(snapshot, Written(graph))
    BY DEF FileInv, Whole
  <2>2. ReadsGraph(graph)
    BY <2>1 DEF FileInv
  <2>3. GraphRead(graph, nodes, meta, snapshot)
    BY <2>2 DEF ReadsGraph
  <2> QED BY <2>3 DEF GraphRead
<1> QED BY <1>1, FileCorrect, PTL
=============================================================================
