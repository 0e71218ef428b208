-------------------------- MODULE CalcWitness_proofs --------------------------
(***************************************************************************)
(* Proofs about CalcWitness, for main components with any number of inputs *)
(* of any length, for any files, and for fields and words of any size.     *)
(***************************************************************************)
EXTENDS CalcWitness, Graph_proofs

-----------------------------------------------------------------------------
(***************************************************************************)
(* The inductive invariant.                                                *)
(***************************************************************************)

Building == pc \in {"sample", "declare"}
Calculating == pc \in {"populate", "evaluate", "ok"}

\* Until optimize is called the graph is 1, which the program never uses as a
\* node of its own, and an Input node for each place.
BuilderNodes ==
    /\ Len(nodes) >= 2 /\ nodes[1] = Constant(1)
    /\ \A k \in 2..Len(nodes) : nodes[k] = InputNode(k - 2)
    /\ \A n \in DOMAIN info : info[n].offset + info[n].len <= Len(nodes) - 1

\* Afterwards the Input nodes that are left are next to each other.
OptimizedNodes ==
    /\ InputNodes(nodes) # {}
    /\ \E b \in Nat : \A k \in DOMAIN nodes : nodes[k].val \in 0..b
    /\ \A k \in DOMAIN nodes : nodes[k].kind # "Input" => k = 1 \/ k = Len(nodes)
    /\ \A k \in DOMAIN nodes :
          \/ nodes[k].kind \in {"Input", "Constant"}
          \/ /\ nodes[k].kind = "Op" /\ nodes[k].op = "Add"
             /\ nodes[k].args[1] \in 1..k - 1 /\ nodes[k].args[2] \in 1..k - 1

\* The inputs that are declared have places of their own, from 1 on.
DeclaredInputs == IF Building THEN 1..cursor ELSE DOMAIN layout
Disjoint(m, n) == \/ info[m].offset + info[m].len <= info[n].offset
                  \/ info[n].offset + info[n].len <= info[m].offset
PlacesOfInputs ==
    /\ DOMAIN info = {layout[k].name : k \in DeclaredInputs}
    /\ \A k \in DeclaredInputs : info[layout[k].name].len = layout[k].len
    /\ \A n \in DOMAIN info : info[n].offset >= 1
    /\ \A m, n \in DOMAIN info : m = n \/ Disjoint(m, n)
PlacesOfSignals ==
    /\ \A n \in DOMAIN info : \A e \in 1..info[n].len :
          <<n, e>> \in DOMAIN signals /\ signals[<<n, e>>] = info[n].offset + e - 1
    /\ \A s \in DOMAIN signals :
          s = <<s[1], s[2]>> /\ s[1] \in DOMAIN info /\ s[2] \in 1..info[s[1]].len

\* The buffer holds 1, the elements of the inputs that have been put into it,
\* and 0 for those that have not.
Reserved(n) == info[n].offset..info[n].offset + info[n].len - 1
FilledBuffer ==
    /\ DOMAIN buffer = 0..InputsSize(nodes) - 1
    /\ buffer[0] = 1
    /\ pending \subseteq DOMAIN given.inputs
    /\ \A n \in DOMAIN given.inputs \ pending : ~Misfits(n)
    /\ \A n \in DOMAIN info : \A p \in Reserved(n) : p \in DOMAIN buffer =>
          buffer[p] = IF n \in DOMAIN given.inputs \ pending
                      THEN Input(given, n)[p - info[n].offset + 1] ELSE 0

\* The nodes before the cursor have been evaluated.
EvaluatedNodes ==
    /\ Len(values) = cursor /\ cursor <= Len(nodes)
    /\ \A k \in 1..cursor :
          nodes[k].kind = "Input" => values[k] = buffer[nodes[k].val] % M

IInv ==
    /\ TypeOK
    /\ values \in Seq(Field)
    /\ pc # "refused" => PlacesOfInputs /\ PlacesOfSignals
    /\ Building => BuilderNodes /\ cursor <= Len(layout) /\ values = <<>>
    /\ pc = "sample" => cursor = 0
    /\ pc \in {"parse", "open", "size", "populate", "evaluate", "ok"} => OptimizedNodes
    /\ pc \in {"parse", "open", "size", "populate"} => cursor = 0 /\ values = <<>>
    /\ pc \in {"open", "size"} \/ Calculating => Readable(given)
    /\ pc \in {"open", "size"} => pending = DOMAIN given.inputs
    /\ Calculating => FilledBuffer
    /\ pc \in {"evaluate", "ok"} => EvaluatedNodes /\ pending = {}
    /\ pc = "ok" => cursor = Len(nodes)
    /\ pc = "panic" => \E n \in DOMAIN given.inputs : Deserved(n)

-----------------------------------------------------------------------------
(***************************************************************************)
(* Functions, graphs and inputs.                                           *)
(***************************************************************************)

\* A map after insertions has the new entries and the other old ones.
LEMMA InsertedEntries ==
    ASSUME NEW f, NEW g
    PROVE  /\ DOMAIN Inserted(f, g) = (DOMAIN f) \cup (DOMAIN g)
           /\ \A x \in DOMAIN f : Inserted(f, g)[x] = f[x]
           /\ \A x \in (DOMAIN g) \ (DOMAIN f) : Inserted(f, g)[x] = g[x]
BY DEF Inserted

\* Nodes that are pushed after the nodes of a graph make a graph.
LEMMA PushedNodes ==
    ASSUME NEW ns, IsGraph(ns), NEW n \in Nat, NEW new,
           new = [i \in 1..n |-> new[i]], \A i \in 1..n : IsNode(new[i])
    PROVE  /\ IsGraph(ns \o new) /\ Len(ns \o new) = Len(ns) + n
           /\ \A k \in 1..Len(ns) : (ns \o new)[k] = ns[k]
           /\ \A i \in 1..n : (ns \o new)[Len(ns) + i] = new[i]
<1> DEFINE S == Range(ns) \cup Range(new)
           all == ns \o new
<1>1. Len(ns) \in Nat /\ DOMAIN ns = 1..Len(ns) /\ \A k \in 1..Len(ns) : IsNode(ns[k])
  BY GraphShape
<1>2. ns \in Seq(S)
  <2>1. ns \in [1..Len(ns) -> S]
    BY <1>1, LenProperties DEF IsGraph, Range
  <2> HIDE DEF S
  <2> QED
    BY <1>1, <2>1
<1>3. new \in Seq(S) /\ Len(new) = n
  <2>1. new \in [1..n -> S]
    BY DEF Range
  <2> HIDE DEF S
  <2> QED
    BY <2>1
<1>4. /\ all \in Seq(S) /\ Len(all) = Len(ns) + n
      /\ \A i \in 1..Len(ns) + n : all[i] = IF i <= Len(ns) THEN ns[i] ELSE new[i - Len(ns)]
  BY <1>2, <1>3, ConcatProperties
<1>5. all = [k \in 1..Len(ns) + n |-> all[k]]
  BY <1>4, LenProperties
<1> HIDE DEF all
<1>6. \A k \in 1..Len(ns) : all[k] = ns[k]
  <2>1. \A k \in 1..Len(ns) : k \in 1..Len(ns) + n /\ k <= Len(ns)
    BY <1>1
  <2> QED
    BY <1>4, <2>1
<1>7. \A i \in 1..n : all[Len(ns) + i] = new[i]
  <2> TAKE i \in 1..n
  <2>1. Len(ns) + i \in 1..Len(ns) + n /\ ~(Len(ns) + i <= Len(ns)) /\ Len(ns) + i - Len(ns) = i
    BY <1>1
  <2>2. all[Len(ns) + i] = new[Len(ns) + i - Len(ns)]
    <3> DEFINE j == Len(ns) + i
    <3>1. j \in 1..Len(ns) + n /\ ~(j <= Len(ns))
      BY <2>1
    <3> HIDE DEF j
    <3>2. all[j] = new[j - Len(ns)]
      BY <1>4, <3>1
    <3> QED
      BY <3>2 DEF j
  <2> QED
    BY <2>1, <2>2
<1>8. ASSUME NEW k \in 1..Len(ns) + n PROVE IsNode(all[k])
  <2>1. CASE k \in 1..Len(ns)
    BY <1>1, <1>6, <2>1
  <2>2. CASE k \notin 1..Len(ns)
    <3>1. k - Len(ns) \in 1..n /\ k = Len(ns) + (k - Len(ns))
      BY <1>1, <2>2
    <3> QED
      BY <1>7, <3>1
  <2> QED
    BY <2>1, <2>2
<1>9. IsGraph(all) /\ Len(all) = Len(ns) + n
  <2>1. Len(ns) + n \in Nat
    BY <1>1
  <2> QED
    BY <1>5, <1>8, <2>1, GraphOf
<1> QED
  BY <1>6, <1>7, <1>9 DEF all

\* A node that is pushed after the nodes of a graph.
LEMMA PushedNode ==
    ASSUME NEW ns, IsGraph(ns), NEW n, IsNode(n)
    PROVE  /\ IsGraph(Append(ns, n)) /\ Len(Append(ns, n)) = Len(ns) + 1
           /\ \A k \in 1..Len(ns) : Append(ns, n)[k] = ns[k]
           /\ Append(ns, n)[Len(ns) + 1] = n
<1> DEFINE new == [i \in 1..1 |-> n]
<1>1. /\ IsGraph(ns \o new) /\ Len(ns \o new) = Len(ns) + 1
      /\ \A k \in 1..Len(ns) : (ns \o new)[k] = ns[k]
      /\ \A i \in 1..1 : (ns \o new)[Len(ns) + i] = new[i]
  BY PushedNodes
<1>2. Append(ns, n) = ns \o new
  <2>1. new = <<n>>
    OBVIOUS
  <2>2. ns \in Seq(Range(ns) \cup {n})
    <3>1. Len(ns) \in Nat /\ ns \in [1..Len(ns) -> Range(ns)]
      BY LenProperties DEF IsGraph
    <3> QED
      BY <3>1
  <2>3. n \in Range(ns) \cup {n}
    OBVIOUS
  <2> QED
    BY <2>1, <2>2, <2>3, AppendIsConcat
<1> QED
  BY <1>1, <1>2

\* The main component's inputs have names of their own.
LEMMA LayoutType ==
    ASSUME NEW l \in Layouts
    PROVE  /\ Len(l) \in Nat /\ DOMAIN l = 1..Len(l)
           /\ \A k \in DOMAIN l : l[k].name \in Names /\ l[k].len \in Nat
           /\ \A i, j \in DOMAIN l : l[i].name = l[j].name => i = j
<1>1. l \in Seq([name : Names, len : Nat])
  BY LayoutAssumption
<1>2. \A i, j \in DOMAIN l : l[i].name = l[j].name => i = j
  BY LayoutAssumption
<1>3. Len(l) \in Nat /\ DOMAIN l = 1..Len(l) /\ \A k \in 1..Len(l) : l[k] \in [name : Names, len : Nat]
  BY <1>1, LenProperties
<1> QED
  BY <1>2, <1>3

\* An input that can be read is a sequence of words.
LEMMA InputType ==
    ASSUME NEW f \in Files, Readable(f), NEW n \in DOMAIN f.inputs
    PROVE  /\ Len(Input(f, n)) \in Nat /\ DOMAIN Input(f, n) = 1..Len(Input(f, n))
           /\ \A i \in 1..Len(Input(f, n)) : Input(f, n)[i] \in Words
<1> DEFINE v == f.inputs[n]
           es == Elements(v)
<1>1. v.elems \in Seq(Range(v.elems))
  BY LayoutAssumption
<1>2. Len(es) \in Nat /\ DOMAIN es = 1..Len(es)
  <2>1. CASE v.json = "Array"
    BY <1>1, <2>1, LenProperties DEF Elements
  <2>2. CASE v.json # "Array"
    BY <2>2 DEF Elements
  <2> QED
    BY <2>1, <2>2
<1>3. \A i \in DOMAIN es : IsWord(es[i])
  BY DEF Readable, Range
<1>4. \A e : IsWord(e) => e.val \in Words
  BY Sizes DEF IsWord, Words
<1> HIDE DEF es
<1>5. Input(f, n) = [i \in 1..Len(es) |-> es[i].val]
  BY <1>2 DEF Input, es
<1>6. Input(f, n) \in Seq(Words) /\ Len(Input(f, n)) = Len(es)
  <2>1. \A i \in 1..Len(es) : es[i].val \in Words
    BY <1>2, <1>3, <1>4
  <2>2. Input(f, n) \in [1..Len(es) -> Words]
    BY <1>5, <2>1
  <2> QED
    BY <1>2, <2>2
<1> QED
  BY <1>6, LenProperties

\* What is reduced by the modulus is an element of the field.
LEMMA ReducedIsField == \A x \in Int : x % M \in Field
BY FieldAssumption DEF Field

-----------------------------------------------------------------------------
(***************************************************************************)
(* Every action keeps the invariant.                                       *)
(***************************************************************************)

\* The builder starts with 1 and the place of the constant signal.
LEMMA InitIInv == Init => IInv
<1> SUFFICES ASSUME Init PROVE IInv
  OBVIOUS
<1>1. /\ layout \in Layouts /\ sample \subseteq Files /\ given \in Files
      /\ pc = "sample" /\ cursor = 0 /\ info = <<>> /\ signals = <<>>
      /\ pending = {} /\ buffer = <<>> /\ values = <<>>
      /\ nodes = <<Constant(1), InputNode(0)>>
  BY DEF Init
<1>2. Len(layout) \in Nat
  BY <1>1, LayoutType
<1>3. IsGraph(nodes) /\ Len(nodes) = 2
  BY <1>1, GraphOf, ConstantNode, InputAndOpNode
<1>4. DOMAIN nodes = 1..2 /\ nodes[1] = Constant(1) /\ nodes[2] = InputNode(0)
  BY <1>1
<1>5. \A k \in DOMAIN nodes : nodes[k].val \in Nat
  BY <1>4 DEF Constant, InputNode, Node
<1>6. DOMAIN info = {} /\ DOMAIN signals = {} /\ DOMAIN buffer = {} /\ DOMAIN values = {}
  BY <1>1
<1>7. TypeOK
  BY <1>1, <1>3, <1>5, <1>6 DEF TypeOK, Range
<1>8. BuilderNodes
  BY <1>3, <1>4, <1>6 DEF BuilderNodes
<1>9. PlacesOfInputs /\ PlacesOfSignals
  BY <1>1, <1>6 DEF PlacesOfInputs, PlacesOfSignals, DeclaredInputs, Building
<1>10. values \in Seq(Field)
  BY <1>1
<1> QED
  BY <1>1, <1>2, <1>7, <1>8, <1>9, <1>10 DEF IInv, Building, Calculating

\* Reading the sample file changes nothing but the control.
LEMMA ReadSampleStep == IInv /\ ReadSample => IInv'
<1> SUFFICES ASSUME IInv, ReadSample PROVE IInv'
  OBVIOUS
<1>1. /\ pc = "sample" /\ pc' \in {"declare", "refused"}
      /\ UNCHANGED <<layout, sample, given, cursor, info, signals, nodes, pending,
                     buffer, values>>
  BY DEF ReadSample
<1>2. TypeOK' /\ values' \in Seq(Field)
  BY <1>1 DEF IInv, TypeOK
<1>3. PlacesOfInputs /\ PlacesOfSignals /\ BuilderNodes
  BY <1>1 DEF IInv, Building
<1>4. BuilderNodes' /\ PlacesOfSignals'
  BY <1>1, <1>3 DEF BuilderNodes, PlacesOfSignals
<1>5. pc' = "declare" => PlacesOfInputs'
  BY <1>1, <1>3 DEF PlacesOfInputs, DeclaredInputs, Building, Disjoint
<1> QED
  BY <1>1, <1>2, <1>4, <1>5 DEF IInv, Building, Calculating

\* The next input is given the places behind those that are taken.
LEMMA DeclareStep == IInv /\ Declare => IInv'
<1> SUFFICES ASSUME IInv, Declare PROVE IInv'
  OBVIOUS
<1> DEFINE s == layout[cursor + 1]
           N == Len(nodes)
           new == [i \in 1..s.len |-> InputNode(N - 1 + i - 1)]
<1>1. /\ pc = "declare" /\ cursor < Len(layout) /\ cursor' = cursor + 1
      /\ UNCHANGED <<layout, sample, given, pending, buffer, values>>
  BY DEF Declare
<1>2. /\ TypeOK /\ values = <<>> /\ BuilderNodes /\ PlacesOfInputs /\ PlacesOfSignals
  BY <1>1 DEF IInv, Building
<1>3. /\ Len(layout) \in Nat /\ DOMAIN layout = 1..Len(layout) /\ cursor \in Nat
      /\ \A i, j \in DOMAIN layout : layout[i].name = layout[j].name => i = j
      /\ cursor + 1 \in DOMAIN layout /\ s.name \in Names /\ s.len \in Nat
  BY <1>1, <1>2, LayoutType DEF TypeOK
<1>4. N \in Nat /\ N >= 2 /\ DOMAIN nodes = 1..N
  BY <1>2, GraphShape DEF TypeOK, BuilderNodes
<1>5. NextPlace = N - 1
  <2>1. nodes[1].kind # "Input" /\ \A k \in 2..N : nodes[k].kind = "Input"
    <3>1. nodes[1] = Constant(1) /\ \A k \in 2..N : nodes[k] = InputNode(k - 2)
      BY <1>2 DEF BuilderNodes
    <3>2. Constant(1).kind = "Constant"
      BY DEF Constant, Node
    <3> HIDE DEF N
    <3> QED
      BY <3>1, <3>2, InputAndOpNode
  <2>2. InputNodes(nodes) = 2..N
    BY <1>4, <2>1 DEF InputNodes
  <2> QED
    BY <1>4, <2>2, FS_Interval DEF NextPlace
<1>6. CASE pc' = "refused"
  <2>1. UNCHANGED <<info, signals, nodes>>
    BY <1>1, <1>6 DEF Declare
  <2>2. TypeOK'
    BY <1>1, <1>2, <1>3, <1>6, <2>1 DEF TypeOK
  <2> QED
    BY <1>1, <1>2, <1>6, <2>2 DEF IInv, Building, Calculating
<1>7. CASE pc' # "refused"
  <2>1. /\ info' = Inserted([n \in {s.name} |-> Declared(s)], info)
        /\ signals' = Inserted([x \in {s.name} \X (1..s.len) |-> NextPlace + x[2] - 1],
                               signals)
        /\ nodes' = nodes \o [i \in 1..s.len |-> InputNode(NextPlace + i - 1)]
        /\ pc' = "declare"
    BY <1>1, <1>7 DEF Declare
  <2>2. DOMAIN info = {layout[k].name : k \in 1..cursor}
    BY <1>1, <1>2 DEF PlacesOfInputs, DeclaredInputs, Building
  <2>3. s.name \notin DOMAIN info
    BY <1>3, <2>2
  <2>4. /\ DOMAIN info' = DOMAIN info \cup {s.name}
        /\ info'[s.name] = [offset |-> N - 1, len |-> s.len]
        /\ \A n \in DOMAIN info : info'[n] = info[n]
    <3> DEFINE entry == [n \in {s.name} |-> Declared(s)]
    <3>1. DOMAIN entry = {s.name} /\ entry[s.name] = Declared(s)
      OBVIOUS
    <3>2. Declared(s) = [offset |-> N - 1, len |-> s.len]
      BY <1>5 DEF Declared
    <3>3. info' = Inserted(entry, info)
      BY <2>1
    <3> HIDE DEF entry, s, N
    <3> QED
      <4>1. /\ DOMAIN Inserted(entry, info) = DOMAIN entry \cup DOMAIN info
            /\ \A x \in DOMAIN entry : Inserted(entry, info)[x] = entry[x]
            /\ \A x \in DOMAIN info \ DOMAIN entry : Inserted(entry, info)[x] = info[x]
        BY InsertedEntries
      <4> QED
        BY <2>3, <3>1, <3>2, <3>3, <4>1
  <2>5. nodes' = nodes \o new
    BY <1>5, <2>1
  <2>6. /\ IsGraph(nodes') /\ Len(nodes') = N + s.len
        /\ \A k \in 1..N : nodes'[k] = nodes[k]
        /\ \A i \in 1..s.len : nodes'[N + i] = InputNode(N - 1 + i - 1)
    <3> DEFINE l == s.len
               all == nodes \o new
    <3>1. l \in Nat /\ \A i \in 1..l : IsNode(new[i])
      BY <1>3, InputAndOpNode
    <3>2. IsGraph(nodes)
      BY <1>2 DEF TypeOK
    <3>3. \A i \in 1..l : new[i] = InputNode(N - 1 + i - 1)
      OBVIOUS
    <3>4. new = [i \in 1..l |-> new[i]]
      OBVIOUS
    <3> HIDE DEF new, l
    <3>5. /\ IsGraph(all) /\ Len(all) = Len(nodes) + l
          /\ \A k \in 1..Len(nodes) : all[k] = nodes[k]
          /\ \A i \in 1..l : all[Len(nodes) + i] = new[i]
      BY <3>1, <3>2, <3>4, PushedNodes, SMTT(30)
    <3> HIDE DEF all
    <3>6. \A i \in 1..l : all[N + i] = InputNode(N - 1 + i - 1)
      BY <3>3, <3>5
    <3>7. nodes' = all /\ l = s.len
      BY <2>5 DEF all, l
    <3> HIDE DEF s
    <3> QED
      BY <3>5, <3>6, <3>7
  <2>7. \A k \in 2..N + s.len : nodes'[k] = InputNode(k - 2)
    <3> TAKE k \in 2..N + s.len
    <3>1. CASE k \in 2..N
      BY <1>2, <1>4, <2>6, <3>1 DEF BuilderNodes
    <3>2. CASE k \notin 2..N
      <4>1. k - N \in 1..s.len /\ k = N + (k - N) /\ N - 1 + (k - N) - 1 = k - 2
        BY <1>3, <1>4, <3>2
      <4>2. nodes'[N + (k - N)] = InputNode(N - 1 + (k - N) - 1)
        BY <2>6, <4>1
      <4> QED
        BY <4>1, <4>2
    <3> QED
      BY <3>1, <3>2
  <2>8. \A n \in DOMAIN info : info[n].offset \in Nat /\ info[n].len \in Nat
    BY <1>2 DEF TypeOK
  <2>9. BuilderNodes'
    <3>1. \A n \in DOMAIN info' : info'[n].offset + info'[n].len <= N + s.len - 1
      BY <1>2, <1>3, <1>4, <2>4, <2>8, SMTT(30) DEF BuilderNodes
    <3>2. nodes'[1] = Constant(1)
      BY <1>2, <1>4, <2>6 DEF BuilderNodes
    <3> QED
      BY <1>3, <1>4, <2>6, <2>7, <3>1, <3>2, SMTT(30) DEF BuilderNodes
  <2>10. PlacesOfInputs'
    <3>1. DeclaredInputs' = 1..cursor + 1 /\ DeclaredInputs = 1..cursor
      BY <1>1, <2>1 DEF DeclaredInputs, Building
    <3>2. DOMAIN info' = {layout[k].name : k \in 1..cursor + 1}
      BY <1>3, <2>2, <2>4
    <3>3. \A k \in 1..cursor + 1 : info'[layout[k].name].len = layout[k].len
      <4> TAKE k \in 1..cursor + 1
      <4>1. CASE k = cursor + 1
        BY <2>4, <4>1
      <4>2. CASE k \in 1..cursor
        BY <1>2, <2>2, <2>4, <3>1, <4>2 DEF PlacesOfInputs
      <4> QED
        BY <1>3, <4>1, <4>2
    <3>4. \A n \in DOMAIN info' : info'[n].offset >= 1
      BY <1>2, <1>4, <2>4 DEF PlacesOfInputs
    <3>5. \A m, n \in DOMAIN info' : m = n \/ Disjoint(m, n)'
      <4>1. SUFFICES ASSUME NEW m \in DOMAIN info', NEW n \in DOMAIN info', m # n
                     PROVE  Disjoint(m, n)'
        OBVIOUS
      <4>2. CASE m \in DOMAIN info /\ n \in DOMAIN info
        BY <1>2, <2>4, <4>1, <4>2 DEF PlacesOfInputs, Disjoint
      <4>3. CASE m \in DOMAIN info /\ n = s.name
        <5>1. info'[m].offset + info'[m].len <= info'[n].offset
          BY <1>2, <2>4, <4>3 DEF BuilderNodes
        <5> QED
          BY <5>1 DEF Disjoint
      <4>4. CASE m = s.name /\ n \in DOMAIN info
        <5>1. info'[n].offset + info'[n].len <= info'[m].offset
          BY <1>2, <2>4, <4>4 DEF BuilderNodes
        <5> QED
          BY <5>1 DEF Disjoint
      <4> QED
        BY <2>4, <4>1, <4>2, <4>3, <4>4
    <3> QED
      BY <1>1, <3>1, <3>2, <3>3, <3>4, <3>5 DEF PlacesOfInputs
  <2>11. /\ DOMAIN signals' = ({s.name} \X (1..s.len)) \cup DOMAIN signals
         /\ \A x \in {s.name} \X (1..s.len) : signals'[x] = N - 1 + x[2] - 1
         /\ \A x \in DOMAIN signals : signals'[x] = signals[x]
    <3>1. \A x \in DOMAIN signals : x \notin {s.name} \X (1..s.len)
      BY <1>2, <2>3 DEF PlacesOfSignals
    <3> DEFINE entries == [x \in {s.name} \X (1..s.len) |-> NextPlace + x[2] - 1]
    <3>2. /\ DOMAIN entries = {s.name} \X (1..s.len)
          /\ \A x \in {s.name} \X (1..s.len) : entries[x] = N - 1 + x[2] - 1
      BY <1>5
    <3>3. signals' = Inserted(entries, signals)
      BY <2>1
    <3> HIDE DEF entries, s, N
    <3> QED
      <4>1. /\ DOMAIN Inserted(entries, signals) = DOMAIN entries \cup DOMAIN signals
            /\ \A x \in DOMAIN entries : Inserted(entries, signals)[x] = entries[x]
            /\ \A x \in DOMAIN signals \ DOMAIN entries :
                  Inserted(entries, signals)[x] = signals[x]
        BY InsertedEntries
      <4> QED
        BY <3>1, <3>2, <3>3, <4>1
  <2>12. PlacesOfSignals'
    <3>1. ASSUME NEW n \in DOMAIN info', NEW e \in 1..info'[n].len
          PROVE  /\ <<n, e>> \in DOMAIN signals'
                 /\ signals'[<<n, e>>] = info'[n].offset + e - 1
      <4>1. CASE n = s.name
        BY <2>4, <2>11, <4>1
      <4>2. CASE n # s.name
        BY <1>2, <2>4, <2>11, <4>2 DEF PlacesOfSignals
      <4> QED
        BY <4>1, <4>2
    <3>2. ASSUME NEW x \in DOMAIN signals'
          PROVE  x = <<x[1], x[2]>> /\ x[1] \in DOMAIN info' /\ x[2] \in 1..info'[x[1]].len
      BY <1>2, <2>4, <2>11 DEF PlacesOfSignals
    <3> QED
      BY <3>1, <3>2 DEF PlacesOfSignals
  <2>13. TypeOK'
    <3>1. \A k \in DOMAIN nodes' : nodes'[k].val \in Nat
      <4>1. Constant(1).val = 1 /\ \A i \in Nat : InputNode(i).val \in Nat
        BY DEF Constant, InputNode, Node
      <4>2. DOMAIN nodes' = 1..N + s.len
        BY <2>6, GraphShape
      <4>3. nodes'[1] = Constant(1)
        BY <2>9 DEF BuilderNodes
      <4>4. \A k \in 2..N + s.len : k - 2 \in Nat
        BY <1>3, <1>4
      <4> QED
        BY <1>3, <1>4, <2>7, <4>1, <4>2, <4>3, <4>4
    <3>2. DOMAIN info' \subseteq Names
      BY <1>2, <1>3, <2>4 DEF TypeOK
    <3>3. \A n \in DOMAIN info' : info'[n].offset \in Nat /\ info'[n].len \in Nat
      BY <1>3, <1>4, <2>4, <2>8
    <3>4. DOMAIN signals' \subseteq Names \X Nat
      BY <1>2, <1>3, <2>11 DEF TypeOK
    <3>5. \A x \in DOMAIN signals' : signals'[x] \in Nat
      <4>1. \A x \in DOMAIN signals : signals[x] \in Nat
        BY <1>2 DEF TypeOK, Range
      <4> QED
        BY <1>3, <1>4, <2>11, <4>1
    <3>6. Range(signals') \subseteq Nat
      BY <3>5 DEF Range
    <3> QED
      <4>1. cursor + 1 \in Nat
        BY <1>3
      <4> HIDE DEF new, s, N
      <4>2. /\ layout' \in Layouts /\ sample' \subseteq Files /\ given' \in Files
            /\ pc' = "declare" /\ cursor' \in Nat /\ pending' \subseteq Names
            /\ DOMAIN buffer' \subseteq Nat /\ Range(buffer') \subseteq Words
            /\ Range(values') \subseteq Field
        BY <1>1, <1>2, <2>1, <4>1 DEF TypeOK
      <4> QED
        BY <2>6, <3>1, <3>2, <3>3, <3>4, <3>6, <4>2 DEF TypeOK
  <2> QED
    BY <1>1, <1>2, <1>3, <2>1, <2>9, <2>10, <2>12, <2>13 DEF IInv, Building, Calculating
<1> QED
  BY <1>6, <1>7

\* Whatever is dropped but the constant signal, and whatever is added behind,
\* the Input nodes that are left are next to each other.
LEMMA OptimizeStep == IInv /\ Optimize => IInv'
<1> SUFFICES ASSUME IInv, Optimize PROVE IInv'
  OBVIOUS
<1>1. /\ pc = "declare" /\ cursor = Len(layout) /\ pc' = "parse" /\ cursor' = 0
      /\ UNCHANGED <<layout, sample, given, info, signals, pending, buffer, values>>
  BY DEF Optimize
<1>2. TypeOK /\ values = <<>> /\ BuilderNodes /\ PlacesOfInputs /\ PlacesOfSignals
  BY <1>1 DEF IInv, Building
<1>3. IsGraph(nodes) /\ Len(nodes) \in Nat /\ Len(nodes) >= 2 /\ DOMAIN nodes = 1..Len(nodes)
  BY <1>2, GraphShape DEF TypeOK, BuilderNodes
<1>4. PICK unused \in SUBSET (DOMAIN nodes \ {2}) :
          nodes' = Append(Kept(nodes, DOMAIN nodes \ unused),
                          Op("Add", 1, Len(Kept(nodes, DOMAIN nodes \ unused))))
  BY DEF Optimize
<1> DEFINE keep == DOMAIN nodes \ unused
           r == Renumber(keep)
           C == Cardinality(keep)
           kept == Kept(nodes, keep)
           sum == Op("Add", 1, C)
<1>5. keep \in SUBSET (DOMAIN nodes) /\ 2 \in keep
  BY <1>3, <1>4
<1>6. keep \in SUBSET Nat /\ IsFiniteSet(keep)
  BY <1>3, <1>5, PositionsAreFinite
<1>7. /\ DOMAIN kept = 1..C
      /\ \A k \in 1..C : \E i \in keep : r[i] = k /\ kept[k] = nodes[i]
      /\ \A i \in keep : kept[r[i]] = nodes[i]
  <2> HIDE DEF keep
  <2> QED
    BY <1>6, KeptNodes
<1>8. C \in Nat /\ r \in [keep -> 1..C]
  <2> HIDE DEF keep
  <2> QED
    BY <1>6, RankType
<1>9. r[2] \in 1..C /\ C >= 1 /\ kept[r[2]] = nodes[2]
  <2>1. r[2] \in 1..C /\ kept[r[2]] = nodes[2]
    <3> HIDE DEF keep, r, kept
    <3> QED
      BY <1>5, <1>7, <1>8
  <2> HIDE DEF keep, r, C
  <2> QED
    BY <1>8, <2>1
<1>10. 1 \in keep => r[1] = 1
  <2>1. ASSUME 1 \in keep PROVE {j \in keep : j <= 1} = {1}
    BY <1>3, <2>1
  <2>2. ASSUME 1 \in keep PROVE r[1] = Cardinality({j \in keep : j <= 1})
    <3> HIDE DEF keep
    <3> QED
      BY <2>2 DEF Renumber
  <2> QED
    BY <2>1, <2>2, FS_Singleton
<1>11. /\ \A i \in 2..Len(nodes) : nodes[i] = InputNode(i - 2)
       /\ nodes[1] = Constant(1)
  BY <1>2 DEF BuilderNodes
<1>12. \A i \in DOMAIN nodes :
           /\ i = 1 => nodes[i].kind = "Constant" /\ nodes[i].val = 1
           /\ i # 1 => nodes[i].kind = "Input" /\ nodes[i].val = i - 2
  <2>1. Constant(1).kind = "Constant" /\ Constant(1).val = 1
    BY DEF Constant, Node
  <2>2. \A i \in DOMAIN nodes : i = 1 \/ i \in 2..Len(nodes)
    BY <1>3
  <2> QED
    BY <1>11, <2>1, <2>2, InputAndOpNode
<1> HIDE DEF keep, r, C, kept, sum
<1>13. \A k \in 1..C :
           /\ IsNode(kept[k]) /\ kept[k].val \in 0..Len(nodes)
           /\ kept[k].kind = "Input" \/ (kept[k].kind = "Constant" /\ k = 1)
  <2> TAKE k \in 1..C
  <2>1. PICK i \in keep : r[i] = k /\ kept[k] = nodes[i]
    BY <1>7
  <2>2. i \in DOMAIN nodes /\ IsNode(nodes[i])
    BY <1>3, <1>5, GraphShape
  <2>3. CASE i = 1
    BY <1>3, <1>10, <1>12, <2>1, <2>2, <2>3
  <2>4. CASE i # 1
    <3>1. i \in 2..Len(nodes)
      BY <1>3, <2>2, <2>4
    <3>2. nodes[i].kind = "Input" /\ nodes[i].val = i - 2
      BY <1>12, <2>2, <2>4
    <3>3. i - 2 \in 0..Len(nodes)
      BY <1>3, <3>1
    <3>4. /\ IsNode(nodes[i]) /\ nodes[i].val \in 0..Len(nodes)
          /\ nodes[i].kind = "Input" \/ (nodes[i].kind = "Constant" /\ k = 1)
      BY <1>3, <2>2, <3>1, <3>2, <3>3
    <3>5. kept[k] = nodes[i]
      BY <2>1
    <3> QED
      BY <3>4, <3>5
  <2> QED
    BY <2>3, <2>4
<1>14. IsGraph(kept) /\ Len(kept) = C
  <2>1. kept = [k \in 1..C |-> kept[k]]
    BY DEF kept, Kept, C
  <2>2. \A k \in 1..C : IsNode(kept[k])
    BY <1>13
  <2> QED
    BY <1>8, <2>1, <2>2, GraphOf
<1>15. /\ IsNode(sum) /\ sum.kind = "Op" /\ sum.op = "Add" /\ sum.val = 0
       /\ sum.args[1] = 1 /\ sum.args[2] = C
  <2>1. "Add" \in DuoOps
    BY DEF DuoOps
  <2> QED
    BY <1>8, <2>1, InputAndOpNode DEF sum
<1>16. nodes' = Append(kept, sum)
  BY <1>4, <1>14 DEF kept, keep, sum
<1>17. /\ IsGraph(nodes') /\ Len(nodes') = C + 1
       /\ \A k \in 1..C : nodes'[k] = kept[k]
       /\ nodes'[C + 1] = sum
  BY <1>14, <1>15, <1>16, PushedNode
<1>18. DOMAIN nodes' = 1..C + 1
  BY <1>17, GraphShape
<1>19. \A k \in DOMAIN nodes' : nodes'[k].val \in 0..Len(nodes)
  BY <1>3, <1>8, <1>13, <1>15, <1>17, <1>18
<1>20. OptimizedNodes'
  <2>1. r[2] \in InputNodes(nodes')
    <3>1. 2 \in DOMAIN nodes
      BY <1>3
    <3>2. nodes'[r[2]] = nodes[2] /\ nodes[2].kind = "Input"
      BY <1>9, <1>12, <1>17, <3>1
    <3>3. r[2] \in DOMAIN nodes'
      BY <1>8, <1>9, <1>18
    <3> QED
      BY <3>2, <3>3 DEF InputNodes
  <2>2. \A k \in DOMAIN nodes' : k \in 1..C \/ k = C + 1
    BY <1>8, <1>18
  <2>3. \A k \in DOMAIN nodes' : nodes'[k].kind # "Input" => k = 1 \/ k = Len(nodes')
    BY <1>13, <1>17, <2>2
  <2>4. 1 \in 1..(C + 1) - 1 /\ C \in 1..(C + 1) - 1
    BY <1>8, <1>9
  <2>5. \A k \in DOMAIN nodes' :
          \/ nodes'[k].kind \in {"Input", "Constant"}
          \/ /\ nodes'[k].kind = "Op" /\ nodes'[k].op = "Add"
             /\ nodes'[k].args[1] \in 1..k - 1 /\ nodes'[k].args[2] \in 1..k - 1
    BY <1>13, <1>15, <1>17, <2>2, <2>4
  <2> QED
    BY <1>3, <1>19, <2>1, <2>3, <2>5 DEF OptimizedNodes
<1>21. TypeOK'
  <2>1. \A k \in DOMAIN nodes' : nodes'[k].val \in Nat
    BY <1>3, <1>19
  <2> QED
    BY <1>1, <1>2, <1>17, <2>1 DEF TypeOK
<1>22. PlacesOfInputs' /\ PlacesOfSignals'
  <2>1. layout \in Layouts
    BY <1>2 DEF TypeOK
  <2>2. DeclaredInputs' = DeclaredInputs
    BY <1>1, <2>1, LayoutType DEF DeclaredInputs, Building
  <2> QED
    BY <1>1, <1>2, <2>2 DEF PlacesOfInputs, PlacesOfSignals, Disjoint
<1>23. values' \in Seq(Field) /\ values' = <<>>
  BY <1>1, <1>2
<1> QED
  BY <1>1, <1>20, <1>21, <1>22, <1>23 DEF IInv, Building, Calculating

\* What the steps from the file to the buffer leave alone.
LEMMA PlacesStay ==
    ASSUME PlacesOfInputs, PlacesOfSignals, ~Building, ~Building',
           UNCHANGED <<layout, info, signals>>
    PROVE  PlacesOfInputs' /\ PlacesOfSignals'
BY DEF PlacesOfInputs, PlacesOfSignals, DeclaredInputs, Disjoint

\* Reading the inputs or the graph sets only the inputs to be put in.
LEMMA FileStep == IInv /\ (DeserializeInputs \/ ReadGraph) => IInv'
<1> SUFFICES ASSUME IInv, DeserializeInputs \/ ReadGraph PROVE IInv'
  OBVIOUS
<1>1. /\ UNCHANGED <<layout, sample, given, cursor, info, signals, nodes, buffer, values>>
      /\ pc \in {"parse", "open"} /\ pc' \in {"stopped", "error", "open", "size"}
  BY DEF DeserializeInputs, ReadGraph
<1>2. /\ TypeOK /\ OptimizedNodes /\ PlacesOfInputs /\ PlacesOfSignals
      /\ cursor = 0 /\ values = <<>> /\ values \in Seq(Field)
  BY <1>1 DEF IInv
<1>3. OptimizedNodes'
  BY <1>1, <1>2 DEF OptimizedNodes
<1>4. pc' \in {"open", "size"} => Readable(given) /\ pending' = DOMAIN given.inputs
  <2>1. CASE DeserializeInputs
    BY <2>1 DEF DeserializeInputs
  <2>2. CASE ReadGraph
    BY <2>2 DEF ReadGraph, IInv
  <2> QED
    BY <2>1, <2>2
<1>5. pending' \subseteq Names
  <2>1. DOMAIN given.inputs \subseteq Names
    BY <1>2, LayoutAssumption DEF TypeOK
  <2>2. pending' \in {pending, {}, DOMAIN given.inputs}
    BY DEF DeserializeInputs, ReadGraph
  <2> QED
    BY <1>2, <2>1, <2>2 DEF TypeOK
<1>6. TypeOK'
  BY <1>1, <1>2, <1>5 DEF TypeOK
<1>7. PlacesOfInputs' /\ PlacesOfSignals'
  BY <1>1, <1>2, PlacesStay DEF Building
<1> QED
  BY <1>1, <1>2, <1>3, <1>4, <1>6, <1>7 DEF IInv, Building, Calculating, Readable

\* A position between two others is an end of the range only if one of them is.
LEMMA Between ==
    ASSUME NEW n \in Nat, NEW i \in 1..n, NEW k \in 1..n, NEW j \in Int, i <= j, j <= k
    PROVE  j \in 1..n /\ (j = 1 => j = i) /\ (j = n => j = k)
OBVIOUS

\* The buffer that is made has a place for every Input node, none behind the
\* last, and 0 in all places but the first.
LEMMA SizeOfBuffer ==
    ASSUME IInv, OptimizedNodes
    PROVE  /\ InputsSize(nodes) - 1 = LastUsed
           /\ InputsSize(nodes) \in Nat \ {0}
           /\ \A k \in InputNodes(nodes) : nodes[k].val \in 0..InputsSize(nodes) - 1
<1>1. IsGraph(nodes)
  BY DEF IInv, TypeOK
<1>2. \A k \in InputNodes(nodes) : nodes[k].val \in Nat
  BY DEF OptimizedNodes, InputNodes
<1>3. /\ InputNodes(nodes) # {}
      /\ \A k \in DOMAIN nodes : nodes[k].kind # "Input" => k = 1 \/ k = Len(nodes)
  BY SMTT(30) DEF OptimizedNodes
<1>4. InputsTogether(nodes)
  <2> SUFFICES ASSUME NEW i \in InputNodes(nodes), NEW k \in InputNodes(nodes), NEW j \in i..k
               PROVE  j \in InputNodes(nodes)
    BY DEF InputsTogether
  <2>1. Len(nodes) \in Nat /\ DOMAIN nodes = 1..Len(nodes)
    BY <1>1, GraphShape
  <2>2. i \in 1..Len(nodes) /\ k \in 1..Len(nodes) /\ j \in Int /\ i <= j /\ j <= k
    BY <2>1, SMTT(30) DEF InputNodes
  <2>3. j \in 1..Len(nodes) /\ (j = 1 => j = i) /\ (j = Len(nodes) => j = k)
    BY <2>1, <2>2, Between
  <2> QED
    BY <1>3, <2>1, <2>3 DEF InputNodes
<1> QED
  BY <1>1, <1>2, <1>3, <1>4, BufferSize DEF LastUsed

\* The new buffer holds nothing but the 1.
LEMMA InputsBufferStep == IInv /\ InputsBuffer => IInv'
<1> SUFFICES ASSUME IInv, InputsBuffer PROVE IInv'
  OBVIOUS
<1> DEFINE size == InputsSize(nodes)
<1>1. /\ pc = "size" /\ pc' = "populate"
      /\ buffer' = [i \in 0..size - 1 |-> IF i = 0 THEN 1 ELSE 0]
      /\ UNCHANGED <<layout, sample, given, cursor, info, signals, nodes, pending, values>>
  BY DEF InputsBuffer
<1>2. /\ TypeOK /\ OptimizedNodes /\ PlacesOfInputs /\ PlacesOfSignals
      /\ cursor = 0 /\ values = <<>> /\ values \in Seq(Field)
      /\ Readable(given) /\ pending = DOMAIN given.inputs
  BY <1>1 DEF IInv
<1>3. size \in Nat \ {0} /\ InputsSize(nodes') = size
  BY <1>1, <1>2, SizeOfBuffer
<1> HIDE DEF size
<1>4. DOMAIN buffer' = 0..size - 1 /\ buffer'[0] = 1 /\ \A p \in 1..size - 1 : buffer'[p] = 0
  BY <1>1, <1>3
<1>5. FilledBuffer'
  <2>1. ASSUME NEW n \in DOMAIN info, NEW p \in Reserved(n), p \in 0..size - 1
        PROVE  p \in 1..size - 1
    <3>1. info[n].offset \in Nat /\ info[n].len \in Nat /\ info[n].offset >= 1
      BY <1>2 DEF TypeOK, PlacesOfInputs
    <3> QED
      BY <1>3, <2>1, <3>1 DEF Reserved
  <2>2. \A n \in DOMAIN info : \A p \in Reserved(n) : p \in DOMAIN buffer' => buffer'[p] = 0
    BY <1>4, <2>1
  <2> QED
    BY <1>1, <1>2, <1>3, <1>4, <2>2 DEF FilledBuffer, Reserved
<1>6. TypeOK'
  <2>1. 0 \in Words /\ 1 \in Words
    BY Sizes DEF Words
  <2>2. \A p \in DOMAIN buffer' : buffer'[p] \in {0, 1}
    BY <1>1
  <2>3. Range(buffer') \subseteq Words
    BY <2>1, <2>2 DEF Range
  <2>4. DOMAIN buffer' \subseteq Nat
    BY <1>3, <1>4
  <2> QED
    BY <1>1, <1>2, <2>3, <2>4 DEF TypeOK
<1>7. PlacesOfInputs' /\ PlacesOfSignals' /\ OptimizedNodes'
  BY <1>1, <1>2, PlacesStay DEF Building, OptimizedNodes
<1> QED
  BY <1>1, <1>2, <1>5, <1>6, <1>7 DEF IInv, Building, Calculating, Readable

\* An input that is refused would have been refused in any order.
LEMMA RefusedInput ==
    ASSUME IInv, pc = "populate", NEW n \in DOMAIN given.inputs, Misfits(n)
    PROVE  Deserved(n)
<1>1. /\ TypeOK /\ OptimizedNodes /\ PlacesOfInputs /\ PlacesOfSignals /\ FilledBuffer
  BY DEF IInv, Calculating
<1>2. DeclaredInputs = DOMAIN layout
  BY DEF DeclaredInputs, Building
<1>3. CASE n \notin DOMAIN info
  BY <1>1, <1>2, <1>3 DEF PlacesOfInputs, Deserved
<1>4. ASSUME n \in DOMAIN info
      PROVE  \E k \in DOMAIN layout : layout[k].name = n /\ layout[k].len = info[n].len
  BY <1>1, <1>2, <1>4 DEF PlacesOfInputs
<1>5. CASE n \in DOMAIN info /\ info[n].len # Len(Input(given, n))
  BY <1>4, <1>5 DEF Deserved
<1>6. CASE /\ n \in DOMAIN info /\ info[n].len = Len(Input(given, n))
           /\ ~(Places(n) \subseteq DOMAIN buffer)
  <2>1. PICK p \in Places(n) : p \notin DOMAIN buffer
    BY <1>6
  <2>2. info[n].offset \in Nat /\ info[n].len \in Nat
    BY <1>1, <1>6 DEF TypeOK
  <2>3. /\ p \in info[n].offset..info[n].offset + info[n].len - 1
        /\ DOMAIN buffer = 0..InputsSize(nodes) - 1
    BY <1>1, <1>6, <2>1 DEF Places, FilledBuffer
  <2>4. InputsSize(nodes) \in Nat /\ InputsSize(nodes) - 1 = LastUsed
    BY <1>1, SizeOfBuffer
  <2> DEFINE e == p - info[n].offset + 1
  <2>5. e \in 1..info[n].len /\ info[n].offset + e - 1 = p
    BY <2>2, <2>3, SMTT(30)
  <2>6. p > InputsSize(nodes) - 1
    BY <2>1, <2>2, <2>3, <2>4
  <2> HIDE DEF e
  <2>7. <<n, e>> \in DOMAIN signals /\ signals[<<n, e>>] = p
    BY <1>1, <1>6, <2>5 DEF PlacesOfSignals
  <2>8. \E s \in DOMAIN signals : s[1] = n /\ signals[s] > LastUsed
    BY <2>4, <2>6, <2>7
  <2> QED
    BY <2>8 DEF Deserved
<1> QED
  BY <1>3, <1>5, <1>6 DEF Misfits

\* An input that fits is put into the places that are its own.
LEMMA PopulateStep == ASSUME NEW n \in Names PROVE IInv /\ Populate(n) => IInv'
<1> SUFFICES ASSUME IInv, Populate(n) PROVE IInv'
  OBVIOUS
<1>1. /\ pc = "populate" /\ n \in pending
      /\ UNCHANGED <<layout, sample, given, cursor, info, signals, nodes, values>>
  BY DEF Populate
<1>2. /\ TypeOK /\ OptimizedNodes /\ PlacesOfInputs /\ PlacesOfSignals
      /\ cursor = 0 /\ values = <<>> /\ values \in Seq(Field)
      /\ Readable(given) /\ FilledBuffer
  BY <1>1 DEF IInv, Calculating
<1>3. n \in DOMAIN given.inputs
  BY <1>1, <1>2 DEF FilledBuffer
<1>4. CASE Misfits(n)
  <2>1. pc' = "panic" /\ UNCHANGED <<buffer, pending>>
    BY <1>4 DEF Populate
  <2>2. Deserved(n)
    BY <1>1, <1>3, <1>4, RefusedInput
  <2>3. Deserved(n)' /\ n \in DOMAIN given'.inputs
    BY <1>1, <1>3, <2>2 DEF Deserved, LastUsed
  <2>4. TypeOK' /\ values' \in Seq(Field)
    BY <1>1, <1>2, <2>1 DEF TypeOK
  <2>5. PlacesOfInputs' /\ PlacesOfSignals'
    BY <1>1, <1>2, <2>1, PlacesStay DEF Building
  <2> QED
    BY <2>1, <2>3, <2>4, <2>5 DEF IInv, Building, Calculating
<1>5. CASE ~Misfits(n)
  <2>1. /\ pending' = pending \ {n} /\ pc' = "populate"
        /\ buffer' = [p \in DOMAIN buffer |->
                        IF p \in Places(n) THEN Input(given, n)[p - info[n].offset + 1]
                                           ELSE buffer[p]]
    BY <1>1, <1>5 DEF Populate
  <2>2. /\ n \in DOMAIN info /\ info[n].len = Len(Input(given, n))
        /\ Places(n) = Reserved(n)
    BY <1>5 DEF Misfits, Places, Reserved
  <2>3. \A m \in DOMAIN info : /\ info[m].offset \in Nat /\ info[m].len \in Nat
                               /\ info[m].offset >= 1
    BY <1>2 DEF TypeOK, PlacesOfInputs
  <2>4. /\ DOMAIN buffer' = DOMAIN buffer
        /\ \A p \in DOMAIN buffer : p \in Reserved(n) =>
              buffer'[p] = Input(given, n)[p - info[n].offset + 1]
        /\ \A p \in DOMAIN buffer : p \notin Reserved(n) => buffer'[p] = buffer[p]
    BY <2>1, <2>2
  <2>5. FilledBuffer'
    <3>1. DOMAIN buffer' = 0..InputsSize(nodes') - 1
      BY <1>1, <1>2, <2>4 DEF FilledBuffer
    <3>2. buffer'[0] = 1
      <4>1. 0 \notin Reserved(n)
        BY <2>2, <2>3 DEF Reserved
      <4>2. 0 \in DOMAIN buffer
        <5>1. InputsSize(nodes) \in Nat \ {0}
          BY <1>2, SizeOfBuffer
        <5> QED
          BY <1>2, <5>1 DEF FilledBuffer
      <4> QED
        BY <1>2, <2>4, <4>1, <4>2 DEF FilledBuffer
    <3>3. pending' \subseteq DOMAIN given'.inputs
      BY <1>1, <1>2, <2>1 DEF FilledBuffer
    <3>4. \A m \in DOMAIN given'.inputs \ pending' : ~Misfits(m)'
      <4>1. \A m \in DOMAIN given.inputs \ pending' : ~Misfits(m)
        BY <1>2, <1>5, <2>1 DEF FilledBuffer
      <4> QED
        BY <1>1, <2>4, <4>1 DEF Misfits, Places
    <3>5. ASSUME NEW m \in DOMAIN info, NEW p \in Reserved(m), p \in DOMAIN buffer
          PROVE  buffer'[p] = IF m \in DOMAIN given.inputs \ pending'
                              THEN Input(given, m)[p - info[m].offset + 1] ELSE 0
      <4>1. CASE m = n
        BY <1>3, <2>1, <2>4, <3>5, <4>1
      <4>2. CASE m # n
        <5>1. Disjoint(m, n)
          BY <1>2, <2>2, <4>2 DEF PlacesOfInputs
        <5>2. p \notin Reserved(n)
          BY <2>2, <2>3, <5>1, SMTT(30) DEF Disjoint, Reserved
        <5>3. buffer'[p] = buffer[p]
          BY <2>4, <3>5, <5>2
        <5>4. m \in DOMAIN given.inputs \ pending' <=> m \in DOMAIN given.inputs \ pending
          BY <2>1, <4>2
        <5> QED
          BY <1>2, <3>5, <5>3, <5>4 DEF FilledBuffer
      <4> QED
        BY <4>1, <4>2
    <3>6. \A m \in DOMAIN info' : \A p \in Reserved(m)' : p \in DOMAIN buffer' =>
              buffer'[p] = IF m \in DOMAIN given'.inputs \ pending'
                           THEN Input(given', m)[p - info'[m].offset + 1] ELSE 0
      BY <1>1, <2>4, <3>5 DEF Reserved
    <3> QED
      BY <3>1, <3>2, <3>3, <3>4, <3>6 DEF FilledBuffer
  <2>6. TypeOK'
    <3>1. \A p \in DOMAIN buffer : buffer[p] \in Words
      BY <1>2 DEF TypeOK, Range
    <3>2. ASSUME NEW p \in DOMAIN buffer, p \in Reserved(n)
          PROVE  Input(given, n)[p - info[n].offset + 1] \in Words
      <4>1. \A i \in 1..Len(Input(given, n)) : Input(given, n)[i] \in Words
        BY <1>2, <1>3, InputType DEF TypeOK
      <4>2. p - info[n].offset + 1 \in 1..Len(Input(given, n))
        BY <2>2, <2>3, <3>2 DEF Reserved
      <4> QED
        BY <4>1, <4>2
    <3>3. Range(buffer') \subseteq Words
      BY <2>4, <3>1, <3>2 DEF Range
    <3>4. DOMAIN buffer' \subseteq Nat /\ pending' \subseteq Names
      BY <1>2, <2>1, <2>4 DEF TypeOK
    <3> QED
      BY <1>1, <1>2, <2>1, <3>3, <3>4 DEF TypeOK
  <2>7. PlacesOfInputs' /\ PlacesOfSignals' /\ OptimizedNodes'
    BY <1>1, <1>2, <2>1, PlacesStay DEF Building, OptimizedNodes
  <2> QED
    BY <1>1, <1>2, <2>1, <2>5, <2>6, <2>7 DEF IInv, Building, Calculating, Readable
<1> QED
  BY <1>4, <1>5

\* The evaluation starts when every input is in its places.
LEMMA PopulatedStep == IInv /\ Populated => IInv'
<1> SUFFICES ASSUME IInv, Populated PROVE IInv'
  OBVIOUS
<1>1. /\ pc = "populate" /\ pending = {} /\ pc' = "evaluate"
      /\ UNCHANGED <<layout, sample, given, cursor, info, signals, nodes, pending,
                     buffer, values>>
  BY DEF Populated
<1>2. /\ TypeOK /\ OptimizedNodes /\ PlacesOfInputs /\ PlacesOfSignals
      /\ cursor = 0 /\ values = <<>> /\ values \in Seq(Field)
      /\ Readable(given) /\ FilledBuffer
  BY <1>1 DEF IInv, Calculating
<1>3. TypeOK'
  BY <1>1, <1>2 DEF TypeOK
<1>4. FilledBuffer'
  BY <1>1, <1>2 DEF FilledBuffer, Misfits, Places, Reserved
<1>5. EvaluatedNodes'
  <2>1. Len(nodes) \in Nat
    BY <1>2, GraphShape DEF TypeOK
  <2>2. cursor' = 0 /\ Len(values') = 0 /\ nodes' = nodes
    BY <1>1, <1>2
  <2> QED
    BY <2>1, <2>2 DEF EvaluatedNodes
<1>6. PlacesOfInputs' /\ PlacesOfSignals' /\ OptimizedNodes'
  BY <1>1, <1>2, PlacesStay DEF Building, OptimizedNodes
<1> QED
  BY <1>1, <1>2, <1>3, <1>4, <1>5, <1>6 DEF IInv, Building, Calculating, Readable

\* No node panics, and an Input node takes the element in its place.
LEMMA NodeHasValue ==
    ASSUME IInv, pc = "evaluate", cursor < Len(nodes)
    PROVE  /\ NodeValue(nodes[cursor + 1], values, buffer) \in Field
           /\ nodes[cursor + 1].kind = "Input" =>
                  NodeValue(nodes[cursor + 1], values, buffer)
                      = buffer[nodes[cursor + 1].val] % M
<1> DEFINE n == nodes[cursor + 1]
           v == NodeValue(n, values, buffer)
<1>1. /\ TypeOK /\ OptimizedNodes /\ FilledBuffer /\ EvaluatedNodes
      /\ values \in Seq(Field)
  BY DEF IInv, Calculating
<1>2. /\ Len(nodes) \in Nat /\ DOMAIN nodes = 1..Len(nodes) /\ cursor \in Nat
      /\ cursor + 1 \in DOMAIN nodes /\ IsNode(n)
  BY <1>1, GraphShape DEF TypeOK
<1> HIDE DEF n, v
<1> SUFFICES v \in Field /\ (n.kind = "Input" => v = buffer[n.val] % M)
  BY DEF n, v
<1>3. CASE n.kind = "Constant"
  <2>1. Refs(n) = {}
    BY <1>2, <1>3 DEF IsNode, Arity, Refs, Range
  <2>2. v = n.val % M
    BY <1>3, <2>1 DEF NodeValue, v
  <2>3. n.val \in Int
    BY <1>1, <1>2 DEF TypeOK, n
  <2> QED
    BY <1>3, <2>2, <2>3, ReducedIsField
<1>4. CASE n.kind = "Input"
  <2>0. Refs(n) = {}
    BY <1>2, <1>4 DEF IsNode, Arity, Refs, Range
  <2>1. n.val \in DOMAIN buffer
    BY <1>1, <1>2, <1>4, SizeOfBuffer DEF FilledBuffer, InputNodes, n
  <2>2. v = buffer[n.val] % M
    BY <1>4, <2>0, <2>1 DEF NodeValue, v
  <2>3. buffer[n.val] \in Int
    BY <1>1, <2>1, Sizes DEF TypeOK, Range, Words
  <2> QED
    BY <2>2, <2>3, ReducedIsField
<1>5. CASE n.kind = "Op" /\ n.op = "Add" /\ n.args[1] \in 1..cursor /\ n.args[2] \in 1..cursor
  <2>1. \A a \in 1..cursor : values[a] \in Field
    BY <1>1, <1>2, LenProperties DEF EvaluatedNodes
  <2>2. Refs(n) = {n.args[1], n.args[2]}
    <3>1. DOMAIN n.args = 1..2
      BY <1>2, <1>5 DEF IsNode, Arity
    <3> QED
      BY <3>1 DEF Refs, Range
  <2>3. Panic \notin Field /\ Field \subseteq Int
    BY FieldAssumption DEF Field, Panic
  <2>4. \A a \in Refs(n) : values[a] # Panic
    BY <1>5, <2>1, <2>2, <2>3
  <2>5. v = (values[n.args[1]] + values[n.args[2]]) % M
    BY <1>5, <2>4 DEF NodeValue, EvalFr, v
  <2>6. values[n.args[1]] + values[n.args[2]] \in Int
    <3>1. values[n.args[1]] \in Int /\ values[n.args[2]] \in Int
      BY <1>5, <2>1, <2>3
    <3> QED
      BY <3>1
  <2> QED
    BY <1>5, <2>5, <2>6, ReducedIsField
<1>6. \/ n.kind = "Constant" \/ n.kind = "Input"
      \/ n.kind = "Op" /\ n.op = "Add" /\ n.args[1] \in 1..cursor /\ n.args[2] \in 1..cursor
  <2>1. cursor + 1 - 1 = cursor
    BY <1>2
  <2> QED
    BY <1>1, <1>2, <2>1 DEF OptimizedNodes, n
<1> QED
  BY <1>3, <1>4, <1>5, <1>6

\* A node that is evaluated adds one field element.
LEMMA EvaluateNodeStep == IInv /\ EvaluateNode => IInv'
<1> SUFFICES ASSUME IInv, EvaluateNode PROVE IInv'
  OBVIOUS
<1> DEFINE n == nodes[cursor + 1]
           v == NodeValue(n, values, buffer)
<1>1. /\ pc = "evaluate" /\ cursor < Len(nodes)
      /\ UNCHANGED <<layout, sample, given, info, signals, nodes, pending, buffer>>
  BY DEF EvaluateNode
<1>2. /\ TypeOK /\ OptimizedNodes /\ PlacesOfInputs /\ PlacesOfSignals
      /\ FilledBuffer /\ EvaluatedNodes /\ values \in Seq(Field)
      /\ Readable(given) /\ pending = {}
  BY <1>1 DEF IInv, Calculating
<1>3. v \in Field /\ (n.kind = "Input" => v = buffer[n.val] % M)
  BY <1>1, NodeHasValue
<1>4. v # Panic
  BY <1>3, FieldAssumption DEF Field, Panic
<1>5. values' = Append(values, v) /\ cursor' = cursor + 1 /\ pc' = "evaluate"
  BY <1>1, <1>4 DEF EvaluateNode
<1> HIDE DEF v
<1>6. cursor \in Nat /\ Len(nodes) \in Nat
  BY <1>2, GraphShape DEF TypeOK
<1>7. /\ values' \in Seq(Field) /\ Len(values') = cursor + 1
      /\ \A k \in 1..cursor : values'[k] = values[k]
      /\ values'[cursor + 1] = v
  BY <1>2, <1>3, <1>5, AppendProperties DEF EvaluatedNodes
<1>8. EvaluatedNodes'
  <2>1. \A k \in 1..cursor + 1 :
            nodes[k].kind = "Input" => values'[k] = buffer[nodes[k].val] % M
    <3> TAKE k \in 1..cursor + 1
    <3>1. CASE k = cursor + 1
      BY <1>3, <1>7, <3>1
    <3>2. CASE k \in 1..cursor
      BY <1>2, <1>7, <3>2 DEF EvaluatedNodes
    <3> QED
      BY <1>6, <3>1, <3>2
  <2>2. cursor + 1 <= Len(nodes)
    BY <1>1, <1>6
  <2> QED
    BY <1>1, <1>5, <1>7, <2>1, <2>2 DEF EvaluatedNodes
<1>9. TypeOK'
  <2>1. Range(values') \subseteq Field
    BY <1>7, LenProperties DEF Range
  <2> QED
    BY <1>1, <1>2, <1>5, <1>6, <2>1 DEF TypeOK
<1>10. FilledBuffer'
  BY <1>1, <1>2 DEF FilledBuffer, Misfits, Places, Reserved
<1>11. PlacesOfInputs' /\ PlacesOfSignals' /\ OptimizedNodes'
  BY <1>1, <1>2, <1>5, PlacesStay DEF Building, OptimizedNodes
<1> QED
  BY <1>1, <1>2, <1>5, <1>7, <1>8, <1>9, <1>10, <1>11
     DEF IInv, Building, Calculating, Readable

\* The witness is there when every node has been evaluated.
LEMMA EvaluatedStep == IInv /\ Evaluated => IInv'
<1> SUFFICES ASSUME IInv, Evaluated PROVE IInv'
  OBVIOUS
<1>1. /\ pc = "evaluate" /\ cursor = Len(nodes) /\ pc' = "ok"
      /\ UNCHANGED <<layout, sample, given, cursor, info, signals, nodes, pending,
                     buffer, values>>
  BY DEF Evaluated
<1>2. /\ TypeOK /\ OptimizedNodes /\ PlacesOfInputs /\ PlacesOfSignals
      /\ FilledBuffer /\ EvaluatedNodes /\ values \in Seq(Field)
      /\ Readable(given) /\ pending = {}
  BY <1>1 DEF IInv, Calculating
<1>3. TypeOK' /\ EvaluatedNodes'
  BY <1>1, <1>2 DEF TypeOK, EvaluatedNodes
<1>4. FilledBuffer'
  BY <1>1, <1>2 DEF FilledBuffer, Misfits, Places, Reserved
<1>5. PlacesOfInputs' /\ PlacesOfSignals' /\ OptimizedNodes'
  BY <1>1, <1>2, PlacesStay DEF Building, OptimizedNodes
<1> QED
  BY <1>1, <1>2, <1>3, <1>4, <1>5 DEF IInv, Building, Calculating, Readable

-----------------------------------------------------------------------------
(***************************************************************************)
(* What follows from the invariant.                                        *)
(***************************************************************************)

\* When the witness has been calculated every Input node has read its input.
LEMMA InputsAreRead == IInv => EveryNodeReadsItsInput
<1> SUFFICES ASSUME IInv, pc = "ok", NEW k \in DOMAIN nodes
             PROVE  /\ nodes[k] = InputNode(0) => values[k] = 1
                    /\ \A s \in DOMAIN signals :
                          nodes[k] = InputNode(signals[s]) => values[k] = Meant(s)
  BY DEF EveryNodeReadsItsInput
<1>1. /\ TypeOK /\ OptimizedNodes /\ PlacesOfInputs /\ PlacesOfSignals
      /\ FilledBuffer /\ EvaluatedNodes
      /\ Readable(given) /\ pending = {} /\ cursor = Len(nodes)
  BY DEF IInv, Calculating
<1>2. k \in 1..cursor
  BY <1>1, GraphShape DEF TypeOK
<1>3. ASSUME NEW i, nodes[k] = InputNode(i)
      PROVE  values[k] = buffer[i] % M /\ i \in DOMAIN buffer
  <2>1. nodes[k].kind = "Input" /\ nodes[k].val = i
    BY <1>3, InputAndOpNode
  <2>2. i \in DOMAIN buffer
    BY <1>1, <2>1, SizeOfBuffer DEF FilledBuffer, InputNodes
  <2> QED
    BY <1>1, <1>2, <2>1, <2>2 DEF EvaluatedNodes
<1>4. 1 % M = 1 /\ 0 % M = 0
  BY FieldAssumption
<1>5. nodes[k] = InputNode(0) => values[k] = 1
  BY <1>1, <1>3, <1>4 DEF FilledBuffer
<1>6. ASSUME NEW s \in DOMAIN signals, nodes[k] = InputNode(signals[s])
      PROVE  values[k] = Meant(s)
  <2> DEFINE p == signals[s]
             n == s[1]
  <2>1. values[k] = buffer[p] % M /\ p \in DOMAIN buffer
    BY <1>3, <1>6
  <2>2. n \in DOMAIN info /\ s[2] \in 1..info[n].len
    BY <1>1 DEF PlacesOfSignals
  <2>3. p = info[n].offset + s[2] - 1
    <3>1. s = <<n, s[2]>>
      BY <1>1 DEF PlacesOfSignals
    <3>2. signals[<<n, s[2]>>] = info[n].offset + s[2] - 1
      BY <1>1, <2>2 DEF PlacesOfSignals
    <3> QED
      BY <3>1, <3>2
  <2>4. info[n].offset \in Nat /\ info[n].len \in Nat
    BY <1>1, <2>2 DEF TypeOK
  <2> HIDE DEF p, n
  <2>5. p \in Reserved(n) /\ p - info[n].offset + 1 = s[2]
    BY <2>2, <2>3, <2>4 DEF Reserved
  <2>6. buffer[p] = IF n \in DOMAIN given.inputs \ pending
                    THEN Input(given, n)[p - info[n].offset + 1] ELSE 0
    BY <1>1, <2>1, <2>2, <2>5 DEF FilledBuffer
  <2>7. buffer[p] = IF n \in DOMAIN given.inputs THEN Input(given, n)[s[2]] ELSE 0
    BY <1>1, <2>5, <2>6
  <2>8. Meant(s) = IF n \in DOMAIN given.inputs THEN Input(given, n)[s[2]] % M ELSE 0
    BY DEF Meant, n
  <2> QED
    BY <1>4, <2>1, <2>7, <2>8
<1> QED
  BY <1>5, <1>6

\* Inputs that are accepted are accepted in every order.
LEMMA RefusalIsDeserved == IInv => RefusalIsNoMatterOfOrder
<1> SUFFICES ASSUME IInv PROVE RefusalIsNoMatterOfOrder
  OBVIOUS
<1>1. ASSUME pc = "ok", NEW n \in DOMAIN given.inputs, Deserved(n) PROVE FALSE
  <2>1. /\ TypeOK /\ OptimizedNodes /\ PlacesOfInputs /\ PlacesOfSignals
        /\ FilledBuffer /\ pending = {}
    BY <1>1 DEF IInv, Calculating
  <2>2. /\ n \in DOMAIN info /\ info[n].len = Len(Input(given, n))
        /\ Places(n) \subseteq DOMAIN buffer
    BY <2>1 DEF FilledBuffer, Misfits
  <2>3. DeclaredInputs = DOMAIN layout
    BY <1>1 DEF DeclaredInputs, Building
  <2>4. PICK k \in DOMAIN layout : layout[k].name = n
    BY <2>1, <2>2, <2>3 DEF PlacesOfInputs
  <2>5. \A j \in DOMAIN layout : layout[j].name = n => layout[j].len = info[n].len
    BY <2>1, <2>3 DEF PlacesOfInputs
  <2>6. PICK s \in DOMAIN signals : s[1] = n /\ signals[s] > LastUsed
    BY <1>1, <2>2, <2>4, <2>5 DEF Deserved
  <2>7. s[2] \in 1..info[n].len /\ signals[s] = info[n].offset + s[2] - 1
    <3>1. s = <<n, s[2]>> /\ s[2] \in 1..info[n].len
      BY <2>1, <2>6 DEF PlacesOfSignals
    <3>2. signals[<<n, s[2]>>] = info[n].offset + s[2] - 1
      BY <2>1, <2>2, <3>1 DEF PlacesOfSignals
    <3> QED
      BY <3>1, <3>2
  <2>8. info[n].offset \in Nat /\ info[n].len \in Nat
    BY <2>1, <2>2 DEF TypeOK
  <2>9. signals[s] \in Places(n)
    BY <2>2, <2>7, <2>8 DEF Places
  <2>10. signals[s] \in 0..InputsSize(nodes) - 1
    BY <2>1, <2>2, <2>9 DEF FilledBuffer
  <2>11. InputsSize(nodes) \in Nat /\ InputsSize(nodes) - 1 = LastUsed
    BY <2>1, SizeOfBuffer
  <2> QED
    BY <2>6, <2>10, <2>11
<1>2. pc = "panic" => \E n \in DOMAIN given.inputs : Deserved(n)
  BY DEF IInv
<1> QED
  BY <1>1, <1>2 DEF RefusalIsNoMatterOfOrder

\* Every reachable state satisfies the inductive invariant.
THEOREM Invariance == Spec => []IInv
<1>1. IInv /\ [Next]_vars => IInv'
  <2>1. IInv /\ UNCHANGED vars => IInv'
    <3> SUFFICES ASSUME IInv, UNCHANGED vars PROVE IInv'
      OBVIOUS
    <3>1. TypeOK' /\ (values \in Seq(Field))'
      BY DEF IInv, TypeOK, vars
    <3>2. (BuilderNodes' <=> BuilderNodes) /\ (OptimizedNodes' <=> OptimizedNodes)
      BY DEF BuilderNodes, OptimizedNodes, vars
    <3>3. PlacesOfInputs' <=> PlacesOfInputs
      BY DEF PlacesOfInputs, DeclaredInputs, Disjoint, Building, vars
    <3>4. (PlacesOfSignals' <=> PlacesOfSignals) /\ (EvaluatedNodes' <=> EvaluatedNodes)
      BY DEF PlacesOfSignals, EvaluatedNodes, vars
    <3>5. FilledBuffer' <=> FilledBuffer
      BY DEF FilledBuffer, Reserved, Misfits, Places, vars
    <3>6. \A n : Deserved(n)' <=> Deserved(n)
      BY DEF Deserved, LastUsed, vars
    <3>7. UNCHANGED <<layout, sample, given, pc, cursor, info, signals, nodes, pending,
                      buffer, values>>
      BY DEF vars
    <3> QED
      BY <3>1, <3>2, <3>3, <3>4, <3>5, <3>6, <3>7 DEF IInv, Building, Calculating
  <2>2. IInv /\ (DeserializeInputs \/ ReadGraph) => IInv'
    BY FileStep
  <2>3. IInv /\ (\E n \in Names : Populate(n)) => IInv'
    BY PopulateStep
  <2> QED
    BY <2>1, <2>2, <2>3, ReadSampleStep, DeclareStep, OptimizeStep, InputsBufferStep,
       PopulatedStep, EvaluateNodeStep, EvaluatedStep DEF Next
<1> QED
  BY <1>1, InitIInv, PTL DEF Spec

\* The variables keep their types: the buffer holds words and the values are
\* field elements whatever is in the files.
THEOREM TypeCorrect == Spec => []TypeOK
<1>1. IInv => TypeOK
  BY DEF IInv
<1> QED
  BY <1>1, Invariance, PTL

\* Whatever optimize drops, the buffer has a place for every Input node.
THEOREM BufferIsLongEnough == Spec => []BufferCoversTheGraph
<1>1. IInv => BufferCoversTheGraph
  BY SizeOfBuffer DEF IInv, Calculating, FilledBuffer, BufferCoversTheGraph
<1> QED
  BY <1>1, Invariance, PTL

\* In whichever order the inputs come, every Input node reads the element it
\* was declared for.
THEOREM InputsReachTheirNodes == Spec => []EveryNodeReadsItsInput
BY Invariance, InputsAreRead, PTL

\* Whether the inputs are refused does not depend on the order they come in.
THEOREM OrderDoesNotMatter == Spec => []RefusalIsNoMatterOfOrder
BY Invariance, RefusalIsDeserved, PTL
=============================================================================
