--------------------------- MODULE Optimizer_proofs ---------------------------
(***************************************************************************)
(* Proofs about Optimizer, for graphs of any size.                         *)
(***************************************************************************)
EXTENDS Optimizer, Graph_proofs

-----------------------------------------------------------------------------
\* What tree_shake does to the nodes once it has renumbered their references.
Swept(ns, keep) ==
    [k \in DOMAIN Kept(ns, keep) |-> MapRefs(Kept(ns, keep)[k], Renumber(keep))]

\* A set of nodes that contains what its nodes refer to can be kept alone:
\* the nodes that are left refer backwards again.
LEMMA SweptGraph ==
    ASSUME NEW ns, IsGraph(ns), BackRefs(ns),
           NEW keep \in SUBSET (DOMAIN ns), \A i \in keep : Refs(ns[i]) \subseteq keep
    PROVE  /\ IsGraph(Swept(ns, keep))
           /\ Len(Swept(ns, keep)) = Cardinality(keep)
           /\ BackRefs(Swept(ns, keep))
           /\ \A k \in DOMAIN Kept(ns, keep) : Refs(Kept(ns, keep)[k]) \subseteq keep
<1> DEFINE r == Renumber(keep)
           C == Cardinality(keep)
           new == Swept(ns, keep)
<1>1. Len(ns) \in Nat /\ DOMAIN ns = 1..Len(ns)
  BY GraphShape
<1>0. keep \in SUBSET Nat /\ IsFiniteSet(keep)
  BY PositionsAreFinite
<1>2. C \in Nat /\ r \in [keep -> 1..C]
  BY <1>0, RankType
<1>3. /\ DOMAIN Kept(ns, keep) = 1..C
      /\ \A k \in 1..C : \E i \in keep : r[i] = k /\ Kept(ns, keep)[k] = ns[i]
  BY <1>0, KeptNodes
<1>4. new = [k \in 1..C |-> MapRefs(Kept(ns, keep)[k], r)]
  BY <1>3 DEF Swept
<1>5. ASSUME NEW k \in 1..C
      PROVE  /\ IsNode(new[k]) /\ Refs(new[k]) \subseteq 1..k - 1
             /\ Refs(Kept(ns, keep)[k]) \subseteq keep
  <2>1. PICK i \in keep : r[i] = k /\ Kept(ns, keep)[k] = ns[i]
    BY <1>3
  <2>2. IsNode(ns[i]) /\ Refs(ns[i]) \subseteq keep /\ Refs(ns[i]) \subseteq 1..i - 1
    BY <1>1, GraphShape DEF BackRefs
  <2>3. new[k] = MapRefs(ns[i], r)
    BY <1>4, <2>1
  <2>4. \A a \in Refs(ns[i]) : r[a] \in 1..k - 1
    <3>1. SUFFICES ASSUME NEW a \in Refs(ns[i])
                   PROVE  r[a] \in 1..k - 1
      OBVIOUS
    <3>2. a \in keep /\ a < i
      BY <1>1, <2>2
    <3>3. r[a] < k
      BY <1>0, <2>1, <3>2, RankIncreases
    <3> QED
      BY <1>2, <3>2, <3>3
  <2>5. \A a \in Refs(ns[i]) : r[a] \in Nat
    BY <2>4
  <2>6. IsNode(MapRefs(ns[i], r)) /\ Refs(MapRefs(ns[i], r)) = {r[a] : a \in Refs(ns[i])}
    BY <2>2, <2>5, MovedNode
  <2> QED
    BY <2>1, <2>2, <2>3, <2>4, <2>6
<1>6. new = [k \in 1..C |-> new[k]]
  BY <1>4
<1>7. IsGraph(new) /\ Len(new) = C
  BY <1>2, <1>5, <1>6, GraphOf
<1>8. DOMAIN new = 1..C
  BY <1>4
<1> QED
  BY <1>3, <1>5, <1>7, <1>8 DEF BackRefs

\* After renumbering, a node is an output or is read by another node if it
\* was before.
LEMMA SweptUsed ==
    ASSUME NEW ns, IsGraph(ns), BackRefs(ns),
           NEW keep \in SUBSET (DOMAIN ns), \A i \in keep : Refs(ns[i]) \subseteq keep,
           NEW outs \in Seq(Nat), Range(outs) \subseteq keep,
           NEW newOuts, newOuts = [k \in DOMAIN outs |-> Renumber(keep)[outs[k]]]
    PROVE  /\ newOuts \in Seq(Nat)
           /\ Range(newOuts) \subseteq DOMAIN Swept(ns, keep)
           /\ (\A i \in keep : \/ i \in Range(outs)
                               \/ \E k \in keep : i \in Refs(ns[k]))
              => AllUsed(Swept(ns, keep), newOuts)
<1> DEFINE r == Renumber(keep)
           C == Cardinality(keep)
           new == Swept(ns, keep)
<1>1. keep \in SUBSET Nat /\ IsFiniteSet(keep)
  BY PositionsAreFinite
<1>2. C \in Nat /\ r \in [keep -> 1..C]
  BY <1>1, RankType
<1>3. /\ DOMAIN Kept(ns, keep) = 1..C
      /\ \A k \in 1..C : \E i \in keep : r[i] = k /\ Kept(ns, keep)[k] = ns[i]
      /\ \A i \in keep : Kept(ns, keep)[r[i]] = ns[i]
  BY <1>1, KeptNodes
<1>4. DOMAIN new = 1..C
  BY <1>3 DEF Swept
<1>5. \A k \in DOMAIN outs : outs[k] \in keep
  BY DEF Range
<1>6. \A k \in DOMAIN outs : newOuts[k] \in 1..C
  BY <1>2, <1>5
<1>7. newOuts \in Seq(Nat)
  <2>1. DOMAIN outs = 1..Len(outs) /\ Len(outs) \in Nat
    BY LenProperties
  <2>2. newOuts \in [1..Len(outs) -> Nat]
    BY <1>2, <1>6, <2>1
  <2> QED
    BY <2>1, <2>2
<1>8. Range(newOuts) = {r[o] : o \in Range(outs)}
  BY DEF Range
<1>9. ASSUME \A i \in keep : \/ i \in Range(outs)
                             \/ \E k \in keep : i \in Refs(ns[k])
      PROVE  AllUsed(new, newOuts)
  <2>1. SUFFICES ASSUME NEW j \in 1..C
                 PROVE  \/ j \in Range(newOuts)
                        \/ \E k \in 1..C : j \in Refs(new[k])
    BY <1>4 DEF AllUsed
  <2>2. PICK i \in keep : r[i] = j
    BY <1>3
  <2>3. CASE i \in Range(outs)
    BY <1>8, <2>2, <2>3
  <2>4. ASSUME NEW k \in keep, i \in Refs(ns[k])
        PROVE  r[k] \in 1..C /\ j \in Refs(new[r[k]])
    <3>1. r[k] \in 1..C
      BY <1>2
    <3>2. new[r[k]] = MapRefs(ns[k], r)
      BY <1>3, <3>1 DEF Swept
    <3>3. IsNode(ns[k]) /\ Refs(ns[k]) \subseteq keep
      BY GraphShape
    <3>4. \A a \in Refs(ns[k]) : r[a] \in Nat
      BY <1>2, <3>3
    <3>5. Refs(new[r[k]]) = {r[a] : a \in Refs(ns[k])}
      BY <3>2, <3>3, <3>4, MovedNode
    <3> QED
      BY <2>2, <2>4, <3>1, <3>5
  <2> QED
    BY <1>9, <2>2, <2>3, <2>4
<1> QED
  BY <1>4, <1>6, <1>7, <1>9 DEF Range

-----------------------------------------------------------------------------
(***************************************************************************)
(* Value numbering moves a reference to an earlier node or not at all.     *)
(***************************************************************************)

\* value_numbering moves a reference to the same node or to an earlier one.
LEMMA FirstEqualIsEarlier ==
    ASSUME NEW ns, IsGraph(ns), NEW i \in DOMAIN ns
    PROVE  FirstEqual(ns)[i] \in 1..i
<1> DEFINE vs == RandomEval(ns)
           T == {j \in DOMAIN ns : vs[j] = vs[i]}
<1>1. Len(ns) \in Nat /\ DOMAIN ns = 1..Len(ns)
  BY GraphShape
<1>2. T \in SUBSET Nat /\ i \in T
  BY <1>1
<1>3. Min(T) \in T /\ Min(T) <= i
  BY <1>2, LeastNatural
<1>4. FirstEqual(ns)[i] = Min(T)
  BY DEF FirstEqual
<1> QED
  BY <1>1, <1>3, <1>4

-----------------------------------------------------------------------------
(***************************************************************************)
(* The inductive invariant.  While tree_shake is marking, the nodes above  *)
(* the cursor are settled: what a used one refers to is marked, and a node *)
(* is marked only if it is an output or a used one refers to it.           *)
(***************************************************************************)

MarkedSoFar ==
    /\ used \subseteq DOMAIN nodes
    /\ Range(outputs) \subseteq used
    /\ \A i \in used : i > cursor => Refs(nodes[i]) \subseteq used
    /\ \A i \in used : \/ i \in Range(outputs)
                       \/ \E k \in used : i \in Refs(nodes[k])

IInv ==
    /\ TypeOK
    /\ NoInternalPanic
    /\ BackRefs(nodes)
    /\ Range(outputs) \subseteq DOMAIN nodes
    /\ pc \in {"shake", "mark"} => round \in 1..2
    /\ pc \in {"propagate", "fold", "number", "constants"} => round = 2
    /\ pc = "fold" => cursor >= 1
    /\ pc = "mark" => MarkedSoFar
    /\ pc \in {"montgomery", "done"} => AllUsed(nodes, outputs)

\* The builder starts from a source graph: its references point backwards.
LEMMA InitIInv == Init => IInv
<1> SUFFICES ASSUME Init PROVE IInv
  OBVIOUS
<1>1. ValidSource(source)
  BY SourcesAssumption DEF Init
<1> QED
  BY <1>1 DEF Init, IInv, TypeOK, ValidSource, NoInternalPanic, Passes

\* tree_shake finds backward references and marks the outputs.
LEMMA ShakeStep == IInv /\ Shake => IInv'
<1> SUFFICES ASSUME IInv, Shake PROVE IInv'
  OBVIOUS
<1> USE DEF IInv, Shake, GoTo
<1>1. Len(nodes) \in Nat /\ DOMAIN nodes = 1..Len(nodes)
  BY GraphShape DEF TypeOK
<1>2. pc' = "mark" /\ panic' = panic
  OBVIOUS
<1>3. TypeOK'
  BY <1>1, <1>2 DEF TypeOK, Passes, ValidSource
<1>4. MarkedSoFar'
  BY <1>1 DEF MarkedSoFar
<1> QED
  BY <1>2, <1>3, <1>4 DEF NoInternalPanic

\* Marking settles one node after another, from the last to the first.
LEMMA MarkStep == IInv /\ Mark => IInv'
<1> SUFFICES ASSUME IInv, Mark PROVE IInv'
  OBVIOUS
<1> USE DEF IInv, Mark
<1>1. Len(nodes) \in Nat /\ DOMAIN nodes = 1..Len(nodes) /\ cursor \in Nat
  BY GraphShape DEF TypeOK
<1>2. MarkedSoFar
  OBVIOUS
<1>3. used' \subseteq DOMAIN nodes /\ used \subseteq used'
  BY <1>1, <1>2 DEF BackRefs, MarkedSoFar
<1>4. \A i \in used' : i > cursor' => Refs(nodes[i]) \subseteq used'
  <2>1. SUFFICES ASSUME NEW i \in used', i > cursor - 1
                 PROVE  Refs(nodes[i]) \subseteq used'
    OBVIOUS
  <2>2. i \in Nat /\ (i = cursor \/ i > cursor)
    BY <1>1, <1>3, <2>1
  <2>3. CASE i = cursor /\ cursor \in used
    BY <2>3
  <2>4. CASE i \in used /\ i > cursor
    BY <1>2, <2>4 DEF MarkedSoFar
  <2>5. CASE i \notin used
    \* A node marked in this step is below the cursor.
    <3>1. i \in Refs(nodes[cursor]) /\ cursor \in used
      BY <2>1, <2>5
    <3>2. i < cursor
      BY <1>1, <1>2, <3>1 DEF BackRefs, MarkedSoFar
    <3> QED
      BY <1>1, <2>2, <3>2
  <2> QED
    BY <2>2, <2>3, <2>4, <2>5
<1>5. \A i \in used' : i \in Range(outputs) \/ \E k \in used' : i \in Refs(nodes[k])
  BY <1>2 DEF MarkedSoFar
<1>6. MarkedSoFar'
  BY <1>2, <1>3, <1>4, <1>5 DEF MarkedSoFar
<1>7. TypeOK'
  BY <1>1, <1>3 DEF TypeOK, ValidSource
<1> QED
  BY <1>6, <1>7 DEF NoInternalPanic

\* Dropping the nodes that are not marked loses no reference.
LEMMA SweepStep == IInv /\ Sweep => IInv'
<1> SUFFICES ASSUME IInv, Sweep PROVE IInv'
  OBVIOUS
<1> USE DEF IInv
<1>1. /\ IsGraph(nodes) /\ outputs \in Seq(Nat) /\ MarkedSoFar
      /\ pc = "mark" /\ cursor = 0 /\ round \in 1..2
  BY DEF TypeOK, Sweep
<1>2. Len(nodes) \in Nat /\ DOMAIN nodes = 1..Len(nodes)
  BY <1>1, GraphShape
<1>3. /\ used \in SUBSET (DOMAIN nodes)
      /\ \A i \in used : Refs(nodes[i]) \subseteq used
  BY <1>1, <1>2 DEF MarkedSoFar
<1>4. /\ IsGraph(Swept(nodes, used)) /\ BackRefs(Swept(nodes, used))
      /\ \A k \in DOMAIN Kept(nodes, used) : Refs(Kept(nodes, used)[k]) \subseteq used
  BY <1>1, <1>3, SweptGraph
<1>5. Range(outputs) \subseteq used
  BY <1>1 DEF MarkedSoFar
<1>6. /\ pc' = IF round = 1 THEN "propagate" ELSE "montgomery"
      /\ panic' = panic
      /\ nodes' = Swept(nodes, used)
      /\ outputs' = [k \in DOMAIN outputs |-> Renumber(used)[outputs[k]]]
      /\ round' = round + 1
      /\ UNCHANGED <<source, cursor, used>>
  BY <1>4, <1>5 DEF Sweep, GoTo, Swept
<1>7. /\ outputs' \in Seq(Nat)
      /\ Range(outputs') \subseteq DOMAIN nodes'
      /\ AllUsed(nodes', outputs')
  BY <1>1, <1>3, <1>5, <1>6, SweptUsed DEF MarkedSoFar
<1>8. TypeOK'
  BY <1>1, <1>4, <1>6, <1>7 DEF TypeOK, Passes, ValidSource
<1> QED
  BY <1>1, <1>4, <1>6, <1>7, <1>8 DEF NoInternalPanic

\* The beginning and the end of propagate leave the graph alone.
LEMMA PropagateStep == IInv /\ (Propagate \/ FoldEnd) => IInv'
<1> SUFFICES ASSUME IInv, Propagate \/ FoldEnd PROVE IInv'
  OBVIOUS
<1>1. CASE Propagate
  BY <1>1 DEF IInv, TypeOK, Propagate, GoTo, Passes, NoInternalPanic, ValidSource
<1>2. CASE FoldEnd
  BY <1>2 DEF IInv, TypeOK, FoldEnd, Passes, NoInternalPanic, ValidSource
<1> QED
  BY <1>1, <1>2

\* Folding a node drops its references or keeps the node.
LEMMA PropagatedNode ==
    ASSUME NEW ns, NEW n, IsNode(n)
    PROVE  IsNode(Propagated(ns, n)) /\ Refs(Propagated(ns, n)) \subseteq Refs(n)
<1> DEFINE folded == Constant(Fold(n, [k \in DOMAIN n.args |-> ns[n.args[k]].val]))
<1>1. Propagated(ns, n) \in {n, folded, Constant(0), Constant(1)}
  BY DEF Propagated
<1>2. \A c \in {folded, Constant(0), Constant(1)} : IsNode(c) /\ Refs(c) = {}
  BY ConstantNode
<1> QED
  BY <1>1, <1>2

\* Folding a node adds no reference.
LEMMA FoldNodeStep == IInv /\ FoldNode => IInv'
<1> SUFFICES ASSUME IInv, FoldNode PROVE IInv'
  OBVIOUS
<1> USE DEF IInv
<1> DEFINE n == Propagated(nodes, nodes[cursor])
<1>1. /\ IsGraph(nodes) /\ pc = "fold" /\ cursor \in Nat /\ cursor >= 1
      /\ cursor <= Len(nodes)
  BY DEF TypeOK, FoldNode
<1>2. Len(nodes) \in Nat /\ DOMAIN nodes = 1..Len(nodes) /\ cursor \in DOMAIN nodes
  BY <1>1, GraphShape
<1>3. \A k \in DOMAIN nodes : IsNode(nodes[k]) /\ Refs(nodes[k]) \subseteq 1..k - 1
  BY <1>1, <1>2, GraphShape DEF BackRefs
<1>4. IsNode(n) /\ Refs(n) \subseteq 1..cursor - 1
  BY <1>2, <1>3, PropagatedNode
<1>5. nodes' = nodes \/ nodes' = [nodes EXCEPT ![cursor] = n]
  BY DEF FoldNode
<1>6. /\ nodes' = [k \in DOMAIN nodes |-> nodes'[k]]
      /\ \A k \in DOMAIN nodes : IsNode(nodes'[k]) /\ Refs(nodes'[k]) \subseteq 1..k - 1
  <2>1. nodes = [k \in DOMAIN nodes |-> nodes[k]]
    BY <1>1, <1>2, LenProperties DEF IsGraph
  <2>2. CASE nodes' = nodes
    BY <1>3, <2>1, <2>2
  <2>3. CASE nodes' = [nodes EXCEPT ![cursor] = n]
    BY <1>2, <1>3, <1>4, <2>1, <2>3
  <2> QED
    BY <1>5, <2>2, <2>3
<1>7. IsGraph(nodes') /\ BackRefs(nodes') /\ DOMAIN nodes' = DOMAIN nodes
  BY <1>1, <1>6, SameLength
<1>8. /\ pc' \in {"fold", "panicked"}
      /\ panic' = IF pc' = "fold" THEN panic ELSE "eval"
      /\ UNCHANGED <<source, outputs, round, used>> /\ cursor' = cursor + 1
  BY DEF FoldNode, GoTo
<1>9. TypeOK'
  BY <1>1, <1>7, <1>8 DEF TypeOK, Passes, ValidSource
<1> QED
  BY <1>1, <1>7, <1>8, <1>9 DEF NoInternalPanic

\* value_numbering moves references to earlier nodes only.
LEMMA ValueNumberingStep == IInv /\ ValueNumbering => IInv'
<1> SUFFICES ASSUME IInv, ValueNumbering PROVE IInv'
  OBVIOUS
<1> USE DEF IInv
<1> DEFINE first == FirstEqual(nodes)
<1>1. IsGraph(nodes) /\ outputs \in Seq(Nat) /\ pc = "number"
  BY DEF TypeOK, ValueNumbering
<1>2. Len(nodes) \in Nat /\ DOMAIN nodes = 1..Len(nodes)
  BY <1>1, GraphShape
<1>3. \A i \in DOMAIN nodes : first[i] \in 1..i
  BY <1>1, FirstEqualIsEarlier
<1>4. /\ nodes' = [k \in DOMAIN nodes |-> MapRefs(nodes[k], first)]
      /\ outputs' = [k \in DOMAIN outputs |-> first[outputs[k]]]
      /\ pc' = "constants" /\ panic' = panic
      /\ UNCHANGED <<source, round, cursor, used>>
  BY DEF ValueNumbering, GoTo
<1> HIDE DEF first
<1>5. ASSUME NEW k \in DOMAIN nodes
      PROVE  IsNode(nodes'[k]) /\ Refs(nodes'[k]) \subseteq 1..k - 1
  <2>1. IsNode(nodes[k]) /\ Refs(nodes[k]) \subseteq 1..k - 1
    BY <1>1, <1>2, GraphShape DEF BackRefs
  <2>2. \A a \in Refs(nodes[k]) : first[a] \in 1..k - 1
    BY <1>2, <1>3, <2>1
  <2>3. \A a \in Refs(nodes[k]) : first[a] \in Nat
    BY <2>2
  <2>4. /\ IsNode(MapRefs(nodes[k], first))
        /\ Refs(MapRefs(nodes[k], first)) = {first[a] : a \in Refs(nodes[k])}
    BY <2>1, <2>3, MovedNode
  <2> QED
    BY <1>4, <2>2, <2>4
<1>6. nodes' = [k \in DOMAIN nodes |-> nodes'[k]]
  BY <1>4
<1>7. IsGraph(nodes') /\ BackRefs(nodes') /\ DOMAIN nodes' = DOMAIN nodes
  BY <1>1, <1>5, <1>6, SameLength
<1>8. \A k \in DOMAIN outputs : outputs[k] \in DOMAIN nodes
  BY DEF Range
<1>9. \A k \in DOMAIN outputs : outputs'[k] \in DOMAIN nodes
  BY <1>2, <1>3, <1>4, <1>8
<1>10. Range(outputs') \subseteq DOMAIN nodes'
  BY <1>4, <1>7, <1>9 DEF Range
<1>11. outputs' \in Seq(Nat)
  <2>1. DOMAIN outputs = 1..Len(outputs) /\ Len(outputs) \in Nat
    BY <1>1, LenProperties
  <2>2. outputs' \in [1..Len(outputs) -> Nat]
    BY <1>2, <1>4, <1>9, <2>1
  <2> QED
    BY <2>1, <2>2
<1>12. TypeOK'
  BY <1>1, <1>4, <1>7, <1>11 DEF TypeOK, Passes, ValidSource
<1> QED
  BY <1>1, <1>4, <1>7, <1>10, <1>12 DEF NoInternalPanic

\* constants drops the references of the nodes it replaces.
LEMMA ConstantsStep == IInv /\ Constants => IInv'
<1> SUFFICES ASSUME IInv, Constants PROVE IInv'
  OBVIOUS
<1> USE DEF IInv
<1>1. IsGraph(nodes) /\ pc = "constants"
  BY DEF TypeOK, Constants
<1>2. Len(nodes) \in Nat /\ DOMAIN nodes = 1..Len(nodes)
  BY <1>1, GraphShape
<1>3. /\ nodes' = ConstantsFound(nodes)
      /\ pc' = "shake" /\ panic' = panic
      /\ UNCHANGED <<source, outputs, round, cursor, used>>
  BY DEF Constants, GoTo
<1>4. nodes' = [k \in DOMAIN nodes |-> nodes'[k]]
  BY <1>3 DEF ConstantsFound
<1>5. ASSUME NEW k \in DOMAIN nodes
      PROVE  IsNode(nodes'[k]) /\ Refs(nodes'[k]) \subseteq 1..k - 1
  <2>1. IsNode(nodes[k]) /\ Refs(nodes[k]) \subseteq 1..k - 1
    BY <1>1, <1>2, GraphShape DEF BackRefs
  <2>2. nodes'[k] \in {nodes[k], Constant(Coef(RandomEval(nodes)[k], One))}
    BY <1>3 DEF ConstantsFound
  <2> QED
    BY <2>1, <2>2, ConstantNode
<1>6. IsGraph(nodes') /\ BackRefs(nodes') /\ DOMAIN nodes' = DOMAIN nodes
  BY <1>1, <1>4, <1>5, SameLength
<1>7. TypeOK'
  BY <1>1, <1>3, <1>6 DEF TypeOK, Passes, ValidSource
<1> QED
  BY <1>1, <1>3, <1>6, <1>7 DEF NoInternalPanic

\* montgomery_form changes constants only, so that all nodes stay used.
LEMMA MontgomeryStep == IInv /\ Montgomery => IInv'
<1> SUFFICES ASSUME IInv, Montgomery PROVE IInv'
  OBVIOUS
<1> USE DEF IInv
<1>1. IsGraph(nodes) /\ pc = "montgomery" /\ AllUsed(nodes, outputs)
  BY DEF TypeOK, Montgomery
<1>2. Len(nodes) \in Nat /\ DOMAIN nodes = 1..Len(nodes)
  BY <1>1, GraphShape
<1>3. /\ nodes' = nodes \/ nodes' = [k \in DOMAIN nodes |-> InMontgomeryForm(nodes[k])]
      /\ pc' \in {"done", "panicked"}
      /\ panic' = IF pc' = "done" THEN panic ELSE "unimplemented"
      /\ UNCHANGED <<source, outputs, round, cursor, used>>
  BY DEF Montgomery, GoTo
<1>4. nodes = [k \in DOMAIN nodes |-> nodes[k]]
  BY <1>1, <1>2, LenProperties DEF IsGraph
<1>5. nodes' = [k \in DOMAIN nodes |-> nodes'[k]]
  BY <1>3, <1>4
<1>6. ASSUME NEW k \in DOMAIN nodes
      PROVE  IsNode(nodes'[k]) /\ Refs(nodes'[k]) = Refs(nodes[k])
  <2>1. IsNode(nodes[k])
    BY <1>1, <1>2, GraphShape
  <2>2. nodes'[k] \in {nodes[k], InMontgomeryForm(nodes[k])}
    BY <1>3
  <2>3. CASE nodes[k].kind = "Constant"
    <3>1. Refs(nodes[k]) = {}
      BY <2>1, <2>3 DEF IsNode, Arity, Refs, Range
    <3> QED
      BY <2>1, <2>2, <2>3, <3>1, ConstantNode DEF InMontgomeryForm
  <2>4. CASE nodes[k].kind # "Constant"
    BY <2>1, <2>2, <2>4 DEF InMontgomeryForm
  <2> QED
    BY <2>3, <2>4
<1>7. \A k \in DOMAIN nodes : IsNode(nodes'[k]) /\ Refs(nodes'[k]) \subseteq 1..k - 1
  BY <1>6 DEF BackRefs
<1>8. IsGraph(nodes') /\ BackRefs(nodes') /\ DOMAIN nodes' = DOMAIN nodes
  BY <1>1, <1>5, <1>7, SameLength
<1>9. AllUsed(nodes', outputs')
  BY <1>1, <1>3, <1>6, <1>8 DEF AllUsed
<1>10. TypeOK'
  BY <1>1, <1>3, <1>8 DEF TypeOK, Passes, ValidSource
<1> QED
  BY <1>1, <1>3, <1>8, <1>9, <1>10 DEF NoInternalPanic

-----------------------------------------------------------------------------
\* Every step of the passes keeps the inductive invariant.
LEMMA NextKeepsIInv == IInv /\ [Next]_vars => IInv'
<1>1. IInv /\ UNCHANGED vars => IInv'
  BY DEF IInv, TypeOK, NoInternalPanic, MarkedSoFar, vars, ValidSource
<1> QED
  BY <1>1, ShakeStep, MarkStep, SweepStep, PropagateStep, FoldNodeStep,
     ValueNumberingStep, ConstantsStep, MontgomeryStep DEF Next

\* Every reachable state of the optimizer satisfies the inductive invariant.
THEOREM Invariance == Spec => []IInv
  BY InitIInv, NextKeepsIInv, PTL DEF Spec

\* The optimizer's variables keep their types on every graph.
THEOREM TypeCorrect == Spec => []TypeOK
<1>1. IInv => TypeOK
  BY DEF IInv
<1> QED
  BY <1>1, Invariance, PTL

\* Whatever graph the builder makes, no assert_valid fails between the
\* passes and no reference is lost when nodes are renumbered.
THEOREM ChecksNeverFail == Spec => []NoInternalPanic
<1>1. IInv => NoInternalPanic
  BY DEF IInv
<1> QED
  BY <1>1, Invariance, PTL

\* Whatever graph the builder makes, no node of the graph that is written to
\* disk could have been left out.
THEOREM NothingUnusedIsWritten == Spec => []NothingUnused
<1>1. IInv => NothingUnused
  BY DEF IInv, NothingUnused
<1> QED
  BY <1>1, Invariance, PTL

-----------------------------------------------------------------------------
(***************************************************************************)
(* Nodes that draw the same have the same value.                           *)
(***************************************************************************)

\* Nodes whose constants are field elements and whose operations fold field
\* elements to field elements.
IsFieldNode(n) ==
    /\ n.kind \in {"Constant", "MontConstant"} => n.val \in Field
    /\ n.op \notin {"Shl", "Shr", "Bor", "Bxor"}
IsFieldGraph(ns) == \A i \in DOMAIN ns : IsFieldNode(ns[i])

\* The nodes that draw, and the name of the draw.
Drawing(n) == n.kind \notin {"Constant", "MontConstant"} /\ n.op \notin {"Add", "Sub", "Mul"}
KeyOf(n, rs) ==
    IF n.kind = "Input" THEN <<"Input", n.val>>
    ELSE <<n.op, [k \in DOMAIN n.args |-> rs[n.args[k]]]>>

\* The kinds of nodes.
LEMMA KindsOfNodes ==
    ASSUME NEW n, IsNode(n)
    PROVE  /\ n.kind \in {"Input", "Constant", "MontConstant", "UnoOp", "Op", "TresOp"}
           /\ n.kind \in {"Input", "Constant", "MontConstant"} => n.op = "none" /\ Refs(n) = {}
           /\ n.kind = "UnoOp" => n.op \in UnoOps
           /\ n.kind = "Op" => n.op \in DuoOps
           /\ n.kind = "TresOp" => n.op \in TresOps
           /\ DOMAIN n.args = 1..Arity[n.kind]
           /\ \A k \in 1..Arity[n.kind] : n.args[k] \in Refs(n)
<1>1. n.kind \in {"Input", "Constant", "MontConstant", "UnoOp", "Op", "TresOp"}
  BY DEF IsNode, Arity
<1>2. DOMAIN n.args = 1..Arity[n.kind] /\ \A k \in 1..Arity[n.kind] : n.args[k] \in Refs(n)
  BY DEF IsNode, Refs, Range
<1>3. n.op \in Operations[n.kind]
  BY DEF IsNode
<1>4. n.kind \in {"Input", "Constant", "MontConstant"} => Arity[n.kind] = 0
  BY DEF Arity
<1>5. n.kind \in {"Input", "Constant", "MontConstant"} => Refs(n) = {}
  BY <1>2, <1>4 DEF Refs, Range
<1> QED
  BY <1>1, <1>2, <1>3, <1>5 DEF Operations

\* What a node evaluates to, kind by kind.
LEMMA ValueOfNode ==
    ASSUME NEW n, IsNode(n), NEW vs, NEW inputs, \A a \in Refs(n) : vs[a] # Panic
    PROVE  /\ n.kind = "Constant" => NodeValue(n, vs, inputs) = n.val % M
           /\ n.kind = "MontConstant" => NodeValue(n, vs, inputs) = n.val
           /\ n.kind = "Input" => NodeValue(n, vs, inputs) = IF n.val \in DOMAIN inputs
                                                             THEN inputs[n.val] % M ELSE Panic
           /\ n.kind = "UnoOp" => NodeValue(n, vs, inputs) = UnoEvalFr(n.op, vs[n.args[1]])
           /\ n.kind = "Op" => NodeValue(n, vs, inputs)
                                 = EvalFr(n.op, vs[n.args[1]], vs[n.args[2]])
           /\ n.kind = "TresOp" => NodeValue(n, vs, inputs)
                                 = TresEvalFr(n.op, vs[n.args[1]], vs[n.args[2]], vs[n.args[3]])
BY KindsOfNodes DEF NodeValue

\* Evaluation leaves field elements or panics.
LEMMA ValueType ==
    ASSUME NEW n, IsNode(n), IsFieldNode(n), NEW vs, \A a \in Refs(n) : vs[a] \in Field,
           NEW I, NEW inputs \in [I -> Field]
    PROVE  NodeValue(n, vs, inputs) \in Field \cup {Panic}
<1>1. \A a \in Refs(n) : vs[a] # Panic
  BY PanicIsNoElement
<1>2. \A k \in 1..Arity[n.kind] : vs[n.args[k]] \in Field
  BY KindsOfNodes
<1>3. CASE n.kind \in {"Constant", "MontConstant", "Input"}
  <2>1. n.kind # "Input" => n.val \in Field
    BY <1>3 DEF IsFieldNode
  <2>2. \A i \in I : inputs[i] % M \in Field
    BY FieldElements
  <2> QED
    BY <1>1, <1>3, <2>1, <2>2, ValueOfNode, FieldElements
<1>4. CASE n.kind = "UnoOp"
  <2>1. 1 \in 1..Arity[n.kind] /\ n.op \in {"Neg", "Id"}
    BY <1>4, KindsOfNodes DEF Arity, UnoOps
  <2>2. UnoEvalFr("Id", vs[n.args[1]]) = Panic
    BY DEF UnoEvalFr
  <2> QED
    BY <1>1, <1>2, <1>4, <2>1, <2>2, ValueOfNode, NegationAgrees
<1>5. CASE n.kind = "Op"
  <2>1. 1 \in 1..Arity[n.kind] /\ 2 \in 1..Arity[n.kind] /\ n.op \in Arithmetic \cup {"Pow"}
    BY <1>5, KindsOfNodes DEF Arity, IsFieldNode, Arithmetic
  <2>2. EvalFr("Pow", vs[n.args[1]], vs[n.args[2]]) = Panic
    BY DEF EvalFr
  <2>3. CASE n.op \in Arithmetic
    <3>1. vs[n.args[1]] \in Field /\ vs[n.args[2]] \in Field
      BY <1>2, <2>1
    <3>2. Agrees(n.op, vs[n.args[1]], vs[n.args[2]])
      BY <2>3, <3>1, OperationsAgree
    <3> QED
      BY <1>1, <1>5, <3>2, ValueOfNode DEF Agrees
  <2> QED
    BY <1>1, <1>5, <2>1, <2>2, <2>3, ValueOfNode
<1>6. CASE n.kind = "TresOp"
  <2>1. 2 \in 1..Arity[n.kind] /\ 3 \in 1..Arity[n.kind]
    BY <1>6 DEF Arity
  <2>2. vs[n.args[2]] \in Field /\ vs[n.args[3]] \in Field
    BY <1>2, <2>1
  <2> QED
    BY <1>1, <1>6, <2>2, ValueOfNode DEF TresEvalFr
<1> QED
  BY <1>3, <1>4, <1>5, <1>6, KindsOfNodes

\* Nodes that draw by the same name have the same value.
LEMMA SameKey ==
    ASSUME NEW n, IsNode(n), Drawing(n), NEW m, IsNode(m), Drawing(m),
           NEW rs, KeyOf(n, rs) = KeyOf(m, rs), NEW vs, NEW inputs,
           \A a \in Refs(n) \cup Refs(m) : vs[a] # Panic,
           \A a \in Refs(n), b \in Refs(m) : rs[a] = rs[b] => vs[a] = vs[b]
    PROVE  NodeValue(n, vs, inputs) = NodeValue(m, vs, inputs)
<1>1. /\ n.kind \in {"Input", "UnoOp", "Op", "TresOp"}
      /\ m.kind \in {"Input", "UnoOp", "Op", "TresOp"}
  BY KindsOfNodes DEF Drawing
<1>2. n.kind # "Input" => n.op # "Input"
  BY <1>1, KindsOfNodes DEF UnoOps, DuoOps, TresOps
<1>3. m.kind # "Input" => m.op # "Input"
  BY <1>1, KindsOfNodes DEF UnoOps, DuoOps, TresOps
<1>4. CASE n.kind = "Input" \/ m.kind = "Input"
  <2>1. n.kind = "Input" /\ m.kind = "Input"
    BY <1>2, <1>3, <1>4 DEF KeyOf
  <2>2. n.val = m.val
    BY <2>1 DEF KeyOf
  <2> QED
    BY <2>1, <2>2, ValueOfNode
<1>5. CASE n.kind # "Input" /\ m.kind # "Input"
  <2> DEFINE f == [k \in DOMAIN n.args |-> rs[n.args[k]]]
             g == [k \in DOMAIN m.args |-> rs[m.args[k]]]
  <2>1. n.op = m.op /\ f = g
    BY <1>5 DEF KeyOf
  <2>2. n.kind = m.kind
    BY <1>1, <1>5, <2>1, KindsOfNodes DEF UnoOps, DuoOps, TresOps
  <2>3. DOMAIN n.args = 1..Arity[n.kind] /\ DOMAIN m.args = 1..Arity[n.kind]
    BY <2>2, KindsOfNodes
  <2>4. \A k \in 1..Arity[n.kind] : rs[n.args[k]] = rs[m.args[k]]
    <3>1. \A k \in 1..Arity[n.kind] : f[k] = rs[n.args[k]] /\ g[k] = rs[m.args[k]]
      BY <2>3
    <3> HIDE DEF f, g
    <3> QED
      BY <2>1, <3>1
  <2>5. \A k \in 1..Arity[n.kind] : vs[n.args[k]] = vs[m.args[k]]
    BY <2>2, <2>4, KindsOfNodes
  <2> HIDE DEF f, g
  <2>9. (\A a \in Refs(n) : vs[a] # Panic) /\ \A a \in Refs(m) : vs[a] # Panic
    OBVIOUS
  <2>6. CASE n.kind = "UnoOp"
    <3>1. 1 \in 1..Arity[n.kind]
      BY <2>6 DEF Arity
    <3>2. NodeValue(n, vs, inputs) = UnoEvalFr(n.op, vs[n.args[1]])
      BY <2>6, <2>9, ValueOfNode
    <3>3. NodeValue(m, vs, inputs) = UnoEvalFr(m.op, vs[m.args[1]])
      BY <2>2, <2>6, <2>9, ValueOfNode, ZenonT(60)
    <3> QED
      BY <2>1, <2>5, <3>1, <3>2, <3>3
  <2>7. CASE n.kind = "Op"
    <3>1. 1 \in 1..Arity[n.kind] /\ 2 \in 1..Arity[n.kind]
      BY <2>7 DEF Arity
    <3>2. NodeValue(n, vs, inputs) = EvalFr(n.op, vs[n.args[1]], vs[n.args[2]])
      BY <2>7, <2>9, ValueOfNode
    <3>3. NodeValue(m, vs, inputs) = EvalFr(m.op, vs[m.args[1]], vs[m.args[2]])
      BY <2>2, <2>7, <2>9, ValueOfNode, ZenonT(60)
    <3> QED
      BY <2>1, <2>5, <3>1, <3>2, <3>3
  <2>8. CASE n.kind = "TresOp"
    <3>1. 1 \in 1..Arity[n.kind] /\ 2 \in 1..Arity[n.kind] /\ 3 \in 1..Arity[n.kind]
      BY <2>8 DEF Arity
    <3>2. NodeValue(n, vs, inputs) = TresEvalFr(n.op, vs[n.args[1]], vs[n.args[2]], vs[n.args[3]])
      BY <2>8, <2>9, ValueOfNode
    <3>3. NodeValue(m, vs, inputs) = TresEvalFr(m.op, vs[m.args[1]], vs[m.args[2]], vs[m.args[3]])
      BY <2>2, <2>8, <2>9, ValueOfNode, ZenonT(60)
    <3> QED
      BY <2>1, <2>5, <3>1, <3>2, <3>3
  <2> QED
    BY <1>1, <1>5, <2>6, <2>7, <2>8
<1> QED
  BY <1>4, <1>5

\* What a node draws, kind by kind.
LEMMA DrawOfNode ==
    ASSUME NEW n, IsNode(n), NEW rs
    PROVE  /\ n.kind \in {"Constant", "MontConstant"} => RandomValue(n, rs) = ConstPoly(n.val)
           /\ Drawing(n) => RandomValue(n, rs) = Draw(KeyOf(n, rs))
           /\ n.op = "Add" => RandomValue(n, rs) = AddPoly(rs[n.args[1]], rs[n.args[2]])
           /\ n.op = "Sub" => RandomValue(n, rs) = SubPoly(rs[n.args[1]], rs[n.args[2]])
           /\ n.op = "Mul" => RandomValue(n, rs) = MulPoly(rs[n.args[1]], rs[n.args[2]])
           /\ n.op \in {"Add", "Sub", "Mul"} => n.kind = "Op"
<1>1. n.op \in {"Add", "Sub", "Mul"} => n.kind = "Op"
  BY KindsOfNodes DEF UnoOps, TresOps
<1>2. n.kind = "Input" => n.op = "none"
  BY KindsOfNodes
<1> QED
  BY <1>1, <1>2 DEF RandomValue, Drawing, KeyOf

\* Draw p in the draws K is worth v.
Worth(p, K, env, v) == IsPoly(p, K) /\ PolyVal(p, env) = v
\* Every node of ns is worth the draw it draws.
DrawsWorth(ns, rs, vs, K, env) ==
    /\ IsFiniteSet(K) /\ env \in [K -> Field]
    /\ \A i \in DOMAIN ns : Worth(rs[i], K, env, vs[i])

\* A node that does not draw is worth what it evaluates to when the nodes it
\* refers to are.
LEMMA ComputedWorth ==
    ASSUME NEW K, IsFiniteSet(K), NEW env \in [K -> Field],
           NEW n, IsNode(n), IsFieldNode(n), ~Drawing(n), NEW rs, NEW vs, NEW inputs,
           \A a \in Refs(n) : vs[a] \in Field /\ Worth(rs[a], K, env, vs[a])
    PROVE  Worth(RandomValue(n, rs), K, env, NodeValue(n, vs, inputs))
<1>1. \A a \in Refs(n) : vs[a] # Panic
  BY PanicIsNoElement
<1>2. CASE n.kind \in {"Constant", "MontConstant"}
  <2>1. n.val \in Field /\ n.val % M = n.val
    BY <1>2, FieldElements DEF IsFieldNode
  <2>2. NodeValue(n, vs, inputs) = n.val
    BY <1>1, <1>2, <2>1, ValueOfNode
  <2>3. RandomValue(n, rs) = ConstPoly(n.val)
    BY <1>2, DrawOfNode
  <2> QED
    BY <2>1, <2>2, <2>3, ConstVal DEF Worth
<1>3. CASE n.op \in {"Add", "Sub", "Mul"}
  <2> DEFINE a == n.args[1]
             b == n.args[2]
             p == rs[a]
             q == rs[b]
             x == vs[a]
             y == vs[b]
  <2>1. n.kind = "Op"
    BY <1>3, DrawOfNode
  <2>2. a \in Refs(n) /\ b \in Refs(n)
    <3>1. 1 \in 1..Arity[n.kind] /\ 2 \in 1..Arity[n.kind]
      BY <2>1 DEF Arity
    <3> QED
      BY <3>1, KindsOfNodes
  <2>3. x \in Field /\ y \in Field /\ Worth(p, K, env, x) /\ Worth(q, K, env, y)
    BY <2>2
  <2>4. NodeValue(n, vs, inputs) = EvalFr(n.op, x, y)
    BY <1>1, <2>1, ValueOfNode
  <2>5. /\ n.op = "Add" => RandomValue(n, rs) = AddPoly(p, q)
        /\ n.op = "Sub" => RandomValue(n, rs) = SubPoly(p, q)
        /\ n.op = "Mul" => RandomValue(n, rs) = MulPoly(p, q)
    BY DrawOfNode
  <2> HIDE DEF a, b, p, q, x, y
  <2>6. /\ EvalFr("Add", x, y) = (x + y) % M /\ EvalFr("Sub", x, y) = (x - y) % M
        /\ EvalFr("Mul", x, y) = (x * y) % M
    BY DEF EvalFr
  <2>7. On(AddM, x, y) = (x + y) % M /\ On(TimesM, x, y) = (x * y) % M
    BY <2>3, AddTimesM
  <2>8. IsPoly(p, K) /\ PolyVal(p, env) = x /\ IsPoly(q, K) /\ PolyVal(q, env) = y
    BY <2>3 DEF Worth
  <2>9. CASE n.op = "Add"
    BY <2>4, <2>5, <2>6, <2>7, <2>8, <2>9, AddVal DEF Worth
  <2>10. CASE n.op = "Sub"
    BY <2>4, <2>5, <2>6, <2>8, <2>10, SubVal DEF Worth
  <2>11. CASE n.op = "Mul"
    BY <2>4, <2>5, <2>6, <2>7, <2>8, <2>11, MulVal DEF Worth
  <2> QED
    BY <1>3, <2>9, <2>10, <2>11
<1> QED
  BY <1>2, <1>3 DEF Drawing

\* The values of the draws can be chosen so that every node is worth what it
\* draws, when evaluation does not panic.
LEMMA DrawsAreValues ==
    ASSUME NEW ns, IsGraph(ns), BackRefs(ns), IsFieldGraph(ns),
           NEW I, NEW inputs \in [I -> Field],
           \A i \in DOMAIN ns : Values(ns, inputs)[i] # Panic
    PROVE  /\ \A i \in DOMAIN ns : Values(ns, inputs)[i] \in Field
           /\ \E K, env : DrawsWorth(ns, RandomEval(ns), Values(ns, inputs), K, env)
<1> DEFINE N == Len(ns)
           vs == Values(ns, inputs)
           rs == RandomEval(ns)
           D == {j \in DOMAIN ns : Drawing(ns[j])}
           key == [j \in D |-> KeyOf(ns[j], rs)]
           K == {key[j] : j \in D}
           first(k) == Min({j \in D : key[j] = k})
           env == [k \in K |-> vs[first(k)]]
<1>1. N \in Nat /\ DOMAIN ns = 1..N
  BY GraphShape
<1>2. \A i \in 1..N : IsNode(ns[i]) /\ IsFieldNode(ns[i]) /\ Refs(ns[i]) \subseteq 1..i - 1
  BY <1>1, GraphShape DEF BackRefs, IsFieldGraph
<1>3. \A i \in 1..N : vs[i] = NodeValue(ns[i], vs, inputs) /\ vs[i] # Panic
  BY <1>1, ValuesFound
<1>4. \A i \in 1..N : rs[i] = RandomValue(ns[i], rs)
  BY <1>1, DrawnFound
<1> HIDE DEF N, vs, rs
<1>5. \A i \in 1..N : vs[i] \in Field
  <2> DEFINE T == {n \in 0..N : \A i \in 1..n : vs[i] \in Field}
  <2>1. 0 \in T
    BY <1>1
  <2>2. ASSUME NEW n \in 0..N - 1, n \in T PROVE n + 1 \in T
    <3>1. n + 1 \in 1..N /\ n + 1 \in 0..N /\ (n + 1) - 1 = n
      BY <1>1
    <3>2. \A a \in Refs(ns[n + 1]) : vs[a] \in Field
      BY <1>2, <2>2, <3>1
    <3>3. NodeValue(ns[n + 1], vs, inputs) \in Field \cup {Panic}
      BY <1>2, <3>1, <3>2, ValueType
    <3>4. vs[n + 1] \in Field
      BY <1>3, <3>1, <3>3
    <3>5. \A i \in 1..n + 1 : i \in 1..n \/ i = n + 1
      BY <3>1
    <3> QED
      BY <2>2, <3>1, <3>4, <3>5
  <2> HIDE DEF T
  <2>3. \A n \in 0..N : n \in T
    BY <1>1, <2>1, <2>2, Induction
  <2>4. N \in 0..N
    BY <1>1
  <2> QED
    BY <2>3, <2>4 DEF T
<1>6. D \in SUBSET (1..N) /\ \A j \in D : Drawing(ns[j])
  BY <1>1
<1>7. IsFiniteSet(D)
  BY <1>1, <1>6, FS_Interval, FS_Subset
<1>8. DOMAIN key = D /\ key = [j \in D |-> key[j]] /\ \A j \in D : key[j] = KeyOf(ns[j], rs)
  OBVIOUS
<1> HIDE DEF D, key
<1>9. IsFiniteSet(K)
  BY <1>7, <1>8, FiniteImage
<1>10. ASSUME NEW i \in D
       PROVE  /\ key[i] \in K /\ first(key[i]) \in D /\ key[first(key[i])] = key[i]
              /\ first(key[i]) <= i
  <2> DEFINE T == {j \in D : key[j] = key[i]}
  <2>3. \A j \in D : j \in Nat
    <3>1. \A j \in 1..N : j \in Nat
      BY <1>1
    <3> QED
      BY <1>6, <3>1
  <2>1. T \in SUBSET Nat /\ i \in T
    <3>1. i \in T
      OBVIOUS
    <3> QED
      BY <2>3, <3>1
  <2>2. Min(T) \in T /\ Min(T) <= i
    <3> HIDE DEF T
    <3> QED
      BY <2>1, LeastNatural
  <2> QED
    BY <2>2
<1>11. \A k \in K : \E i \in D : k = key[i]
  OBVIOUS
<1>12. \A i \in D : env[key[i]] = vs[first(key[i])]
  BY <1>10
<1>13. env \in [K -> Field]
  <2>1. \A k \in K : vs[first(k)] \in Field
    <3> HIDE DEF K, first
    <3>1. \A k \in K : first(k) \in 1..N
      BY <1>6, <1>10, <1>11
    <3> QED
      BY <1>5, <3>1
  <2> QED
    BY <2>1
<1> HIDE DEF K, first, env
<1> DEFINE Good(i) == Worth(rs[i], K, env, vs[i])
           T == {n \in 0..N : \A i \in 1..n : Good(i)}
<1>14. 0 \in T
  BY <1>1
<1>15. ASSUME NEW n \in 0..N - 1, n \in T PROVE n + 1 \in T
  <2> DEFINE m == n + 1
  <2>1. m \in 1..N /\ m \in 0..N /\ m - 1 = n /\ \A i \in 1..m : i \in 1..n \/ i = m
    BY <1>1
  <2>2. \A i \in 1..n : Good(i) /\ i \in 1..N
    BY <1>1, <1>15
  <2> HIDE DEF Good, m
  <2>3. \A a \in Refs(ns[m]) : a \in 1..n
    BY <1>2, <2>1
  <2>4. ASSUME m \notin D PROVE Good(m)
    <3>1. ~Drawing(ns[m])
      BY <1>1, <2>1, <2>4 DEF D
    <3>2. \A a \in Refs(ns[m]) : vs[a] \in Field /\ Worth(rs[a], K, env, vs[a])
      BY <1>5, <2>2, <2>3 DEF Good
    <3>3. Worth(RandomValue(ns[m], rs), K, env, NodeValue(ns[m], vs, inputs))
      BY <1>2, <1>9, <1>13, <2>1, <3>1, <3>2, ComputedWorth
    <3> QED
      BY <1>3, <1>4, <2>1, <3>3 DEF Good
  <2>5. ASSUME m \in D PROVE Good(m)
    <3> DEFINE j == first(key[m])
    <3>1. key[m] \in K /\ j \in D /\ key[j] = key[m] /\ j <= m /\ env[key[m]] = vs[j]
      BY <1>10, <1>12, <2>5
    <3> HIDE DEF j
    <3>2. rs[m] = Draw(key[m])
      BY <1>2, <1>4, <1>6, <1>8, <2>1, <2>5, DrawOfNode
    <3>3. Worth(rs[m], K, env, vs[j])
      BY <1>9, <1>13, <3>1, <3>2, DrawVal DEF Worth
    <3>4. vs[j] = vs[m]
      <4>1. /\ IsNode(ns[m]) /\ IsNode(ns[j]) /\ Drawing(ns[m]) /\ Drawing(ns[j])
            /\ KeyOf(ns[j], rs) = KeyOf(ns[m], rs)
        BY <1>2, <1>6, <1>8, <2>1, <2>5, <3>1
      <4>2. j \in 1..N
        BY <1>6, <3>1
      <4>3. \A a \in Refs(ns[j]) : a \in 1..n
        <5>1. \A a \in 1..j - 1 : a \in 1..n
          BY <1>1, <2>1, <3>1, <4>2
        <5> QED
          BY <1>2, <4>2, <5>1
      <4>4. \A a \in Refs(ns[j]) \cup Refs(ns[m]) : vs[a] # Panic
        BY <1>3, <2>2, <2>3, <4>3
      <4>5. \A a \in Refs(ns[j]), b \in Refs(ns[m]) : rs[a] = rs[b] => vs[a] = vs[b]
        BY <2>2, <2>3, <4>3 DEF Good, Worth
      <4>6. NodeValue(ns[j], vs, inputs) = NodeValue(ns[m], vs, inputs)
        BY <4>1, <4>4, <4>5, SameKey
      <4> QED
        BY <1>3, <2>1, <4>2, <4>6
    <3> QED
      BY <3>3, <3>4 DEF Good
  <2>6. \A i \in 1..m : Good(i)
    BY <2>1, <2>2, <2>4, <2>5
  <2> QED
    BY <2>1, <2>6 DEF m
<1>16. \A n \in 0..N : n \in T
  <2> HIDE DEF T
  <2> QED
    BY <1>1, <1>14, <1>15, Induction
<1>17. N \in 0..N
  BY <1>1
<1>18. \A i \in 1..N : Good(i)
  BY <1>16, <1>17
<1>19. DrawsWorth(ns, rs, vs, K, env)
  BY <1>1, <1>9, <1>13, <1>18 DEF DrawsWorth
<1> HIDE DEF T, Good
<1>20. \E k, e : DrawsWorth(ns, rs, vs, k, e)
  BY <1>19
<1> QED
  BY <1>1, <1>5, <1>20 DEF vs, rs

\* Nodes that draw the same have the same value.
LEMMA EqualDraws ==
    ASSUME NEW ns, IsGraph(ns), BackRefs(ns), IsFieldGraph(ns),
           NEW I, NEW inputs \in [I -> Field],
           \A i \in DOMAIN ns : Values(ns, inputs)[i] # Panic,
           NEW i \in DOMAIN ns, NEW j \in DOMAIN ns, RandomEval(ns)[i] = RandomEval(ns)[j]
    PROVE  Values(ns, inputs)[i] = Values(ns, inputs)[j]
<1>1. PICK K, env : DrawsWorth(ns, RandomEval(ns), Values(ns, inputs), K, env)
  BY DrawsAreValues
<1> QED
  BY <1>1 DEF DrawsWorth, Worth

\* A node that draws nothing has the value it computes.
LEMMA ConstantDraws ==
    ASSUME NEW ns, IsGraph(ns), BackRefs(ns), IsFieldGraph(ns),
           NEW I, NEW inputs \in [I -> Field],
           \A i \in DOMAIN ns : Values(ns, inputs)[i] # Panic,
           NEW i \in DOMAIN ns, IsConstPoly(RandomEval(ns)[i])
    PROVE  Values(ns, inputs)[i] = Coef(RandomEval(ns)[i], One)
<1> DEFINE p == RandomEval(ns)[i]
<1>1. PICK K, env : DrawsWorth(ns, RandomEval(ns), Values(ns, inputs), K, env)
  BY DrawsAreValues
<1>2. /\ IsFiniteSet(K) /\ env \in [K -> Field] /\ IsPoly(p, K)
      /\ PolyVal(p, env) = Values(ns, inputs)[i]
  BY <1>1 DEF DrawsWorth, Worth
<1>3. DOMAIN p \subseteq {One}
  BY DEF IsConstPoly
<1> HIDE DEF p
<1> DEFINE f == Terms(p, {One}, env)
<1>4. One \in Monomials(K) /\ MonoVal(One, env) = 1
  BY OneVal
<1>5. IsFiniteSet({One}) /\ {One} \subseteq Monomials(K)
  BY <1>4, FS_Singleton
<1>6. PolyVal(p, env) = Sum(f, {One}) /\ \A m \in {One} : f[m] \in Field
  BY <1>2, <1>3, <1>5, PolyValTerms
<1>7. f[One] = On(TimesM, Coef(p, One), 1)
  BY <1>4 DEF Terms, TermVal
<1>8. Coef(p, One) \in Field
  BY <1>2, FieldElements DEF Coef, IsPoly
<1>9. On(TimesM, Coef(p, One), 1) = Coef(p, One)
  BY <1>8, TimesIsMonoid, Operates
<1> HIDE DEF f
<1>10. Sum(f, {One}) = f[One]
  <2>1. One \in {One} /\ f[One] \in Field /\ \A x \in {One} \ {One} : f[x] = 0
    BY <1>6
  <2> QED
    BY <1>5, <2>1, AddIsMonoid, TotalOfOne DEF Sum
<1> QED
  BY <1>2, <1>6, <1>7, <1>9, <1>10 DEF p

\* A node whose references are moved to nodes with the same values keeps its value.
LEMMA MovedValue ==
    ASSUME NEW n, IsNode(n), NEW f, NEW vs, NEW ws, NEW inputs,
           \A a \in Refs(n) : f[a] \in Nat /\ ws[f[a]] = vs[a]
    PROVE  NodeValue(MapRefs(n, f), ws, inputs) = NodeValue(n, vs, inputs)
<1> DEFINE m == MapRefs(n, f)
<1>1. IsNode(m) /\ Refs(m) = {f[a] : a \in Refs(n)} /\ m.kind = n.kind
  BY MovedNode
<1>2. m.op = n.op /\ m.val = n.val /\ m.args = [k \in DOMAIN n.args |-> f[n.args[k]]]
  BY DEF MapRefs, Node
<1>3. \A k \in 1..Arity[n.kind] : n.args[k] \in Refs(n) /\ m.args[k] = f[n.args[k]]
  BY <1>2, KindsOfNodes
<1>4. \A k \in 1..Arity[n.kind] : ws[m.args[k]] = vs[n.args[k]]
  BY <1>3
<1> HIDE DEF m
<1>5. CASE \E a \in Refs(n) : vs[a] = Panic
  <2>1. \E a \in Refs(m) : ws[a] = Panic
    BY <1>1, <1>5
  <2> QED
    BY <1>5, <2>1 DEF NodeValue, m
<1>6. CASE \A a \in Refs(n) : vs[a] # Panic
  <2>1. \A a \in Refs(m) : ws[a] # Panic
    BY <1>1, <1>6
  <2>2. n.kind \in {"Input", "Constant", "MontConstant", "UnoOp", "Op", "TresOp"}
    BY KindsOfNodes
  <2>3. CASE n.kind \in {"Input", "Constant", "MontConstant"}
    BY <1>1, <1>2, <1>6, <2>1, <2>3, ValueOfNode DEF m
  <2>4. CASE n.kind = "UnoOp"
    <3>1. ws[m.args[1]] = vs[n.args[1]]
      BY <1>4, <2>4 DEF Arity
    <3>2. NodeValue(n, vs, inputs) = UnoEvalFr(n.op, vs[n.args[1]])
      BY <1>6, <2>4, ValueOfNode
    <3>3. NodeValue(m, ws, inputs) = UnoEvalFr(m.op, ws[m.args[1]])
      BY <1>1, <2>1, <2>4, ValueOfNode
    <3> QED
      BY <1>2, <3>1, <3>2, <3>3 DEF m
  <2>5. CASE n.kind = "Op"
    <3>1. ws[m.args[1]] = vs[n.args[1]] /\ ws[m.args[2]] = vs[n.args[2]]
      BY <1>4, <2>5 DEF Arity
    <3>2. NodeValue(n, vs, inputs) = EvalFr(n.op, vs[n.args[1]], vs[n.args[2]])
      BY <1>6, <2>5, ValueOfNode
    <3>3. NodeValue(m, ws, inputs) = EvalFr(m.op, ws[m.args[1]], ws[m.args[2]])
      BY <1>1, <2>1, <2>5, ValueOfNode
    <3> QED
      BY <1>2, <3>1, <3>2, <3>3 DEF m
  <2>6. CASE n.kind = "TresOp"
    <3>1. /\ ws[m.args[1]] = vs[n.args[1]] /\ ws[m.args[2]] = vs[n.args[2]]
          /\ ws[m.args[3]] = vs[n.args[3]]
      BY <1>4, <2>6 DEF Arity
    <3>2. NodeValue(n, vs, inputs) = TresEvalFr(n.op, vs[n.args[1]], vs[n.args[2]], vs[n.args[3]])
      BY <1>6, <2>6, ValueOfNode
    <3>3. NodeValue(m, ws, inputs) = TresEvalFr(m.op, ws[m.args[1]], ws[m.args[2]], ws[m.args[3]])
      BY <1>1, <2>1, <2>6, ValueOfNode
    <3> QED
      BY <1>2, <3>1, <3>2, <3>3 DEF m
  <2> QED
    BY <2>2, <2>3, <2>4, <2>5, <2>6
<1> QED
  BY <1>5, <1>6

\* A node whose references are moved to nodes that draw the same draws the same.
LEMMA MovedDraw ==
    ASSUME NEW n, IsNode(n), NEW f, NEW vs, NEW ws,
           \A a \in Refs(n) : f[a] \in Nat /\ ws[f[a]] = vs[a]
    PROVE  RandomValue(MapRefs(n, f), ws) = RandomValue(n, vs)
<1> DEFINE m == MapRefs(n, f)
<1>1. IsNode(m) /\ m.kind = n.kind
  BY MovedNode
<1>2. m.op = n.op /\ m.val = n.val /\ m.args = [k \in DOMAIN n.args |-> f[n.args[k]]]
  BY DEF MapRefs, Node
<1>3. /\ DOMAIN m.args = DOMAIN n.args /\ DOMAIN n.args = 1..Arity[n.kind]
      /\ \A k \in DOMAIN n.args : n.args[k] \in Refs(n) /\ m.args[k] = f[n.args[k]]
  BY <1>2, KindsOfNodes
<1>4. \A k \in DOMAIN n.args : ws[m.args[k]] = vs[n.args[k]]
  BY <1>3
<1>5. [k \in DOMAIN m.args |-> ws[m.args[k]]] = [k \in DOMAIN n.args |-> vs[n.args[k]]]
  BY <1>3, <1>4
<1> HIDE DEF m
<1>6. CASE n.kind \in {"Constant", "MontConstant"}
  <2>1. RandomValue(m, ws) = ConstPoly(m.val) /\ RandomValue(n, vs) = ConstPoly(n.val)
    BY <1>1, <1>6, DrawOfNode
  <2> QED
    BY <1>2, <2>1 DEF m
<1>7. CASE Drawing(n)
  <2>1. Drawing(m)
    BY <1>1, <1>2, <1>7 DEF Drawing
  <2>2. KeyOf(m, ws) = KeyOf(n, vs)
    BY <1>1, <1>2, <1>5 DEF KeyOf
  <2>3. RandomValue(m, ws) = Draw(KeyOf(m, ws)) /\ RandomValue(n, vs) = Draw(KeyOf(n, vs))
    BY <1>1, <1>7, <2>1, DrawOfNode
  <2> QED
    BY <2>2, <2>3 DEF m
<1>8. CASE n.op \in {"Add", "Sub", "Mul"}
  <2>1. n.kind = "Op"
    BY <1>8, DrawOfNode
  <2>2. ws[m.args[1]] = vs[n.args[1]] /\ ws[m.args[2]] = vs[n.args[2]]
    BY <1>3, <1>4, <2>1 DEF Arity
  <2>3. /\ n.op = "Add" => RandomValue(n, vs) = AddPoly(vs[n.args[1]], vs[n.args[2]])
        /\ n.op = "Sub" => RandomValue(n, vs) = SubPoly(vs[n.args[1]], vs[n.args[2]])
        /\ n.op = "Mul" => RandomValue(n, vs) = MulPoly(vs[n.args[1]], vs[n.args[2]])
    BY DrawOfNode
  <2>4. /\ m.op = "Add" => RandomValue(m, ws) = AddPoly(ws[m.args[1]], ws[m.args[2]])
        /\ m.op = "Sub" => RandomValue(m, ws) = SubPoly(ws[m.args[1]], ws[m.args[2]])
        /\ m.op = "Mul" => RandomValue(m, ws) = MulPoly(ws[m.args[1]], ws[m.args[2]])
    BY <1>1, DrawOfNode
  <2> QED
    BY <1>2, <1>8, <2>2, <2>3, <2>4 DEF m
<1> QED
  BY <1>6, <1>7, <1>8 DEF Drawing

\* Moving references keeps the operation and the constant.
LEMMA MovedField ==
    ASSUME NEW n, NEW f
    PROVE  /\ MapRefs(n, f).op = n.op /\ MapRefs(n, f).val = n.val
           /\ MapRefs(n, f).kind = n.kind
           /\ IsFieldNode(n) => IsFieldNode(MapRefs(n, f))
BY DEF MapRefs, Node, IsFieldNode

-----------------------------------------------------------------------------
(***************************************************************************)
(* What montgomery_form refuses.  No pass makes an operation or an input:  *)
(* each of a graph is one of the builder's own.                            *)
(***************************************************************************)

Like(n, o) == n.kind = o.kind /\ n.op = o.op /\ n.val = o.val
MadeOf(n, ns) == \/ n.kind \in {"Constant", "MontConstant"} /\ n.op = "none"
                 \/ \E i \in DOMAIN ns : Like(n, ns[i])
NodesAreTheSources == \A k \in DOMAIN nodes : MadeOf(nodes[k], source.nodes)

HasOp(ns, op) == \E i \in DOMAIN ns : ns[i].op = op
RefusedInv ==
    /\ NodesAreTheSources
    /\ panic = "unimplemented" => \E op \in NoFieldVersion : HasOp(source.nodes, op)

\* A node with an operation that has no field version panics on every input.
LEMMA NoFieldVersionPanics ==
    ASSUME NEW ns, IsGraph(ns), BackRefs(ns), NEW op \in NoFieldVersion, HasOp(ns, op),
           NEW inputs, NEW outs
    PROVE  Evaluate(ns, inputs, outs) = <<Panic>>
<1> DEFINE vs == Values(ns, inputs)
<1>1. PICK i \in DOMAIN ns : ns[i].op = op
  BY DEF HasOp
<1>2. IsNode(ns[i]) /\ ns[i].op \in {"Pow", "Id"}
  BY <1>1, GraphShape DEF NoFieldVersion
<1>3. DOMAIN vs = DOMAIN ns /\ vs[i] = NodeValue(ns[i], vs, inputs)
  BY ValuesFound
<1> HIDE DEF vs
<1>4. NodeValue(ns[i], vs, inputs) = Panic
  <2>1. CASE \E a \in Refs(ns[i]) : vs[a] = Panic
    BY <2>1 DEF NodeValue
  <2>2. CASE \A a \in Refs(ns[i]) : vs[a] # Panic
    <3>1. ns[i].kind \in {"UnoOp", "Op"}
      BY <1>2, KindsOfNodes DEF TresOps
    <3>2. CASE ns[i].kind = "UnoOp"
      <4>1. ns[i].op = "Id"
        BY <1>2, <3>2, KindsOfNodes DEF UnoOps
      <4>2. NodeValue(ns[i], vs, inputs) = UnoEvalFr(ns[i].op, vs[ns[i].args[1]])
        BY <1>2, <2>2, <3>2, ValueOfNode
      <4> QED
        BY <4>1, <4>2 DEF UnoEvalFr
    <3>3. CASE ns[i].kind = "Op"
      <4>1. ns[i].op = "Pow"
        BY <1>2, <3>3, KindsOfNodes DEF DuoOps
      <4>2. NodeValue(ns[i], vs, inputs) = EvalFr(ns[i].op, vs[ns[i].args[1]], vs[ns[i].args[2]])
        BY <1>2, <2>2, <3>3, ValueOfNode
      <4> QED
        BY <4>1, <4>2 DEF EvalFr
    <3> QED
      BY <3>1, <3>2, <3>3
  <2> QED
    BY <2>1, <2>2
<1>5. Panic \in Range(vs)
  BY <1>3, <1>4 DEF Range
<1> QED
  BY <1>5 DEF Evaluate, vs

\* No pass makes an operation or an input.
LEMMA NodesStay == IInv /\ NodesAreTheSources /\ [Next]_vars => NodesAreTheSources'
<1> SUFFICES ASSUME IInv, NodesAreTheSources, [Next]_vars PROVE NodesAreTheSources'
  OBVIOUS
<1>1. source' = source
  BY DEF Next, Shake, Mark, Sweep, Propagate, FoldNode, FoldEnd, ValueNumbering, Constants,
         Montgomery, vars
<1>2. IsGraph(nodes) /\ BackRefs(nodes)
  BY DEF IInv, TypeOK
<1>3. SUFFICES \A k \in DOMAIN nodes' : MadeOf(nodes'[k], nodes)
  <2>1. SUFFICES ASSUME NEW k \in DOMAIN nodes', MadeOf(nodes'[k], nodes)
                 PROVE  MadeOf(nodes'[k], source.nodes)
    BY <1>1 DEF NodesAreTheSources
  <2>2. CASE \E i \in DOMAIN nodes : Like(nodes'[k], nodes[i])
    <3>1. PICK i \in DOMAIN nodes : Like(nodes'[k], nodes[i])
      BY <2>2
    <3>2. MadeOf(nodes[i], source.nodes)
      BY DEF NodesAreTheSources
    <3> QED
      BY <3>1, <3>2 DEF MadeOf, Like
  <2> QED
    BY <2>1, <2>2 DEF MadeOf
<1>4. \A c : MadeOf(Constant(c), nodes) /\ MadeOf(MontConstant(c), nodes)
  BY DEF Constant, MontConstant, Node, MadeOf
<1>5. \A k \in DOMAIN nodes : MadeOf(nodes[k], nodes)
  BY DEF MadeOf, Like
<1>6. \A k \in DOMAIN nodes : \A f : Like(MapRefs(nodes[k], f), nodes[k])
  BY MovedField DEF Like
<1>7. CASE Shake \/ Mark \/ Propagate \/ FoldEnd \/ UNCHANGED vars
  BY <1>5, <1>7 DEF Shake, Mark, Propagate, FoldEnd, vars
<1>8. CASE Sweep
  <2>1. used \in SUBSET DOMAIN nodes
    BY <1>8 DEF IInv, Sweep, MarkedSoFar
  <2>2. used \in SUBSET Nat /\ IsFiniteSet(used)
    BY <1>2, <2>1, PositionsAreFinite
  <2>3. DOMAIN nodes' = DOMAIN Kept(nodes, used)
        /\ \A k \in DOMAIN nodes' : \/ nodes'[k] = Kept(nodes, used)[k]
                                    \/ nodes'[k] = MapRefs(Kept(nodes, used)[k], Renumber(used))
    BY <1>8 DEF Sweep
  <2>4. \A k \in DOMAIN nodes' : Like(nodes'[k], Kept(nodes, used)[k])
    BY <2>3, MovedField DEF Like
  <2>5. \A k \in DOMAIN nodes' : \E i \in used : Kept(nodes, used)[k] = nodes[i]
    <3>1. DOMAIN Kept(nodes, used) = 1..Cardinality(used)
      BY <2>2, KeptNodes
    <3>2. \A k \in 1..Cardinality(used) : \E i \in used :
              Renumber(used)[i] = k /\ Kept(nodes, used)[k] = nodes[i]
      BY <2>2, KeptNodes
    <3> QED
      BY <2>3, <3>1, <3>2
  <2> QED
    BY <2>1, <2>4, <2>5 DEF MadeOf
<1>9. CASE FoldNode
  <2> DEFINE n == nodes[cursor]
  <2>1. nodes' = nodes \/ nodes' = [nodes EXCEPT ![cursor] = Propagated(nodes, n)]
    BY <1>9 DEF FoldNode
  <2>2. Propagated(nodes, n) = n \/ \E c : Propagated(nodes, n) = Constant(c)
    BY DEF Propagated
  <2>3. \A k \in DOMAIN nodes' : nodes'[k] = nodes[k] \/ \E c : nodes'[k] = Constant(c)
    BY <2>1, <2>2
  <2> QED
    BY <1>4, <1>5, <2>1, <2>3
<1>10. CASE ValueNumbering
  <2>1. nodes' = [k \in DOMAIN nodes |-> MapRefs(nodes[k], FirstEqual(nodes))]
    BY <1>10 DEF ValueNumbering
  <2> QED
    BY <1>6, <2>1 DEF MadeOf
<1>11. CASE Constants
  <2>1. nodes' = ConstantsFound(nodes)
    BY <1>11 DEF Constants
  <2>2. DOMAIN nodes' = DOMAIN nodes
        /\ \A k \in DOMAIN nodes : nodes'[k] = nodes[k] \/ \E c : nodes'[k] = Constant(c)
    BY <2>1 DEF ConstantsFound
  <2> QED
    BY <1>4, <1>5, <2>2
<1>12. CASE Montgomery
  <2>1. nodes' = nodes \/ nodes' = [k \in DOMAIN nodes |-> InMontgomeryForm(nodes[k])]
    BY <1>12 DEF Montgomery
  <2>2. \A k \in DOMAIN nodes : InMontgomeryForm(nodes[k]) = nodes[k]
                               \/ \E c : InMontgomeryForm(nodes[k]) = MontConstant(c)
    BY DEF InMontgomeryForm
  <2> QED
    BY <1>4, <1>5, <2>1, <2>2
<1> QED
  BY <1>7, <1>8, <1>9, <1>10, <1>11, <1>12 DEF Next

\* montgomery_form refuses only what evaluate would refuse in the builder's
\* own graph, whatever that graph is.
THEOREM OnlyUnrunnableIsRefused == Spec => []RefusedIsUnrunnable
<1>1. Init => RefusedInv
  <2> SUFFICES ASSUME Init PROVE RefusedInv
    OBVIOUS
  <2> QED
    BY DEF Init, RefusedInv, NodesAreTheSources, MadeOf, Like
<1>2. IInv /\ RefusedInv /\ [Next]_vars => RefusedInv'
  <2> SUFFICES ASSUME IInv, RefusedInv, [Next]_vars PROVE RefusedInv'
    OBVIOUS
  <2>1. NodesAreTheSources'
    BY NodesStay DEF RefusedInv
  <2>2. source' = source
    BY DEF Next, Shake, Mark, Sweep, Propagate, FoldNode, FoldEnd, ValueNumbering, Constants,
           Montgomery, vars
  <2>3. CASE Shake \/ Mark \/ Sweep \/ Propagate \/ FoldNode \/ FoldEnd \/ UNCHANGED vars
    <3>1. panic' = "unimplemented" => panic = "unimplemented"
      BY <2>3 DEF Shake, Mark, Sweep, Propagate, FoldNode, FoldEnd, GoTo, vars
    <3> QED
      BY <2>1, <2>2, <3>1 DEF RefusedInv
  <2>4. CASE ValueNumbering \/ Constants
    <3>1. panic' = "unimplemented" => panic = "unimplemented"
      BY <2>4 DEF ValueNumbering, Constants, GoTo
    <3> QED
      BY <2>1, <2>2, <3>1 DEF RefusedInv
  <2>5. CASE Montgomery
    <3>1. panic' = panic \/ \E k \in DOMAIN nodes : nodes[k].op \in NoFieldVersion
      BY <2>5 DEF Montgomery, GoTo
    <3>2. (\E k \in DOMAIN nodes : nodes[k].op \in NoFieldVersion)
             => \E op \in NoFieldVersion : HasOp(source.nodes, op)
      BY DEF RefusedInv, NodesAreTheSources, MadeOf, Like, HasOp, NoFieldVersion
    <3> QED
      BY <2>1, <2>2, <3>1, <3>2 DEF RefusedInv
  <2> QED
    BY <2>3, <2>4, <2>5 DEF Next
<1>3. IInv /\ RefusedInv => RefusedIsUnrunnable
  <2> SUFFICES ASSUME IInv, RefusedInv, panic = "unimplemented" PROVE Unrunnable
    BY DEF RefusedIsUnrunnable
  <2>1. IsGraph(source.nodes) /\ BackRefs(source.nodes)
    BY DEF IInv, TypeOK, ValidSource
  <2>2. PICK op \in NoFieldVersion : HasOp(source.nodes, op)
    BY DEF RefusedInv
  <2> QED
    BY <2>1, <2>2, NoFieldVersionPanics DEF Unrunnable
<1> QED
  BY <1>1, <1>2, <1>3, Invariance, PTL DEF Spec

-----------------------------------------------------------------------------
(***************************************************************************)
(* What the passes keep: on inputs that a graph of field elements runs on, *)
(* every node keeps the value it is evaluated to.                          *)
(***************************************************************************)

Runs(ns, inputs) == \A i \in DOMAIN ns : Values(ns, inputs)[i] # Panic

\* Nodes that are worth the values of the nodes they replace replace them.
LEMMA ReplacedNodes ==
    ASSUME NEW ns, IsGraph(ns), BackRefs(ns), NEW inputs, Runs(ns, inputs),
           NEW new, IsGraph(new), BackRefs(new), DOMAIN new = DOMAIN ns,
           \A i \in DOMAIN ns :
               NodeValue(new[i], Values(ns, inputs), inputs) = Values(ns, inputs)[i]
    PROVE  /\ Runs(new, inputs)
           /\ \A i \in DOMAIN ns : Values(new, inputs)[i] = Values(ns, inputs)[i]
<1> DEFINE vs == Values(ns, inputs)
<1>1. \A i \in DOMAIN new : vs[i] = NodeValue(new[i], vs, inputs)
  OBVIOUS
<1> HIDE DEF vs
<1>2. \A i \in DOMAIN new : Values(new, inputs)[i] = vs[i]
  BY <1>1, ValuesUnique
<1> QED
  BY <1>2 DEF Runs, vs

\* A constant of the field is worth itself.
LEMMA ConstantValue ==
    ASSUME NEW c \in Field, NEW vs, NEW inputs
    PROVE  /\ NodeValue(Constant(c), vs, inputs) = c /\ IsFieldNode(Constant(c))
           /\ NodeValue(MontConstant(c), vs, inputs) = c /\ IsFieldNode(MontConstant(c))
<1>1. /\ Constant(c).kind = "Constant" /\ Constant(c).val = c /\ Constant(c).op = "none"
      /\ MontConstant(c).kind = "MontConstant" /\ MontConstant(c).val = c
      /\ MontConstant(c).op = "none"
  BY DEF Constant, MontConstant, Node
<1>2. /\ IsNode(Constant(c)) /\ Refs(Constant(c)) = {}
      /\ IsNode(MontConstant(c)) /\ Refs(MontConstant(c)) = {}
  BY ConstantNode
<1>3. c % M = c
  BY FieldElements
<1>4. NodeValue(Constant(c), vs, inputs) = Constant(c).val % M
  BY <1>1, <1>2, ValueOfNode
<1>5. NodeValue(MontConstant(c), vs, inputs) = MontConstant(c).val
  BY <1>1, <1>2, ValueOfNode
<1> QED
  BY <1>1, <1>3, <1>4, <1>5 DEF IsFieldNode

\* Folding an operation on constants gives what it is evaluated to, when
\* neither panics.
LEMMA FoldedValue ==
    ASSUME NEW n, IsNode(n), IsFieldNode(n), n.kind \in {"UnoOp", "Op", "TresOp"},
           NEW vs, NEW inputs, NEW v,
           \A k \in 1..Arity[n.kind] : v[k] \in Field /\ vs[n.args[k]] = v[k],
           \A a \in Refs(n) : vs[a] # Panic,
           NodeValue(n, vs, inputs) # Panic, Fold(n, v) # Panic
    PROVE  Fold(n, v) \in Field /\ NodeValue(n, vs, inputs) = Fold(n, v)
<1>1. CASE n.kind = "UnoOp"
  <2>1. v[1] \in Field /\ vs[n.args[1]] = v[1]
    BY <1>1 DEF Arity
  <2>2. NodeValue(n, vs, inputs) = UnoEvalFr(n.op, v[1]) /\ Fold(n, v) = UnoEval(n.op, v[1])
    BY <1>1, <2>1, ValueOfNode DEF Fold
  <2>3. n.op = "Neg"
    BY <1>1, <2>2, KindsOfNodes DEF UnoOps, UnoEvalFr
  <2> QED
    BY <2>1, <2>2, <2>3, NegationAgrees
<1>2. CASE n.kind = "Op"
  <2>1. 1 \in 1..Arity[n.kind] /\ 2 \in 1..Arity[n.kind]
    BY <1>2 DEF Arity
  <2>2. v[1] \in Field /\ vs[n.args[1]] = v[1] /\ v[2] \in Field /\ vs[n.args[2]] = v[2]
    BY <2>1
  <2>3. NodeValue(n, vs, inputs) = EvalFr(n.op, v[1], v[2]) /\ Fold(n, v) = Eval(n.op, v[1], v[2])
    BY <1>2, <2>2, ValueOfNode DEF Fold
  <2>4. n.op # "Pow"
    BY <2>3 DEF EvalFr
  <2>5. n.op \in Arithmetic
    BY <1>2, <2>4, KindsOfNodes DEF IsFieldNode, Arithmetic
  <2>6. Agrees(n.op, v[1], v[2])
    BY <2>2, <2>5, OperationsAgree
  <2> QED
    BY <2>3, <2>6 DEF Agrees
<1>3. CASE n.kind = "TresOp"
  <2>1. 1 \in 1..Arity[n.kind] /\ 2 \in 1..Arity[n.kind] /\ 3 \in 1..Arity[n.kind]
    BY <1>3 DEF Arity
  <2>2. /\ v[1] \in Field /\ vs[n.args[1]] = v[1] /\ v[2] \in Field /\ vs[n.args[2]] = v[2]
        /\ v[3] \in Field /\ vs[n.args[3]] = v[3]
    BY <2>1
  <2>3. /\ NodeValue(n, vs, inputs) = TresEvalFr(n.op, v[1], v[2], v[3])
        /\ Fold(n, v) = TresEval(n.op, v[1], v[2], v[3])
    BY <1>3, <2>2, ValueOfNode DEF Fold
  <2> QED
    BY <2>2, <2>3 DEF TresEvalFr, TresEval
<1> QED
  BY <1>1, <1>2, <1>3

\* A comparison of an element with itself.
LEMMA ComparedWithItself ==
    ASSUME NEW x \in Field
    PROVE  /\ \A op \in TrueOfEquals : EvalFr(op, x, x) = 1
           /\ \A op \in FalseOfEquals : EvalFr(op, x, x) = 0
<1>1. x \in Int
  BY FieldElements
<1>2. Leq(x, x) /\ Geq(x, x) /\ ~Lt(x, x) /\ ~Gt(x, x)
  BY <1>1 DEF Leq, Geq, Lt, Gt
<1>3. EvalFr("Eq", x, x) = 1 /\ EvalFr("Neq", x, x) = 0
  BY DEF EvalFr, Bool
<1>4. EvalFr("Leq", x, x) = 1 /\ EvalFr("Geq", x, x) = 1
  BY <1>2 DEF EvalFr, Bool
<1>5. EvalFr("Lt", x, x) = 0 /\ EvalFr("Gt", x, x) = 0
  BY <1>2 DEF EvalFr, Bool
<1> QED
  BY <1>3, <1>4, <1>5 DEF TrueOfEquals, FalseOfEquals

\* A node that propagate replaces keeps its value.
LEMMA PropagatedValue ==
    ASSUME NEW ns, IsGraph(ns), BackRefs(ns), IsFieldGraph(ns),
           NEW I, NEW inputs \in [I -> Field], Runs(ns, inputs),
           NEW i \in DOMAIN ns, Propagated(ns, ns[i]) # Constant(Panic)
    PROVE  /\ IsFieldNode(Propagated(ns, ns[i]))
           /\ NodeValue(Propagated(ns, ns[i]), Values(ns, inputs), inputs) = Values(ns, inputs)[i]
<1> DEFINE vs == Values(ns, inputs)
           n == ns[i]
           v == [k \in DOMAIN n.args |-> ns[n.args[k]].val]
<1>1. \A j \in DOMAIN ns : IsNode(ns[j]) /\ IsFieldNode(ns[j]) /\ Refs(ns[j]) \subseteq DOMAIN ns
  <2>1. DOMAIN ns = 1..Len(ns) /\ Len(ns) \in Nat
    BY GraphShape
  <2>2. \A j \in 1..Len(ns) : 1..j - 1 \subseteq 1..Len(ns)
    BY <2>1
  <2> QED
    BY <2>1, <2>2, GraphShape DEF IsFieldGraph, BackRefs
<1>2. \A j \in DOMAIN ns : vs[j] = NodeValue(ns[j], vs, inputs) /\ vs[j] # Panic /\ vs[j] \in Field
  <2>1. \A j \in DOMAIN ns : vs[j] # Panic
    BY DEF Runs
  <2>2. \A j \in DOMAIN ns : vs[j] \in Field
    BY <2>1, DrawsAreValues
  <2>3. \A j \in DOMAIN ns : vs[j] = NodeValue(ns[j], vs, inputs)
    BY ValuesFound
  <2> QED
    BY <2>1, <2>2, <2>3
<1>3. /\ IsNode(n) /\ IsFieldNode(n) /\ Refs(n) \subseteq DOMAIN ns
      /\ vs[i] = NodeValue(n, vs, inputs) /\ vs[i] # Panic
  BY <1>1, <1>2
<1> HIDE DEF vs
<1>4. \A a \in Refs(n) : vs[a] # Panic
  BY <1>2, <1>3
<1>5. CASE Propagated(ns, n) = n
  BY <1>3, <1>5 DEF vs
<1>6. CASE n.args # <<>> /\ OnConstants(ns, n)
  <2>1. n.kind \in {"UnoOp", "Op", "TresOp"}
    <3>1. n.kind \in {"Input", "Constant", "MontConstant"} => n.args = <<>>
      <4>1. n.kind \in {"Input", "Constant", "MontConstant"} => n.args \in [1..0 -> Nat]
        BY <1>3 DEF IsNode, Arity
      <4> QED
        BY <4>1
    <3> QED
      BY <1>3, <1>6, <3>1, KindsOfNodes
  <2>2. DOMAIN n.args = 1..Arity[n.kind] /\ \A k \in 1..Arity[n.kind] : n.args[k] \in Refs(n)
    BY <1>3, KindsOfNodes
  <2>3. \A k \in 1..Arity[n.kind] : v[k] \in Field /\ vs[n.args[k]] = v[k]
    <3>1. SUFFICES ASSUME NEW k \in 1..Arity[n.kind] PROVE v[k] \in Field /\ vs[n.args[k]] = v[k]
      OBVIOUS
    <3> DEFINE a == n.args[k]
    <3>2. a \in Refs(n) /\ a \in DOMAIN ns /\ v[k] = ns[a].val
      BY <1>3, <2>2
    <3>3. ns[a].kind = "Constant" /\ IsNode(ns[a]) /\ IsFieldNode(ns[a])
      BY <1>1, <1>6, <3>2 DEF OnConstants
    <3>4. ns[a].val \in Field /\ Refs(ns[a]) = {}
      BY <3>3, KindsOfNodes DEF IsFieldNode
    <3>5. vs[a] = ns[a].val % M
      BY <1>2, <3>2, <3>3, <3>4, ValueOfNode
    <3> QED
      BY <3>2, <3>4, <3>5, FieldElements
  <2> HIDE DEF v
  <2>4. Propagated(ns, n) = Constant(Fold(n, v))
    BY <1>6 DEF Propagated, v
  <2>5. Fold(n, v) # Panic
    BY <2>4
  <2>6. Fold(n, v) \in Field /\ NodeValue(n, vs, inputs) = Fold(n, v)
    <3>1. NodeValue(n, vs, inputs) # Panic
      BY <1>3
    <3> HIDE DEF n
    <3> QED
      BY <1>3, <1>4, <2>1, <2>3, <2>5, <3>1, FoldedValue
  <2> QED
    BY <1>3, <2>4, <2>6, ConstantValue DEF vs
<1>7. CASE ~OnConstants(ns, n) /\ Propagated(ns, n) # n
  <2>1. /\ n.kind = "Op" /\ n.args[1] = n.args[2]
        /\ \/ n.op \in TrueOfEquals /\ Propagated(ns, n) = Constant(1)
           \/ n.op \in FalseOfEquals /\ Propagated(ns, n) = Constant(0)
    BY <1>7 DEF Propagated
  <2>2. vs[i] = EvalFr(n.op, vs[n.args[1]], vs[n.args[1]])
    BY <1>3, <1>4, <2>1, ValueOfNode
  <2>3. vs[n.args[1]] \in Field
    <3>1. n.args[1] \in Refs(n)
      <4>1. 1 \in 1..Arity[n.kind]
        BY <2>1 DEF Arity
      <4> QED
        BY <1>3, <4>1, KindsOfNodes
    <3> QED
      BY <1>2, <1>3, <3>1
  <2>4. 0 \in Field /\ 1 \in Field
    BY FieldElements
  <2>5. CASE n.op \in TrueOfEquals /\ Propagated(ns, n) = Constant(1)
    BY <2>2, <2>3, <2>4, <2>5, ComparedWithItself, ConstantValue DEF vs
  <2>6. CASE n.op \in FalseOfEquals /\ Propagated(ns, n) = Constant(0)
    BY <2>2, <2>3, <2>4, <2>6, ComparedWithItself, ConstantValue DEF vs
  <2> QED
    BY <2>1, <2>5, <2>6
<1>8. n.args = <<>> => Propagated(ns, n) = n
  BY DEF Propagated
<1> QED
  BY <1>5, <1>6, <1>7, <1>8

\* A reference to the first node that drew the same is a reference to a node
\* with the same value.
LEMMA NumberedValue ==
    ASSUME NEW ns, IsGraph(ns), BackRefs(ns), IsFieldGraph(ns),
           NEW I, NEW inputs \in [I -> Field], Runs(ns, inputs), NEW i \in DOMAIN ns
    PROVE  /\ FirstEqual(ns)[i] \in DOMAIN ns
           /\ Values(ns, inputs)[FirstEqual(ns)[i]] = Values(ns, inputs)[i]
<1> DEFINE rs == RandomEval(ns)
           T == {j \in DOMAIN ns : rs[j] = rs[i]}
<1>1. T \in SUBSET Nat /\ i \in T
  BY GraphShape
<1>2. Min(T) \in T
  BY <1>1, LeastNatural
<1>3. FirstEqual(ns)[i] = Min(T)
  BY DEF FirstEqual
<1>4. FirstEqual(ns)[i] \in DOMAIN ns /\ rs[FirstEqual(ns)[i]] = rs[i]
  BY <1>2, <1>3
<1>5. \A j \in DOMAIN ns : Values(ns, inputs)[j] # Panic
  BY DEF Runs
<1> QED
  BY <1>4, <1>5, EqualDraws

\* A node that constants replaces keeps its value.
LEMMA ConstantsFoundValue ==
    ASSUME NEW ns, IsGraph(ns), BackRefs(ns), IsFieldGraph(ns),
           NEW I, NEW inputs \in [I -> Field], Runs(ns, inputs), NEW i \in DOMAIN ns
    PROVE  /\ IsFieldNode(ConstantsFound(ns)[i])
           /\ NodeValue(ConstantsFound(ns)[i], Values(ns, inputs), inputs) = Values(ns, inputs)[i]
<1> DEFINE vs == Values(ns, inputs)
           rs == RandomEval(ns)
           c == Coef(rs[i], One)
<1>1. vs[i] = NodeValue(ns[i], vs, inputs) /\ IsFieldNode(ns[i])
  BY ValuesFound DEF IsFieldGraph
<1>2. \A j \in DOMAIN ns : vs[j] # Panic
  BY DEF Runs
<1>3. vs[i] \in Field
  BY <1>2, DrawsAreValues
<1>4. CASE ns[i].kind # "Constant" /\ IsConstPoly(rs[i])
  <2>1. vs[i] = c
    BY <1>2, <1>4, ConstantDraws
  <2>2. ConstantsFound(ns)[i] = Constant(c)
    BY <1>4 DEF ConstantsFound
  <2> HIDE DEF c, vs
  <2> QED
    BY <1>3, <2>1, <2>2, ConstantValue DEF vs
<1>5. CASE ~(ns[i].kind # "Constant" /\ IsConstPoly(rs[i]))
  <2>1. ConstantsFound(ns)[i] = ns[i]
    BY <1>5 DEF ConstantsFound
  <2> QED
    BY <1>1, <2>1
<1> QED
  BY <1>4, <1>5

\* A constant in Montgomery form has the same value.
LEMMA MontgomeryValue ==
    ASSUME NEW n, IsNode(n), IsFieldNode(n), NEW vs, NEW inputs
    PROVE  /\ IsFieldNode(InMontgomeryForm(n))
           /\ NodeValue(InMontgomeryForm(n), vs, inputs) = NodeValue(n, vs, inputs)
<1>1. CASE n.kind = "Constant"
  <2>1. n.val \in Field /\ n.val % M = n.val /\ Refs(n) = {}
    BY <1>1, FieldElements, KindsOfNodes DEF IsFieldNode
  <2>2. NodeValue(n, vs, inputs) = n.val % M
    BY <1>1, <2>1, ValueOfNode
  <2>3. InMontgomeryForm(n) = MontConstant(n.val)
    BY <1>1, <2>1 DEF InMontgomeryForm
  <2> QED
    BY <2>1, <2>2, <2>3, ConstantValue
<1>2. CASE n.kind # "Constant"
  BY <1>2 DEF InMontgomeryForm
<1> QED
  BY <1>1, <1>2

\* The nodes that are left when the others are dropped keep their values.
LEMMA SweptValues ==
    ASSUME NEW ns, IsGraph(ns), BackRefs(ns), NEW inputs, Runs(ns, inputs),
           NEW keep \in SUBSET (DOMAIN ns), \A i \in keep : Refs(ns[i]) \subseteq keep
    PROVE  /\ IsFieldGraph(ns) => IsFieldGraph(Swept(ns, keep))
           /\ Runs(Swept(ns, keep), inputs)
           /\ \A i \in keep : Values(Swept(ns, keep), inputs)[Renumber(keep)[i]]
                                  = Values(ns, inputs)[i]
<1> DEFINE r == Renumber(keep)
           C == Cardinality(keep)
           new == Swept(ns, keep)
           vs == Values(ns, inputs)
           ws == [k \in 1..C |-> vs[CHOOSE i \in keep : r[i] = k]]
<1>1. keep \in SUBSET Nat /\ IsFiniteSet(keep)
  BY PositionsAreFinite
<1>2. C \in Nat /\ r \in [keep -> 1..C]
  BY <1>1, RankType
<1>3. \A i, j \in keep : r[i] = r[j] => i = j
  BY <1>1, RankIsBijective
<1>4. DOMAIN Kept(ns, keep) = 1..C
  BY <1>1, KeptNodes
<1>5. \A k \in 1..C : \E i \in keep : r[i] = k /\ Kept(ns, keep)[k] = ns[i]
  BY <1>1, KeptNodes
<1>6. IsGraph(new) /\ BackRefs(new)
  BY SweptGraph
<1>7. DOMAIN new = 1..C /\ \A k \in 1..C : new[k] = MapRefs(Kept(ns, keep)[k], r)
  BY <1>4 DEF Swept
<1>8. \A i \in DOMAIN ns : vs[i] = NodeValue(ns[i], vs, inputs) /\ vs[i] # Panic
  BY ValuesFound DEF Runs
<1> HIDE DEF r, C, new, vs
<1>9. \A i \in keep : ws[r[i]] = vs[i]
  BY <1>2, <1>3
<1> HIDE DEF ws
<1>10. ASSUME NEW k \in 1..C
       PROVE  /\ ws[k] = NodeValue(new[k], ws, inputs) /\ ws[k] # Panic
              /\ IsFieldGraph(ns) => IsFieldNode(new[k])
  <2>1. PICK i \in keep : r[i] = k /\ Kept(ns, keep)[k] = ns[i]
    BY <1>5
  <2>2. IsNode(ns[i]) /\ Refs(ns[i]) \subseteq keep /\ vs[i] = NodeValue(ns[i], vs, inputs)
        /\ vs[i] # Panic
    BY <1>8, GraphShape
  <2>3. \A a \in Refs(ns[i]) : r[a] \in Nat /\ ws[r[a]] = vs[a]
    BY <1>2, <1>9, <2>2
  <2>4. NodeValue(MapRefs(ns[i], r), ws, inputs) = NodeValue(ns[i], vs, inputs)
    BY <2>2, <2>3, MovedValue
  <2>5. new[k] = MapRefs(ns[i], r)
    BY <1>7, <2>1
  <2>6. IsFieldGraph(ns) => IsFieldNode(MapRefs(ns[i], r))
    BY MovedField DEF IsFieldGraph
  <2> QED
    BY <1>9, <2>1, <2>2, <2>4, <2>5, <2>6
<1>11. \A k \in DOMAIN new : ws[k] = NodeValue(new[k], ws, inputs)
  BY <1>7, <1>10
<1>12. \A k \in DOMAIN new : Values(new, inputs)[k] = ws[k]
  BY <1>6, <1>11, ValuesUnique
<1>13. IsFieldGraph(ns) => IsFieldGraph(new)
  BY <1>7, <1>10 DEF IsFieldGraph
<1>14. Runs(new, inputs)
  BY <1>7, <1>10, <1>12 DEF Runs
<1>15. \A i \in keep : Values(new, inputs)[r[i]] = vs[i]
  BY <1>2, <1>7, <1>9, <1>12
<1> QED
  BY <1>13, <1>14, <1>15 DEF new, vs, r

-----------------------------------------------------------------------------
(***************************************************************************)
(* The meaning of the graph, as an inductive invariant: on every input the *)
(* builder's graph runs on, the graph as it is now is one of field         *)
(* elements, it runs, and each output has the value it had.                *)
(***************************************************************************)

SameMeaning(inputs) ==
    Runs(source.nodes, inputs) =>
        /\ IsFieldGraph(nodes) /\ Runs(nodes, inputs)
        /\ \A k \in DOMAIN outputs : Values(nodes, inputs)[outputs[k]]
                                         = Values(source.nodes, inputs)[source.outputs[k]]
MeaningInv ==
    /\ DOMAIN outputs = DOMAIN source.outputs
    /\ IsFieldGraph(source.nodes) => \A inputs \in [InputIndexes -> Field] : SameMeaning(inputs)

\* A step keeps the meaning if on every input that the graph runs on every
\* output keeps its value.
KeepsMeaning(inputs) ==
    IsFieldGraph(nodes) /\ Runs(nodes, inputs) =>
        /\ IsFieldGraph(nodes') /\ Runs(nodes', inputs)
        /\ \A k \in DOMAIN outputs : Values(nodes', inputs)[outputs'[k]]
                                         = Values(nodes, inputs)[outputs[k]]

\* A step that keeps the meaning of the graph keeps it the source's.
LEMMA MeaningIsKept ==
    ASSUME MeaningInv, source' = source, DOMAIN outputs' = DOMAIN outputs,
           \A inputs \in [InputIndexes -> Field] : KeepsMeaning(inputs)
    PROVE  MeaningInv'
<1>1. DOMAIN outputs' = DOMAIN source'.outputs
  BY DEF MeaningInv
<1>2. InputIndexes' = InputIndexes
  BY DEF InputIndexes
<1>3. ASSUME IsFieldGraph(source'.nodes), NEW inputs \in [InputIndexes -> Field]
      PROVE  SameMeaning(inputs)'
  <2>1. SameMeaning(inputs) /\ KeepsMeaning(inputs)
    BY <1>3 DEF MeaningInv
  <2>2. SUFFICES ASSUME Runs(source.nodes, inputs)
                 PROVE  /\ IsFieldGraph(nodes') /\ Runs(nodes', inputs)
                        /\ \A k \in DOMAIN outputs' :
                              Values(nodes', inputs)[outputs'[k]]
                                  = Values(source.nodes, inputs)[source.outputs[k]]
    BY DEF SameMeaning
  <2>3. /\ IsFieldGraph(nodes) /\ Runs(nodes, inputs)
        /\ \A k \in DOMAIN outputs : Values(nodes, inputs)[outputs[k]]
                                         = Values(source.nodes, inputs)[source.outputs[k]]
    BY <2>1, <2>2 DEF SameMeaning
  <2>4. /\ IsFieldGraph(nodes') /\ Runs(nodes', inputs)
        /\ \A k \in DOMAIN outputs : Values(nodes', inputs)[outputs'[k]]
                                         = Values(nodes, inputs)[outputs[k]]
    BY <2>1, <2>3 DEF KeepsMeaning
  <2> QED
    BY <2>3, <2>4
<1> QED
  BY <1>1, <1>2, <1>3 DEF MeaningInv

\* Dropping the nodes that are not used.
LEMMA SweepKeepsMeaning ==
    ASSUME IInv, MeaningInv, Sweep PROVE MeaningInv'
<1> USE DEF IInv
<1>1. IsGraph(nodes) /\ BackRefs(nodes) /\ MarkedSoFar /\ cursor = 0 /\ outputs \in Seq(Nat)
  BY DEF TypeOK, Sweep
<1>2. Len(nodes) \in Nat /\ DOMAIN nodes = 1..Len(nodes)
  BY <1>1, GraphShape
<1>3. used \in SUBSET (DOMAIN nodes) /\ \A i \in used : Refs(nodes[i]) \subseteq used
  BY <1>1, <1>2 DEF MarkedSoFar
<1>4. \A k \in DOMAIN Kept(nodes, used) : Refs(Kept(nodes, used)[k]) \subseteq used
  BY <1>1, <1>3, SweptGraph
<1>5. Range(outputs) \subseteq used
  BY <1>1 DEF MarkedSoFar
<1>6. /\ nodes' = Swept(nodes, used)
      /\ outputs' = [k \in DOMAIN outputs |-> Renumber(used)[outputs[k]]]
      /\ source' = source
  BY <1>4, <1>5 DEF Sweep, Swept
<1>7. \A k \in DOMAIN outputs : outputs[k] \in used
  BY <1>5 DEF Range
<1>8. ASSUME NEW inputs \in [InputIndexes -> Field] PROVE KeepsMeaning(inputs)
  <2>1. SUFFICES ASSUME IsFieldGraph(nodes), Runs(nodes, inputs)
                 PROVE  /\ IsFieldGraph(nodes') /\ Runs(nodes', inputs)
                        /\ \A k \in DOMAIN outputs : Values(nodes', inputs)[outputs'[k]]
                                                        = Values(nodes, inputs)[outputs[k]]
    BY DEF KeepsMeaning
  <2>2. IsFieldGraph(nodes') /\ Runs(nodes', inputs)
    BY <1>1, <1>3, <1>6, <2>1, SweptValues
  <2>3. \A i \in used : Values(nodes', inputs)[Renumber(used)[i]] = Values(nodes, inputs)[i]
    BY <1>1, <1>3, <1>6, <2>1, SweptValues
  <2> QED
    BY <1>6, <1>7, <2>2, <2>3
<1> QED
  BY <1>6, <1>8, MeaningIsKept

\* A pass that replaces nodes by nodes with the same value.
LEMMA ReplacingKeepsMeaning ==
    ASSUME MeaningInv, IsGraph(nodes), BackRefs(nodes), IsGraph(nodes'), BackRefs(nodes'),
           source' = source, DOMAIN outputs' = DOMAIN outputs, DOMAIN nodes' = DOMAIN nodes,
           Range(outputs') \subseteq DOMAIN nodes,
           \A inputs \in [InputIndexes -> Field] :
               IsFieldGraph(nodes) /\ Runs(nodes, inputs) =>
                   /\ \A i \in DOMAIN nodes :
                         /\ IsFieldNode(nodes'[i])
                         /\ NodeValue(nodes'[i], Values(nodes, inputs), inputs)
                                = Values(nodes, inputs)[i]
                   /\ \A k \in DOMAIN outputs : Values(nodes, inputs)[outputs'[k]]
                                                    = Values(nodes, inputs)[outputs[k]]
    PROVE  MeaningInv'
<1>1. ASSUME NEW inputs \in [InputIndexes -> Field] PROVE KeepsMeaning(inputs)
  <2>1. SUFFICES ASSUME IsFieldGraph(nodes), Runs(nodes, inputs)
                 PROVE  /\ IsFieldGraph(nodes') /\ Runs(nodes', inputs)
                        /\ \A k \in DOMAIN outputs : Values(nodes', inputs)[outputs'[k]]
                                                        = Values(nodes, inputs)[outputs[k]]
    BY DEF KeepsMeaning
  <2>2. \A i \in DOMAIN nodes : /\ IsFieldNode(nodes'[i])
                                /\ NodeValue(nodes'[i], Values(nodes, inputs), inputs)
                                       = Values(nodes, inputs)[i]
    BY <2>1
  <2>3. \A k \in DOMAIN outputs : Values(nodes, inputs)[outputs'[k]]
                                      = Values(nodes, inputs)[outputs[k]]
    BY <2>1
  <2>4. Runs(nodes', inputs)
    BY <2>1, <2>2, ReplacedNodes
  <2>5. \A i \in DOMAIN nodes : Values(nodes', inputs)[i] = Values(nodes, inputs)[i]
    BY <2>1, <2>2, ReplacedNodes
  <2>6. \A k \in DOMAIN outputs : outputs'[k] \in DOMAIN nodes
    BY DEF Range
  <2> QED
    BY <2>2, <2>3, <2>4, <2>5, <2>6 DEF IsFieldGraph
<1> QED
  BY <1>1, MeaningIsKept

\* Folding one node.
LEMMA FoldKeepsMeaning ==
    ASSUME IInv, IInv', MeaningInv, FoldNode PROVE MeaningInv'
<1> DEFINE n == Propagated(nodes, nodes[cursor])
<1>1. /\ IsGraph(nodes) /\ BackRefs(nodes) /\ IsGraph(nodes') /\ BackRefs(nodes')
      /\ Range(outputs) \subseteq DOMAIN nodes
  BY DEF IInv, TypeOK
<1>2. source' = source /\ outputs' = outputs
  BY DEF FoldNode
<1>3. CASE nodes' = nodes
  <2>1. \A inputs \in [InputIndexes -> Field] : KeepsMeaning(inputs)
    BY <1>2, <1>3 DEF KeepsMeaning
  <2> QED
    BY <1>2, <2>1, MeaningIsKept
<1>4. CASE nodes' # nodes
  <2>1. n # Constant(Panic) /\ nodes' = [nodes EXCEPT ![cursor] = n]
    BY <1>4 DEF FoldNode
  <2>2. DOMAIN nodes' = DOMAIN nodes
    BY <2>1
  <2>3. \A i \in DOMAIN nodes : nodes'[i] = nodes[i] \/ (i = cursor /\ nodes'[i] = n)
    <3> HIDE DEF n
    <3> QED
      BY <2>1
  <2>4. ASSUME NEW inputs \in [InputIndexes -> Field], IsFieldGraph(nodes), Runs(nodes, inputs),
               NEW i \in DOMAIN nodes
        PROVE  /\ IsFieldNode(nodes'[i])
               /\ NodeValue(nodes'[i], Values(nodes, inputs), inputs) = Values(nodes, inputs)[i]
    <3>1. CASE nodes'[i] = nodes[i]
      <4>1. Values(nodes, inputs)[i] = NodeValue(nodes[i], Values(nodes, inputs), inputs)
        BY <1>1, ValuesFound
      <4> QED
        BY <2>4, <3>1, <4>1 DEF IsFieldGraph
    <3>2. CASE i = cursor /\ nodes'[i] = n
      <4>1. Propagated(nodes, nodes[i]) # Constant(Panic)
        BY <2>1, <3>2
      <4> QED
        BY <1>1, <2>4, <3>2, <4>1, PropagatedValue
    <3> QED
      BY <2>3, <3>1, <3>2
  <2> QED
    BY <1>1, <1>2, <2>2, <2>4, ReplacingKeepsMeaning
<1> QED
  BY <1>3, <1>4

\* Moving references to the first nodes that drew the same.
LEMMA NumberingKeepsMeaning ==
    ASSUME IInv, IInv', MeaningInv, ValueNumbering PROVE MeaningInv'
<1> DEFINE first == FirstEqual(nodes)
<1>1. /\ IsGraph(nodes) /\ BackRefs(nodes) /\ IsGraph(nodes') /\ BackRefs(nodes')
      /\ Range(outputs) \subseteq DOMAIN nodes /\ Range(outputs') \subseteq DOMAIN nodes'
  BY DEF IInv, TypeOK
<1>2. /\ source' = source /\ outputs' = [k \in DOMAIN outputs |-> first[outputs[k]]]
      /\ nodes' = [k \in DOMAIN nodes |-> MapRefs(nodes[k], first)]
  BY DEF ValueNumbering
<1>3. DOMAIN nodes' = DOMAIN nodes /\ DOMAIN outputs' = DOMAIN outputs
  BY <1>2
<1>4. \A k \in DOMAIN outputs : outputs[k] \in DOMAIN nodes
  BY <1>1 DEF Range
<1> HIDE DEF first
<1>5. ASSUME NEW inputs \in [InputIndexes -> Field], IsFieldGraph(nodes), Runs(nodes, inputs)
      PROVE  /\ \A i \in DOMAIN nodes :
                   /\ IsFieldNode(nodes'[i])
                   /\ NodeValue(nodes'[i], Values(nodes, inputs), inputs)
                          = Values(nodes, inputs)[i]
             /\ \A k \in DOMAIN outputs : Values(nodes, inputs)[outputs'[k]]
                                              = Values(nodes, inputs)[outputs[k]]
  <2> DEFINE vs == Values(nodes, inputs)
  <2>1. \A i \in DOMAIN nodes : first[i] \in DOMAIN nodes /\ vs[first[i]] = vs[i]
    BY <1>1, <1>5, NumberedValue DEF first
  <2>2. \A i \in DOMAIN nodes : vs[i] = NodeValue(nodes[i], vs, inputs)
    BY <1>1, ValuesFound
  <2> HIDE DEF vs
  <2>3. ASSUME NEW i \in DOMAIN nodes
        PROVE  IsFieldNode(nodes'[i]) /\ NodeValue(nodes'[i], vs, inputs) = vs[i]
    <3>1. Len(nodes) \in Nat /\ DOMAIN nodes = 1..Len(nodes)
      BY <1>1, GraphShape
    <3>2. IsNode(nodes[i]) /\ IsFieldNode(nodes[i]) /\ Refs(nodes[i]) \subseteq 1..i - 1
      BY <1>1, <1>5, <3>1, GraphShape DEF BackRefs, IsFieldGraph
    <3>3. \A a \in Refs(nodes[i]) : a \in DOMAIN nodes
      BY <3>1, <3>2
    <3>4. \A a \in Refs(nodes[i]) : first[a] \in Nat /\ vs[first[a]] = vs[a]
      BY <2>1, <3>1, <3>3
    <3>5. NodeValue(MapRefs(nodes[i], first), vs, inputs) = NodeValue(nodes[i], vs, inputs)
      BY <3>2, <3>4, MovedValue
    <3> QED
      BY <1>2, <2>2, <3>2, <3>5, MovedField
  <2> QED
    BY <1>2, <1>4, <2>1, <2>3 DEF vs
<1> QED
  BY <1>1, <1>2, <1>3, <1>5, ReplacingKeepsMeaning

\* Replacing the nodes that draw nothing.
LEMMA ConstantsKeepMeaning ==
    ASSUME IInv, IInv', MeaningInv, Constants PROVE MeaningInv'
<1>1. /\ IsGraph(nodes) /\ BackRefs(nodes) /\ IsGraph(nodes') /\ BackRefs(nodes')
      /\ Range(outputs) \subseteq DOMAIN nodes
  BY DEF IInv, TypeOK
<1>2. source' = source /\ outputs' = outputs /\ nodes' = ConstantsFound(nodes)
  BY DEF Constants
<1>3. DOMAIN nodes' = DOMAIN nodes
  BY <1>2 DEF ConstantsFound
<1>4. ASSUME NEW inputs \in [InputIndexes -> Field], IsFieldGraph(nodes), Runs(nodes, inputs),
             NEW i \in DOMAIN nodes
      PROVE  /\ IsFieldNode(nodes'[i])
             /\ NodeValue(nodes'[i], Values(nodes, inputs), inputs) = Values(nodes, inputs)[i]
  BY <1>1, <1>2, <1>4, ConstantsFoundValue
<1> QED
  BY <1>1, <1>2, <1>3, <1>4, ReplacingKeepsMeaning

\* Bringing the constants into Montgomery form.
LEMMA MontgomeryKeepsMeaning ==
    ASSUME IInv, IInv', MeaningInv, Montgomery PROVE MeaningInv'
<1>1. /\ IsGraph(nodes) /\ BackRefs(nodes) /\ IsGraph(nodes') /\ BackRefs(nodes')
      /\ Range(outputs) \subseteq DOMAIN nodes
  BY DEF IInv, TypeOK
<1>2. /\ source' = source /\ outputs' = outputs
      /\ nodes' = nodes \/ nodes' = [k \in DOMAIN nodes |-> InMontgomeryForm(nodes[k])]
  BY DEF Montgomery
<1>3. DOMAIN nodes' = DOMAIN nodes
  BY <1>2
<1>4. ASSUME NEW inputs \in [InputIndexes -> Field], IsFieldGraph(nodes), Runs(nodes, inputs),
             NEW i \in DOMAIN nodes
      PROVE  /\ IsFieldNode(nodes'[i])
             /\ NodeValue(nodes'[i], Values(nodes, inputs), inputs) = Values(nodes, inputs)[i]
  <2>1. Values(nodes, inputs)[i] = NodeValue(nodes[i], Values(nodes, inputs), inputs)
    BY <1>1, ValuesFound
  <2>2. IsNode(nodes[i]) /\ IsFieldNode(nodes[i])
    BY <1>1, <1>4, GraphShape DEF IsFieldGraph
  <2>3. nodes'[i] = nodes[i] \/ nodes'[i] = InMontgomeryForm(nodes[i])
    BY <1>2
  <2> QED
    BY <2>1, <2>2, <2>3, MontgomeryValue
<1> QED
  BY <1>1, <1>2, <1>3, <1>4, ReplacingKeepsMeaning

\* Every step of the passes keeps the meaning of the graph.
LEMMA NextKeepsMeaning == IInv /\ IInv' /\ MeaningInv /\ [Next]_vars => MeaningInv'
<1> SUFFICES ASSUME IInv, IInv', MeaningInv, [Next]_vars PROVE MeaningInv'
  OBVIOUS
<1>1. CASE Shake \/ Mark \/ Propagate \/ FoldEnd \/ UNCHANGED vars
  <2>1. source' = source /\ nodes' = nodes /\ outputs' = outputs
    BY <1>1 DEF Shake, Mark, Propagate, FoldEnd, vars
  <2>2. \A inputs \in [InputIndexes -> Field] : KeepsMeaning(inputs)
    BY <2>1 DEF KeepsMeaning
  <2> QED
    BY <2>1, <2>2, MeaningIsKept
<1> QED
  BY <1>1, SweepKeepsMeaning, FoldKeepsMeaning, NumberingKeepsMeaning, ConstantsKeepMeaning,
     MontgomeryKeepsMeaning DEF Next

\* The meaning of a graph is the witness it computes.
ComputesTheSources ==
    \A inputs \in [InputIndexes -> Field] :
        LET before == Evaluate(source.nodes, inputs, source.outputs)
        IN  before # <<Panic>> => Evaluate(nodes, inputs, outputs) = before
LEMMA MeaningIsTheWitness ==
    ASSUME IsGraph(nodes), BackRefs(nodes), ValidSource(source), MeaningInv,
           IsFieldGraph(source.nodes)
    PROVE  ComputesTheSources
<1> SUFFICES ASSUME NEW inputs \in [InputIndexes -> Field],
                    Evaluate(source.nodes, inputs, source.outputs) # <<Panic>>
             PROVE  Evaluate(nodes, inputs, outputs)
                        = Evaluate(source.nodes, inputs, source.outputs)
  BY DEF ComputesTheSources
<1>1. /\ IsGraph(nodes) /\ BackRefs(nodes) /\ IsGraph(source.nodes) /\ BackRefs(source.nodes)
  BY DEF ValidSource
<1>2. Panic \notin Range(Values(source.nodes, inputs))
  BY DEF Evaluate
<1>3. DOMAIN Values(source.nodes, inputs) = DOMAIN source.nodes
      /\ DOMAIN Values(nodes, inputs) = DOMAIN nodes
  BY <1>1, ValuesFound
<1>4. Runs(source.nodes, inputs)
  BY <1>2, <1>3 DEF Runs, Range
<1>5. /\ Runs(nodes, inputs)
      /\ \A k \in DOMAIN outputs : Values(nodes, inputs)[outputs[k]]
                                       = Values(source.nodes, inputs)[source.outputs[k]]
  BY <1>4 DEF MeaningInv, SameMeaning
<1>6. Panic \notin Range(Values(nodes, inputs))
  BY <1>3, <1>5 DEF Runs, Range
<1> QED
  BY <1>2, <1>5, <1>6 DEF Evaluate, MeaningInv

\* The optimized graph computes the witness the builder's graph computes, on
\* every input that one can be run on, for every graph whose constants are
\* field elements and that shifts and combines no bits.
THEOREM ArithmeticIsPreserved == Spec => [](IsFieldGraph(source.nodes) => SemanticsPreserved)
<1>1. Init => MeaningInv
  BY DEF Init, MeaningInv, SameMeaning
<1>2. IInv /\ MeaningInv => (IsFieldGraph(source.nodes) => SemanticsPreserved)
  <2>1. IInv /\ MeaningInv /\ IsFieldGraph(source.nodes) => ComputesTheSources
    BY MeaningIsTheWitness DEF IInv, TypeOK
  <2> QED
    BY <2>1 DEF ComputesTheSources, SemanticsPreserved
<1> QED
  BY <1>1, <1>2, NextKeepsMeaning, Invariance, PTL DEF Spec

-----------------------------------------------------------------------------
(***************************************************************************)
(* Every pass leaves a graph of field elements.                            *)
(***************************************************************************)

\* A node that does not draw is a polynomial when the nodes it refers to are.
LEMMA ComputedIsPoly ==
    ASSUME NEW K, IsFiniteSet(K), NEW n, IsNode(n), IsFieldNode(n), ~Drawing(n), NEW rs,
           \A a \in Refs(n) : IsPoly(rs[a], K)
    PROVE  IsPoly(RandomValue(n, rs), K)
<1> DEFINE env == [k \in K |-> 0]
<1>1. env \in [K -> Field]
  BY FieldElements
<1> HIDE DEF env
<1>2. CASE n.kind \in {"Constant", "MontConstant"}
  <2>1. n.val \in Field /\ RandomValue(n, rs) = ConstPoly(n.val)
    BY <1>2, DrawOfNode DEF IsFieldNode
  <2> QED
    BY <1>1, <2>1, ConstVal
<1>3. CASE n.op \in {"Add", "Sub", "Mul"}
  <2> DEFINE p == rs[n.args[1]]
             q == rs[n.args[2]]
  <2>1. n.kind = "Op"
    BY <1>3, DrawOfNode
  <2>2. n.args[1] \in Refs(n) /\ n.args[2] \in Refs(n)
    <3>1. 1 \in 1..Arity[n.kind] /\ 2 \in 1..Arity[n.kind]
      BY <2>1 DEF Arity
    <3> QED
      BY <3>1, KindsOfNodes
  <2>3. IsPoly(p, K) /\ IsPoly(q, K)
    BY <2>2
  <2>4. /\ n.op = "Add" => RandomValue(n, rs) = AddPoly(p, q)
        /\ n.op = "Sub" => RandomValue(n, rs) = SubPoly(p, q)
        /\ n.op = "Mul" => RandomValue(n, rs) = MulPoly(p, q)
    BY DrawOfNode
  <2> HIDE DEF p, q
  <2>5. IsPoly(AddPoly(p, q), K)
    BY <1>1, <2>3, AddVal
  <2>6. IsPoly(SubPoly(p, q), K)
    BY <1>1, <2>3, SubVal
  <2>7. IsPoly(MulPoly(p, q), K)
    BY <1>1, <2>3, MulVal
  <2> QED
    BY <1>3, <2>4, <2>5, <2>6, <2>7
<1> QED
  BY <1>2, <1>3 DEF Drawing

\* Every node draws a polynomial in finitely many draws.
LEMMA DrawsArePolys ==
    ASSUME NEW ns, IsGraph(ns), BackRefs(ns), IsFieldGraph(ns)
    PROVE  \E K : IsFiniteSet(K) /\ \A i \in DOMAIN ns : IsPoly(RandomEval(ns)[i], K)
<1> DEFINE N == Len(ns)
           rs == RandomEval(ns)
           D == {j \in DOMAIN ns : Drawing(ns[j])}
           key == [j \in D |-> KeyOf(ns[j], rs)]
           K == {key[j] : j \in D}
           Good(i) == IsPoly(rs[i], K)
           T == {n \in 0..N : \A i \in 1..n : Good(i)}
<1>1. N \in Nat /\ DOMAIN ns = 1..N
  BY GraphShape
<1>2. \A i \in 1..N : IsNode(ns[i]) /\ IsFieldNode(ns[i]) /\ Refs(ns[i]) \subseteq 1..i - 1
  BY <1>1, GraphShape DEF BackRefs, IsFieldGraph
<1>3. \A i \in 1..N : rs[i] = RandomValue(ns[i], rs)
  BY <1>1, DrawnFound
<1> HIDE DEF N, rs
<1>4. \A j \in 1..N : j \in D <=> Drawing(ns[j])
  BY <1>1
<1>5. D \in SUBSET (1..N) /\ IsFiniteSet(D)
  BY <1>1, FS_Interval, FS_Subset
<1>6. DOMAIN key = D /\ key = [j \in D |-> key[j]] /\ \A j \in D : key[j] = KeyOf(ns[j], rs)
  OBVIOUS
<1> HIDE DEF D, key
<1>7. IsFiniteSet(K) /\ \A j \in D : key[j] \in K
  BY <1>5, <1>6, FiniteImage
<1> HIDE DEF K
<1>8. 0 \in T
  BY <1>1
<1>9. ASSUME NEW n \in 0..N - 1, n \in T PROVE n + 1 \in T
  <2> DEFINE m == n + 1
  <2>1. m \in 1..N /\ m \in 0..N /\ m - 1 = n /\ \A i \in 1..m : i \in 1..n \/ i = m
    BY <1>1
  <2>2. \A i \in 1..n : Good(i)
    BY <1>9
  <2> HIDE DEF Good, m
  <2>3. \A a \in Refs(ns[m]) : IsPoly(rs[a], K)
    BY <1>2, <2>1, <2>2 DEF Good
  <2>4. ASSUME m \notin D PROVE Good(m)
    <3>1. IsPoly(RandomValue(ns[m], rs), K)
      BY <1>2, <1>4, <1>7, <2>1, <2>3, <2>4, ComputedIsPoly
    <3> QED
      BY <1>3, <2>1, <3>1 DEF Good
  <2>5. ASSUME m \in D PROVE Good(m)
    <3> DEFINE env == [k \in K |-> 0]
    <3>1. env \in [K -> Field]
      BY FieldElements
    <3> HIDE DEF env
    <3>2. rs[m] = Draw(key[m])
      BY <1>2, <1>3, <1>4, <1>6, <2>1, <2>5, DrawOfNode
    <3>3. IsPoly(Draw(key[m]), K)
      BY <1>7, <2>5, <3>1, DrawVal
    <3> QED
      BY <3>2, <3>3 DEF Good
  <2>6. \A i \in 1..m : Good(i)
    BY <2>1, <2>2, <2>4, <2>5
  <2> QED
    BY <2>1, <2>6 DEF m
<1> HIDE DEF T
<1>10. \A n \in 0..N : n \in T
  BY <1>1, <1>8, <1>9, Induction
<1>11. N \in 0..N
  BY <1>1
<1>12. \A i \in 1..N : Good(i)
  BY <1>10, <1>11 DEF T
<1> QED
  BY <1>1, <1>7, <1>12 DEF rs

\* Folding field elements leaves a field element or panics.
LEMMA FoldedElement ==
    ASSUME NEW n, IsNode(n), IsFieldNode(n), n.kind \in {"UnoOp", "Op", "TresOp"},
           NEW v, \A k \in 1..Arity[n.kind] : v[k] \in Field
    PROVE  Fold(n, v) \in Field \cup {Panic}
<1>1. CASE n.kind = "UnoOp"
  <2>1. v[1] \in Field
    BY <1>1 DEF Arity
  <2>2. Fold(n, v) = UnoEval(n.op, v[1])
    BY <1>1 DEF Fold
  <2>3. n.op \in {"Neg", "Id"}
    BY <1>1, KindsOfNodes DEF UnoOps
  <2>4. UnoEval("Id", v[1]) = v[1]
    BY DEF UnoEval
  <2> QED
    BY <2>1, <2>2, <2>3, <2>4, NegationAgrees
<1>2. CASE n.kind = "Op"
  <2>1. 1 \in 1..Arity[n.kind] /\ 2 \in 1..Arity[n.kind]
    BY <1>2 DEF Arity
  <2>2. v[1] \in Field /\ v[2] \in Field
    BY <2>1
  <2>3. Fold(n, v) = Eval(n.op, v[1], v[2])
    BY <1>2 DEF Fold
  <2>4. n.op \in Arithmetic \cup {"Pow"}
    BY <1>2, KindsOfNodes DEF IsFieldNode, Arithmetic
  <2>5. CASE n.op = "Pow"
    <3>1. v[1] \in Nat /\ v[2] \in Nat
      BY <2>2, Remainders
    <3>2. Eval("Pow", v[1], v[2]) = PowMod(v[1], v[2])
      BY DEF Eval
    <3> QED
      BY <2>3, <2>5, <3>1, <3>2, PowModType
  <2>6. CASE n.op \in Arithmetic
    <3>1. Agrees(n.op, v[1], v[2])
      BY <2>2, <2>6, OperationsAgree
    <3> QED
      BY <2>3, <3>1 DEF Agrees
  <2> QED
    BY <2>4, <2>5, <2>6
<1>3. CASE n.kind = "TresOp"
  <2>1. 2 \in 1..Arity[n.kind] /\ 3 \in 1..Arity[n.kind]
    BY <1>3 DEF Arity
  <2>2. v[2] \in Field /\ v[3] \in Field
    BY <2>1
  <2>3. Fold(n, v) = TresEval(n.op, v[1], v[2], v[3])
    BY <1>3 DEF Fold
  <2> QED
    BY <2>2, <2>3 DEF TresEval
<1> QED
  BY <1>1, <1>2, <1>3

\* Only inputs and constants refer to nothing.
LEMMA ReadsSomething ==
    ASSUME NEW n, IsNode(n), n.args # <<>>
    PROVE  n.kind \in {"UnoOp", "Op", "TresOp"}
<1>1. n.kind \in {"Input", "Constant", "MontConstant"} => n.args \in [1..0 -> Nat]
  BY DEF IsNode, Arity
<1>2. n.kind \in {"Input", "Constant", "MontConstant"} => n.args = <<>>
  BY <1>1
<1> QED
  BY <1>2, KindsOfNodes

\* A node that propagate makes is one of field elements.
LEMMA PropagatedElement ==
    ASSUME NEW ns, IsGraph(ns), BackRefs(ns), IsFieldGraph(ns), NEW i \in DOMAIN ns,
           Propagated(ns, ns[i]) # Constant(Panic)
    PROVE  IsFieldNode(Propagated(ns, ns[i]))
<1> DEFINE n == ns[i]
           v == [k \in DOMAIN n.args |-> ns[n.args[k]].val]
<1>1. DOMAIN ns = 1..Len(ns) /\ Len(ns) \in Nat
  BY GraphShape
<1>2. IsNode(n) /\ IsFieldNode(n) /\ Refs(n) \subseteq DOMAIN ns
  BY <1>1, GraphShape DEF BackRefs, IsFieldGraph
<1>3. CASE n.args # <<>> /\ OnConstants(ns, n)
  <2>1. n.kind \in {"UnoOp", "Op", "TresOp"}
    BY <1>2, <1>3, ReadsSomething
  <2>2. DOMAIN n.args = 1..Arity[n.kind] /\ \A k \in 1..Arity[n.kind] : n.args[k] \in Refs(n)
    BY <1>2, KindsOfNodes
  <2>3. \A k \in 1..Arity[n.kind] : v[k] \in Field
    <3>1. SUFFICES ASSUME NEW k \in 1..Arity[n.kind] PROVE v[k] \in Field
      OBVIOUS
    <3>2. n.args[k] \in Refs(n) /\ v[k] = ns[n.args[k]].val
      BY <2>2
    <3>3. ns[n.args[k]].kind = "Constant" /\ IsFieldNode(ns[n.args[k]])
      BY <1>2, <1>3, <3>2 DEF OnConstants, IsFieldGraph
    <3> QED
      BY <3>2, <3>3 DEF IsFieldNode
  <2> HIDE DEF v
  <2>4. Propagated(ns, n) = Constant(Fold(n, v))
    BY <1>3 DEF Propagated, v
  <2>5. Fold(n, v) # Panic
    BY <2>4
  <2>6. Fold(n, v) \in Field
    <3> HIDE DEF n
    <3> QED
      BY <1>2, <2>1, <2>3, <2>5, FoldedElement
  <2> QED
    BY <2>4, <2>6, ConstantValue
<1>4. CASE ~(n.args # <<>> /\ OnConstants(ns, n))
  <2>1. Propagated(ns, n) \in {n, Constant(0), Constant(1)}
    BY <1>4 DEF Propagated
  <2>2. IsFieldNode(Constant(0)) /\ IsFieldNode(Constant(1))
    BY FieldElements, ConstantValue
  <2> QED
    BY <1>2, <2>1, <2>2
<1> QED
  BY <1>3, <1>4

ElementsInv == IsFieldGraph(source.nodes) => IsFieldGraph(nodes)

\* Every step leaves a graph of field elements.
LEMMA ElementsStay ==
    ASSUME IInv, IsFieldGraph(nodes), [Next]_vars PROVE IsFieldGraph(nodes')
<1>1. IsGraph(nodes) /\ BackRefs(nodes) /\ Len(nodes) \in Nat /\ DOMAIN nodes = 1..Len(nodes)
  BY GraphShape DEF IInv, TypeOK
<1>2. CASE Shake \/ Mark \/ Propagate \/ FoldEnd \/ UNCHANGED vars
  BY <1>2 DEF Shake, Mark, Propagate, FoldEnd, vars
<1>3. CASE Sweep
  <2>1. used \in SUBSET (DOMAIN nodes)
    BY <1>3 DEF IInv, Sweep, MarkedSoFar
  <2>2. used \in SUBSET Nat /\ IsFiniteSet(used)
    BY <1>1, <2>1, PositionsAreFinite
  <2>3. DOMAIN nodes' = DOMAIN Kept(nodes, used)
        /\ \A k \in DOMAIN nodes' : \/ nodes'[k] = Kept(nodes, used)[k]
                                    \/ nodes'[k] = MapRefs(Kept(nodes, used)[k], Renumber(used))
    BY <1>3 DEF Sweep
  <2>4. \A k \in DOMAIN nodes' : \E i \in used : Kept(nodes, used)[k] = nodes[i]
    <3>1. DOMAIN Kept(nodes, used) = 1..Cardinality(used)
      BY <2>2, KeptNodes
    <3>2. \A k \in 1..Cardinality(used) : \E i \in used :
              Renumber(used)[i] = k /\ Kept(nodes, used)[k] = nodes[i]
      BY <2>2, KeptNodes
    <3> QED
      BY <2>3, <3>1, <3>2
  <2>5. \A k \in DOMAIN nodes' : IsFieldNode(Kept(nodes, used)[k])
    BY <2>1, <2>4 DEF IsFieldGraph
  <2> QED
    BY <2>3, <2>5, MovedField DEF IsFieldGraph
<1>4. CASE FoldNode
  <2> DEFINE n == Propagated(nodes, nodes[cursor])
  <2>1. cursor \in DOMAIN nodes
    BY <1>1, <1>4 DEF FoldNode, IInv, TypeOK
  <2>2. nodes' = nodes \/ (n # Constant(Panic) /\ nodes' = [nodes EXCEPT ![cursor] = n])
    BY <1>4 DEF FoldNode
  <2>3. n # Constant(Panic) => IsFieldNode(n)
    BY <1>1, <2>1, PropagatedElement
  <2> HIDE DEF n
  <2> QED
    BY <2>2, <2>3 DEF IsFieldGraph
<1>5. CASE ValueNumbering
  <2>1. nodes' = [k \in DOMAIN nodes |-> MapRefs(nodes[k], FirstEqual(nodes))]
    BY <1>5 DEF ValueNumbering
  <2> QED
    BY <2>1, MovedField DEF IsFieldGraph
<1>6. CASE Constants
  <2>1. PICK K : \A i \in DOMAIN nodes : IsPoly(RandomEval(nodes)[i], K)
    BY <1>1, DrawsArePolys
  <2>2. \A i \in DOMAIN nodes : Coef(RandomEval(nodes)[i], One) \in Field
    BY <2>1, FieldElements DEF Coef, IsPoly
  <2>3. \A i \in DOMAIN nodes : IsFieldNode(Constant(Coef(RandomEval(nodes)[i], One)))
    BY <2>2, ConstantValue
  <2>4. nodes' = ConstantsFound(nodes)
    BY <1>6 DEF Constants
  <2>5. DOMAIN nodes' = DOMAIN nodes
        /\ \A k \in DOMAIN nodes :
              nodes'[k] \in {nodes[k], Constant(Coef(RandomEval(nodes)[k], One))}
    BY <2>4 DEF ConstantsFound
  <2> QED
    BY <2>3, <2>5 DEF IsFieldGraph
<1>7. CASE Montgomery
  <2>1. nodes' = nodes \/ nodes' = [k \in DOMAIN nodes |-> InMontgomeryForm(nodes[k])]
    BY <1>7 DEF Montgomery
  <2>2. \A k \in DOMAIN nodes : IsFieldNode(InMontgomeryForm(nodes[k]))
    BY <1>1, GraphShape, MontgomeryValue DEF IsFieldGraph
  <2> QED
    BY <2>1, <2>2 DEF IsFieldGraph
<1> QED
  BY <1>2, <1>3, <1>4, <1>5, <1>6, <1>7 DEF Next

-----------------------------------------------------------------------------
(***************************************************************************)
(* What no two nodes draw.  From value numbering on, no two nodes that are *)
(* referred to draw the same; the second tree_shake leaves only those.     *)
(***************************************************************************)

Targets(ns, outs) == Range(outs) \cup UNION {Refs(ns[k]) : k \in DOMAIN ns}
\* No two of the nodes T draw the same.
DrawApart(ns, T) == \A i, j \in T : RandomEval(ns)[i] = RandomEval(ns)[j] => i = j

ApartInv ==
    /\ pc = "constants" \/ (pc \in {"shake", "mark"} /\ round = 2)
           => DrawApart(nodes, Targets(nodes, outputs))
    /\ pc \in {"montgomery", "done"} => DrawApart(nodes, DOMAIN nodes)

\* Nodes that draw what the nodes they replace draw replace them.
LEMMA ReplacedDraws ==
    ASSUME NEW ns, IsGraph(ns), BackRefs(ns),
           NEW new, IsGraph(new), BackRefs(new), DOMAIN new = DOMAIN ns,
           \A i \in DOMAIN ns : RandomValue(new[i], RandomEval(ns)) = RandomEval(ns)[i]
    PROVE  \A i \in DOMAIN ns : RandomEval(new)[i] = RandomEval(ns)[i]
<1> DEFINE rs == RandomEval(ns)
<1>1. \A i \in DOMAIN new : rs[i] = RandomValue(new[i], rs)
  OBVIOUS
<1> HIDE DEF rs
<1>2. \A i \in DOMAIN new : RandomEval(new)[i] = rs[i]
  BY <1>1, DrawnUnique
<1> QED
  BY <1>2 DEF rs

\* The nodes that are left when the others are dropped draw what they drew.
LEMMA SweptDraws ==
    ASSUME NEW ns, IsGraph(ns), BackRefs(ns),
           NEW keep \in SUBSET (DOMAIN ns), \A i \in keep : Refs(ns[i]) \subseteq keep
    PROVE  DrawApart(ns, keep) => DrawApart(Swept(ns, keep), DOMAIN Swept(ns, keep))
<1> DEFINE r == Renumber(keep)
           C == Cardinality(keep)
           new == Swept(ns, keep)
           vs == RandomEval(ns)
           ws == [k \in 1..C |-> vs[CHOOSE i \in keep : r[i] = k]]
<1>1. keep \in SUBSET Nat /\ IsFiniteSet(keep)
  BY PositionsAreFinite
<1>2. C \in Nat /\ r \in [keep -> 1..C]
  BY <1>1, RankType
<1>3. \A i, j \in keep : r[i] = r[j] => i = j
  BY <1>1, RankIsBijective
<1>4. DOMAIN Kept(ns, keep) = 1..C
  BY <1>1, KeptNodes
<1>5. \A k \in 1..C : \E i \in keep : r[i] = k /\ Kept(ns, keep)[k] = ns[i]
  BY <1>1, KeptNodes
<1>6. IsGraph(new) /\ BackRefs(new)
  BY SweptGraph
<1>7. DOMAIN new = 1..C /\ \A k \in 1..C : new[k] = MapRefs(Kept(ns, keep)[k], r)
  BY <1>4 DEF Swept
<1>8. \A i \in DOMAIN ns : vs[i] = RandomValue(ns[i], vs)
  BY DrawnFound
<1> HIDE DEF r, C, new, vs
<1>9. \A i \in keep : ws[r[i]] = vs[i]
  BY <1>2, <1>3
<1> HIDE DEF ws
<1>10. ASSUME NEW k \in DOMAIN new PROVE ws[k] = RandomValue(new[k], ws)
  <2>1. PICK i \in keep : r[i] = k /\ Kept(ns, keep)[k] = ns[i]
    BY <1>5, <1>7
  <2>2. IsNode(ns[i]) /\ Refs(ns[i]) \subseteq keep /\ vs[i] = RandomValue(ns[i], vs)
    BY <1>8, GraphShape
  <2>3. \A a \in Refs(ns[i]) : r[a] \in Nat /\ ws[r[a]] = vs[a]
    BY <1>2, <1>9, <2>2
  <2>4. RandomValue(MapRefs(ns[i], r), ws) = RandomValue(ns[i], vs)
    BY <2>2, <2>3, MovedDraw
  <2>5. new[k] = MapRefs(ns[i], r)
    BY <1>7, <2>1
  <2> QED
    BY <1>9, <2>1, <2>2, <2>4, <2>5
<1>11. \A k \in DOMAIN new : RandomEval(new)[k] = ws[k]
  BY <1>6, <1>10, DrawnUnique
<1>12. ASSUME DrawApart(ns, keep), NEW k \in DOMAIN new, NEW l \in DOMAIN new,
              RandomEval(new)[k] = RandomEval(new)[l]
       PROVE  k = l
  <2>1. PICK i \in keep : r[i] = k
    BY <1>5, <1>7
  <2>2. PICK j \in keep : r[j] = l
    BY <1>5, <1>7
  <2>3. vs[i] = vs[j]
    BY <1>9, <1>11, <1>12, <2>1, <2>2
  <2>4. i = j
    BY <1>12, <2>3 DEF DrawApart, vs
  <2> QED
    BY <2>1, <2>2, <2>4
<1> QED
  BY <1>12 DEF DrawApart, new

\* No node draws a polynomial with a coefficient that is 0.
LEMMA DrawsAreNormal ==
    ASSUME NEW n, IsNode(n), NEW rs
    PROVE  LET p == RandomValue(n, rs)
           IN  p = [m \in DOMAIN p |-> p[m]] /\ \A m \in DOMAIN p : p[m] # 0
<1>1. \A p : LET q == NonZero(p)
             IN  q = [m \in DOMAIN q |-> q[m]] /\ \A m \in DOMAIN q : q[m] # 0
  BY DEF NonZero
<1>2. \A key : LET q == Draw(key)
               IN  q = [m \in DOMAIN q |-> q[m]] /\ \A m \in DOMAIN q : q[m] # 0
  BY DEF Draw
<1>3. (\E p : RandomValue(n, rs) = NonZero(p)) \/ \E key : RandomValue(n, rs) = Draw(key)
  <2>1. CASE n.kind \in {"Constant", "MontConstant"}
    <3>1. RandomValue(n, rs) = ConstPoly(n.val)
      BY <2>1, DrawOfNode
    <3> QED
      BY <3>1 DEF ConstPoly
  <2>2. CASE Drawing(n)
    BY <2>2, DrawOfNode
  <2>3. CASE n.op \in {"Add", "Sub", "Mul"}
    <3>1. \A p, q : \E a, b, c : /\ AddPoly(p, q) = NonZero(a)
                                 /\ SubPoly(p, q) = NonZero(b)
                                 /\ MulPoly(p, q) = NonZero(c)
      <4>1. \A p, q : \E a : AddPoly(p, q) = NonZero(a)
        BY DEF AddPoly
      <4>2. \A p, q : \E a : SubPoly(p, q) = NonZero(a)
        BY DEF SubPoly
      <4>3. \A p, q : \E a : MulPoly(p, q) = NonZero(a)
        BY DEF MulPoly
      <4> QED
        BY <4>1, <4>2, <4>3
    <3> QED
      BY <2>3, <3>1, DrawOfNode
  <2> QED
    BY <2>1, <2>2, <2>3 DEF Drawing
<1> HIDE DEF NonZero, Draw
<1> QED
  BY <1>1, <1>2, <1>3

\* The constant a node is replaced by draws what the node drew.
LEMMA ConstantFoundDraws ==
    ASSUME NEW ns, IsGraph(ns), BackRefs(ns), NEW i \in DOMAIN ns
    PROVE  RandomValue(ConstantsFound(ns)[i], RandomEval(ns)) = RandomEval(ns)[i]
<1> DEFINE rs == RandomEval(ns)
           p == rs[i]
<1>1. IsNode(ns[i]) /\ p = RandomValue(ns[i], rs)
  BY GraphShape, DrawnFound
<1>2. CASE ns[i].kind # "Constant" /\ IsConstPoly(p)
  <2>1. ConstantsFound(ns)[i] = Constant(Coef(p, One))
    BY <1>2 DEF ConstantsFound
  <2>2. /\ IsNode(Constant(Coef(p, One))) /\ Constant(Coef(p, One)).kind = "Constant"
        /\ Constant(Coef(p, One)).val = Coef(p, One)
    BY ConstantNode DEF Constant, Node
  <2>3. RandomValue(Constant(Coef(p, One)), rs) = ConstPoly(Coef(p, One))
    BY <2>2, DrawOfNode
  <2>4. p = [m \in DOMAIN p |-> p[m]] /\ \A m \in DOMAIN p : p[m] # 0
    BY <1>1, DrawsAreNormal
  <2>5. DOMAIN p \subseteq {One}
    BY <1>2 DEF IsConstPoly
  <2> HIDE DEF p
  <2>6. ConstPoly(Coef(p, One)) = p
    <3>1. CASE One \in DOMAIN p
      <4>1. DOMAIN p = {One} /\ Coef(p, One) = p[One] /\ p[One] # 0
        BY <2>4, <2>5, <3>1 DEF Coef
      <4>2. ConstPoly(p[One]) = [m \in {One} |-> p[One]]
        BY <4>1 DEF ConstPoly, NonZero
      <4> QED
        BY <2>4, <4>1, <4>2
    <3>2. CASE One \notin DOMAIN p
      <4>1. DOMAIN p = {} /\ Coef(p, One) = 0
        BY <2>5, <3>2 DEF Coef
      <4>2. ConstPoly(0) = [m \in {} |-> 0]
        BY DEF ConstPoly, NonZero
      <4> QED
        BY <2>4, <4>1, <4>2
    <3> QED
      BY <3>1, <3>2
  <2> QED
    BY <2>1, <2>3, <2>6 DEF p
<1>3. CASE ~(ns[i].kind # "Constant" /\ IsConstPoly(p))
  <2>1. ConstantsFound(ns)[i] = ns[i]
    BY <1>3 DEF ConstantsFound
  <2> QED
    BY <1>1, <2>1
<1> QED
  BY <1>2, <1>3

\* Value numbering: every node draws what it drew, and only the first of the
\* nodes that draw the same is referred to.
LEMMA NumberingSetsApart ==
    ASSUME IInv, IInv', ValueNumbering PROVE DrawApart(nodes', Targets(nodes', outputs'))
<1> DEFINE first == FirstEqual(nodes)
           rs == RandomEval(nodes)
<1>1. /\ IsGraph(nodes) /\ BackRefs(nodes) /\ IsGraph(nodes') /\ BackRefs(nodes')
      /\ Range(outputs) \subseteq DOMAIN nodes
  BY DEF IInv, TypeOK
<1>2. Len(nodes) \in Nat /\ DOMAIN nodes = 1..Len(nodes)
  BY <1>1, GraphShape
<1>3. /\ nodes' = [k \in DOMAIN nodes |-> MapRefs(nodes[k], first)]
      /\ outputs' = [k \in DOMAIN outputs |-> first[outputs[k]]]
  BY DEF ValueNumbering
<1>4. ASSUME NEW i \in DOMAIN nodes
      PROVE  /\ first[i] \in DOMAIN nodes /\ rs[first[i]] = rs[i]
             /\ \A j \in DOMAIN nodes : rs[j] = rs[i] => first[j] = first[i]
  <2> DEFINE T == {j \in DOMAIN nodes : rs[j] = rs[i]}
  <2>1. T \in SUBSET Nat /\ i \in T
    BY <1>2
  <2>2. Min(T) \in T
    BY <2>1, LeastNatural
  <2>3. first[i] = Min(T)
    BY DEF FirstEqual
  <2>4. ASSUME NEW j \in DOMAIN nodes, rs[j] = rs[i] PROVE first[j] = first[i]
    <3>1. first[j] = Min({l \in DOMAIN nodes : rs[l] = rs[j]})
      BY DEF FirstEqual
    <3> QED
      BY <2>3, <2>4, <3>1
  <2> QED
    BY <2>2, <2>3, <2>4
<1> HIDE DEF first
<1>5. \A i \in DOMAIN nodes : rs[i] = RandomValue(nodes[i], rs)
  BY <1>1, DrawnFound
<1> HIDE DEF rs
<1>6. \A k \in DOMAIN nodes : /\ IsNode(nodes[k]) /\ Refs(nodes[k]) \subseteq DOMAIN nodes
  BY <1>1, <1>2, GraphShape DEF BackRefs
<1>7. \A k \in DOMAIN nodes : \A a \in Refs(nodes[k]) : first[a] \in Nat /\ rs[first[a]] = rs[a]
  BY <1>2, <1>4, <1>6
<1>8. \A k \in DOMAIN nodes : RandomValue(nodes'[k], rs) = rs[k]
  <2>1. \A k \in DOMAIN nodes :
            RandomValue(MapRefs(nodes[k], first), rs) = RandomValue(nodes[k], rs)
    BY <1>6, <1>7, MovedDraw
  <2> QED
    BY <1>3, <1>5, <2>1
<1>9. DOMAIN nodes' = DOMAIN nodes
  BY <1>3
<1>10. \A k \in DOMAIN nodes : RandomEval(nodes')[k] = rs[k]
  BY <1>1, <1>8, <1>9, ReplacedDraws DEF rs
<1>11. \A a \in Targets(nodes', outputs') : \E i \in DOMAIN nodes : a = first[i]
  <2>1. ASSUME NEW k \in DOMAIN nodes, NEW a \in Refs(nodes'[k])
        PROVE  \E i \in DOMAIN nodes : a = first[i]
    <3>1. Refs(MapRefs(nodes[k], first)) = {first[i] : i \in Refs(nodes[k])}
      BY <1>6, <1>7, MovedNode
    <3> QED
      BY <1>3, <1>6, <2>1, <3>1
  <2>2. ASSUME NEW a \in Range(outputs') PROVE \E i \in DOMAIN nodes : a = first[i]
    BY <1>1, <1>3 DEF Range
  <2> QED
    BY <1>9, <2>1, <2>2 DEF Targets
<1>12. ASSUME NEW a \in Targets(nodes', outputs'), NEW b \in Targets(nodes', outputs'),
              RandomEval(nodes')[a] = RandomEval(nodes')[b]
       PROVE  a = b
  <2>1. PICK i \in DOMAIN nodes : a = first[i]
    BY <1>11
  <2>2. PICK j \in DOMAIN nodes : b = first[j]
    BY <1>11
  <2>3. rs[a] = rs[i] /\ rs[b] = rs[j] /\ a \in DOMAIN nodes /\ b \in DOMAIN nodes
    BY <1>4, <2>1, <2>2
  <2>4. rs[i] = rs[j]
    BY <1>10, <1>12, <2>3
  <2> QED
    BY <1>4, <2>1, <2>2, <2>4
<1> QED
  BY <1>12 DEF DrawApart

\* Constants: every node draws what it drew, and no reference is new.
LEMMA ConstantsStayApart ==
    ASSUME IInv, IInv', Constants, DrawApart(nodes, Targets(nodes, outputs))
    PROVE  DrawApart(nodes', Targets(nodes', outputs'))
<1>1. /\ IsGraph(nodes) /\ BackRefs(nodes) /\ IsGraph(nodes') /\ BackRefs(nodes')
      /\ Range(outputs) \subseteq DOMAIN nodes
  BY DEF IInv, TypeOK
<1>2. Len(nodes) \in Nat /\ DOMAIN nodes = 1..Len(nodes)
  BY <1>1, GraphShape
<1>3. nodes' = ConstantsFound(nodes) /\ outputs' = outputs
  BY DEF Constants
<1>4. DOMAIN nodes' = DOMAIN nodes
  BY <1>3 DEF ConstantsFound
<1>5. \A i \in DOMAIN nodes : RandomValue(nodes'[i], RandomEval(nodes)) = RandomEval(nodes)[i]
  BY <1>1, <1>3, ConstantFoundDraws
<1>6. \A i \in DOMAIN nodes : RandomEval(nodes')[i] = RandomEval(nodes)[i]
  BY <1>1, <1>4, <1>5, ReplacedDraws
<1>7. \A k \in DOMAIN nodes : Refs(nodes'[k]) \subseteq Refs(nodes[k])
  <2>1. \A k \in DOMAIN nodes : nodes'[k] \in {nodes[k], Constant(Coef(RandomEval(nodes)[k], One))}
    BY <1>3 DEF ConstantsFound
  <2> QED
    BY <2>1, ConstantNode
<1>8. Targets(nodes', outputs') \subseteq Targets(nodes, outputs)
  BY <1>3, <1>4, <1>7 DEF Targets
<1>9. Targets(nodes, outputs) \subseteq DOMAIN nodes
  <2>1. \A k \in DOMAIN nodes : Refs(nodes[k]) \subseteq DOMAIN nodes
    BY <1>1, <1>2 DEF BackRefs
  <2> QED
    BY <1>1, <2>1 DEF Targets
<1>10. \A a \in Targets(nodes', outputs') :
           a \in Targets(nodes, outputs) /\ RandomEval(nodes')[a] = RandomEval(nodes)[a]
  BY <1>6, <1>8, <1>9
<1> QED
  BY <1>10 DEF DrawApart

\* The second tree_shake leaves only nodes that are referred to.
LEMMA SweepSetsApart ==
    ASSUME IInv, Sweep, round = 2, DrawApart(nodes, Targets(nodes, outputs))
    PROVE  DrawApart(nodes', DOMAIN nodes')
<1> USE DEF IInv
<1>1. IsGraph(nodes) /\ BackRefs(nodes) /\ MarkedSoFar /\ cursor = 0 /\ outputs \in Seq(Nat)
  BY DEF TypeOK, Sweep
<1>2. Len(nodes) \in Nat /\ DOMAIN nodes = 1..Len(nodes)
  BY <1>1, GraphShape
<1>3. used \in SUBSET (DOMAIN nodes) /\ \A i \in used : Refs(nodes[i]) \subseteq used
  BY <1>1, <1>2 DEF MarkedSoFar
<1>4. \A k \in DOMAIN Kept(nodes, used) : Refs(Kept(nodes, used)[k]) \subseteq used
  BY <1>1, <1>3, SweptGraph
<1>5. Range(outputs) \subseteq used
  BY <1>1 DEF MarkedSoFar
<1>6. nodes' = Swept(nodes, used)
  BY <1>4, <1>5 DEF Sweep, Swept
<1>7. used \subseteq Targets(nodes, outputs)
  BY <1>1, <1>3 DEF MarkedSoFar, Targets
<1>8. DrawApart(nodes, used)
  BY <1>7 DEF DrawApart
<1> QED
  BY <1>1, <1>3, <1>6, <1>8, SweptDraws

\* A constant of the field draws the same in Montgomery form.
LEMMA MontgomeryStaysApart ==
    ASSUME IInv, IInv', Montgomery, IsFieldGraph(nodes), DrawApart(nodes, DOMAIN nodes)
    PROVE  DrawApart(nodes', DOMAIN nodes')
<1>1. IsGraph(nodes) /\ BackRefs(nodes) /\ IsGraph(nodes') /\ BackRefs(nodes')
  BY DEF IInv, TypeOK
<1>2. nodes' = nodes \/ nodes' = [k \in DOMAIN nodes |-> InMontgomeryForm(nodes[k])]
  BY DEF Montgomery
<1>3. DOMAIN nodes' = DOMAIN nodes
  BY <1>2
<1> DEFINE rs == RandomEval(nodes)
<1>4. ASSUME NEW i \in DOMAIN nodes PROVE RandomValue(nodes'[i], rs) = rs[i]
  <2> DEFINE n == nodes[i]
  <2>1. IsNode(n) /\ IsFieldNode(n) /\ rs[i] = RandomValue(n, rs)
    BY <1>1, GraphShape, DrawnFound DEF IsFieldGraph
  <2>2. nodes'[i] = n \/ nodes'[i] = InMontgomeryForm(n)
    BY <1>2
  <2> HIDE DEF n, rs
  <2>3. CASE n.kind = "Constant"
    <3>1. n.val \in Field /\ n.val % M = n.val
      BY <2>1, <2>3, FieldElements DEF IsFieldNode
    <3>2. InMontgomeryForm(n) = MontConstant(n.val)
      BY <2>3, <3>1 DEF InMontgomeryForm
    <3>3. /\ IsNode(MontConstant(n.val)) /\ MontConstant(n.val).kind = "MontConstant"
          /\ MontConstant(n.val).val = n.val
      BY ConstantNode DEF MontConstant, Node
    <3>4. RandomValue(MontConstant(n.val), rs) = ConstPoly(n.val)
      BY <3>3, DrawOfNode
    <3>5. RandomValue(n, rs) = ConstPoly(n.val)
      BY <2>1, <2>3, DrawOfNode
    <3> QED
      BY <2>1, <2>2, <3>2, <3>4, <3>5
  <2>4. CASE n.kind # "Constant"
    BY <2>1, <2>2, <2>4 DEF InMontgomeryForm
  <2> QED
    BY <2>3, <2>4
<1>5. \A i \in DOMAIN nodes : RandomEval(nodes')[i] = RandomEval(nodes)[i]
  BY <1>1, <1>3, <1>4, ReplacedDraws
<1> QED
  BY <1>3, <1>5 DEF DrawApart

TwiceInv == IsFieldGraph(source.nodes) => IsFieldGraph(nodes) /\ ApartInv

\* No two nodes that are written to disk draw the same polynomial, for every
\* graph whose constants are field elements and that shifts and combines no
\* bits.
THEOREM NothingIsDrawnTwice == Spec => [](IsFieldGraph(source.nodes) => NothingDrawnTwice)
<1>1. Init => TwiceInv
  BY DEF Init, TwiceInv, ApartInv
<1>2. IInv /\ IInv' /\ TwiceInv /\ [Next]_vars => TwiceInv'
  <2> SUFFICES ASSUME IInv, IInv', TwiceInv, [Next]_vars PROVE TwiceInv'
    OBVIOUS
  <2>1. source' = source
    BY DEF Next, Shake, Mark, Sweep, Propagate, FoldNode, FoldEnd, ValueNumbering, Constants,
           Montgomery, vars
  <2>2. SUFFICES ASSUME IsFieldGraph(source.nodes) PROVE IsFieldGraph(nodes') /\ ApartInv'
    BY <2>1 DEF TwiceInv
  <2>3. IsFieldGraph(nodes) /\ ApartInv
    BY <2>2 DEF TwiceInv
  <2>4. IsFieldGraph(nodes')
    BY <2>3, ElementsStay
  <2>5. CASE Shake
    <3>1. pc = "shake" /\ pc' \in {"mark", "panicked"} /\ UNCHANGED <<nodes, outputs, round>>
      BY <2>5 DEF Shake, GoTo
    <3> QED
      BY <2>3, <2>4, <3>1 DEF ApartInv
  <2>6. CASE Mark \/ UNCHANGED vars
    <3>1. UNCHANGED <<pc, nodes, outputs, round>>
      BY <2>6 DEF Mark, vars
    <3> QED
      BY <2>3, <2>4, <3>1 DEF ApartInv
  <2>7. CASE Sweep
    <3>1. /\ pc = "mark" /\ round \in 1..2
          /\ pc' \in {IF round = 1 THEN "propagate" ELSE "montgomery", "panicked"}
      BY <2>7 DEF Sweep, GoTo, IInv
    <3>2. CASE round = 1
      BY <2>4, <3>1, <3>2 DEF ApartInv
    <3>3. CASE round = 2
      <4>1. DrawApart(nodes', DOMAIN nodes')
        BY <2>3, <2>7, <3>1, <3>3, SweepSetsApart DEF ApartInv
      <4>2. pc' \in {"montgomery", "panicked"}
        BY <3>1, <3>3
      <4> QED
        BY <2>4, <4>1, <4>2 DEF ApartInv
    <3> QED
      BY <3>1, <3>2, <3>3
  <2>8. CASE Propagate \/ FoldNode \/ FoldEnd
    <3>1. pc' \in {"fold", "number", "panicked"}
      BY <2>8 DEF Propagate, FoldNode, FoldEnd, GoTo
    <3> QED
      BY <2>4, <3>1 DEF ApartInv
  <2>9. CASE ValueNumbering
    <3>1. pc' \in {"constants", "panicked"}
      BY <2>9 DEF ValueNumbering, GoTo
    <3> QED
      BY <2>4, <2>9, <3>1, NumberingSetsApart DEF ApartInv
  <2>10. CASE Constants
    <3>1. pc = "constants" /\ pc' \in {"shake", "panicked"}
      BY <2>10 DEF Constants, GoTo
    <3> QED
      BY <2>3, <2>4, <2>10, <3>1, ConstantsStayApart DEF ApartInv
  <2>11. CASE Montgomery
    <3>1. pc = "montgomery" /\ pc' \in {"done", "panicked"}
      BY <2>11 DEF Montgomery, GoTo
    <3> QED
      BY <2>3, <2>4, <2>11, <3>1, MontgomeryStaysApart DEF ApartInv
  <2> QED
    BY <2>5, <2>6, <2>7, <2>8, <2>9, <2>10, <2>11 DEF Next
<1>3. IInv /\ TwiceInv => (IsFieldGraph(source.nodes) => NothingDrawnTwice)
  BY DEF TwiceInv, ApartInv, NothingDrawnTwice, DrawApart
<1> QED
  BY <1>1, <1>2, <1>3, Invariance, PTL DEF Spec

-----------------------------------------------------------------------------
(***************************************************************************)
(* Constants stay words through every pass, shifts and combinations of     *)
(* bits included, and montgomery_form makes field elements of them.        *)
(***************************************************************************)

IsWordNode(n) == /\ n.kind = "Constant" => n.val \in Words
                 /\ n.kind = "MontConstant" => n.val \in Field
IsWordGraph(ns) == \A i \in DOMAIN ns : IsWordNode(ns[i])
IsWordPoly(p) == IsFiniteSet(DOMAIN p) /\ \A m \in DOMAIN p : p[m] \in Words

\* Dropping the zeros leaves words.
LEMMA NonZeroWords == ASSUME NEW p, IsWordPoly(p) PROVE IsWordPoly(NonZero(p))
<1> DEFINE q == NonZero(p)
<1>1. DOMAIN q \subseteq DOMAIN p /\ \A m \in DOMAIN q : q[m] = p[m]
  BY DEF NonZero
<1> HIDE DEF q
<1>2. IsFiniteSet(DOMAIN q)
  BY <1>1, FS_Subset DEF IsWordPoly
<1> QED
  BY <1>1, <1>2 DEF IsWordPoly, q

\* Sums and differences of polynomials.
LEMMA SumWords ==
    ASSUME NEW p, IsWordPoly(p), NEW q, IsWordPoly(q)
    PROVE  IsWordPoly(AddPoly(p, q)) /\ IsWordPoly(SubPoly(p, q))
<1> DEFINE D == (DOMAIN p) \cup (DOMAIN q)
           add == [m \in D |-> Eval("Add", Coef(p, m), Coef(q, m))]
           sub == [m \in D |-> Eval("Sub", Coef(p, m), Coef(q, m))]
<1>1. IsFiniteSet(D)
  BY FS_Union DEF IsWordPoly
<1>2. \A m : Coef(p, m) \in Words /\ Coef(q, m) \in Words
  BY Remainders DEF IsWordPoly, Coef
<1>3. \A x, y \in Words : Eval("Add", x, y) \in Words /\ Eval("Sub", x, y) \in Words
  BY EvalIsWord DEF DuoOps
<1>4. /\ DOMAIN add = D /\ \A m \in D : add[m] = Eval("Add", Coef(p, m), Coef(q, m))
      /\ DOMAIN sub = D /\ \A m \in D : sub[m] = Eval("Sub", Coef(p, m), Coef(q, m))
  OBVIOUS
<1>5. AddPoly(p, q) = NonZero(add) /\ SubPoly(p, q) = NonZero(sub)
  BY Zenon DEF AddPoly, SubPoly
<1> HIDE DEF D, add, sub
<1>6. IsWordPoly(add) /\ IsWordPoly(sub)
  BY <1>1, <1>2, <1>3, <1>4 DEF IsWordPoly
<1> QED
  BY <1>5, <1>6, NonZeroWords

\* Products of polynomials, whose coefficients have been reduced.
LEMMA ProductWords ==
    ASSUME NEW p, IsWordPoly(p), NEW q, IsWordPoly(q) PROVE IsWordPoly(MulPoly(p, q))
<1> DEFINE S == (DOMAIN p) \X (DOMAIN q)
           term == [t \in S |-> Eval("Mul", p[t[1]], q[t[2]])]
           h == [t \in S |-> Times(t[1], t[2])]
           R == {Times(t[1], t[2]) : t \in S}
           to(m) == {t \in S : Times(t[1], t[2]) = m}
           r == [m \in R |-> SumOver(term, to(m)) % M]
<1>1. MulPoly(p, q) = NonZero(r)
  BY Zenon DEF MulPoly
<1>2. IsFiniteSet(S)
  BY FS_Product DEF IsWordPoly
<1>3. \A t \in S : term[t] \in Field
  <2> TAKE t \in S
  <2>1. t[1] \in DOMAIN p /\ t[2] \in DOMAIN q
    OBVIOUS
  <2>2. p[t[1]] \in Words /\ q[t[2]] \in Words
    BY <2>1 DEF IsWordPoly
  <2>3. p[t[1]] \in Nat /\ q[t[2]] \in Nat
    BY <2>2, Remainders
  <2>4. p[t[1]] * q[t[2]] \in Int
    BY <2>3
  <2>5. Eval("Mul", p[t[1]], q[t[2]]) = (p[t[1]] * q[t[2]]) % M
    BY DEF Eval
  <2> QED
    BY <2>4, <2>5, Remainders
<1>4. R = {h[t] : t \in S} /\ DOMAIN h = S /\ h = [t \in S |-> h[t]]
  OBVIOUS
<1>5. IsFiniteSet(R)
  <2> HIDE DEF S, h, R
  <2> QED
    BY <1>2, <1>4, FiniteImage
<1>6. DOMAIN r = R /\ \A m \in R : r[m] = SumOver(term, to(m)) % M /\ to(m) \in SUBSET S
  OBVIOUS
<1> HIDE DEF S, term, h, R, to, r
<1>7. ASSUME NEW m \in R PROVE r[m] \in Words
  <2> DEFINE U == to(m)
  <2>1. IsFiniteSet(U) /\ \A t \in U : term[t] \in Field
    BY <1>2, <1>3, <1>6, FS_Subset
  <2>2. r[m] = SumOver(term, U) % M
    BY <1>6
  <2> HIDE DEF U
  <2>3. SumOver(term, U) % M = Sum(term, U)
    BY <2>1, SumOverIsSum
  <2>4. Sum(term, U) \in Field
    <3>1. U \in SUBSET U
      OBVIOUS
    <3> QED
      BY <2>1, <3>1, AddIsMonoid, TotalStep DEF Sum
  <2> QED
    BY <2>2, <2>3, <2>4, FieldIsWords
<1>8. IsWordPoly(r)
  BY <1>5, <1>6, <1>7 DEF IsWordPoly
<1> QED
  BY <1>1, <1>8, NonZeroWords

\* What a node draws when the nodes it refers to draw words.
LEMMA DrawIsWordPoly ==
    ASSUME NEW n, IsNode(n), IsWordNode(n), NEW rs, \A a \in Refs(n) : IsWordPoly(rs[a])
    PROVE  IsWordPoly(RandomValue(n, rs))
<1>1. CASE n.kind \in {"Constant", "MontConstant"}
  <2> DEFINE c == [m \in {One} |-> n.val]
  <2>1. n.val \in Words
    BY <1>1, FieldIsWords DEF IsWordNode
  <2>2. IsFiniteSet({One}) /\ DOMAIN c = {One} /\ \A m \in {One} : c[m] = n.val
    BY FS_Singleton
  <2>3. RandomValue(n, rs) = NonZero(c)
    BY <1>1, DrawOfNode DEF ConstPoly
  <2> HIDE DEF c
  <2>4. IsWordPoly(c)
    BY <2>1, <2>2 DEF IsWordPoly
  <2> QED
    BY <2>3, <2>4, NonZeroWords
<1>2. CASE Drawing(n)
  <2> DEFINE key == KeyOf(n, rs)
             S == {[d \in {key} |-> 1]}
  <2>1. RandomValue(n, rs) = [m \in S |-> 1]
    BY <1>2, DrawOfNode DEF Draw
  <2>2. IsFiniteSet(S) /\ 1 \in Words
    BY FS_Singleton, Remainders
  <2> HIDE DEF S
  <2> QED
    BY <2>1, <2>2 DEF IsWordPoly
<1>3. CASE n.op \in {"Add", "Sub", "Mul"}
  <2>1. n.kind = "Op"
    BY <1>3, DrawOfNode
  <2>2. n.args[1] \in Refs(n) /\ n.args[2] \in Refs(n)
    <3>1. 1 \in 1..Arity[n.kind] /\ 2 \in 1..Arity[n.kind]
      BY <2>1 DEF Arity
    <3> QED
      BY <3>1, KindsOfNodes
  <2>3. IsWordPoly(rs[n.args[1]]) /\ IsWordPoly(rs[n.args[2]])
    BY <2>2
  <2>4. /\ n.op = "Add" => RandomValue(n, rs) = AddPoly(rs[n.args[1]], rs[n.args[2]])
        /\ n.op = "Sub" => RandomValue(n, rs) = SubPoly(rs[n.args[1]], rs[n.args[2]])
        /\ n.op = "Mul" => RandomValue(n, rs) = MulPoly(rs[n.args[1]], rs[n.args[2]])
    BY DrawOfNode
  <2> QED
    BY <1>3, <2>3, <2>4, SumWords, ProductWords
<1> QED
  BY <1>1, <1>2, <1>3 DEF Drawing

\* Every node draws words.
LEMMA DrawsAreWordPolys ==
    ASSUME NEW ns, IsGraph(ns), BackRefs(ns), IsWordGraph(ns)
    PROVE  \A i \in DOMAIN ns : IsWordPoly(RandomEval(ns)[i])
<1> DEFINE N == Len(ns)
           rs == RandomEval(ns)
           T == {n \in 0..N : \A i \in 1..n : IsWordPoly(rs[i])}
<1>1. N \in Nat /\ DOMAIN ns = 1..N
  BY GraphShape
<1>2. \A i \in 1..N : IsNode(ns[i]) /\ IsWordNode(ns[i]) /\ Refs(ns[i]) \subseteq 1..i - 1
  BY <1>1, GraphShape DEF BackRefs, IsWordGraph
<1>3. \A i \in 1..N : rs[i] = RandomValue(ns[i], rs)
  BY <1>1, DrawnFound
<1> HIDE DEF N, rs
<1>4. 0 \in T
  BY <1>1
<1>5. ASSUME NEW n \in 0..N - 1, n \in T PROVE n + 1 \in T
  <2> DEFINE m == n + 1
  <2>1. m \in 1..N /\ m \in 0..N /\ m - 1 = n /\ \A i \in 1..m : i \in 1..n \/ i = m
    BY <1>1
  <2>2. \A i \in 1..n : IsWordPoly(rs[i])
    BY <1>5
  <2> HIDE DEF m
  <2>3. \A a \in Refs(ns[m]) : IsWordPoly(rs[a])
    BY <1>2, <2>1, <2>2
  <2>4. IsWordPoly(rs[m])
    BY <1>2, <1>3, <2>1, <2>3, DrawIsWordPoly
  <2>5. \A i \in 1..m : IsWordPoly(rs[i])
    BY <2>1, <2>2, <2>4
  <2> QED
    BY <2>1, <2>5 DEF m
<1> HIDE DEF T
<1>6. \A n \in 0..N : n \in T
  BY <1>1, <1>4, <1>5, Induction
<1>7. N \in 0..N
  BY <1>1
<1>8. \A i \in 1..N : IsWordPoly(rs[i])
  BY <1>6, <1>7 DEF T
<1> QED
  BY <1>1, <1>8 DEF rs

\* Folding words leaves a word or panics.
LEMMA FoldedWord ==
    ASSUME NEW n, IsNode(n), n.kind \in {"UnoOp", "Op", "TresOp"},
           NEW v, \A k \in 1..Arity[n.kind] : v[k] \in Words
    PROVE  Fold(n, v) \in Words \cup {Panic}
<1>1. CASE n.kind = "UnoOp"
  <2>1. v[1] \in Words /\ n.op \in UnoOps /\ Fold(n, v) = UnoEval(n.op, v[1])
    BY <1>1, KindsOfNodes DEF Arity, Fold
  <2> QED
    BY <2>1, OtherEvalTypes
<1>2. CASE n.kind = "Op"
  <2>1. 1 \in 1..Arity[n.kind] /\ 2 \in 1..Arity[n.kind]
    BY <1>2 DEF Arity
  <2>2. v[1] \in Words /\ v[2] \in Words
    BY <2>1
  <2>3. n.op \in DuoOps /\ Fold(n, v) = Eval(n.op, v[1], v[2])
    BY <1>2, KindsOfNodes DEF Fold
  <2> QED
    BY <2>2, <2>3, EvalType
<1>3. CASE n.kind = "TresOp"
  <2>1. 2 \in 1..Arity[n.kind] /\ 3 \in 1..Arity[n.kind]
    BY <1>3 DEF Arity
  <2>2. v[2] \in Words /\ v[3] \in Words
    BY <2>1
  <2>3. Fold(n, v) = TresEval(n.op, v[1], v[2], v[3])
    BY <1>3 DEF Fold
  <2> QED
    BY <2>2, <2>3, OtherEvalTypes
<1> QED
  BY <1>1, <1>2, <1>3

\* A node that propagate makes holds a word.
LEMMA PropagatedWord ==
    ASSUME NEW ns, IsGraph(ns), BackRefs(ns), IsWordGraph(ns), NEW i \in DOMAIN ns,
           Propagated(ns, ns[i]) # Constant(Panic)
    PROVE  IsWordNode(Propagated(ns, ns[i]))
<1> DEFINE n == ns[i]
           v == [k \in DOMAIN n.args |-> ns[n.args[k]].val]
<1>1. DOMAIN ns = 1..Len(ns) /\ Len(ns) \in Nat
  BY GraphShape
<1>2. IsNode(n) /\ IsWordNode(n) /\ Refs(n) \subseteq DOMAIN ns
  BY <1>1, GraphShape DEF BackRefs, IsWordGraph
<1>3. \A c \in Words : IsWordNode(Constant(c))
  BY DEF IsWordNode, Constant, Node
<1>4. CASE n.args # <<>> /\ OnConstants(ns, n)
  <2>1. n.kind \in {"UnoOp", "Op", "TresOp"}
    BY <1>2, <1>4, ReadsSomething
  <2>2. DOMAIN n.args = 1..Arity[n.kind] /\ \A k \in 1..Arity[n.kind] : n.args[k] \in Refs(n)
    BY <1>2, KindsOfNodes
  <2>3. \A k \in 1..Arity[n.kind] : v[k] \in Words
    <3>1. SUFFICES ASSUME NEW k \in 1..Arity[n.kind] PROVE v[k] \in Words
      OBVIOUS
    <3>2. n.args[k] \in Refs(n) /\ v[k] = ns[n.args[k]].val
      BY <2>2
    <3>3. ns[n.args[k]].kind = "Constant" /\ IsWordNode(ns[n.args[k]])
      BY <1>2, <1>4, <3>2 DEF OnConstants, IsWordGraph
    <3> QED
      BY <3>2, <3>3 DEF IsWordNode
  <2> HIDE DEF v
  <2>4. Propagated(ns, n) = Constant(Fold(n, v))
    BY <1>4 DEF Propagated, v
  <2>5. Fold(n, v) # Panic
    BY <2>4
  <2>6. Fold(n, v) \in Words
    <3> HIDE DEF n
    <3> QED
      BY <1>2, <2>1, <2>3, <2>5, FoldedWord
  <2> QED
    BY <1>3, <2>4, <2>6
<1>5. CASE ~(n.args # <<>> /\ OnConstants(ns, n))
  <2>1. Propagated(ns, n) \in {n, Constant(0), Constant(1)}
    BY <1>5 DEF Propagated
  <2>2. 0 \in Words /\ 1 \in Words
    BY Remainders
  <2> QED
    BY <1>2, <1>3, <2>1, <2>2
<1> QED
  BY <1>4, <1>5

\* What is written to disk holds field elements in Montgomery form only.
Storable == /\ IsWordGraph(nodes)
            /\ pc = "done" => \A k \in DOMAIN nodes : nodes[k].kind # "Constant"

\* Every step leaves a graph of words.
LEMMA WordsStay ==
    ASSUME IInv, IsWordGraph(nodes), [Next]_vars PROVE IsWordGraph(nodes')
<1>1. IsGraph(nodes) /\ BackRefs(nodes) /\ Len(nodes) \in Nat /\ DOMAIN nodes = 1..Len(nodes)
  BY GraphShape DEF IInv, TypeOK
<1>2. CASE Shake \/ Mark \/ Propagate \/ FoldEnd \/ UNCHANGED vars
  BY <1>2 DEF Shake, Mark, Propagate, FoldEnd, vars
<1>3. \A n : \A f : IsWordNode(n) => IsWordNode(MapRefs(n, f))
  BY MovedField DEF IsWordNode
<1>4. CASE Sweep
  <2>1. used \in SUBSET (DOMAIN nodes)
    BY <1>4 DEF IInv, Sweep, MarkedSoFar
  <2>2. used \in SUBSET Nat /\ IsFiniteSet(used)
    BY <1>1, <2>1, PositionsAreFinite
  <2>3. DOMAIN nodes' = DOMAIN Kept(nodes, used)
        /\ \A k \in DOMAIN nodes' : \/ nodes'[k] = Kept(nodes, used)[k]
                                    \/ nodes'[k] = MapRefs(Kept(nodes, used)[k], Renumber(used))
    BY <1>4 DEF Sweep
  <2>4. \A k \in DOMAIN nodes' : \E i \in used : Kept(nodes, used)[k] = nodes[i]
    <3>1. DOMAIN Kept(nodes, used) = 1..Cardinality(used)
      BY <2>2, KeptNodes
    <3>2. \A k \in 1..Cardinality(used) : \E i \in used :
              Renumber(used)[i] = k /\ Kept(nodes, used)[k] = nodes[i]
      BY <2>2, KeptNodes
    <3> QED
      BY <2>3, <3>1, <3>2
  <2>5. \A k \in DOMAIN nodes' : IsWordNode(Kept(nodes, used)[k])
    BY <2>1, <2>4 DEF IsWordGraph
  <2> QED
    BY <1>3, <2>3, <2>5 DEF IsWordGraph
<1>5. CASE FoldNode
  <2> DEFINE n == Propagated(nodes, nodes[cursor])
  <2>1. cursor \in DOMAIN nodes
    BY <1>1, <1>5 DEF FoldNode, IInv, TypeOK
  <2>2. nodes' = nodes \/ (n # Constant(Panic) /\ nodes' = [nodes EXCEPT ![cursor] = n])
    BY <1>5 DEF FoldNode
  <2>3. n # Constant(Panic) => IsWordNode(n)
    BY <1>1, <2>1, PropagatedWord
  <2> HIDE DEF n
  <2> QED
    BY <2>2, <2>3 DEF IsWordGraph
<1>6. CASE ValueNumbering
  <2>1. nodes' = [k \in DOMAIN nodes |-> MapRefs(nodes[k], FirstEqual(nodes))]
    BY <1>6 DEF ValueNumbering
  <2> QED
    BY <1>3, <2>1 DEF IsWordGraph
<1>7. CASE Constants
  <2>1. \A i \in DOMAIN nodes : IsWordPoly(RandomEval(nodes)[i])
    BY <1>1, DrawsAreWordPolys
  <2>2. \A i \in DOMAIN nodes : Coef(RandomEval(nodes)[i], One) \in Words
    BY <2>1, Remainders DEF Coef, IsWordPoly
  <2>3. \A i \in DOMAIN nodes : IsWordNode(Constant(Coef(RandomEval(nodes)[i], One)))
    BY <2>2 DEF IsWordNode, Constant, Node
  <2>4. nodes' = ConstantsFound(nodes)
    BY <1>7 DEF Constants
  <2>5. DOMAIN nodes' = DOMAIN nodes
        /\ \A k \in DOMAIN nodes :
              nodes'[k] \in {nodes[k], Constant(Coef(RandomEval(nodes)[k], One))}
    BY <2>4 DEF ConstantsFound
  <2> QED
    BY <2>3, <2>5 DEF IsWordGraph
<1>8. CASE Montgomery
  <2>1. nodes' = nodes \/ nodes' = [k \in DOMAIN nodes |-> InMontgomeryForm(nodes[k])]
    BY <1>8 DEF Montgomery
  <2>2. ASSUME NEW k \in DOMAIN nodes PROVE IsWordNode(InMontgomeryForm(nodes[k]))
    <3> DEFINE n == nodes[k]
    <3>1. IsWordNode(n)
      BY DEF IsWordGraph
    <3>2. CASE n.kind = "Constant"
      <4>1. n.val \in Int
        <5>1. n.val \in Words
          BY <3>1, <3>2, Zenon DEF IsWordNode
        <5>2. Words \subseteq Int
          BY Remainders
        <5> QED
          BY <5>1, <5>2, Zenon
      <4>2. n.val % M \in Field
        BY <4>1, Remainders
      <4> QED
        BY <3>2, <4>2 DEF InMontgomeryForm, MontConstant, Node, IsWordNode
    <3>3. CASE n.kind # "Constant"
      BY <3>1, <3>3 DEF InMontgomeryForm
    <3> QED
      BY <3>2, <3>3
  <2> QED
    BY <2>1, <2>2 DEF IsWordGraph
<1> QED
  BY <1>2, <1>4, <1>5, <1>6, <1>7, <1>8 DEF Next

\* Only montgomery_form ends the optimization, and it leaves no constant.
LEMMA NextKeepsStorable == IInv /\ Storable /\ [Next]_vars => Storable'
<1> SUFFICES ASSUME IInv, Storable, [Next]_vars PROVE Storable'
  OBVIOUS
<1>1. IsWordGraph(nodes')
  BY WordsStay DEF Storable
<1>2. ASSUME pc' = "done" PROVE \A k \in DOMAIN nodes' : nodes'[k].kind # "Constant"
  <2>1. CASE UNCHANGED vars
    BY <1>2, <2>1 DEF Storable, vars
  <2>2. CASE Montgomery
    <3>1. nodes' = [k \in DOMAIN nodes |-> InMontgomeryForm(nodes[k])]
      BY <1>2, <2>2 DEF Montgomery, GoTo
    <3>2. \A c : MontConstant(c).kind = "MontConstant"
      BY DEF MontConstant, Node
    <3>3. \A k \in DOMAIN nodes : InMontgomeryForm(nodes[k]).kind # "Constant"
      BY <3>2 DEF InMontgomeryForm
    <3> QED
      BY <3>1, <3>3
  <2>3. ~(Shake \/ Mark \/ Sweep \/ Propagate \/ FoldNode \/ FoldEnd)
    BY <1>2 DEF Shake, Mark, Sweep, Propagate, FoldNode, FoldEnd, GoTo
  <2>4. ~(ValueNumbering \/ Constants)
    BY <1>2 DEF ValueNumbering, Constants, GoTo
  <2> QED
    BY <2>1, <2>2, <2>3, <2>4 DEF Next
<1> QED
  BY <1>1, <1>2 DEF Storable

-----------------------------------------------------------------------------
(***************************************************************************)
(* Where the inputs stay.  Dropping nodes keeps the order of those that    *)
(* are left, and the other passes make no input and replace none.          *)
(***************************************************************************)

Numbered(ns) == \A i \in InputNodes(ns) : ns[i].val \in Nat
InputsInv == /\ Numbered(nodes)
             /\ InputsTogether(source.nodes) => InputsTogether(nodes)

\* A pass that changes no input and makes none leaves them where they are.
LEMMA SameInputs ==
    ASSUME NEW ns, NEW new, DOMAIN new = DOMAIN ns,
           \A k \in DOMAIN ns : new[k].kind = "Input" <=> ns[k].kind = "Input",
           \A k \in DOMAIN ns : ns[k].kind = "Input" => new[k].val = ns[k].val
    PROVE  /\ Numbered(ns) => Numbered(new)
           /\ InputsTogether(ns) => InputsTogether(new)
<1>1. InputNodes(new) = InputNodes(ns) /\ \A k \in InputNodes(ns) : new[k].val = ns[k].val
  BY DEF InputNodes
<1> QED
  BY <1>1 DEF Numbered, InputsTogether

\* No node that is dropped stood between two that are left and were together.
LEMMA KeptInputs ==
    ASSUME NEW ns, IsGraph(ns), NEW keep \in SUBSET (DOMAIN ns),
           NEW new, DOMAIN new = DOMAIN Kept(ns, keep),
           \A k \in DOMAIN new : /\ new[k].kind = Kept(ns, keep)[k].kind
                                 /\ new[k].val = Kept(ns, keep)[k].val
    PROVE  /\ Numbered(ns) => Numbered(new)
           /\ InputsTogether(ns) => InputsTogether(new)
<1> DEFINE C == Cardinality(keep)
           r == Renumber(keep)
<1>1. keep \in SUBSET Nat /\ IsFiniteSet(keep)
  BY PositionsAreFinite
<1>2. DOMAIN new = 1..C /\ C \in Nat /\ r \in [keep -> 1..C]
  BY <1>1, KeptNodes, RankType
<1>3. ASSUME NEW k \in 1..C
      PROVE  \E i \in keep : r[i] = k /\ new[k].kind = ns[i].kind /\ new[k].val = ns[i].val
  BY <1>1, <1>2, KeptNodes, SMTT(30)
<1>4. \A i, j \in keep : r[i] <= r[j] => i <= j
  <2> SUFFICES ASSUME NEW i \in keep, NEW j \in keep, r[i] <= r[j], ~(i <= j) PROVE FALSE
    OBVIOUS
  <2>1. j < i
    BY <1>1
  <2>2. r[j] < r[i]
    BY <1>1, <2>1, RankIncreases
  <2>3. r[i] \in Nat /\ r[j] \in Nat
    BY <1>2
  <2> QED
    BY <2>2, <2>3
<1> HIDE DEF r, C
<1>5. Numbered(ns) => Numbered(new)
  BY <1>2, <1>3 DEF Numbered, InputNodes
<1>6. ASSUME InputsTogether(ns) PROVE InputsTogether(new)
  <2>1. SUFFICES ASSUME NEW a \in InputNodes(new), NEW b \in InputNodes(new), NEW c \in a..b
                 PROVE  c \in InputNodes(new)
    BY DEF InputsTogether
  <2>2. a \in 1..C /\ b \in 1..C /\ new[a].kind = "Input" /\ new[b].kind = "Input"
    BY <1>2, <2>1 DEF InputNodes
  <2>3. c \in 1..C /\ a <= c /\ c <= b
    BY <1>2, <2>2
  <2>4. PICK i \in keep : r[i] = a /\ new[a].kind = ns[i].kind
    BY <1>3, <2>2
  <2>5. PICK j \in keep : r[j] = b /\ new[b].kind = ns[j].kind
    BY <1>3, <2>2
  <2>6. PICK k \in keep : r[k] = c /\ new[c].kind = ns[k].kind
    BY <1>3, <2>3
  <2>7. i <= k /\ k <= j
    BY <1>4, <2>3, <2>4, <2>5, <2>6
  <2>8. i \in InputNodes(ns) /\ j \in InputNodes(ns) /\ k \in i..j
    BY <1>1, <2>2, <2>4, <2>5, <2>7 DEF InputNodes
  <2>9. k \in InputNodes(ns)
    BY <1>6, <2>8 DEF InputsTogether
  <2> QED
    BY <1>2, <2>3, <2>6, <2>9 DEF InputNodes
<1> QED
  BY <1>5, <1>6

\* An input draws: it is not taken for a constant.
LEMMA InputsDraw ==
    ASSUME NEW ns, IsGraph(ns), BackRefs(ns), NEW i \in InputNodes(ns)
    PROVE  ~IsConstPoly(RandomEval(ns)[i])
<1> DEFINE key == <<"Input", ns[i].val>>
           m == [d \in {key} |-> 1]
<1>1. i \in DOMAIN ns /\ ns[i].kind = "Input"
  BY DEF InputNodes
<1>2. RandomEval(ns)[i] = RandomValue(ns[i], RandomEval(ns))
  BY <1>1, DrawnFound
<1>3. RandomEval(ns)[i] = Draw(key)
  <2>1. IsNode(ns[i])
    BY <1>1, GraphShape
  <2>2. Drawing(ns[i])
    BY <1>1, <2>1, KindsOfNodes DEF Drawing
  <2>3. KeyOf(ns[i], RandomEval(ns)) = key
    BY <1>1, Zenon DEF KeyOf
  <2> QED
    BY <1>2, <2>1, <2>2, <2>3, DrawOfNode, Zenon
<1>4. DOMAIN Draw(key) = {m}
  BY DEF Draw
<1>5. m # One
  <2>1. DOMAIN m = {key} /\ DOMAIN One = {}
    BY DEF One
  <2> HIDE DEF m, key
  <2> QED
    BY <2>1
<1> HIDE DEF m, key
<1> QED
  BY <1>3, <1>4, <1>5 DEF IsConstPoly

\* Every step leaves them next to each other.
LEMMA InputsStay == IInv /\ InputsInv /\ [Next]_vars => InputsInv'
<1> SUFFICES ASSUME IInv, InputsInv, [Next]_vars PROVE InputsInv'
  OBVIOUS
<1>1. source' = source
  BY DEF Next, Shake, Mark, Sweep, Propagate, FoldNode, FoldEnd, ValueNumbering, Constants,
         Montgomery, vars
<1>2. SUFFICES /\ Numbered(nodes) => Numbered(nodes')
               /\ InputsTogether(nodes) => InputsTogether(nodes')
  BY <1>1 DEF InputsInv
<1>3. IsGraph(nodes) /\ BackRefs(nodes) /\ Len(nodes) \in Nat /\ DOMAIN nodes = 1..Len(nodes)
  BY GraphShape DEF IInv, TypeOK
<1>4. \A k \in DOMAIN nodes : IsNode(nodes[k])
  BY <1>3, GraphShape
<1>5. \A c : Constant(c).kind # "Input" /\ MontConstant(c).kind # "Input"
  BY DEF Constant, MontConstant, Node
<1>6. CASE Shake \/ Mark \/ Propagate \/ FoldEnd \/ UNCHANGED vars
  BY <1>6 DEF Shake, Mark, Propagate, FoldEnd, vars
<1>7. CASE Sweep
  <2>1. used \in SUBSET (DOMAIN nodes)
    BY <1>7 DEF IInv, Sweep, MarkedSoFar
  <2>2. DOMAIN nodes' = DOMAIN Kept(nodes, used)
        /\ \A k \in DOMAIN nodes' : \/ nodes'[k] = Kept(nodes, used)[k]
                                    \/ nodes'[k] = MapRefs(Kept(nodes, used)[k], Renumber(used))
    BY <1>7 DEF Sweep
  <2>3. \A k \in DOMAIN nodes' : /\ nodes'[k].kind = Kept(nodes, used)[k].kind
                                 /\ nodes'[k].val = Kept(nodes, used)[k].val
    BY <2>2, MovedField
  <2> QED
    BY <1>3, <2>1, <2>2, <2>3, KeptInputs
<1>8. CASE FoldNode
  <2> DEFINE n == nodes[cursor]
             new == Propagated(nodes, n)
  <2>1. cursor \in DOMAIN nodes
    BY <1>3, <1>8 DEF FoldNode, IInv, TypeOK
  <2>2. nodes' = nodes \/ nodes' = [nodes EXCEPT ![cursor] = new]
    BY <1>8 DEF FoldNode
  <2>3. n.kind = "Input" => n.args = <<>>
    BY <1>4, <2>1, ReadsSomething
  <2>4. n.args = <<>> => new = n
    BY DEF Propagated
  <2>5. new = n \/ \E c : new = Constant(c)
    BY DEF Propagated
  <2>6. n.kind = "Input" => new = n
    BY <2>3, <2>4
  <2>7. DOMAIN nodes' = DOMAIN nodes
        /\ \A k \in DOMAIN nodes : nodes'[k] = nodes[k] \/ (k = cursor /\ nodes'[k] = new)
    <3> HIDE DEF new
    <3> QED
      BY <2>1, <2>2
  <2> HIDE DEF new
  <2>8. \A k \in DOMAIN nodes :
            /\ nodes[k].kind = "Input" => nodes'[k] = nodes[k]
            /\ nodes'[k] = nodes[k] \/ \E c : nodes'[k] = Constant(c)
    BY <2>5, <2>6, <2>7
  <2>9. /\ \A k \in DOMAIN nodes : nodes'[k].kind = "Input" <=> nodes[k].kind = "Input"
        /\ \A k \in DOMAIN nodes : nodes[k].kind = "Input" => nodes'[k].val = nodes[k].val
    BY <1>5, <2>8
  <2> QED
    BY <2>7, <2>9, SameInputs
<1>9. CASE ValueNumbering
  <2>1. nodes' = [k \in DOMAIN nodes |-> MapRefs(nodes[k], FirstEqual(nodes))]
    BY <1>9 DEF ValueNumbering
  <2>2. /\ DOMAIN nodes' = DOMAIN nodes
        /\ \A k \in DOMAIN nodes : nodes'[k].kind = nodes[k].kind /\ nodes'[k].val = nodes[k].val
    BY <2>1, MovedField
  <2> QED
    BY <2>2, SameInputs
<1>10. CASE Constants
  <2>1. nodes' = ConstantsFound(nodes)
    BY <1>10 DEF Constants
  <2>2. /\ DOMAIN nodes' = DOMAIN nodes
        /\ \A k \in DOMAIN nodes :
              \/ nodes'[k] = nodes[k]
              \/ IsConstPoly(RandomEval(nodes)[k]) /\ \E c : nodes'[k] = Constant(c)
    BY <2>1 DEF ConstantsFound
  <2>3. \A k \in DOMAIN nodes : nodes[k].kind = "Input" => ~IsConstPoly(RandomEval(nodes)[k])
    BY <1>3, InputsDraw DEF InputNodes
  <2>4. /\ \A k \in DOMAIN nodes : nodes'[k].kind = "Input" <=> nodes[k].kind = "Input"
        /\ \A k \in DOMAIN nodes : nodes[k].kind = "Input" => nodes'[k].val = nodes[k].val
    BY <1>5, <2>2, <2>3
  <2> QED
    BY <2>2, <2>4, SameInputs
<1>11. CASE Montgomery
  <2>1. nodes' = nodes \/ nodes' = [k \in DOMAIN nodes |-> InMontgomeryForm(nodes[k])]
    BY <1>11 DEF Montgomery
  <2>2. DOMAIN nodes' = DOMAIN nodes
        /\ \A k \in DOMAIN nodes : nodes'[k] = nodes[k] \/ nodes'[k] = InMontgomeryForm(nodes[k])
    BY <2>1
  <2>3. \A n : /\ InMontgomeryForm(n).kind = "Input" <=> n.kind = "Input"
               /\ n.kind = "Input" => InMontgomeryForm(n) = n
    BY <1>5 DEF InMontgomeryForm
  <2>4. /\ \A k \in DOMAIN nodes : nodes'[k].kind = "Input" <=> nodes[k].kind = "Input"
        /\ \A k \in DOMAIN nodes : nodes[k].kind = "Input" => nodes'[k].val = nodes[k].val
    BY <2>2, <2>3
  <2> QED
    BY <2>2, <2>4, SameInputs
<1> QED
  BY <1>6, <1>7, <1>8, <1>9, <1>10, <1>11 DEF Next

\* Whatever graph the builder makes, as long as it has put its inputs next to
\* each other, the buffer calc_witness makes of the optimized graph has a
\* place for every input that is left.
THEOREM InputsStayCovered == Spec => []InputsAreCovered
<1>1. Init => InputsInv
  <2> SUFFICES ASSUME Init PROVE InputsInv
    OBVIOUS
  <2>1. ValidSource(source) /\ nodes = source.nodes
    BY SourcesAssumption DEF Init
  <2> QED
    BY <2>1 DEF ValidSource, InputsInv, Numbered
<1>2. IInv /\ InputsInv => InputsAreCovered
  <2> SUFFICES ASSUME IInv, InputsInv, InputsTogether(source.nodes), NEW k \in InputNodes(nodes)
               PROVE  nodes[k].val < InputsSize(nodes)
    BY DEF InputsAreCovered
  <2>1. /\ IsGraph(nodes) /\ InputNodes(nodes) # {} /\ InputsTogether(nodes)
        /\ \A i \in InputNodes(nodes) : nodes[i].val \in Nat
    BY DEF IInv, TypeOK, InputsInv, Numbered
  <2>2. InputsSize(nodes) \in Nat /\ nodes[k].val \in 0..InputsSize(nodes) - 1
    BY <2>1, BufferSize
  <2> QED
    BY <2>2
<1> QED
  BY <1>1, <1>2, InputsStay, Invariance, PTL DEF Spec
=============================================================================
