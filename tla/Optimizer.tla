------------------------------ MODULE Optimizer ------------------------------
(***************************************************************************)
(* optimize (src/src/graph.rs:358-365): the passes the builder runs on a   *)
(* graph before it is written to disk.                                     *)
(*                                                                         *)
(*   tree_shake, propagate, value_numbering, constants, tree_shake,        *)
(*   montgomery_form                                                       *)
(*                                                                         *)
(* A loop whose iterations depend on each other (the marking loop of       *)
(* tree_shake, the loop of propagate) takes one step per iteration; a loop *)
(* whose iterations do not is one step.                                    *)
(***************************************************************************)
EXTENDS Graph

CONSTANT Sources      \* the graphs to optimize: records [nodes, outputs]

\* The builder refers only to nodes it has pushed (NodeIdx), leaves the
\* Montgomery constants to montgomery_form, and counts the inputs.
ValidSource(s) ==
    /\ IsGraph(s.nodes)
    /\ \A i \in DOMAIN s.nodes : s.nodes[i].kind # "MontConstant"
    /\ \A i \in InputNodes(s.nodes) : s.nodes[i].val \in Nat
    /\ s.outputs \in Seq(Nat)
    /\ Range(s.outputs) \subseteq DOMAIN s.nodes
    /\ BackRefs(s.nodes)

ASSUME SourcesAssumption == \A s \in Sources : ValidSource(s)

VARIABLES source,     \* the graph as the builder made it
          nodes,      \* the graph as it is now
          outputs,    \* the positions of the witness signals in it
          pc,         \* the pass to run next, or where a pass is
          round,      \* which of the two tree_shakes is next
          cursor,     \* loop variable of the pass
          used,       \* the nodes tree_shake has marked
          panic       \* why the builder panicked, or "none"
vars == <<source, nodes, outputs, pc, round, cursor, used, panic>>

Passes == {"shake", "mark", "propagate", "fold", "number", "constants",
           "montgomery", "done", "panicked"}

Init ==
    /\ source \in Sources
    /\ nodes = source.nodes
    /\ outputs = source.outputs
    /\ pc = "shake" /\ round = 1
    /\ cursor = 0 /\ used = {}
    /\ panic = "none"

\* Go on with pass p, or panic where the condition the code checks is false.
GoTo(p, ok, why) ==
    /\ pc' = IF ok THEN p ELSE "panicked"
    /\ panic' = IF ok THEN panic ELSE why

-----------------------------------------------------------------------------
\* tree_shake

\* Check the references and mark the outputs.
Shake ==
    /\ pc = "shake"
    /\ GoTo("mark", BackRefs(nodes) /\ Range(outputs) \subseteq DOMAIN nodes,
            "assert")
    /\ used' = Range(outputs)
    /\ cursor' = Len(nodes)
    /\ UNCHANGED <<source, nodes, outputs, round>>

\* Variants for the mutation runs: only the first reference is followed; the
\* loop goes on below the first node.
MarkFirst ==
    /\ pc = "mark" /\ cursor > 0
    /\ used' = IF cursor \in used /\ nodes[cursor].args # <<>>
               THEN used \cup {nodes[cursor].args[1]} ELSE used
    /\ cursor' = cursor - 1
    /\ UNCHANGED <<source, nodes, outputs, pc, round, panic>>
MarkPastEnd ==
    /\ pc = "mark"
    /\ used' = IF cursor \in used THEN used \cup Refs(nodes[cursor]) ELSE used
    /\ cursor' = cursor - 1
    /\ UNCHANGED <<source, nodes, outputs, pc, round, panic>>

\* Mark what a used node refers to, from the last node to the first.
Mark ==
    /\ pc = "mark" /\ cursor > 0
    /\ used' = IF cursor \in used THEN used \cup Refs(nodes[cursor]) ELSE used
    /\ cursor' = cursor - 1
    /\ UNCHANGED <<source, nodes, outputs, pc, round, panic>>

\* Drop the nodes that are not used and renumber every reference.
Sweep ==
    /\ pc = "mark" /\ cursor = 0
    /\ LET kept == Kept(nodes, used)
           numbered == /\ \A k \in DOMAIN kept : Refs(kept[k]) \subseteq used
                       /\ Range(outputs) \subseteq used
       IN  /\ GoTo(IF round = 1 THEN "propagate" ELSE "montgomery",
                   numbered, "unwrap")
           /\ nodes' = IF numbered
                       THEN [k \in DOMAIN kept |->
                                MapRefs(kept[k], Renumber(used))]
                       ELSE kept
           /\ outputs' = IF numbered
                         THEN [k \in DOMAIN outputs |->
                                  Renumber(used)[outputs[k]]]
                         ELSE outputs
    /\ round' = round + 1
    /\ UNCHANGED <<source, cursor, used>>

-----------------------------------------------------------------------------
\* propagate

Propagate ==
    /\ pc = "propagate"
    /\ GoTo("fold", BackRefs(nodes), "assert")
    /\ cursor' = 1
    /\ UNCHANGED <<source, nodes, outputs, round, used>>

\* The value of an operation on constants.
Fold(n, v) ==
    CASE n.kind = "UnoOp" -> UnoEval(n.op, v[1])
      [] n.kind = "Op" -> Eval(n.op, v[1], v[2])
      [] n.kind = "TresOp" -> TresEval(n.op, v[1], v[2], v[3])

OnConstants(ns, n) == \A a \in Refs(n) : ns[a].kind = "Constant"

\* What comparisons of a node with itself come to.
\* A variant for the mutation runs: < holds of equal operands.
TrueOfEqualsAndLt == {"Eq", "Leq", "Geq", "Lt"}
TrueOfEquals == {"Eq", "Leq", "Geq"}
FalseOfEquals == {"Neq", "Lt", "Gt"}

\* What node n becomes when the nodes before it have been visited.  An
\* operation that panics leaves the node as it is.
Propagated(ns, n) ==
    IF n.args = <<>> THEN n
    ELSE IF OnConstants(ns, n)
         THEN Constant(Fold(n, [k \in DOMAIN n.args |-> ns[n.args[k]].val]))
    ELSE IF n.kind = "Op" /\ n.args[1] = n.args[2]
         THEN CASE n.op \in TrueOfEquals -> Constant(1)
                [] n.op \in FalseOfEquals -> Constant(0)
                [] OTHER -> n
    ELSE n

FoldNode ==
    /\ pc = "fold" /\ cursor <= Len(nodes)
    /\ LET n == Propagated(nodes, nodes[cursor])
       IN  /\ GoTo("fold", n # Constant(Panic), "eval")
           /\ nodes' = IF n # Constant(Panic)
                       THEN [nodes EXCEPT ![cursor] = n] ELSE nodes
    /\ cursor' = cursor + 1
    /\ UNCHANGED <<source, outputs, round, used>>

FoldEnd ==
    /\ pc = "fold" /\ cursor > Len(nodes)
    /\ pc' = "number"
    /\ UNCHANGED <<source, nodes, outputs, round, cursor, used, panic>>

-----------------------------------------------------------------------------
\* value_numbering and constants

\* A variant for the mutation runs: no two nodes are found equal.
FirstEqualSelf(ns) == [i \in DOMAIN ns |-> i]
\* Every reference moves to the first node that drew the same value.
FirstEqual(ns) ==
    LET vs == RandomEval(ns)
    IN  [i \in DOMAIN ns |-> Min({j \in DOMAIN ns : vs[j] = vs[i]})]

ValueNumbering ==
    /\ pc = "number"
    /\ GoTo("constants", BackRefs(nodes), "assert")
    /\ LET first == FirstEqual(nodes)
       IN  /\ nodes' = [k \in DOMAIN nodes |-> MapRefs(nodes[k], first)]
           /\ outputs' = [k \in DOMAIN outputs |-> first[outputs[k]]]
    /\ UNCHANGED <<source, round, cursor, used>>

\* A node that draws the same value twice becomes the constant it drew.
ConstantsFound(ns) ==
    LET vs == RandomEval(ns)
    IN  [k \in DOMAIN ns |->
            IF ns[k].kind # "Constant" /\ IsConstPoly(vs[k])
            THEN Constant(Coef(vs[k], One)) ELSE ns[k]]

\* A variant for the mutation runs: the second tree_shake is left out.
ConstantsLast ==
    /\ pc = "constants"
    /\ GoTo("montgomery", BackRefs(nodes), "assert")
    /\ nodes' = ConstantsFound(nodes)
    /\ UNCHANGED <<source, outputs, round, cursor, used>>
Constants ==
    /\ pc = "constants"
    /\ GoTo("shake", BackRefs(nodes), "assert")
    /\ nodes' = ConstantsFound(nodes)
    /\ UNCHANGED <<source, outputs, round, cursor, used>>

-----------------------------------------------------------------------------
\* montgomery_form

\* The operations that eval_fr does not implement.
\* A variant for the mutation runs: one too many.
NoIdiv == {"Pow", "Id", "Idiv"}
NoFieldVersion == {"Pow", "Id"}

InMontgomeryForm(n) ==
    IF n.kind = "Constant" THEN MontConstant(n.val % M) ELSE n

Montgomery ==
    /\ pc = "montgomery"
    /\ LET known == \A k \in DOMAIN nodes : nodes[k].op \notin NoFieldVersion
       IN  /\ GoTo("done", known, "unimplemented")
           /\ nodes' = IF known
                       THEN [k \in DOMAIN nodes |-> InMontgomeryForm(nodes[k])]
                       ELSE nodes
    /\ UNCHANGED <<source, outputs, round, cursor, used>>

-----------------------------------------------------------------------------
Next == \/ Shake \/ Mark \/ Sweep
        \/ Propagate \/ FoldNode \/ FoldEnd
        \/ ValueNumbering \/ Constants
        \/ Montgomery

Spec == Init /\ [][Next]_vars

-----------------------------------------------------------------------------
\* Nodes are nodes, outputs are positions, and the panic names a check of the
\* passes exactly when the builder has stopped at one.
TypeOK ==
    /\ ValidSource(source)
    /\ IsGraph(nodes)
    /\ outputs \in Seq(Nat)
    /\ pc \in Passes
    /\ round \in 1..3
    /\ cursor \in Nat
    /\ used \subseteq Nat
    /\ panic \in {"none", "assert", "unwrap", "eval", "unimplemented"}
    /\ (panic = "none") = (pc # "panicked")

\* The checks the passes make of their own work never fail: assert_valid, the
\* indexing of `used`, and the unwrap of a renumbered reference.
NoInternalPanic == panic \notin {"assert", "unwrap"}

\* The optimized graph computes the witness the builder's graph computes, on
\* every input that one can be run on: through folding, renumbering, the
\* merging of nodes, dropping and the change of representation.
InputIndexes == {n.val : n \in {k \in Range(source.nodes) : k.kind = "Input"}}
SemanticsPreserved ==
    pc = "done" =>
        \A inputs \in [InputIndexes -> Field] :
            LET before == Evaluate(source.nodes, inputs, source.outputs)
            IN  before # <<Panic>> => Evaluate(nodes, inputs, outputs) = before

\* Every node that is written to disk is an output or is read by another
\* node: the second tree_shake drops all that merging and folding left over.
AllUsed(ns, outs) ==
    \A i \in DOMAIN ns : \/ i \in Range(outs)
                         \/ \E k \in DOMAIN ns : i \in Refs(ns[k])
NothingUnused == pc = "done" => AllUsed(nodes, outputs)

\* No two nodes that draw the same value in random_eval are written to disk:
\* those that are the same polynomial in the inputs and in the results of the
\* other operations, as a + b and b + a are.  Nodes that are equal for other
\* reasons draw differently and stay, as Neg(x) and 0 - x do.
NothingDrawnTwice ==
    pc = "done" =>
        LET vs == RandomEval(nodes)
        IN  \A i, k \in DOMAIN nodes : i # k => vs[i] # vs[k]

\* The buffer calc_witness makes has a place for every input that is left, as
\* long as the builder has put the Input nodes next to each other: no pass
\* moves one behind another node, where get_inputs_size does not look.
InputsAreCovered ==
    pc = "done" /\ InputsTogether(source.nodes) =>
        \A k \in InputNodes(nodes) : nodes[k].val < InputsSize(nodes)

\* montgomery_form refuses only what evaluate would refuse in the builder's
\* own graph: an operation that has no field version.
Unrunnable == \A inputs \in [InputIndexes -> Field] :
                  Evaluate(source.nodes, inputs, source.outputs) = <<Panic>>
RefusedIsUnrunnable == panic = "unimplemented" => Unrunnable

\* The optimizer stops only on graphs that evaluate would stop on.  "Just
\* return 0 here in case of division by zero" (src/src/graph.rs:69-71).
StoppedIsUnrunnable == pc = "panicked" => Unrunnable
=============================================================================
