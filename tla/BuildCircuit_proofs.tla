------------------------- MODULE BuildCircuit_proofs -------------------------
(***************************************************************************)
(* Proofs about NodeMessages and about BuildCircuit, for every set of      *)
(* compiled programs.                                                      *)
(***************************************************************************)
EXTENDS BuildCircuit, Builder_proofs

-----------------------------------------------------------------------------
(***************************************************************************)
(* The optimizer's own copies of the operators on graphs.                  *)
(***************************************************************************)

\* What the instance of the optimizer's module assumes.
LEMMA OptimizerAssumes ==
    /\ \A s \in {} : Opt!ValidSource(s)
    /\ M \in Nat /\ M > 2 /\ LimbBits \in Nat \ {0} /\ Limbs \in Nat \ {0}
    /\ 4 * M < Opt!Word
    /\ \A b \in 1..M - 1 : \E x \in 1..M - 1 : (b * x) % M = 1
    /\ 2^0 = 1 /\ \A n \in 0..Opt!W - 1 : 2^(n + 1) = 2 * 2^n
    /\ Opt!Limb^0 = 1 /\ \A n \in 0..Limbs - 1 : Opt!Limb^(n + 1) = Opt!Limb * Opt!Limb^n
BY FieldAssumption, PowersAssumption DEF Opt!Word, Opt!W, Opt!Limb, Word, W, Limb

\* Graphs are the same on both sides.
LEMMA SameGraphs ==
    \A ns : /\ Opt!IsGraph(ns) <=> IsGraph(ns)
            /\ Opt!BackRefs(ns) <=> BackRefs(ns)
<1>1. \A n : Opt!IsNode(n) <=> IsNode(n)
  BY DEF Opt!IsNode, IsNode, Opt!Node, Node, Opt!Arity, Arity, Opt!Operations, Operations,
         Opt!UnoOps, UnoOps, Opt!DuoOps, DuoOps, Opt!TresOps, TresOps
<1> QED
  BY <1>1 DEF Opt!IsGraph, IsGraph, Opt!BackRefs, BackRefs, Opt!Refs, Refs, Opt!Range, Range

\* The operators on words and on field elements are the same on both sides.
LEMMA SameWords ==
    /\ \A a, b : /\ Opt!BitAnd(a, b) = BitAnd(a, b) /\ Opt!BitOr(a, b) = BitOr(a, b)
                 /\ Opt!BitXor(a, b) = BitXor(a, b)
    /\ \A a, b : Opt!DivMod(a, b) = DivMod(a, b)
<1>1. \A s : Opt!FromBits(s) = FromBits(s)
  BY DEF Opt!FromBits, FromBits, Opt!W, W
<1>2. \A x : Opt!Bits(x) = Bits(x)
  BY DEF Opt!Bits, Bits, Opt!W, W
<1> QED
  BY <1>1, <1>2 DEF Opt!BitAnd, BitAnd, Opt!BitOr, BitOr, Opt!BitXor, BitXor,
                    Opt!DivMod, DivMod, Opt!InvMod, InvMod

\* The shifts, too.
LEMMA SameShifts == \A a, b : Opt!ShlFr(a, b) = ShlFr(a, b) /\ Opt!ShrFr(a, b) = ShrFr(a, b)
<1>1. Opt!ModulusBits = ModulusBits
  BY DEF Opt!ModulusBits, ModulusBits, Opt!W, W
<1>2. \A a, b : Opt!ShlFr(a, b) = ShlFr(a, b)
  BY <1>1 DEF Opt!ShlFr, ShlFr, Opt!Unwrap, Unwrap, Opt!Word, Word, Opt!W, W, Opt!Panic, Panic
<1>3. \A a, b : Opt!ShrFr(a, b) = ShrFr(a, b)
  BY DEF Opt!ShrFr, ShrFr, Opt!LimbOf, LimbOf, Opt!Limb, Limb, Opt!Carried, Carried,
     Opt!Unwrap, Unwrap, Opt!Panic, Panic, Opt!ModulusBits, ModulusBits, Opt!W, W
<1> QED
  BY <1>2, <1>3

\* The comparisons.
LEMMA SameComparisons ==
    \A a, b : /\ Opt!Lt(a, b) = Lt(a, b) /\ Opt!Gt(a, b) = Gt(a, b)
              /\ Opt!Leq(a, b) = Leq(a, b) /\ Opt!Geq(a, b) = Geq(a, b)
BY DEF Opt!Lt, Lt, Opt!Gt, Gt, Opt!Leq, Leq, Opt!Geq, Geq, Opt!Neg, Neg, Opt!HalfM, HalfM

\* Every operation.
LEMMA SameEvalFr ==
    /\ \A op, a, b : Opt!EvalFr(op, a, b) = EvalFr(op, a, b)
    /\ \A op, a : Opt!UnoEvalFr(op, a) = UnoEvalFr(op, a)
    /\ \A op, a, b, c : Opt!TresEvalFr(op, a, b, c) = TresEvalFr(op, a, b, c)
<1>1. \A op, a, b : Opt!EvalFr(op, a, b) = EvalFr(op, a, b)
  BY SameWords, SameShifts, SameComparisons DEF Opt!EvalFr, EvalFr, Opt!Bool, Bool, Opt!UnwrapBits,
    UnwrapBits, Opt!Unwrap, Unwrap, Opt!Panic, Panic
<1>2. \A op, a : Opt!UnoEvalFr(op, a) = UnoEvalFr(op, a)
  BY DEF Opt!UnoEvalFr, UnoEvalFr, Opt!Unwrap, Unwrap, Opt!Panic, Panic
<1>3. \A op, a, b, c : Opt!TresEvalFr(op, a, b, c) = TresEvalFr(op, a, b, c)
  BY DEF Opt!TresEvalFr, TresEvalFr
<1> QED
  BY <1>1, <1>2, <1>3

\* A graph comes to the same values.
LEMMA SameValues == \A ns, inputs, outs : Opt!Evaluate(ns, inputs, outs) = Evaluate(ns, inputs, outs)
<1>1. \A n, vs, inputs : Opt!NodeValue(n, vs, inputs) = NodeValue(n, vs, inputs)
  BY SameEvalFr DEF Opt!NodeValue, NodeValue, Opt!Refs, Refs, Opt!Range, Range, Opt!Panic, Panic
<1>2. \A ns, inputs : Opt!Values(ns, inputs) = Values(ns, inputs)
  BY <1>1 DEF Opt!Values, Values
<1> QED
  BY <1>2 DEF Opt!Evaluate, Evaluate, Opt!Range, Range, Opt!Panic, Panic

\* The optimizer's invariants, and what its nodes keep of the graph it was
\* given.
GraphKept == Opt!MeaningInv /\ Opt!NodesAreTheSources /\ Opt!ElementsInv
PassesInv == Opt!IInv /\ Opt!Storable /\ GraphKept

\* The optimizer's steps keep them here, too.
LEMMA OptimizerKeeps == PassesInv /\ Opt!Next => PassesInv'
<1> SUFFICES ASSUME PassesInv, Opt!Next PROVE PassesInv'
  OBVIOUS
<1>0. Opt!IInv /\ Opt!Storable /\ Opt!MeaningInv /\ Opt!NodesAreTheSources /\ Opt!ElementsInv
  BY DEF PassesInv, GraphKept
<1>1. Opt!IInv'
  BY <1>0, OptimizerAssumes, Opt!NextKeepsIInv
<1>2. Opt!Storable'
  BY <1>0, OptimizerAssumes, Opt!NextKeepsStorable
<1>3. Opt!MeaningInv'
  BY <1>0, <1>1, OptimizerAssumes, Opt!NextKeepsMeaning
<1>4. Opt!NodesAreTheSources'
  BY <1>0, OptimizerAssumes, Opt!NodesStay
<1>5. Opt!ElementsInv'
  <2>1. source' = source
    BY DEF Opt!Next, Opt!Shake, Opt!Mark, Opt!Sweep, Opt!Propagate, Opt!FoldNode, Opt!FoldEnd,
           Opt!ValueNumbering, Opt!Constants, Opt!Montgomery
  <2>2. Opt!IsFieldGraph(nodes) => Opt!IsFieldGraph(nodes')
    BY <1>0, OptimizerAssumes, Opt!ElementsStay
  <2> QED
    BY <1>0, <2>1, <2>2 DEF Opt!ElementsInv
<1> QED
  BY <1>1, <1>2, <1>3, <1>4, <1>5 DEF PassesInv, GraphKept

\* What they depend on.
LEMMA PassesStay ==
    ASSUME UNCHANGED <<source, nodes, outputs>>
    PROVE  /\ GraphKept => GraphKept'
           /\ UNCHANGED <<pass, round, cursor, used, panic>> /\ PassesInv => PassesInv'
<1>1. ASSUME GraphKept PROVE GraphKept'
  <2>1. Opt!MeaningInv'
    BY <1>1 DEF GraphKept, Opt!MeaningInv, Opt!SameMeaning, Opt!InputIndexes
  <2> QED
    BY <1>1, <2>1 DEF GraphKept, Opt!NodesAreTheSources, Opt!ElementsInv
<1>2. ASSUME PassesInv, UNCHANGED <<pass, round, cursor, used, panic>> PROVE PassesInv'
  <2>1. Opt!IInv'
    BY <1>2 DEF PassesInv, Opt!IInv, Opt!TypeOK, Opt!ValidSource, Opt!NoInternalPanic,
                Opt!MarkedSoFar
  <2>2. Opt!Storable'
    BY <1>2 DEF PassesInv, Opt!Storable, Opt!IsWordGraph
  <2> QED
    BY <1>1, <1>2, <2>1, <2>2 DEF PassesInv
<1> QED
  BY <1>1, <1>2

-----------------------------------------------------------------------------
(***************************************************************************)
(* The inductive invariant: the states of a build.                         *)
(***************************************************************************)

\* What main puts into the outputs, and whether all of it has been assigned.
Witness == [k \in DOMAIN program.witness |-> signals[program.witness[k]]]
AllSet == \A k \in DOMAIN program.witness : signals[program.witness[k]] # Unset

NothingSaved == saved = [nodes |-> <<>>, outputs |-> <<>>]
NotOptimized ==
    /\ IInv /\ (pc = "built" => outputs = Witness)
    /\ source = [nodes |-> <<>>, outputs |-> <<>>]
    /\ round = 1 /\ cursor = 0 /\ used = {} /\ NothingSaved

\* Until optimize is called, or until printing the graph has failed.
Waiting == pass = "waiting" /\ panic = "none" /\ NotOptimized
Stopped == pass = "panicked" /\ panic = "print" /\ pc = "built" /\ NotOptimized

\* The optimizer runs on a graph that it can rely on and that the builder has
\* made...
BuildersOwn ==
    /\ program \in Programs
    /\ \A i \in DOMAIN source.nodes : source.nodes[i] \in MadeNodes(program)
Optimizing ==
    /\ pc = "built" /\ AllSet /\ NothingSaved /\ BuildersOwn /\ PassesInv
\* ... or refuses it at once.
Refused ==
    /\ pc = "built" /\ ~AllSet /\ NothingSaved /\ program \in Programs
    /\ \/ pass = "shake" /\ panic = "none"
       \/ pass = "panicked" /\ panic = "assert"
    /\ IsGraph(nodes) /\ BackRefs(nodes) /\ outputs \in Seq(Nat) /\ Unset \in Range(outputs)
    /\ round = 1 /\ cursor \in Nat /\ used \subseteq Nat

\* The messages are those of the optimized graph.
Written ==
    /\ pc = "built" /\ AllSet /\ pass = "saved" /\ panic = "none"
    /\ IsGraph(nodes) /\ BackRefs(nodes) /\ outputs \in Seq(Nat)
    /\ Range(outputs) \subseteq DOMAIN nodes
    /\ \A k \in DOMAIN nodes : /\ nodes[k].kind # "Constant"
                               /\ nodes[k].kind = "MontConstant" => nodes[k].val \in Field
    /\ saved = [nodes |-> [k \in DOMAIN nodes |-> ToMessage(nodes[k])],
                outputs |-> [k \in DOMAIN outputs |-> (outputs[k] - 1) % Indexes]]
    /\ round \in 1..3 /\ cursor \in Nat /\ used \subseteq Nat
    /\ Opt!ValidSource(source) /\ BuildersOwn /\ GraphKept

BuildInv == Waiting \/ Stopped \/ Optimizing \/ Refused \/ Written

\* The builder starts with nothing optimized.
LEMMA InitBuild == BuildInit => BuildInv
<1> SUFFICES ASSUME BuildInit PROVE Waiting
  BY DEF BuildInv
<1>1. IInv /\ pc = "run"
  BY InitKeeps DEF BuildInit, Init
<1> QED
  BY <1>1 DEF BuildInit, Waiting, NotOptimized, NothingSaved

\* The builder's steps, none of which follows the last one.
LEMMA BuilderBuilds ==
    /\ Waiting /\ BuildStep => Waiting'
    /\ BuildStep => pc = "run"
<1>1. BuildStep => pc = "run"
  BY NextRuns DEF BuildStep
<1>2. ASSUME Waiting, BuildStep PROVE Waiting'
  <2>1. IInv'
    BY <1>2, NextKeeps DEF Waiting, NotOptimized, BuildStep
  <2>2. ASSUME pc' = "built" PROVE outputs' = Witness'
    <3>1. LeaveMain
      BY <1>2, <2>2, NextRuns DEF BuildStep
    <3> QED
      BY <3>1 DEF LeaveMain, Witness
  <2>3. UNCHANGED <<source, pass, round, cursor, used, panic, saved>>
    BY <1>2 DEF BuildStep, optimizerVars
  <2> QED
    BY <1>2, <2>1, <2>2, <2>3 DEF Waiting, NotOptimized, NothingSaved
<1> QED
  BY <1>1, <1>2

\* What changes neither the builder's variables nor the optimizer's.
LEMMA NotOptimizedStays ==
    NotOptimized /\ UNCHANGED <<vars, source, round, cursor, used, saved>> => NotOptimized'
<1> SUFFICES ASSUME NotOptimized, UNCHANGED <<vars, source, round, cursor, used, saved>>
             PROVE  NotOptimized'
  OBVIOUS
<1>1. IInv'
  BY NextKeeps DEF NotOptimized
<1>2. UNCHANGED <<program, nodes, signals, outputs, pc>>
  BY DEF vars
<1> QED
  BY <1>1, <1>2 DEF NotOptimized, Witness, NothingSaved

\* Printing panics or goes on.
LEMMA PrintKeeps ==
    ASSUME NEW inputs, PrintUnoptimized(inputs), Waiting PROVE Waiting' \/ Stopped'
<1>1. NotOptimized'
  BY NotOptimizedStays DEF Waiting, PrintUnoptimized
<1>2. \/ pass' = pass /\ panic' = panic
      \/ pass' = "panicked" /\ panic' = "print"
  BY DEF PrintUnoptimized
<1>3. pc' = "built"
  BY DEF PrintUnoptimized, vars
<1> QED
  BY <1>1, <1>2, <1>3 DEF Waiting, Stopped

\* The witness is a list of positions, 0 among them exactly where a signal of
\* it has none.
LEMMA WitnessPositions ==
    ASSUME IInv PROVE  /\ Witness \in Seq(Nat)
                       /\ AllSet => Range(Witness) \subseteq DOMAIN nodes
                       /\ ~AllSet => Unset \in Range(Witness)
<1>1. IsProgram(program, Instructions)
  BY Compiled DEF IInv
<1>2. program.witness \in Seq(Nat)
      /\ \A k \in DOMAIN program.witness : program.witness[k] \in 0..program.signals - 1
  BY <1>1 DEF IsProgram
<1>3. Len(nodes) \in Nat /\ DOMAIN nodes = 1..Len(nodes)
  BY MadeGraph DEF IInv
<1>4. \A k \in DOMAIN program.witness : signals[program.witness[k]] \in 0..Len(nodes)
  BY <1>2 DEF IInv
<1>5. DOMAIN program.witness = 1..Len(program.witness) /\ Len(program.witness) \in Nat
  BY <1>2, LenProperties
<1>6. Witness \in [1..Len(program.witness) -> Nat]
  BY <1>3, <1>4, <1>5 DEF Witness
<1>7. Witness \in Seq(Nat)
  BY <1>5, <1>6
<1>8. AllSet => Range(Witness) \subseteq DOMAIN nodes
  <2>1. SUFFICES ASSUME AllSet, NEW k \in DOMAIN program.witness
                 PROVE  signals[program.witness[k]] \in DOMAIN nodes
    BY DEF Witness, Range
  <2>2. signals[program.witness[k]] # 0
    BY <2>1 DEF AllSet, Unset
  <2> QED
    BY <1>3, <1>4, <2>2
<1>9. ~AllSet => Unset \in Range(Witness)
  BY DEF AllSet, Witness, Range
<1> QED
  BY <1>7, <1>8, <1>9

\* What the builder's nodes hold.
LEMMA HeldByNodes ==
    ASSUME NEW n \in MadeNodes(program)
    PROVE  /\ n.kind = "Input" => n.val \in Nat /\ n.val <= Len(InputSignals(program))
           /\ n.kind = "Constant" => n.val \in Words
           /\ n.kind \in {"UnoOp", "Op", "TresOp"} => n.val = 0
BY DEF MadeNodes, Made, InputNode, Constant, UnoOp, Op, TresOp, Node

\* optimize is called on a graph that its passes can rely on, if all signals of
\* the witness have been assigned to.
LEMMA StartKeeps == ASSUME Waiting, StartOptimize PROVE Optimizing' \/ Refused'
<1>1. IInv /\ outputs = Witness /\ pc = "built" /\ round = 1 /\ cursor = 0 /\ used = {}
      /\ panic = "none" /\ NothingSaved
  BY DEF Waiting, NotOptimized, StartOptimize
<1>2. /\ UNCHANGED <<program, nodes, signals, outputs, pc, round, cursor, used, panic, saved>>
      /\ source' = [nodes |-> nodes, outputs |-> outputs] /\ pass' = "shake"
  BY DEF StartOptimize, vars
<1>3. /\ IsGraph(nodes) /\ BackRefs(nodes)
      /\ \A i \in DOMAIN nodes : nodes[i].kind # "MontConstant" /\ nodes[i] \in MadeNodes(program)
      /\ \A i \in DOMAIN nodes : nodes[i].val \in Nat
      /\ \A i \in DOMAIN nodes : nodes[i].kind = "Constant" => nodes[i].val \in Words
  <2>1. Len(nodes) \in Nat /\ DOMAIN nodes = 1..Len(nodes) /\ GraphOK(nodes, program)
    BY <1>1, MadeGraph DEF IInv
  <2>2. \A i \in 1..Len(nodes) : i - 1 \in Nat /\ nodes[i] \in Made(i - 1, program)
    BY <2>1 DEF GraphOK
  <2>3. \A i \in 1..Len(nodes) : /\ nodes[i].kind # "MontConstant" /\ nodes[i].val \in Nat
                                 /\ nodes[i] \in MadeNodes(program)
    BY <2>2, MadeIsNode DEF MadeNodes
  <2>4. \A n \in MadeNodes(program) : n.kind = "Constant" => n.val \in Words
    BY HeldByNodes
  <2>5. IsGraph(nodes) /\ BackRefs(nodes)
    BY <2>1, MadeGraph
  <2> QED
    BY <2>1, <2>3, <2>4, <2>5
<1>4. /\ outputs \in Seq(Nat)
      /\ AllSet => Range(outputs) \subseteq DOMAIN nodes
      /\ ~AllSet => Unset \in Range(outputs)
  BY <1>1, WitnessPositions
<1>5. AllSet' = AllSet /\ NothingSaved'
  BY <1>1, <1>2 DEF AllSet, NothingSaved
<1>6. CASE AllSet
  <2>1. Opt!ValidSource(source')
    <3>1. \A i \in Opt!InputNodes(nodes) : nodes[i].val \in Nat
      BY <1>3 DEF Opt!InputNodes
    <3>2. source'.nodes = nodes /\ source'.outputs = outputs
      BY <1>2
    <3>3. Opt!IsGraph(nodes) /\ Opt!BackRefs(nodes)
      BY <1>3, SameGraphs
    <3> QED
      BY <1>3, <1>4, <1>6, <3>1, <3>2, <3>3 DEF Opt!ValidSource, Opt!Range, Range
  <2>2. Opt!IInv'
    <3>1. Opt!TypeOK'
      BY <1>1, <1>2, <1>3, <1>4, <2>1, SameGraphs DEF Opt!TypeOK, Opt!Passes
    <3> QED
      BY <1>1, <1>2, <1>3, <1>4, <1>6, <3>1, SameGraphs
         DEF Opt!IInv, Opt!NoInternalPanic, Opt!Range, Range
  <2>3. Opt!Storable'
    BY <1>2, <1>3 DEF Opt!Storable, Opt!IsWordGraph, Opt!IsWordNode, Opt!Words, Words, Opt!Word,
                      Word, Opt!W, W
  <2>4. GraphKept'
    <3>1. Opt!MeaningInv'
      BY <1>2 DEF Opt!MeaningInv, Opt!SameMeaning
    <3>2. Opt!NodesAreTheSources'
      BY <1>2 DEF Opt!NodesAreTheSources, Opt!MadeOf, Opt!Like
    <3> QED
      BY <1>2, <3>1, <3>2 DEF GraphKept, Opt!ElementsInv
  <2>5. BuildersOwn'
    BY <1>1, <1>2, <1>3 DEF BuildersOwn, IInv
  <2> QED
    BY <1>1, <1>2, <1>5, <1>6, <2>2, <2>3, <2>4, <2>5 DEF Optimizing, PassesInv
<1>7. CASE ~AllSet
  BY <1>1, <1>2, <1>3, <1>4, <1>5, <1>7 DEF Refused, IInv
<1> QED
  BY <1>6, <1>7

\* No pass runs before optimize is called or after it has returned.
LEMMA PassesRun == Opt!Next => pass \notin {"waiting", "panicked", "saved"}
BY DEF Opt!Next, Opt!Shake, Opt!Mark, Opt!Sweep, Opt!Propagate, Opt!FoldNode, Opt!FoldEnd,
       Opt!ValueNumbering, Opt!Constants, Opt!Montgomery

\* Only the first assertion of the first pass is made of a graph that was
\* refused.
LEMMA OptimizeKeeps ==
    /\ Optimizing /\ OptimizeStep => Optimizing'
    /\ Refused /\ OptimizeStep => Refused'
<1>1. ASSUME OptimizeStep PROVE AllSet' = AllSet /\ NothingSaved' = NothingSaved /\ pc' = pc
  BY <1>1 DEF OptimizeStep, AllSet, NothingSaved
<1>2. ASSUME Optimizing, OptimizeStep PROVE Optimizing'
  <2>1. source' = source /\ program' = program
    BY <1>2 DEF OptimizeStep, Opt!Next, Opt!Shake, Opt!Mark, Opt!Sweep, Opt!Propagate,
       Opt!FoldNode, Opt!FoldEnd, Opt!ValueNumbering, Opt!Constants, Opt!Montgomery
  <2>2. BuildersOwn'
    BY <1>2, <2>1 DEF Optimizing, BuildersOwn
  <2> QED
    BY <1>1, <1>2, <2>2, OptimizerKeeps DEF Optimizing, OptimizeStep
<1>3. ASSUME Refused, OptimizeStep PROVE Refused'
  <2>1. pass = "shake" /\ panic = "none" /\ Opt!Next
    BY <1>3, PassesRun DEF Refused, OptimizeStep
  <2>2. Opt!Shake
    BY <2>1 DEF Opt!Next, Opt!Shake, Opt!Mark, Opt!Sweep, Opt!Propagate, Opt!FoldNode,
                Opt!FoldEnd, Opt!ValueNumbering, Opt!Constants, Opt!Montgomery
  <2>3. Len(nodes) \in Nat /\ DOMAIN nodes = 1..Len(nodes)
    BY <1>3, GraphShape DEF Refused
  <2>4. ~(Opt!Range(outputs) \subseteq DOMAIN nodes)
    BY <1>3, <2>3 DEF Refused, Unset, Opt!Range, Range
  <2>5. /\ pass' = "panicked" /\ panic' = "assert"
        /\ used' = Opt!Range(outputs) /\ cursor' = Len(nodes)
        /\ UNCHANGED <<source, nodes, outputs, round>>
    BY <2>2, <2>4 DEF Opt!Shake, Opt!GoTo
  <2> QED
    <3>1. used' \subseteq Nat /\ cursor' \in Nat
      <4>1. outputs \in Seq(Nat)
        BY <1>3 DEF Refused
      <4>2. Opt!Range(outputs) \subseteq Nat
        BY <4>1, RangeOfSeq DEF Opt!Range, Range
      <4> QED
        BY <2>3, <2>5, <4>2
    <3>2. /\ IsGraph(nodes') /\ BackRefs(nodes') /\ round' = 1
          /\ outputs' \in Seq(Nat) /\ Unset \in Range(outputs')
      BY <1>3, <2>5 DEF Refused
    <3>3. pc' = "built" /\ ~AllSet' /\ NothingSaved' /\ program' \in Programs
      BY <1>1, <1>3 DEF Refused, OptimizeStep
    <3> QED
      BY <2>5, <3>1, <3>2, <3>3 DEF Refused
<1> QED
  BY <1>2, <1>3

\* Every node that is left can be written.
LEMMA SerializeKeeps == ASSUME Optimizing, Serialize PROVE Written'
<1>1. /\ pass = "done" /\ pc = "built" /\ AllSet
      /\ Opt!IInv /\ Opt!Storable /\ GraphKept /\ BuildersOwn
  BY DEF Optimizing, Serialize, PassesInv
<1>2. /\ Opt!ValidSource(source) /\ IsGraph(nodes) /\ BackRefs(nodes) /\ outputs \in Seq(Nat)
      /\ Range(outputs) \subseteq DOMAIN nodes /\ panic = "none"
      /\ round \in 1..3 /\ cursor \in Nat /\ used \subseteq Nat
  BY <1>1, SameGraphs DEF Opt!IInv, Opt!TypeOK, Opt!Range, Range
<1>3. \A k \in DOMAIN nodes : /\ nodes[k].kind # "Constant"
                              /\ nodes[k].kind = "MontConstant" => nodes[k].val \in Field
  BY <1>1 DEF Opt!Storable, Opt!IsWordGraph, Opt!IsWordNode, Opt!Field, Field
<1>4. /\ saved' = [nodes |-> [k \in DOMAIN nodes |-> ToMessage(nodes[k])],
                   outputs |-> [k \in DOMAIN outputs |-> (outputs[k] - 1) % Indexes]]
      /\ pass' = "saved" /\ panic' = panic
      /\ UNCHANGED <<program, nodes, signals, outputs, pc, source, round, cursor, used>>
  BY <1>3 DEF Serialize, Writable, vars
<1>5. AllSet' /\ Opt!ValidSource(source') /\ BuildersOwn' /\ GraphKept'
  <2>1. GraphKept'
    BY <1>1, <1>4, PassesStay
  <2> QED
    BY <1>1, <1>2, <1>4, <2>1 DEF AllSet, BuildersOwn
<1> QED
  BY <1>1, <1>2, <1>3, <1>4, <1>5 DEF Written

\* No step is taken but in these states.
LEMMA NextBuilds == BuildInv /\ [BuildNext]_buildVars => BuildInv'
<1>1. ASSUME BuildInv, BuildStep PROVE BuildInv'
  <2>1. Waiting
    BY <1>1, BuilderBuilds DEF BuildInv, Stopped, Optimizing, Refused, Written
  <2> QED
    BY <1>1, <2>1, BuilderBuilds DEF BuildInv
<1>2. ASSUME BuildInv, NEW inputs, PrintUnoptimized(inputs) PROVE BuildInv'
  <2>1. Waiting
    <3>1. pass = "waiting"
      BY <1>2 DEF PrintUnoptimized
    <3> QED
      BY <1>2, <3>1 DEF BuildInv, Stopped, Optimizing, Refused, Written, PassesInv, Opt!IInv,
                        Opt!TypeOK, Opt!Passes
  <2> QED
    BY <1>2, <2>1, PrintKeeps DEF BuildInv
<1>3. ASSUME BuildInv, StartOptimize PROVE BuildInv'
  <2>1. Waiting
    <3>1. pass = "waiting"
      BY <1>3 DEF StartOptimize
    <3> QED
      BY <1>3, <3>1 DEF BuildInv, Stopped, Optimizing, Refused, Written, PassesInv, Opt!IInv,
                        Opt!TypeOK, Opt!Passes
  <2> QED
    BY <1>3, <2>1, StartKeeps DEF BuildInv
<1>4. ASSUME BuildInv, OptimizeStep PROVE BuildInv'
  <2>1. Optimizing \/ Refused
    <3>1. pass \notin {"waiting", "panicked", "saved"}
      BY <1>4, PassesRun DEF OptimizeStep
    <3> QED
      BY <1>4, <3>1 DEF BuildInv, Waiting, Stopped, Written
  <2> QED
    BY <1>4, <2>1, OptimizeKeeps DEF BuildInv
<1>5. ASSUME BuildInv, Serialize PROVE BuildInv'
  <2>1. Optimizing
    BY <1>5 DEF BuildInv, Serialize, Waiting, Stopped, Refused, Written
  <2> QED
    BY <1>5, <2>1, SerializeKeeps DEF BuildInv
<1>6. ASSUME BuildInv, UNCHANGED buildVars PROVE BuildInv'
  <2>1. /\ UNCHANGED <<vars, source, pass, round, cursor, used, panic, saved>>
        /\ UNCHANGED <<program, nodes, signals, outputs, pc>>
    BY <1>6 DEF buildVars, vars, optimizerVars
  <2>2. AllSet' = AllSet /\ NothingSaved' = NothingSaved /\ BuildersOwn' = BuildersOwn
    BY <2>1 DEF AllSet, NothingSaved, BuildersOwn
  <2>3. CASE Waiting \/ Stopped
    BY <2>1, <2>3, NotOptimizedStays DEF BuildInv, Waiting, Stopped
  <2>4. CASE Optimizing
    <3>1. PassesInv'
      BY <2>1, <2>4, PassesStay DEF Optimizing
    <3> QED
      BY <2>1, <2>2, <2>4, <3>1 DEF Optimizing, BuildInv
  <2>5. CASE Refused
    BY <2>1, <2>2, <2>5 DEF Refused, BuildInv
  <2>6. CASE Written
    <3>1. GraphKept' /\ Opt!ValidSource(source')
      BY <2>1, <2>6, PassesStay DEF Written
    <3> QED
      BY <2>1, <2>2, <2>6, <3>1 DEF Written, BuildInv
  <2> QED
    BY <1>6, <2>3, <2>4, <2>5, <2>6 DEF BuildInv
<1> QED
  BY <1>1, <1>2, <1>3, <1>4, <1>5, <1>6 DEF BuildNext

\* Every state of a build is one of these.
LEMMA BuildInvariance == BuildSpec => []BuildInv
  BY InitBuild, NextBuilds, PTL DEF BuildSpec

-----------------------------------------------------------------------------
\* What optimize is given is what its passes rely on, whatever program was
\* compiled: none of their internal checks fails, but for the first one, and
\* that only if a signal of the witness was never assigned to.
THEOREM OnlyUnsetSignalsStop == BuildSpec => []OnlyUnsetSignalsStopOptimize
<1>1. BuildInv => OnlyUnsetSignalsStopOptimize
  <2>1. Optimizing => panic \notin {"assert", "unwrap"}
    BY DEF Optimizing, PassesInv, Opt!IInv, Opt!NoInternalPanic
  <2> QED
    BY <2>1 DEF BuildInv, Waiting, Stopped, Refused, Written, AllSet, OnlyUnsetSignalsStopOptimize
<1> QED
  BY <1>1, BuildInvariance, PTL

-----------------------------------------------------------------------------
(***************************************************************************)
(* The graph as -print-unoptimized evaluates it.                           *)
(***************************************************************************)

\* What a node comes to on words depends on what the nodes it refers to have
\* come to.
LEMMA WordOfDepends ==
    ASSUME NEW n, IsNode(n), n.kind # "MontConstant", NEW vs, NEW ws, NEW inputs,
           \A a \in Refs(n) : vs[a] = ws[a]
    PROVE  WordOf(n, vs, inputs) = WordOf(n, ws, inputs)
<1>1. \A k \in 1..Arity[n.kind] : n.args[k] \in Refs(n)
  BY DEF IsNode, Refs, Range
<1>2. \A k \in 1..Arity[n.kind] : vs[n.args[k]] = ws[n.args[k]]
  BY <1>1
<1>3. n.kind \in {"Input", "Constant", "MontConstant", "UnoOp", "Op", "TresOp"}
  BY DEF IsNode, Arity
<1>4. CASE n.kind = "UnoOp"
  <2>1. vs[n.args[1]] = ws[n.args[1]]
    BY <1>2, <1>4 DEF Arity
  <2> QED
    BY <1>4, <2>1 DEF WordOf
<1>5. CASE n.kind = "Op"
  <2>1. vs[n.args[1]] = ws[n.args[1]] /\ vs[n.args[2]] = ws[n.args[2]]
    BY <1>2, <1>5 DEF Arity
  <2> QED
    BY <1>5, <2>1 DEF WordOf
<1>6. CASE n.kind = "TresOp"
  <2>1. /\ vs[n.args[1]] = ws[n.args[1]] /\ vs[n.args[2]] = ws[n.args[2]]
        /\ vs[n.args[3]] = ws[n.args[3]]
    BY <1>2, <1>6 DEF Arity
  <2> QED
    BY <1>6, <2>1 DEF WordOf
<1>7. CASE n.kind \notin {"UnoOp", "Op", "TresOp"}
  BY <1>3, <1>7 DEF WordOf
<1> QED
  BY <1>4, <1>5, <1>6, <1>7

\* evaluate_unoptimized gives each node the word of its operation on the words
\* of the nodes it refers to.
LEMMA UnoptimizedFound ==
    ASSUME IsGraph(nodes), BackRefs(nodes), NEW inputs,
           \A i \in DOMAIN nodes : nodes[i].kind # "MontConstant"
    PROVE  LET vs == Unoptimized(inputs)
           IN  /\ vs \in Seq(Range(vs)) /\ DOMAIN vs = DOMAIN nodes
               /\ \A i \in DOMAIN nodes : vs[i] = WordOf(nodes[i], vs, inputs)
<1> DEFINE N == Len(nodes)
           IsUpTo(f, n) ==
               f = [i \in 0..n |-> IF i = 0 THEN <<>>
                                   ELSE Append(f[i - 1], WordOf(nodes[i], f[i - 1], inputs))]
           upTo == CHOOSE f : IsUpTo(f, N)
           T == {n \in 0..N : \E f : IsUpTo(f, n)}
<1>1. N \in Nat /\ DOMAIN nodes = 1..N /\ \A i \in 1..N : IsNode(nodes[i])
  BY GraphShape
<1>2. Unoptimized(inputs) = upTo[N]
  BY DEF Unoptimized
<1>3. 0 \in T
  <2>1. IsUpTo([i \in 0..0 |-> <<>>], 0)
    OBVIOUS
  <2> HIDE DEF IsUpTo
  <2> QED
    BY <1>1, <2>1
<1>4. ASSUME NEW n \in 0..N - 1, n \in T PROVE n + 1 \in T
  <2>1. PICK f : IsUpTo(f, n)
    BY <1>4
  <2> DEFINE g == [i \in 0..n + 1 |->
                      IF i <= n THEN f[i] ELSE Append(f[n], WordOf(nodes[n + 1], f[n], inputs))]
  <2>2. \A i \in 0..n : g[i] = f[i]
    BY <1>1
  <2>3. g[n + 1] = Append(f[n], WordOf(nodes[n + 1], f[n], inputs))
    BY <1>1
  <2>4. ASSUME NEW i \in 0..n + 1
        PROVE  g[i] = IF i = 0 THEN <<>>
                      ELSE Append(g[i - 1], WordOf(nodes[i], g[i - 1], inputs))
    <3> HIDE DEF g
    <3>1. CASE i = n + 1
      <4>1. n + 1 # 0 /\ (n + 1) - 1 = n /\ n \in 0..n
        BY <1>1
      <4> QED
        BY <2>2, <2>3, <3>1, <4>1
    <3>2. CASE i = 0
      BY <1>1, <2>1, <2>2, <3>2
    <3>3. CASE i \in 1..n
      <4>1. i \in 0..n /\ i - 1 \in 0..n /\ i # 0
        BY <1>1, <3>3
      <4>2. f[i] = Append(f[i - 1], WordOf(nodes[i], f[i - 1], inputs))
        BY <2>1, <4>1
      <4> QED
        BY <2>2, <4>1, <4>2
    <3> QED
      BY <1>1, <3>1, <3>2, <3>3
  <2>5. IsUpTo(g, n + 1)
    <3>1. g = [i \in 0..n + 1 |-> g[i]]
      OBVIOUS
    <3> HIDE DEF g
    <3> QED
      BY <2>4, <3>1
  <2>6. n + 1 \in 0..N
    BY <1>1
  <2> HIDE DEF g, IsUpTo
  <2> QED
    BY <2>5, <2>6
<1>5. \A n \in 0..N : n \in T
  <2> HIDE DEF T
  <2> QED
    BY <1>1, <1>3, <1>4, Induction
<1>6. IsUpTo(upTo, N)
  <2>1. \E f : IsUpTo(f, N)
    <3> HIDE DEF IsUpTo
    <3>2. N \in 0..N
      BY <1>1
    <3>1. N \in T
      BY <1>5, <3>2
    <3> QED
      BY <3>1
  <2> QED
    BY <2>1
<1> HIDE DEF upTo
<1> DEFINE e == [i \in 1..N |-> WordOf(nodes[i], upTo[i - 1], inputs)]
<1>7. upTo[0] = <<>> /\ \A i \in 1..N : upTo[i] = Append(upTo[i - 1], e[i])
  <2>1. 0 \in 0..N /\ \A i \in 1..N : i \in 0..N /\ i # 0
    BY <1>1
  <2> QED
    BY <1>6, <2>1
<1>8. DOMAIN e = 1..N
  OBVIOUS
<1>9. \A i \in 1..N : e[i] = WordOf(nodes[i], upTo[i - 1], inputs)
  OBVIOUS
<1> HIDE DEF e, IsUpTo, N
<1>10. \A i \in 0..N : StartsAs(upTo[i], e, i)
  <2>1. upTo[0] = <<>>
    BY <1>7
  <2>2. \A i \in 1..N : upTo[i] = Append(upTo[i - 1], e[i])
    BY <1>7
  <2> QED
    BY <1>1, <1>8, <2>1, <2>2, AppendedOneByOne
<1> DEFINE vs == upTo[N]
<1>11. vs \in Seq(Range(e)) /\ Len(vs) = N /\ \A k \in 1..N : vs[k] = e[k]
  BY <1>1, <1>10 DEF StartsAs
<1>12. ASSUME NEW i \in 1..N PROVE vs[i] = WordOf(nodes[i], vs, inputs)
  <2>1. i - 1 \in 0..N /\ \A a \in 1..i - 1 : a \in 1..N
    BY <1>1
  <2>2. \A a \in Refs(nodes[i]) : a \in 1..i - 1
    BY <1>1 DEF BackRefs
  <2>3. \A a \in Refs(nodes[i]) : upTo[i - 1][a] = e[a] /\ vs[a] = e[a]
    BY <1>10, <1>11, <2>1, <2>2 DEF StartsAs
  <2>4. \A a \in Refs(nodes[i]) : upTo[i - 1][a] = vs[a]
    BY <2>3
  <2> HIDE DEF vs
  <2>5. WordOf(nodes[i], upTo[i - 1], inputs) = WordOf(nodes[i], vs, inputs)
    BY <1>1, <2>4, WordOfDepends
  <2> QED
    BY <1>9, <1>11, <2>5
<1> HIDE DEF vs
<1>13. vs \in Seq(Range(vs)) /\ DOMAIN vs = 1..N
  <2>1. vs \in [1..N -> Range(e)]
    BY <1>11
  <2>2. vs \in [1..N -> Range(vs)]
    BY <2>1 DEF Range
  <2> QED
    BY <1>1, <2>1, <2>2
<1>14. Unoptimized(inputs) = vs
  BY <1>2 DEF vs
<1> QED
  BY <1>1, <1>12, <1>13, <1>14

-----------------------------------------------------------------------------
(***************************************************************************)
(* A graph that is written comes back as it was, provided that a message   *)
(* can tell its positions apart.                                           *)
(***************************************************************************)

\* The nodes whose kind and operation go together, as the types of Rust have
\* it, except those that cannot be written.
WellFormed(n) ==
    \/ \E i \in Nat : n = InputNode(i)
    \/ \E c \in Field : n = MontConstant(c)
    \/ \E op \in UnoOps, a \in Nat : n = UnoOp(op, a)
    \/ \E op \in DuoOps, a, b \in Nat : n = Op(op, a, b)
    \/ \E op \in TresOps, a, b, c \in Nat : n = TresOp(op, a, b, c)

\* Each table of numbers is undone by the other, for every operation.
LEMMA DuoNumbers ==
    \A op \in DuoOps : DuoNumber[op] \in 0..19 /\ DuoOfNumber[DuoNumber[op] + 1] = op
BY DEF DuoOps, DuoNumber, DuoOfNumber

\* The numbers of the operations on one operand.
LEMMA UnoNumbers ==
    \A op \in UnoOps : UnoNumber[op] \in 0..1 /\ UnoOfNumber[UnoNumber[op] + 1] = op
BY DEF UnoOps, UnoNumber, UnoOfNumber

\* The number of the operation on three operands.
LEMMA TresNumbers ==
    \A op \in TresOps : TresNumber[op] = 0 /\ TresOfNumber[TresNumber[op] + 1] = op
BY DEF TresOps, TresNumber, TresOfNumber

\* A position that fits comes back, counted from 1 or from 0.
LEMMA PositionsComeBack ==
    /\ \A i \in 0..Indexes - 1 : i % Indexes = i
    /\ \A a \in 1..Indexes : ((a - 1) % Indexes) + 1 = a
<1>1. Indexes \in Nat \ {0}
  BY IndexesAssumption
<1>2. \A i \in 0..Indexes - 1 : i % Indexes = i
  BY <1>1
<1>3. ASSUME NEW a \in 1..Indexes PROVE ((a - 1) % Indexes) + 1 = a
  <2>1. a - 1 \in 0..Indexes - 1
    BY <1>1
  <2>2. (a - 1) % Indexes = a - 1
    BY <1>2, <2>1
  <2> QED
    BY <1>1, <2>2
<1> QED
  BY <1>2, <1>3

\* The references of an operation come back.
LEMMA ReferencesComeBack ==
    ASSUME NEW m \in Nat, NEW args \in [1..m -> 1..Indexes]
    PROVE  LET at == [k \in DOMAIN args |-> (args[k] - 1) % Indexes]
           IN  [k \in DOMAIN at |-> at[k] + 1] = args
BY PositionsComeBack

\* A node that is written comes back as it was: From<proto::Node> undoes
\* From<&Node> (src/src/storage.rs:20-83).
THEOREM NodeComesBack ==
    ASSUME NEW n, WellFormed(n), Refs(n) \subseteq 1..Indexes,
           n.kind = "Input" => n.val \in 0..Indexes - 1
    PROVE  Writable(n) /\ FromMessage(ToMessage(n)) = n
<1>1. CASE \E i \in Nat : n = InputNode(i)
  <2>1. PICK i \in Nat : n = InputNode(i)
    BY <1>1
  <2>2. n.kind = "Input" /\ n.val = i /\ i % Indexes = i
    BY <2>1, PositionsComeBack DEF InputNode, Node
  <2>3. ToMessage(n) = Message("input", 0, <<>>, i)
    BY <2>2 DEF ToMessage
  <2>4. FromMessage(ToMessage(n)) = InputNode(i)
    BY <2>3 DEF FromMessage, ArgsIn, Message
  <2> QED
    BY <2>1, <2>2, <2>4 DEF Writable
<1>2. CASE \E c \in Field : n = MontConstant(c)
  <2>1. PICK c \in Field : n = MontConstant(c)
    BY <1>2
  <2>2. n.kind = "MontConstant" /\ n.val = c
    BY <2>1 DEF MontConstant, Node
  <2>3. c % M = c
    BY FieldAssumption DEF Field
  <2>4. ToMessage(n) = Message("constant", 0, <<>>, c)
    BY <2>2 DEF ToMessage
  <2>5. FromMessage(ToMessage(n)) = MontConstant(c)
    BY <2>3, <2>4 DEF FromMessage, ArgsIn, Message
  <2> QED
    BY <2>1, <2>2, <2>5 DEF Writable
<1>3. CASE \E op \in UnoOps, a \in Nat : n = UnoOp(op, a)
  <2>1. PICK op \in UnoOps, a \in Nat : n = UnoOp(op, a)
    BY <1>3
  <2> DEFINE at == [k \in DOMAIN n.args |-> (n.args[k] - 1) % Indexes]
  <2>2. n.kind = "UnoOp" /\ n.op = op /\ n.args = <<a>>
    BY <2>1 DEF UnoOp, Node
  <2>3. [k \in DOMAIN at |-> at[k] + 1] = <<a>>
    <3>1. n.args \in [1..1 -> 1..Indexes]
      BY <2>2 DEF Refs, Range
    <3> QED
      BY <2>2, <3>1, ReferencesComeBack
  <2>4. ToMessage(n) = Message("unoOp", UnoNumber[op], at, 0)
    BY <2>2 DEF ToMessage
  <2> HIDE DEF at
  <2>5. FromMessage(ToMessage(n)) = Node("UnoOp", op, 0, <<a>>)
    BY <2>3, <2>4, UnoNumbers DEF FromMessage, ArgsIn, Message
  <2> QED
    BY <2>1, <2>2, <2>5 DEF UnoOp, Writable
<1>4. CASE \E op \in DuoOps, a, b \in Nat : n = Op(op, a, b)
  <2>1. PICK op \in DuoOps, a \in Nat, b \in Nat : n = Op(op, a, b)
    BY <1>4
  <2> DEFINE at == [k \in DOMAIN n.args |-> (n.args[k] - 1) % Indexes]
  <2>2. n.kind = "Op" /\ n.op = op /\ n.args = <<a, b>>
    BY <2>1 DEF Op, Node
  <2>3. [k \in DOMAIN at |-> at[k] + 1] = <<a, b>>
    <3>1. n.args \in [1..2 -> 1..Indexes]
      BY <2>2 DEF Refs, Range
    <3> QED
      BY <2>2, <3>1, ReferencesComeBack
  <2>4. ToMessage(n) = Message("duoOp", DuoNumber[op], at, 0)
    BY <2>2 DEF ToMessage
  <2> HIDE DEF at
  <2>5. FromMessage(ToMessage(n)) = Node("Op", op, 0, <<a, b>>)
    BY <2>3, <2>4, DuoNumbers DEF FromMessage, ArgsIn, Message
  <2> QED
    BY <2>1, <2>2, <2>5 DEF Op, Writable
<1>5. CASE \E op \in TresOps, a, b, c \in Nat : n = TresOp(op, a, b, c)
  <2>1. PICK op \in TresOps, a \in Nat, b \in Nat, c \in Nat : n = TresOp(op, a, b, c)
    BY <1>5
  <2> DEFINE at == [k \in DOMAIN n.args |-> (n.args[k] - 1) % Indexes]
  <2>2. n.kind = "TresOp" /\ n.op = op /\ n.args = <<a, b, c>>
    BY <2>1 DEF TresOp, Node
  <2>3. [k \in DOMAIN at |-> at[k] + 1] = <<a, b, c>>
    <3>1. n.args \in [1..3 -> 1..Indexes]
      BY <2>2 DEF Refs, Range
    <3> QED
      BY <2>2, <3>1, ReferencesComeBack
  <2>4. ToMessage(n) = Message("tresOp", TresNumber[op], at, 0)
    BY <2>2 DEF ToMessage
  <2> HIDE DEF at
  <2>5. FromMessage(ToMessage(n)) = Node("TresOp", op, 0, <<a, b, c>>)
    BY <2>3, <2>4, TresNumbers DEF FromMessage, ArgsIn, Message
  <2> QED
    BY <2>1, <2>2, <2>5 DEF TresOp, Writable
<1> QED
  BY <1>1, <1>2, <1>3, <1>4, <1>5 DEF WellFormed

\* So does each node of a graph with backward references that is no longer
\* than the positions a message can tell apart.
THEOREM GraphComesBack ==
    ASSUME NEW ns, IsGraph(ns), BackRefs(ns), Len(ns) <= Indexes,
           \A k \in DOMAIN ns :
               /\ WellFormed(ns[k])
               /\ ns[k].kind = "Input" => ns[k].val \in 0..Indexes - 1
    PROVE  \A k \in DOMAIN ns : FromMessage(ToMessage(ns[k])) = ns[k]
<1>1. ns \in Seq(Range(ns)) /\ Indexes \in Nat
  BY IndexesAssumption DEF IsGraph
<1>2. Len(ns) \in Nat /\ DOMAIN ns = 1..Len(ns)
  BY <1>1
<1> SUFFICES ASSUME NEW k \in DOMAIN ns
             PROVE  FromMessage(ToMessage(ns[k])) = ns[k]
  OBVIOUS
<1>3. 1..k - 1 \subseteq 1..Indexes
  BY <1>1, <1>2
<1>4. Refs(ns[k]) \subseteq 1..Indexes
  BY <1>3 DEF BackRefs
<1> QED
  BY <1>4, NodeComesBack
\* Nodes whose operations hold no number are well-formed.
LEMMA FormOfNodes ==
    ASSUME NEW n, IsNode(n), n.kind # "Constant",
           n.kind = "Input" => n.val \in Nat,
           n.kind = "MontConstant" => n.val \in Field,
           n.kind \in {"UnoOp", "Op", "TresOp"} => n.val = 0
    PROVE  WellFormed(n)
<1>1. /\ n = Node(n.kind, n.op, n.val, n.args)
      /\ n.kind \in {"Input", "MontConstant", "UnoOp", "Op", "TresOp"}
  BY DEF IsNode, Arity
<1>2. n.op \in Operations[n.kind] /\ n.args \in [1..Arity[n.kind] -> Nat]
  BY DEF IsNode
<1>3. CASE n.kind \in {"Input", "MontConstant"}
  <2>1. n.op = "none" /\ n.args \in [1..0 -> Nat]
    BY <1>2, <1>3 DEF Operations, Arity
  <2>2. n.args = <<>>
    BY <2>1
  <2> QED
    BY <1>1, <1>3, <2>1, <2>2 DEF WellFormed, InputNode, MontConstant
<1>4. CASE n.kind = "UnoOp"
  <2>1. n.op \in UnoOps /\ n.args \in [1..1 -> Nat] /\ n.val = 0
    BY <1>2, <1>4 DEF Operations, Arity
  <2>2. n.args = <<n.args[1]>> /\ n.args[1] \in Nat
    BY <2>1
  <2> QED
    BY <1>1, <1>4, <2>1, <2>2 DEF WellFormed, UnoOp
<1>5. CASE n.kind = "Op"
  <2>1. n.op \in DuoOps /\ n.args \in [1..2 -> Nat] /\ n.val = 0
    BY <1>2, <1>5 DEF Operations, Arity
  <2>2. n.args = <<n.args[1], n.args[2]>> /\ n.args[1] \in Nat /\ n.args[2] \in Nat
    BY <2>1
  <2> QED
    BY <1>1, <1>5, <2>1, <2>2 DEF WellFormed, Op
<1>6. CASE n.kind = "TresOp"
  <2>1. n.op \in TresOps /\ n.args \in [1..3 -> Nat] /\ n.val = 0
    BY <1>2, <1>6 DEF Operations, Arity
  <2>2. /\ n.args = <<n.args[1], n.args[2], n.args[3]>>
        /\ n.args[1] \in Nat /\ n.args[2] \in Nat /\ n.args[3] \in Nat
    BY <2>1
  <2> QED
    BY <1>1, <1>6, <2>1, <2>2, ZenonT(60) DEF WellFormed, TresOp
<1> QED
  BY <1>1, <1>3, <1>4, <1>5, <1>6

-----------------------------------------------------------------------------
(***************************************************************************)
(* What calc_witness gets of a build.                                      *)
(***************************************************************************)

\* The nodes that are written are well-formed.
LEMMA WrittenNodes ==
    ASSUME Written, NEW k \in DOMAIN nodes
    PROVE  /\ WellFormed(nodes[k])
           /\ nodes[k].kind = "Input" => nodes[k].val \in 0..Len(InputSignals(program))
<1> DEFINE n == nodes[k]
<1>1. IsNode(n) /\ n.kind # "Constant" /\ (n.kind = "MontConstant" => n.val \in Field)
  BY DEF Written, IsGraph
<1>2. Opt!MadeOf(n, source.nodes)
  BY DEF Written, GraphKept, Opt!NodesAreTheSources
<1>3. \A i \in DOMAIN source.nodes : source.nodes[i] \in MadeNodes(program)
  BY DEF Written, BuildersOwn
<1> HIDE DEF n
<1>5. /\ n.kind = "Input" => n.val \in Nat /\ n.val <= Len(InputSignals(program))
      /\ n.kind \in {"UnoOp", "Op", "TresOp"} => n.val = 0
  BY <1>2, <1>3, HeldByNodes DEF Opt!MadeOf, Opt!Like
<1>6. WellFormed(n)
  BY <1>1, <1>5, FormOfNodes
<1>7. Len(InputSignals(program)) \in Nat
  BY InputSignalsType DEF Written, BuildersOwn
<1> QED
  BY <1>5, <1>6, <1>7 DEF n

\* The graph that is loaded is the one that was written.
LEMMA LoadedIsWritten ==
    ASSUME Written, PositionsFit
    PROVE  LoadedNodes = nodes /\ LoadedOutputs = outputs
<1>1. /\ IsGraph(nodes) /\ BackRefs(nodes) /\ outputs \in Seq(Nat)
      /\ Range(outputs) \subseteq DOMAIN nodes
      /\ saved.nodes = [k \in DOMAIN nodes |-> ToMessage(nodes[k])]
      /\ saved.outputs = [k \in DOMAIN outputs |-> (outputs[k] - 1) % Indexes]
  BY DEF Written
<1>2. Len(nodes) \in Nat /\ DOMAIN nodes = 1..Len(nodes) /\ Len(nodes) <= Indexes
      /\ Indexes \in Nat /\ nodes = [k \in DOMAIN nodes |-> nodes[k]]
  BY <1>1, GraphShape, IndexesAssumption, LenProperties DEF PositionsFit, IsGraph
<1>3. LoadedNodes = nodes
  <2>1. \A k \in DOMAIN nodes :
            /\ WellFormed(nodes[k])
            /\ nodes[k].kind = "Input" => nodes[k].val \in 0..Indexes - 1
    <3>1. ASSUME NEW v \in 0..Len(InputSignals(program)) PROVE v \in 0..Indexes - 1
      <4>1. Len(InputSignals(program)) \in Nat
        BY InputSignalsType DEF Written, BuildersOwn
      <4> QED
        BY <1>2, <4>1 DEF PositionsFit
    <3> QED
      BY <3>1, WrittenNodes
  <2>2. \A k \in DOMAIN nodes : FromMessage(ToMessage(nodes[k])) = nodes[k]
    BY <1>1, <1>2, <2>1, GraphComesBack
  <2>3. LoadedNodes = [k \in DOMAIN nodes |-> FromMessage(ToMessage(nodes[k]))]
    BY <1>1 DEF LoadedNodes
  <2> QED
    BY <1>2, <2>2, <2>3
<1>4. LoadedOutputs = outputs
  <2>1. ASSUME NEW k \in DOMAIN outputs PROVE outputs[k] \in 1..Indexes
    <3>1. outputs[k] \in DOMAIN nodes
      BY <1>1 DEF Range
    <3> QED
      BY <1>2, <3>1
  <2>2. \A k \in DOMAIN outputs : ((outputs[k] - 1) % Indexes) + 1 = outputs[k]
    BY <2>1, PositionsComeBack
  <2>3. LoadedOutputs = [k \in DOMAIN outputs |-> ((outputs[k] - 1) % Indexes) + 1]
    BY <1>1 DEF LoadedOutputs
  <2>4. outputs = [k \in DOMAIN outputs |-> outputs[k]]
    BY <1>1
  <2> QED
    BY <2>2, <2>3, <2>4
<1> QED
  BY <1>3, <1>4

\* What is loaded is what was written, whatever program was compiled, if its
\* positions fit into a message: with shifts and combinations of bits, too.
THEOREM FileKeepsEveryGraph == BuildSpec => []FileKeepsTheGraph
<1>1. BuildInv /\ pass = "saved" => Written
  BY DEF BuildInv, Waiting, Stopped, Optimizing, Refused, PassesInv, Opt!IInv, Opt!TypeOK,
         Opt!Passes
<1>2. BuildInv => FileKeepsTheGraph
  BY <1>1, LoadedIsWritten DEF FileKeepsTheGraph
<1> QED
  BY <1>2, BuildInvariance, PTL

\* calc_witness calculates from the file, on all inputs, the witness that the
\* builder's own graph stands for, wherever that one can be evaluated.
LoadedComputesTheSources ==
    pass = "saved" /\ PositionsFit =>
        \A inputs \in [Opt!InputIndexes -> Field] :
            LET before == Evaluate(source.nodes, inputs, source.outputs)
            IN  before # <<Panic>> => Evaluate(LoadedNodes, inputs, LoadedOutputs) = before

\* From the builder's graph to the graph that is read from the file: the same
\* witness on all inputs, whatever program was compiled, if its graph is of
\* field elements and has none of the operations on bits that may leave the
\* field.
THEOREM LoadedComputesTheWitness ==
    BuildSpec => [](Opt!IsFieldGraph(source.nodes) => LoadedComputesTheSources)
<1>1. BuildInv /\ pass = "saved" => Written
  BY DEF BuildInv, Waiting, Stopped, Optimizing, Refused, PassesInv, Opt!IInv, Opt!TypeOK,
         Opt!Passes
<1>2. Written /\ PositionsFit /\ Opt!IsFieldGraph(source.nodes) =>
          \A inputs \in [Opt!InputIndexes -> Field] :
              LET before == Evaluate(source.nodes, inputs, source.outputs)
              IN  before # <<Panic>> => Evaluate(LoadedNodes, inputs, LoadedOutputs) = before
  <2> SUFFICES ASSUME Written, PositionsFit, Opt!IsFieldGraph(source.nodes),
                      NEW inputs \in [Opt!InputIndexes -> Field],
                      Evaluate(source.nodes, inputs, source.outputs) # <<Panic>>
               PROVE  Evaluate(LoadedNodes, inputs, LoadedOutputs)
                          = Evaluate(source.nodes, inputs, source.outputs)
    OBVIOUS
  <2>1. LoadedNodes = nodes /\ LoadedOutputs = outputs
    BY LoadedIsWritten
  <2>2. Opt!IsGraph(nodes) /\ Opt!BackRefs(nodes) /\ Opt!ValidSource(source) /\ Opt!MeaningInv
    BY SameGraphs DEF Written, GraphKept
  <2>3. Opt!ComputesTheSources
    BY <2>2, OptimizerAssumes, Opt!MeaningIsTheWitness
  <2>4. Opt!Panic = Panic /\ inputs \in [Opt!InputIndexes -> Opt!Field]
    BY DEF Opt!Panic, Panic, Opt!Field, Field
  <2>5. Evaluate(nodes, inputs, outputs) = Evaluate(source.nodes, inputs, source.outputs)
    BY <2>3, <2>4, SameValues DEF Opt!ComputesTheSources
  <2> QED
    BY <2>1, <2>5
<1>3. BuildInv => (Opt!IsFieldGraph(source.nodes) => LoadedComputesTheSources)
  BY <1>1, <1>2 DEF LoadedComputesTheSources
<1> QED
  BY <1>3, BuildInvariance, PTL

-----------------------------------------------------------------------------
\* The builder's properties, in a build that goes on behind the builder.
THEOREM NodesReferBackInBuilds == BuildSpec => []NodesReferBack
<1>1. BuildInv => NodesReferBack
  <2>1. IInv => NodesReferBack
    BY ImpliesType
  <2>2. PassesInv => NodesReferBack
    BY SameGraphs DEF PassesInv, Opt!IInv, Opt!TypeOK, NodesReferBack
  <2> QED
    BY <2>1, <2>2 DEF BuildInv, Waiting, Stopped, NotOptimized, Optimizing, Refused, Written,
                      NodesReferBack
<1> QED
  BY <1>1, BuildInvariance, PTL

\* Neither printing nor any pass touches a signal.
THEOREM SignalsAreSetOnceInBuilds == BuildSpec => SignalsAreSetOnce
<1>1. ASSUME [BuildNext]_buildVars PROVE KeptSignals
  <2>1. CASE UNCHANGED buildVars
    BY <2>1 DEF buildVars, vars, KeptSignals
  <2>2. CASE BuildStep
    BY <2>2, ExpressionsSetNone, StoresSetFree, CallsSetNone, ControlSetsFree, ComponentsSetNone
       DEF BuildStep, Next, KeptSignals
  <2>3. CASE \E inputs \in SampleInputs : PrintUnoptimized(inputs)
    BY <2>3 DEF PrintUnoptimized, vars, KeptSignals
  <2>4. CASE StartOptimize \/ OptimizeStep \/ Serialize
    BY <2>4 DEF StartOptimize, OptimizeStep, Serialize, vars, KeptSignals
  <2> QED
    BY <1>1, <2>1, <2>2, <2>3, <2>4 DEF BuildNext
<1>2. [BuildNext]_buildVars => [KeptSignals]_vars
  BY <1>1
<1> QED
  BY <1>2, PTL DEF BuildSpec, SignalsAreSetOnce, KeptSignals

-----------------------------------------------------------------------------
(***************************************************************************)
(* The types of a build, and what printing finds.                          *)
(***************************************************************************)

\* What holds of a node when it holds of all nodes before it, holds of all.
LEMMA NodeByNode ==
    ASSUME NEW N \in Nat, NEW S, \A i \in 1..N : (\A j \in 1..i - 1 : j \in S) => i \in S
    PROVE  \A i \in 1..N : i \in S
<1> DEFINE T == {n \in 0..N : \A j \in 1..n : j \in S}
<1>1. 0 \in T
  OBVIOUS
<1>2. ASSUME NEW n \in 0..N - 1, n \in T PROVE n + 1 \in T
  <2>1. n + 1 \in 1..N /\ n + 1 \in 0..N /\ (n + 1) - 1 = n
        /\ \A j \in 1..n + 1 : j \in 1..n \/ j = n + 1
    OBVIOUS
  <2>2. \A j \in 1..n : j \in S
    BY <1>2
  <2>3. n + 1 \in S
    BY <2>1, <2>2
  <2> QED
    BY <2>1, <2>2, <2>3
<1> HIDE DEF T
<1>3. N \in T
  <2>1. N \in 0..N
    OBVIOUS
  <2>2. \A n \in 0..N : n \in T
    BY <1>1, <1>2, Induction
  <2> QED
    BY <2>1, <2>2
<1> QED
  BY <1>3 DEF T

\* A file of inputs has a word for each input, or there are zeros.
LEMMA SampleShape ==
    ASSUME program \in Programs, NEW inputs \in SampleInputs
    PROVE  inputs \in [0..Len(InputSignals(program)) -> SampleValues \cup {0, 1}] /\ inputs[0] = 1
<1> DEFINE L == Len(InputSignals(program))
<1>1. L \in Nat
  BY InputSignalsType
<1>2. PICK f \in [InputPlaces -> SampleValues] \cup {[i \in InputPlaces |-> 0]} :
          inputs = [x \in {0} \cup InputPlaces |-> IF x = 0 THEN 1 ELSE f[x]]
  BY DEF SampleInputs
<1>3. f \in [1..L -> SampleValues \cup {0}]
  BY <1>2 DEF InputPlaces
<1>4. inputs = [x \in {0} \cup 1..L |-> IF x = 0 THEN 1 ELSE f[x]]
  BY <1>2 DEF InputPlaces
<1> HIDE DEF L
<1>5. {0} \cup 1..L = 0..L
  BY <1>1
<1>6. inputs = [x \in 0..L |-> IF x = 0 THEN 1 ELSE f[x]]
  BY <1>4, <1>5
<1> QED
  BY <1>1, <1>3, <1>6 DEF L

\* An operation on words comes to a word or panics.
LEMMA WordType ==
    ASSUME NEW n \in MadeNodes(program), NEW vs, \A a \in Refs(n) : vs[a] \in Words,
           NEW inputs, \A i \in 0..Len(InputSignals(program)) : inputs[i] \in Words
    PROVE  WordOf(n, vs, inputs) \in Words \cup {Panic}
<1>1. IsNode(n) /\ n.kind # "MontConstant"
  BY MadeIsNode DEF MadeNodes
<1>2. \A a \in Refs(n) : vs[a] # Panic
  BY Remainders DEF Panic
<1>3. \A k \in 1..Arity[n.kind] : n.args[k] \in Refs(n)
  BY <1>1 DEF IsNode, Refs, Range
<1>4. n.kind \in {"Input", "Constant", "UnoOp", "Op", "TresOp"} /\ n.op \in Operations[n.kind]
  BY <1>1 DEF IsNode, Arity
<1>5. /\ n.kind = "Constant" => n.val \in Words
      /\ n.kind = "Input" => n.val \in Nat /\ n.val <= Len(InputSignals(program))
  BY DEF MadeNodes, Made, InputNode, Constant, UnoOp, Op, TresOp, Node
<1>6. CASE n.kind = "Constant"
  BY <1>2, <1>5, <1>6 DEF WordOf
<1>7. CASE n.kind = "Input"
  <2>1. n.val \in 0..Len(InputSignals(program))
    BY <1>5, <1>7
  <2> QED
    BY <1>2, <1>7, <2>1 DEF WordOf
<1>8. CASE n.kind = "UnoOp"
  <2>1. vs[n.args[1]] \in Words /\ n.op \in UnoOps
    BY <1>3, <1>4, <1>8 DEF Arity, Operations
  <2> QED
    BY <1>2, <1>8, <2>1, OtherEvalTypes DEF WordOf
<1>9. CASE n.kind = "Op"
  <2>1. vs[n.args[1]] \in Words /\ vs[n.args[2]] \in Words /\ n.op \in DuoOps
    BY <1>3, <1>4, <1>9 DEF Arity, Operations
  <2>2. Eval(n.op, vs[n.args[1]], vs[n.args[2]]) \in Words \cup {Panic}
    BY <2>1, EvalType
  <2> QED
    BY <1>2, <1>9, <2>2 DEF WordOf
<1>10. CASE n.kind = "TresOp"
  <2>1. vs[n.args[2]] \in Words /\ vs[n.args[3]] \in Words
    BY <1>3, <1>10 DEF Arity
  <2> QED
    BY <1>2, <1>10, <2>1, OtherEvalTypes DEF WordOf
<1> QED
  BY <1>4, <1>6, <1>7, <1>8, <1>9, <1>10

\* What was printed is what the nodes come to.
ComesTo(ns, inputs, values) ==
    /\ inputs \in SampleInputs /\ DOMAIN values = DOMAIN ns
    /\ \A i \in DOMAIN ns : values[i] = WordOf(ns[i], values, inputs) /\ values[i] \in Words
PrintedOf(ns) == \A p \in printed : ComesTo(ns, p.inputs, p.values)
PrintedInv ==
    /\ printed # {} => pc = "built"
    /\ pass = "waiting" => PrintedOf(nodes)
    /\ pass # "waiting" => PrintedOf(source.nodes)

\* Without a panic, evaluate_unoptimized finds a word for each node.
LEMMA PrintedWords ==
    ASSUME IInv, NEW inputs \in SampleInputs, Panic \notin Range(Unoptimized(inputs))
    PROVE  ComesTo(nodes, inputs, Unoptimized(inputs))
<1> DEFINE vs == Unoptimized(inputs)
           S == {i \in Nat : vs[i] \in Words}
<1>1. /\ program \in Programs /\ IsGraph(nodes) /\ BackRefs(nodes) /\ Len(nodes) \in Nat
      /\ DOMAIN nodes = 1..Len(nodes)
  BY MadeGraph DEF IInv
<1>2. \A i \in 1..Len(nodes) : nodes[i] \in MadeNodes(program) /\ nodes[i].kind # "MontConstant"
  <2>1. \A i \in 1..Len(nodes) : i - 1 \in Nat /\ nodes[i] \in Made(i - 1, program)
    BY <1>1 DEF IInv, GraphOK
  <2> QED
    BY <2>1, MadeIsNode DEF MadeNodes
<1>3. DOMAIN vs = 1..Len(nodes) /\ \A i \in 1..Len(nodes) : vs[i] = WordOf(nodes[i], vs, inputs)
  BY <1>1, <1>2, UnoptimizedFound
<1>4. \A i \in 1..Len(nodes) : vs[i] # Panic
  BY <1>3 DEF Range
<1>5. \A i \in 0..Len(InputSignals(program)) : inputs[i] \in Words
  <2>1. inputs \in [0..Len(InputSignals(program)) -> SampleValues \cup {0, 1}]
    BY <1>1, SampleShape
  <2>2. SampleValues \cup {0, 1} \subseteq Words
    BY Remainders, SampleAssumption
  <2> QED
    BY <2>1, <2>2
<1> HIDE DEF vs
<1>6. ASSUME NEW i \in 1..Len(nodes), \A j \in 1..i - 1 : j \in S PROVE i \in S
  <2>1. \A a \in Refs(nodes[i]) : vs[a] \in Words
    BY <1>1, <1>6 DEF BackRefs
  <2>2. WordOf(nodes[i], vs, inputs) \in Words \cup {Panic}
    BY <1>2, <1>5, <2>1, WordType
  <2> QED
    BY <1>3, <1>4, <2>2
<1> HIDE DEF S
<1>7. \A i \in 1..Len(nodes) : i \in S
  BY <1>1, <1>6, NodeByNode
<1>8. \A i \in 1..Len(nodes) : vs[i] \in Words
  BY <1>7 DEF S
<1> QED
  BY <1>1, <1>3, <1>8 DEF ComesTo, vs

\* Nothing is printed before the builder has ended, ...
LEMMA InitPrinted == BuildInit => PrintedInv
BY DEF BuildInit, PrintedInv, PrintedOf

\* ...and what was printed remains.
LEMMA NextPrinted == BuildInv /\ PrintedInv /\ [BuildNext]_buildVars => PrintedInv'
<1>0. ASSUME program' = program PROVE SampleInputs' = SampleInputs
  BY <1>0 DEF SampleInputs, InputPlaces
<1>1. ASSUME UNCHANGED <<program, printed, nodes>> PROVE PrintedOf(nodes) => PrintedOf(nodes)'
  BY <1>0, <1>1 DEF PrintedOf, ComesTo
<1>2. ASSUME UNCHANGED <<program, printed, source>>
      PROVE  PrintedOf(source.nodes) => PrintedOf(source.nodes)'
  BY <1>0, <1>2 DEF PrintedOf, ComesTo
<1>3. ASSUME PrintedInv, BuildStep PROVE PrintedInv'
  <2>1. printed' = {}
    <3>1. pc = "run"
      BY <1>3, BuilderBuilds
    <3> QED
      BY <1>3, <3>1 DEF PrintedInv, BuildStep
  <2> QED
    BY <2>1 DEF PrintedInv, PrintedOf
<1>4. ASSUME BuildInv, PrintedInv, NEW inputs \in SampleInputs, PrintUnoptimized(inputs)
      PROVE  PrintedInv'
  <2>1. IInv /\ pc = "built" /\ pass = "waiting" /\ printed = {}
        /\ UNCHANGED <<program, nodes, source, pc>>
    <3>1. pass = "waiting"
      BY <1>4 DEF PrintUnoptimized
    <3> QED
      BY <1>4, <3>1 DEF PrintUnoptimized, vars, BuildInv, Waiting, NotOptimized, Stopped,
                        Optimizing, Refused, Written, PassesInv, Opt!IInv, Opt!TypeOK, Opt!Passes
  <2> DEFINE vs == Unoptimized(inputs)
  <2>2. CASE Panic \in Range(vs)
    <3>1. printed' = {}
      BY <1>4, <2>1, <2>2 DEF PrintUnoptimized
    <3> QED
      BY <3>1 DEF PrintedInv, PrintedOf
  <2>3. CASE Panic \notin Range(vs)
    <3>1. printed' = {[inputs |-> inputs, values |-> vs]} /\ pass' = pass
      BY <1>4, <2>3 DEF PrintUnoptimized
    <3>2. ComesTo(nodes, inputs, vs)
      BY <2>1, <2>3, PrintedWords
    <3> HIDE DEF vs
    <3>3. (\A p \in printed' : ComesTo(nodes, p.inputs, p.values))
      BY <3>1, <3>2
    <3>4. PrintedOf(nodes)'
      BY <1>0, <2>1, <3>3 DEF PrintedOf, ComesTo
    <3> QED
      BY <2>1, <3>1, <3>4 DEF PrintedInv
  <2> QED
    BY <2>2, <2>3
<1>5. ASSUME PrintedInv, StartOptimize PROVE PrintedInv'
  <2>1. /\ UNCHANGED <<program, nodes, pc, printed>> /\ pass = "waiting" /\ pass' = "shake"
        /\ source' = [nodes |-> nodes, outputs |-> outputs]
    BY <1>5 DEF StartOptimize, vars
  <2>2. PrintedOf(source.nodes)'
    BY <1>0, <1>5, <2>1 DEF PrintedInv, PrintedOf, ComesTo
  <2> QED
    BY <1>5, <2>1, <2>2 DEF PrintedInv
<1>6. ASSUME BuildInv, PrintedInv, OptimizeStep \/ Serialize PROVE PrintedInv'
  <2>1. UNCHANGED <<program, pc, printed, source>>
    BY <1>6 DEF OptimizeStep, Serialize, vars, Opt!Next, Opt!Shake, Opt!Mark, Opt!Sweep,
       Opt!Propagate, Opt!FoldNode, Opt!FoldEnd, Opt!ValueNumbering, Opt!Constants, Opt!Montgomery
  <2>2. pass # "waiting" /\ pass' # "waiting"
    BY <1>6 DEF OptimizeStep, Serialize, Opt!Next, Opt!Shake, Opt!Mark, Opt!Sweep, Opt!GoTo,
       Opt!Propagate, Opt!FoldNode, Opt!FoldEnd, Opt!ValueNumbering, Opt!Constants, Opt!Montgomery
  <2> QED
    BY <1>2, <1>6, <2>1, <2>2 DEF PrintedInv
<1>7. ASSUME PrintedInv, UNCHANGED buildVars PROVE PrintedInv'
  <2>1. UNCHANGED <<program, pc, printed, source, nodes, pass>>
    BY <1>7 DEF buildVars, vars, optimizerVars
  <2> QED
    BY <1>1, <1>2, <1>7, <2>1 DEF PrintedInv
<1> QED
  BY <1>3, <1>4, <1>5, <1>6, <1>7 DEF BuildNext

\* A message is read as a node, whether or not all of its positions have come
\* through.
LEMMA ReadNode ==
    ASSUME NEW n, IsNode(n), n.kind # "Constant" PROVE IsNode(FromMessage(ToMessage(n)))
<1> DEFINE at == [k \in DOMAIN n.args |-> (n.args[k] - 1) % Indexes]
           read == [k \in DOMAIN at |-> at[k] + 1]
<1>1. /\ n.kind \in {"Input", "MontConstant", "UnoOp", "Op", "TresOp"}
      /\ n.op \in Operations[n.kind] /\ n.args \in [1..Arity[n.kind] -> Nat]
  BY DEF IsNode, Arity
<1>2. \A a \in Nat : (a - 1) % Indexes \in Nat
  BY IndexesAssumption
<1>3. read \in [1..Arity[n.kind] -> Nat]
  <2>1. DOMAIN at = 1..Arity[n.kind] /\ \A k \in 1..Arity[n.kind] : at[k] \in Nat
    BY <1>1, <1>2
  <2> HIDE DEF at
  <2> QED
    BY <2>1
<1> HIDE DEF at
<1>4. CASE n.kind = "Input"
  <2>1. FromMessage(ToMessage(n)) = InputNode(n.val % Indexes)
    BY <1>4 DEF ToMessage, FromMessage, ArgsIn, Message
  <2> QED
    BY <2>1, InputAndOpNode DEF InputNode
<1>5. CASE n.kind = "MontConstant"
  <2>1. FromMessage(ToMessage(n)) = MontConstant(n.val % M)
    BY <1>5 DEF ToMessage, FromMessage, ArgsIn, Message
  <2> QED
    BY <2>1, ConstantNode
<1>6. CASE n.kind = "UnoOp"
  <2>1. ToMessage(n) = Message("unoOp", UnoNumber[n.op], at, 0)
    BY <1>6 DEF ToMessage, at
  <2>2. n.op \in UnoOps
    BY <1>1, <1>6 DEF Operations
  <2>3. FromMessage(ToMessage(n)) = Node("UnoOp", n.op, 0, read)
    BY <2>1, <2>2, UnoNumbers DEF FromMessage, ArgsIn, Message
  <2> HIDE DEF read
  <2> QED
    BY <1>1, <1>3, <1>6, <2>3 DEF IsNode, Node, Arity, Operations
<1>7. CASE n.kind = "Op"
  <2>1. ToMessage(n) = Message("duoOp", DuoNumber[n.op], at, 0)
    BY <1>7 DEF ToMessage, at
  <2>2. n.op \in DuoOps
    BY <1>1, <1>7 DEF Operations
  <2>3. FromMessage(ToMessage(n)) = Node("Op", n.op, 0, read)
    BY <2>1, <2>2, DuoNumbers DEF FromMessage, ArgsIn, Message
  <2> HIDE DEF read
  <2> QED
    BY <1>1, <1>3, <1>7, <2>3 DEF IsNode, Node, Arity, Operations
<1>8. CASE n.kind = "TresOp"
  <2>1. ToMessage(n) = Message("tresOp", TresNumber[n.op], at, 0)
    BY <1>8 DEF ToMessage, at
  <2>2. n.op \in TresOps
    BY <1>1, <1>8 DEF Operations
  <2>3. FromMessage(ToMessage(n)) = Node("TresOp", n.op, 0, read)
    BY <2>1, <2>2, TresNumbers DEF FromMessage, ArgsIn, Message
  <2> HIDE DEF read
  <2> QED
    BY <1>1, <1>3, <1>8, <2>3 DEF IsNode, Node, Arity, Operations
<1> QED
  BY <1>1, <1>4, <1>5, <1>6, <1>7, <1>8

\* What is loaded is a graph: no nodes before anything has been written, and
\* as many as were written then.
LEMMA LoadedGraph == BuildInv => IsGraph(LoadedNodes)
<1>1. ASSUME NothingSaved PROVE IsGraph(LoadedNodes)
  <2>1. LoadedNodes = <<>>
    BY <1>1 DEF NothingSaved, LoadedNodes
  <2> QED
    BY <2>1 DEF IsGraph, Range
<1>2. ASSUME Written PROVE IsGraph(LoadedNodes)
  <2>1. Len(nodes) \in Nat /\ DOMAIN nodes = 1..Len(nodes)
        /\ \A k \in 1..Len(nodes) : IsNode(nodes[k])
    BY <1>2, GraphShape DEF Written
  <2>2. LoadedNodes = [k \in 1..Len(nodes) |-> FromMessage(ToMessage(nodes[k]))]
    BY <1>2, <2>1 DEF Written, LoadedNodes
  <2>3. \A k \in 1..Len(nodes) : IsNode(LoadedNodes[k])
    BY <1>2, <2>1, <2>2, ReadNode DEF Written
  <2>4. LoadedNodes = [k \in 1..Len(nodes) |-> LoadedNodes[k]]
    BY <2>2
  <2> QED
    BY <2>1, <2>3, <2>4, GraphOf
<1> QED
  BY <1>1, <1>2 DEF BuildInv, Waiting, Stopped, NotOptimized, Optimizing, Refused

\* All variables of a build have their types at every step, whatever program
\* was compiled and whatever inputs it is printed for.
THEOREM BuildTypeCorrect == BuildSpec => []BuildTypeOK
<1> DEFINE Panics_ == {"none", "print", "assert", "unwrap", "eval", "unimplemented", "constant"}
           Typed ==
               /\ IsGraph(nodes) /\ pass \in Opt!Passes \cup {"waiting", "saved"}
               /\ round \in 1..3 /\ cursor \in Nat /\ used \subseteq Nat
               /\ panic \in Panics_ /\ (panic = "none") = (pass # "panicked")
<1>1. BuildInv => Typed
  <2>1. NotOptimized => IsGraph(nodes) /\ round \in 1..3 /\ cursor \in Nat /\ used \subseteq Nat
    BY MadeGraph DEF NotOptimized, IInv
  <2>2. PassesInv => Typed /\ pass # "waiting"
    BY SameGraphs DEF PassesInv, Opt!IInv, Opt!TypeOK, Opt!Passes
  <2>3. Waiting \/ Stopped => Typed
    BY <2>1 DEF Waiting, Stopped, Opt!Passes
  <2>4. Refused \/ Written => Typed
    BY DEF Refused, Written, Opt!Passes
  <2> QED
    BY <2>2, <2>3, <2>4 DEF BuildInv, Optimizing
<1>2. BuildInv /\ pass = "waiting" => TypeOK
  BY ImpliesType DEF BuildInv, Waiting, NotOptimized, Stopped, Optimizing, Refused, Written,
                     PassesInv, Opt!IInv, Opt!TypeOK, Opt!Passes
<1>3. ASSUME BuildInv, PrintedInv, NEW p \in printed
      PROVE  p.inputs[0] = 1 /\ Range(p.values) \subseteq Words
  <2>1. \E ns : ComesTo(ns, p.inputs, p.values)
    BY <1>3 DEF PrintedInv, PrintedOf
  <2>2. PICK ns : ComesTo(ns, p.inputs, p.values)
    BY <2>1
  <2>3. program \in Programs
    <3>1. IInv => program \in Programs
      BY DEF IInv
    <3> QED
      BY <1>3, <3>1 DEF BuildInv, Waiting, NotOptimized, Stopped, Optimizing, Refused, Written,
                        BuildersOwn
  <2> QED
    BY <2>2, <2>3, SampleShape DEF ComesTo, Range
<1>4. BuildInv /\ PrintedInv => BuildTypeOK
  BY <1>1, <1>2, <1>3, LoadedGraph DEF BuildTypeOK
<1>5. BuildSpec => []PrintedInv
  BY InitPrinted, NextPrinted, BuildInvariance, PTL DEF BuildSpec
<1> QED
  BY <1>4, <1>5, BuildInvariance, PTL

-----------------------------------------------------------------------------
(***************************************************************************)
(* Where printing stops.                                                   *)
(***************************************************************************)

\* An operation on words has a word as its result, but for the divisions.
LEMMA OnlyDivisionPanics ==
    ASSUME NEW op \in DuoOps, NEW a \in Words, NEW b \in Words, Eval(op, a, b) = Panic
    PROVE  Undivided(op, b)
<1>1. CASE op = "Div"
  <2>1. Eval(op, a, b) = DivWord(a, b)
    BY <1>1 DEF Eval
  <2>2. b % M # 0 => DivMod(a, b) \in Words
    <3>1. b % M \in Field /\ a \in Nat
      BY Remainders
    <3>2. ASSUME b % M # 0 PROVE DivMod(a, b) \in Words
      <4>1. InvMod(b % M) \in Nat
        BY <3>1, <3>2, InverseIsElement, Sizes
      <4>2. a * InvMod(b % M) \in Int
        BY <3>1, <4>1
      <4> QED
        BY <4>2, Remainders DEF DivMod
    <3> QED
      BY <3>2
  <2>3. Panic \notin Words
    BY Remainders DEF Panic
  <2>4. 0 \in Words
    BY Remainders
  <2> QED
    BY <1>1, <2>1, <2>2, <2>3, <2>4 DEF DivWord, Undivided
<1>2. CASE op \in {"Idiv", "Mod"}
  <2>1. b # 0 => a \div b \in Nat /\ a % b \in Nat
    <3>1. a \in Nat /\ b \in Nat
      BY Remainders
    <3> QED
      BY <3>1
  <2>2. op = "Idiv" => Eval(op, a, b) = IF b = 0 THEN Panic ELSE a \div b
    BY DEF Eval
  <2>3. op = "Mod" => Eval(op, a, b) = IF b = 0 THEN Panic ELSE a % b
    BY DEF Eval
  <2>4. Panic \notin Nat
    BY DEF Panic
  <2> QED
    BY <1>2, <2>1, <2>2, <2>3, <2>4 DEF Undivided
<1>3. CASE op \notin {"Div", "Idiv", "Mod"}
  <2>1. Eval(op, a, b) \in Words
    BY <1>3, EvalIsWord
  <2> QED
    BY <2>1, Remainders DEF Panic
<1> QED
  BY <1>1, <1>2, <1>3

\* Printing has failed only where the graph came to a panic.
PanicPrinted == panic = "print" => \E inputs \in SampleInputs : Panic \in Range(Unoptimized(inputs))

\* It fails in no other step.
LEMMA NextPanicPrinted ==
    BuildInv /\ PanicPrinted /\ [BuildNext]_buildVars => PanicPrinted'
<1> USE DEF PanicPrinted
<1>0. ASSUME program' = program PROVE SampleInputs' = SampleInputs
  BY <1>0 DEF SampleInputs, InputPlaces
<1>1. ASSUME nodes' = nodes, NEW inputs PROVE Unoptimized(inputs)' = Unoptimized(inputs)
  BY <1>1 DEF Unoptimized
<1>2. BuildInv => (panic = "print" => Stopped)
  BY DEF BuildInv, Waiting, Optimizing, Refused, Written, PassesInv, Opt!IInv, Opt!TypeOK
<1>3. ASSUME BuildInv, BuildStep PROVE panic' # "print"
  BY <1>2, <1>3, BuilderBuilds DEF BuildStep, Stopped, optimizerVars
<1>4. ASSUME BuildInv, PanicPrinted, NEW inputs \in SampleInputs, PrintUnoptimized(inputs)
      PROVE  PanicPrinted'
  <2>1. program' = program /\ nodes' = nodes /\ pass = "waiting"
    BY <1>4 DEF PrintUnoptimized, vars
  <2>2. panic # "print"
    BY <1>2, <1>4, <2>1 DEF Stopped
  <2>3. CASE Panic \in Range(Unoptimized(inputs))
    <3>1. Unoptimized(inputs)' = Unoptimized(inputs) /\ SampleInputs' = SampleInputs
      BY <1>0, <1>1, <2>1
    <3> QED
      BY <1>4, <2>3, <3>1 DEF Range, Panic
  <2>4. CASE Panic \notin Range(Unoptimized(inputs))
    <3>1. panic' = panic
      BY <1>4, <2>4 DEF PrintUnoptimized
    <3> QED
      BY <2>2, <3>1
  <2> QED
    BY <2>3, <2>4
<1>5. ASSUME BuildInv, StartOptimize PROVE panic' # "print"
  BY <1>2, <1>5 DEF StartOptimize, Stopped
<1>6. ASSUME BuildInv, OptimizeStep \/ Serialize PROVE panic' # "print"
  <2>1. Optimizing \/ Refused
    <3>1. pass \notin {"waiting", "panicked", "saved"}
      BY <1>6, PassesRun DEF OptimizeStep, Serialize
    <3> QED
      BY <1>6, <3>1 DEF BuildInv, Waiting, Stopped, Written
  <2>2. OptimizeStep => Optimizing' \/ Refused'
    BY <2>1, OptimizeKeeps
  <2>3. Serialize => Written'
    BY <2>1, SerializeKeeps DEF Refused, Serialize
  <2>4. Optimizing' \/ Refused' \/ Written'
    BY <1>6, <2>2, <2>3
  <2> QED
    BY <2>4 DEF Optimizing, Refused, Written, PassesInv, Opt!IInv, Opt!TypeOK
<1>7. ASSUME PanicPrinted, UNCHANGED buildVars PROVE PanicPrinted'
  <2>1. program' = program /\ nodes' = nodes /\ panic' = panic
    BY <1>7 DEF buildVars, vars, optimizerVars
  <2>2. SampleInputs' = SampleInputs /\ \A inputs : Unoptimized(inputs)' = Unoptimized(inputs)
    BY <1>0, <1>1, <2>1
  <2> QED
    BY <1>7, <2>1, <2>2 DEF Range, Panic
<1> QED
  BY <1>3, <1>4, <1>5, <1>6, <1>7 DEF BuildNext

\* The first node that panics is a division: what it refers to are words.
LEMMA FirstPanic ==
    ASSUME IInv, NEW inputs \in SampleInputs, Panic \in Range(Unoptimized(inputs))
    PROVE  LET vs == Unoptimized(inputs)
               panics == {k \in DOMAIN vs : vs[k] = Panic}
               n == nodes[Min(panics)]
           IN  panics # {} /\ n.kind = "Op" /\ Undivided(n.op, vs[n.args[2]])
<1> DEFINE vs == Unoptimized(inputs)
           panics == {k \in DOMAIN vs : vs[k] = Panic}
           m == Min(panics)
           n == nodes[m]
           S == {i \in Nat : i < m => vs[i] \in Words}
<1>1. /\ program \in Programs /\ IsGraph(nodes) /\ BackRefs(nodes) /\ Len(nodes) \in Nat
      /\ DOMAIN nodes = 1..Len(nodes)
  BY MadeGraph DEF IInv
<1>2. \A i \in 1..Len(nodes) : nodes[i] \in MadeNodes(program) /\ nodes[i].kind # "MontConstant"
                               /\ IsNode(nodes[i])
  <2>1. \A i \in 1..Len(nodes) : i - 1 \in Nat /\ nodes[i] \in Made(i - 1, program)
    BY <1>1 DEF IInv, GraphOK
  <2> QED
    BY <2>1, MadeIsNode DEF MadeNodes
<1>3. DOMAIN vs = 1..Len(nodes) /\ \A i \in 1..Len(nodes) : vs[i] = WordOf(nodes[i], vs, inputs)
  BY <1>1, <1>2, UnoptimizedFound
<1>4. panics # {} /\ panics \subseteq 1..Len(nodes)
  BY <1>3 DEF Range
<1>5. m \in panics /\ \A y \in panics : m <= y
  <2>1. panics \in SUBSET Nat
    BY <1>1, <1>4
  <2> HIDE DEF panics
  <2> QED
    BY <1>4, <2>1, LeastNatural
<1>6. m \in 1..Len(nodes) /\ vs[m] = Panic
  BY <1>4, <1>5
<1>7. \A i \in 1..Len(nodes) : i < m => vs[i] # Panic
  BY <1>3, <1>5, <1>6
<1>8. \A i \in 0..Len(InputSignals(program)) : inputs[i] \in Words
  <2>1. inputs \in [0..Len(InputSignals(program)) -> SampleValues \cup {0, 1}]
    BY <1>1, SampleShape
  <2>2. SampleValues \cup {0, 1} \subseteq Words
    BY Remainders, SampleAssumption
  <2> QED
    BY <2>1, <2>2
<1> HIDE DEF vs, panics, m
<1>9. ASSUME NEW i \in 1..Len(nodes), i <= m, \A j \in 1..i - 1 : vs[j] \in Words
      PROVE  /\ \A a \in Refs(nodes[i]) : vs[a] \in Words
             /\ WordOf(nodes[i], vs, inputs) \in Words \cup {Panic}
  <2>1. \A a \in Refs(nodes[i]) : vs[a] \in Words
    BY <1>1, <1>9 DEF BackRefs
  <2>2. WordOf(nodes[i], vs, inputs) \in Words \cup {Panic}
    BY <1>2, <1>8, <2>1, WordType
  <2> QED
    BY <2>1, <2>2
<1>10. \A i \in 1..Len(nodes) : i \in S
  <2>1. ASSUME NEW i \in 1..Len(nodes), \A j \in 1..i - 1 : j \in S PROVE i \in S
    <3>1. ASSUME i < m PROVE vs[i] \in Words
      <4>1. i <= m /\ \A j \in 1..i - 1 : j < m
        BY <1>6, <3>1
      <4>2. \A j \in 1..i - 1 : vs[j] \in Words
        BY <2>1, <4>1
      <4> QED
        BY <1>3, <1>7, <1>9, <3>1, <4>1, <4>2
    <3> QED
      BY <1>1, <3>1
  <2> HIDE DEF S
  <2> QED
    BY <1>1, <2>1, NodeByNode
<1>11. \A j \in 1..m - 1 : vs[j] \in Words
  <2>1. \A j \in 1..m - 1 : j \in 1..Len(nodes) /\ j < m
    BY <1>1, <1>6
  <2> QED
    BY <1>10, <2>1
<1>12. \A a \in Refs(n) : vs[a] \in Words
  BY <1>6, <1>9, <1>11
<1>13. WordOf(n, vs, inputs) = Panic
  BY <1>3, <1>6
<1>14. IsNode(n) /\ n \in MadeNodes(program) /\ n.kind # "MontConstant"
  BY <1>2, <1>6
<1> HIDE DEF n
<1>15. Panic \notin Words /\ \A a \in Refs(n) : vs[a] # Panic
  BY <1>12, Remainders DEF Panic
<1>16. \A k \in 1..Arity[n.kind] : vs[n.args[k]] \in Words
  BY <1>12, <1>14 DEF IsNode, Refs, Range
<1>17. n.kind \in {"Input", "Constant", "UnoOp", "Op", "TresOp"} /\ n.op \in Operations[n.kind]
  BY <1>14 DEF IsNode, Arity
<1>18. n.kind = "Op"
  <2>1. /\ n.kind = "Constant" => n.val \in Words
        /\ n.kind = "Input" => n.val \in 0..Len(InputSignals(program))
    <3>1. /\ n.kind = "Constant" => n.val \in Words
          /\ n.kind = "Input" => n.val \in Nat /\ n.val <= Len(InputSignals(program))
      BY <1>14 DEF MadeNodes, Made, InputNode, Constant, UnoOp, Op, TresOp, Node
    <3>2. Len(InputSignals(program)) \in Nat
      BY <1>1, InputSignalsType
    <3> QED
      BY <3>1, <3>2
  <2>2. n.kind # "Constant" /\ n.kind # "Input"
    BY <1>8, <1>13, <1>15, <2>1 DEF WordOf
  <2>3. n.kind # "UnoOp"
    <3>1. ASSUME n.kind = "UnoOp" PROVE vs[n.args[1]] \in Words /\ n.op \in UnoOps
      BY <1>16, <1>17, <3>1 DEF Arity, Operations
    <3> QED
      BY <1>13, <1>15, <3>1, OtherEvalTypes DEF WordOf
  <2>4. n.kind # "TresOp"
    <3>1. ASSUME n.kind = "TresOp" PROVE vs[n.args[2]] \in Words /\ vs[n.args[3]] \in Words
                                         /\ n.op \in TresOps
      BY <1>16, <1>17, <3>1 DEF Arity, Operations
    <3> QED
      BY <1>13, <1>15, <3>1, OtherEvalTypes DEF WordOf
  <2> QED
    BY <1>17, <2>2, <2>3, <2>4
<1>19. vs[n.args[1]] \in Words /\ vs[n.args[2]] \in Words /\ n.op \in DuoOps
  BY <1>16, <1>17, <1>18 DEF Arity, Operations
<1>20. Eval(n.op, vs[n.args[1]], vs[n.args[2]]) = Panic
  BY <1>13, <1>15, <1>18 DEF WordOf
<1>21. Undivided(n.op, vs[n.args[2]])
  BY <1>19, <1>20, OnlyDivisionPanics
<1> QED
  BY <1>4, <1>18, <1>21 DEF n, m, panics, vs

\* Whatever program is compiled and whatever the inputs are, printing the
\* graph stops only in a division.
THEOREM PrintingStops == BuildSpec => []PrintingStopsOnlyInDivision
<1>1. BuildInit => PanicPrinted
  BY DEF BuildInit, PanicPrinted
<1>2. BuildInv /\ PanicPrinted => PrintingStopsOnlyInDivision
  <2>1. BuildInv /\ panic = "print" => IInv
    BY DEF BuildInv, Waiting, Stopped, NotOptimized, Optimizing, Refused, Written, PassesInv,
           Opt!IInv, Opt!TypeOK
  <2> QED
    BY <2>1, FirstPanic DEF PanicPrinted, PrintingStopsOnlyInDivision
<1> QED
  BY <1>1, <1>2, NextPanicPrinted, BuildInvariance, PTL DEF BuildSpec

-----------------------------------------------------------------------------
(***************************************************************************)
(* What is printed and what the optimized graph calculates.                *)
(***************************************************************************)

\* Graphs of field elements whose operations all have a field version.
Elementary(ns) ==
    Opt!IsFieldGraph(ns) /\ \A i \in DOMAIN ns : ns[i].op \notin Opt!NoFieldVersion

\* On field elements the two versions of a node come to the same, unless the
\* one on words panics.
LEMMA PrintedValue ==
    ASSUME NEW n \in MadeNodes(program), Opt!IsFieldNode(n), n.op \notin Opt!NoFieldVersion,
           NEW vs, \A a \in Refs(n) : vs[a] \in Field, NEW inputs, NEW r,
           n.kind = "Input" => /\ n.val \in DOMAIN r /\ r[n.val] = inputs[n.val]
                               /\ inputs[n.val] \in Field,
           WordOf(n, vs, inputs) # Panic
    PROVE  WordOf(n, vs, inputs) \in Field /\ NodeValue(n, vs, r) = WordOf(n, vs, inputs)
<1>1. IsNode(n) /\ n.kind # "MontConstant"
  BY MadeIsNode DEF MadeNodes
<1>2. Panic \notin Field /\ \A a \in Refs(n) : vs[a] # Panic
  BY FieldElements DEF Panic
<1>3. \A k \in 1..Arity[n.kind] : n.args[k] \in Refs(n) /\ vs[n.args[k]] \in Field
  BY <1>1 DEF IsNode, Refs, Range
<1>4. n.kind \in {"Input", "Constant", "UnoOp", "Op", "TresOp"} /\ n.op \in Operations[n.kind]
  BY <1>1 DEF IsNode, Arity
<1>5. CASE n.kind = "Constant"
  <2>1. n.val \in Field
    BY <1>5 DEF Opt!IsFieldNode, Opt!Field, Field
  <2>2. WordOf(n, vs, inputs) = n.val /\ NodeValue(n, vs, r) = n.val % M
    BY <1>2, <1>5 DEF WordOf, NodeValue
  <2> QED
    BY <2>1, <2>2, FieldElements
<1>6. CASE n.kind = "Input"
  <2>1. WordOf(n, vs, inputs) = inputs[n.val] /\ NodeValue(n, vs, r) = r[n.val] % M
    BY <1>2, <1>6 DEF WordOf, NodeValue
  <2> QED
    BY <1>6, <2>1, FieldElements
<1>7. CASE n.kind = "UnoOp"
  <2>1. vs[n.args[1]] \in Field /\ n.op = "Neg"
    BY <1>3, <1>4, <1>7 DEF Arity, Operations, UnoOps, Opt!NoFieldVersion
  <2>2. WordOf(n, vs, inputs) = UnoEval("Neg", vs[n.args[1]])
        /\ NodeValue(n, vs, r) = UnoEvalFr("Neg", vs[n.args[1]])
    BY <1>2, <1>7, <2>1 DEF WordOf, NodeValue
  <2> QED
    BY <2>1, <2>2, NegationAgrees
<1>8. CASE n.kind = "Op"
  <2>1. vs[n.args[1]] \in Field /\ vs[n.args[2]] \in Field /\ n.op \in Arithmetic
    BY <1>3, <1>4, <1>8 DEF Arity, Operations, Arithmetic, Opt!NoFieldVersion, Opt!IsFieldNode
  <2>2. WordOf(n, vs, inputs) = Eval(n.op, vs[n.args[1]], vs[n.args[2]])
        /\ NodeValue(n, vs, r) = EvalFr(n.op, vs[n.args[1]], vs[n.args[2]])
    BY <1>2, <1>8 DEF WordOf, NodeValue
  <2>3. Agrees(n.op, vs[n.args[1]], vs[n.args[2]])
    BY <2>1, OperationsAgree
  <2> QED
    BY <2>2, <2>3 DEF Agrees
<1>9. CASE n.kind = "TresOp"
  <2>1. vs[n.args[2]] \in Field /\ vs[n.args[3]] \in Field
    BY <1>3, <1>9 DEF Arity
  <2>2. WordOf(n, vs, inputs) = TresEval(n.op, vs[n.args[1]], vs[n.args[2]], vs[n.args[3]])
        /\ NodeValue(n, vs, r) = TresEvalFr(n.op, vs[n.args[1]], vs[n.args[2]], vs[n.args[3]])
    BY <1>2, <1>9 DEF WordOf, NodeValue
  <2> QED
    BY <2>1, <2>2 DEF TresEval, TresEvalFr
<1> QED
  BY <1>4, <1>5, <1>6, <1>7, <1>8, <1>9

\* The inputs of the graph, out of a file of inputs.
InputsRead(inputs) == [i \in Opt!InputIndexes |-> inputs[i]]

\* A file of field elements has one for each input of the graph.
LEMMA FieldInputs ==
    ASSUME SampleValues \subseteq Field, program \in Programs, BuildersOwn,
           IsGraph(source.nodes), NEW inputs \in SampleInputs
    PROVE  /\ Opt!InputIndexes \subseteq DOMAIN inputs
           /\ \A i \in Opt!InputIndexes : inputs[i] \in Field
<1>1. inputs \in [0..Len(InputSignals(program)) -> SampleValues \cup {0, 1}]
  BY SampleShape
<1>2. SampleValues \cup {0, 1} \subseteq Field
  BY FieldElements
<1>3. ASSUME NEW v \in Opt!InputIndexes PROVE v \in 0..Len(InputSignals(program))
  <2>1. PICK n \in Range(source.nodes) : n.kind = "Input" /\ n.val = v
    BY <1>3 DEF Opt!InputIndexes, Opt!Range, Range
  <2>2. n \in MadeNodes(program)
    BY <2>1 DEF BuildersOwn, Range
  <2>3. v \in Nat /\ v <= Len(InputSignals(program)) /\ Len(InputSignals(program)) \in Nat
    BY <2>1, <2>2, HeldByNodes, InputSignalsType
  <2> QED
    BY <2>3
<1> QED
  BY <1>1, <1>2, <1>3

\* What is printed is what evaluate calculates from the builder's graph.
LEMMA PrintedMeaning ==
    ASSUME SampleValues \subseteq Field, program \in Programs, BuildersOwn,
           IsGraph(source.nodes), BackRefs(source.nodes), Elementary(source.nodes),
           NEW inputs, NEW values, ComesTo(source.nodes, inputs, values)
    PROVE  \A i \in DOMAIN source.nodes :
               values[i] \in Field /\ Values(source.nodes, InputsRead(inputs))[i] = values[i]
<1> DEFINE ns == source.nodes
           N == Len(ns)
           r == InputsRead(inputs)
           S == {i \in Nat : values[i] \in Field}
<1>1. N \in Nat /\ DOMAIN ns = 1..N /\ \A i \in 1..N : IsNode(ns[i])
  BY GraphShape
<1>2. /\ inputs \in SampleInputs
      /\ \A i \in 1..N : values[i] = WordOf(ns[i], values, inputs) /\ values[i] \in Words
  BY <1>1 DEF ComesTo
<1>3. \A i \in 1..N : /\ ns[i] \in MadeNodes(program) /\ Opt!IsFieldNode(ns[i])
                      /\ ns[i].op \notin Opt!NoFieldVersion
                      /\ Refs(ns[i]) \subseteq 1..i - 1
  BY <1>1 DEF BuildersOwn, Elementary, Opt!IsFieldGraph, BackRefs
<1>4. ASSUME NEW i \in 1..N, ns[i].kind = "Input"
      PROVE  ns[i].val \in DOMAIN r /\ r[ns[i].val] = inputs[ns[i].val]
             /\ inputs[ns[i].val] \in Field
  <2>1. ns[i].val \in Opt!InputIndexes
    BY <1>1, <1>4 DEF Opt!InputIndexes, Opt!Range
  <2>2. inputs[ns[i].val] \in Field
    BY <1>2, <2>1, FieldInputs
  <2> QED
    BY <2>1, <2>2 DEF InputsRead
<1>5. \A i \in 1..N : values[i] # Panic
  BY <1>2, Remainders DEF Panic
<1> HIDE DEF ns, N, r
<1>6. ASSUME NEW i \in 1..N, \A a \in Refs(ns[i]) : values[a] \in Field
      PROVE  values[i] \in Field /\ NodeValue(ns[i], values, r) = values[i]
  BY <1>2, <1>3, <1>4, <1>5, <1>6, PrintedValue
<1>7. \A i \in 1..N : i \in S
  <2>1. ASSUME NEW i \in 1..N, \A j \in 1..i - 1 : j \in S PROVE i \in S
    BY <1>1, <1>3, <1>6, <2>1
  <2> HIDE DEF S
  <2> QED
    BY <1>1, <2>1, NodeByNode
<1>8. \A i \in 1..N : \A a \in Refs(ns[i]) : values[a] \in Field
  <2> SUFFICES ASSUME NEW i \in 1..N, NEW a \in Refs(ns[i]) PROVE values[a] \in Field
    OBVIOUS
  <2>1. a \in 1..i - 1
    BY <1>3
  <2>2. a \in 1..N
    BY <1>1, <2>1
  <2> QED
    BY <1>7, <2>2
<1>9. \A i \in DOMAIN ns : values[i] = NodeValue(ns[i], values, r)
  BY <1>1, <1>6, <1>8
<1>10. \A i \in DOMAIN ns : Values(ns, r)[i] = values[i]
  <2>1. IsGraph(ns) /\ BackRefs(ns)
    BY DEF ns
  <2> QED
    BY <1>9, <2>1, ValuesUnique
<1> QED
  BY <1>1, <1>7, <1>10 DEF ns, r

\* A graph looks at the inputs it has nodes for, and at no others.
LEMMA OnlyItsInputs ==
    ASSUME NEW ns, IsGraph(ns), BackRefs(ns), NEW inputs, NEW r,
           \A i \in DOMAIN ns : ns[i].kind = "Input" =>
               ns[i].val \in DOMAIN r /\ ns[i].val \in DOMAIN inputs
               /\ r[ns[i].val] = inputs[ns[i].val]
    PROVE  Values(ns, inputs) = Values(ns, r)
<1> DEFINE vs == Values(ns, r)
           ws == Values(ns, inputs)
<1>1. \A i \in DOMAIN ns : vs[i] = NodeValue(ns[i], vs, r)
  BY ValuesFound
<1>2. vs \in Seq(Range(vs)) /\ DOMAIN vs = DOMAIN ns /\ ws \in Seq(Range(ws)) /\ DOMAIN ws = DOMAIN ns
  BY ValuesFound
<1> HIDE DEF vs, ws
<1>3. \A i \in DOMAIN ns : NodeValue(ns[i], vs, r) = NodeValue(ns[i], vs, inputs)
  BY DEF NodeValue
<1>4. \A i \in DOMAIN ns : ws[i] = vs[i]
  <2>1. \A i \in DOMAIN ns : vs[i] = NodeValue(ns[i], vs, inputs)
    BY <1>1, <1>3
  <2> QED
    BY <2>1, ValuesUnique DEF ws
<1>5. vs = [i \in DOMAIN vs |-> vs[i]] /\ ws = [i \in DOMAIN ws |-> ws[i]]
  BY <1>2
<1> QED
  BY <1>2, <1>4, <1>5 DEF vs, ws

\* For a signal of the witness the optimized graph calculates what is printed.
LEMMA PrintedBefore ==
    ASSUME SampleValues \subseteq Field, Optimizing, Elementary(source.nodes),
           NEW inputs, NEW values, ComesTo(source.nodes, inputs, values)
    PROVE  \A k \in DOMAIN outputs :
               Evaluate(nodes, inputs, outputs)[k] = values[source.outputs[k]] % M
<1> DEFINE r == InputsRead(inputs)
<1>1. /\ program \in Programs /\ BuildersOwn /\ inputs \in SampleInputs
      /\ Opt!ValidSource(source) /\ Opt!IsGraph(nodes) /\ Opt!BackRefs(nodes) /\ Opt!MeaningInv
      /\ Opt!NodesAreTheSources /\ Opt!IsFieldGraph(source.nodes)
  BY DEF Optimizing, BuildersOwn, PassesInv, GraphKept, Opt!IInv, Opt!TypeOK, ComesTo, Elementary
<1>2. /\ IsGraph(source.nodes) /\ BackRefs(source.nodes) /\ IsGraph(nodes) /\ BackRefs(nodes)
      /\ Range(source.outputs) \subseteq DOMAIN source.nodes
  BY <1>1, SameGraphs DEF Opt!ValidSource, Opt!Range, Range
<1>3. \A i \in DOMAIN source.nodes :
          values[i] \in Field /\ Values(source.nodes, r)[i] = values[i]
  BY <1>1, <1>2, PrintedMeaning
<1>4. r \in [Opt!InputIndexes -> Opt!Field]
  BY <1>1, <1>2, FieldInputs DEF InputsRead, Opt!Field, Field
<1>5. Opt!ComputesTheSources
  BY <1>1, OptimizerAssumes, Opt!MeaningIsTheWitness
<1> DEFINE vs == Values(source.nodes, r)
<1>6. DOMAIN vs = DOMAIN source.nodes
  BY <1>2, ValuesFound
<1>7. Panic \notin Range(vs) /\ Panic \notin Field
  BY <1>3, <1>6, FieldElements DEF Range, Panic
<1>8. Evaluate(source.nodes, r, source.outputs)
          = [k \in DOMAIN source.outputs |-> vs[source.outputs[k]]]
  BY <1>7 DEF Evaluate
<1> HIDE DEF vs
<1>9. \A k \in DOMAIN source.outputs :
          /\ vs[source.outputs[k]] \in Field
          /\ vs[source.outputs[k]] = values[source.outputs[k]]
  <2>1. \A k \in DOMAIN source.outputs : source.outputs[k] \in DOMAIN source.nodes
    BY <1>2 DEF Range
  <2> QED
    BY <1>3, <2>1 DEF vs
<1>10. Evaluate(source.nodes, r, source.outputs) # <<Panic>>
  <2> SUFFICES ASSUME Evaluate(source.nodes, r, source.outputs) = <<Panic>> PROVE FALSE
    OBVIOUS
  <2>1. 1 \in DOMAIN source.outputs /\ vs[source.outputs[1]] = Panic
    BY <1>8
  <2> QED
    BY <1>7, <1>9, <2>1
<1> HIDE DEF r
<1>11. Evaluate(nodes, r, outputs) = Evaluate(source.nodes, r, source.outputs)
  <2>1. Opt!Panic = Panic
    BY DEF Opt!Panic, Panic
  <2> QED
    BY <1>4, <1>5, <1>10, <2>1, SameValues DEF Opt!ComputesTheSources
<1>12. Evaluate(nodes, inputs, outputs) = Evaluate(nodes, r, outputs)
  <2>1. ASSUME NEW i \in DOMAIN nodes, nodes[i].kind = "Input"
        PROVE  nodes[i].val \in Opt!InputIndexes
    <3>1. PICK j \in DOMAIN source.nodes : Opt!Like(nodes[i], source.nodes[j])
      BY <1>1, <2>1 DEF Opt!NodesAreTheSources, Opt!MadeOf
    <3> QED
      BY <2>1, <3>1 DEF Opt!Like, Opt!InputIndexes, Opt!Range
  <2>2. \A v \in Opt!InputIndexes : v \in DOMAIN r /\ v \in DOMAIN inputs /\ r[v] = inputs[v]
    BY <1>1, <1>2, FieldInputs DEF r, InputsRead
  <2>3. Values(nodes, inputs) = Values(nodes, r)
    BY <1>2, <2>1, <2>2, OnlyItsInputs
  <2> QED
    BY <2>3 DEF Evaluate
<1>13. DOMAIN outputs = DOMAIN source.outputs
  BY <1>1 DEF Opt!MeaningInv
<1>14. \A x \in Field : x % M = x
  BY FieldElements
<1>15. \A k \in DOMAIN outputs : Evaluate(nodes, inputs, outputs)[k] = vs[source.outputs[k]]
  BY <1>8, <1>11, <1>12, <1>13
<1> QED
  BY <1>9, <1>13, <1>14, <1>15

\* Whatever program is compiled: what is printed for the signals of the witness
\* on a file of field elements is what the optimized graph calculates, if the
\* graph is of field elements and none of its operations leaves the field.
THEOREM PrintedWitness ==
    ASSUME SampleValues \subseteq Field
    PROVE  BuildSpec => [](Elementary(source.nodes) => PrintedIsTheWitness)
<1>1. BuildInv /\ PrintedInv => (Elementary(source.nodes) => PrintedIsTheWitness)
  <2>1. BuildInv /\ pass = "done" => Optimizing
    BY DEF BuildInv, Waiting, Stopped, Refused, Written
  <2>2. PrintedInv /\ pass = "done" => PrintedOf(source.nodes)
    BY DEF PrintedInv
  <2> QED
    BY <2>1, <2>2, PrintedBefore DEF PrintedIsTheWitness, PrintedOf
<1> QED
  BY <1>1, InitPrinted, NextPrinted, BuildInvariance, PTL DEF BuildSpec
=============================================================================
