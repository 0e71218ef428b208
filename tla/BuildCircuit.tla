----------------------------- MODULE BuildCircuit -----------------------------
(***************************************************************************)
(* main of build-circuit (src/src/bin/build-circuit.rs) from the program   *)
(* to the messages that are written: the builder runs the program          *)
(* (Builder), the unoptimized graph is evaluated and printed if asked for  *)
(* (-print-unoptimized), the optimizer rewrites the same vectors in place  *)
(* (Optimizer), and what is left is converted to messages (NodeMessages);  *)
(* the bytes of the messages are the matter of GraphStorage.               *)
(***************************************************************************)
EXTENDS Builder, NodeMessages

CONSTANT SampleValues   \* values in a file of inputs (-i), U256

ASSUME SampleAssumption == SampleValues \subseteq Words

VARIABLES source, pass, round, cursor, used, panic,   \* as in Optimizer
          printed,    \* what was printed: records [inputs, values]
          saved       \* the messages of the nodes, and the outputs
optimizerVars == <<source, pass, round, cursor, used, panic>>
buildVars == <<vars, optimizerVars, printed, saved>>

\* pass is "waiting" until optimize is called.  The instance brings what is
\* proved about the optimizer along.
Opt == INSTANCE Optimizer_proofs WITH Sources <- {}, pc <- pass

BuildInit ==
    /\ Init
    /\ source = [nodes |-> <<>>, outputs |-> <<>>]
    /\ pass = "waiting" /\ round = 1 /\ cursor = 0 /\ used = {}
    /\ panic = "none" /\ printed = {}
    /\ saved = [nodes |-> <<>>, outputs |-> <<>>]

BuildStep == Next /\ UNCHANGED <<optimizerVars, printed, saved>>

-----------------------------------------------------------------------------
\* evaluate_unoptimized: every node on words, as folding has it, with the
\* inputs as they are in the file, or 0 when there is no file.
\* A variant for the mutation runs: the operands the other way round.
WordOfSwapped(n, vs, inputs) ==
    LET x(k) == vs[n.args[k]]
    IN  IF \E a \in Refs(n) : vs[a] = Panic THEN Panic
        ELSE CASE n.kind = "Constant" -> n.val
          [] n.kind = "Input" -> inputs[n.val]
          [] n.kind = "UnoOp" -> UnoEval(n.op, x(1))
          [] n.kind = "Op" -> Eval(n.op, x(2), x(1))
          [] n.kind = "TresOp" -> TresEval(n.op, x(1), x(2), x(3))
WordOf(n, vs, inputs) ==
    LET x(k) == vs[n.args[k]]
    IN  IF \E a \in Refs(n) : vs[a] = Panic THEN Panic
        ELSE CASE n.kind = "Constant" -> n.val
          [] n.kind = "Input" -> inputs[n.val]
          [] n.kind = "UnoOp" -> UnoEval(n.op, x(1))
          [] n.kind = "Op" -> Eval(n.op, x(1), x(2))
          [] n.kind = "TresOp" -> TresEval(n.op, x(1), x(2), x(3))
Unoptimized(inputs) ==
    LET upTo[i \in 0..Len(nodes)] ==
            IF i = 0 THEN <<>>
            ELSE LET vs == upTo[i - 1] IN Append(vs, WordOf(nodes[i], vs, inputs))
    IN  upTo[Len(nodes)]

InputPlaces == 1..Len(InputSignals(program))
SampleInputs ==
    {[i \in {0} \cup InputPlaces |-> IF i = 0 THEN 1 ELSE f[i]] :
        f \in [InputPlaces -> SampleValues] \cup {[i \in InputPlaces |-> 0]}}

PrintUnoptimized(inputs) ==
    /\ pc = "built" /\ pass = "waiting" /\ printed = {}
    /\ LET values == Unoptimized(inputs)
       IN  IF Panic \in Range(values)
           THEN pass' = "panicked" /\ panic' = "print" /\ UNCHANGED printed
           ELSE /\ printed' = {[inputs |-> inputs, values |-> values]}
                /\ UNCHANGED <<pass, panic>>
    /\ UNCHANGED <<vars, source, round, cursor, used, saved>>

-----------------------------------------------------------------------------
StartOptimize ==
    /\ pc = "built" /\ pass = "waiting"
    /\ source' = [nodes |-> nodes, outputs |-> outputs]
    /\ pass' = "shake"
    /\ UNCHANGED <<vars, round, cursor, used, panic, printed, saved>>

OptimizeStep == Opt!Next /\ UNCHANGED <<program, signals, stack, pc, printed, saved>>

\* serialize_witnesscalc_graph: the messages of the nodes and of the outputs.
Serialize ==
    /\ pass = "done"
    /\ IF \A k \in DOMAIN nodes : Writable(nodes[k])
       THEN /\ saved' = [nodes |-> [k \in DOMAIN nodes |-> ToMessage(nodes[k])],
                         outputs |-> [k \in DOMAIN outputs |-> (outputs[k] - 1) % Indexes]]
            /\ pass' = "saved" /\ panic' = panic
       ELSE pass' = "panicked" /\ panic' = "constant" /\ saved' = saved
    /\ UNCHANGED <<vars, source, round, cursor, used, printed>>

\* deserialize_witnesscalc_graph: the graph that calc_witness gets.
LoadedNodes == [k \in DOMAIN saved.nodes |-> FromMessage(saved.nodes[k])]
LoadedOutputs == [k \in DOMAIN saved.outputs |-> saved.outputs[k] + 1]

BuildNext ==
    \/ BuildStep
    \/ \E inputs \in SampleInputs : PrintUnoptimized(inputs)
    \/ StartOptimize
    \/ OptimizeStep
    \/ Serialize
BuildSpec == BuildInit /\ [][BuildNext]_buildVars

-----------------------------------------------------------------------------
\* Until optimize is called all references are to nodes of the builder's
\* graph; the optimizer's variables have their types from then on.
BuildTypeOK ==
    /\ IsGraph(nodes)
    /\ pass = "waiting" => TypeOK
    /\ pass \in Opt!Passes \cup {"waiting", "saved"} /\ round \in 1..3
    /\ cursor \in Nat /\ used \subseteq Nat
    /\ panic \in {"none", "print", "assert", "unwrap", "eval", "unimplemented", "constant"}
    /\ (panic = "none") = (pass # "panicked")
    /\ \A p \in printed : p.inputs[0] = 1 /\ Range(p.values) \subseteq Words
    /\ IsGraph(LoadedNodes)

\* What optimize is given is what it relies on, but for one thing: a witness
\* signal that nothing was assigned to.  The assertion of main that is meant to
\* find it (2228) looks at the signal's number.  Every other internal check
\* of the passes holds.
OnlyUnsetSignalsStopOptimize ==
    panic \in {"assert", "unwrap"} =>
        \E k \in DOMAIN program.witness : signals[program.witness[k]] = Unset

\* Where printing the graph has stopped a build, there are sample inputs on
\* which the first node that panics is a division: of integers by 0, or in the
\* field by a word that is a multiple of the modulus, which shifts can make.
\* Every other operation of eval has a word for all words.
Undivided(op, b) ==
    \/ op \in {"Idiv", "Mod"} /\ b = 0
    \/ op = "Div" /\ b # 0 /\ b % M = 0
PrintingStopsOnlyInDivision ==
    panic = "print" =>
        \E inputs \in SampleInputs :
            LET vs == Unoptimized(inputs)
                panics == {k \in DOMAIN vs : vs[k] = Panic}
                n == nodes[Min(panics)]
            IN  panics # {} /\ n.kind = "Op" /\ Undivided(n.op, vs[n.args[2]])

\* A message can tell the positions of the graph and the inputs apart.
PositionsFit == Len(nodes) <= Indexes /\ Len(InputSignals(program)) < Indexes

\* The graph that is read from the file is the one that was written, node by
\* node: no operation, operand, constant or output comes back as another.
FileKeepsTheGraph ==
    pass = "saved" /\ PositionsFit => LoadedNodes = nodes /\ LoadedOutputs = outputs

\* What -print-unoptimized shows for a signal of the witness is the value the
\* optimized graph calculates for it, on the same inputs: both versions of
\* every operator and all of the passes in between agree.
PrintedIsTheWitness ==
    pass = "done" => \A p \in printed :
        LET witness == Evaluate(nodes, p.inputs, outputs)
        IN  witness # <<Panic>> =>
                \A k \in DOMAIN outputs :
                    witness[k] = p.values[source.outputs[k]] % M
=============================================================================
