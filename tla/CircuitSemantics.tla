-------------------------- MODULE CircuitSemantics --------------------------
(***************************************************************************)
(* What a compiled program means: the values its signals have when it is   *)
(* run on numbers, as Circom's own witness generators run it.  The program *)
(* is run from its first instruction to its last; a branch runs one of its *)
(* sides, a loop runs while its condition holds, a return ends its         *)
(* function, and a component runs once all of its inputs are there.        *)
(***************************************************************************)
EXTENDS BuildCircuit

Missing == -1

\* The state of a run: signals, and the variables, components, first signal
\* and result of the template or function that is running.
State(sig, vs, cs, start) ==
    [sig |-> sig, vars |-> vs, comps |-> cs, start |-> start, ret |-> <<>>]

RECURSIVE ValueOf(_, _), At(_, _)

\* The place an address stands for.
At(a, s) ==
    LET idx == IF a.at = <<>> THEN 0 ELSE ValueOf(a.at[1], s)
        c == s.comps[ValueOf(a.cmp[1], s)]
    IN  CASE a.addr = "Variable" -> idx
          [] a.addr = "Signal" -> s.start + idx
          [] a.addr = "Subcmp" -> c.offset + idx + (IF a.code = Indexed THEN 0
                                                    ELSE program.io[c.template][a.code])
ValueAt(a, p, s) == IF a.addr = "Variable" THEN s.vars[p] ELSE s.sig[p]

ValueOf(e, s) ==
    LET x(k) == ValueOf(e.args[k], s)
    IN  CASE e.kind = "Value" ->
               IF e.as = "BigInt" THEN program.constants[e.val + 1] ELSE e.val
          [] e.kind = "Load" -> ValueAt(e, At(e, s), s)
          [] e.kind = "Compute" ->
               CASE e.op = "MulAddress" -> x(1) * x(2)
                 [] e.op = "AddAddress" -> x(1) + x(2)
                 [] e.op = "ToAddress" -> x(1)
                 [] e.op = "PrefixSub" -> UnoEvalFr("Neg", x(1))
                 [] OTHER -> EvalFr(e.op, x(1), x(2))
ValuesOf(e, n, s) ==
    [k \in 1..n |-> CASE e.kind = "Load" -> ValueAt(e, At(e, s) + k - 1, s)
                      [] e.kind = "Value" /\ n > 1 -> program.constants[e.val + k]
                      [] OTHER -> ValueOf(e, s)]

RECURSIVE Run(_, _), Step(_, _), RunTemplate(_, _, _), Repeat(_, _)

Run(body, s) ==
    IF body = <<>> \/ s.ret # <<>> THEN s ELSE Run(Tail(body), Step(Head(body), s))
Repeat(loop, s) ==
    IF s.ret # <<>> \/ ValueOf(loop.cond, s) = 0 THEN s ELSE Repeat(loop, Run(loop.body, s))
RunTemplate(t, start, sig) ==
    LET tmpl == program.templates[t]
    IN  Run(tmpl.body, State(sig, [v \in 0..tmpl.vars - 1 |-> Missing],
                             [c \in 0..tmpl.comps - 1 |-> None], start)).sig

\* vs are stored at the address a.
Stored(a, vs, s) ==
    LET p == At(a, s)
        put == [k \in p..p + Len(vs) - 1 |-> vs[k - p + 1]]
        sig == put @@ s.sig
        c == ValueOf(a.cmp[1], s)
        complete == \A i \in InputsOf(s.comps[c]) : sig[i] # Missing
    IN  CASE a.addr = "Variable" -> [s EXCEPT !.vars = put @@ @]
          [] a.addr = "Signal" -> [s EXCEPT !.sig = sig]
          [] a.addr = "Subcmp" ->
               [s EXCEPT !.sig = IF complete
                                 THEN RunTemplate(s.comps[c].template, s.comps[c].offset, sig)
                                 ELSE sig]

Created(i, s) ==
    LET first == ValueOf(i.id, s)
        cs == first..first + i.number - 1
        comp(c) == [template |-> i.template, inputs |-> 0,
                    offset |-> s.start + i.offset + (c - first) * i.jump]
    IN  [s EXCEPT !.comps = [c \in cs |-> comp(c)] @@ @,
                  !.sig = IF i.hasInputs THEN @
                          ELSE FoldFunction(LAMBDA c, sig : RunTemplate(i.template, c, sig), @,
                                            [k \in 1..i.number |-> comp(first + k - 1).offset])]

Step(i, s) ==
    CASE i.kind = "Store" -> Stored(i, ValuesOf(i.src, i.size, s), s)
      [] i.kind = "Branch" -> Run(IF ValueOf(i.cond, s) # 0 THEN i.ifs ELSE i.elses, s)
      [] i.kind = "Loop" -> Repeat(i, s)
      [] i.kind = "Return" -> [s EXCEPT !.ret = ValuesOf(i.src, i.size, s)]
      [] i.kind = "CreateCmp" -> Created(i, s)
      [] i.kind = "Call" ->
           LET args == FlattenSeq([k \in DOMAIN i.args |-> ValuesOf(i.args[k], i.sizes[k], s)])
               called == Run(program.functions[i.fn],
                             State(s.sig, [v \in 0..i.arena - 1 |->
                                       IF v < Len(args) THEN args[v + 1] ELSE Missing],
                                   <<>>, 0))
           IN  Stored(i, called.ret, s)
      [] OTHER -> s

-----------------------------------------------------------------------------
\* The signals of a run on the given inputs.
Execution(inputs) ==
    LET ins == <<0>> \o InputSignals(program)
        sig == [s \in DOMAIN signals |->
                  IF s \in Range(ins) THEN inputs[(CHOOSE k \in DOMAIN ins : ins[k] = s) - 1]
                                      ELSE Missing]
    IN  RunTemplate(program.main, 1, sig)

\* The graph of a program gives every signal, on all inputs, the value that
\* running the program gives it, and no value to the signals that the program
\* does not set: "a drop-in replacement for Circom's witness generator"
\* (README.md:5).
InputBuffers == {(0 :> 1) @@ f : f \in [InputPlaces -> Field]}
GraphComputesTheCircuit ==
    pc = "built" /\ pass = "waiting" =>
        \A inputs \in InputBuffers :
            LET values == Values(nodes, inputs)
                run == Execution(inputs)
            IN  \A s \in DOMAIN signals :
                    run[s] = IF signals[s] = Unset THEN Missing ELSE values[signals[s]]

\* The witness calculated from the graph in the file, with a buffer of the size
\* that calc_witness gives it, is on all inputs that of the circuit: each of its
\* signals has been given a value, and the value has come through building,
\* renumbering, folding, merging, dropping, and the conversion to messages
\* and back, in a graph whose positions a message can tell apart.
WitnessIsTheCircuits ==
    pass = "saved" /\ Len(nodes) <= Indexes =>
        \A inputs \in InputBuffers :
            LET run == Execution(inputs)
                buffer == [i \in 0..InputsSize(LoadedNodes) - 1 |-> inputs[i]]
            IN  Evaluate(LoadedNodes, buffer, LoadedOutputs) =
                    [k \in DOMAIN program.witness |-> run[program.witness[k]]]
=============================================================================
