------------------------------- MODULE Builder -------------------------------
(***************************************************************************)
(* build-circuit (src/src/bin/build-circuit.rs): it runs a compiled Circom *)
(* program on symbolic values and leaves behind the graph of what it has   *)
(* done.  A frame stands for a call of run_template or of run_function: it *)
(* has a list of things to do and the values they have left; the callees   *)
(* of the Rust functions are the frames and the things to do in front of   *)
(* it.                                                                     *)
(*                                                                         *)
(* There are three evaluators of expressions in the code.  They are called *)
(*   operand   operator_argument_instruction(_n): leaves nodes;            *)
(*   template  calc_expression(_n): leaves nodes, or values where it can;  *)
(*   function  calc_function_expression(_n): the same, on variables only.  *)
(***************************************************************************)
EXTENDS Graph

CONSTANTS Programs,       \* compiled programs, with the fields used below
          Expressions,    \* the expressions in them, and those in expressions
          Instructions    \* the instructions in them, and those in instructions

VARIABLES program, nodes,
          signals,    \* the position of each signal's node, or Unset
          stack,      \* the frames, the one that runs first
          outputs,    \* witness_node_idxes
          pc          \* "run", "built" or "panic"
vars == <<program, nodes, signals, stack, outputs, pc>>

Unset == 0          \* usize::MAX in the code: no node has position 0
None == [type |-> "None", val |-> 0]
Value(v) == [type |-> "Value", val |-> v]
NodeAt(i) == [type |-> "Node", val |-> i]
Indexed == -1       \* the code of an address without a signal code

-----------------------------------------------------------------------------
\* What the types of the compiler guarantee of its output, and the sizes that
\* it calculates: numbers that are not negative, operands that are expressions
\* (of es), blocks of instructions (of is), one index where an address has no
\* signal code, a size for each argument.

IsAddress(a, es) ==
    /\ a.addr \in {"Variable", "Signal", "Subcmp"}
    /\ a.cmp \in Seq(es) /\ a.at \in Seq(es)
    /\ Len(a.cmp) = (IF a.addr = "Subcmp" THEN 1 ELSE 0)
    /\ a.code = Indexed => Len(a.at) = 1
IsExpression(e, es) ==
    /\ e.kind = "Value" => e.val \in Words
    /\ e.kind = "Load" => IsAddress(e, es)
    /\ e.kind = "Compute" => e.args \in Seq(es)
IsInstruction(i, is, es) ==
    /\ i.kind \in {"Store", "Call"} => IsAddress(i, es) /\ i.size \in Nat
    /\ i.kind \in {"Store", "Return"} => i.src \in es /\ i.size \in Nat
    /\ i.kind = "Call" => /\ i.args \in Seq(es) /\ i.sizes \in [DOMAIN i.args -> Nat]
                          /\ i.arena \in Nat
    /\ i.kind \in {"Branch", "Loop"} => i.cond \in es
    /\ i.kind = "Branch" => i.ifs \in Seq(is) /\ i.elses \in Seq(is)
    /\ i.kind = "Loop" => i.body \in Seq(is)
    /\ i.kind = "CreateCmp" => i.id \in es /\ {i.number, i.offset, i.jump} \subseteq Nat
IsProgram(p, is) ==
    /\ p.constants \in Seq(Words) /\ p.inputs \in Seq([at : Nat, len : Nat])
    /\ p.signals \in Nat /\ p.main \in DOMAIN p.templates
    /\ \A t \in DOMAIN p.templates : p.templates[t].body \in Seq(is)
    /\ \A f \in DOMAIN p.functions : p.functions[f] \in Seq(is)
    /\ \A t \in DOMAIN p.io : \A c \in DOMAIN p.io[t] : p.io[t][c] \in Nat
    /\ p.witness \in Seq(Nat)
    /\ \A k \in DOMAIN p.witness : p.witness[k] \in 0..p.signals - 1
AreCompiled(ps, is, es) ==
    /\ \A p \in ps : IsProgram(p, is)
    /\ \A i \in is : IsInstruction(i, is, es)
    /\ \A e \in es : IsExpression(e, es)

ASSUME ProgramsAssumption == AreCompiled(Programs, Instructions, Expressions)

-----------------------------------------------------------------------------
\* Frames and what they have to do.

Do(do, by, what, n) == [do |-> do, by |-> by, what |-> what, n |-> n]
Calc(by, e, n) == Do("calc", by, e, n)
Apply(by, e, n) == Do("apply", by, e, n)
Finish(i) == Do("finish", "none", i, 0)
EndBranch == Do("end branch", "none", None, 0)
Block(body) == [k \in DOMAIN body |-> Do("exec", "none", body[k], 0)]

TemplateFrame(t, start) ==
    LET tmpl == program.templates[t]
    IN  [type |-> "template", todo |-> Block(tmpl.body), vals |-> <<>>,
         vars |-> [v \in 0..tmpl.vars - 1 |-> None],
         comps |-> [c \in 0..tmpl.comps - 1 |-> None], start |-> start]
FunctionFrame(fn, args) ==
    [type |-> "function", todo |-> Block(program.functions[fn]),
     vals |-> <<>>, vars |-> args, comps |-> <<>>, start |-> 0]

Frame == Head(stack)
Item == Head(Frame.todo)
Doing(do) == pc = "run" /\ Frame.todo # <<>> /\ Item.do = do
DoingA(do, kind) == Doing(do) /\ Item.what.kind = kind

\* The frame goes on with these items, and with vs in the place of the last
\* k values.
Top(k) == SubSeq(Frame.vals, Len(Frame.vals) - k + 1, Len(Frame.vals))
Below(k) == SubSeq(Frame.vals, 1, Len(Frame.vals) - k)
Resumed(items, k, vs) ==
    [Frame EXCEPT !.todo = items \o Tail(@), !.vals = Below(k) \o vs]
Resume(items, k, vs) ==
    /\ stack' = <<Resumed(items, k, vs)>> \o Tail(stack)
    /\ UNCHANGED <<program, outputs, pc>>
Expand(items) == Resume(items, 0, <<>>) /\ UNCHANGED <<nodes, signals>>
Leave(k, vs, ns) == Resume(<<>>, k, <<vs>>) /\ nodes' = ns /\ UNCHANGED signals

\* Every panic!, todo!, assert!, unwrap and index out of range.
Panics == pc' = "panic" /\ UNCHANGED <<program, nodes, signals, stack, outputs>>

-----------------------------------------------------------------------------
\* Constants and operators

\* Nodes::to_const: the value of a node that depends on constants only.
NotConst == -2
ConstOf(n, vs) ==
    LET bad == {k \in DOMAIN n.args : vs[n.args[k]] < 0}
        x(k) == vs[n.args[k]]
    IN  IF bad # {} THEN x(Min(bad))
        ELSE CASE n.kind = "Constant" -> n.val
          [] n.kind = "Input" -> NotConst
          [] n.kind = "UnoOp" -> UnoEval(n.op, x(1))
          [] n.kind = "Op" -> Eval(n.op, x(1), x(2))
          [] n.kind = "TresOp" -> TresEval(n.op, x(1), x(2), x(3))
ToConst(v) ==
    IF v.type = "Value" THEN v.val
    ELSE FoldLeft(LAMBDA vs, n : Append(vs, ConstOf(n, vs)), <<>>, nodes)[v.val]

IsConstant(i) == i \in DOMAIN nodes /\ nodes[i].kind = "Constant"

\* DUO_OPERATORS_MAP and UNO_OPERATORS_MAP; those of Circom's operators that
\* are in neither are not supported.
DuoOperators ==
    [o \in (DuoOps \ {"Lor"}) \cup {"MulAddress", "AddAddress"} |->
        CASE o = "MulAddress" -> "Mul" [] o = "AddAddress" -> "Add" [] OTHER -> o]
UnoOperators == [PrefixSub |-> "Neg", ToAddress |-> "Id"]

\* What an operation on two values folds to: addresses are words, the others
\* are as Operation::eval has them, but for Lesser in a template.
Folded(by, op, a, b) ==
    CASE by = "template" /\ op = "MulAddress" -> (a * b) % Word
      [] by = "template" /\ op = "AddAddress" -> (a + b) % Word
      [] by = "template" /\ op = "Lt" -> Bool(a < b)
      [] OTHER -> Eval(DuoOperators[op], a, b)

\* node_from_var for each of vs: a value gets a constant node of its own.
ValuesIn(vs) == {k \in DOMAIN vs : vs[k].type = "Value"}
ConstantsFor(vs) ==
    [j \in 1..Cardinality(ValuesIn(vs)) |-> Constant(Kept(vs, ValuesIn(vs))[j].val)]
\* A variant for the mutation runs: the position is one too far.
AsNodesAhead(vs, ns) ==
    [nodes |-> ns \o ConstantsFor(vs),
     vals |-> [k \in DOMAIN vs |->
                  IF k \in ValuesIn(vs) THEN NodeAt(Len(ns) + Renumber(ValuesIn(vs))[k] + 1)
                                        ELSE vs[k]]]
AsNodes(vs, ns) ==
    [nodes |-> ns \o ConstantsFor(vs),
     vals |-> [k \in DOMAIN vs |->
                  IF k \in ValuesIn(vs) THEN NodeAt(Len(ns) + Renumber(ValuesIn(vs))[k])
                                        ELSE vs[k]]]

-----------------------------------------------------------------------------
\* Addresses: of a signal, of a variable, or of a signal of a subcomponent,
\* which may be given by its code in the template's IO map.

AddressKnown(by, a) ==
    /\ by = "function" => a.addr = "Variable"
    /\ IF a.code = Indexed THEN Len(a.at) = 1 ELSE a.addr = "Subcmp" /\ Len(a.at) < 2
AddressLen(a) == Len(a.cmp) + Len(a.at)
\* An operand's address is an expression of the template.
CalcAddress(by, a) ==
    LET es == a.cmp \o a.at
    IN  [k \in DOMAIN es |->
            Calc(IF by = "function" THEN "function" ELSE "template", es[k], 1)]

\* xs are the values CalcAddress has left.
Consts(xs) == [k \in DOMAIN xs |-> ToConst(xs[k][1])]
Codes(t) == IF t \in DOMAIN program.io THEN DOMAIN program.io[t] ELSE {}
Located(a, xs) ==
    /\ \A k \in DOMAIN xs : Consts(xs)[k] \in Nat
    /\ a.addr = "Subcmp" =>
           LET c == Consts(xs)[1]
           IN  /\ c \in DOMAIN Frame.comps /\ Frame.comps[c] # None
               /\ a.code # Indexed => a.code \in Codes(Frame.comps[c].template)
Component(xs) == Frame.comps[Consts(xs)[1]]
Location(a, xs) ==
    LET cs == Consts(xs)
    IN  CASE a.addr = "Variable" -> cs[1]
          [] a.addr = "Signal" -> Frame.start + cs[1]
          [] a.addr = "Subcmp" ->
                Component(xs).offset
                  + (IF a.code = Indexed THEN cs[2]
                     ELSE program.io[Component(xs).template][a.code]
                              + (IF Len(a.at) = 1 THEN cs[2] ELSE 0))

-----------------------------------------------------------------------------
\* Expressions

\* var_from_value_instruction_n
CalcValue ==
    /\ DoingA("calc", "Value")
    /\ LET e == Item.what
           several == Item.n = 1 \/ Item.by = "function"
       IN  IF e.as = "BigInt" /\ several /\ \A k \in 1..Item.n : IsConstant(e.val + k)
           THEN Leave(0, [k \in 1..Item.n |-> NodeAt(e.val + k)], nodes)
           ELSE IF e.as = "U32" /\ Item.n = 1 /\ Item.by # "operand"
                THEN Leave(0, <<Value(e.val)>>, nodes)
                ELSE Panics

\* An operand has at least one element.
CalcLoad ==
    /\ DoingA("calc", "Load")
    /\ IF AddressKnown(Item.by, Item.what) /\ (Item.by = "operand" => Item.n > 0)
       THEN Expand(CalcAddress(Item.by, Item.what)
                     \o <<Apply(Item.by, Item.what, Item.n)>>)
       ELSE Panics

\* load_n, and the loads of the other two evaluators.  What is loaded must
\* have been set.
Read(a, p) ==
    IF a.addr = "Variable"
    THEN IF p \in DOMAIN Frame.vars THEN Frame.vars[p] ELSE None
    ELSE IF p \in DOMAIN signals /\ signals[p] # Unset
         THEN NodeAt(signals[p]) ELSE None
ApplyLoad ==
    /\ DoingA("apply", "Load")
    /\ LET e == Item.what
           xs == Top(AddressLen(e))
           vs == [k \in 1..Item.n |-> Read(e, Location(e, xs) + k - 1)]
           r == AsNodes(vs, nodes)
       IN  IF Located(e, xs) /\ \A k \in DOMAIN vs : vs[k] # None
           THEN IF Item.by = "operand" THEN Leave(Len(xs), r.vals, r.nodes)
                                       ELSE Leave(Len(xs), vs, nodes)
           ELSE Panics

CalcCompute ==
    /\ DoingA("calc", "Compute")
    /\ LET e == Item.what
       IN  IF Item.n = 1 /\ \/ e.op \in DOMAIN DuoOperators /\ Len(e.args) = 2
                            \/ e.op \in DOMAIN UnoOperators /\ Len(e.args) = 1
           THEN Expand([k \in DOMAIN e.args |-> Calc(Item.by, e.args[k], 1)]
                         \o <<Apply(Item.by, e, 1)>>)
           ELSE Panics

\* node_from_compute_bucket, build_binary_op_var, compute_function_expression
ApplyDuo ==
    /\ DoingA("apply", "Compute") /\ Len(Item.what.args) = 2
    /\ LET a == Top(2)[1][1]
           b == Top(2)[2][1]
           v == Folded(Item.by, Item.what.op, a.val, b.val)
           r == AsNodes(<<a, b>>, nodes)
           n == Op(DuoOperators[Item.what.op], r.vals[1].val, r.vals[2].val)
       IN  IF a.type = "Value" /\ b.type = "Value"
           THEN IF v = Panic THEN Panics ELSE Leave(2, <<Value(v)>>, nodes)
           ELSE Leave(2, <<NodeAt(Len(r.nodes) + 1)>>, Append(r.nodes, n))

\* build_unary_op_var insists that an address is a constant.
ApplyUno ==
    /\ DoingA("apply", "Compute") /\ Len(Item.what.args) = 1
    /\ LET a == Top(1)[1][1]
           op == UnoOperators[Item.what.op]
       IN  IF a.type = "Value" THEN Leave(1, <<Value(UnoEval(op, a.val))>>, nodes)
           ELSE IF Item.by = "template" /\ op = "Id" /\ ToConst(a) < 0 THEN Panics
           ELSE Leave(1, <<NodeAt(Len(nodes) + 1)>>, Append(nodes, UnoOp(op, a.val)))

Expression == CalcValue \/ CalcLoad \/ ApplyLoad \/ CalcCompute \/ ApplyDuo \/ ApplyUno

-----------------------------------------------------------------------------
\* Stores.  The address of a signal or a variable is calculated before what
\* is stored there, that of a subcomponent's signal after it.

Put(i, below) == Do("put", below, i, 0)
StoreItems(i) ==
    LET src == Calc(IF i.addr = "Variable" THEN Frame.type ELSE "operand", i.src, i.size)
    IN  IF i.addr = "Subcmp"
        THEN <<src>> \o CalcAddress(Frame.type, i) \o <<Put(i, "source")>>
        ELSE CalcAddress(Frame.type, i) \o <<src, Put(i, "address")>>
ExecStore ==
    /\ DoingA("exec", "Store")
    /\ IF AddressKnown(Frame.type, Item.what) THEN Expand(StoreItems(Item.what)) ELSE Panics

\* What a "put" finds: the values to store and where.
PutLen == AddressLen(Item.what) + 1
Source == IF Item.by = "source" THEN Top(PutLen)[1] ELSE Top(1)[1]
Address == IF Item.by = "source" THEN Top(PutLen - 1) ELSE SubSeq(Top(PutLen), 1, PutLen - 1)
Places == LET p == Location(Item.what, Address) IN p..p + Item.what.size - 1
SourceAt(p) == Source[p - Location(Item.what, Address) + 1]

\* A signal is set once.
Free(ps) == ps \subseteq DOMAIN signals /\ \A p \in ps : signals[p] = Unset
SetSignals ==
    [p \in DOMAIN signals |-> IF p \in Places THEN SourceAt(p).val ELSE signals[p]]

PutSignal ==
    /\ Doing("put") /\ Item.what.addr = "Signal"
    /\ IF Located(Item.what, Address) /\ Free(Places)
       THEN /\ signals' = SetSignals
            /\ Resume(<<>>, PutLen, <<>>) /\ UNCHANGED nodes
       ELSE Panics

SetVariables ==
    [p \in DOMAIN Frame.vars |-> IF p \in Places THEN SourceAt(p) ELSE Frame.vars[p]]
PutVariable ==
    /\ Doing("put") /\ Item.what.addr = "Variable"
    /\ IF Located(Item.what, Address) /\ Places \subseteq DOMAIN Frame.vars
       THEN /\ stack' = <<[Resumed(<<>>, PutLen, <<>>) EXCEPT !.vars = SetVariables]>>
                          \o Tail(stack)
            /\ UNCHANGED <<program, nodes, signals, outputs, pc>>
       ELSE Panics

\* A variant for the mutation runs: a store is one input, whatever its size.
LeftByOne(comp, size) == comp.inputs - 1
Left(comp, size) == comp.inputs - size

\* store_subcomponent_signals: the component runs when no input is left.  A
\* countdown below 0 panics where the build checks for overflow, and is a
\* number that is not 0 where it does not.
PutSubcomponent ==
    /\ Doing("put") /\ Item.what.addr = "Subcmp"
    /\ IF Located(Item.what, Address) /\ Free(Places)
       THEN LET c == Consts(Address)[1]
                comp == Component(Address)
                left == Left(comp, Item.what.size)
                runs == left = 0 /\ Item.what.status # "NoLast"
            IN  \/ /\ \/ left < 0
                      \/ Item.what.status = "Last" /\ left # 0
                      \/ Item.what.status = "NoLast" /\ left = 0
                   /\ Panics
                \/ /\ Item.what.status = "Last" => left = 0
                   /\ Item.what.status = "NoLast" => left # 0
                   /\ signals' = SetSignals
                   /\ stack' = (IF runs THEN <<TemplateFrame(comp.template, comp.offset)>>
                                        ELSE <<>>)
                                 \o <<[Resumed(<<>>, PutLen, <<>>) EXCEPT
                                         !.comps[c].inputs = left]>> \o Tail(stack)
                   /\ UNCHANGED <<program, nodes, outputs, pc>>
       ELSE Panics

Store == ExecStore \/ PutSignal \/ PutVariable \/ PutSubcomponent

-----------------------------------------------------------------------------
\* Calls and returns.  The caller waits with an item that says where the
\* result goes.

ExecCall ==
    /\ DoingA("exec", "Call")
    /\ Expand([k \in DOMAIN Item.what.args |->
                  Calc(Frame.type, Item.what.args[k], Item.what.sizes[k])]
                \o <<Finish(Item.what)>>)

EnterFunction ==
    /\ DoingA("finish", "Call")
    /\ LET i == Item.what
           args == FlattenSeq(Top(Len(i.args)))
       IN  IF i.fn \in DOMAIN program.functions /\ Len(args) <= i.arena
           THEN /\ stack' = <<FunctionFrame(i.fn, [v \in 0..i.arena - 1 |->
                                   IF v < Len(args) THEN args[v + 1] ELSE None]),
                              Resumed(<<Do("result", "none", i, 0)>>, Len(i.args), <<>>)>>
                             \o Tail(stack)
                /\ UNCHANGED <<program, nodes, signals, outputs, pc>>
           ELSE Panics

\* build_return: a variable is returned by its index.
ReturnsVariable(i) == i.src.kind = "Load"
ExecReturn ==
    /\ DoingA("exec", "Return")
    /\ IF Frame.type = "template" \/ (ReturnsVariable(Item.what)
                                        /\ ~AddressKnown("function", Item.what.src))
       THEN Panics
       ELSE Expand((IF ReturnsVariable(Item.what)
                    THEN CalcAddress("function", Item.what.src)
                    ELSE <<Calc("function", Item.what.src, 1)>>) \o <<Finish(Item.what)>>)

\* process_function_instruction hands a result through a branch; a loop
\* drops it and goes on with its body behind the branches it came through.
\* A returned variable at an index that is not a number stops build_return first.
Loops == {k \in DOMAIN Frame.todo : Frame.todo[k].do = "repeat"}
DropResult ==
    /\ DoingA("finish", "Return") /\ Loops # {}
    /\ LET ends == {k \in DOMAIN Frame.todo : /\ Frame.todo[k].do = "end branch"
                                              /\ k < Min(Loops)}
           rest == Max(ends \cup {1}) + 1
       IN  IF ReturnsVariable(Item.what) => ToConst(Top(1)[1][1]) \in Nat
           THEN /\ stack' = <<[Resumed(<<>>, 1, <<>>) EXCEPT
                                 !.todo = SubSeq(Frame.todo, rest, Len(Frame.todo))]>>
                              \o Tail(stack)
                /\ UNCHANGED <<program, nodes, signals, outputs, pc>>
           ELSE Panics

Return ==
    /\ DoingA("finish", "Return") /\ Loops = {}
    /\ LET i == Item.what
           size == Head(stack[2].todo).what.size
           at == ToConst(Top(1)[1][1])
           vs == IF ReturnsVariable(i)
                 THEN [k \in 1..size |-> Read(i.src, at + k - 1)] ELSE Top(1)[1]
       IN  IF /\ IF ReturnsVariable(i) THEN at \in Nat /\ i.size <= size ELSE size = 1
              /\ \A k \in DOMAIN vs : vs[k] # None
           THEN /\ stack' = <<[stack[2] EXCEPT !.vals = Append(@, vs)]>>
                              \o SubSeq(stack, 3, Len(stack))
                /\ UNCHANGED <<program, nodes, signals, outputs, pc>>
           ELSE Panics

\* store_function_return_results.  A call whose result goes nowhere
\* (ReturnType::Intermediate, todo!) panics as one to a signal does.
StoreResult ==
    /\ Doing("result")
    /\ LET i == Item.what
           r == AsNodes(Top(1)[1], nodes)
       IN  CASE i.addr = "Variable" /\ AddressKnown("function", i) ->
                  Expand(CalcAddress("function", i) \o <<Put(i, "source")>>)
             [] i.addr = "Subcmp" /\ Frame.type = "template" /\ AddressKnown("template", i) ->
                  /\ Resume(CalcAddress("template", i) \o <<Put(i, "source")>>, 1, <<r.vals>>)
                  /\ nodes' = r.nodes /\ UNCHANGED signals
             [] OTHER -> Panics

Calls == ExecCall \/ EnterFunction \/ ExecReturn \/ DropResult \/ Return \/ StoreResult

-----------------------------------------------------------------------------
\* Branches and loops

ExecBranch ==
    /\ DoingA("exec", "Branch")
    /\ Expand(<<Calc(Frame.type, Item.what.cond, 1), Finish(Item.what)>>)

Condition == ToConst(Top(1)[1][1])

BranchKnown ==
    /\ DoingA("finish", "Branch") /\ Condition # NotConst
    /\ IF Condition = Panic THEN Panics
       ELSE /\ Resume(Block(IF Condition # 0 THEN Item.what.ifs ELSE Item.what.elses)
                        \o <<EndBranch>>, 1, <<>>)
            /\ UNCHANGED <<nodes, signals>>

\* A condition that depends on an input: both branches must be one store, in a
\* template to a signal (try_signal_store), in a function to one variable
\* (store_function_variable).
StoresSignal(i) == i.kind = "Store" /\ i.code = Indexed /\ i.addr = "Signal"
StoresVariable(i) ==
    i.kind = "Store" /\ i.code = Indexed /\ i.addr = "Variable" /\ i.size = 1
Choosable(body) ==
    /\ Len(body) = 1
    /\ IF Frame.type = "template" THEN StoresSignal(body[1]) ELSE StoresVariable(body[1])
BranchUnknown ==
    /\ DoingA("finish", "Branch") /\ Condition = NotConst
    /\ LET i == Item.what
           place(body) == CalcAddress(Frame.type, body[1])
           src(body) == <<Calc(IF Frame.type = "template" THEN "operand" ELSE "function",
                               body[1].src, 1)>>
       IN  IF Choosable(i.ifs) /\ Choosable(i.elses)
           THEN Expand((IF Frame.type = "template"
                        THEN place(i.ifs) \o place(i.elses) \o src(i.ifs) \o src(i.elses)
                        ELSE place(i.ifs) \o src(i.ifs) \o place(i.elses) \o src(i.elses))
                         \o <<Do("choose", "none", i, 0)>>)
           ELSE Panics

\* A variant for the mutation runs: without the assertion.
FitsSet(at) == IF Frame.type = "template" THEN Frame.start + at \in DOMAIN signals
                                          ELSE at \in DOMAIN Frame.vars
Fits(at) == IF Frame.type = "template" THEN Free({Frame.start + at})
                                       ELSE at \in DOMAIN Frame.vars

\* Both branches have been calculated; a node chooses between them.
\* A variant for the mutation runs: the other way round.
ChosenSwapped(vs) == IF Frame.type = "template" THEN <<vs[1], vs[5], vs[4]>>
                                                ELSE <<vs[1], vs[5], vs[3]>>
Chosen(vs) == IF Frame.type = "template" THEN <<vs[1], vs[4], vs[5]>>
                                         ELSE <<vs[1], vs[3], vs[5]>>
Choose ==
    /\ Doing("choose")
    /\ LET vs == [k \in 1..5 |-> Top(5)[k][1]]
           at == ToConst(vs[2])
           atElse == ToConst(IF Frame.type = "template" THEN vs[3] ELSE vs[4])
           r == AsNodes(Chosen(vs), nodes)
           node == TresOp("TernCond", r.vals[1].val, r.vals[2].val, r.vals[3].val)
           result == Len(r.nodes) + 1
           resumed == Resumed(<<>>, 5, <<>>)
       IN  IF at \in Nat /\ at = atElse /\ Fits(at)
           THEN /\ nodes' = Append(r.nodes, node)
                /\ IF Frame.type = "template"
                   THEN /\ signals' = [signals EXCEPT ![Frame.start + at] = result]
                        /\ stack' = <<resumed>> \o Tail(stack)
                   ELSE /\ stack' = <<[resumed EXCEPT !.vars[at] = NodeAt(result)]>>
                                      \o Tail(stack)
                        /\ UNCHANGED signals
                /\ UNCHANGED <<program, outputs, pc>>
           ELSE Panics

ExecLoop ==
    /\ DoingA("exec", "Loop") \/ DoingA("repeat", "Loop")
    /\ Expand(<<Calc(Frame.type, Item.what.cond, 1), Finish(Item.what)>>)

\* check_continue_condition(_function)
FinishLoop ==
    /\ DoingA("finish", "Loop")
    /\ IF Condition < 0 THEN Panics
       ELSE /\ Resume(IF Condition = 0 THEN <<>>
                      ELSE Block(Item.what.body) \o <<Do("repeat", "none", Item.what, 0)>>,
                      1, <<>>)
            /\ UNCHANGED <<nodes, signals>>

LeaveBranch == Doing("end branch") /\ Expand(<<>>)

Control == \/ ExecBranch \/ BranchKnown \/ BranchUnknown \/ Choose
           \/ ExecLoop \/ FinishLoop \/ LeaveBranch

-----------------------------------------------------------------------------
\* Components, and what is left

ExecCreate ==
    /\ DoingA("exec", "CreateCmp")
    /\ IF Frame.type = "template"
       THEN Expand(<<Calc("template", Item.what.id, 1), Finish(Item.what)>>)
       ELSE Panics

\* Components without inputs run at once, one after the other.
CreateComponents ==
    /\ DoingA("finish", "CreateCmp")
    /\ LET i == Item.what
           first == ToConst(Top(1)[1][1])
           cs == first..first + i.number - 1
           offset(c) == Frame.start + i.offset + (c - first) * i.jump
           comp(c) == [template |-> i.template, offset |-> offset(c),
                       inputs |-> program.templates[i.template].inputs]
       IN  IF /\ first \in Nat /\ i.template \in DOMAIN program.templates
              /\ cs \subseteq DOMAIN Frame.comps /\ \A c \in cs : Frame.comps[c] = None
           THEN /\ stack' = (IF i.hasInputs THEN <<>>
                             ELSE [k \in 1..i.number |->
                                      TemplateFrame(i.template, offset(first + k - 1))])
                              \o <<[Resumed(<<>>, 1, <<>>) EXCEPT
                                      !.comps = [c \in DOMAIN @ |-> IF c \in cs THEN comp(c) ELSE @[c]]]>>
                              \o Tail(stack)
                /\ UNCHANGED <<program, nodes, signals, outputs, pc>>
           ELSE Panics

ExecAssert == DoingA("exec", "Assert") /\ Expand(<<>>)

\* Log, and expressions that are not stored.
ExecOther ==
    /\ Doing("exec")
    /\ Item.what.kind \notin {"Store", "Call", "Branch", "Return", "Assert", "Loop", "CreateCmp"}
    /\ Panics

LeaveTemplate ==
    /\ pc = "run" /\ Frame.todo = <<>> /\ Frame.type = "template" /\ Len(stack) > 1
    /\ stack' = Tail(stack)
    /\ UNCHANGED <<program, nodes, signals, outputs, pc>>

\* run_function found no return.
LeaveFunction == pc = "run" /\ Frame.todo = <<>> /\ Frame.type = "function" /\ Panics

\* The main template has ended.  main asserts that witness signals are set
\* (src/src/bin/build-circuit.rs:2228), but of their numbers, not of their
\* nodes, so that a signal without one is put into the outputs.
\* A variant for the mutation runs: the numbers of the signals.
LeaveMainNumbers ==
    /\ pc = "run" /\ Frame.todo = <<>> /\ Len(stack) = 1
    /\ outputs' = [k \in DOMAIN program.witness |-> program.witness[k] + 1]
    /\ pc' = "built"
    /\ UNCHANGED <<program, nodes, signals, stack>>
LeaveMain ==
    /\ pc = "run" /\ Frame.todo = <<>> /\ Len(stack) = 1
    /\ outputs' = [k \in DOMAIN program.witness |-> signals[program.witness[k]]]
    /\ pc' = "built"
    /\ UNCHANGED <<program, nodes, signals, stack>>

Components == \/ ExecCreate \/ CreateComponents \/ ExecAssert \/ ExecOther
              \/ LeaveTemplate \/ LeaveFunction \/ LeaveMain

-----------------------------------------------------------------------------
\* get_constants and init_input_signals: the constants, the signal that is
\* always 1, and an input node for each element of the inputs of main.
InputSignals(p) ==
    FlattenSeq([k \in DOMAIN p.inputs |->
                  [e \in 1..p.inputs[k].len |-> p.inputs[k].at + e - 1]])
StartNodes(p) ==
    [k \in DOMAIN p.constants |-> Constant(p.constants[k])]
      \o [k \in 1..Len(InputSignals(p)) + 1 |-> InputNode(k - 1)]
\* A variant for the mutation runs: one position too far.
StartSignalsPast(p) ==
    LET ins == <<0>> \o InputSignals(p)
    IN  [s \in 0..p.signals - 1 |->
            IF s \in Range(ins)
            THEN Len(p.constants) + (CHOOSE k \in DOMAIN ins : ins[k] = s) + 1
            ELSE Unset]
StartSignals(p) ==
    LET ins == <<0>> \o InputSignals(p)
    IN  [s \in 0..p.signals - 1 |->
            IF s \in Range(ins)
            THEN Len(p.constants) + (CHOOSE k \in DOMAIN ins : ins[k] = s)
            ELSE Unset]

Init ==
    /\ program \in Programs
    /\ nodes = StartNodes(program) /\ signals = StartSignals(program)
    /\ stack = <<TemplateFrame(program.main, 1)>>
    /\ outputs = <<>> /\ pc = "run"

Next == Expression \/ Store \/ Calls \/ Control \/ Components
Spec == Init /\ [][Next]_vars

-----------------------------------------------------------------------------
Reference(v) == v.type = "Node" => v.val \in DOMAIN nodes

\* The nodes are nodes, and what signals, variables and values refer to is one
\* of them, in the frame that runs and in those that wait.
TypeOK ==
    /\ IsGraph(nodes)
    /\ pc \in {"run", "built", "panic"} /\ stack # <<>>
    /\ \A s \in DOMAIN signals : signals[s] \in DOMAIN nodes \cup {Unset}
    /\ \A f \in Range(stack) :
         /\ \A v \in DOMAIN f.vars : Reference(f.vars[v])
         /\ \A vs \in Range(f.vals) : \A v \in Range(vs) : Reference(v)

\* What the optimizer expects of the graph, whatever part of the program has
\* been run: operands come before the nodes they are operands of.
NodesReferBack == BackRefs(nodes)

\* A signal keeps the node it was given.
SignalsAreSetOnce ==
    [][\A s \in DOMAIN signals : signals[s] # Unset => signals'[s] = signals[s]]_vars

\* What a component still waits for are the inputs that have not been set:
\* it runs exactly when the last one is, in whatever order and portions.
InputsOf(c) ==
    LET t == program.templates[c.template]
    IN  {c.offset + t.outs + k : k \in 0..t.inputs - 1}
ComponentsWaitForTheirInputs ==
    \A f \in Range(stack) : \A k \in DOMAIN f.comps :
        LET c == f.comps[k]
        IN  c # None =>
              c.inputs = Cardinality({s \in InputsOf(c) : signals[s] = Unset})
=============================================================================
