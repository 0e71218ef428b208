-------------------------------- MODULE Graph --------------------------------
(***************************************************************************)
(* The computation graph of src/src/graph.rs: a vector of nodes whose      *)
(* references point backwards, its evaluation on an input buffer and the   *)
(* size of that buffer, and the random evaluation by which the optimizer   *)
(* compares nodes.                                                         *)
(*                                                                         *)
(* Positions in the vector are counted from 1 here and from 0 in the code. *)
(***************************************************************************)
EXTENDS FieldOps, Sequences, SequencesExt

\* A node is a record: its kind, its operation, the constant or the position
\* in the input buffer it holds, and the nodes it refers to.
Node(kind, op, val, args) ==
    [kind |-> kind, op |-> op, val |-> val, args |-> args]
InputNode(i) == Node("Input", "none", i, <<>>)
Constant(c) == Node("Constant", "none", c, <<>>)
MontConstant(c) == Node("MontConstant", "none", c, <<>>)
UnoOp(op, a) == Node("UnoOp", op, 0, <<a>>)
Op(op, a, b) == Node("Op", op, 0, <<a, b>>)
TresOp(op, a, b, c) == Node("TresOp", op, 0, <<a, b, c>>)

\* The number of references of each kind of node, and its operations.
Arity == [Input |-> 0, Constant |-> 0, MontConstant |-> 0,
          UnoOp |-> 1, Op |-> 2, TresOp |-> 3]
Operations == [Input |-> {"none"}, Constant |-> {"none"}, MontConstant |-> {"none"},
               UnoOp |-> UnoOps, Op |-> DuoOps, TresOp |-> TresOps]

IsNode(n) ==
    /\ n = Node(n.kind, n.op, n.val, n.args)
    /\ n.kind \in DOMAIN Arity
    /\ n.op \in Operations[n.kind]
    /\ n.args \in [1..Arity[n.kind] -> Nat]
IsGraph(ns) == ns \in Seq(Range(ns)) /\ \A i \in DOMAIN ns : IsNode(ns[i])

Refs(n) == Range(n.args)
MapRefs(n, f) ==
    Node(n.kind, n.op, n.val, [k \in DOMAIN n.args |-> f[n.args[k]]])

\* A variant for the mutation runs: Vec::swap_remove, where the last nodes
\* take the places of those that are dropped.
RenumberBySwap(keep) ==
    LET n == Cardinality(keep)
        rank(i, S) == Cardinality({j \in S : j <= i})
        dropped == 1..n \ keep
        moved == keep \ 1..n
    IN  [i \in keep |-> IF i <= n THEN i
                        ELSE CHOOSE g \in dropped : rank(g, dropped) = rank(i, moved)]
\* Vec::retain: the k-th node that is kept becomes node k.
Renumber(keep) == [i \in keep |-> Cardinality({j \in keep : j <= i})]
Kept(ns, keep) ==
    [k \in 1..Cardinality(keep) |->
        ns[CHOOSE i \in keep : Renumber(keep)[i] = k]]

\* assert_valid: all references must be backwards.
BackRefs(ns) == \A i \in DOMAIN ns : Refs(ns[i]) \subseteq 1..i - 1

-----------------------------------------------------------------------------
\* evaluate.  The whole evaluation panics when one node does.

NodeValue(n, vs, inputs) ==
    LET x(k) == vs[n.args[k]]
    IN  IF \E a \in Refs(n) : vs[a] = Panic THEN Panic
        ELSE CASE n.kind = "Constant" -> n.val % M
          [] n.kind = "MontConstant" -> n.val
          [] n.kind = "Input" -> IF n.val \in DOMAIN inputs
                                 THEN inputs[n.val] % M ELSE Panic
          [] n.kind = "UnoOp" -> UnoEvalFr(n.op, x(1))
          [] n.kind = "Op" -> EvalFr(n.op, x(1), x(2))
          [] OTHER -> TresEvalFr(n.op, x(1), x(2), x(3))

Values(ns, inputs) ==
    LET upTo[i \in 0..Len(ns)] ==
            IF i = 0 THEN <<>>
            ELSE LET vs == upTo[i - 1] IN Append(vs, NodeValue(ns[i], vs, inputs))
    IN  upTo[Len(ns)]

Evaluate(ns, inputs, outs) ==
    LET vs == Values(ns, inputs)
    IN  IF Panic \in Range(vs) THEN <<Panic>>
        ELSE [k \in DOMAIN outs |-> vs[outs[k]]]

\* get_inputs_size (src/src/lib.rs) looks at the first run of Input nodes.
\* A variant for the mutation runs: it counts the Input nodes.
InputNodes(ns) == {k \in DOMAIN ns : ns[k].kind = "Input"}
InputsCounted(ns) == Cardinality(InputNodes(ns))
FirstRun(ns) == {k \in InputNodes(ns) : Min(InputNodes(ns))..k \subseteq InputNodes(ns)}
InputsSize(ns) ==
    IF InputNodes(ns) = {} THEN 1 ELSE Max({ns[k].val : k \in FirstRun(ns)}) + 1


\* No other node stands between two Input nodes.
InputsTogether(ns) == \A i, k \in InputNodes(ns) : i..k \subseteq InputNodes(ns)

-----------------------------------------------------------------------------
(***************************************************************************)
(* random_eval.  Inputs and the non-algebraic operations are random        *)
(* functions, sums, differences and products are computed; two nodes that  *)
(* draw the same 254-bit value are taken to be equal.  The outcome that    *)
(* has all but negligible probability is that two values coincide exactly  *)
(* when they are the same polynomial in the random draws, and this is the  *)
(* outcome modelled: a value is a polynomial, a function from monomials    *)
(* (bags of draws) to coefficients.  A draw is named by the key of the     *)
(* table it is in: the input, or the operation with its operand values.    *)
(* A constant is not reduced to the field, so neither is its coefficient.  *)
(***************************************************************************)
One == [key \in {} |-> 0]                           \* the empty monomial
Coef(p, m) == IF m \in DOMAIN p THEN p[m] ELSE 0
NonZero(p) == [m \in {n \in DOMAIN p : p[n] # 0} |-> p[m]]
ConstPoly(c) == NonZero([m \in {One} |-> c])
Draw(key) == [m \in {[d \in {key} |-> 1]} |-> 1]

AddPoly(p, q) ==
    NonZero([m \in (DOMAIN p) \cup (DOMAIN q) |->
                Eval("Add", Coef(p, m), Coef(q, m))])
SubPoly(p, q) ==
    NonZero([m \in (DOMAIN p) \cup (DOMAIN q) |->
                Eval("Sub", Coef(p, m), Coef(q, m))])

Times(m, n) == [a \in (DOMAIN m) \cup (DOMAIN n) |-> Coef(m, a) + Coef(n, a)]
SumOver(f, S) ==
    LET sum[T \in SUBSET S] ==
            IF T = {} THEN 0
            ELSE LET t == CHOOSE t \in T : TRUE IN f[t] + sum[T \ {t}]
    IN  sum[S]
MulPoly(p, q) ==
    LET pairs == (DOMAIN p) \X (DOMAIN q)
        term == [t \in pairs |-> Eval("Mul", p[t[1]], q[t[2]])]
        to(m) == {t \in pairs : Times(t[1], t[2]) = m}
    IN  NonZero([m \in {Times(t[1], t[2]) : t \in pairs} |-> SumOver(term, to(m)) % M])

RandomValue(n, vs) ==
    LET x(k) == vs[n.args[k]]
    IN  CASE n.kind \in {"Constant", "MontConstant"} -> ConstPoly(n.val)
          [] n.kind = "Input" -> Draw(<<"Input", n.val>>)
          [] n.op = "Add" -> AddPoly(x(1), x(2))
          [] n.op = "Sub" -> SubPoly(x(1), x(2))
          [] n.op = "Mul" -> MulPoly(x(1), x(2))
          [] OTHER -> Draw(<<n.op, [k \in DOMAIN n.args |-> x(k)]>>)

RandomEval(ns) ==
    LET upTo[i \in 0..Len(ns)] ==
            IF i = 0 THEN <<>>
            ELSE LET vs == upTo[i - 1] IN Append(vs, RandomValue(ns[i], vs))
    IN  upTo[Len(ns)]

\* Two independent random evaluations agree on a value that draws nothing.
IsConstPoly(p) == DOMAIN p \subseteq {One}
=============================================================================
