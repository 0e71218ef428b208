---------------------------- MODULE MCOptimizer ----------------------------
(* Instances of Optimizer: families of small graphs.                       *)
EXTENDS Optimizer

Leaves == {InputNode(1), Constant(0), Constant(1), Constant(M - 1)}
Duos(ops, i) == {Op(o, a, b) : o \in ops, a \in 1..i, b \in 1..i}
Treses(i) == {TresOp("TernCond", a, b, c) : a \in 1..i, b \in 1..i, c \in 1..i}
Unos(op, i) == {UnoOp(op, a) : a \in 1..i}

\* An input, a leaf and two operations.
Graphs(mids, lasts, outs) ==
    {[nodes |-> <<InputNode(0), l, m, n>>, outputs |-> o] :
        l \in Leaves, m \in mids, n \in lasts, o \in outs}
AlgebraOps == {"Add", "Sub", "Mul", "Lt", "Div"}
PairGraphs == Graphs(Duos(AlgebraOps \ {"Add", "Div"}, 2) \cup Unos("Neg", 2),
                     Duos(AlgebraOps, 3) \cup Treses(3), {<<4>>, <<4, 3>>})

\* Two inputs or an input and -1, and three operations of which the last two
\* may read the first: longer chains of merging.
TripleGraphs ==
    {[nodes |-> <<InputNode(0), l, m, n, k>>, outputs |-> <<5>>] :
        l \in {InputNode(1), Constant(M - 1)}, m \in Duos({"Sub", "Lt"}, 2),
        n \in Duos({"Sub", "Lt"}, 3),
        k \in {Op(o, a, b) : o \in {"Mul", "Lt"}, a \in 2..4, b \in 3..4}}
\* Operations that may panic, alone and below another.
PanicOps == {"Idiv", "Pow", "Sub"}
PanicGraphs == Graphs(Duos(PanicOps, 2) \cup Unos("Id", 2),
                      Duos(PanicOps, 3), {<<4>>, <<3>>})

\* Three inputs, of which the optimizer drops some.
InputGraphs ==
    {[nodes |-> <<InputNode(0), InputNode(1), InputNode(2), m, n>>, outputs |-> <<5>>] :
        m \in {Op(o, 2, a) : o \in {"Sub", "Eq"}, a \in 1..3},
        n \in {TresOp("TernCond", a, 3, b) : a \in 1..4, b \in {1, 4}}}

SmallGraphs == PairGraphs \cup TripleGraphs \cup PanicGraphs \cup InputGraphs
=============================================================================
