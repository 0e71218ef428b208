---------------------------- MODULE Builder_proofs ----------------------------
(***************************************************************************)
(* What is proved of the builder, for every compiled program: that it sets *)
(* a signal once, that its nodes refer to nodes before them, and that the  *)
(* signals, the variables and the values refer to nodes that there are.    *)
(*                                                                         *)
(* For the latter two an invariant is needed that says of every frame that *)
(* its items will find the values that they take: an item that folds two   *)
(* operands reads the last two entries of its frame, whatever they are.    *)
(* So the frame's list of items is given an effect on the shape of its     *)
(* values (Chain), the frame that runs starts from the shape it has        *)
(* (Ready), and one that waits for the result of a function starts from    *)
(* that and the result (Waits).                                            *)
(***************************************************************************)
EXTENDS Builder, Graph_proofs

-----------------------------------------------------------------------------
(***************************************************************************)
(* A signal keeps the node it was given.                                   *)
(***************************************************************************)
\* The signals that have a node keep it.
KeptSignals == \A s \in DOMAIN signals : signals[s] # Unset => signals'[s] = signals[s]

\* Setting signals that are free, one or several.
LEMMA SetSignalsKeep == Free(Places) /\ signals' = SetSignals => KeptSignals
BY DEF Free, SetSignals, KeptSignals

\* Setting one free signal keeps the others.
LEMMA SetOneKeeps ==
    ASSUME NEW p, Free({p}), NEW v, signals' = [signals EXCEPT ![p] = v]
    PROVE  KeptSignals
BY DEF Free, KeptSignals

\* Expressions set no signals.
LEMMA ExpressionsSetNone == Expression => UNCHANGED signals
BY DEF Expression, CalcValue, CalcLoad, ApplyLoad, CalcCompute, ApplyDuo, ApplyUno,
       Leave, Expand, Panics

\* A store sets free signals only.
LEMMA StoresSetFree == Store => KeptSignals
<1>1. ExecStore \/ PutVariable => UNCHANGED signals
  BY DEF ExecStore, PutVariable, Expand, Panics
<1>2. PutSignal => UNCHANGED signals \/ (Free(Places) /\ signals' = SetSignals)
  BY DEF PutSignal, Panics
<1>3. PutSubcomponent => UNCHANGED signals \/ (Free(Places) /\ signals' = SetSignals)
  BY DEF PutSubcomponent, Panics
<1> QED
  BY <1>1, <1>2, <1>3, SetSignalsKeep DEF Store, KeptSignals

\* Calls and returns set no signals.
LEMMA CallsSetNone == Calls => UNCHANGED signals
BY DEF Calls, ExecCall, EnterFunction, ExecReturn, DropResult, Return, StoreResult,
       Expand, Panics

\* A signal chosen by a branch on an input is the third place that sets one.
LEMMA ControlSetsFree == Control => KeptSignals
<1>1. ExecBranch \/ BranchKnown \/ BranchUnknown \/ ExecLoop \/ FinishLoop \/ LeaveBranch
          => UNCHANGED signals
  BY DEF ExecBranch, BranchKnown, BranchUnknown, ExecLoop, FinishLoop, LeaveBranch,
         Expand, Panics
<1>2. Choose => KeptSignals
  <2>1. ASSUME Choose, ~UNCHANGED signals
        PROVE  \E p, v : Free({p}) /\ signals' = [signals EXCEPT ![p] = v]
    BY <2>1 DEF Choose, Fits, Panics
  <2> QED
    BY <2>1, SetOneKeeps DEF KeptSignals
<1> QED
  BY <1>1, <1>2 DEF Control, KeptSignals

\* Creating and leaving components sets no signals.
LEMMA ComponentsSetNone == Components => UNCHANGED signals
BY DEF Components, ExecCreate, CreateComponents, ExecAssert, ExecOther, LeaveTemplate,
       LeaveFunction, LeaveMain, Expand, Panics

-----------------------------------------------------------------------------
(***************************************************************************)
(* When the main template has ended, its outputs are there for good.       *)
(***************************************************************************)
\* A step of a program that runs, after which it has not ended.
GoesOnOrPanics == pc = "run" /\ program' = program /\ pc' \in {"run", "panic"}

\* What the steps are made of.
LEMMA PartsOfSteps ==
    /\ \A items, k, vs : pc = "run" /\ Resume(items, k, vs) => GoesOnOrPanics
    /\ \A items : pc = "run" /\ Expand(items) => GoesOnOrPanics
    /\ \A k, vs, ns : pc = "run" /\ Leave(k, vs, ns) => GoesOnOrPanics
    /\ pc = "run" /\ Panics => GoesOnOrPanics
    /\ pc = "run" /\ UNCHANGED <<program, pc>> => GoesOnOrPanics
    /\ \A do : Doing(do) => pc = "run"
    /\ \A do, kind : DoingA(do, kind) => pc = "run"
BY DEF GoesOnOrPanics, Resume, Expand, Leave, Panics, Doing, DoingA

\* Expressions go on or panic.
LEMMA ExpressionsRun == Expression => GoesOnOrPanics
<1>1. CalcValue => GoesOnOrPanics
  BY PartsOfSteps DEF CalcValue
<1>2. CalcLoad => GoesOnOrPanics
  BY PartsOfSteps DEF CalcLoad
<1>3. ApplyLoad => GoesOnOrPanics
  BY PartsOfSteps DEF ApplyLoad
<1>4. CalcCompute => GoesOnOrPanics
  BY PartsOfSteps DEF CalcCompute
<1>5. ApplyDuo => GoesOnOrPanics
  BY PartsOfSteps DEF ApplyDuo
<1>6. ApplyUno => GoesOnOrPanics
  BY PartsOfSteps DEF ApplyUno
<1> QED
  BY <1>1, <1>2, <1>3, <1>4, <1>5, <1>6 DEF Expression

\* So do stores.
LEMMA StoresRun == Store => GoesOnOrPanics
<1>1. ExecStore => GoesOnOrPanics
  BY PartsOfSteps DEF ExecStore
<1>2. PutSignal => GoesOnOrPanics
  BY PartsOfSteps DEF PutSignal
<1>3. PutVariable => GoesOnOrPanics
  BY PartsOfSteps DEF PutVariable
<1>4. PutSubcomponent => GoesOnOrPanics
  BY PartsOfSteps DEF PutSubcomponent
<1> QED
  BY <1>1, <1>2, <1>3, <1>4 DEF Store

\* So do calls and returns.
LEMMA CallsRun == Calls => GoesOnOrPanics
<1>1. ExecCall => GoesOnOrPanics
  BY PartsOfSteps DEF ExecCall
<1>2. EnterFunction => GoesOnOrPanics
  BY PartsOfSteps DEF EnterFunction
<1>3. ExecReturn => GoesOnOrPanics
  BY PartsOfSteps DEF ExecReturn
<1>4. DropResult => GoesOnOrPanics
  <2>1. DropResult => DoingA("finish", "Return")
    BY DEF DropResult
  <2>2. DropResult => Panics \/ UNCHANGED <<program, nodes, signals, outputs, pc>>
    BY DEF DropResult
  <2> QED
    BY <2>1, <2>2, PartsOfSteps
<1>5. Return => GoesOnOrPanics
  BY PartsOfSteps DEF Return
<1>6. StoreResult => GoesOnOrPanics
  BY PartsOfSteps DEF StoreResult
<1> QED
  BY <1>1, <1>2, <1>3, <1>4, <1>5, <1>6 DEF Calls

\* So do branches and loops.
LEMMA ControlRuns == Control => GoesOnOrPanics
<1>1. ExecBranch => GoesOnOrPanics
  BY PartsOfSteps DEF ExecBranch
<1>2. BranchKnown => GoesOnOrPanics
  BY PartsOfSteps DEF BranchKnown
<1>3. BranchUnknown => GoesOnOrPanics
  BY PartsOfSteps DEF BranchUnknown
<1>4. Choose => GoesOnOrPanics
  BY PartsOfSteps DEF Choose
<1>5. ExecLoop => GoesOnOrPanics
  BY PartsOfSteps DEF ExecLoop
<1>6. FinishLoop => GoesOnOrPanics
  BY PartsOfSteps DEF FinishLoop
<1>7. LeaveBranch => GoesOnOrPanics
  <2>1. LeaveBranch => pc = "run" /\ Expand(<<>>)
    BY DEF LeaveBranch, Doing
  <2> QED
    BY <2>1 DEF Expand, Resume, GoesOnOrPanics
<1> QED
  BY <1>1, <1>2, <1>3, <1>4, <1>5, <1>6, <1>7 DEF Control

\* So do components, but for the end of the main one.
LEMMA ComponentsRun == Components => GoesOnOrPanics \/ LeaveMain
<1>1. ExecCreate => GoesOnOrPanics
  BY PartsOfSteps DEF ExecCreate
<1>2. CreateComponents => GoesOnOrPanics
  BY PartsOfSteps DEF CreateComponents
<1>3. ExecAssert \/ ExecOther => GoesOnOrPanics
  BY PartsOfSteps DEF ExecAssert, ExecOther
<1>4. LeaveTemplate \/ LeaveFunction => GoesOnOrPanics
  BY PartsOfSteps DEF LeaveTemplate, LeaveFunction
<1> QED
  BY <1>1, <1>2, <1>3, <1>4 DEF Components

\* When a program has ended, no step follows; only LeaveMain ends it well.
LEMMA NextRuns ==
    Next => pc = "run" /\ program' = program /\ (pc' = "built" => LeaveMain)
<1>1. Next => GoesOnOrPanics \/ LeaveMain
  BY ExpressionsRun, StoresRun, CallsRun, ControlRuns, ComponentsRun DEF Next
<1> QED
  BY <1>1 DEF GoesOnOrPanics, LeaveMain

\* Whatever program the builder is given, none of the three places that set
\* signals (stores, subcomponents, branches on inputs) replaces a node.
THEOREM SignalsKeepTheirNodes == Spec => SignalsAreSetOnce
<1>1. ASSUME [Next]_vars PROVE KeptSignals
  <2>1. CASE UNCHANGED vars
    BY <2>1 DEF vars, KeptSignals
  <2>2. CASE Next
    BY <2>2, ExpressionsSetNone, StoresSetFree, CallsSetNone, ControlSetsFree, ComponentsSetNone
       DEF Next, KeptSignals
  <2> QED
    BY <1>1, <2>1, <2>2
<1>2. [Next]_vars => [KeptSignals]_vars
  BY <1>1
<1> QED
  BY <1>2, PTL DEF Spec, SignalsAreSetOnce, KeptSignals

-----------------------------------------------------------------------------
(***************************************************************************)
(* What the items of a frame do to its values.  The shape of a list of     *)
(* values says for each of its entries how many values there are in it,    *)
(* and whether all of them must be nodes; an item takes some entries from  *)
(* the end and leaves others there.                                        *)
(***************************************************************************)
Sorts == Nat \X BOOLEAN
Shapes == Seq(Sorts)
AnyOf(n) == <<n, FALSE>>
Of(by, n) == <<n, by = "operand">>      \* operands are calculated to nodes
Ones(k) == [j \in 1..k |-> AnyOf(1)]

Stored(i) == <<i.size, i.addr # "Variable">>
Need(it) ==
    CASE it.do = "apply" /\ it.what.kind = "Load" -> Ones(AddressLen(it.what))
      [] it.do = "apply" /\ it.what.kind = "Compute" ->
            [k \in DOMAIN it.what.args |-> Of(it.by, 1)]
      [] it.do = "finish" /\ it.what.kind = "Call" ->
            [k \in DOMAIN it.what.args |-> AnyOf(it.what.sizes[k])]
      [] it.do = "finish" /\ it.what.kind # "Call" -> Ones(1)
      [] it.do = "put" /\ it.by = "source" -> <<Stored(it.what)>> \o Ones(AddressLen(it.what))
      [] it.do = "put" /\ it.by = "address" -> Ones(AddressLen(it.what)) \o <<Stored(it.what)>>
      [] it.do = "choose" -> IF it.what.ifs[1].addr = "Variable" THEN Ones(5)
                             ELSE Ones(3) \o <<Of("operand", 1), Of("operand", 1)>>
      [] it.do = "result" -> <<AnyOf(it.what.size)>>
      [] OTHER -> <<>>
Gives(it) == IF it.do \in {"calc", "apply"} THEN <<Of(it.by, it.n)>> ELSE <<>>
\* Expressions leave what is below their operands alone, and nothing is below
\* those of an instruction.
Exact(it) == it.do \notin {"calc", "apply"}

Effect(it, S, T) ==
    \E P \in Shapes : S = P \o Need(it) /\ T = P \o Gives(it) /\ (Exact(it) => P = <<>>)
Chained(g, items, S, T) ==
    /\ g[0] = S /\ g[Len(items)] = T
    /\ \A i \in 1..Len(items) : Effect(items[i], g[i - 1], g[i])
Chain(items, S, T) == \E g \in [0..Len(items) -> Shapes] : Chained(g, items, S, T)

\* Facts about shapes as sequences.
LEMMA ShapesConcat ==
    /\ <<>> \in Shapes
    /\ \A s \in Shapes : s \o <<>> = s /\ <<>> \o s = s
    /\ \A s, t \in Shapes : s \o t \in Shapes
    /\ \A s, t, u \in Shapes : (s \o t) \o u = s \o (t \o u)
<1>1. \A s \in Seq(Sorts) : s \o <<>> = s /\ <<>> \o s = s
  BY ConcatEmptySeq
<1>2. \A s, t \in Seq(Sorts) : s \o t \in Seq(Sorts)
  BY ConcatProperties
<1>3. ASSUME NEW s \in Seq(Sorts), NEW t \in Seq(Sorts), NEW u \in Seq(Sorts)
      PROVE  (s \o t) \o u = s \o (t \o u)
  BY ConcatAssociative
<1> QED
  BY <1>1, <1>2, <1>3, SMTT(30) DEF Shapes

\* Nothing to do.
LEMMA ChainEmpty == ASSUME NEW S \in Shapes PROVE Chain(<<>>, S, S)
<1> DEFINE g == [i \in 0..0 |-> S]
<1>1. g \in [0..0 -> Shapes] /\ g[0] = S
  OBVIOUS
<1>2. Len(<<>>) = 0
  OBVIOUS
<1> HIDE DEF g
<1>3. Chained(g, <<>>, S, S)
  BY <1>1, <1>2 DEF Chained
<1> QED
  BY <1>1, <1>2, <1>3 DEF Chain

\* One thing to do.
LEMMA ChainOne ==
    ASSUME NEW it, NEW S \in Shapes, NEW T \in Shapes, Effect(it, S, T)
    PROVE  Chain(<<it>>, S, T)
<1> DEFINE g == [i \in 0..1 |-> IF i = 0 THEN S ELSE T]
<1>1. g \in [0..1 -> Shapes] /\ g[0] = S /\ g[1] = T
  OBVIOUS
<1>2. Len(<<it>>) = 1 /\ <<it>>[1] = it
  OBVIOUS
<1> HIDE DEF g
<1>3. ASSUME NEW i \in 1..1 PROVE Effect(<<it>>[i], g[i - 1], g[i])
  <2>1. i = 1 /\ i - 1 = 0
    OBVIOUS
  <2> QED
    BY <1>1, <1>2, <2>1
<1>4. Chained(g, <<it>>, S, T)
  BY <1>1, <1>2, <1>3 DEF Chained
<1> QED
  BY <1>1, <1>2, <1>4 DEF Chain

\* One list of things after the other.
LEMMA ChainConcat ==
    ASSUME NEW I, NEW a \in Seq(I), NEW b \in Seq(I), NEW S, NEW T, NEW U,
           Chain(a, S, T), Chain(b, T, U)
    PROVE  Chain(a \o b, S, U)
<1>1. PICK g \in [0..Len(a) -> Shapes] : Chained(g, a, S, T)
  BY DEF Chain
<1>2. PICK h \in [0..Len(b) -> Shapes] : Chained(h, b, T, U)
  BY DEF Chain
<1> DEFINE m == Len(a)
           n == Len(b)
           f == [i \in 0..m + n |-> IF i <= m THEN g[i] ELSE h[i - m]]
<1>3. m \in Nat /\ n \in Nat
  BY LenProperties
<1>4. /\ Len(a \o b) = m + n
      /\ \A i \in 1..m + n : (a \o b)[i] = IF i <= m THEN a[i] ELSE b[i - m]
  BY ConcatProperties
<1>5. /\ g[0] = S /\ g[m] = T /\ \A i \in 1..m : Effect(a[i], g[i - 1], g[i])
      /\ h[0] = T /\ h[n] = U /\ \A i \in 1..n : Effect(b[i], h[i - 1], h[i])
  BY <1>1, <1>2 DEF Chained
<1> HIDE DEF m, n
<1>6. ASSUME NEW i \in 0..m + n
      PROVE  f[i] \in Shapes /\ f[i] = IF i <= m THEN g[i] ELSE h[i - m]
  <2>1. CASE i <= m
    <3>1. i \in 0..m
      BY <1>3, <2>1
    <3> QED
      BY <1>1, <2>1, <3>1 DEF m
  <2>2. CASE ~(i <= m)
    <3>1. i - m \in 0..n
      BY <1>3, <2>2
    <3> QED
      BY <1>2, <2>2, <3>1 DEF n
  <2> QED
    BY <2>1, <2>2
<1>7. f \in [0..m + n -> Shapes]
  BY <1>6
<1> HIDE DEF f
<1>8. f[0] = S /\ f[m + n] = U
  <2>1. CASE n = 0
    <3>1. m + n = m /\ m + n \in 0..m + n /\ m + n <= m
      BY <1>3, <2>1
    <3> QED
      BY <1>3, <1>5, <1>6, <2>1, <3>1
  <2>2. CASE n # 0
    <3>1. ~(m + n <= m) /\ (m + n) - m = n
      BY <1>3, <2>2
    <3>2. m + n \in 0..m + n /\ 0 \in 0..m + n /\ 0 <= m
      BY <1>3
    <3> QED
      BY <1>5, <1>6, <3>1, <3>2
  <2> QED
    BY <2>1, <2>2
<1>9. ASSUME NEW i \in 1..m + n PROVE Effect((a \o b)[i], f[i - 1], f[i])
  <2>0. i \in 0..m + n /\ i - 1 \in 0..m + n
    BY <1>3
  <2>1. CASE i <= m
    <3>1. i \in 1..m /\ i - 1 <= m
      BY <1>3, <2>1
    <3>2. f[i] = g[i] /\ f[i - 1] = g[i - 1]
      BY <1>6, <2>0, <2>1, <3>1
    <3> QED
      BY <1>4, <1>5, <2>1, <3>1, <3>2
  <2>2. CASE ~(i <= m)
    <3>1. i - m \in 1..n /\ (i - m) - 1 = (i - 1) - m
      BY <1>3, <2>2
    <3>2. f[i] = h[i - m]
      BY <1>6, <2>0, <2>2
    <3>3. f[i - 1] = h[(i - m) - 1]
      <4>1. CASE i - 1 <= m
        <5>1. i - 1 = m /\ (i - m) - 1 = 0
          BY <1>3, <2>2, <4>1
        <5> QED
          BY <1>5, <1>6, <2>0, <4>1, <5>1
      <4>2. CASE ~(i - 1 <= m)
        BY <1>6, <2>0, <3>1, <4>2
      <4> QED
        BY <4>1, <4>2
    <3>4. Effect(b[i - m], h[(i - m) - 1], h[i - m])
      BY <1>5, <3>1
    <3> QED
      BY <1>4, <2>2, <3>2, <3>3, <3>4
  <2> QED
    BY <2>1, <2>2
<1>10. Chained(f, a \o b, S, U)
  BY <1>4, <1>8, <1>9 DEF Chained
<1> QED
  BY <1>4, <1>7, <1>10 DEF Chain

\* What is left of a list of things after the first i.
LEMMA ChainRest ==
    ASSUME NEW I, NEW items \in Seq(I), NEW S, NEW T,
           NEW g \in [0..Len(items) -> Shapes], Chained(g, items, S, T),
           NEW i \in 0..Len(items)
    PROVE  Chain(SubSeq(items, i + 1, Len(items)), g[i], T)
<1> DEFINE n == Len(items)
           rest == SubSeq(items, i + 1, n)
           h == [k \in 0..n - i |-> g[i + k]]
<1>1. n \in Nat /\ i \in Nat /\ i <= n
  BY LenProperties
<1>2. Len(rest) = n - i /\ \A k \in 1..n - i : rest[k] = items[i + k]
  <2>1. \A k \in i + 1..n : items[k] \in I
    <3>1. \A k \in i + 1..n : k \in 1..n
      BY <1>1
    <3> QED
      BY <3>1, ElementOfSeq
  <2>2. i + 1 \in Int /\ n \in Int
    BY <1>1
  <2>3. /\ Len(rest) = IF i + 1 <= n THEN n - (i + 1) + 1 ELSE 0
        /\ \A k \in 1..n - (i + 1) + 1 : rest[k] = items[(i + 1) + k - 1]
    BY <2>1, <2>2, SubSeqProperties
  <2>4. n - (i + 1) + 1 = n - i /\ \A k \in 1..n - i : (i + 1) + k - 1 = i + k
    BY <1>1
  <2> HIDE DEF rest, n
  <2>5. Len(rest) = n - i
    BY <1>1, <2>3
  <2> QED
    BY <2>3, <2>4, <2>5
<1>3. g[n] = T /\ \A k \in 1..n : Effect(items[k], g[k - 1], g[k])
  BY DEF Chained
<1> HIDE DEF rest, n
<1>4. \A k \in 0..n - i : i + k \in 0..n
  BY <1>1
<1>5. h \in [0..n - i -> Shapes]
  BY <1>4 DEF n
<1>6. h[0] = g[i] /\ h[n - i] = T
  BY <1>1, <1>3
<1>7. ASSUME NEW k \in 1..n - i PROVE Effect(rest[k], h[k - 1], h[k])
  <2>1. i + k \in 1..n /\ (i + k) - 1 = i + (k - 1) /\ k \in 0..n - i /\ k - 1 \in 0..n - i
    BY <1>1
  <2>2. h[k] = g[i + k] /\ h[k - 1] = g[(i + k) - 1]
    BY <2>1
  <2> HIDE DEF h
  <2> QED
    BY <1>2, <1>3, <2>1, <2>2
<1> HIDE DEF h
<1>8. Chained(h, rest, g[i], T)
  BY <1>2, <1>6, <1>7 DEF Chained
<1>9. Chain(rest, g[i], T)
  BY <1>2, <1>5, <1>8 DEF Chain
<1> QED
  BY <1>9 DEF rest, n

\* The first thing to do, and what is left then.
LEMMA ChainHead ==
    ASSUME NEW I, NEW items \in Seq(I), items # <<>>, NEW S, NEW T, Chain(items, S, T)
    PROVE  \E U \in Shapes : Effect(Head(items), S, U) /\ Chain(Tail(items), U, T)
<1>1. PICK g \in [0..Len(items) -> Shapes] : Chained(g, items, S, T)
  BY DEF Chain
<1>2. Len(items) \in Nat \ {0}
  BY EmptySeq
<1>3. 1 \in 0..Len(items) /\ 1 \in 1..Len(items) /\ 1 - 1 = 0 /\ 1 + 1 = 2
  BY <1>2
<1>4. Chain(SubSeq(items, 1 + 1, Len(items)), g[1], T)
  BY <1>1, <1>3, ChainRest
<1>5. Tail(items) = SubSeq(items, 2, Len(items))
  BY TailIsSubSeq
<1>6. Effect(items[1], g[0], g[1]) /\ g[0] = S
  BY <1>1, <1>3 DEF Chained
<1>7. Head(items) = items[1]
  BY <1>2
<1>8. g[1] \in Shapes
  BY <1>1, <1>3
<1> QED
  BY <1>3, <1>4, <1>5, <1>6, <1>7, <1>8

\* After an item that leaves nothing but its own, whatever was there before.
LEMMA ChainAfter ==
    ASSUME NEW I, NEW items \in Seq(I), NEW S, NEW T, Chain(items, S, T),
           NEW i \in 1..Len(items), Exact(items[i])
    PROVE  Chain(SubSeq(items, i + 1, Len(items)), <<>>, T)
<1>1. PICK g \in [0..Len(items) -> Shapes] : Chained(g, items, S, T)
  BY DEF Chain
<1>2. Len(items) \in Nat /\ i \in 0..Len(items)
  BY LenProperties
<1>3. Chain(SubSeq(items, i + 1, Len(items)), g[i], T)
  BY <1>1, <1>2, ChainRest
<1>4. Effect(items[i], g[i - 1], g[i])
  BY <1>1 DEF Chained
<1>5. Gives(items[i]) = <<>>
  BY DEF Exact, Gives
<1>6. g[i] = <<>> \o <<>>
  BY <1>4, <1>5 DEF Effect
<1>7. <<>> \o <<>> = <<>>
  OBVIOUS
<1> QED
  BY <1>3, <1>6, <1>7

\* Expressions leave their values one after the other.
LEMMA ChainCalcs ==
    ASSUME NEW P \in Shapes, NEW N \in Nat, NEW ns \in [1..N -> Sorts],
           NEW items, items = [k \in 1..N |-> items[k]],
           \A k \in 1..N : Need(items[k]) = <<>> /\ Gives(items[k]) = <<ns[k]>>
                                                 /\ ~Exact(items[k])
    PROVE  Chain(items, P, P \o ns)
<1> DEFINE g == [i \in 0..N |-> P \o SubSeq(ns, 1, i)]
<1>1. ns \in Shapes /\ Len(ns) = N
  BY DEF Shapes
<1>2. Len(items) = N
  OBVIOUS
<1>3. \A i \in 0..N : SubSeq(ns, 1, i) \in Shapes
  <2>1. ASSUME NEW i \in 0..N PROVE SubSeq(ns, 1, i) \in Seq(Sorts)
    <3>1. i \in Int /\ 1 \in Int /\ \A k \in 1..i : ns[k] \in Sorts
      OBVIOUS
    <3> QED
      BY <3>1, SubSeqProperties
  <2> QED
    BY <2>1 DEF Shapes
<1>4. \A i \in 0..N : g[i] = P \o SubSeq(ns, 1, i) /\ g[i] \in Shapes
  <2>1. \A i \in 0..N : P \o SubSeq(ns, 1, i) \in Seq(Sorts)
    BY <1>3, ConcatProperties DEF Shapes
  <2> QED
    BY <2>1 DEF Shapes
<1>5. g \in [0..N -> Shapes]
  BY <1>4
<1> HIDE DEF g
<1>6. g[0] = P /\ g[N] = P \o ns
  <2>1. SubSeq(ns, 1, 0) = <<>>
    BY SubSeqEmpty
  <2>2. SubSeq(ns, 1, N) = ns
    BY <1>1, SubSeqFull DEF Shapes
  <2>3. P \o <<>> = P
    BY ConcatEmptySeq DEF Shapes
  <2>4. 0 \in 0..N /\ N \in 0..N
    OBVIOUS
  <2> QED
    BY <1>4, <2>1, <2>2, <2>3, <2>4
<1>7. ASSUME NEW i \in 1..N PROVE Effect(items[i], g[i - 1], g[i])
  <2>1. i \in 0..N /\ i - 1 \in 0..N
    OBVIOUS
  <2>2. SubSeq(ns, 1, i) = SubSeq(ns, 1, i - 1) \o <<ns[i]>>
    <3>1. 1 \in 1..Len(ns) /\ i \in 1..Len(ns)
      BY <1>1
    <3> QED
      BY <1>1, <3>1, SubSeqRecursiveSecond DEF Shapes
  <2> DEFINE Q == SubSeq(ns, 1, i - 1)
             one == <<ns[i]>>
  <2>3. Q \in Seq(Sorts) /\ one \in Seq(Sorts) /\ P \in Seq(Sorts)
    BY <1>3, <2>1 DEF Shapes
  <2>4. (P \o Q) \o one = P \o (Q \o one)
    BY <2>3, ShapesConcat, ZenonT(60) DEF Shapes
  <2>5. g[i - 1] = P \o Q /\ g[i - 1] \in Shapes
    BY <1>4, <2>1
  <2>6. g[i] = P \o (Q \o one)
    BY <1>4, <2>1, <2>2
  <2>7. Need(items[i]) = <<>> /\ Gives(items[i]) = one /\ ~Exact(items[i])
    OBVIOUS
  <2> HIDE DEF Q, one
  <2>8. (P \o Q) \o <<>> = P \o Q
    BY <2>5, ConcatEmptySeq DEF Shapes
  <2>9. /\ P \o Q \in Shapes /\ g[i - 1] = (P \o Q) \o Need(items[i])
        /\ g[i] = (P \o Q) \o Gives(items[i]) /\ (Exact(items[i]) => P \o Q = <<>>)
    BY <2>4, <2>5, <2>6, <2>7, <2>8
  <2> QED
    BY <2>9 DEF Effect
<1>8. Chained(g, items, P, P \o ns)
  BY <1>2, <1>6, <1>7 DEF Chained
<1> QED
  BY <1>2, <1>5, <1>8 DEF Chain

\* Instructions start with nothing and leave nothing.
LEMMA ChainStill ==
    ASSUME NEW I, NEW items \in Seq(I),
           \A k \in 1..Len(items) : Need(items[k]) = <<>> /\ Gives(items[k]) = <<>>
    PROVE  Chain(items, <<>>, <<>>)
<1> DEFINE g == [i \in 0..Len(items) |-> <<>>]
<1>1. Len(items) \in Nat
  BY LenProperties
<1>2. <<>> \in Shapes /\ <<>> \o <<>> = <<>>
  BY DEF Shapes
<1>3. g \in [0..Len(items) -> Shapes] /\ \A i \in 0..Len(items) : g[i] = <<>>
  BY <1>2
<1> HIDE DEF g
<1>4. ASSUME NEW i \in 1..Len(items) PROVE Effect(items[i], g[i - 1], g[i])
  <2>1. i \in 0..Len(items) /\ i - 1 \in 0..Len(items)
    BY <1>1
  <2>2. g[i] = <<>> /\ g[i - 1] = <<>>
    BY <1>3, <2>1
  <2> QED
    BY <1>2, <2>2 DEF Effect
<1>5. Chained(g, items, <<>>, <<>>)
  BY <1>1, <1>3, <1>4 DEF Chained
<1> QED
  BY <1>3, <1>5 DEF Chain

-----------------------------------------------------------------------------
(***************************************************************************)
(* Shapes of lists of values, and their ends.                              *)
(***************************************************************************)

Val(n) == [type : {"Value"}, val : Words] \cup [type : {"Node"}, val : 1..n]
Var(n) == Val(n) \cup {None}

Fit(vs, s) == Len(vs) = s[1] /\ (s[2] => \A j \in 1..Len(vs) : vs[j].type = "Node")
HasShape(vals, S) == Len(vals) = Len(S) /\ \A k \in 1..Len(S) : Fit(vals[k], S[k])

\* The shape of a list of lists that is put behind another.
LEMMA ShapeConcat ==
    ASSUME NEW V, NEW a \in Seq(Seq(V)), NEW b \in Seq(Seq(V)),
           NEW S \in Shapes, NEW T \in Shapes, HasShape(a, S), HasShape(b, T)
    PROVE  a \o b \in Seq(Seq(V)) /\ HasShape(a \o b, S \o T)
<1> DEFINE ab == a \o b
           st == S \o T
           m == Len(a)
           n == Len(b)
<1>0. m \in Nat /\ n \in Nat /\ Len(S) = m /\ Len(T) = n
  BY LenProperties DEF HasShape
<1>1. /\ ab \in Seq(Seq(V)) /\ Len(ab) = m + n
      /\ \A i \in 1..m + n : ab[i] = IF i <= m THEN a[i] ELSE b[i - m]
  BY ConcatProperties
<1>2. Len(st) = m + n /\ \A i \in 1..m + n : st[i] = IF i <= m THEN S[i] ELSE T[i - m]
  <2>1. /\ Len(S \o T) = Len(S) + Len(T)
        /\ \A i \in 1..Len(S) + Len(T) :
              (S \o T)[i] = IF i <= Len(S) THEN S[i] ELSE T[i - Len(S)]
    BY ConcatProperties DEF Shapes
  <2> HIDE DEF m, n
  <2> QED
    BY <1>0, <2>1
<1>3. /\ \A k \in 1..m : Fit(a[k], S[k])
      /\ \A k \in 1..n : Fit(b[k], T[k])
  BY <1>0 DEF HasShape
<1> HIDE DEF ab, st, m, n
<1>4. ASSUME NEW k \in 1..m + n PROVE Fit(ab[k], st[k])
  <2>1. CASE k <= m
    <3>1. k \in 1..m
      BY <1>0, <2>1
    <3> QED
      BY <1>1, <1>2, <1>3, <2>1, <3>1
  <2>2. CASE ~(k <= m)
    <3>1. k - m \in 1..n
      BY <1>0, <2>2
    <3> QED
      BY <1>1, <1>2, <1>3, <2>2, <3>1
  <2> QED
    BY <2>1, <2>2
<1>5. HasShape(ab, st)
  BY <1>1, <1>2, <1>4 DEF HasShape
<1> QED
  BY <1>1, <1>5 DEF ab, st

\* The shape of one list, and of none.
LEMMA ShapeOne ==
    /\ \A V : \A vs \in Seq(V) : \A s \in Sorts :
          Fit(vs, s) => <<vs>> \in Seq(Seq(V)) /\ HasShape(<<vs>>, <<s>>)
    /\ \A s \in Sorts : <<s>> \in Shapes
    /\ \A V : <<>> \in Seq(Seq(V)) /\ HasShape(<<>>, <<>>)
<1>1. ASSUME NEW V, NEW vs \in Seq(V), NEW s \in Sorts, Fit(vs, s)
      PROVE  <<vs>> \in Seq(Seq(V)) /\ HasShape(<<vs>>, <<s>>)
  <2>1. <<vs>> \in Seq(Seq(V)) /\ Len(<<vs>>) = 1 /\ Len(<<s>>) = 1
    OBVIOUS
  <2>2. ASSUME NEW k \in 1..1 PROVE <<vs>>[k] = vs /\ <<s>>[k] = s
    OBVIOUS
  <2>3. \A k \in 1..1 : Fit(<<vs>>[k], <<s>>[k])
    BY <1>1, <2>2
  <2> QED
    BY <2>1, <2>3 DEF HasShape
<1>2. ASSUME NEW V PROVE <<>> \in Seq(Seq(V)) /\ HasShape(<<>>, <<>>)
  BY DEF HasShape
<1>3. \A s \in Sorts : <<s>> \in Shapes
  BY DEF Shapes
<1> QED
  BY <1>1, <1>2, <1>3

\* What a list of values has been asked for is at its end.
HasEnds(V, vals, P, D) ==
    LET k == Len(D)
        below == SubSeq(vals, 1, Len(vals) - k)
        top == SubSeq(vals, Len(vals) - k + 1, Len(vals))
    IN  /\ k \in Nat /\ Len(vals) - k \in Nat
        /\ below \in Seq(Seq(V)) /\ HasShape(below, P)
        /\ top \in Seq(Seq(V)) /\ Len(top) = k
        /\ \A j \in 1..k : top[j] \in Seq(V) /\ Fit(top[j], D[j])

\* What a list of values has been asked for, and what is below that.
LEMMA TopAndBelow ==
    ASSUME NEW V, NEW vals \in Seq(Seq(V)), NEW P \in Shapes, NEW D \in Shapes,
           HasShape(vals, P \o D)
    PROVE  HasEnds(V, vals, P, D)
<1> DEFINE m == Len(P)
           k == Len(D)
           below == SubSeq(vals, 1, m)
           top == SubSeq(vals, m + 1, m + k)
<1>0. m \in Nat /\ k \in Nat
  BY LenProperties DEF Shapes
<1>1. \A j \in 1..Len(vals) : vals[j] \in Seq(V)
  BY ElementOfSeq
<1>2. /\ Len(P \o D) = m + k
      /\ \A i \in 1..m + k : (P \o D)[i] = IF i <= m THEN P[i] ELSE D[i - m]
  BY ConcatProperties DEF Shapes
<1>3. Len(vals) = m + k /\ \A i \in 1..m + k : Fit(vals[i], (P \o D)[i])
  BY <1>2 DEF HasShape
<1> HIDE DEF m, k
<1>4. Len(vals) - k = m /\ Len(vals) - k + 1 = m + 1 /\ m + k - k \in Nat
  BY <1>0, <1>3
<1>5. /\ below \in Seq(Seq(V)) /\ Len(below) = m
      /\ \A i \in 1..m : below[i] = vals[i]
  <2>1. \A i \in 1..m : vals[i] \in Seq(V)
    BY <1>0, <1>1, <1>3
  <2>2. 1 \in Int /\ m \in Int
    BY <1>0
  <2>3. /\ below \in Seq(Seq(V))
        /\ Len(below) = IF 1 <= m THEN m - 1 + 1 ELSE 0
        /\ \A i \in 1..m - 1 + 1 : below[i] = vals[1 + i - 1]
    BY <2>1, <2>2, SubSeqProperties
  <2>4. m - 1 + 1 = m /\ \A i \in 1..m : 1 + i - 1 = i
    BY <1>0
  <2> HIDE DEF below
  <2>5. Len(below) = m
    BY <1>0, <2>3
  <2> QED
    BY <2>3, <2>4, <2>5
<1>6. /\ top \in Seq(Seq(V)) /\ Len(top) = k
      /\ \A i \in 1..k : top[i] = vals[m + i]
  <2>1. \A i \in m + 1..m + k : vals[i] \in Seq(V)
    BY <1>0, <1>1, <1>3
  <2>2. m + 1 \in Int /\ m + k \in Int
    BY <1>0
  <2>3. /\ top \in Seq(Seq(V))
        /\ Len(top) = IF m + 1 <= m + k THEN (m + k) - (m + 1) + 1 ELSE 0
        /\ \A i \in 1..(m + k) - (m + 1) + 1 : top[i] = vals[(m + 1) + i - 1]
    BY <2>1, <2>2, SubSeqProperties
  <2>4. (m + k) - (m + 1) + 1 = k /\ \A i \in 1..k : (m + 1) + i - 1 = m + i
    BY <1>0
  <2> HIDE DEF top
  <2>5. Len(top) = k
    BY <1>0, <2>3
  <2> QED
    BY <2>3, <2>4, <2>5
<1> HIDE DEF below, top
<1>7. HasShape(below, P)
  <2>1. ASSUME NEW i \in 1..m PROVE Fit(below[i], P[i])
    <3>1. i \in 1..m + k /\ i <= m
      BY <1>0
    <3> QED
      BY <1>2, <1>3, <1>5, <3>1
  <2> QED
    BY <1>5, <2>1 DEF HasShape, m
<1>8. ASSUME NEW j \in 1..k PROVE top[j] \in Seq(V) /\ Fit(top[j], D[j])
  <2>1. m + j \in 1..m + k /\ ~(m + j <= m) /\ (m + j) - m = j /\ m + j \in 1..Len(vals)
    BY <1>0, <1>3
  <2> QED
    BY <1>1, <1>2, <1>3, <1>6, <2>1
<1>9. below = SubSeq(vals, 1, Len(vals) - k) /\ top = SubSeq(vals, Len(vals) - k + 1, Len(vals))
  BY <1>3, <1>4 DEF below, top
<1> QED
  BY <1>0, <1>3, <1>4, <1>5, <1>6, <1>7, <1>8, <1>9 DEF HasEnds, k

-----------------------------------------------------------------------------
(***************************************************************************)
(* Values, items and frames.                                               *)
(***************************************************************************)
IsItem(type, it) ==
    CASE it.do = "calc" -> it.what \in Expressions
      [] it.do = "apply" ->
            /\ it.what \in Expressions /\ it.what.kind \in {"Load", "Compute"}
            /\ it.what.kind = "Compute" =>
                  /\ it.n = 1
                  /\ \/ Len(it.what.args) = 2 /\ it.what.op \in DOMAIN DuoOperators
                     \/ Len(it.what.args) = 1 /\ it.what.op \in DOMAIN UnoOperators
      [] it.do = "exec" -> it.what \in Instructions
      [] it.do = "finish" ->
            /\ it.what \in Instructions
            /\ it.what.kind \in {"Call", "Return", "Branch", "Loop", "CreateCmp"}
            /\ it.what.kind = "Return" =>
                  /\ type = "function"
                  /\ ReturnsVariable(it.what) => AddressKnown("function", it.what.src)
      [] it.do = "repeat" -> it.what \in Instructions /\ it.what.kind = "Loop"
      [] it.do = "put" ->
            /\ it.what \in Instructions /\ it.what.kind \in {"Store", "Call"}
            /\ it.by \in {"source", "address"} /\ AddressKnown("template", it.what)
      [] it.do = "result" -> it.what \in Instructions /\ it.what.kind = "Call"
      [] OTHER -> TRUE
Dos == {"calc", "apply", "exec", "finish", "repeat", "put", "result", "choose", "end branch"}
Bys == {"operand", "template", "function", "source", "address", "none"}
Items(type) ==
    {it \in [do : Dos, by : Bys, what : Expressions \cup Instructions \cup {None},
             n : Nat] : IsItem(type, it)}

IsComponent(c, p) ==
    c = None \/ /\ c = [template |-> c.template, offset |-> c.offset, inputs |-> c.inputs]
                /\ c.template \in DOMAIN p.templates /\ c.offset \in Nat
IsFrame(f, n, p) ==
    /\ f = [type |-> f.type, todo |-> f.todo, vals |-> f.vals, vars |-> f.vars,
            comps |-> f.comps, start |-> f.start]
    /\ f.type \in {"template", "function"} /\ f.start \in Nat
    /\ f.todo \in Seq(Items(f.type)) /\ f.vals \in Seq(Seq(Val(n)))
    /\ f.vars \in [DOMAIN f.vars -> Var(n)]
    /\ f.comps = [c \in DOMAIN f.comps |-> f.comps[c]]
    /\ \A c \in DOMAIN f.comps : IsComponent(f.comps[c], p)

\* A frame that can go on, and one that waits for the result of a function.
Ready(f) == \E S \in Shapes : HasShape(f.vals, S) /\ Chain(f.todo, S, <<>>)
Waits(f) ==
    /\ f.todo # <<>> /\ Head(f.todo).do = "result"
    /\ \E S \in Shapes : /\ HasShape(f.vals, S)
                          /\ Chain(f.todo, S \o <<AnyOf(Head(f.todo).what.size)>>, <<>>)
Follows(f, g) == IF f.type = "template" THEN Ready(g) ELSE Waits(g)

AreFrames(fs, n, p) == fs \in Seq(Range(fs)) /\ \A f \in Range(fs) : IsFrame(f, n, p)
Linked(fs) ==
    fs # <<>> /\ Ready(fs[1]) /\ \A k \in 1..Len(fs) - 1 : Follows(fs[k], fs[k + 1])
StackOK(fs, n, p) == AreFrames(fs, n, p) /\ Linked(fs) /\ fs[Len(fs)].type = "template"

\* More nodes are no less.
LEMMA ValuesStay ==
    ASSUME NEW m \in Nat, NEW n \in Nat, m <= n
    PROVE  /\ Val(m) \subseteq Val(n) /\ Var(m) \subseteq Var(n)
           /\ \A vs \in Seq(Val(m)) : vs \in Seq(Val(n))
           /\ \A vals \in Seq(Seq(Val(m))) : vals \in Seq(Seq(Val(n)))
<1>1. 1..m \subseteq 1..n
  OBVIOUS
<1>2. Val(m) \subseteq Val(n) /\ Var(m) \subseteq Var(n)
  BY <1>1 DEF Val, Var
<1>3. \A vs \in Seq(Val(m)) : vs \in Seq(Val(n))
  BY <1>2, SeqMonotonic
<1>4. Seq(Val(m)) \subseteq Seq(Val(n))
  BY <1>3
<1>5. \A vals \in Seq(Seq(Val(m))) : vals \in Seq(Seq(Val(n)))
  BY <1>4, SeqMonotonic
<1> QED
  BY <1>2, <1>3, <1>5

\* Nor do frames mind.
LEMMA FramesStay ==
    ASSUME NEW m \in Nat, NEW n \in Nat, m <= n, NEW p
    PROVE  /\ \A f : IsFrame(f, m, p) => IsFrame(f, n, p)
           /\ \A fs : AreFrames(fs, m, p) => AreFrames(fs, n, p)
<1>1. ASSUME NEW f, IsFrame(f, m, p) PROVE IsFrame(f, n, p)
  <2>1. f.vals \in Seq(Seq(Val(n)))
    BY <1>1, ValuesStay DEF IsFrame
  <2>2. f.vars \in [DOMAIN f.vars -> Var(n)]
    BY <1>1, ValuesStay DEF IsFrame
  <2> QED
    BY <1>1, <2>1, <2>2 DEF IsFrame
<1> QED
  BY <1>1 DEF AreFrames

-----------------------------------------------------------------------------
\* Stacks.

\* Frames in front of others.
LEMMA FramesConcat ==
    ASSUME NEW n, NEW p, NEW a, NEW b, AreFrames(a, n, p), AreFrames(b, n, p)
    PROVE  AreFrames(a \o b, n, p)
<1> DEFINE S == Range(a) \cup Range(b)
           ab == a \o b
<1>1. a \in Seq(Range(a)) /\ b \in Seq(Range(b))
  BY DEF AreFrames
<1>2. a \in Seq(S) /\ b \in Seq(S)
  BY <1>1, SeqMonotonic
<1> HIDE DEF S
<1>3. Range(ab) = Range(a) \cup Range(b)
  BY <1>2, RangeConcatenation
<1>4. ab \in Seq(S)
  BY <1>2, ConcatProperties
<1>5. ab \in Seq(Range(ab))
  BY <1>4, SeqOfRange
<1> HIDE DEF ab
<1>6. \A f \in Range(ab) : IsFrame(f, n, p)
  BY <1>3 DEF AreFrames
<1>7. AreFrames(ab, n, p)
  BY <1>5, <1>6 DEF AreFrames
<1> QED
  BY <1>7 DEF ab

\* A stack of one frame.
LEMMA FramesOne ==
    ASSUME NEW n, NEW p, NEW f, IsFrame(f, n, p)
    PROVE  AreFrames(<<f>>, n, p) /\ Len(<<f>>) = 1 /\ <<f>>[1] = f
<1>1. Range(<<f>>) = {f}
  BY DEF Range
<1>2. <<f>> \in Seq({f})
  OBVIOUS
<1> QED
  BY <1>1, <1>2 DEF AreFrames

\* The frames of a stack.
LEMMA FrameAt ==
    ASSUME NEW fs, NEW n, NEW p, AreFrames(fs, n, p)
    PROVE  /\ Len(fs) \in Nat /\ DOMAIN fs = 1..Len(fs)
           /\ \A k \in 1..Len(fs) : IsFrame(fs[k], n, p)
           /\ \A j \in 2..Len(fs) + 1 :
                 /\ AreFrames(SubSeq(fs, j, Len(fs)), n, p)
                 /\ Len(SubSeq(fs, j, Len(fs))) = Len(fs) + 1 - j
                 /\ \A k \in 1..Len(fs) + 1 - j : SubSeq(fs, j, Len(fs))[k] = fs[j - 1 + k]
<1>1. fs \in Seq(Range(fs))
  BY DEF AreFrames
<1>2. Len(fs) \in Nat /\ DOMAIN fs = 1..Len(fs)
  BY <1>1, LenProperties
<1>3. \A k \in 1..Len(fs) : fs[k] \in Range(fs)
  BY <1>2 DEF Range
<1>4. ASSUME NEW j \in 2..Len(fs) + 1
      PROVE  /\ AreFrames(SubSeq(fs, j, Len(fs)), n, p)
             /\ Len(SubSeq(fs, j, Len(fs))) = Len(fs) + 1 - j
             /\ \A k \in 1..Len(fs) + 1 - j : SubSeq(fs, j, Len(fs))[k] = fs[j - 1 + k]
  <2> DEFINE l == Len(fs)
             r == SubSeq(fs, j, l)
  <2>1. l \in Nat /\ j \in Int /\ l \in Int /\ j <= l + 1 /\ \A i \in j..l : i \in 1..l
    BY <1>2
  <2>2. \A i \in j..l : fs[i] \in Range(fs)
    BY <1>3, <2>1
  <2>3. /\ r \in Seq(Range(fs)) /\ Len(r) = IF j <= l THEN l - j + 1 ELSE 0
        /\ \A i \in 1..l - j + 1 : r[i] = fs[j + i - 1]
    BY <2>1, <2>2, SubSeqProperties
  <2>4. l - j + 1 = l + 1 - j /\ \A i \in 1..l + 1 - j : j + i - 1 = j - 1 + i
    BY <2>1
  <2>5. r \in Seq(Range(r)) /\ Range(r) \in SUBSET Range(fs)
    BY <2>3, SeqOfRange, RangeOfSeq
  <2> HIDE DEF r
  <2>6. Len(r) = l + 1 - j
    <3> HIDE DEF l
    <3> QED
      BY <2>1, <2>3
  <2>7. \A i \in 1..l + 1 - j : r[i] = fs[j - 1 + i]
    BY <2>3, <2>4
  <2>8. AreFrames(r, n, p)
    BY <2>5 DEF AreFrames
  <2> QED
    BY <2>6, <2>7, <2>8 DEF r
<1> QED
  BY <1>2, <1>3, <1>4 DEF AreFrames

\* The first frames of a stack are replaced by others: the new ones are linked,
\* and the last of them is of the type of the last they replace.
LEMMA StackReplaced ==
    ASSUME NEW fs, NEW m \in Nat, NEW n \in Nat, m <= n, NEW p, StackOK(fs, m, p),
           NEW new, AreFrames(new, n, p), Linked(new),
           NEW j \in 2..Len(fs) + 1, new[Len(new)].type = fs[j - 1].type
    PROVE  StackOK(new \o SubSeq(fs, j, Len(fs)), n, p)
<1> DEFINE l == Len(fs)
           rest == SubSeq(fs, j, l)
           c == Len(new)
           d == l + 1 - j
           all == new \o rest
<1>1. AreFrames(fs, m, p) /\ Linked(fs) /\ fs[l].type = "template"
  BY DEF StackOK
<1>2. AreFrames(fs, n, p)
  BY <1>1, FramesStay
<1>3. /\ l \in Nat /\ AreFrames(rest, n, p) /\ Len(rest) = d
      /\ \A k \in 1..d : rest[k] = fs[j - 1 + k]
  BY <1>2, FrameAt
<1>4. AreFrames(all, n, p)
  BY <1>3, FramesConcat
<1>5. c \in Nat /\ c # 0
  <2>1. c \in Nat /\ new \in Seq(Range(new)) /\ new # <<>>
    BY FrameAt DEF AreFrames, Linked
  <2> QED
    BY <2>1, EmptySeq
<1>6. /\ Len(all) = c + d
      /\ \A i \in 1..c + d : all[i] = IF i <= c THEN new[i] ELSE rest[i - c]
  <2> DEFINE S == Range(new) \cup Range(rest)
  <2>1. new \in Seq(S) /\ rest \in Seq(S)
    BY <1>3, SeqMonotonic DEF AreFrames
  <2> HIDE DEF S, rest
  <2>2. /\ Len(new \o rest) = Len(new) + Len(rest)
        /\ \A i \in 1..Len(new) + Len(rest) :
              (new \o rest)[i] = IF i <= Len(new) THEN new[i] ELSE rest[i - Len(new)]
    BY <2>1, ConcatProperties
  <2>3. Len(rest) = d
    BY <1>3
  <2> HIDE DEF d
  <2> QED
    BY <2>2, <2>3
<1>7. l \in Nat /\ d \in Nat /\ j \in Nat /\ j >= 2 /\ j + d = l + 1
  BY <1>3
<1> HIDE DEF rest, all, c, d, l
<1>8. all # <<>> /\ Ready(all[1])
  <2>1. 1 \in 1..c + d /\ 1 <= c
    BY <1>5, <1>7
  <2>2. all[1] = new[1]
    BY <1>6, <2>1
  <2>3. Len(all) # 0
    BY <1>5, <1>6, <1>7
  <2>4. all # <<>>
    BY <2>3, EmptySeq
  <2> QED
    BY <2>2, <2>4 DEF Linked
<1>9. ASSUME NEW k \in 1..(c + d) - 1 PROVE Follows(all[k], all[k + 1])
  <2>0. k \in 1..c + d /\ k + 1 \in 1..c + d
    BY <1>5, <1>7
  <2>1. CASE k + 1 <= c
    <3>1. k \in 1..c - 1 /\ k <= c
      BY <1>5, <2>1
    <3>2. all[k] = new[k] /\ all[k + 1] = new[k + 1]
      BY <1>6, <2>0, <2>1, <3>1
    <3> QED
      BY <3>1, <3>2 DEF Linked, c
  <2>2. CASE k = c
    <3>1. k <= c /\ ~(k + 1 <= c) /\ (k + 1) - c = 1 /\ 1 \in 1..d /\ j - 1 + 1 = j
      BY <1>5, <1>7, <2>2
    <3>2. all[k] = new[c] /\ all[k + 1] = fs[j]
      BY <1>3, <1>6, <2>0, <2>2, <3>1
    <3>3. j - 1 \in 1..l - 1 /\ (j - 1) + 1 = j
      BY <1>7, <3>1
    <3>4. Follows(fs[j - 1], fs[j])
      BY <1>1, <3>3 DEF Linked, l
    <3> QED
      BY <3>2, <3>4 DEF Follows, c
  <2>3. CASE k > c
    <3>1. /\ ~(k <= c) /\ ~(k + 1 <= c) /\ k - c \in 1..d /\ (k + 1) - c \in 1..d
          /\ j - 1 + (k - c) \in 1..l - 1
          /\ j - 1 + ((k + 1) - c) = (j - 1 + (k - c)) + 1
      BY <1>5, <1>7, <2>0, <2>3
    <3>2. all[k] = fs[j - 1 + (k - c)] /\ all[k + 1] = fs[j - 1 + ((k + 1) - c)]
      BY <1>3, <1>6, <2>0, <3>1
    <3>3. Follows(fs[j - 1 + (k - c)], fs[(j - 1 + (k - c)) + 1])
      BY <1>1, <3>1 DEF Linked, l
    <3> QED
      BY <3>1, <3>2, <3>3
  <2>4. k + 1 <= c \/ k = c \/ k > c
    BY <1>5
  <2> QED
    BY <2>1, <2>2, <2>3, <2>4
<1>10. all[c + d].type = "template"
  <2>0. c + d \in 1..c + d
    BY <1>5, <1>7
  <2>1. CASE d = 0
    <3>1. c + d = c /\ c + d <= c /\ j - 1 = l
      BY <1>5, <1>7, <2>1
    <3> QED
      BY <1>1, <1>6, <2>0, <3>1 DEF c
  <2>2. CASE d # 0
    <3>1. ~(c + d <= c) /\ (c + d) - c = d /\ d \in 1..d /\ j - 1 + d = l
      BY <1>5, <1>7, <2>2
    <3> QED
      BY <1>1, <1>3, <1>6, <2>0, <3>1
  <2> QED
    BY <2>1, <2>2
<1>11. Linked(all)
  BY <1>6, <1>8, <1>9 DEF Linked
<1>12. StackOK(all, n, p)
  BY <1>4, <1>6, <1>10, <1>11 DEF StackOK
<1> QED
  BY <1>12 DEF all, rest, l

-----------------------------------------------------------------------------
(***************************************************************************)
(* The nodes the builder makes, and lists of values.                       *)
(***************************************************************************)

\* The nodes that can come after k others, in the graph of a program.
Made(k, p) ==
    {InputNode(i) : i \in {j \in Nat : j <= Len(InputSignals(p))}}
      \cup {Constant(c) : c \in Words}
      \cup {UnoOp(op, a) : op \in UnoOps, a \in 1..k}
      \cup {Op(op, a, b) : op \in DuoOps, a \in 1..k, b \in 1..k}
      \cup {TresOp("TernCond", a, b, c) : a \in 1..k, b \in 1..k, c \in 1..k}
MadeNodes(p) == UNION {Made(k, p) : k \in Nat}
GraphOK(ns, p) == ns \in Seq(MadeNodes(p)) /\ \A i \in 1..Len(ns) : ns[i] \in Made(i - 1, p)

\* Such nodes are nodes, and refer to the ones before them.
LEMMA MadeIsNode ==
    ASSUME NEW k \in Nat, NEW p, NEW x \in Made(k, p)
    PROVE  IsNode(x) /\ Refs(x) \subseteq 1..k /\ x.kind # "MontConstant" /\ x.val \in Nat
<1>0. /\ Words \subseteq Nat /\ 1..k \subseteq Nat
      /\ \A c \in Nat : c \in Nat
  BY Sizes DEF Words
<1>1. CASE \E i \in Nat : x = InputNode(i)
  BY <1>1, InputAndOpNode DEF InputNode, Node, Refs, Range
<1>2. CASE \E c \in Words : x = Constant(c)
  BY <1>0, <1>2, ConstantNode DEF Constant, Node
<1>3. CASE \E op \in UnoOps, a \in 1..k : x = UnoOp(op, a)
  <2>1. PICK op \in UnoOps, a \in 1..k : x = UnoOp(op, a)
    BY <1>3
  <2>2. <<a>> \in [1..1 -> Nat] /\ Range(<<a>>) = {a}
    BY DEF Range
  <2>3. Arity["UnoOp"] = 1 /\ "UnoOp" \in DOMAIN Arity /\ Operations["UnoOp"] = UnoOps
    BY DEF Arity, Operations
  <2> QED
    BY <2>1, <2>2, <2>3 DEF IsNode, UnoOp, Node, Refs
<1>4. CASE \E op \in DuoOps, a \in 1..k, b \in 1..k : x = Op(op, a, b)
  <2>1. PICK op \in DuoOps, a \in 1..k, b \in 1..k : x = Op(op, a, b)
    BY <1>4
  <2>2. <<a, b>> \in [1..2 -> Nat] /\ Range(<<a, b>>) = {a, b}
    BY DEF Range
  <2>3. Arity["Op"] = 2 /\ "Op" \in DOMAIN Arity /\ Operations["Op"] = DuoOps
    BY DEF Arity, Operations
  <2> QED
    BY <2>1, <2>2, <2>3 DEF IsNode, Op, Node, Refs
<1>5. CASE \E a \in 1..k, b \in 1..k, c \in 1..k : x = TresOp("TernCond", a, b, c)
  <2>1. PICK a \in 1..k, b \in 1..k, c \in 1..k : x = TresOp("TernCond", a, b, c)
    BY <1>5
  <2>2. <<a, b, c>> \in [1..3 -> Nat] /\ Range(<<a, b, c>>) = {a, b, c}
    BY DEF Range
  <2>3. /\ Arity["TresOp"] = 3 /\ "TresOp" \in DOMAIN Arity
        /\ "TernCond" \in Operations["TresOp"]
    BY DEF Arity, Operations, TresOps
  <2> QED
    BY <2>1, <2>2, <2>3 DEF IsNode, TresOp, Node, Refs
<1> QED
  BY <1>1, <1>2, <1>3, <1>4, <1>5 DEF Made

\* The builder's nodes are a graph whose references point backwards.
LEMMA MadeGraph ==
    ASSUME NEW p, NEW ns, GraphOK(ns, p)
    PROVE  IsGraph(ns) /\ BackRefs(ns) /\ Len(ns) \in Nat /\ DOMAIN ns = 1..Len(ns)
<1>1. ns \in Seq(MadeNodes(p))
  BY DEF GraphOK
<1>2. Len(ns) \in Nat /\ DOMAIN ns = 1..Len(ns) /\ ns \in [1..Len(ns) -> MadeNodes(p)]
  BY <1>1, LenProperties
<1>3. ASSUME NEW i \in 1..Len(ns)
      PROVE  IsNode(ns[i]) /\ Refs(ns[i]) \subseteq 1..i - 1
  <2>1. i - 1 \in Nat /\ ns[i] \in Made(i - 1, p)
    BY <1>2 DEF GraphOK
  <2> QED
    BY <2>1, MadeIsNode
<1>4. ns = [k \in 1..Len(ns) |-> ns[k]]
  BY <1>2
<1>5. IsGraph(ns)
  BY <1>2, <1>3, <1>4, GraphOf
<1> QED
  BY <1>2, <1>3, <1>5 DEF BackRefs

\* More nodes at the end.
LEMMA GraphConcat ==
    ASSUME NEW p, NEW ns, GraphOK(ns, p), NEW m \in Nat, NEW new, new = [j \in 1..m |-> new[j]],
           \A j \in 1..m : new[j] \in Made(Len(ns) + j - 1, p)
    PROVE  GraphOK(ns \o new, p) /\ Len(ns \o new) = Len(ns) + m
<1> DEFINE n == Len(ns)
<1>1. ns \in Seq(MadeNodes(p)) /\ n \in Nat
  BY LenProperties DEF GraphOK
<1>2. \A j \in 1..m : new[j] \in MadeNodes(p)
  <2>1. \A j \in 1..m : n + j - 1 \in Nat
    BY <1>1
  <2> QED
    BY <2>1 DEF MadeNodes
<1>3. new \in Seq(MadeNodes(p)) /\ Len(new) = m
  <2>1. new \in [1..m -> MadeNodes(p)]
    BY <1>2
  <2> QED
    BY <2>1
<1>4. /\ ns \o new \in Seq(MadeNodes(p)) /\ Len(ns \o new) = Len(ns) + Len(new)
      /\ \A i \in 1..Len(ns) + Len(new) :
            (ns \o new)[i] = IF i <= Len(ns) THEN ns[i] ELSE new[i - Len(ns)]
  BY <1>1, <1>3, ConcatProperties
<1>5. ASSUME NEW i \in 1..n + m PROVE (ns \o new)[i] \in Made(i - 1, p)
  <2>0. (ns \o new)[i] = IF i <= n THEN ns[i] ELSE new[i - n]
    BY <1>3, <1>4
  <2> HIDE DEF n
  <2>1. CASE i <= n
    <3>1. i \in 1..n
      BY <1>1, <2>1
    <3>2. ns[i] \in Made(i - 1, p)
      BY <3>1 DEF GraphOK, n
    <3> QED
      BY <2>0, <2>1, <3>2
  <2>2. CASE ~(i <= n)
    <3>1. i - n \in 1..m /\ n + (i - n) - 1 = i - 1
      BY <1>1, <2>2
    <3>2. new[i - n] \in Made(n + (i - n) - 1, p)
      BY <3>1 DEF n
    <3> QED
      BY <2>0, <2>2, <3>1, <3>2
  <2> QED
    BY <2>1, <2>2
<1>6. Len(ns \o new) = n + m
  BY <1>3, <1>4
<1> QED
  BY <1>4, <1>5, <1>6 DEF GraphOK

\* One more node.
LEMMA GraphAppend ==
    ASSUME NEW p, NEW ns, GraphOK(ns, p), NEW x \in Made(Len(ns), p)
    PROVE  GraphOK(Append(ns, x), p) /\ Len(Append(ns, x)) = Len(ns) + 1
<1>1. ns \in Seq(MadeNodes(p)) /\ Len(ns) \in Nat
  BY LenProperties DEF GraphOK
<1>2. x \in MadeNodes(p)
  BY <1>1 DEF MadeNodes
<1>3. Append(ns, x) = ns \o <<x>>
  BY <1>1, <1>2, AppendIsConcat
<1>4. <<x>> = [j \in 1..1 |-> <<x>>[j]] /\ <<x>>[1] = x
  OBVIOUS
<1>5. \A j \in 1..1 : <<x>>[j] \in Made(Len(ns) + j - 1, p)
  <2>1. Len(ns) + 1 - 1 = Len(ns)
    BY <1>1
  <2>2. \A j \in 1..1 : j = 1
    OBVIOUS
  <2> QED
    BY <1>4, <2>1, <2>2
<1>6. 1 \in Nat
  OBVIOUS
<1> HIDE DEF GraphOK
<1>7. GraphOK(ns \o <<x>>, p) /\ Len(ns \o <<x>>) = Len(ns) + 1
  BY <1>4, <1>5, <1>6, GraphConcat
<1> QED
  BY <1>3, <1>7

\* What the operators make of earlier nodes.
LEMMA MakesNodes ==
    ASSUME NEW k \in Nat, NEW p
    PROVE  /\ \A op \in UnoOps, a \in 1..k : UnoOp(op, a) \in Made(k, p)
           /\ \A op \in DuoOps, a \in 1..k, b \in 1..k : Op(op, a, b) \in Made(k, p)
           /\ \A a \in 1..k, b \in 1..k, c \in 1..k : TresOp("TernCond", a, b, c) \in Made(k, p)
           /\ \A c \in Words : Constant(c) \in Made(k, p)
BY DEF Made

\* Every value gets a node, and keeps the one it has.
LEMMA AsNodesMake ==
    ASSUME NEW p, NEW ns, GraphOK(ns, p), NEW vs \in Seq(Val(Len(ns)))
    PROVE  LET r == AsNodes(vs, ns)
           IN  /\ GraphOK(r.nodes, p) /\ Len(ns) <= Len(r.nodes) /\ Len(r.nodes) \in Nat
               /\ r.vals \in Seq(Val(Len(r.nodes))) /\ Len(r.vals) = Len(vs)
               /\ \A k \in 1..Len(vs) : r.vals[k].type = "Node" /\ r.vals[k].val \in 1..Len(r.nodes)
<1> DEFINE n == Len(ns)
           new == ValuesIn(vs)
           c == Cardinality(new)
           constants == ConstantsFor(vs)
           r == AsNodes(vs, ns)
<1>1. n \in Nat /\ Len(vs) \in Nat /\ DOMAIN vs = 1..Len(vs)
  BY MadeGraph, LenProperties
<1>2. new \in SUBSET Nat /\ new \subseteq 1..Len(vs) /\ IsFiniteSet(new)
  <2>1. new \subseteq 1..Len(vs)
    BY <1>1 DEF ValuesIn
  <2>2. IsFiniteSet(1..Len(vs))
    BY <1>1, FS_Interval
  <2> QED
    BY <1>1, <2>1, <2>2, FS_Subset
<1>3. \A k \in 1..Len(vs) : vs[k] \in Val(n)
  BY ElementOfSeq
<1> HIDE DEF new
<1>4. c \in Nat /\ Renumber(new) \in [new -> 1..c]
  BY <1>2, RankType
<1>5. ASSUME NEW j \in 1..c PROVE constants[j] \in Made(n + j - 1, p)
  <2>1. PICK i \in new : Kept(vs, new)[j] = vs[i]
    BY <1>2, KeptNodes
  <2>2. vs[i] \in Val(n) /\ vs[i].type = "Value"
    BY <1>1, <1>2, <1>3 DEF new, ValuesIn
  <2>3. vs[i].val \in Words
    BY <2>2 DEF Val
  <2>4. constants[j] = Constant(vs[i].val)
    BY <2>1 DEF ConstantsFor, new
  <2>5. n + j - 1 \in Nat
    BY <1>1, <1>4
  <2> QED
    BY <2>3, <2>4, <2>5, MakesNodes
<1>6. constants = [j \in 1..c |-> constants[j]]
  BY DEF ConstantsFor, new
<1> HIDE DEF c, constants
<1>7. GraphOK(ns \o constants, p) /\ Len(ns \o constants) = n + c
  BY <1>4, <1>5, <1>6, GraphConcat
<1>8. /\ r.nodes = ns \o constants
      /\ r.vals = [k \in 1..Len(vs) |-> IF k \in new THEN NodeAt(n + Renumber(new)[k]) ELSE vs[k]]
  BY <1>1 DEF AsNodes, constants, new
<1> HIDE DEF n
<1>9. ASSUME NEW k \in 1..Len(vs)
      PROVE  /\ r.vals[k] \in Val(n + c) /\ r.vals[k].type = "Node"
             /\ r.vals[k].val \in 1..n + c
  <2>1. CASE k \in new
    <3>1. Renumber(new)[k] \in 1..c
      BY <1>4, <2>1
    <3>2. n + Renumber(new)[k] \in 1..n + c
      BY <1>1, <1>4, <3>1
    <3> QED
      BY <1>8, <2>1, <3>2 DEF NodeAt, Val
  <2>2. CASE k \notin new
    <3>1. vs[k].type # "Value" /\ vs[k] \in Val(n)
      BY <1>1, <1>3, <2>2 DEF new, ValuesIn
    <3>2. vs[k] \in [type : {"Node"}, val : 1..n]
      BY <3>1 DEF Val
    <3>3. 1..n \subseteq 1..n + c
      BY <1>1, <1>4
    <3> QED
      BY <1>8, <2>2, <3>2, <3>3 DEF Val
  <2> QED
    BY <2>1, <2>2
<1>10. r.vals \in [1..Len(vs) -> Val(n + c)]
  BY <1>8, <1>9
<1>11. r.vals \in Seq(Val(n + c)) /\ Len(r.vals) = Len(vs)
  BY <1>1, <1>10
<1>12. n <= n + c /\ n + c \in Nat
  BY <1>1, <1>4
<1>13. Len(r.nodes) = n + c /\ GraphOK(r.nodes, p)
  BY <1>7, <1>8
<1> HIDE DEF r
<1> QED
  BY <1>9, <1>11, <1>12, <1>13 DEF r, n

\* A sequence of sequences is flattened to one of their elements.
LEMMA FlattenType ==
    ASSUME NEW V, NEW seqs \in Seq(Seq(V))
    PROVE  FlattenSeq(seqs) \in Seq(V) /\ Len(FlattenSeq(seqs)) \in Nat
<1> DEFINE N == Len(seqs)
           IsFlat(g) == g = [i \in 1..N |-> IF i = 1 THEN seqs[i] ELSE g[i - 1] \o seqs[i]]
           flatten == CHOOSE g : IsFlat(g)
           step == [t \in (0..N) \X Seq(V) |->
                       IF t[1] = 0 THEN <<>> ELSE IF t[1] = 1 THEN seqs[t[1]]
                       ELSE t[2] \o seqs[t[1]]]
<1>1. N \in Nat /\ \A k \in 1..N : seqs[k] \in Seq(V)
  BY LenProperties, ElementOfSeq
<1>2. CASE N = 0
  <2>1. seqs = <<>>
    BY <1>2, EmptySeq
  <2>2. FlattenSeq(seqs) = <<>>
    BY <1>2, <2>1 DEF FlattenSeq
  <2> QED
    BY <2>2
<1>3. CASE N # 0
  <2>1. FlattenSeq(seqs) = flatten[N]
    BY <1>3 DEF FlattenSeq
  <2>2. step \in [(0..N) \X Seq(V) -> Seq(V)]
    <3>1. ASSUME NEW t \in (0..N) \X Seq(V)
          PROVE  (IF t[1] = 0 THEN <<>> ELSE IF t[1] = 1 THEN seqs[t[1]]
                  ELSE t[2] \o seqs[t[1]]) \in Seq(V)
      <4>1. t[1] \in 0..N /\ t[2] \in Seq(V)
        OBVIOUS
      <4>2. CASE t[1] = 0
        BY <4>2
      <4>3. CASE t[1] = 1
        <5>1. t[1] \in 1..N
          BY <1>1, <4>1, <4>3
        <5> QED
          BY <1>1, <4>3, <5>1
      <4>4. CASE t[1] # 0 /\ t[1] # 1
        <5>1. t[1] \in 1..N
          BY <1>1, <4>1, <4>4
        <5>2. seqs[t[1]] \in Seq(V)
          BY <1>1, <5>1
        <5>3. t[2] \o seqs[t[1]] \in Seq(V)
          BY <4>1, <5>2, ConcatProperties
        <5> QED
          BY <4>4, <5>3
      <4> QED
        BY <4>2, <4>3, <4>4
    <3> QED
      BY <3>1
  <2>3. <<>> \in Seq(V)
    OBVIOUS
  <2> HIDE DEF step
  <2>4. PICK f \in [0..N -> Seq(V)] : Iterates(f, N, <<>>, step)
    BY <1>1, <2>2, <2>3, Recursion
  <2> DEFINE g == [i \in 1..N |-> f[i]]
  <2>5. ASSUME NEW i \in 1..N
        PROVE  g[i] = IF i = 1 THEN seqs[i] ELSE g[i - 1] \o seqs[i]
    <3>1. i \in 0..N /\ i - 1 \in 0..N /\ i # 0
      BY <1>1
    <3>2. f[i - 1] \in Seq(V)
      BY <2>4, <3>1
    <3>3. f[i] = step[<<i, f[i - 1]>>]
      BY <2>4 DEF Iterates
    <3>4. f[i] = IF i = 1 THEN seqs[i] ELSE f[i - 1] \o seqs[i]
      BY <3>1, <3>2, <3>3 DEF step
    <3>5. i # 1 => i - 1 \in 1..N
      BY <1>1
    <3> QED
      BY <3>4, <3>5
  <2>6. IsFlat(g)
    BY <2>5
  <2> HIDE DEF g, IsFlat
  <2>7. IsFlat(flatten)
    BY <2>6
  <2> HIDE DEF flatten
  <2>8. flatten = [i \in 1..N |-> IF i = 1 THEN seqs[i] ELSE flatten[i - 1] \o seqs[i]]
    BY <2>7 DEF IsFlat
  <2> DEFINE T == {i \in 0..N : i = 0 \/ flatten[i] \in Seq(V)}
  <2>9. 0 \in T
    BY <1>1
  <2>10. ASSUME NEW i \in 0..N - 1, i \in T PROVE i + 1 \in T
    <3>1. i + 1 \in 1..N /\ i + 1 \in 0..N /\ (i + 1) - 1 = i
      BY <1>1
    <3>2. seqs[i + 1] \in Seq(V)
      BY <1>1, <3>1
    <3>3. flatten[i + 1] = IF i + 1 = 1 THEN seqs[i + 1] ELSE flatten[(i + 1) - 1] \o seqs[i + 1]
      BY <2>8, <3>1
    <3>4. CASE i = 0
      <4>1. i + 1 = 1
        BY <3>4
      <4>2. flatten[i + 1] = seqs[i + 1]
        BY <3>3, <4>1
      <4> QED
        BY <3>1, <3>2, <4>2
    <3>5. CASE i # 0
      <4>1. i + 1 # 1 /\ flatten[i] \in Seq(V)
        BY <1>1, <2>10, <3>5
      <4>2. flatten[i + 1] = flatten[i] \o seqs[i + 1]
        BY <3>1, <3>3, <4>1
      <4>3. flatten[i] \o seqs[i + 1] \in Seq(V)
        BY <3>2, <4>1, ConcatProperties
      <4> QED
        BY <3>1, <4>2, <4>3
    <3> QED
      BY <3>4, <3>5
  <2> HIDE DEF T
  <2>11. \A i \in 0..N : i \in T
    BY <1>1, <2>9, <2>10, Induction
  <2>12. flatten[N] \in Seq(V)
    <3>1. N \in 0..N
      BY <1>1
    <3> QED
      BY <1>3, <2>11, <3>1 DEF T
  <2> QED
    BY <2>1, <2>12, LenProperties
<1> QED
  BY <1>2, <1>3

-----------------------------------------------------------------------------
(***************************************************************************)
(* The inductive invariant: the nodes refer backwards, the signals and the *)
(* values of the frames refer to nodes, and every frame will find the      *)
(* values that what it has to do needs.                                    *)
(***************************************************************************)
IInv ==
    /\ program \in Programs /\ pc \in {"run", "built", "panic"}
    /\ GraphOK(nodes, program) /\ signals \in [0..program.signals - 1 -> 0..Len(nodes)]
    /\ StackOK(stack, Len(nodes), program)

\* What the compiler guarantees.
LEMMA Compiled ==
    /\ \A p \in Programs : IsProgram(p, Instructions)
    /\ \A i \in Instructions : IsInstruction(i, Instructions, Expressions)
    /\ \A e \in Expressions : IsExpression(e, Expressions)
BY ProgramsAssumption DEF AreCompiled

\* Lists of ones.
LEMMA OnesType == \A k \in Nat : Ones(k) \in Shapes /\ Len(Ones(k)) = k
                                 /\ \A j \in 1..k : Ones(k)[j] = AnyOf(1)
<1>1. ASSUME NEW k \in Nat
      PROVE  Ones(k) \in Seq(Sorts) /\ Len(Ones(k)) = k /\ \A j \in 1..k : Ones(k)[j] = AnyOf(1)
  <2>1. Ones(k) \in [1..k -> Sorts]
    BY DEF Ones, AnyOf, Sorts
  <2> QED
    BY <2>1 DEF Ones
<1> QED
  BY <1>1 DEF Shapes

\* A list of things to do, made one by one.
LEMMA ItemsOf ==
    ASSUME NEW type, NEW N \in Nat, NEW items, items = [k \in 1..N |-> items[k]],
           \A k \in 1..N : items[k] \in Items(type)
    PROVE  items \in Seq(Items(type))
<1>1. items \in [1..N -> Items(type)]
  OBVIOUS
<1> QED
  BY <1>1

\* Calculating expressions: one after the other, each leaves as many values
\* as it is asked for.
LEMMA CalcItems ==
    ASSUME NEW type, NEW es \in Seq(Expressions), NEW ns \in [DOMAIN es -> Nat],
           NEW by \in Bys, NEW items, items = [k \in DOMAIN es |-> Calc(by, es[k], ns[k])],
           NEW D, D = [k \in DOMAIN es |-> Of(by, ns[k])]
    PROVE  /\ items \in Seq(Items(type)) /\ D \in Shapes
           /\ \A P \in Shapes : Chain(items, P, P \o D)
<1>1. Len(es) \in Nat /\ DOMAIN es = 1..Len(es) /\ \A k \in 1..Len(es) : es[k] \in Expressions
  BY LenProperties, ElementOfSeq
<1>2. /\ items = [k \in 1..Len(es) |-> items[k]]
      /\ \A k \in 1..Len(es) : items[k] = Calc(by, es[k], ns[k]) /\ D[k] = Of(by, ns[k])
  BY <1>1
<1>3. D \in [1..Len(es) -> Sorts]
  BY <1>1 DEF Of, Sorts
<1>4. ASSUME NEW k \in 1..Len(es)
      PROVE  /\ items[k] \in Items(type) /\ Need(items[k]) = <<>>
             /\ Gives(items[k]) = <<D[k]>> /\ ~Exact(items[k])
  <2>1. items[k] = [do |-> "calc", by |-> by, what |-> es[k], n |-> ns[k]] /\ ns[k] \in Nat
    BY <1>1, <1>2 DEF Calc, Do
  <2> DEFINE it == items[k]
  <2>2. it.do = "calc" /\ it.what = es[k] /\ it.n = ns[k] /\ it.by = by
    BY <2>1
  <2>3. IsItem(type, it)
    BY <1>1, <2>2 DEF IsItem
  <2>4. it \in [do : Dos, by : Bys, what : Expressions \cup Instructions \cup {None}, n : Nat]
    <3>1. "calc" \in Dos /\ es[k] \in Expressions /\ ns[k] \in Nat
      BY <1>1, <2>1 DEF Dos
    <3> QED
      BY <2>1, <3>1
  <2> HIDE DEF it
  <2>5. it \in Items(type)
    BY <2>3, <2>4 DEF Items
  <2>6. Need(it) = <<>> /\ Gives(it) = <<D[k]>> /\ ~Exact(it)
    BY <1>2, <2>2 DEF Need, Gives, Exact
  <2> QED
    BY <2>5, <2>6 DEF it
<1>5. items \in Seq(Items(type))
  BY <1>1, <1>2, <1>4, ItemsOf
<1>6. \A P \in Shapes : Chain(items, P, P \o D)
  BY <1>1, <1>2, <1>3, <1>4, ChainCalcs
<1>7. D \in Seq(Sorts)
  BY <1>1, <1>3
<1> QED
  BY <1>5, <1>6, <1>7 DEF Shapes

\* An address leaves one value for each of its expressions.
LEMMA AddressItems ==
    ASSUME NEW a, IsAddress(a, Expressions), NEW by, NEW type
    PROVE  /\ CalcAddress(by, a) \in Seq(Items(type))
           /\ AddressLen(a) \in Nat
           /\ \A P \in Shapes : Chain(CalcAddress(by, a), P, P \o Ones(AddressLen(a)))
<1> DEFINE es == a.cmp \o a.at
           by1 == IF by = "function" THEN "function" ELSE "template"
           ns == [k \in DOMAIN es |-> 1]
           items == [k \in DOMAIN es |-> Calc(by1, es[k], ns[k])]
<1>1. a.cmp \in Seq(Expressions) /\ a.at \in Seq(Expressions)
  BY DEF IsAddress
<1>2. Len(a.cmp) \in Nat /\ Len(a.at) \in Nat /\ es \in Seq(Expressions)
      /\ Len(es) = Len(a.cmp) + Len(a.at)
  BY <1>1, ConcatProperties, LenProperties
<1>3. AddressLen(a) \in Nat /\ Len(es) = AddressLen(a) /\ DOMAIN es = 1..AddressLen(a)
  BY <1>2, LenProperties DEF AddressLen
<1>4. CalcAddress(by, a) = items
  BY DEF CalcAddress
<1>5. ns \in [DOMAIN es -> Nat]
  OBVIOUS
<1>6. es \in Seq(Expressions) /\ by1 \in Bys
  <2>1. es \in Seq(Expressions)
    BY <1>2
  <2>2. by1 \in Bys
    BY DEF Bys
  <2> QED
    BY <2>1, <2>2
<1>7. Ones(AddressLen(a)) = [k \in DOMAIN es |-> Of(by1, ns[k])]
  BY <1>3 DEF Ones, AnyOf, Of
<1> HIDE DEF ns, es, by1
<1>8. /\ items \in Seq(Items(type))
      /\ \A P \in Shapes : Chain(items, P, P \o Ones(AddressLen(a)))
  BY <1>5, <1>6, <1>7, CalcItems
<1> QED
  BY <1>3, <1>4, <1>8

\* What an item needs is a shape.
LEMMA NeedType ==
    ASSUME NEW type, NEW it \in Items(type)
    PROVE  Need(it) \in Shapes /\ Gives(it) \in Shapes /\ IsItem(type, it)
           /\ it.n \in Nat
<1>0. /\ it.n \in Nat /\ IsItem(type, it)
      /\ it = [do |-> it.do, by |-> it.by, what |-> it.what, n |-> it.n]
  BY DEF Items
<1>1. /\ <<>> \in Shapes /\ \A s \in Sorts : <<s>> \in Shapes
      /\ \A n \in Nat : AnyOf(n) \in Sorts
      /\ \A n \in Nat : \A by : Of(by, n) \in Sorts
  <2>1. <<>> \in Shapes /\ \A s \in Sorts : <<s>> \in Shapes
    BY DEF Shapes
  <2>2. \A n \in Nat : AnyOf(n) \in Sorts
    BY DEF Sorts, AnyOf
  <2>3. ASSUME NEW n \in Nat, NEW by PROVE Of(by, n) \in Sorts
    BY DEF Sorts, Of
  <2> QED
    BY <2>1, <2>2, <2>3
<1>2. CASE it.do = "apply"
  <2>1. it.what \in Expressions /\ it.what.kind \in {"Load", "Compute"}
    BY <1>0, <1>2 DEF IsItem
  <2>2. CASE it.what.kind = "Load"
    <3>1. AddressLen(it.what) \in Nat
      BY <2>1, <2>2, Compiled, AddressItems DEF IsExpression
    <3> QED
      BY <1>0, <1>1, <1>2, <2>2, <3>1, OnesType DEF Need, Gives
  <2>3. CASE it.what.kind = "Compute"
    <3>1. it.what.args \in Seq(Expressions)
      BY <2>1, <2>3, Compiled DEF IsExpression
    <3> DEFINE D == [k \in DOMAIN it.what.args |-> Of(it.by, 1)]
    <3>2. D \in Shapes
      <4>1. Len(it.what.args) \in Nat /\ DOMAIN it.what.args = 1..Len(it.what.args)
        BY <3>1, LenProperties
      <4>2. D \in [1..Len(it.what.args) -> Sorts]
        BY <1>1, <4>1
      <4> HIDE DEF D
      <4> QED
        BY <4>1, <4>2 DEF Shapes
    <3>3. Need(it) = D
      BY <1>2, <2>3 DEF Need
    <3> QED
      BY <1>0, <1>1, <1>2, <3>2, <3>3 DEF Gives
  <2> QED
    BY <2>1, <2>2, <2>3
<1>3. CASE it.do = "finish"
  <2>1. it.what \in Instructions
    BY <1>0, <1>3 DEF IsItem
  <2>2. CASE it.what.kind = "Call"
    <3>1. it.what.args \in Seq(Expressions) /\ it.what.sizes \in [DOMAIN it.what.args -> Nat]
      BY <2>1, <2>2, Compiled DEF IsInstruction
    <3>2. Len(it.what.args) \in Nat /\ DOMAIN it.what.args = 1..Len(it.what.args)
      BY <3>1, LenProperties
    <3> DEFINE D == [k \in DOMAIN it.what.args |-> AnyOf(it.what.sizes[k])]
    <3>3. D \in [1..Len(it.what.args) -> Sorts]
      BY <1>1, <3>1, <3>2
    <3>4. Need(it) = D
      BY <1>3, <2>2 DEF Need
    <3> HIDE DEF D
    <3>5. D \in Shapes
      BY <3>2, <3>3 DEF Shapes
    <3> QED
      BY <1>0, <1>1, <1>3, <3>4, <3>5 DEF Gives
  <2>3. CASE it.what.kind # "Call"
    BY <1>0, <1>1, <1>3, <2>3, OnesType DEF Need, Gives
  <2> QED
    BY <2>2, <2>3
<1>4. CASE it.do = "put"
  <2>1. it.what \in Instructions /\ it.what.kind \in {"Store", "Call"} /\ it.by \in {"source", "address"}
    BY <1>0, <1>4 DEF IsItem
  <2>2. IsAddress(it.what, Expressions) /\ it.what.size \in Nat
    BY <2>1, Compiled DEF IsInstruction
  <2>3. Ones(AddressLen(it.what)) \in Shapes
    BY <2>2, AddressItems, OnesType
  <2>4. <<Stored(it.what)>> \in Shapes
    BY <1>1, <2>2 DEF Stored, Sorts
  <2>5. /\ <<Stored(it.what)>> \o Ones(AddressLen(it.what)) \in Shapes
        /\ Ones(AddressLen(it.what)) \o <<Stored(it.what)>> \in Shapes
    BY <2>3, <2>4, ShapesConcat
  <2> QED
    BY <1>0, <1>1, <1>4, <2>1, <2>5 DEF Need, Gives
<1>5. CASE it.do = "choose"
  <2> DEFINE s == Of("operand", 1)
  <2>1. s \in Sorts
    BY <1>1
  <2> HIDE DEF s
  <2>2. <<s, s>> \in Shapes
    BY <2>1 DEF Shapes
  <2>3. Ones(5) \in Shapes /\ Ones(3) \in Shapes
    BY OnesType
  <2>4. Ones(3) \o <<s, s>> \in Shapes
    BY <2>2, <2>3, ShapesConcat
  <2>5. Need(it) = IF it.what.ifs[1].addr = "Variable" THEN Ones(5) ELSE Ones(3) \o <<s, s>>
    BY <1>5 DEF Need, s
  <2> QED
    BY <1>0, <1>1, <1>5, <2>3, <2>4, <2>5 DEF Gives
<1>6. CASE it.do = "result"
  <2>1. it.what.size \in Nat
    BY <1>0, <1>6, Compiled DEF IsItem, IsInstruction
  <2> QED
    BY <1>0, <1>1, <1>6, <2>1 DEF Need, Gives
<1>7. CASE it.do \notin {"apply", "finish", "put", "choose", "result"}
  BY <1>0, <1>1, <1>7 DEF Need, Gives
<1> QED
  BY <1>2, <1>3, <1>4, <1>5, <1>6, <1>7

-----------------------------------------------------------------------------
\* The frame that runs, and what it has to do.

\* The first frame.
LEMMA Running ==
    ASSUME IInv
    PROVE  /\ program \in Programs /\ IsProgram(program, Instructions)
           /\ GraphOK(nodes, program) /\ Len(nodes) \in Nat
           /\ AreFrames(stack, Len(nodes), program) /\ Len(stack) \in Nat \ {0}
           /\ Frame = stack[1] /\ Tail(stack) = SubSeq(stack, 2, Len(stack))
           /\ IsFrame(Frame, Len(nodes), program) /\ Ready(Frame)
<1>1. /\ program \in Programs /\ GraphOK(nodes, program) /\ AreFrames(stack, Len(nodes), program)
      /\ stack # <<>> /\ Ready(stack[1])
  BY DEF IInv, StackOK, Linked
<1>2. IsProgram(program, Instructions) /\ Len(nodes) \in Nat
  BY <1>1, Compiled, MadeGraph
<1>3. stack \in Seq(Range(stack)) /\ Len(stack) \in Nat
  BY <1>1, FrameAt DEF AreFrames
<1>4. Len(stack) # 0
  BY <1>1, <1>3, EmptySeq
<1>5. IsFrame(stack[1], Len(nodes), program)
  BY <1>1, <1>3, <1>4, FrameAt
<1>6. Frame = stack[1]
  BY DEF Frame
<1>7. Tail(stack) = SubSeq(stack, 2, Len(stack))
  BY <1>1, <1>3, TailIsSubSeq
<1> QED
  BY <1>1, <1>2, <1>3, <1>4, <1>5, <1>6, <1>7

\* The first item finds what it needs, and the rest what they need.
LEMMA NextItem ==
    ASSUME IInv, Frame.todo # <<>>
    PROVE  /\ Item \in Items(Frame.type) /\ Need(Item) \in Shapes /\ Gives(Item) \in Shapes
           /\ IsItem(Frame.type, Item) /\ Item.n \in Nat
           /\ Tail(Frame.todo) \in Seq(Items(Frame.type))
           /\ \E P \in Shapes :
                 /\ HasShape(Frame.vals, P \o Need(Item)) /\ (Exact(Item) => P = <<>>)
                 /\ Chain(Tail(Frame.todo), P \o Gives(Item), <<>>)
<1>0. Frame.todo \in Seq(Items(Frame.type)) /\ Ready(Frame)
  BY Running DEF IsFrame
<1>1. PICK S \in Shapes : HasShape(Frame.vals, S) /\ Chain(Frame.todo, S, <<>>)
  BY <1>0 DEF Ready
<1>2. Head(Frame.todo) \in Items(Frame.type) /\ Tail(Frame.todo) \in Seq(Items(Frame.type))
  BY <1>0, HeadTailProperties
<1>3. Item = Head(Frame.todo)
  BY DEF Item
<1>4. PICK U \in Shapes : /\ Effect(Head(Frame.todo), S, U)
                          /\ Chain(Tail(Frame.todo), U, <<>>)
  BY <1>0, <1>1, ChainHead
<1>5. PICK P \in Shapes : /\ S = P \o Need(Item) /\ U = P \o Gives(Item)
                          /\ Exact(Item) => P = <<>>
  BY <1>3, <1>4 DEF Effect
<1>6. /\ Need(Item) \in Shapes /\ Gives(Item) \in Shapes /\ IsItem(Frame.type, Item)
      /\ Item.n \in Nat
  BY <1>2, <1>3, NeedType
<1> QED
  BY <1>1, <1>2, <1>3, <1>4, <1>5, <1>6

\* The values an item needs.
LEMMA Operands ==
    ASSUME IInv, Frame.todo # <<>>, NEW k, k = Len(Need(Item))
    PROVE  /\ Top(k) \in Seq(Seq(Val(Len(nodes)))) /\ Len(Top(k)) = k /\ k \in Nat
           /\ Len(Frame.vals) - k \in Nat
           /\ \A j \in 1..k : /\ Top(k)[j] \in Seq(Val(Len(nodes)))
                              /\ Fit(Top(k)[j], Need(Item)[j])
                              /\ Need(Item)[j][1] = 1 =>
                                    /\ Top(k)[j][1] \in Val(Len(nodes))
                                    /\ Need(Item)[j][2] => Top(k)[j][1].type = "Node"
<1>1. PICK P \in Shapes : HasShape(Frame.vals, P \o Need(Item))
  BY NextItem
<1>2. Frame.vals \in Seq(Seq(Val(Len(nodes)))) /\ Need(Item) \in Shapes
  BY Running, NextItem DEF IsFrame
<1>3. /\ Top(k) \in Seq(Seq(Val(Len(nodes)))) /\ Len(Top(k)) = k /\ k \in Nat
      /\ Len(Frame.vals) - k \in Nat
      /\ \A j \in 1..k : /\ Top(k)[j] \in Seq(Val(Len(nodes)))
                         /\ Fit(Top(k)[j], Need(Item)[j])
  <2> DEFINE vals == Frame.vals
             D == Need(Item)
             V == Val(Len(nodes))
             top == SubSeq(vals, Len(vals) - k + 1, Len(vals))
  <2>1. vals \in Seq(Seq(V)) /\ D \in Shapes /\ HasShape(vals, P \o D) /\ k = Len(D)
    BY <1>1, <1>2
  <2>2. Top(k) = top
    BY DEF Top
  <2> HIDE DEF vals, D, V
  <2>3. HasEnds(V, vals, P, D)
    BY <2>1, TopAndBelow
  <2>4. /\ k \in Nat /\ Len(vals) - k \in Nat /\ top \in Seq(Seq(V)) /\ Len(top) = k
        /\ \A j \in 1..k : top[j] \in Seq(V) /\ Fit(top[j], D[j])
    BY <2>1, <2>3 DEF HasEnds
  <2> QED
    BY <2>2, <2>4 DEF V, D, vals
<1>4. ASSUME NEW j \in 1..k, Need(Item)[j][1] = 1
      PROVE  /\ Top(k)[j][1] \in Val(Len(nodes))
             /\ Need(Item)[j][2] => Top(k)[j][1].type = "Node"
  <2> DEFINE vs == Top(k)[j]
  <2>1. vs \in Seq(Val(Len(nodes))) /\ Fit(vs, Need(Item)[j])
    BY <1>3
  <2> HIDE DEF vs
  <2>2. Len(vs) = 1 /\ (Need(Item)[j][2] => \A i \in 1..Len(vs) : vs[i].type = "Node")
    BY <1>4, <2>1 DEF Fit
  <2>3. vs[1] \in Val(Len(nodes)) /\ 1 \in 1..Len(vs)
    BY <2>1, <2>2, ElementOfSeq, SMTT(30)
  <2> QED
    BY <2>2, <2>3 DEF vs
<1> QED
  BY <1>3, <1>4

\* A frame that goes on.
GoOn(f, m) ==
    /\ IsFrame(f, m, program) /\ Ready(f)
    /\ f = [Frame EXCEPT !.todo = f.todo, !.vals = f.vals]
    /\ f.type = Frame.type /\ f.vars = Frame.vars /\ f.comps = Frame.comps
    /\ f.start = Frame.start

\* The frame goes on: the new items find what they need, and leave what the
\* old one was to leave.
LEMMA GoesOn ==
    ASSUME IInv, Frame.todo # <<>>, NEW k, k = Len(Need(Item)),
           NEW m \in Nat, Len(nodes) <= m, NEW vs \in Seq(Seq(Val(m))),
           NEW S \in Shapes, HasShape(vs, S), NEW items \in Seq(Items(Frame.type)),
           \A P \in Shapes :
              (Exact(Item) => P = <<>>) => Chain(items, P \o S, P \o Gives(Item))
    PROVE  GoOn(Resumed(items, k, vs), m)
<1> DEFINE f == Resumed(items, k, vs)
           I == Items(Frame.type)
           rest == Tail(Frame.todo)
           n == Len(nodes)
<1>1. /\ IsFrame(Frame, n, program) /\ n \in Nat
      /\ Frame.vals \in Seq(Seq(Val(n)))
  BY Running DEF IsFrame
<1>2. PICK P \in Shapes :
        /\ HasShape(Frame.vals, P \o Need(Item)) /\ (Exact(Item) => P = <<>>)
        /\ Chain(rest, P \o Gives(Item), <<>>)
  BY NextItem
<1>3. rest \in Seq(I) /\ Need(Item) \in Shapes
  BY NextItem
<1>4. Below(k) \in Seq(Seq(Val(n))) /\ HasShape(Below(k), P)
  <2> DEFINE vals == Frame.vals
             D == Need(Item)
             V == Val(n)
             below == SubSeq(vals, 1, Len(vals) - k)
  <2>1. vals \in Seq(Seq(V)) /\ D \in Shapes /\ HasShape(vals, P \o D) /\ k = Len(D)
    BY <1>1, <1>2, <1>3
  <2>2. Below(k) = below
    BY DEF Below
  <2> HIDE DEF vals, D, V
  <2>3. HasEnds(V, vals, P, D)
    BY <2>1, TopAndBelow
  <2>4. below \in Seq(Seq(V)) /\ HasShape(below, P)
    BY <2>1, <2>3 DEF HasEnds
  <2> QED
    BY <2>2, <2>4 DEF V
<1>5. Below(k) \in Seq(Seq(Val(m)))
  BY <1>1, <1>4, ValuesStay
<1>6. /\ Below(k) \o vs \in Seq(Seq(Val(m))) /\ P \o S \in Shapes
      /\ HasShape(Below(k) \o vs, P \o S)
  <2>1. Below(k) \o vs \in Seq(Seq(Val(m))) /\ HasShape(Below(k) \o vs, P \o S)
    BY <1>4, <1>5, ShapeConcat
  <2> QED
    BY <2>1, ShapesConcat
<1>7. Chain(items, P \o S, P \o Gives(Item))
  BY <1>2
<1>8. items \o rest \in Seq(I)
  BY <1>3, ConcatProperties
<1>9. Chain(items \o rest, P \o S, <<>>)
  BY <1>2, <1>3, <1>7, ChainConcat
<1>10. IsFrame(Frame, m, program)
  BY <1>1, FramesStay
<1>11. f = [Frame EXCEPT !.todo = items \o rest, !.vals = Below(k) \o vs]
  BY DEF Resumed
<1>12. /\ f.todo = items \o rest /\ f.vals = Below(k) \o vs /\ f.type = Frame.type
       /\ f.vars = Frame.vars /\ f.comps = Frame.comps /\ f.start = Frame.start
       /\ f = [type |-> f.type, todo |-> f.todo, vals |-> f.vals, vars |-> f.vars,
               comps |-> f.comps, start |-> f.start]
  BY <1>10, <1>11 DEF IsFrame
<1> HIDE DEF f, rest, n
<1>13. f = [Frame EXCEPT !.todo = f.todo, !.vals = f.vals]
  BY <1>11, <1>12
<1>14. Ready(f)
  BY <1>4, <1>6, <1>9, <1>12 DEF Ready
<1>15. IsFrame(f, m, program)
  BY <1>6, <1>8, <1>10, <1>12 DEF IsFrame
<1> QED
  BY <1>12, <1>13, <1>14, <1>15 DEF f, GoOn

\* The same, when the values stay for the new items.
LEMMA GoesOnAbove ==
    ASSUME IInv, Frame.todo # <<>>, NEW items \in Seq(Items(Frame.type)),
           \A P \in Shapes : (Exact(Item) => P = <<>>)
              => Chain(items, P \o Need(Item), P \o Gives(Item))
    PROVE  LET f == Resumed(items, 0, <<>>)
           IN  IsFrame(f, Len(nodes), program) /\ Ready(f) /\ f.type = Frame.type
<1> DEFINE f == Resumed(items, 0, <<>>)
           I == Items(Frame.type)
           rest == Tail(Frame.todo)
           n == Len(nodes)
<1>1. /\ IsFrame(Frame, n, program) /\ n \in Nat
      /\ Frame.vals \in Seq(Seq(Val(n)))
  BY Running DEF IsFrame
<1>2. PICK P \in Shapes :
        /\ HasShape(Frame.vals, P \o Need(Item)) /\ (Exact(Item) => P = <<>>)
        /\ Chain(rest, P \o Gives(Item), <<>>)
  BY NextItem
<1>3. rest \in Seq(I)
  BY NextItem
<1>4. Below(0) = Frame.vals
  <2>1. Len(Frame.vals) \in Nat
    BY <1>1, LenProperties
  <2>2. Len(Frame.vals) - 0 = Len(Frame.vals)
    BY <2>1
  <2>3. SubSeq(Frame.vals, 1, Len(Frame.vals)) = Frame.vals
    BY <1>1, SubSeqFull
  <2> QED
    BY <2>2, <2>3 DEF Below
<1>5. Frame.vals \o <<>> = Frame.vals
  BY <1>1, ConcatEmptySeq
<1>6. items \o rest \in Seq(I)
  BY <1>3, ConcatProperties
<1>7. Chain(items \o rest, P \o Need(Item), <<>>)
  <2>1. Chain(items, P \o Need(Item), P \o Gives(Item))
    BY <1>2
  <2> QED
    BY <1>2, <1>3, <2>1, ChainConcat
<1>8. f = [Frame EXCEPT !.todo = items \o rest, !.vals = Frame.vals]
  BY <1>4, <1>5 DEF Resumed
<1>9. /\ f.todo = items \o rest /\ f.vals = Frame.vals /\ f.type = Frame.type
      /\ f.vars = Frame.vars /\ f.comps = Frame.comps /\ f.start = Frame.start
      /\ f = [type |-> f.type, todo |-> f.todo, vals |-> f.vals, vars |-> f.vars,
              comps |-> f.comps, start |-> f.start]
  BY <1>1, <1>8 DEF IsFrame
<1> HIDE DEF f, rest, n
<1>10. Ready(f)
  <2>1. P \o Need(Item) \in Shapes
    BY NextItem, ShapesConcat
  <2> QED
    BY <1>2, <1>7, <1>9, <2>1 DEF Ready
<1>11. IsFrame(f, n, program)
  BY <1>1, <1>6, <1>9 DEF IsFrame
<1> QED
  BY <1>9, <1>10, <1>11 DEF f, n

\* The same for instructions, whose values are all that the frame has.
LEMMA GoesOnExact ==
    ASSUME IInv, Frame.todo # <<>>, Exact(Item), NEW k, k = Len(Need(Item)),
           NEW m \in Nat, Len(nodes) <= m, NEW vs \in Seq(Seq(Val(m))),
           NEW S \in Shapes, HasShape(vs, S), NEW items \in Seq(Items(Frame.type)),
           Chain(items, S, <<>>)
    PROVE  GoOn(Resumed(items, k, vs), m)
<1>1. Gives(Item) = <<>> /\ <<>> \o S = S /\ <<>> \o <<>> = <<>>
  BY ShapesConcat DEF Gives, Exact
<1>2. \A P \in Shapes : (Exact(Item) => P = <<>>) => Chain(items, P \o S, P \o Gives(Item))
  BY <1>1
<1> QED
  BY <1>2, GoesOn

-----------------------------------------------------------------------------
\* What becomes of the stack.

\* The first frame is replaced.
LEMMA Replaced ==
    ASSUME IInv, NEW m \in Nat, Len(nodes) <= m,
           NEW f, IsFrame(f, m, program), Ready(f), f.type = Frame.type
    PROVE  StackOK(<<f>> \o Tail(stack), m, program)
<1>1. AreFrames(<<f>>, m, program) /\ Len(<<f>>) = 1 /\ <<f>>[1] = f
  BY FramesOne
<1>2. Linked(<<f>>)
  <2>1. 1 - 1 = 0 /\ \A k \in 1..0 : FALSE
    OBVIOUS
  <2>2. <<f>> # <<>>
    OBVIOUS
  <2> QED
    BY <1>1, <2>1, <2>2 DEF Linked
<1>3. Len(nodes) \in Nat /\ StackOK(stack, Len(nodes), program)
  BY Running DEF IInv
<1>4. 2 \in 2..Len(stack) + 1 /\ 2 - 1 = 1
  BY Running
<1>5. <<f>>[Len(<<f>>)].type = stack[2 - 1].type
  BY <1>1, <1>4, Running
<1> QED
  BY <1>1, <1>2, <1>3, <1>4, <1>5, StackReplaced, Running

\* Templates are called that the first frame need not wait for.
LEMMA TemplatesCalled ==
    ASSUME IInv, NEW f, IsFrame(f, Len(nodes), program), Ready(f), f.type = Frame.type,
           NEW N \in Nat, NEW new, new = [k \in 1..N |-> new[k]],
           \A k \in 1..N : /\ IsFrame(new[k], Len(nodes), program) /\ Ready(new[k])
                           /\ new[k].type = "template"
    PROVE  StackOK((new \o <<f>>) \o Tail(stack), Len(nodes), program)
<1> DEFINE n == Len(nodes)
           both == new \o <<f>>
<1>1. AreFrames(<<f>>, n, program) /\ Len(<<f>>) = 1 /\ <<f>>[1] = f
  BY FramesOne
<1>2. AreFrames(new, n, program) /\ Len(new) = N
  <2>1. new \in [1..N -> Range(new)]
    BY DEF Range
  <2>2. new \in Seq(Range(new)) /\ Len(new) = N
    BY <2>1
  <2>3. \A x \in Range(new) : \E k \in 1..N : x = new[k]
    BY DEF Range
  <2> QED
    BY <2>2, <2>3 DEF AreFrames
<1>3. AreFrames(both, n, program)
  BY <1>1, <1>2, FramesConcat
<1>4. /\ Len(both) = N + 1
      /\ \A i \in 1..N + 1 : both[i] = IF i <= N THEN new[i] ELSE f
  <2> DEFINE S == Range(new) \cup {f}
  <2>1. new \in Seq(S) /\ <<f>> \in Seq(S)
    <3>1. new \in Seq(Range(new))
      BY <1>2 DEF AreFrames
    <3>2. new \in Seq(S)
      BY <3>1, SeqMonotonic
    <3>3. <<f>> \in Seq(S)
      OBVIOUS
    <3> QED
      BY <3>2, <3>3
  <2> HIDE DEF S
  <2>2. /\ Len(new \o <<f>>) = Len(new) + Len(<<f>>)
        /\ \A i \in 1..Len(new) + Len(<<f>>) :
              (new \o <<f>>)[i] = IF i <= Len(new) THEN new[i] ELSE <<f>>[i - Len(new)]
    BY <2>1, ConcatProperties
  <2>3. Len(both) = N + 1 /\ \A i \in 1..N + 1 : both[i] = IF i <= N THEN new[i] ELSE <<f>>[i - N]
    BY <1>1, <1>2, <2>2
  <2>4. \A i \in 1..N + 1 : ~(i <= N) => i - N = 1
    OBVIOUS
  <2> QED
    BY <1>1, <2>3, <2>4
<1> HIDE DEF both
<1>5. both[1] = (IF 1 <= N THEN new[1] ELSE f) /\ both[N + 1] = f
  <2>1. 1 \in 1..N + 1 /\ N + 1 \in 1..N + 1 /\ ~(N + 1 <= N)
    OBVIOUS
  <2> QED
    BY <1>4, <2>1
<1>6. Ready(both[1])
  <2>1. 1 <= N => 1 \in 1..N
    OBVIOUS
  <2> QED
    BY <1>5, <2>1
<1>7. ASSUME NEW k \in 1..Len(both) - 1 PROVE Follows(both[k], both[k + 1])
  <2>1. k \in 1..N /\ k \in 1..N + 1 /\ k + 1 \in 1..N + 1 /\ k <= N
    BY <1>4
  <2>2. both[k] = new[k] /\ both[k + 1] = IF k + 1 <= N THEN new[k + 1] ELSE f
    BY <1>4, <2>1
  <2>3. k + 1 <= N => k + 1 \in 1..N
    BY <2>1
  <2> QED
    BY <2>1, <2>2, <2>3 DEF Follows
<1>8. both # <<>>
  <2>1. Len(both) # 0
    BY <1>4
  <2> QED
    BY <2>1, EmptySeq
<1>9. Linked(both)
  BY <1>6, <1>7, <1>8 DEF Linked
<1>10. n \in Nat /\ StackOK(stack, n, program)
  BY Running DEF IInv
<1>11. 2 \in 2..Len(stack) + 1 /\ 2 - 1 = 1 /\ n <= n
  BY <1>10, Running
<1>12. both[Len(both)].type = stack[2 - 1].type
  BY <1>4, <1>5, <1>11, Running
<1>13. StackOK(both \o SubSeq(stack, 2, Len(stack)), n, program)
  <2> HIDE DEF n
  <2> QED
    BY <1>3, <1>9, <1>10, <1>11, <1>12, StackReplaced
<1> QED
  BY <1>13, Running DEF both

\* A function is called, and the frame waits for its result.
LEMMA FunctionCalled ==
    ASSUME IInv, NEW f, IsFrame(f, Len(nodes), program), Waits(f), f.type = Frame.type,
           NEW g, IsFrame(g, Len(nodes), program), Ready(g), g.type = "function"
    PROVE  StackOK(<<g, f>> \o Tail(stack), Len(nodes), program)
<1> DEFINE n == Len(nodes)
           both == <<g, f>>
<1>1. AreFrames(both, n, program) /\ Len(both) = 2 /\ both[1] = g /\ both[2] = f
  <2>1. Range(both) = {g, f}
    BY DEF Range
  <2>2. both \in Seq({g, f}) /\ Len(both) = 2 /\ both[1] = g /\ both[2] = f
    OBVIOUS
  <2> QED
    BY <2>1, <2>2 DEF AreFrames
<1>2. both # <<>>
  OBVIOUS
<1> HIDE DEF both
<1>3. Linked(both)
  <2>1. \A k \in 1..2 - 1 : k = 1
    OBVIOUS
  <2> QED
    BY <1>1, <1>2, <2>1 DEF Linked, Follows
<1>4. n \in Nat /\ StackOK(stack, n, program)
  BY Running DEF IInv
<1>5. 2 \in 2..Len(stack) + 1 /\ 2 - 1 = 1 /\ n <= n
  BY <1>4, Running
<1>6. both[Len(both)].type = stack[2 - 1].type
  BY <1>1, <1>5, Running
<1>7. StackOK(both \o SubSeq(stack, 2, Len(stack)), n, program)
  <2> HIDE DEF n
  <2> QED
    BY <1>1, <1>3, <1>4, <1>5, <1>6, StackReplaced
<1> QED
  BY <1>7, Running DEF both

-----------------------------------------------------------------------------
\* What the steps have in common.

\* A step that keeps the program, and whose parts keep theirs of the invariant.
LEMMA Steps ==
    ASSUME IInv, program' = program, pc' \in {"run", "built", "panic"}, GraphOK(nodes', program),
           signals' \in [0..program.signals - 1 -> 0..Len(nodes')],
           StackOK(stack', Len(nodes'), program)
    PROVE  IInv'
BY DEF IInv

\* Signals do not mind more nodes.
LEMMA SignalsStay ==
    ASSUME IInv, NEW m \in Nat, Len(nodes) <= m
    PROVE  signals \in [0..program.signals - 1 -> 0..m]
<1>1. Len(nodes) \in Nat /\ signals \in [0..program.signals - 1 -> 0..Len(nodes)]
  BY Running DEF IInv
<1>2. 0..Len(nodes) \subseteq 0..m
  BY <1>1
<1> QED
  BY <1>1, <1>2

\* A step that changes nothing but the program counter.
LEMMA PanicKeeps == IInv /\ Panics => IInv'
BY DEF IInv, Panics

\* The first frame goes on, perhaps with more nodes.
LEMMA ResumeKeeps ==
    ASSUME IInv, pc = "run", Frame.todo # <<>>, NEW k, k = Len(Need(Item)),
           GraphOK(nodes', program), Len(nodes) <= Len(nodes'), UNCHANGED signals,
           NEW vs \in Seq(Seq(Val(Len(nodes')))), NEW S \in Shapes, HasShape(vs, S),
           NEW items \in Seq(Items(Frame.type)),
           \A P \in Shapes :
              (Exact(Item) => P = <<>>) => Chain(items, P \o S, P \o Gives(Item)),
           Resume(items, k, vs)
    PROVE  IInv'
<1> DEFINE m == Len(nodes')
           f == Resumed(items, k, vs)
<1>1. m \in Nat
  BY MadeGraph
<1>2. Len(nodes) <= m /\ vs \in Seq(Seq(Val(m)))
  OBVIOUS
<1> HIDE DEF m
<1>3. IsFrame(f, m, program) /\ Ready(f) /\ f.type = Frame.type
  <2>1. GoOn(f, m)
    BY <1>1, <1>2, GoesOn
  <2> QED
    BY <2>1 DEF GoOn
<1> HIDE DEF f
<1>4. StackOK(<<f>> \o Tail(stack), m, program)
  BY <1>1, <1>2, <1>3, Replaced
<1>5. signals \in [0..program.signals - 1 -> 0..m]
  BY <1>1, <1>2, SignalsStay
<1>6. stack' = <<f>> \o Tail(stack) /\ program' = program /\ pc' \in {"run", "built", "panic"}
  BY DEF f, Resume
<1> QED
  BY <1>4, <1>5, <1>6, Steps DEF m

\* The first frame goes on with more to do.
LEMMA ExpandKeeps ==
    ASSUME IInv, pc = "run", Frame.todo # <<>>, NEW items \in Seq(Items(Frame.type)),
           \A P \in Shapes : (Exact(Item) => P = <<>>)
              => Chain(items, P \o Need(Item), P \o Gives(Item)),
           Expand(items)
    PROVE  IInv'
<1> DEFINE n == Len(nodes)
           f == Resumed(items, 0, <<>>)
<1>1. n \in Nat /\ GraphOK(nodes, program)
  BY Running
<1>2. IsFrame(f, n, program) /\ Ready(f) /\ f.type = Frame.type
  BY GoesOnAbove
<1> HIDE DEF f
<1>3. StackOK(<<f>> \o Tail(stack), n, program)
  BY <1>1, <1>2, Replaced
<1>4. /\ stack' = <<f>> \o Tail(stack) /\ program' = program /\ pc' = "run"
      /\ nodes' = nodes /\ signals' = signals
  BY DEF f, Resume, Expand
<1> QED
  BY <1>1, <1>3, <1>4, Steps DEF IInv

\* Expressions leave their values.
LEMMA LeaveKeeps ==
    ASSUME IInv, pc = "run", Frame.todo # <<>>, NEW k, k = Len(Need(Item)), ~Exact(Item),
           NEW ns, GraphOK(ns, program), Len(nodes) <= Len(ns),
           NEW vs \in Seq(Val(Len(ns))), Fit(vs, Of(Item.by, Item.n)), Leave(k, vs, ns)
    PROVE  IInv'
<1> DEFINE s == Of(Item.by, Item.n)
<1>1. nodes' = ns /\ UNCHANGED signals /\ Resume(<<>>, k, <<vs>>)
  BY DEF Leave
<1>2. Gives(Item) = <<s>> /\ s \in Sorts
  BY NextItem DEF Gives, Exact, Of, Sorts
<1> HIDE DEF s
<1>3. <<vs>> \in Seq(Seq(Val(Len(nodes')))) /\ HasShape(<<vs>>, <<s>>) /\ <<s>> \in Shapes
  BY <1>1, <1>2, ShapeOne DEF s
<1>4. ASSUME NEW P \in Shapes PROVE Chain(<<>>, P \o <<s>>, P \o Gives(Item))
  <2>1. P \o <<s>> \in Shapes
    BY <1>3, ShapesConcat
  <2> QED
    BY <1>2, <2>1, ChainEmpty
<1>5. <<>> \in Seq(Items(Frame.type))
  OBVIOUS
<1> QED
  BY <1>1, <1>3, <1>4, <1>5, ResumeKeeps

\* A list of one value.
LEMMA OneValue ==
    \A V : \A v \in V : <<v>> \in Seq(V) /\ Len(<<v>>) = 1 /\ <<v>>[1] = v
OBVIOUS

\* Items that are put behind a list of others, the last one to be done.
LEMMA ThenItem ==
    ASSUME NEW type, NEW items \in Seq(Items(type)), NEW it \in Items(type),
           NEW S \in Shapes, NEW D \in Shapes, NEW P \in Shapes,
           Chain(items, S, P \o D), Need(it) = D, Exact(it) => P = <<>>
    PROVE  /\ items \o <<it>> \in Seq(Items(type))
           /\ Chain(items \o <<it>>, S, P \o Gives(it))
<1>1. Gives(it) \in Shapes
  BY NeedType
<1>2. P \o D \in Shapes /\ P \o Gives(it) \in Shapes
  BY <1>1, ShapesConcat
<1>3. Effect(it, P \o D, P \o Gives(it))
  BY DEF Effect
<1>4. Chain(<<it>>, P \o D, P \o Gives(it))
  BY <1>2, <1>3, ChainOne
<1>5. <<it>> \in Seq(Items(type))
  OBVIOUS
<1>6. Chain(items \o <<it>>, S, P \o Gives(it))
  BY <1>4, <1>5, ChainConcat
<1> QED
  BY <1>5, <1>6, ConcatProperties

-----------------------------------------------------------------------------
\* Expressions.

\* An item's type depends on what it is to do.
LEMMA IsA ==
    ASSUME IInv, Frame.todo # <<>>
    PROVE  /\ Item.do \in Dos /\ Item.by \in Bys /\ Item.n \in Nat
           /\ Item.do = "calc" => Item.what \in Expressions
           /\ Item.do = "apply" => Item.what \in Expressions
           /\ Item.do = "apply" /\ Item.what.kind = "Compute" =>
                 /\ Item.n = 1
                 /\ \/ Len(Item.what.args) = 2 /\ Item.what.op \in DOMAIN DuoOperators
                    \/ Len(Item.what.args) = 1 /\ Item.what.op \in DOMAIN UnoOperators
           /\ Item.do \in {"exec", "finish", "repeat", "put", "result"} =>
                 Item.what \in Instructions
<1>1. Item \in Items(Frame.type) /\ IsItem(Frame.type, Item)
  BY NextItem
<1>2. Item.do \in Dos /\ Item.by \in Bys /\ Item.n \in Nat
  BY <1>1 DEF Items
<1> QED
  BY <1>1, <1>2 DEF IsItem

\* The type of an item that is made.
LEMMA MakeItem ==
    ASSUME NEW type, NEW do \in Dos, NEW by \in Bys, NEW n \in Nat,
           NEW what \in Expressions \cup Instructions \cup {None},
           IsItem(type, Do(do, by, what, n))
    PROVE  /\ Do(do, by, what, n) \in Items(type)
           /\ Do(do, by, what, n).do = do /\ Do(do, by, what, n).by = by
           /\ Do(do, by, what, n).what = what /\ Do(do, by, what, n).n = n
<1>1. Do(do, by, what, n) \in [do : Dos, by : Bys, what : Expressions \cup Instructions \cup {None}, n : Nat]
  BY DEF Do
<1>2. Do(do, by, what, n) \in Items(type)
  BY <1>1 DEF Items
<1>3. Do(do, by, what, n) = [do |-> do, by |-> by, what |-> what, n |-> n]
  BY DEF Do
<1> QED
  BY <1>2, <1>3

\* The parts of an item.
LEMMA DoFields ==
    \A do, by, what, n : /\ Do(do, by, what, n).do = do /\ Do(do, by, what, n).by = by
                         /\ Do(do, by, what, n).what = what /\ Do(do, by, what, n).n = n
BY DEF Do

\* A value that has been set.
LEMMA ReadType ==
    ASSUME IInv, NEW a, NEW p, Read(a, p) # None
    PROVE  Read(a, p) \in Val(Len(nodes))
<1> DEFINE n == Len(nodes)
<1>1. Frame.vars \in [DOMAIN Frame.vars -> Var(n)]
  BY Running DEF IsFrame
<1>2. signals \in [0..program.signals - 1 -> 0..n] /\ n \in Nat
  BY Running DEF IInv
<1> HIDE DEF n
<1>3. CASE a.addr = "Variable"
  BY <1>1, <1>3 DEF Read, Var, n
<1>4. CASE a.addr # "Variable"
  <2>1. p \in DOMAIN signals /\ signals[p] # Unset /\ Read(a, p) = NodeAt(signals[p])
    BY <1>4 DEF Read
  <2>2. signals[p] \in 1..n
    BY <1>2, <2>1 DEF Unset
  <2> QED
    BY <2>1, <2>2 DEF NodeAt, Val, n
<1> QED
  BY <1>3, <1>4

\* A constant or a number leaves a node that there is, or a value.
LEMMA CalcValueKeeps == ASSUME IInv, CalcValue PROVE IInv'
<1> DEFINE e == Item.what
           n == Len(nodes)
<1>1. pc = "run" /\ Frame.todo # <<>> /\ Item.do = "calc" /\ e.kind = "Value"
  BY DEF CalcValue, DoingA, Doing
<1>2. e \in Expressions /\ Item.n \in Nat /\ Need(Item) = <<>> /\ ~Exact(Item)
  BY <1>1, IsA DEF Need, Exact
<1>3. 0 = Len(Need(Item)) /\ GraphOK(nodes, program) /\ n \in Nat /\ DOMAIN nodes = 1..n
  BY <1>2, Running, MadeGraph
<1>4. CASE Leave(0, [k \in 1..Item.n |-> NodeAt(e.val + k)], nodes)
           /\ \A k \in 1..Item.n : IsConstant(e.val + k)
  <2> DEFINE vs == [k \in 1..Item.n |-> NodeAt(e.val + k)]
  <2>1. \A k \in 1..Item.n : NodeAt(e.val + k) \in Val(n)
    BY <1>3, <1>4 DEF IsConstant, NodeAt, Val
  <2>2. vs \in [1..Item.n -> Val(n)]
    BY <2>1
  <2>3. \A j \in 1..Item.n : vs[j].type = "Node"
    BY DEF NodeAt
  <2>4. Leave(0, vs, nodes)
    BY <1>4
  <2> HIDE DEF vs
  <2>5. vs \in Seq(Val(n)) /\ Len(vs) = Item.n
    BY <1>2, <2>2
  <2>6. Fit(vs, Of(Item.by, Item.n))
    BY <2>3, <2>5 DEF Fit, Of
  <2> QED
    BY <1>1, <1>2, <1>3, <2>4, <2>5, <2>6, LeaveKeeps
<1>5. CASE Leave(0, <<Value(e.val)>>, nodes) /\ Item.n = 1 /\ Item.by # "operand"
  <2>1. e.val \in Words
    BY <1>1, <1>2, Compiled DEF IsExpression
  <2>2. Value(e.val) \in Val(n)
    BY <2>1 DEF Value, Val
  <2> DEFINE vs == <<Value(e.val)>>
  <2>3. vs \in Seq(Val(n)) /\ Len(vs) = Item.n /\ Leave(0, vs, nodes) /\ n <= n
    BY <1>3, <1>5, <2>2
  <2> HIDE DEF vs
  <2>4. Fit(vs, Of(Item.by, Item.n))
    BY <1>5, <2>3 DEF Fit, Of
  <2> QED
    BY <1>1, <1>2, <1>3, <2>3, <2>4, LeaveKeeps
<1>6. \/ Leave(0, [k \in 1..Item.n |-> NodeAt(e.val + k)], nodes)
           /\ \A k \in 1..Item.n : IsConstant(e.val + k)
      \/ Leave(0, <<Value(e.val)>>, nodes) /\ Item.n = 1 /\ Item.by # "operand"
      \/ Panics
  BY DEF CalcValue
<1> QED
  BY <1>4, <1>5, <1>6, PanicKeeps

\* What is loaded from is calculated first.
LEMMA CalcLoadKeeps == ASSUME IInv, CalcLoad PROVE IInv'
<1> DEFINE e == Item.what
           l == AddressLen(e)
           it == Apply(Item.by, e, Item.n)
           items == CalcAddress(Item.by, e)
<1>1. pc = "run" /\ Frame.todo # <<>> /\ Item.do = "calc" /\ e.kind = "Load"
  BY DEF CalcLoad, DoingA, Doing
<1>2. e \in Expressions /\ Item.n \in Nat /\ Item.by \in Bys /\ Need(Item) = <<>>
      /\ Gives(Item) = <<Of(Item.by, Item.n)>> /\ ~Exact(Item)
  BY <1>1, IsA DEF Need, Gives, Exact
<1>3. IsAddress(e, Expressions)
  BY <1>1, <1>2, Compiled DEF IsExpression
<1>4. /\ items \in Seq(Items(Frame.type)) /\ l \in Nat
      /\ \A P \in Shapes : Chain(items, P, P \o Ones(l))
  BY <1>3, AddressItems
<1>5. /\ it \in Items(Frame.type) /\ Need(it) = Ones(l) /\ Gives(it) = <<Of(Item.by, Item.n)>> /\ ~Exact(it)
  <2>1. it.do = "apply" /\ it.what = e /\ it.n = Item.n /\ it.by = Item.by
    BY DoFields DEF Apply
  <2>2. IsItem(Frame.type, it)
    BY <1>1, <1>2, <2>1 DEF IsItem
  <2>3. it \in Items(Frame.type)
    BY <1>2, <2>2, MakeItem DEF Apply, Dos
  <2> HIDE DEF it
  <2>4. Need(it) = Ones(l) /\ Gives(it) = <<Of(Item.by, Item.n)>> /\ ~Exact(it)
    BY <1>1, <2>1 DEF Need, Gives, Exact
  <2> QED
    BY <2>3, <2>4
<1> HIDE DEF it, items, l
<1>6. ASSUME NEW P \in Shapes
      PROVE  /\ items \o <<it>> \in Seq(Items(Frame.type))
             /\ Chain(items \o <<it>>, P \o Need(Item), P \o Gives(Item))
  <2>1. P \o Need(Item) = P
    BY <1>2, ShapesConcat
  <2>2. Ones(l) \in Shapes
    BY <1>4, OnesType
  <2> QED
    BY <1>2, <1>4, <1>5, <2>1, <2>2, ThenItem
<1>7. <<>> \in Shapes
  BY ShapesConcat
<1>8. Panics \/ Expand(items \o <<it>>)
  BY DEF CalcLoad, items, it
<1> QED
  BY <1>1, <1>6, <1>7, <1>8, ExpandKeeps, PanicKeeps

\* What is loaded has been set, and becomes nodes where an operand is asked for.
LEMMA ApplyLoadKeeps == ASSUME IInv, ApplyLoad PROVE IInv'
<1> DEFINE e == Item.what
           n == Len(nodes)
           xs == Top(AddressLen(e))
           vs == [k \in 1..Item.n |-> Read(e, Location(e, xs) + k - 1)]
           r == AsNodes(vs, nodes)
<1>1. pc = "run" /\ Frame.todo # <<>> /\ Item.do = "apply" /\ e.kind = "Load"
  BY DEF ApplyLoad, DoingA, Doing
<1>2. e \in Expressions /\ Item.n \in Nat /\ Need(Item) = Ones(AddressLen(e)) /\ ~Exact(Item)
  BY <1>1, IsA DEF Need, Exact
<1>3. AddressLen(e) \in Nat
  BY <1>1, <1>2, Compiled, AddressItems DEF IsExpression
<1>4. Len(Need(Item)) = AddressLen(e)
  BY <1>2, <1>3, OnesType
<1>5. Len(xs) = Len(Need(Item))
  BY <1>1, <1>4, Operands
<1>6. GraphOK(nodes, program) /\ n \in Nat
  BY Running
<1>7. Panics \/ /\ \A k \in DOMAIN vs : vs[k] # None
                /\ \/ Leave(Len(xs), r.vals, r.nodes)
                   \/ Item.by # "operand" /\ Leave(Len(xs), vs, nodes)
  BY DEF ApplyLoad
<1>8. CASE \A k \in DOMAIN vs : vs[k] # None
  <2>1. ASSUME NEW k \in 1..Item.n PROVE vs[k] \in Val(n)
    <3>1. Read(e, Location(e, xs) + k - 1) # None
      BY <1>8
    <3>2. Read(e, Location(e, xs) + k - 1) \in Val(n)
      BY <3>1, ReadType
    <3> QED
      BY <3>2
  <2>2. vs \in [1..Item.n -> Val(n)]
    BY <2>1
  <2> HIDE DEF vs
  <2>3. vs \in Seq(Val(n)) /\ Len(vs) = Item.n
    BY <1>2, <2>2
  <2>4. /\ GraphOK(r.nodes, program) /\ n <= Len(r.nodes)
        /\ r.vals \in Seq(Val(Len(r.nodes))) /\ Len(r.vals) = Item.n
        /\ \A j \in 1..Item.n : r.vals[j].type = "Node"
    BY <1>6, <2>3, AsNodesMake
  <2> HIDE DEF r, xs
  <2>5. CASE Leave(Len(xs), r.vals, r.nodes)
    <3>1. Fit(r.vals, Of(Item.by, Item.n))
      BY <2>4 DEF Fit, Of
    <3> QED
      BY <1>1, <1>2, <1>5, <2>4, <2>5, <3>1, LeaveKeeps
  <2>6. CASE Item.by # "operand" /\ Leave(Len(xs), vs, nodes)
    <3>1. Fit(vs, Of(Item.by, Item.n))
      BY <2>3, <2>6 DEF Fit, Of
    <3> QED
      BY <1>1, <1>2, <1>5, <1>6, <2>3, <2>6, <3>1, LeaveKeeps
  <2> QED
    BY <1>7, <2>5, <2>6, PanicKeeps
<1> QED
  BY <1>7, <1>8, PanicKeeps

\* Circom's operators that are supported have an operation.
LEMMA OperatorsType ==
    /\ \A o \in DOMAIN DuoOperators : DuoOperators[o] \in DuoOps
    /\ \A o \in DOMAIN UnoOperators : UnoOperators[o] \in UnoOps
<1>1. {"Mul", "Add"} \subseteq DuoOps /\ {"Neg", "Id"} \subseteq UnoOps
  BY DEF DuoOps, UnoOps
<1>2. ASSUME NEW o \in DOMAIN DuoOperators PROVE DuoOperators[o] \in DuoOps
  <2> DEFINE f(x) == CASE x = "MulAddress" -> "Mul" [] x = "AddAddress" -> "Add" [] OTHER -> x
             S == (DuoOps \ {"Lor"}) \cup {"MulAddress", "AddAddress"}
  <2>1. DuoOperators = [x \in S |-> f(x)]
    BY DEF DuoOperators
  <2>2. o \in S /\ DuoOperators[o] = f(o)
    BY <2>1
  <2>3. CASE o = "MulAddress"
    BY <1>1, <2>2, <2>3
  <2>4. CASE o = "AddAddress"
    BY <1>1, <2>2, <2>4
  <2>5. CASE o # "MulAddress" /\ o # "AddAddress"
    <3>1. f(o) = o
      BY <2>5
    <3> QED
      BY <2>2, <2>5, <3>1
  <2> QED
    BY <2>3, <2>4, <2>5
<1>3. ASSUME NEW o \in DOMAIN UnoOperators PROVE UnoOperators[o] \in UnoOps
  BY <1>1 DEF UnoOperators
<1> QED
  BY <1>2, <1>3

\* What is folded is a word, unless the folding stops the program.
LEMMA FoldedType ==
    ASSUME NEW by, NEW op \in DOMAIN DuoOperators, NEW a \in Words, NEW b \in Words
    PROVE  Folded(by, op, a, b) \in Words \cup {Panic}
<1>1. a \in Int /\ b \in Int /\ a * b \in Int /\ a + b \in Int
  BY Remainders
<1>2. (a * b) % Word \in Words /\ (a + b) % Word \in Words
  BY <1>1, Remainders
<1>3. Bool(a < b) \in Words
  BY Remainders DEF Bool
<1>4. Eval(DuoOperators[op], a, b) \in Words \cup {Panic}
  BY OperatorsType, EvalType
<1> QED
  BY <1>2, <1>3, <1>4 DEF Folded

\* The position of the node of each value that has become a node.
LEMMA TwoOrThree ==
    ASSUME NEW V
    PROVE  /\ \A a, b \in V : /\ <<a, b>> \in Seq(V) /\ Len(<<a, b>>) = 2
                              /\ <<a, b>>[1] = a /\ <<a, b>>[2] = b
           /\ \A a, b, c \in V : <<a, b, c>> \in Seq(V) /\ Len(<<a, b, c>>) = 3
OBVIOUS

\* The arguments of an operation are calculated first, all of the same sort.
LEMMA CalcComputeKeeps == ASSUME IInv, CalcCompute PROVE IInv'
<1> DEFINE e == Item.what
           es == e.args
           l == Len(es)
           it == Apply(Item.by, e, 1)
           items == [k \in DOMAIN es |-> Calc(Item.by, es[k], 1)]
<1>1. pc = "run" /\ Frame.todo # <<>> /\ Item.do = "calc" /\ e.kind = "Compute"
  BY DEF CalcCompute, DoingA, Doing
<1>2. e \in Expressions /\ Item.n \in Nat /\ Item.by \in Bys /\ Need(Item) = <<>>
      /\ Gives(Item) = <<Of(Item.by, Item.n)>> /\ ~Exact(Item)
  BY <1>1, IsA DEF Need, Gives, Exact
<1>3. es \in Seq(Expressions)
  BY <1>1, <1>2, Compiled DEF IsExpression
<1>4. l \in Nat /\ DOMAIN es = 1..l
  BY <1>3, LenProperties
<1>5. Panics \/ /\ Item.n = 1 /\ Expand(items \o <<it>>)
                /\ \/ e.op \in DOMAIN DuoOperators /\ l = 2
                   \/ e.op \in DOMAIN UnoOperators /\ l = 1
  BY DEF CalcCompute
<1>6. CASE /\ Item.n = 1 /\ Expand(items \o <<it>>)
           /\ \/ e.op \in DOMAIN DuoOperators /\ l = 2
              \/ e.op \in DOMAIN UnoOperators /\ l = 1
  <2> DEFINE ns == [k \in DOMAIN es |-> 1]
             D == [k \in DOMAIN es |-> Of(Item.by, 1)]
  <2>1. /\ items \in Seq(Items(Frame.type)) /\ D \in Shapes
        /\ \A P \in Shapes : Chain(items, P, P \o D)
    <3>1. ns \in [DOMAIN es -> Nat]
      OBVIOUS
    <3>2. items = [k \in DOMAIN es |-> Calc(Item.by, es[k], ns[k])]
      OBVIOUS
    <3>3. D = [k \in DOMAIN es |-> Of(Item.by, ns[k])]
      OBVIOUS
    <3> HIDE DEF items, ns, es, D
    <3> QED
      BY <1>2, <1>3, <3>1, <3>2, <3>3, CalcItems
  <2>2. /\ it \in Items(Frame.type) /\ Need(it) = D /\ Gives(it) = Gives(Item) /\ ~Exact(it)
    <3>1. it.do = "apply" /\ it.what = e /\ it.n = 1 /\ it.by = Item.by
      BY DoFields DEF Apply
    <3>2. IsItem(Frame.type, it)
      BY <1>1, <1>2, <1>6, <3>1 DEF IsItem
    <3>3. it \in Items(Frame.type)
      BY <1>2, <3>2, MakeItem DEF Apply, Dos
    <3> HIDE DEF it
    <3>4. Need(it) = D
      BY <1>1, <3>1 DEF Need
    <3>5. Gives(it) = Gives(Item) /\ ~Exact(it)
      BY <1>1, <1>6, <3>1 DEF Gives, Exact
    <3> QED
      BY <3>3, <3>4, <3>5
  <2> HIDE DEF it, items, D
  <2>3. ASSUME NEW P \in Shapes
        PROVE  /\ items \o <<it>> \in Seq(Items(Frame.type))
               /\ Chain(items \o <<it>>, P \o Need(Item), P \o Gives(Item))
    <3>1. P \o Need(Item) = P
      BY <1>2, ShapesConcat
    <3> QED
      BY <1>2, <2>1, <2>2, <3>1, ThenItem
  <2>4. <<>> \in Shapes
    BY ShapesConcat
  <2> QED
    BY <1>1, <1>6, <2>3, <2>4, ExpandKeeps
<1> QED
  BY <1>5, <1>6, PanicKeeps

\* What an operation needs.
LEMMA NeedOfCompute ==
    ASSUME IInv, Frame.todo # <<>>, Item.do = "apply", Item.what.kind = "Compute"
    PROVE  /\ Len(Need(Item)) = Len(Item.what.args)
           /\ \A k \in 1..Len(Item.what.args) :
                 /\ Need(Item)[k][1] = 1 /\ Need(Item)[k][2] = (Item.by = "operand")
<1> DEFINE D == [k \in DOMAIN Item.what.args |-> Of(Item.by, 1)]
<1>1. Item.what.args \in Seq(Expressions)
  BY IsA, Compiled DEF IsExpression
<1>2. Need(Item) = D
  BY DEF Need
<1>3. DOMAIN Item.what.args = 1..Len(Item.what.args) /\ Len(Item.what.args) \in Nat
  BY <1>1, LenProperties
<1>4. Len(D) = Len(Item.what.args)
  <2>1. D \in [1..Len(Item.what.args) -> Sorts]
    BY <1>3 DEF Of, Sorts
  <2> HIDE DEF D
  <2> QED
    BY <1>3, <2>1
<1>5. \A k \in 1..Len(Item.what.args) : D[k] = <<1, Item.by = "operand">>
  BY <1>3 DEF Of
<1> HIDE DEF D
<1> QED
  BY <1>2, <1>4, <1>5

\* An operation on two values is folded, or becomes a node behind those of its operands.
LEMMA ApplyDuoKeeps == ASSUME IInv, ApplyDuo PROVE IInv'
<1> DEFINE op == Item.what.op
           n == Len(nodes)
           a == Top(2)[1][1]
           b == Top(2)[2][1]
           v == Folded(Item.by, op, a.val, b.val)
           r == AsNodes(<<a, b>>, nodes)
           x == Op(DuoOperators[op], r.vals[1].val, r.vals[2].val)
           l == Len(r.nodes)
<1>1. /\ pc = "run" /\ Frame.todo # <<>> /\ Item.do = "apply" /\ Item.what.kind = "Compute"
      /\ Len(Item.what.args) = 2
  BY DEF ApplyDuo, DoingA, Doing
<1>2. Item.n = 1 /\ op \in DOMAIN DuoOperators /\ ~Exact(Item)
  BY <1>1, IsA DEF Exact
<1>3. /\ 2 = Len(Need(Item)) /\ Need(Item)[1][1] = 1 /\ Need(Item)[2][1] = 1
      /\ Need(Item)[1][2] = (Item.by = "operand")
  BY <1>1, NeedOfCompute
<1>4. a \in Val(n) /\ b \in Val(n) /\ (Item.by = "operand" => a.type = "Node")
  <2>1. 1 \in 1..2 /\ 2 \in 1..2
    OBVIOUS
  <2> QED
    BY <1>1, <1>3, <2>1, Operands
<1>5. GraphOK(nodes, program) /\ n \in Nat
  BY Running
<1>6. \/ Panics
      \/ /\ a.type = "Value" /\ b.type = "Value" /\ v # Panic
         /\ Leave(2, <<Value(v)>>, nodes)
      \/ Leave(2, <<NodeAt(l + 1)>>, Append(r.nodes, x))
  BY DEF ApplyDuo
<1> HIDE DEF a, b
<1>7. CASE /\ a.type = "Value" /\ b.type = "Value" /\ v # Panic
           /\ Leave(2, <<Value(v)>>, nodes)
  <2>1. a.val \in Words /\ b.val \in Words
    BY <1>4, <1>7 DEF Val
  <2>2. v \in Words
    BY <1>2, <1>7, <2>1, FoldedType
  <2> DEFINE vs == <<Value(v)>>
  <2>3. Value(v) \in Val(n)
    BY <2>2 DEF Value, Val
  <2>4. vs \in Seq(Val(n)) /\ Len(vs) = Item.n /\ n <= n
    BY <1>2, <1>5, <2>3
  <2>5. Leave(2, vs, nodes)
    BY <1>7
  <2> HIDE DEF vs
  <2>6. Fit(vs, Of(Item.by, Item.n))
    BY <1>4, <1>7, <2>4 DEF Fit, Of
  <2> QED
    BY <1>1, <1>2, <1>3, <1>5, <2>4, <2>5, <2>6, LeaveKeeps
<1>8. CASE Leave(2, <<NodeAt(l + 1)>>, Append(r.nodes, x))
  <2>1. <<a, b>> \in Seq(Val(n)) /\ Len(<<a, b>>) = 2 /\ 1 \in 1..2 /\ 2 \in 1..2
    BY <1>4, TwoOrThree
  <2>2. /\ GraphOK(r.nodes, program) /\ n <= l /\ l \in Nat
        /\ r.vals[1].val \in 1..l /\ r.vals[2].val \in 1..l
    BY <1>5, <2>1, AsNodesMake
  <2> DEFINE ns == Append(r.nodes, x)
             vs == <<NodeAt(l + 1)>>
  <2>3. x \in Made(l, program)
    BY <1>2, <2>2, OperatorsType, MakesNodes
  <2> HIDE DEF x, r
  <2>4. GraphOK(ns, program) /\ Len(ns) = l + 1
    BY <2>2, <2>3, GraphAppend
  <2>5. Leave(2, vs, ns)
    BY <1>8
  <2> HIDE DEF ns, l
  <2>6. n <= Len(ns) /\ NodeAt(l + 1) \in Val(Len(ns))
    BY <1>5, <2>2, <2>4 DEF NodeAt, Val
  <2>7. vs \in Seq(Val(Len(ns))) /\ Len(vs) = Item.n
    BY <1>2, <2>6
  <2>8. vs[1].type = "Node"
    BY DEF NodeAt
  <2> HIDE DEF vs
  <2>9. Fit(vs, Of(Item.by, Item.n))
    BY <1>2, <2>7, <2>8 DEF Fit, Of
  <2> QED
    BY <1>1, <1>2, <1>3, <2>4, <2>5, <2>6, <2>7, <2>9, LeaveKeeps
<1> QED
  BY <1>6, <1>7, <1>8, PanicKeeps

\* So does an operation on one.
LEMMA ApplyUnoKeeps == ASSUME IInv, ApplyUno PROVE IInv'
<1> DEFINE op == UnoOperators[Item.what.op]
           n == Len(nodes)
           a == Top(1)[1][1]
           v == UnoEval(op, a.val)
           x == UnoOp(op, a.val)
<1>1. /\ pc = "run" /\ Frame.todo # <<>> /\ Item.do = "apply" /\ Item.what.kind = "Compute"
      /\ Len(Item.what.args) = 1
  BY DEF ApplyUno, DoingA, Doing
<1>2. Item.n = 1 /\ Item.what.op \in DOMAIN UnoOperators /\ ~Exact(Item)
  BY <1>1, IsA DEF Exact
<1>3. /\ 1 = Len(Need(Item)) /\ Need(Item)[1][1] = 1
      /\ Need(Item)[1][2] = (Item.by = "operand")
  BY <1>1, NeedOfCompute
<1>4. a \in Val(n) /\ op \in UnoOps /\ (Item.by = "operand" => a.type = "Node")
  <2>1. 1 \in 1..1
    OBVIOUS
  <2>2. a \in Val(n) /\ (Item.by = "operand" => a.type = "Node")
    BY <1>1, <1>3, <2>1, Operands
  <2> QED
    BY <1>2, <2>2, OperatorsType
<1>5. GraphOK(nodes, program) /\ n \in Nat
  BY Running
<1>6. \/ Panics
      \/ a.type = "Value" /\ Leave(1, <<Value(v)>>, nodes)
      \/ a.type # "Value" /\ Leave(1, <<NodeAt(n + 1)>>, Append(nodes, x))
  BY DEF ApplyUno
<1> HIDE DEF a, op
<1>7. CASE a.type = "Value" /\ Leave(1, <<Value(v)>>, nodes)
  <2>1. a.val \in Words
    BY <1>4, <1>7 DEF Val
  <2>2. v \in Words
    BY <1>4, <2>1, OtherEvalTypes
  <2> DEFINE vs == <<Value(v)>>
  <2>3. Value(v) \in Val(n)
    BY <2>2 DEF Value, Val
  <2>4. vs \in Seq(Val(n)) /\ Len(vs) = Item.n /\ n <= n
    BY <1>2, <1>5, <2>3
  <2>5. Leave(1, vs, nodes)
    BY <1>7
  <2> HIDE DEF vs
  <2>6. Fit(vs, Of(Item.by, Item.n))
    BY <1>4, <1>7, <2>4 DEF Fit, Of
  <2> QED
    BY <1>1, <1>2, <1>3, <1>5, <2>4, <2>5, <2>6, LeaveKeeps
<1>8. CASE a.type # "Value" /\ Leave(1, <<NodeAt(n + 1)>>, Append(nodes, x))
  <2>1. a.val \in 1..n
    BY <1>4, <1>8 DEF Val
  <2> DEFINE ns == Append(nodes, x)
             vs == <<NodeAt(n + 1)>>
  <2>2. x \in Made(n, program)
    BY <1>4, <1>5, <2>1, MakesNodes
  <2> HIDE DEF x
  <2>3. GraphOK(ns, program) /\ Len(ns) = n + 1
    BY <1>5, <2>2, GraphAppend
  <2>4. Leave(1, vs, ns)
    BY <1>8
  <2> HIDE DEF ns
  <2>5. n <= Len(ns) /\ NodeAt(n + 1) \in Val(Len(ns))
    BY <1>5, <2>3 DEF NodeAt, Val
  <2>6. vs \in Seq(Val(Len(ns))) /\ Len(vs) = Item.n
    BY <1>2, <2>5
  <2>7. vs[1].type = "Node"
    BY DEF NodeAt
  <2> HIDE DEF vs
  <2>8. Fit(vs, Of(Item.by, Item.n))
    BY <1>2, <2>6, <2>7 DEF Fit, Of
  <2> QED
    BY <1>1, <1>2, <1>3, <2>3, <2>4, <2>5, <2>6, <2>8, LeaveKeeps
<1> QED
  BY <1>6, <1>7, <1>8, PanicKeeps

\* The steps of expressions.
LEMMA ExpressionKeeps == IInv /\ Expression => IInv'
BY CalcValueKeeps, CalcLoadKeeps, ApplyLoadKeeps, CalcComputeKeeps, ApplyDuoKeeps,
   ApplyUnoKeeps DEF Expression

-----------------------------------------------------------------------------
\* Instructions: what is common to them.

\* An instruction goes on with more to do, for which it leaves its values.
LEMMA ExactExpandKeeps ==
    ASSUME IInv, pc = "run", Frame.todo # <<>>, Exact(Item),
           NEW items \in Seq(Items(Frame.type)), Chain(items, Need(Item), <<>>),
           Expand(items)
    PROVE  IInv'
<1>1. Gives(Item) = <<>> /\ <<>> \o <<>> = <<>> /\ <<>> \o Need(Item) = Need(Item)
  BY NextItem, ShapesConcat DEF Gives, Exact
<1>2. \A P \in Shapes : (Exact(Item) => P = <<>>)
          => Chain(items, P \o Need(Item), P \o Gives(Item))
  BY <1>1
<1> QED
  BY <1>2, ExpandKeeps

\* It goes on with other values.
LEMMA ExactResumeKeeps ==
    ASSUME IInv, pc = "run", Frame.todo # <<>>, Exact(Item), NEW k, k = Len(Need(Item)),
           GraphOK(nodes', program), Len(nodes) <= Len(nodes'), UNCHANGED signals,
           NEW vs \in Seq(Seq(Val(Len(nodes')))), NEW S \in Shapes, HasShape(vs, S),
           NEW items \in Seq(Items(Frame.type)), Chain(items, S, <<>>),
           Resume(items, k, vs)
    PROVE  IInv'
<1>1. Gives(Item) = <<>> /\ <<>> \o <<>> = <<>> /\ <<>> \o S = S
  BY ShapesConcat DEF Gives, Exact
<1>2. \A P \in Shapes : (Exact(Item) => P = <<>>) => Chain(items, P \o S, P \o Gives(Item))
  BY <1>1
<1> QED
  BY <1>2, ResumeKeeps

\* One expression.
LEMMA OneCalc ==
    ASSUME NEW type, NEW e \in Expressions, NEW by \in Bys, NEW n \in Nat
    PROVE  /\ Calc(by, e, n) \in Items(type) /\ <<Calc(by, e, n)>> \in Seq(Items(type))
           /\ Of(by, n) \in Sorts /\ <<Of(by, n)>> \in Shapes
           /\ \A P \in Shapes : Chain(<<Calc(by, e, n)>>, P, P \o <<Of(by, n)>>)
<1> DEFINE it == Calc(by, e, n)
           s == Of(by, n)
<1>1. it.do = "calc" /\ it.what = e /\ it.by = by /\ it.n = n
  BY DoFields DEF Calc
<1>2. IsItem(type, it)
  BY <1>1 DEF IsItem
<1>3. it \in Items(type)
  BY <1>2, MakeItem DEF Calc, Dos
<1>4. s \in Sorts
  BY DEF Of, Sorts
<1> HIDE DEF it
<1>5. Need(it) = <<>> /\ Gives(it) = <<s>> /\ ~Exact(it)
  BY <1>1 DEF Need, Gives, Exact
<1> HIDE DEF s
<1>6. <<s>> \in Shapes
  BY <1>4, ShapeOne
<1>7. ASSUME NEW P \in Shapes PROVE Chain(<<it>>, P, P \o <<s>>)
  <2>1. P \o <<>> = P /\ P \o <<s>> \in Shapes
    BY <1>6, ShapesConcat
  <2>2. Effect(it, P, P \o <<s>>)
    BY <1>5, <2>1 DEF Effect
  <2> QED
    BY <2>1, <2>2, ChainOne
<1>8. <<it>> \in Seq(Items(type))
  BY <1>3
<1> QED
  BY <1>3, <1>4, <1>6, <1>7, <1>8 DEF it, s

\* What puts values somewhere.
LEMMA PutItem ==
    ASSUME NEW type, NEW i \in Instructions, i.kind \in {"Store", "Call"},
           NEW by \in {"source", "address"}, AddressKnown("template", i)
    PROVE  /\ Put(i, by) \in Items(type) /\ Exact(Put(i, by)) /\ Gives(Put(i, by)) = <<>>
           /\ Need(Put(i, by)) = IF by = "source" THEN <<Stored(i)>> \o Ones(AddressLen(i))
                                 ELSE Ones(AddressLen(i)) \o <<Stored(i)>>
           /\ <<Stored(i)>> \in Shapes /\ AddressLen(i) \in Nat
           /\ Ones(AddressLen(i)) \in Shapes
<1> DEFINE it == Put(i, by)
<1>1. it.do = "put" /\ it.what = i /\ it.by = by
  BY DoFields DEF Put
<1>2. IsItem(type, it)
  BY <1>1 DEF IsItem
<1>3. it \in Items(type)
  <2>1. "put" \in Dos /\ by \in Bys /\ 0 \in Nat
    BY DEF Dos, Bys
  <2> QED
    BY <1>2, <2>1, MakeItem DEF Put
<1> HIDE DEF it
<1>4. Exact(it) /\ Gives(it) = <<>>
  BY <1>1 DEF Exact, Gives
<1>5. Need(it) = IF by = "source" THEN <<Stored(i)>> \o Ones(AddressLen(i))
                 ELSE Ones(AddressLen(i)) \o <<Stored(i)>>
  BY <1>1 DEF Need
<1>6. IsAddress(i, Expressions) /\ i.size \in Nat
  BY Compiled DEF IsInstruction
<1>7. Stored(i) \in Sorts
  BY <1>6 DEF Stored, Sorts
<1>8. <<Stored(i)>> \in Shapes
  BY <1>7, ShapeOne
<1>9. AddressLen(i) \in Nat /\ Ones(AddressLen(i)) \in Shapes
  BY <1>6, AddressItems, OnesType
<1> QED
  BY <1>3, <1>4, <1>5, <1>8, <1>9 DEF it

\* Putting what is there where an address says that is calculated afterwards.
LEMMA AddressThenPut ==
    ASSUME NEW type, NEW i \in Instructions, i.kind \in {"Store", "Call"},
           AddressKnown("template", i), NEW by
    PROVE  /\ CalcAddress(by, i) \o <<Put(i, "source")>> \in Seq(Items(type))
           /\ Chain(CalcAddress(by, i) \o <<Put(i, "source")>>, <<Stored(i)>>, <<>>)
<1> DEFINE s == <<Stored(i)>>
           D == s \o Ones(AddressLen(i))
           it == Put(i, "source")
           items == CalcAddress(by, i)
<1>1. /\ it \in Items(type) /\ Exact(it) /\ Gives(it) = <<>> /\ Need(it) = D
      /\ s \in Shapes /\ Ones(AddressLen(i)) \in Shapes
  BY PutItem
<1>2. IsAddress(i, Expressions)
  BY Compiled DEF IsInstruction
<1>3. items \in Seq(Items(type)) /\ \A P \in Shapes : Chain(items, P, P \o Ones(AddressLen(i)))
  BY <1>2, AddressItems
<1>4. Chain(items, s, D)
  BY <1>1, <1>3
<1>5. D \in Shapes /\ <<>> \o D = D /\ <<>> \in Shapes /\ <<>> \o <<>> = <<>>
  BY <1>1, ShapesConcat
<1> HIDE DEF it, items, D, s
<1>6. items \o <<it>> \in Seq(Items(type)) /\ Chain(items \o <<it>>, s, <<>> \o Gives(it))
  BY <1>1, <1>3, <1>4, <1>5, ThenItem
<1> QED
  BY <1>1, <1>5, <1>6 DEF it, items, s

\* Two more things are one, and then another.
LEMMA TwoMore ==
    ASSUME NEW I, NEW a \in Seq(I), NEW x \in I, NEW y \in I
    PROVE  (a \o <<x>>) \o <<y>> = a \o <<x, y>>
<1>1. <<x>> \in Seq(I) /\ <<y>> \in Seq(I) /\ <<x, y>> \in Seq(I)
  OBVIOUS
<1>2. <<x>> \o <<y>> = <<x, y>>
  <2>1. /\ Len(<<x>> \o <<y>>) = Len(<<x>>) + Len(<<y>>) /\ <<x>> \o <<y>> \in Seq(I)
        /\ \A i \in 1..Len(<<x>>) + Len(<<y>>) :
              (<<x>> \o <<y>>)[i] = IF i <= Len(<<x>>) THEN <<x>>[i] ELSE <<y>>[i - Len(<<x>>)]
    BY <1>1, ConcatProperties
  <2> DEFINE xy == <<x>> \o <<y>>
             both == <<x, y>>
  <2>2. Len(<<x>>) = 1 /\ Len(<<y>>) = 1 /\ <<x>>[1] = x /\ <<y>>[1] = y
    OBVIOUS
  <2>3. Len(both) = 2 /\ both[1] = x /\ both[2] = y /\ both \in Seq(I)
    BY <1>1
  <2>4. Len(xy) = 2 /\ xy \in Seq(I) /\ \A i \in 1..2 : xy[i] = IF i <= 1 THEN <<x>>[i] ELSE <<y>>[i - 1]
    BY <2>1, <2>2
  <2> HIDE DEF xy, both
  <2>5. xy[1] = x /\ xy[2] = y
    <3>1. 1 \in 1..2 /\ 2 \in 1..2 /\ 1 <= 1 /\ ~(2 <= 1) /\ 2 - 1 = 1
      OBVIOUS
    <3> QED
      BY <2>2, <2>4, <3>1
  <2>6. \A i \in 1..Len(xy) : xy[i] = both[i]
    <3>1. \A i \in 1..Len(xy) : i = 1 \/ i = 2
      BY <2>4
    <3> QED
      BY <2>3, <2>5, <3>1
  <2>7. xy = both
    BY <2>3, <2>4, <2>6, SeqEqual
  <2> QED
    BY <2>7 DEF xy, both
<1>3. (a \o <<x>>) \o <<y>> = a \o (<<x>> \o <<y>>)
  BY <1>1, ConcatAssociative
<1> QED
  BY <1>2, <1>3

\* An instruction to be executed.
LEMMA Executing ==
    ASSUME IInv, Doing("exec")
    PROVE  /\ pc = "run" /\ Frame.todo # <<>> /\ Item.do = "exec" /\ Item.what \in Instructions
           /\ IsInstruction(Item.what, Instructions, Expressions)
           /\ Exact(Item) /\ Need(Item) = <<>> /\ Frame.type \in {"template", "function"}
           /\ Frame.type \in Bys
<1>1. pc = "run" /\ Frame.todo # <<>> /\ Item.do = "exec"
  BY DEF Doing
<1>2. Item.what \in Instructions
  BY <1>1, IsA
<1>3. Need(Item) = <<>> /\ Exact(Item)
  BY <1>1 DEF Need, Exact
<1> QED
  BY <1>1, <1>2, <1>3, Compiled, Running DEF IsFrame, Bys

-----------------------------------------------------------------------------
\* Stores.

\* A store calculates source and address in one order or in the other.
LEMMA ExecStoreKeeps == ASSUME IInv, ExecStore PROVE IInv'
<1> DEFINE i == Item.what
           by == IF i.addr = "Variable" THEN Frame.type ELSE "operand"
           src == Calc(by, i.src, i.size)
           addr == CalcAddress(Frame.type, i)
           I == Items(Frame.type)
           s == Of(by, i.size)
           ones == Ones(AddressLen(i))
<1>1. /\ pc = "run" /\ Frame.todo # <<>> /\ i \in Instructions /\ i.kind = "Store"
      /\ IsInstruction(i, Instructions, Expressions) /\ Exact(Item) /\ Need(Item) = <<>>
      /\ Frame.type \in {"template", "function"} /\ Frame.type \in Bys
  BY Executing DEF ExecStore, DoingA
<1>2. Panics \/ (AddressKnown(Frame.type, i) /\ Expand(StoreItems(i)))
  BY DEF ExecStore
<1>3. CASE AddressKnown(Frame.type, i) /\ Expand(StoreItems(i))
  <2>1. IsAddress(i, Expressions) /\ i.size \in Nat /\ i.src \in Expressions
    BY <1>1 DEF IsInstruction
  <2>2. by \in Bys /\ s = Stored(i)
    <3>1. by \in Bys
      BY <1>1 DEF Bys
    <3>2. (by = "operand") = (i.addr # "Variable")
      BY <1>1
    <3> QED
      BY <3>1, <3>2 DEF Of, Stored
  <2>3. AddressKnown("template", i)
    BY <1>3 DEF AddressKnown
  <2> HIDE DEF by, s
  <2>4. /\ src \in I /\ <<src>> \in Seq(I) /\ <<s>> \in Shapes
        /\ \A P \in Shapes : Chain(<<src>>, P, P \o <<s>>)
    BY <2>1, <2>2, OneCalc DEF s
  <2>5. addr \in Seq(I) /\ ones \in Shapes /\ \A P \in Shapes : Chain(addr, P, P \o ones)
    BY <2>1, AddressItems, OnesType
  <2>6. <<>> \in Shapes /\ <<>> \o <<s>> = <<s>> /\ <<>> \o ones = ones
    BY <2>4, <2>5, ShapesConcat
  <2> HIDE DEF src, addr, ones
  <2>7. StoreItems(i) \in Seq(I) /\ Chain(StoreItems(i), <<>>, <<>>)
    <3>1. CASE i.addr = "Subcmp"
      <4> DEFINE put == Put(i, "source")
                 rest == addr \o <<put>>
      <4>1. rest \in Seq(I) /\ Chain(rest, <<s>>, <<>>)
        BY <1>1, <2>2, <2>3, AddressThenPut DEF addr
      <4>2. Chain(<<src>>, <<>>, <<s>>)
        BY <2>4, <2>6
      <4> HIDE DEF rest
      <4>3. Chain(<<src>> \o rest, <<>>, <<>>)
        BY <2>4, <4>1, <4>2, ChainConcat
      <4>4. <<src>> \o rest \in Seq(I)
        BY <2>4, <4>1, ConcatProperties
      <4>5. StoreItems(i) = <<src>> \o rest
        <5>1. StoreItems(i) = (<<src>> \o addr) \o <<put>>
          BY <3>1 DEF StoreItems, src, addr, by
        <5>2. <<put>> \in Seq(I)
          <6>1. put \in I
            BY <1>1, <2>3, PutItem
          <6> HIDE DEF put
          <6> QED
            BY <6>1
        <5>3. (<<src>> \o addr) \o <<put>> = <<src>> \o (addr \o <<put>>)
          BY <2>4, <2>5, <5>2, ConcatAssociative
        <5> QED
          BY <5>1, <5>3 DEF rest
      <4> QED
        BY <4>3, <4>4, <4>5
    <3>2. CASE i.addr # "Subcmp"
      <4> DEFINE put == Put(i, "address")
                 D == ones \o <<s>>
                 items == addr \o <<src>>
      <4>1. put \in I /\ Exact(put) /\ Gives(put) = <<>> /\ Need(put) = D
        BY <1>1, <2>2, <2>3, PutItem DEF ones
      <4>2. D \in Shapes /\ <<>> \o D = D /\ <<>> \o <<>> = <<>>
        BY <2>4, <2>5, ShapesConcat
      <4>3. Chain(items, <<>>, D)
        <5>1. Chain(addr, <<>>, ones) /\ Chain(<<src>>, ones, ones \o <<s>>)
          BY <2>4, <2>5, <2>6
        <5> QED
          BY <2>4, <2>5, <5>1, ChainConcat
      <4>4. items \in Seq(I)
        BY <2>4, <2>5, ConcatProperties
      <4>5. StoreItems(i) = items \o <<put>>
        <5>1. StoreItems(i) = addr \o <<src, put>>
          BY <3>2 DEF StoreItems, src, addr, by
        <5> HIDE DEF put
        <5>2. (addr \o <<src>>) \o <<put>> = addr \o <<src, put>>
          BY <2>4, <2>5, <4>1, TwoMore
        <5> QED
          BY <5>1, <5>2
      <4> HIDE DEF put, D, items
      <4>6. items \o <<put>> \in Seq(I) /\ Chain(items \o <<put>>, <<>>, <<>> \o Gives(put))
        BY <2>6, <4>1, <4>2, <4>3, <4>4, ThenItem
      <4> QED
        BY <4>1, <4>2, <4>5, <4>6
    <3> QED
      BY <3>1, <3>2
  <2> QED
    BY <1>1, <1>3, <2>7, ExactExpandKeeps
<1> QED
  BY <1>2, <1>3, PanicKeeps

\* The last values of a frame.
LEMMA TopType ==
    ASSUME IInv, NEW k \in Nat, k <= Len(Frame.vals)
    PROVE  /\ Top(k) \in Seq(Seq(Val(Len(nodes)))) /\ Len(Top(k)) = k
           /\ \A j \in 1..k : Top(k)[j] = Frame.vals[Len(Frame.vals) - k + j]
<1> DEFINE vals == Frame.vals
           l == Len(vals)
           V == Seq(Val(Len(nodes)))
           top == SubSeq(vals, l - k + 1, l)
<1>1. vals \in Seq(V)
  BY Running DEF IsFrame
<1>2. Top(k) = top
  BY DEF Top
<1>3. k <= l
  OBVIOUS
<1> HIDE DEF vals, V
<1>4. l \in Nat /\ \A i \in 1..l : vals[i] \in V
  BY <1>1, LenProperties, ElementOfSeq
<1> HIDE DEF l
<1>5. \A i \in l - k + 1..l : vals[i] \in V
  BY <1>3, <1>4
<1>6. l - k + 1 \in Int /\ l \in Int
  BY <1>4
<1>7. /\ top \in Seq(V)
      /\ Len(top) = IF l - k + 1 <= l THEN l - (l - k + 1) + 1 ELSE 0
      /\ \A i \in 1..l - (l - k + 1) + 1 : top[i] = vals[(l - k + 1) + i - 1]
  BY <1>5, <1>6, SubSeqProperties, SMTT(30)
<1>8. l - (l - k + 1) + 1 = k /\ \A i \in 1..k : (l - k + 1) + i - 1 = l - k + i
  BY <1>4
<1> HIDE DEF top
<1>9. Len(top) = k
  BY <1>3, <1>4, <1>7
<1>10. \A i \in 1..k : top[i] = vals[l - k + i]
  BY <1>7, <1>8
<1> QED
  BY <1>2, <1>7, <1>9, <1>10 DEF V, vals, l

\* What is put somewhere is known, and where.
LEMMA Putting ==
    ASSUME IInv, Doing("put")
    PROVE  /\ pc = "run" /\ Frame.todo # <<>> /\ Item.what \in Instructions
           /\ Item.what.kind \in {"Store", "Call"} /\ Exact(Item)
           /\ IsAddress(Item.what, Expressions) /\ Item.what.size \in Nat
           /\ AddressKnown("template", Item.what) /\ AddressLen(Item.what) \in Nat
           /\ PutLen = Len(Need(Item)) /\ PutLen \in Nat
           /\ Len(Address) = AddressLen(Item.what) /\ DOMAIN Address = 1..AddressLen(Item.what)
           /\ Source \in Seq(Val(Len(nodes))) /\ Fit(Source, Stored(Item.what))
<1> DEFINE i == Item.what
           l == AddressLen(i)
           ones == Ones(l)
           s == <<Stored(i)>>
           V == Val(Len(nodes))
<1>1. pc = "run" /\ Frame.todo # <<>> /\ Item.do = "put" /\ i \in Instructions
      /\ i.kind \in {"Store", "Call"} /\ AddressKnown("template", i)
      /\ Item.by \in {"source", "address"}
  <2>1. pc = "run" /\ Frame.todo # <<>> /\ Item.do = "put"
    BY DEF Doing
  <2> QED
    BY <2>1, NextItem DEF IsItem
<1>2. Exact(Item) /\ Need(Item) = IF Item.by = "source" THEN s \o ones ELSE ones \o s
  BY <1>1 DEF Exact, Need
<1>3. IsAddress(i, Expressions) /\ i.size \in Nat
  BY <1>1, Compiled DEF IsInstruction
<1>4. l \in Nat /\ ones \in Shapes /\ Len(ones) = l
  BY <1>3, AddressItems, OnesType
<1>5. Stored(i) \in Sorts
  BY <1>3 DEF Stored, Sorts
<1>6. s \in Seq(Sorts) /\ Len(s) = 1 /\ s[1] = Stored(i)
  BY <1>5
<1> HIDE DEF s, ones, l
<1>7. /\ Len(s \o ones) = 1 + l /\ (s \o ones)[1] = Stored(i)
      /\ Len(ones \o s) = l + 1 /\ (ones \o s)[l + 1] = Stored(i)
  <2>1. ones \in Seq(Sorts)
    BY <1>4 DEF Shapes
  <2>2. /\ Len(s \o ones) = Len(s) + Len(ones)
        /\ \A j \in 1..Len(s) + Len(ones) :
              (s \o ones)[j] = IF j <= Len(s) THEN s[j] ELSE ones[j - Len(s)]
    BY <1>6, <2>1, ConcatProperties
  <2>3. /\ Len(ones \o s) = Len(ones) + Len(s)
        /\ \A j \in 1..Len(ones) + Len(s) :
              (ones \o s)[j] = IF j <= Len(ones) THEN ones[j] ELSE s[j - Len(ones)]
    BY <1>6, <2>1, ConcatProperties
  <2>4. 1 \in 1..1 + l /\ 1 <= 1 /\ l + 1 \in 1..l + 1 /\ ~(l + 1 <= l) /\ (l + 1) - l = 1
    BY <1>4
  <2> QED
    BY <1>4, <1>6, <2>2, <2>3, <2>4
<1>8. PutLen = l + 1 /\ Len(Need(Item)) = l + 1
  BY <1>1, <1>2, <1>4, <1>7 DEF PutLen, l
<1>9. /\ Top(l + 1) \in Seq(Seq(V)) /\ Len(Top(l + 1)) = l + 1
      /\ Len(Frame.vals) - (l + 1) \in Nat
      /\ \A j \in 1..l + 1 : Top(l + 1)[j] \in Seq(V) /\ Fit(Top(l + 1)[j], Need(Item)[j])
  BY <1>1, <1>8, Operands
<1>10. Len(Frame.vals) \in Nat /\ l <= Len(Frame.vals) /\ 1 <= Len(Frame.vals)
       /\ l + 1 <= Len(Frame.vals)
  <2>1. Frame.vals \in Seq(Seq(V))
    BY Running DEF IsFrame
  <2>2. Len(Frame.vals) \in Nat
    BY <2>1, LenProperties
  <2> QED
    BY <1>4, <1>9, <2>2
<1>11. CASE Item.by = "source"
  <2>1. Source = Top(l + 1)[1] /\ Address = Top(l)
    BY <1>4, <1>8, <1>11 DEF Source, Address
  <2>2. 1 \in 1..l + 1
    BY <1>4
  <2>3. Source \in Seq(V) /\ Fit(Source, Stored(i))
    BY <1>2, <1>7, <1>9, <1>11, <2>1, <2>2
  <2>4. Len(Address) = l /\ Address \in Seq(Seq(V))
    BY <1>4, <1>10, <2>1, TopType
  <2>5. DOMAIN Address = 1..l
    BY <2>4, LenProperties
  <2> QED
    BY <1>1, <1>2, <1>3, <1>4, <1>8, <2>3, <2>4, <2>5 DEF l
<1>12. CASE Item.by # "source"
  <2>1. Source = Top(1)[1] /\ Address = SubSeq(Top(l + 1), 1, l)
    BY <1>4, <1>8, <1>12 DEF Source, Address
  <2>2. Top(1)[1] = Top(l + 1)[l + 1]
    <3> DEFINE m == Len(Frame.vals)
    <3>1. 1 \in Nat /\ l + 1 \in Nat /\ 1 \in 1..1 /\ l + 1 \in 1..l + 1
      BY <1>4
    <3>2. Top(1)[1] = Frame.vals[m - 1 + 1]
      BY <1>10, <3>1, TopType
    <3>3. Top(l + 1)[l + 1] = Frame.vals[m - (l + 1) + (l + 1)]
      BY <1>10, <3>1, TopType
    <3>5. m \in Nat
      BY <1>10
    <3> HIDE DEF m
    <3>4. m - 1 + 1 = m - (l + 1) + (l + 1)
      BY <1>4, <3>5
    <3> QED
      BY <3>2, <3>3, <3>4
  <2>3. l + 1 \in 1..l + 1
    BY <1>4
  <2>4. Source \in Seq(V) /\ Fit(Source, Stored(i))
    BY <1>2, <1>7, <1>9, <1>12, <2>1, <2>2, <2>3
  <2>5. Len(Address) = l /\ Address \in Seq(Seq(V))
    <3> DEFINE top == Top(l + 1)
    <3>1. top \in Seq(Seq(V)) /\ Len(top) = l + 1
      BY <1>9
    <3>2. Address = SubSeq(top, 1, l)
      BY <2>1
    <3> HIDE DEF top
    <3>3. \A j \in 1..l : top[j] \in Seq(V)
      <4>1. \A j \in 1..l : j \in 1..Len(top)
        BY <1>4, <3>1
      <4> QED
        BY <3>1, <4>1, ElementOfSeq
    <3>4. 1 \in Int /\ l \in Int
      BY <1>4
    <3>5. /\ SubSeq(top, 1, l) \in Seq(Seq(V))
          /\ Len(SubSeq(top, 1, l)) = IF 1 <= l THEN l - 1 + 1 ELSE 0
      BY <3>3, <3>4, SubSeqProperties
    <3> QED
      BY <1>4, <3>2, <3>5
  <2>6. DOMAIN Address = 1..l
    BY <2>5, LenProperties
  <2> QED
    BY <1>1, <1>2, <1>3, <1>4, <1>8, <2>4, <2>5, <2>6 DEF l
<1> QED
  BY <1>11, <1>12

\* Where it is put.
LEMMA LocationType ==
    ASSUME IInv, NEW a, IsAddress(a, Expressions), AddressKnown("template", a),
           NEW xs, DOMAIN xs = 1..AddressLen(a), Located(a, xs)
    PROVE  Location(a, xs) \in Nat
<1> DEFINE cs == Consts(xs)
           c == Component(xs)
<1>1. /\ a.addr \in {"Variable", "Signal", "Subcmp"}
      /\ a.cmp \in Seq(Expressions) /\ a.at \in Seq(Expressions)
      /\ Len(a.cmp) = (IF a.addr = "Subcmp" THEN 1 ELSE 0)
  BY DEF IsAddress
<1>2. /\ AddressLen(a) = Len(a.cmp) + Len(a.at) /\ Len(a.at) \in Nat
      /\ a.addr # "Subcmp" => Len(a.at) = 1
      /\ a.code = Indexed => Len(a.at) = 1
  BY <1>1, LenProperties DEF AddressLen, AddressKnown
<1>3. \A k \in 1..AddressLen(a) : cs[k] \in Nat
  BY DEF Located
<1> HIDE DEF cs, c
<1>4. 1 \in 1..AddressLen(a) /\ cs[1] \in Nat
  <2>1. 1 \in 1..AddressLen(a)
    <3>1. CASE a.addr = "Subcmp"
      <4> DEFINE l == Len(a.at)
      <4>1. AddressLen(a) = 1 + l /\ l \in Nat
        BY <1>1, <1>2, <3>1
      <4> HIDE DEF l
      <4>2. 1 \in 1..1 + l
        BY <4>1
      <4> QED
        BY <4>1, <4>2
    <3>2. CASE a.addr # "Subcmp"
      <4>1. AddressLen(a) = 0 + 1
        BY <1>1, <1>2, <3>2
      <4> QED
        BY <4>1
    <3> QED
      BY <3>1, <3>2
  <2> QED
    BY <1>3, <2>1
<1>5. CASE a.addr = "Variable"
  BY <1>4, <1>5 DEF Location, cs
<1>6. CASE a.addr = "Signal"
  <2>1. Frame.start \in Nat
    BY Running DEF IsFrame
  <2>2. Location(a, xs) = Frame.start + cs[1]
    BY <1>6 DEF Location, cs
  <2> QED
    BY <1>4, <2>1, <2>2
<1>7. CASE a.addr = "Subcmp"
  <2>1. /\ cs[1] \in DOMAIN Frame.comps /\ Frame.comps[cs[1]] # None
        /\ a.code # Indexed => a.code \in Codes(Frame.comps[cs[1]].template)
    BY <1>7 DEF Located, cs
  <2>2. c = Frame.comps[cs[1]]
    BY DEF c, cs, Component
  <2>3. c.offset \in Nat
    BY <2>1, <2>2, Running DEF IsFrame, IsComponent
  <2>4. Len(a.at) = 1 => 2 \in 1..AddressLen(a) /\ cs[2] \in Nat
    <3>1. Len(a.at) = 1 => 2 \in 1..AddressLen(a)
      BY <1>1, <1>2, <1>7
    <3> QED
      BY <1>3, <3>1
  <2>5. CASE a.code = Indexed
    <3>1. Location(a, xs) = c.offset + cs[2]
      BY <1>7, <2>5 DEF Location, cs, c
    <3>2. cs[2] \in Nat /\ c.offset \in Nat
      BY <1>2, <2>3, <2>4, <2>5
    <3> QED
      BY <3>1, <3>2
  <2>6. CASE a.code # Indexed
    <3>1. a.code \in Codes(c.template)
      BY <2>1, <2>2, <2>6
    <3>2. program.io[c.template][a.code] \in Nat
      BY <3>1, Running DEF Codes, IsProgram
    <3>3. Location(a, xs) = c.offset + (program.io[c.template][a.code]
                                          + (IF Len(a.at) = 1 THEN cs[2] ELSE 0))
      BY <1>7, <2>6 DEF Location, cs, c
    <3> QED
      BY <2>3, <2>4, <3>2, <3>3
  <2> QED
    BY <2>5, <2>6
<1> QED
  BY <1>1, <1>5, <1>6, <1>7

\* What is put at each place.
LEMMA SourceType ==
    ASSUME IInv, Doing("put"), Located(Item.what, Address), NEW q \in Places
    PROVE  /\ SourceAt(q) \in Val(Len(nodes))
           /\ Item.what.addr # "Variable" => SourceAt(q).val \in 1..Len(nodes)
<1> DEFINE p == Location(Item.what, Address)
           z == Item.what.size
           V == Val(Len(nodes))
<1>1. p \in Nat /\ z \in Nat
  BY Putting, LocationType
<1>2. Source \in Seq(V) /\ Fit(Source, Stored(Item.what))
  BY Putting
<1>3. Len(Source) = z /\ (Item.what.addr # "Variable" => \A j \in 1..z : Source[j].type = "Node")
  BY <1>2 DEF Fit, Stored
<1>4. q \in p..p + z - 1 /\ SourceAt(q) = Source[q - p + 1]
  BY DEF Places, SourceAt
<1> HIDE DEF p, z
<1>5. q - p + 1 \in 1..z
  BY <1>1, <1>4
<1> HIDE DEF V
<1>6. SourceAt(q) \in V
  BY <1>2, <1>3, <1>4, <1>5, ElementOfSeq
<1>7. Item.what.addr # "Variable" => SourceAt(q).type = "Node"
  BY <1>3, <1>4, <1>5
<1> QED
  BY <1>6, <1>7 DEF V, Val

\* An instruction is done.
LEMMA IsDone ==
    ASSUME IInv, Frame.todo # <<>>, Exact(Item), NEW k, k = Len(Need(Item)),
           NEW m \in Nat, Len(nodes) <= m
    PROVE  GoOn(Resumed(<<>>, k, <<>>), m)
<1> DEFINE V == Val(m)
           I == Items(Frame.type)
<1>1. <<>> \in Seq(Seq(V)) /\ HasShape(<<>>, <<>>) /\ <<>> \in Shapes
  BY ShapeOne, ShapesConcat
<1>2. <<>> \in Seq(I) /\ Chain(<<>>, <<>>, <<>>)
  BY <1>1, ChainEmpty
<1> QED
  BY <1>1, <1>2, GoesOnExact

\* The variables and the components of a frame may be others.
StillRuns(f, m) == IsFrame(f, m, program) /\ Ready(f) /\ f.type = Frame.type

\* A frame with other variables.
LEMMA OtherVariables ==
    ASSUME NEW f, NEW m, GoOn(f, m), NEW vs, vs \in [DOMAIN vs -> Var(m)]
    PROVE  StillRuns([f EXCEPT !.vars = vs], m)
<1> DEFINE g == [f EXCEPT !.vars = vs]
<1>1. IsFrame(f, m, program) /\ Ready(f) /\ f.type = Frame.type
  BY DEF GoOn
<1>2. f = [type |-> f.type, todo |-> f.todo, vals |-> f.vals, vars |-> f.vars,
           comps |-> f.comps, start |-> f.start]
  BY <1>1 DEF IsFrame
<1>3. g = [type |-> f.type, todo |-> f.todo, vals |-> f.vals, vars |-> vs,
           comps |-> f.comps, start |-> f.start]
  BY <1>2
<1> HIDE DEF g
<1>4. /\ g.type = f.type /\ g.todo = f.todo /\ g.vals = f.vals /\ g.vars = vs
      /\ g.comps = f.comps /\ g.start = f.start
  BY <1>3
<1>5. IsFrame(g, m, program)
  BY <1>1, <1>3, <1>4 DEF IsFrame
<1>6. Ready(g)
  BY <1>1, <1>4 DEF Ready
<1> QED
  BY <1>1, <1>4, <1>5, <1>6 DEF StillRuns, g

\* A frame with other components.
LEMMA OtherComponents ==
    ASSUME NEW f, NEW m, GoOn(f, m), NEW cs, cs = [c \in DOMAIN cs |-> cs[c]],
           \A c \in DOMAIN cs : IsComponent(cs[c], program)
    PROVE  StillRuns([f EXCEPT !.comps = cs], m)
<1> DEFINE g == [f EXCEPT !.comps = cs]
<1>1. IsFrame(f, m, program) /\ Ready(f) /\ f.type = Frame.type
  BY DEF GoOn
<1>2. f = [type |-> f.type, todo |-> f.todo, vals |-> f.vals, vars |-> f.vars,
           comps |-> f.comps, start |-> f.start]
  BY <1>1 DEF IsFrame
<1>3. g = [type |-> f.type, todo |-> f.todo, vals |-> f.vals, vars |-> f.vars,
           comps |-> cs, start |-> f.start]
  BY <1>2
<1> HIDE DEF g
<1>4. /\ g.type = f.type /\ g.todo = f.todo /\ g.vals = f.vals /\ g.vars = f.vars
      /\ g.comps = cs /\ g.start = f.start
  BY <1>3
<1>5. IsFrame(g, m, program)
  BY <1>1, <1>3, <1>4 DEF IsFrame
<1>6. Ready(g)
  BY <1>1, <1>4 DEF Ready
<1> QED
  BY <1>1, <1>4, <1>5, <1>6 DEF StillRuns, g

\* The instructions of a body.
LEMMA BlockItems ==
    ASSUME NEW body \in Seq(Instructions), NEW type
    PROVE  Block(body) \in Seq(Items(type)) /\ Chain(Block(body), <<>>, <<>>)
<1> DEFINE items == Block(body)
           I == Items(type)
<1>1. Len(body) \in Nat /\ DOMAIN body = 1..Len(body)
      /\ \A k \in 1..Len(body) : body[k] \in Instructions
  BY LenProperties, ElementOfSeq
<1>2. items = [k \in 1..Len(body) |-> Do("exec", "none", body[k], 0)]
  BY <1>1 DEF Block
<1> HIDE DEF items
<1>3. ASSUME NEW k \in 1..Len(body)
      PROVE  items[k] \in Items(type) /\ Need(items[k]) = <<>> /\ Gives(items[k]) = <<>>
  <2> DEFINE it == Do("exec", "none", body[k], 0)
  <2>1. it.do = "exec" /\ it.what = body[k]
    BY DoFields
  <2>2. IsItem(type, it)
    BY <1>1, <2>1 DEF IsItem
  <2>3. "exec" \in Dos /\ "none" \in Bys /\ 0 \in Nat
    BY DEF Dos, Bys
  <2>4. it \in Items(type)
    BY <1>1, <2>2, <2>3, MakeItem
  <2> HIDE DEF it
  <2>5. Need(it) = <<>> /\ Gives(it) = <<>>
    BY <2>1 DEF Need, Gives
  <2>6. items[k] = it
    BY <1>2 DEF it
  <2> QED
    BY <2>4, <2>5, <2>6
<1>4. items \in Seq(I) /\ Len(items) = Len(body)
  <2>1. items \in [1..Len(body) -> I]
    BY <1>2, <1>3
  <2> HIDE DEF I
  <2> QED
    BY <1>1, <2>1
<1>5. Chain(items, <<>>, <<>>)
  BY <1>3, <1>4, ChainStill
<1> QED
  BY <1>4, <1>5 DEF items

\* A template that starts to run.
LEMMA TemplateStarts ==
    ASSUME program \in Programs, NEW t \in DOMAIN program.templates, NEW start \in Nat,
           NEW n \in Nat
    PROVE  /\ IsFrame(TemplateFrame(t, start), n, program) /\ Ready(TemplateFrame(t, start))
           /\ TemplateFrame(t, start).type = "template"
<1> DEFINE f == TemplateFrame(t, start)
           body == program.templates[t].body
           nv == program.templates[t].vars
           nc == program.templates[t].comps
<1>1. body \in Seq(Instructions)
  BY Compiled DEF IsProgram
<1>2. Block(body) \in Seq(Items("template")) /\ Chain(Block(body), <<>>, <<>>)
  BY <1>1, BlockItems
<1>3. f = [type |-> "template", todo |-> Block(body), vals |-> <<>>,
           vars |-> [v \in 0..nv - 1 |-> None],
           comps |-> [c \in 0..nc - 1 |-> None], start |-> start]
  BY DEF TemplateFrame
<1> HIDE DEF f, body, nv, nc
<1>4. /\ f.type = "template" /\ f.todo = Block(body) /\ f.vals = <<>>
      /\ f.vars = [v \in 0..nv - 1 |-> None] /\ f.comps = [c \in 0..nc - 1 |-> None]
      /\ f.start = start
  BY <1>3
<1>5. None \in Var(n) /\ IsComponent(None, program)
  BY DEF Var, IsComponent
<1>6. <<>> \in Seq(Seq(Val(n))) /\ HasShape(<<>>, <<>>) /\ <<>> \in Shapes
  BY ShapeOne, ShapesConcat
<1>7. f.vars \in [DOMAIN f.vars -> Var(n)]
  BY <1>4, <1>5
<1>8. f.comps = [c \in DOMAIN f.comps |-> f.comps[c]]
      /\ \A c \in DOMAIN f.comps : IsComponent(f.comps[c], program)
  BY <1>4, <1>5
<1>9. f = [type |-> f.type, todo |-> f.todo, vals |-> f.vals, vars |-> f.vars,
           comps |-> f.comps, start |-> f.start]
  BY <1>3, <1>4
<1>10. IsFrame(f, n, program)
  BY <1>2, <1>4, <1>6, <1>7, <1>8, <1>9 DEF IsFrame
<1>11. Ready(f)
  BY <1>2, <1>4, <1>6 DEF Ready
<1> QED
  BY <1>4, <1>10, <1>11 DEF f

\* Signals that have been set.
LEMMA SignalsSet ==
    ASSUME IInv, Doing("put"), Located(Item.what, Address), Item.what.addr # "Variable"
    PROVE  SetSignals \in [0..program.signals - 1 -> 0..Len(nodes)]
<1>1. signals \in [0..program.signals - 1 -> 0..Len(nodes)] /\ Len(nodes) \in Nat
  BY Running DEF IInv
<1>2. \A q \in Places : SourceAt(q).val \in 0..Len(nodes)
  <2>1. 1..Len(nodes) \subseteq 0..Len(nodes)
    BY <1>1
  <2> QED
    BY <2>1, SourceType
<1> QED
  BY <1>1, <1>2 DEF SetSignals

\* A signal is given a node, since the source of such a store is nodes.
LEMMA PutSignalKeeps == ASSUME IInv, PutSignal PROVE IInv'
<1> DEFINE n == Len(nodes)
           f == Resumed(<<>>, PutLen, <<>>)
<1>1. Doing("put") /\ Item.what.addr = "Signal"
  BY DEF PutSignal
<1>2. \/ Panics
      \/ /\ Located(Item.what, Address) /\ signals' = SetSignals
         /\ Resume(<<>>, PutLen, <<>>) /\ UNCHANGED nodes
  BY DEF PutSignal
<1>3. CASE /\ Located(Item.what, Address) /\ signals' = SetSignals
           /\ Resume(<<>>, PutLen, <<>>) /\ UNCHANGED nodes
  <2>1. n \in Nat /\ GraphOK(nodes, program)
    BY Running
  <2>2. GoOn(f, n)
    BY <1>1, <2>1, Putting, IsDone
  <2>3. stack' = <<f>> \o Tail(stack) /\ program' = program /\ pc' = pc
    BY <1>3 DEF Resume
  <2> HIDE DEF f
  <2>4. StackOK(stack', n, program)
    BY <2>1, <2>2, <2>3, Replaced DEF GoOn
  <2>5. signals' \in [0..program.signals - 1 -> 0..n]
    BY <1>1, <1>3, SignalsSet
  <2>6. nodes' = nodes /\ pc' \in {"run", "built", "panic"}
    BY <1>3, <2>3 DEF IInv
  <2> QED
    BY <2>1, <2>3, <2>4, <2>5, <2>6, Steps
<1> QED
  BY <1>2, <1>3, PanicKeeps

\* A variable is given a node or a value.
LEMMA PutVariableKeeps == ASSUME IInv, PutVariable PROVE IInv'
<1> DEFINE n == Len(nodes)
           f == Resumed(<<>>, PutLen, <<>>)
           g == [f EXCEPT !.vars = SetVariables]
<1>1. Doing("put") /\ Item.what.addr = "Variable"
  BY DEF PutVariable
<1>2. \/ Panics
      \/ /\ Located(Item.what, Address) /\ stack' = <<g>> \o Tail(stack)
         /\ UNCHANGED <<program, nodes, signals, outputs, pc>>
  BY DEF PutVariable
<1>3. CASE /\ Located(Item.what, Address) /\ stack' = <<g>> \o Tail(stack)
           /\ UNCHANGED <<program, nodes, signals, outputs, pc>>
  <2>1. n \in Nat /\ GraphOK(nodes, program) /\ IsFrame(Frame, n, program)
    BY Running
  <2>2. GoOn(f, n)
    BY <1>1, <2>1, Putting, IsDone
  <2>3. SetVariables \in [DOMAIN SetVariables -> Var(n)]
    <3>1. Frame.vars \in [DOMAIN Frame.vars -> Var(n)]
      BY <2>1 DEF IsFrame
    <3>2. \A q \in Places : SourceAt(q) \in Var(n)
      BY <1>1, <1>3, SourceType DEF Var
    <3> QED
      BY <3>1, <3>2 DEF SetVariables
  <2> HIDE DEF f
  <2>4. StillRuns(g, n)
    BY <2>2, <2>3, OtherVariables
  <2> HIDE DEF g
  <2>5. StackOK(stack', n, program)
    BY <1>3, <2>1, <2>4, Replaced DEF StillRuns
  <2>6. signals' \in [0..program.signals - 1 -> 0..n] /\ pc' \in {"run", "built", "panic"}
        /\ nodes' = nodes /\ program' = program
    BY <1>3 DEF IInv
  <2> QED
    BY <2>1, <2>5, <2>6, Steps
<1> QED
  BY <1>2, <1>3, PanicKeeps

\* So is an input of a component, which runs when that was the last one.
LEMMA PutSubcomponentKeeps == ASSUME IInv, PutSubcomponent PROVE IInv'
<1> DEFINE n == Len(nodes)
           c == Consts(Address)[1]
           comp == Component(Address)
           left == Left(comp, Item.what.size)
           runs == left = 0 /\ Item.what.status # "NoLast"
           f == Resumed(<<>>, PutLen, <<>>)
           g == [f EXCEPT !.comps[c].inputs = left]
           t == TemplateFrame(comp.template, comp.offset)
<1>1. Doing("put") /\ Item.what.addr = "Subcmp"
  BY DEF PutSubcomponent
<1>2. \/ Panics
      \/ /\ Located(Item.what, Address) /\ signals' = SetSignals
         /\ stack' = (IF runs THEN <<t>> ELSE <<>>) \o <<g>> \o Tail(stack)
         /\ UNCHANGED <<program, nodes, outputs, pc>>
  BY DEF PutSubcomponent
<1>3. CASE /\ Located(Item.what, Address) /\ signals' = SetSignals
           /\ stack' = (IF runs THEN <<t>> ELSE <<>>) \o <<g>> \o Tail(stack)
           /\ UNCHANGED <<program, nodes, outputs, pc>>
  <2>1. n \in Nat /\ GraphOK(nodes, program) /\ IsFrame(Frame, n, program)
    BY Running
  <2>2. GoOn(f, n)
    BY <1>1, <2>1, Putting, IsDone
  <2>3. c \in DOMAIN Frame.comps /\ Frame.comps[c] # None /\ comp = Frame.comps[c]
    BY <1>1, <1>3 DEF Located, Component
  <2>4. f.comps = Frame.comps
    BY <2>1 DEF IsFrame, Resumed
  <2>5. /\ comp = [template |-> comp.template, offset |-> comp.offset, inputs |-> comp.inputs]
        /\ comp.template \in DOMAIN program.templates /\ comp.offset \in Nat
    BY <2>1, <2>3 DEF IsFrame, IsComponent
  <2> DEFINE less == [comp EXCEPT !.inputs = left]
             cs == [f.comps EXCEPT ![c] = less]
  <2>6. g = [f EXCEPT !.comps = cs]
    BY <2>3, <2>4
  <2> HIDE DEF c, comp, left, f
  <2>7. IsComponent(less, program)
    BY <2>5 DEF IsComponent
  <2> HIDE DEF less
  <2>8. /\ cs = [k \in DOMAIN cs |-> cs[k]]
        /\ \A k \in DOMAIN cs : IsComponent(cs[k], program)
    <3>1. \A k \in DOMAIN Frame.comps : IsComponent(Frame.comps[k], program)
      BY <2>1 DEF IsFrame
    <3>2. Frame.comps = [k \in DOMAIN Frame.comps |-> Frame.comps[k]]
      BY <2>1 DEF IsFrame
    <3> QED
      BY <2>4, <2>7, <3>1, <3>2
  <2> HIDE DEF cs
  <2>9. StillRuns(g, n)
    <3> HIDE DEF g
    <3> QED
      BY <2>2, <2>6, <2>8, OtherComponents
  <2> HIDE DEF g
  <2>10. IsFrame(t, n, program) /\ Ready(t) /\ t.type = "template"
    BY <2>1, <2>5, Running, TemplateStarts
  <2> HIDE DEF t
  <2> DEFINE new == IF runs THEN <<t>> ELSE <<>>
             N == IF runs THEN 1 ELSE 0
  <2>11. /\ N \in Nat /\ new = [k \in 1..N |-> new[k]]
         /\ \A k \in 1..N : new[k] = t
    <3> HIDE DEF runs
    <3>1. CASE runs
      <4>1. <<t>> = [k \in 1..1 |-> <<t>>[k]] /\ \A k \in 1..1 : <<t>>[k] = t
        OBVIOUS
      <4> QED
        BY <3>1, <4>1
    <3>2. CASE ~runs
      <4>1. <<>> = [k \in 1..0 |-> <<>>[k]] /\ \A k \in 1..0 : FALSE
        OBVIOUS
      <4> QED
        BY <3>2, <4>1
    <3> QED
      BY <3>1, <3>2
  <2>12. stack' = (new \o <<g>>) \o Tail(stack)
    BY <1>3
  <2> HIDE DEF new, N
  <2>13. StackOK(stack', n, program)
    BY <2>9, <2>10, <2>11, <2>12, TemplatesCalled DEF StillRuns
  <2>14. signals' \in [0..program.signals - 1 -> 0..n]
    BY <1>1, <1>3, SignalsSet
  <2>15. nodes' = nodes /\ program' = program /\ pc' \in {"run", "built", "panic"}
    BY <1>3 DEF IInv
  <2> QED
    BY <2>1, <2>13, <2>14, <2>15, Steps
<1> QED
  BY <1>2, <1>3, PanicKeeps

\* The steps of stores.
LEMMA StoreKeeps == IInv /\ Store => IInv'
BY ExecStoreKeeps, PutSignalKeeps, PutVariableKeeps, PutSubcomponentKeeps DEF Store

-----------------------------------------------------------------------------
\* Calls and returns.

\* An instruction whose values are taken, and the frame has other things to do.
Redone(k, todo) == [Frame EXCEPT !.todo = todo, !.vals = Below(k) \o <<>>]

\* A frame that has lost the values of its instruction, and has something else to do.
LEMMA OtherTodo ==
    ASSUME IInv, Frame.todo # <<>>, Exact(Item), NEW k, k = Len(Need(Item)),
           NEW todo \in Seq(Items(Frame.type)),
           NEW f, f = Redone(k, todo)
    PROVE  /\ IsFrame(f, Len(nodes), program) /\ HasShape(f.vals, <<>>)
           /\ f.todo = todo /\ f.type = Frame.type
           /\ Chain(Tail(Frame.todo), <<>>, <<>>)
<1> DEFINE n == Len(nodes)
           V == Val(n)
<1>1. IsFrame(Frame, n, program) /\ Frame.vals \in Seq(Seq(V))
  BY Running DEF IsFrame
<1>2. /\ HasShape(Frame.vals, <<>> \o Need(Item))
      /\ Chain(Tail(Frame.todo), <<>> \o Gives(Item), <<>>)
  BY NextItem
<1>3. Gives(Item) = <<>> /\ <<>> \in Shapes /\ <<>> \o <<>> = <<>> /\ Need(Item) \in Shapes
  BY NextItem, ShapesConcat DEF Gives, Exact
<1>4. Below(k) \in Seq(Seq(V)) /\ HasShape(Below(k), <<>>)
  <2> DEFINE vals == Frame.vals
             D == Need(Item)
             below == SubSeq(vals, 1, Len(vals) - k)
  <2>1. vals \in Seq(Seq(V)) /\ D \in Shapes /\ HasShape(vals, <<>> \o D) /\ k = Len(D)
    BY <1>1, <1>2, <1>3
  <2>2. Below(k) = below
    BY DEF Below
  <2> HIDE DEF vals, D, V
  <2>3. HasEnds(V, vals, <<>>, D)
    BY <1>3, <2>1, TopAndBelow
  <2>4. below \in Seq(Seq(V)) /\ HasShape(below, <<>>)
    BY <2>1, <2>3 DEF HasEnds
  <2> QED
    BY <2>2, <2>4
<1>5. Below(k) \o <<>> = Below(k)
  BY <1>4, ConcatEmptySeq
<1> HIDE DEF n, V
<1>6. Frame = [type |-> Frame.type, todo |-> Frame.todo, vals |-> Frame.vals,
               vars |-> Frame.vars, comps |-> Frame.comps, start |-> Frame.start]
  BY <1>1 DEF IsFrame
<1>7. f = [type |-> Frame.type, todo |-> todo, vals |-> Below(k), vars |-> Frame.vars,
           comps |-> Frame.comps, start |-> Frame.start]
  BY <1>5, <1>6 DEF Redone
<1>8. /\ f.type = Frame.type /\ f.todo = todo /\ f.vals = Below(k) /\ f.vars = Frame.vars
      /\ f.comps = Frame.comps /\ f.start = Frame.start
  BY <1>7
<1>9. IsFrame(f, n, program)
  BY <1>1, <1>4, <1>7, <1>8 DEF IsFrame, V
<1> QED
  BY <1>2, <1>3, <1>4, <1>8, <1>9 DEF n

\* What ends an instruction.
LEMMA FinishItem ==
    ASSUME NEW type, NEW i \in Instructions,
           i.kind \in {"Call", "Return", "Branch", "Loop", "CreateCmp"},
           i.kind = "Return" => /\ type = "function"
                                /\ ReturnsVariable(i) => AddressKnown("function", i.src)
    PROVE  /\ Finish(i) \in Items(type) /\ Exact(Finish(i)) /\ Gives(Finish(i)) = <<>>
           /\ Need(Finish(i)) = IF i.kind = "Call"
                                THEN [k \in DOMAIN i.args |-> AnyOf(i.sizes[k])] ELSE Ones(1)
<1> DEFINE it == Finish(i)
<1>1. it.do = "finish" /\ it.what = i
  BY DoFields DEF Finish
<1>2. IsItem(type, it)
  BY <1>1 DEF IsItem
<1>3. it \in Items(type)
  <2>1. "finish" \in Dos /\ "none" \in Bys /\ 0 \in Nat
    BY DEF Dos, Bys
  <2> QED
    BY <1>2, <2>1, MakeItem DEF Finish
<1> HIDE DEF it
<1>4. Exact(it) /\ Gives(it) = <<>>
  BY <1>1 DEF Exact, Gives
<1>5. Need(it) = IF i.kind = "Call" THEN [k \in DOMAIN i.args |-> AnyOf(i.sizes[k])] ELSE Ones(1)
  BY <1>1 DEF Need
<1> QED
  BY <1>3, <1>4, <1>5 DEF it

\* An instruction is finished, and what it needs for that.
LEMMA Finishing ==
    ASSUME IInv, Doing("finish")
    PROVE  /\ pc = "run" /\ Frame.todo # <<>> /\ Item.do = "finish" /\ Item.what \in Instructions
           /\ IsInstruction(Item.what, Instructions, Expressions) /\ Exact(Item)
           /\ Item.what.kind = "Call" => Len(Need(Item)) = Len(Item.what.args)
           /\ Item.what.kind # "Call" => Len(Need(Item)) = 1
           /\ Item.what.kind # "Call" => Top(1)[1] \in Seq(Val(Len(nodes)))
           /\ Item.what.kind # "Call" => Len(Top(1)[1]) = 1
           /\ Frame.type \in {"template", "function"} /\ Frame.type \in Bys
           /\ Item.what.kind = "Return" => Frame.type = "function"
<1>1. pc = "run" /\ Frame.todo # <<>> /\ Item.do = "finish"
  BY DEF Doing
<1>2. Item.what \in Instructions /\ (Item.what.kind = "Return" => Frame.type = "function")
  BY <1>1, NextItem DEF IsItem
<1>3. Exact(Item)
  BY <1>1 DEF Exact
<1>4. IsInstruction(Item.what, Instructions, Expressions)
  BY <1>2, Compiled
<1>5. Frame.type \in {"template", "function"} /\ Frame.type \in Bys
  BY Running DEF IsFrame, Bys
<1>6. CASE Item.what.kind = "Call"
  <2>1. Need(Item) = [k \in DOMAIN Item.what.args |-> AnyOf(Item.what.sizes[k])]
    BY <1>1, <1>6 DEF Need
  <2>2. Item.what.args \in Seq(Expressions)
    BY <1>4, <1>6 DEF IsInstruction
  <2>3. DOMAIN Item.what.args = 1..Len(Item.what.args) /\ Len(Item.what.args) \in Nat
    BY <2>2, LenProperties
  <2>4. Len(Need(Item)) = Len(Item.what.args)
    BY <2>1, <2>3
  <2> QED
    BY <1>1, <1>2, <1>3, <1>4, <1>5, <1>6, <2>4
<1>7. CASE Item.what.kind # "Call"
  <2>1. Need(Item) = Ones(1)
    BY <1>1, <1>7 DEF Need
  <2>2. Len(Need(Item)) = 1 /\ 1 \in 1..1 /\ Need(Item)[1] = AnyOf(1)
    <3>1. 1 \in Nat /\ 1 \in 1..1
      OBVIOUS
    <3>2. Len(Ones(1)) = 1 /\ \A j \in 1..1 : Ones(1)[j] = AnyOf(1)
      BY <3>1, OnesType
    <3> QED
      BY <2>1, <3>1, <3>2
  <2>3. Top(1)[1] \in Seq(Val(Len(nodes))) /\ Fit(Top(1)[1], Need(Item)[1])
    BY <1>1, <2>2, Operands
  <2>4. Len(Top(1)[1]) = 1
    BY <2>2, <2>3 DEF Fit, AnyOf
  <2> QED
    BY <1>1, <1>2, <1>3, <1>4, <1>5, <1>7, <2>2, <2>3, <2>4
<1> QED
  BY <1>6, <1>7

\* Calculating what an instruction needs, and then finishing it.
LEMMA CalcThenFinish ==
    ASSUME IInv, Doing("exec") \/ Doing("repeat"), NEW items \in Seq(Items(Frame.type)),
           NEW D, Chain(items, <<>>, D),
           NEW i \in Instructions, i.kind \in {"Call", "Return", "Branch", "Loop", "CreateCmp"},
           i.kind = "Return" => /\ Frame.type = "function"
                                /\ ReturnsVariable(i) => AddressKnown("function", i.src),
           Need(Finish(i)) = D, D \in Shapes, Expand(items \o <<Finish(i)>>)
    PROVE  IInv'
<1> DEFINE it == Finish(i)
           I == Items(Frame.type)
<1>1. it \in I /\ Exact(it) /\ Gives(it) = <<>>
  BY FinishItem
<1>2. <<>> \in Shapes /\ <<>> \o D = D /\ <<>> \o <<>> = <<>>
  BY ShapesConcat
<1> HIDE DEF it
<1>3. Need(it) = D
  BY DEF it
<1>4. items \o <<it>> \in Seq(I) /\ Chain(items \o <<it>>, <<>>, <<>> \o Gives(it))
  BY <1>1, <1>2, <1>3, ThenItem
<1>5. pc = "run" /\ Frame.todo # <<>> /\ Exact(Item) /\ Need(Item) = <<>>
  BY DEF Doing, Exact, Need
<1>6. Chain(items \o <<it>>, Need(Item), <<>>)
  BY <1>1, <1>2, <1>4, <1>5
<1>7. Expand(items \o <<it>>)
  BY DEF it
<1> QED
  BY <1>4, <1>5, <1>6, <1>7, ExactExpandKeeps

\* One value that need not be a node.
LEMMA OnesOne ==
    /\ Ones(1) = <<AnyOf(1)>> /\ Ones(1) \in Shapes
    /\ \A by : by # "operand" => <<Of(by, 1)>> = Ones(1)
<1>1. Ones(1) = <<AnyOf(1)>>
  BY DEF Ones
<1>2. \A by : by # "operand" => Of(by, 1) = AnyOf(1)
  BY DEF Of, AnyOf
<1> QED
  BY <1>1, <1>2, OnesType

\* The instructions that calculate one value first.
LEMMA OneThenFinish ==
    ASSUME IInv, Doing("exec") \/ Doing("repeat"),
           NEW by \in {"template", "function"}, NEW e \in Expressions,
           NEW i \in Instructions, i.kind \in {"Return", "Branch", "Loop", "CreateCmp"},
           i.kind = "Return" => /\ Frame.type = "function"
                                /\ ReturnsVariable(i) => AddressKnown("function", i.src),
           Expand(<<Calc(by, e, 1)>> \o <<Finish(i)>>)
    PROVE  IInv'
<1> DEFINE items == <<Calc(by, e, 1)>>
<1>1. by \in Bys /\ 1 \in Nat /\ <<Of(by, 1)>> = Ones(1) /\ Ones(1) \in Shapes
  BY OnesOne DEF Bys
<1>2. items \in Seq(Items(Frame.type)) /\ \A P \in Shapes : Chain(items, P, P \o <<Of(by, 1)>>)
  BY <1>1, OneCalc
<1>3. <<>> \in Shapes /\ <<>> \o Ones(1) = Ones(1)
  BY <1>1, ShapesConcat
<1> HIDE DEF items
<1>4. Chain(items, <<>>, Ones(1))
  BY <1>1, <1>2, <1>3
<1>5. Need(Finish(i)) = Ones(1)
  BY FinishItem
<1>6. Expand(items \o <<Finish(i)>>)
  BY DEF items
<1> QED
  BY <1>1, <1>2, <1>4, <1>5, <1>6, CalcThenFinish

\* A call calculates its arguments.
LEMMA ExecCallKeeps == ASSUME IInv, ExecCall PROVE IInv'
<1> DEFINE i == Item.what
           by == Frame.type
           items == [k \in DOMAIN i.args |-> Calc(by, i.args[k], i.sizes[k])]
           D == [k \in DOMAIN i.args |-> Of(by, i.sizes[k])]
<1>1. /\ i \in Instructions /\ i.kind = "Call" /\ Doing("exec")
      /\ IsInstruction(i, Instructions, Expressions) /\ by \in Bys /\ by # "operand"
  BY Executing DEF ExecCall, DoingA
<1>2. i.args \in Seq(Expressions) /\ i.sizes \in [DOMAIN i.args -> Nat]
  BY <1>1 DEF IsInstruction
<1>3. Expand(items \o <<Finish(i)>>)
  BY DEF ExecCall
<1>4. Need(Finish(i)) = D
  <2>1. Need(Finish(i)) = [k \in DOMAIN i.args |-> AnyOf(i.sizes[k])]
    BY <1>1, FinishItem
  <2>2. \A n : Of(by, n) = AnyOf(n)
    BY <1>1 DEF Of, AnyOf
  <2> QED
    BY <2>1, <2>2
<1>5. /\ items \in Seq(Items(by)) /\ D \in Shapes
      /\ \A P \in Shapes : Chain(items, P, P \o D)
  BY <1>1, <1>2, CalcItems
<1>6. <<>> \in Shapes /\ <<>> \o D = D
  BY <1>5, ShapesConcat
<1> HIDE DEF items, D
<1>7. Chain(items, <<>>, D)
  BY <1>5, <1>6
<1> QED
  BY <1>1, <1>3, <1>4, <1>5, <1>7, CalcThenFinish

\* A function that starts to run.
LEMMA FunctionStarts ==
    ASSUME program \in Programs, NEW fn \in DOMAIN program.functions, NEW n \in Nat,
           NEW args, args \in [DOMAIN args -> Var(n)]
    PROVE  /\ IsFrame(FunctionFrame(fn, args), n, program) /\ Ready(FunctionFrame(fn, args))
           /\ FunctionFrame(fn, args).type = "function"
<1> DEFINE f == FunctionFrame(fn, args)
           body == program.functions[fn]
<1>1. body \in Seq(Instructions)
  BY Compiled DEF IsProgram
<1>2. Block(body) \in Seq(Items("function")) /\ Chain(Block(body), <<>>, <<>>)
  BY <1>1, BlockItems
<1>3. f = [type |-> "function", todo |-> Block(body), vals |-> <<>>, vars |-> args,
           comps |-> <<>>, start |-> 0]
  BY DEF FunctionFrame
<1> HIDE DEF f, body
<1>4. /\ f.type = "function" /\ f.todo = Block(body) /\ f.vals = <<>> /\ f.vars = args
      /\ f.comps = <<>> /\ f.start = 0
  BY <1>3
<1>5. <<>> \in Seq(Seq(Val(n))) /\ HasShape(<<>>, <<>>) /\ <<>> \in Shapes
  BY ShapeOne, ShapesConcat
<1>6. f.comps = [c \in DOMAIN f.comps |-> f.comps[c]]
      /\ \A c \in DOMAIN f.comps : IsComponent(f.comps[c], program)
  <2>1. <<>> = [c \in DOMAIN <<>> |-> <<>>[c]] /\ \A c \in DOMAIN <<>> : FALSE
    OBVIOUS
  <2> QED
    BY <1>4, <2>1
<1>7. f = [type |-> f.type, todo |-> f.todo, vals |-> f.vals, vars |-> f.vars,
           comps |-> f.comps, start |-> f.start]
  BY <1>3, <1>4
<1>8. IsFrame(f, n, program)
  BY <1>2, <1>4, <1>5, <1>6, <1>7 DEF IsFrame
<1>9. Ready(f)
  BY <1>2, <1>4, <1>5 DEF Ready
<1> QED
  BY <1>4, <1>8, <1>9 DEF f

\* A function starts with its arguments, and its caller waits for the result.
LEMMA EnterFunctionKeeps == ASSUME IInv, EnterFunction PROVE IInv'
<1> DEFINE i == Item.what
           n == Len(nodes)
           I == Items(Frame.type)
           args == FlattenSeq(Top(Len(i.args)))
           given == [v \in 0..i.arena - 1 |-> IF v < Len(args) THEN args[v + 1] ELSE None]
           g == FunctionFrame(i.fn, given)
           r == Do("result", "none", i, 0)
           f == Resumed(<<r>>, Len(i.args), <<>>)
<1>1. /\ pc = "run" /\ Frame.todo # <<>> /\ Item.do = "finish" /\ i \in Instructions
      /\ i.kind = "Call" /\ Exact(Item) /\ Len(Need(Item)) = Len(i.args)
      /\ IsInstruction(i, Instructions, Expressions)
  BY Finishing DEF EnterFunction, DoingA
<1>2. \/ Panics
      \/ /\ i.fn \in DOMAIN program.functions /\ stack' = <<g, f>> \o Tail(stack)
         /\ UNCHANGED <<program, nodes, signals, outputs, pc>>
  BY DEF EnterFunction
<1>3. n \in Nat /\ program \in Programs /\ GraphOK(nodes, program) /\ IsFrame(Frame, n, program)
  BY Running
<1>4. given \in [DOMAIN given -> Var(n)]
  <2> DEFINE V == Val(n)
  <2>1. Top(Len(i.args)) \in Seq(Seq(V))
    BY <1>1, Operands
  <2> HIDE DEF V
  <2>2. args \in Seq(V) /\ Len(args) \in Nat
    BY <2>1, FlattenType
  <2> HIDE DEF args
  <2>3. ASSUME NEW v \in 0..i.arena - 1, v < Len(args) PROVE args[v + 1] \in V
    <3>1. i.arena \in Nat
      BY <1>1 DEF IsInstruction
    <3>2. v + 1 \in 1..Len(args)
      BY <2>2, <2>3, <3>1
    <3> QED
      BY <2>2, <3>2, ElementOfSeq
  <2> QED
    BY <2>3 DEF Var, V
<1>5. CASE /\ i.fn \in DOMAIN program.functions /\ stack' = <<g, f>> \o Tail(stack)
           /\ UNCHANGED <<program, nodes, signals, outputs, pc>>
  <2> HIDE DEF given
  <2>1. IsFrame(g, n, program) /\ Ready(g) /\ g.type = "function"
    BY <1>3, <1>4, <1>5, FunctionStarts
  <2>2. r.do = "result" /\ r.what = i
    BY DoFields
  <2>3. r \in I
    <3>1. IsItem(Frame.type, r)
      BY <1>1, <2>2 DEF IsItem
    <3>2. "result" \in Dos /\ "none" \in Bys /\ 0 \in Nat
      BY DEF Dos, Bys
    <3> QED
      BY <1>1, <3>1, <3>2, MakeItem, SMTT(30)
  <2> DEFINE D == <<AnyOf(i.size)>>
             rest == Tail(Frame.todo)
             todo == <<r>> \o rest
  <2>4. f = Redone(Len(i.args), todo)
    BY DEF Resumed, Redone
  <2> HIDE DEF r, f, g
  <2>5. Need(r) = D /\ Gives(r) = <<>> /\ Exact(r)
    BY <2>2 DEF Need, Gives, Exact
  <2>6. D \in Shapes
    <3>1. AnyOf(i.size) \in Sorts
      BY <1>1 DEF IsInstruction, AnyOf, Sorts
    <3> QED
      BY <3>1, ShapeOne
  <2> HIDE DEF D
  <2>7. <<>> \in Shapes /\ <<>> \o D = D /\ <<>> \o <<>> = <<>>
    BY <2>6, ShapesConcat
  <2>8. Effect(r, D, <<>>)
    BY <2>5, <2>7 DEF Effect
  <2>9. Chain(<<r>>, D, <<>>)
    BY <2>6, <2>7, <2>8, ChainOne
  <2>10. rest \in Seq(I) /\ <<r>> \in Seq(I)
    BY <1>1, <2>3, NextItem
  <2>11. todo \in Seq(I)
    BY <2>10, ConcatProperties
  <2> HIDE DEF rest
  <2>12. todo # <<>> /\ Head(todo) = r
    <3>1. Len(<<r>>) = 1 /\ <<r>>[1] = r /\ Len(rest) \in Nat
      BY <2>10, LenProperties
    <3>2. /\ Len(<<r>> \o rest) = Len(<<r>>) + Len(rest)
          /\ \A j \in 1..Len(<<r>>) + Len(rest) :
                (<<r>> \o rest)[j] = IF j <= Len(<<r>>) THEN <<r>>[j] ELSE rest[j - Len(<<r>>)]
      BY <2>10, ConcatProperties
    <3>3. Len(todo) = 1 + Len(rest) /\ todo[1] = r
      <4>1. 1 \in 1..1 + Len(rest) /\ 1 <= 1
        BY <3>1
      <4> QED
        BY <3>1, <3>2, <4>1
    <3> HIDE DEF todo
    <3>4. Len(todo) # 0
      BY <3>1, <3>3
    <3> QED
      BY <2>11, <3>3, <3>4, EmptySeq, HeadTailProperties
  <2> HIDE DEF todo
  <2> DEFINE k == Len(i.args)
  <2>20. f = Redone(k, todo) /\ k = Len(Need(Item))
    BY <1>1, <2>4
  <2> HIDE DEF k
  <2>13. /\ IsFrame(f, n, program) /\ HasShape(f.vals, <<>>) /\ f.todo = todo
         /\ f.type = Frame.type /\ Chain(Tail(Frame.todo), <<>>, <<>>)
    BY <1>1, <2>20, <2>11, OtherTodo
  <2>14. Chain(todo, D, <<>>)
    BY <2>9, <2>10, <2>13, ChainConcat DEF todo, rest
  <2>15. Waits(f)
    BY <2>2, <2>7, <2>12, <2>13, <2>14 DEF Waits, D
  <2>16. StackOK(stack', n, program)
    BY <1>5, <2>1, <2>13, <2>15, FunctionCalled
  <2>17. signals' \in [0..program.signals - 1 -> 0..n] /\ pc' \in {"run", "built", "panic"}
         /\ nodes' = nodes /\ program' = program
    BY <1>5 DEF IInv
  <2> QED
    BY <1>3, <2>16, <2>17, Steps
<1> QED
  BY <1>2, <1>5, PanicKeeps

\* In a function an address is one index.
LEMMA OneIndex ==
    ASSUME NEW a, IsAddress(a, Expressions), AddressKnown("function", a)
    PROVE  AddressLen(a) = 1
<1>1. /\ a.cmp \in Seq(Expressions) /\ a.at \in Seq(Expressions)
      /\ Len(a.cmp) = (IF a.addr = "Subcmp" THEN 1 ELSE 0)
  BY DEF IsAddress
<1>2. a.addr = "Variable" /\ Len(a.at) = 1
  BY DEF AddressKnown
<1>3. Len(a.cmp) = 0
  BY <1>1, <1>2
<1>4. AddressLen(a) = 0 + 1
  BY <1>2, <1>3 DEF AddressLen
<1> QED
  BY <1>4

\* A return calculates the index of a variable, or a value.
LEMMA ExecReturnKeeps == ASSUME IInv, ExecReturn PROVE IInv'
<1> DEFINE i == Item.what
<1>1. /\ i \in Instructions /\ i.kind = "Return" /\ Doing("exec")
      /\ IsInstruction(i, Instructions, Expressions)
      /\ Frame.type \in {"template", "function"}
  BY Executing DEF ExecReturn, DoingA
<1>2. i.src \in Expressions
  BY <1>1 DEF IsInstruction
<1>3. CASE /\ Frame.type # "template" /\ ReturnsVariable(i) /\ AddressKnown("function", i.src)
           /\ Expand(CalcAddress("function", i.src) \o <<Finish(i)>>)
  <2> DEFINE items == CalcAddress("function", i.src)
  <2>1. IsAddress(i.src, Expressions)
    BY <1>2, <1>3, Compiled DEF ReturnsVariable, IsExpression
  <2>2. AddressLen(i.src) = 1
    BY <1>3, <2>1, OneIndex
  <2>3. items \in Seq(Items(Frame.type)) /\ \A P \in Shapes : Chain(items, P, P \o Ones(1))
    BY <2>1, <2>2, AddressItems
  <2>4. <<>> \in Shapes /\ <<>> \o Ones(1) = Ones(1) /\ Ones(1) \in Shapes
    BY OnesOne, ShapesConcat
  <2> HIDE DEF items
  <2>5. Chain(items, <<>>, Ones(1))
    BY <2>3, <2>4
  <2>6. Need(Finish(i)) = Ones(1)
    BY <1>1, <1>3, FinishItem
  <2>7. Expand(items \o <<Finish(i)>>) /\ Frame.type = "function"
    BY <1>1, <1>3 DEF items
  <2> QED
    BY <1>1, <1>3, <2>3, <2>4, <2>5, <2>6, <2>7, CalcThenFinish
<1>4. CASE /\ Frame.type # "template" /\ ~ReturnsVariable(i)
           /\ Expand(<<Calc("function", i.src, 1)>> \o <<Finish(i)>>)
  <2>1. Frame.type = "function"
    BY <1>1, <1>4
  <2> QED
    BY <1>1, <1>2, <1>4, <2>1, OneThenFinish
<1>5. Panics \/ <1>3!1 \/ <1>4!1
  BY DEF ExecReturn
<1> QED
  BY <1>3, <1>4, <1>5, PanicKeeps

\* A loop that drops a result goes on where no value is needed.
LEMMA DropResultKeeps == ASSUME IInv, DropResult PROVE IInv'
<1> DEFINE n == Len(nodes)
           I == Items(Frame.type)
           todo == Frame.todo
           ends == {k \in DOMAIN todo : todo[k].do = "end branch" /\ k < Min(Loops)}
           last == Max(ends \cup {1})
           left == SubSeq(todo, last + 1, Len(todo))
           f == [Resumed(<<>>, 1, <<>>) EXCEPT !.todo = left]
<1>1. /\ pc = "run" /\ todo # <<>> /\ Item.do = "finish" /\ Exact(Item)
      /\ Len(Need(Item)) = 1
  BY Finishing DEF DropResult, DoingA
<1> SUFFICES ASSUME ~Panics PROVE IInv'
  BY PanicKeeps
<1>2. stack' = <<f>> \o Tail(stack) /\ UNCHANGED <<program, nodes, signals, outputs, pc>>
  BY DEF DropResult
<1>3. n \in Nat /\ GraphOK(nodes, program) /\ IsFrame(Frame, n, program) /\ Ready(Frame)
  BY Running
<1>4. todo \in Seq(I)
  BY <1>3 DEF IsFrame
<1>5. PICK S \in Shapes : Chain(todo, S, <<>>)
  BY <1>3 DEF Ready
<1>6. f = Redone(1, left)
  <2>1. Frame = [type |-> Frame.type, todo |-> Frame.todo, vals |-> Frame.vals,
                 vars |-> Frame.vars, comps |-> Frame.comps, start |-> Frame.start]
    BY <1>3 DEF IsFrame
  <2> DEFINE F == Frame
             below == Below(1) \o <<>>
             rest == <<>> \o Tail(F.todo)
             mid == Resumed(<<>>, 1, <<>>)
  <2>2. /\ f = [mid EXCEPT !.todo = left]
        /\ mid = [F EXCEPT !.todo = rest, !.vals = below]
        /\ Redone(1, left) = [F EXCEPT !.todo = left, !.vals = below]
    BY DEF Resumed, Redone
  <2>3. F = [type |-> F.type, todo |-> F.todo, vals |-> F.vals,
             vars |-> F.vars, comps |-> F.comps, start |-> F.start]
    BY <2>1
  <2> HIDE DEF f, F, below, rest, left, mid
  <2> DEFINE new == [type |-> F.type, todo |-> left, vals |-> below,
                     vars |-> F.vars, comps |-> F.comps, start |-> F.start]
  <2>4. Redone(1, left) = new
    BY <2>2, <2>3
  <2>5. mid = [type |-> F.type, todo |-> rest, vals |-> below,
               vars |-> F.vars, comps |-> F.comps, start |-> F.start]
    BY <2>2, <2>3
  <2>6. f = new
    BY <2>2, <2>5
  <2> QED
    BY <2>4, <2>6
<1> HIDE DEF f
<1>7. Len(todo) \in Nat /\ DOMAIN todo = 1..Len(todo) /\ 1 \in 1..Len(todo) /\ todo[1] = Item
  <2>1. Len(todo) \in Nat /\ DOMAIN todo = 1..Len(todo) /\ (Len(todo) = 0 => todo = <<>>)
    BY <1>4, LenProperties, EmptySeq
  <2>2. Head(todo) = todo[1]
    BY <1>1, <1>4, HeadTailProperties
  <2> QED
    BY <1>1, <2>1, <2>2 DEF Item
<1>8. last \in 1..Len(todo) /\ Exact(todo[last])
  <2> DEFINE T == ends \cup {1}
  <2>1. T \in SUBSET Nat /\ T # {} /\ \A x \in T : x <= Len(todo) /\ x \in 1..Len(todo)
    <3>1. ends \subseteq 1..Len(todo)
      BY <1>7
    <3> HIDE DEF ends
    <3>2. T \subseteq 1..Len(todo) /\ T # {}
      BY <1>7, <3>1
    <3> HIDE DEF T, todo
    <3>3. \A x \in 1..Len(todo) : x \in Nat /\ x <= Len(todo)
      BY <1>7
    <3> QED
      BY <3>2, <3>3
  <2>2. \A x \in T : Exact(todo[x])
    BY <1>1, <1>7 DEF Exact
  <2> HIDE DEF T
  <2>3. Max(T) \in T
    BY <1>7, <2>1, GreatestNatural
  <2> QED
    BY <2>1, <2>2, <2>3 DEF T
<1> HIDE DEF last
<1>9. Chain(left, <<>>, <<>>)
  <2> HIDE DEF todo, I
  <2> QED
    BY <1>4, <1>5, <1>8, ChainAfter
<1>10. left \in Seq(I)
  <2> HIDE DEF todo, I
  <2>1. \A k \in last + 1..Len(todo) : todo[k] \in I
    <3>1. \A k \in last + 1..Len(todo) : k \in 1..Len(todo)
      BY <1>7, <1>8
    <3> QED
      BY <1>4, <3>1, ElementOfSeq
  <2>2. last + 1 \in Int /\ Len(todo) \in Int
    BY <1>7, <1>8
  <2> QED
    BY <2>1, <2>2, SubSeqProperties
<1> HIDE DEF left
<1>11. IsFrame(f, n, program) /\ HasShape(f.vals, <<>>) /\ f.todo = left /\ f.type = Frame.type
  BY <1>1, <1>6, <1>10, OtherTodo
<1>12. Ready(f)
  <2>1. <<>> \in Shapes
    BY ShapesConcat
  <2> QED
    BY <1>9, <1>11, <2>1 DEF Ready
<1>13. StackOK(stack', n, program)
  BY <1>2, <1>3, <1>11, <1>12, Replaced
<1>14. signals' \in [0..program.signals - 1 -> 0..n] /\ pc' \in {"run", "built", "panic"}
       /\ nodes' = nodes /\ program' = program
  BY <1>2 DEF IInv
<1> QED
  BY <1>3, <1>13, <1>14, Steps

\* The caller of a function waits for what it returns.
LEMMA Caller ==
    ASSUME IInv, Frame.type = "function"
    PROVE  /\ 2 \in 1..Len(stack) /\ 3 \in 2..Len(stack) + 1
           /\ IsFrame(stack[2], Len(nodes), program) /\ Waits(stack[2])
           /\ Head(stack[2].todo).what.size \in Nat
<1> DEFINE n == Len(nodes)
           l == Len(stack)
           g == stack[2]
<1>1. /\ AreFrames(stack, n, program) /\ l \in Nat \ {0} /\ Frame = stack[1]
      /\ StackOK(stack, n, program)
  BY Running DEF IInv
<1> HIDE DEF n
<1>2. stack[l].type = "template"
  BY <1>1 DEF StackOK
<1> HIDE DEF l
<1>3. l # 1
  BY <1>1, <1>2
<1>4. 2 \in 1..l /\ 3 \in 2..l + 1 /\ 1 \in 1..l - 1 /\ 1 + 1 = 2
  BY <1>1, <1>3
<1>5. Waits(g) /\ IsFrame(g, n, program)
  <2>1. Follows(stack[1], stack[1 + 1])
    BY <1>1, <1>4 DEF StackOK, Linked, l
  <2>2. Waits(g)
    BY <1>1, <1>4, <2>1 DEF Follows
  <2> QED
    BY <1>1, <1>4, <2>2, FrameAt DEF l
<1>6. Head(g.todo).what.size \in Nat
  <2> DEFINE it == Head(g.todo)
             I == Items(g.type)
  <2>1. g.todo \in Seq(I) /\ g.todo # <<>> /\ it.do = "result"
    BY <1>5 DEF Waits, IsFrame
  <2>2. it \in I
    <3> HIDE DEF I
    <3> QED
      BY <2>1, HeadTailProperties
  <2> HIDE DEF it
  <2>3. it.what \in Instructions /\ it.what.kind = "Call"
    BY <2>1, <2>2 DEF Items, IsItem
  <2>4. it.what.size \in Nat
    BY <2>3, Compiled DEF IsInstruction
  <2> QED
    BY <2>4 DEF it
<1> QED
  BY <1>4, <1>5, <1>6 DEF n, l

\* It goes on with that.
LEMMA Returned ==
    ASSUME IInv, Frame.type = "function",
           NEW vs \in Seq(Val(Len(nodes))), Len(vs) = Head(stack[2].todo).what.size,
           NEW f, f = [stack[2] EXCEPT !.vals = Append(@, vs)]
    PROVE  StackOK(<<f>> \o SubSeq(stack, 3, Len(stack)), Len(nodes), program)
<1> DEFINE n == Len(nodes)
           g == stack[2]
           size == Head(g.todo).what.size
           V == Val(n)
<1>1. /\ IsFrame(g, n, program) /\ Waits(g) /\ size \in Nat /\ 2 \in 1..Len(stack)
      /\ 3 \in 2..Len(stack) + 1
  BY Caller
<1>2. PICK S \in Shapes : HasShape(g.vals, S) /\ Chain(g.todo, S \o <<AnyOf(size)>>, <<>>)
  BY <1>1 DEF Waits
<1>3. AnyOf(size) \in Sorts /\ Fit(vs, AnyOf(size))
  BY <1>1 DEF AnyOf, Sorts, Fit
<1>4. g.vals \in Seq(Seq(V))
  BY <1>1 DEF IsFrame
<1>5. <<vs>> \in Seq(Seq(V)) /\ HasShape(<<vs>>, <<AnyOf(size)>>) /\ <<AnyOf(size)>> \in Shapes
  BY <1>3, ShapeOne
<1> HIDE DEF V, size
<1>6. /\ g.vals \o <<vs>> \in Seq(Seq(V))
      /\ HasShape(g.vals \o <<vs>>, S \o <<AnyOf(size)>>) /\ S \o <<AnyOf(size)>> \in Shapes
  BY <1>2, <1>4, <1>5, ShapeConcat, ShapesConcat
<1>7. g.vals \o <<vs>> = Append(g.vals, vs)
  <2>1. vs \in Seq(V)
    BY DEF V
  <2> QED
    BY <1>4, <2>1, AppendIsConcat
<1> HIDE DEF g
<1>8. g = [type |-> g.type, todo |-> g.todo, vals |-> g.vals, vars |-> g.vars,
           comps |-> g.comps, start |-> g.start]
  BY <1>1 DEF IsFrame
<1>9. f = [type |-> g.type, todo |-> g.todo, vals |-> Append(g.vals, vs), vars |-> g.vars,
           comps |-> g.comps, start |-> g.start]
  BY <1>8 DEF g
<1>10. /\ f.type = g.type /\ f.todo = g.todo /\ f.vals = g.vals \o <<vs>> /\ f.vars = g.vars
       /\ f.comps = g.comps /\ f.start = g.start
  <2>1. f.vals = Append(g.vals, vs)
    BY <1>9
  <2>2. f.vals = g.vals \o <<vs>>
    BY <1>7, <2>1
  <2>3. /\ f.type = g.type /\ f.todo = g.todo /\ f.vars = g.vars /\ f.comps = g.comps
        /\ f.start = g.start
    BY <1>9
  <2> QED
    BY <2>2, <2>3
<1>11. IsFrame(f, n, program)
  BY <1>1, <1>6, <1>7, <1>9, <1>10 DEF IsFrame, V
<1>12. Ready(f)
  BY <1>2, <1>6, <1>10 DEF Ready
<1>13. AreFrames(<<f>>, n, program) /\ Len(<<f>>) = 1 /\ <<f>>[1] = f
  BY <1>11, FramesOne
<1>14. Linked(<<f>>)
  <2>1. 1 - 1 = 0 /\ \A k \in 1..0 : FALSE
    OBVIOUS
  <2>2. <<f>> # <<>>
    OBVIOUS
  <2> QED
    BY <1>12, <1>13, <2>1, <2>2 DEF Linked
<1>15. n \in Nat /\ n <= n /\ StackOK(stack, n, program)
  BY Running DEF IInv
<1>16. <<f>>[Len(<<f>>)].type = stack[3 - 1].type
  <2>1. 3 - 1 = 2
    OBVIOUS
  <2> QED
    BY <1>10, <1>13, <2>1 DEF g
<1> HIDE DEF n
<1> QED
  BY <1>1, <1>13, <1>14, <1>15, <1>16, StackReplaced DEF n

\* The caller gets as many values as it waits for.
LEMMA ReturnKeeps == ASSUME IInv, Return PROVE IInv'
<1> DEFINE n == Len(nodes)
           V == Val(n)
           i == Item.what
           size == Head(stack[2].todo).what.size
           at == ToConst(Top(1)[1][1])
           some == [k \in 1..size |-> Read(i.src, at + k - 1)]
           vs == IF ReturnsVariable(i) THEN some ELSE Top(1)[1]
           f == [stack[2] EXCEPT !.vals = Append(@, vs)]
<1>1. /\ Frame.type = "function" /\ Top(1)[1] \in Seq(V) /\ Len(Top(1)[1]) = 1
  BY Finishing DEF Return, DoingA
<1>2. \/ Panics
      \/ /\ ~ReturnsVariable(i) => size = 1
         /\ \A k \in DOMAIN vs : vs[k] # None
         /\ stack' = <<f>> \o SubSeq(stack, 3, Len(stack))
         /\ UNCHANGED <<program, nodes, signals, outputs, pc>>
  BY DEF Return
<1>3. CASE /\ ~ReturnsVariable(i) => size = 1
           /\ \A k \in DOMAIN vs : vs[k] # None
           /\ stack' = <<f>> \o SubSeq(stack, 3, Len(stack))
           /\ UNCHANGED <<program, nodes, signals, outputs, pc>>
  <2>1. size \in Nat
    BY <1>1, Caller
  <2>2. vs \in Seq(V) /\ Len(vs) = size
    <3>1. CASE ReturnsVariable(i)
      <4>1. ASSUME NEW k \in 1..size PROVE some[k] \in V
        <5>1. Read(i.src, at + k - 1) # None
          BY <1>3, <3>1
        <5>2. Read(i.src, at + k - 1) \in V
          BY <5>1, ReadType
        <5> QED
          BY <5>2
      <4>2. some \in [1..size -> V]
        BY <4>1
      <4> HIDE DEF some, size, V
      <4>3. some \in Seq(V) /\ Len(some) = size
        BY <2>1, <4>2
      <4> QED
        BY <3>1, <4>3
    <3>2. CASE ~ReturnsVariable(i)
      BY <1>1, <1>3, <3>2
    <3> QED
      BY <3>1, <3>2
  <2> HIDE DEF vs
  <2>3. StackOK(stack', n, program)
    BY <1>1, <1>3, <2>2, Returned
  <2>4. signals' \in [0..program.signals - 1 -> 0..n] /\ pc' \in {"run", "built", "panic"}
        /\ nodes' = nodes /\ program' = program /\ GraphOK(nodes, program)
    BY <1>3, Running DEF IInv
  <2> QED
    BY <2>3, <2>4, Steps
<1> QED
  BY <1>2, <1>3, PanicKeeps

\* They are stored as a source is, those for a signal as nodes.
LEMMA StoreResultKeeps == ASSUME IInv, StoreResult PROVE IInv'
<1> DEFINE i == Item.what
           n == Len(nodes)
           r == AsNodes(Top(1)[1], nodes)
           I == Items(Frame.type)
<1>1. pc = "run" /\ Frame.todo # <<>> /\ Item.do = "result"
  BY DEF StoreResult, Doing
<1>2. i \in Instructions /\ i.kind = "Call"
  BY <1>1, NextItem DEF IsItem
<1>3. Exact(Item) /\ Need(Item) = <<AnyOf(i.size)>> /\ i.size \in Nat
  BY <1>1, <1>2, Compiled DEF Exact, Need, IsInstruction
<1>4. AnyOf(i.size) \in Sorts
  BY <1>3 DEF AnyOf, Sorts
<1>5. Len(Need(Item)) = 1 /\ Need(Item)[1] = AnyOf(i.size) /\ 1 \in 1..1
  BY <1>3
<1>6. GraphOK(nodes, program) /\ n \in Nat
  BY Running
<1>7. CASE i.addr = "Variable" /\ AddressKnown("function", i)
  <2>1. Expand(CalcAddress("function", i) \o <<Put(i, "source")>>)
    BY <1>7 DEF StoreResult
  <2>2. AddressKnown("template", i)
    BY <1>7 DEF AddressKnown
  <2>3. Stored(i) = AnyOf(i.size)
    BY <1>7 DEF Stored, AnyOf
  <2> DEFINE items == CalcAddress("function", i) \o <<Put(i, "source")>>
  <2>4. items \in Seq(I) /\ Chain(items, <<Stored(i)>>, <<>>)
    BY <1>2, <2>2, AddressThenPut
  <2> HIDE DEF items
  <2>5. Chain(items, Need(Item), <<>>)
    BY <1>3, <2>3, <2>4
  <2>6. Expand(items)
    BY <2>1 DEF items
  <2> QED
    BY <1>1, <1>3, <2>4, <2>5, <2>6, ExactExpandKeeps
<1>8. CASE i.addr = "Subcmp" /\ Frame.type = "template" /\ AddressKnown("template", i)
  <2> DEFINE items == CalcAddress("template", i) \o <<Put(i, "source")>>
             s == Stored(i)
  <2>1. Resume(items, 1, <<r.vals>>) /\ nodes' = r.nodes /\ UNCHANGED signals
    <3>1. i.addr # "Variable"
      BY <1>8
    <3> QED
      BY <1>8, <3>1 DEF StoreResult
  <2>2. Top(1)[1] \in Seq(Val(n)) /\ Fit(Top(1)[1], AnyOf(i.size))
    BY <1>1, <1>5, Operands
  <2>3. Len(Top(1)[1]) = i.size
    BY <2>2 DEF Fit, AnyOf
  <2>4. /\ GraphOK(r.nodes, program) /\ n <= Len(r.nodes)
        /\ r.vals \in Seq(Val(Len(r.nodes))) /\ Len(r.vals) = i.size
        /\ \A j \in 1..i.size : r.vals[j].type = "Node"
    BY <1>6, <2>2, <2>3, AsNodesMake
  <2> HIDE DEF r
  <2>5. Fit(r.vals, s) /\ s \in Sorts
    BY <1>3, <2>4 DEF Fit, Stored, Sorts
  <2>6. items \in Seq(I) /\ Chain(items, <<s>>, <<>>)
    BY <1>2, <1>8, AddressThenPut
  <2> HIDE DEF items, s
  <2> DEFINE V == Val(Len(nodes'))
             vals == r.vals
  <2>7. vals \in Seq(V) /\ GraphOK(nodes', program) /\ Len(nodes) <= Len(nodes')
    BY <2>1, <2>4
  <2> HIDE DEF V
  <2>8. <<vals>> \in Seq(Seq(V)) /\ HasShape(<<vals>>, <<s>>) /\ <<s>> \in Shapes
    BY <2>5, <2>7, ShapeOne
  <2>9. Resume(items, 1, <<vals>>)
    BY <2>1
  <2> HIDE DEF vals
  <2> QED
    BY <1>1, <1>3, <1>5, <2>1, <2>6, <2>7, <2>8, <2>9, ExactResumeKeeps DEF V
<1>9. CASE ~<1>7!1 /\ ~<1>8!1
  BY <1>9, PanicKeeps DEF StoreResult
<1> QED
  BY <1>7, <1>8, <1>9

\* The steps of calls and returns.
LEMMA CallsKeep == IInv /\ Calls => IInv'
BY ExecCallKeeps, EnterFunctionKeeps, ExecReturnKeeps, DropResultKeeps, ReturnKeeps,
   StoreResultKeeps DEF Calls

-----------------------------------------------------------------------------
\* Branches and loops.

\* Two items, one behind the other.
LEMMA TwoItems == \A x, y : <<x>> \o <<y>> = <<x, y>>
<1> SUFFICES ASSUME NEW x, NEW y PROVE <<x>> \o <<y>> = <<x, y>>
  OBVIOUS
<1> DEFINE I == {x, y}
<1>1. x \in I /\ y \in I /\ <<>> \in Seq(I)
  OBVIOUS
<1>2. <<x>> \in Seq(I) /\ <<x, y>> \in Seq(I)
  OBVIOUS
<1> HIDE DEF I
<1>3. (<<>> \o <<x>>) \o <<y>> = <<>> \o <<x, y>>
  BY <1>1, TwoMore
<1>4. <<>> \o <<x>> = <<x>> /\ <<>> \o <<x, y>> = <<x, y>>
  BY <1>2, ConcatEmptySeq
<1> QED
  BY <1>3, <1>4

\* More ones.
LEMMA OnesMore == \A a \in Nat, b \in Nat : Ones(a) \o Ones(b) = Ones(a + b)
<1> SUFFICES ASSUME NEW a \in Nat, NEW b \in Nat PROVE Ones(a) \o Ones(b) = Ones(a + b)
  OBVIOUS
<1> DEFINE s == Ones(a)
           t == Ones(b)
           u == Ones(a + b)
<1>1. /\ s \in Seq(Sorts) /\ Len(s) = a /\ \A j \in 1..a : s[j] = AnyOf(1)
      /\ t \in Seq(Sorts) /\ Len(t) = b /\ \A j \in 1..b : t[j] = AnyOf(1)
  BY OnesType DEF Shapes
<1>2. u \in Seq(Sorts) /\ Len(u) = a + b /\ \A j \in 1..a + b : u[j] = AnyOf(1)
  <2>1. a + b \in Nat
    OBVIOUS
  <2> QED
    BY <2>1, OnesType DEF Shapes
<1> HIDE DEF s, t, u
<1>3. /\ s \o t \in Seq(Sorts) /\ Len(s \o t) = Len(s) + Len(t)
      /\ \A i \in 1..Len(s) + Len(t) : (s \o t)[i] = IF i <= Len(s) THEN s[i] ELSE t[i - Len(s)]
  BY <1>1, ConcatProperties
<1>4. ASSUME NEW i \in 1..a + b PROVE (s \o t)[i] = AnyOf(1)
  <2>1. i <= a => i \in 1..a
    OBVIOUS
  <2>2. ~(i <= a) => i - a \in 1..b
    OBVIOUS
  <2> QED
    BY <1>1, <1>3, <2>1, <2>2
<1> DEFINE v == s \o t
<1>5. v \in Seq(Sorts) /\ Len(v) = a + b /\ \A i \in 1..a + b : v[i] = u[i]
  BY <1>1, <1>2, <1>3, <1>4
<1> HIDE DEF v
<1>6. v = u
  BY <1>2, <1>5, SeqEqual
<1> QED
  BY <1>6 DEF s, t, u, v

\* The instructions that are done one after the other, and what comes behind.
LEMMA BlockThen ==
    ASSUME NEW type, NEW body \in Seq(Instructions), NEW it \in Items(type),
           Need(it) = <<>>, Gives(it) = <<>>
    PROVE  /\ Block(body) \o <<it>> \in Seq(Items(type))
           /\ Chain(Block(body) \o <<it>>, <<>>, <<>>)
<1> DEFINE items == Block(body)
           I == Items(type)
<1>1. items \in Seq(I) /\ Chain(items, <<>>, <<>>)
  BY BlockItems
<1>2. <<>> \in Shapes /\ <<>> \o <<>> = <<>>
  BY ShapesConcat
<1>3. Effect(it, <<>>, <<>>)
  BY <1>2 DEF Effect
<1>4. Chain(<<it>>, <<>>, <<>>)
  BY <1>2, <1>3, ChainOne
<1> HIDE DEF items, I
<1>5. <<it>> \in Seq(I)
  BY DEF I
<1>6. items \o <<it>> \in Seq(I)
  BY <1>1, <1>5, ConcatProperties
<1>7. Chain(items \o <<it>>, <<>>, <<>>)
  BY <1>1, <1>4, <1>5, ChainConcat
<1> QED
  BY <1>6, <1>7 DEF items, I

\* The items that need nothing and leave nothing.
LEMMA OtherItems ==
    ASSUME NEW type
    PROVE  /\ EndBranch \in Items(type) /\ Need(EndBranch) = <<>> /\ Gives(EndBranch) = <<>>
           /\ \A i \in Instructions : i.kind = "Loop" =>
                 /\ Do("repeat", "none", i, 0) \in Items(type)
                 /\ Need(Do("repeat", "none", i, 0)) = <<>>
                 /\ Gives(Do("repeat", "none", i, 0)) = <<>>
<1>1. "repeat" \in Dos /\ "end branch" \in Dos /\ "none" \in Bys /\ 0 \in Nat
  BY DEF Dos, Bys
<1>2. EndBranch \in Items(type) /\ Need(EndBranch) = <<>> /\ Gives(EndBranch) = <<>>
  <2> DEFINE it == EndBranch
  <2>1. it.do = "end branch"
    BY DEF EndBranch, Do
  <2>2. IsItem(type, it)
    BY <2>1 DEF IsItem
  <2>3. it \in Items(type)
    BY <1>1, <2>2, MakeItem DEF EndBranch
  <2> HIDE DEF it
  <2>4. Need(it) = <<>> /\ Gives(it) = <<>>
    BY <2>1 DEF Need, Gives
  <2> QED
    BY <2>3, <2>4 DEF it
<1>3. ASSUME NEW i \in Instructions, i.kind = "Loop"
      PROVE  /\ Do("repeat", "none", i, 0) \in Items(type)
             /\ Need(Do("repeat", "none", i, 0)) = <<>>
             /\ Gives(Do("repeat", "none", i, 0)) = <<>>
  <2> DEFINE it == Do("repeat", "none", i, 0)
  <2>1. it.do = "repeat" /\ it.what = i
    BY DoFields
  <2>2. IsItem(type, it)
    BY <1>3, <2>1 DEF IsItem
  <2>3. it \in Items(type)
    BY <1>1, <2>2, MakeItem
  <2> HIDE DEF it
  <2>4. Need(it) = <<>> /\ Gives(it) = <<>>
    BY <2>1 DEF Need, Gives
  <2> QED
    BY <2>3, <2>4 DEF it
<1> QED
  BY <1>2, <1>3

\* A branch calculates its condition.
LEMMA ExecBranchKeeps == ASSUME IInv, ExecBranch PROVE IInv'
<1> DEFINE i == Item.what
           e == Calc(Frame.type, i.cond, 1)
<1>1. /\ i \in Instructions /\ i.kind = "Branch" /\ Doing("exec")
      /\ IsInstruction(i, Instructions, Expressions)
      /\ Frame.type \in {"template", "function"}
  BY Executing DEF ExecBranch, DoingA
<1>2. i.cond \in Expressions
  BY <1>1 DEF IsInstruction
<1>3. Expand(<<e, Finish(i)>>)
  BY DEF ExecBranch
<1>4. <<e>> \o <<Finish(i)>> = <<e, Finish(i)>>
  BY TwoItems
<1>5. Expand(<<e>> \o <<Finish(i)>>)
  BY <1>3, <1>4
<1> QED
  BY <1>1, <1>2, <1>5, OneThenFinish

\* So does a loop, each time.
LEMMA ExecLoopKeeps == ASSUME IInv, ExecLoop PROVE IInv'
<1> DEFINE i == Item.what
           e == Calc(Frame.type, i.cond, 1)
<1>1. (Doing("exec") \/ Doing("repeat")) /\ i.kind = "Loop"
  BY DEF ExecLoop, DoingA
<1>2. i \in Instructions
  BY <1>1, IsA DEF Doing
<1>3. i.cond \in Expressions /\ Frame.type \in {"template", "function"}
  BY <1>1, <1>2, Compiled, Running DEF IsInstruction, IsFrame
<1>4. Expand(<<e, Finish(i)>>)
  BY DEF ExecLoop
<1>5. <<e>> \o <<Finish(i)>> = <<e, Finish(i)>>
  BY TwoItems
<1>6. Expand(<<e>> \o <<Finish(i)>>)
  BY <1>4, <1>5
<1> QED
  BY <1>1, <1>2, <1>3, <1>6, OneThenFinish

\* A component is created at an index that is calculated.
LEMMA ExecCreateKeeps == ASSUME IInv, ExecCreate PROVE IInv'
<1> DEFINE i == Item.what
           e == Calc("template", i.id, 1)
<1>1. /\ i \in Instructions /\ i.kind = "CreateCmp" /\ Doing("exec")
      /\ IsInstruction(i, Instructions, Expressions)
  BY Executing DEF ExecCreate, DoingA
<1>2. i.id \in Expressions
  BY <1>1 DEF IsInstruction
<1>3. CASE Expand(<<e, Finish(i)>>)
  <2>1. <<e>> \o <<Finish(i)>> = <<e, Finish(i)>>
    BY TwoItems
  <2>2. Expand(<<e>> \o <<Finish(i)>>)
    BY <1>3, <2>1
  <2> QED
    BY <1>1, <1>2, <2>2, OneThenFinish
<1> QED
  BY <1>3, PanicKeeps DEF ExecCreate

\* A condition is taken, and the frame goes on with instructions.
LEMMA TakenKeeps ==
    ASSUME IInv, Doing("finish"), Item.what.kind # "Call",
           NEW items \in Seq(Items(Frame.type)), Chain(items, <<>>, <<>>),
           Resume(items, 1, <<>>), UNCHANGED <<nodes, signals>>
    PROVE  IInv'
<1>1. pc = "run" /\ Frame.todo # <<>> /\ Exact(Item) /\ 1 = Len(Need(Item))
  BY Finishing
<1>2. GraphOK(nodes', program) /\ Len(nodes) <= Len(nodes') /\ UNCHANGED signals
  BY Running
<1> DEFINE V == Val(Len(nodes'))
<1>3. <<>> \in Seq(Seq(V)) /\ HasShape(<<>>, <<>>) /\ <<>> \in Shapes
  BY ShapeOne, ShapesConcat
<1> QED
  BY <1>1, <1>2, <1>3, ExactResumeKeeps

\* A branch on a constant goes on with one of its bodies.
LEMMA BranchKnownKeeps == ASSUME IInv, BranchKnown PROVE IInv'
<1> DEFINE i == Item.what
           body == IF Condition # 0 THEN i.ifs ELSE i.elses
           items == Block(body) \o <<EndBranch>>
<1>1. /\ Doing("finish") /\ i.kind = "Branch"
      /\ IsInstruction(i, Instructions, Expressions)
  BY Finishing DEF BranchKnown, DoingA
<1>2. body \in Seq(Instructions)
  BY <1>1 DEF IsInstruction
<1>3. CASE Resume(items, 1, <<>>) /\ UNCHANGED <<nodes, signals>>
  <2> HIDE DEF body
  <2>1. items \in Seq(Items(Frame.type)) /\ Chain(items, <<>>, <<>>)
    BY <1>2, OtherItems, BlockThen
  <2> HIDE DEF items
  <2> QED
    BY <1>1, <1>3, <2>1, TakenKeeps
<1> QED
  BY <1>3, PanicKeeps DEF BranchKnown

\* A loop goes on with its body and itself, or ends.
LEMMA FinishLoopKeeps == ASSUME IInv, FinishLoop PROVE IInv'
<1> DEFINE i == Item.what
           again == Do("repeat", "none", i, 0)
           items == IF Condition = 0 THEN <<>> ELSE Block(i.body) \o <<again>>
<1>1. /\ Doing("finish") /\ i.kind = "Loop" /\ i \in Instructions
      /\ IsInstruction(i, Instructions, Expressions)
  BY Finishing DEF FinishLoop, DoingA
<1>2. i.body \in Seq(Instructions)
  BY <1>1 DEF IsInstruction
<1>3. CASE Resume(items, 1, <<>>) /\ UNCHANGED <<nodes, signals>>
  <2>1. /\ Block(i.body) \o <<again>> \in Seq(Items(Frame.type))
        /\ Chain(Block(i.body) \o <<again>>, <<>>, <<>>)
    BY <1>1, <1>2, OtherItems, BlockThen
  <2>2. <<>> \in Seq(Items(Frame.type)) /\ Chain(<<>>, <<>>, <<>>)
    BY ShapesConcat, ChainEmpty
  <2> HIDE DEF again
  <2>3. items \in Seq(Items(Frame.type)) /\ Chain(items, <<>>, <<>>)
    BY <2>1, <2>2
  <2> HIDE DEF items
  <2> QED
    BY <1>1, <1>3, <2>3, TakenKeeps
<1> QED
  BY <1>3, PanicKeeps DEF FinishLoop

\* What has nothing to do.
LEMMA NothingKeeps ==
    ASSUME IInv, Frame.todo # <<>>, pc = "run", Exact(Item), Need(Item) = <<>>, Expand(<<>>)
    PROVE  IInv'
<1>1. <<>> \in Seq(Items(Frame.type)) /\ Chain(<<>>, <<>>, <<>>)
  BY ShapesConcat, ChainEmpty
<1> QED
  BY <1>1, ExactExpandKeeps

\* The end of a branch needs nothing.
LEMMA LeaveBranchKeeps == ASSUME IInv, LeaveBranch PROVE IInv'
<1>1. pc = "run" /\ Frame.todo # <<>> /\ Item.do = "end branch" /\ Expand(<<>>)
  BY DEF LeaveBranch, Doing
<1>2. Exact(Item) /\ Need(Item) = <<>>
  BY <1>1 DEF Exact, Need
<1> QED
  BY <1>1, <1>2, NothingKeeps

\* An assertion does nothing.
LEMMA ExecAssertKeeps == ASSUME IInv, ExecAssert PROVE IInv'
<1>1. Doing("exec") /\ Expand(<<>>)
  BY DEF ExecAssert, DoingA
<1> QED
  BY <1>1, Executing, NothingKeeps

\* Four things that are calculated one after the other.
LEMMA FourCalcs ==
    ASSUME NEW type, NEW a \in Seq(Items(type)), NEW b \in Seq(Items(type)),
           NEW c \in Seq(Items(type)), NEW d \in Seq(Items(type)),
           NEW A \in Shapes, NEW B \in Shapes, NEW C \in Shapes, NEW D \in Shapes,
           NEW S \in Shapes,
           \A P \in Shapes : /\ Chain(a, P, P \o A) /\ Chain(b, P, P \o B)
                             /\ Chain(c, P, P \o C) /\ Chain(d, P, P \o D)
    PROVE  /\ a \o b \o c \o d \in Seq(Items(type))
           /\ Chain(a \o b \o c \o d, S, (((S \o A) \o B) \o C) \o D)
<1> DEFINE I == Items(type)
           S1 == S \o A
           S2 == S1 \o B
           S3 == S2 \o C
           ab == a \o b
           abc == ab \o c
<1>1. S1 \in Shapes /\ S2 \in Shapes /\ S3 \in Shapes
  BY ShapesConcat
<1>2. Chain(a, S, S1) /\ Chain(b, S1, S2) /\ Chain(c, S2, S3) /\ Chain(d, S3, S3 \o D)
  BY <1>1
<1> HIDE DEF S1, S2, S3, I
<1>3. ab \in Seq(I) /\ Chain(ab, S, S2)
  BY <1>1, <1>2, ChainConcat, ConcatProperties DEF I
<1> HIDE DEF ab
<1>4. abc \in Seq(I) /\ Chain(abc, S, S3)
  BY <1>1, <1>2, <1>3, ChainConcat, ConcatProperties DEF I
<1> HIDE DEF abc
<1>5. abc \o d \in Seq(I) /\ Chain(abc \o d, S, S3 \o D)
  BY <1>1, <1>2, <1>4, ChainConcat, ConcatProperties DEF I
<1> QED
  BY <1>5 DEF abc, ab, S1, S2, S3, I

\* What chooses between two stores.
LEMMA ChooseItem ==
    ASSUME NEW type, NEW i \in Instructions
    PROVE  LET it == Do("choose", "none", i, 0)
           IN  /\ it \in Items(type) /\ Exact(it) /\ Gives(it) = <<>>
               /\ Need(it) = IF i.ifs[1].addr = "Variable" THEN Ones(5)
                             ELSE Ones(3) \o <<Of("operand", 1), Of("operand", 1)>>
<1> DEFINE it == Do("choose", "none", i, 0)
<1>1. it.do = "choose" /\ it.what = i
  BY DoFields
<1>2. IsItem(type, it)
  BY <1>1 DEF IsItem
<1>3. it \in Items(type)
  <2>1. "choose" \in Dos /\ "none" \in Bys /\ 0 \in Nat
    BY DEF Dos, Bys
  <2> QED
    BY <1>2, <2>1, MakeItem
<1> HIDE DEF it
<1>4. Exact(it) /\ Gives(it) = <<>>
  BY <1>1 DEF Exact, Gives
<1>5. Need(it) = IF i.ifs[1].addr = "Variable" THEN Ones(5)
                 ELSE Ones(3) \o <<Of("operand", 1), Of("operand", 1)>>
  BY <1>1 DEF Need
<1> QED
  BY <1>3, <1>4, <1>5 DEF it

\* A body that can be chosen: its address is one index.
LEMMA ChoosableType ==
    ASSUME IInv, NEW body \in Seq(Instructions), Choosable(body)
    PROVE  /\ body[1] \in Instructions /\ IsAddress(body[1], Expressions)
           /\ body[1].src \in Expressions /\ AddressLen(body[1]) = 1
           /\ body[1].addr = IF Frame.type = "template" THEN "Signal" ELSE "Variable"
<1> DEFINE i == body[1]
<1>1. /\ Len(body) = 1 /\ i.kind = "Store" /\ i.code = Indexed
      /\ i.addr = IF Frame.type = "template" THEN "Signal" ELSE "Variable"
  BY DEF Choosable, StoresSignal, StoresVariable
<1>2. i \in Instructions
  <2>1. 1 \in 1..Len(body)
    BY <1>1
  <2> QED
    BY <2>1, ElementOfSeq
<1>3. IsAddress(i, Expressions) /\ i.src \in Expressions
  BY <1>1, <1>2, Compiled DEF IsInstruction
<1>4. AddressLen(i) = 1
  <2>1. i.addr # "Subcmp"
    BY <1>1
  <2>2. Len(i.cmp) = 0 /\ Len(i.at) = 1
    BY <1>1, <1>3, <2>1 DEF IsAddress
  <2>3. AddressLen(i) = 0 + 1
    BY <2>2 DEF AddressLen
  <2> QED
    BY <2>3
<1> QED
  BY <1>1, <1>2, <1>3, <1>4

\* A branch on an input calculates both of its stores, for the choice to find.
LEMMA BranchUnknownKeeps == ASSUME IInv, BranchUnknown PROVE IInv'
<1> DEFINE i == Item.what
           type == Frame.type
           I == Items(type)
           pIf == CalcAddress(type, i.ifs[1])
           pElse == CalcAddress(type, i.elses[1])
           by == IF type = "template" THEN "operand" ELSE "function"
           sIf == <<Calc(by, i.ifs[1].src, 1)>>
           sElse == <<Calc(by, i.elses[1].src, 1)>>
           one == Ones(1)
           s == <<Of(by, 1)>>
           it == Do("choose", "none", i, 0)
           items == IF type = "template" THEN pIf \o pElse \o sIf \o sElse
                                         ELSE pIf \o sIf \o pElse \o sElse
<1>1. /\ pc = "run" /\ Frame.todo # <<>> /\ i \in Instructions /\ i.kind = "Branch"
      /\ Item.do = "finish" /\ Exact(Item) /\ IsInstruction(i, Instructions, Expressions)
      /\ type \in {"template", "function"}
  BY Finishing DEF BranchUnknown, DoingA
<1>2. \/ Panics
      \/ Choosable(i.ifs) /\ Choosable(i.elses) /\ Expand(items \o <<it>>)
  BY DEF BranchUnknown
<1>3. CASE Choosable(i.ifs) /\ Choosable(i.elses) /\ Expand(items \o <<it>>)
  <2>1. i.ifs \in Seq(Instructions) /\ i.elses \in Seq(Instructions)
    BY <1>1 DEF IsInstruction
  <2>2. /\ IsAddress(i.ifs[1], Expressions) /\ i.ifs[1].src \in Expressions
        /\ AddressLen(i.ifs[1]) = 1
        /\ i.ifs[1].addr = IF type = "template" THEN "Signal" ELSE "Variable"
    BY <1>3, <2>1, ChoosableType
  <2>3. /\ IsAddress(i.elses[1], Expressions) /\ i.elses[1].src \in Expressions
        /\ AddressLen(i.elses[1]) = 1
    BY <1>3, <2>1, ChoosableType
  <2>4. pIf \in Seq(I) /\ \A P \in Shapes : Chain(pIf, P, P \o one)
    BY <2>2, AddressItems
  <2>5. pElse \in Seq(I) /\ \A P \in Shapes : Chain(pElse, P, P \o one)
    BY <2>3, AddressItems
  <2>6. by \in Bys /\ 1 \in Nat
    BY DEF Bys
  <2>7. sIf \in Seq(I) /\ s \in Shapes /\ \A P \in Shapes : Chain(sIf, P, P \o s)
    BY <2>2, <2>6, OneCalc
  <2>8. sElse \in Seq(I) /\ \A P \in Shapes : Chain(sElse, P, P \o s)
    BY <2>3, <2>6, OneCalc
  <2>9. one \in Shapes
    BY OnesOne
  <2>10. Need(Item) = one
    BY <1>1 DEF Need
  <2> DEFINE D == Need(it)
  <2>11. /\ it \in I /\ Exact(it) /\ Gives(it) = <<>>
         /\ D = IF i.ifs[1].addr = "Variable" THEN Ones(5)
                ELSE Ones(3) \o <<Of("operand", 1), Of("operand", 1)>>
    BY <1>1, ChooseItem
  <2>12. one \o one = Ones(2) /\ Ones(2) \o one = Ones(3) /\ Ones(3) \o one = Ones(4)
         /\ Ones(4) \o one = Ones(5)
    <3>1. /\ Ones(1) \o Ones(1) = Ones(1 + 1) /\ Ones(2) \o Ones(1) = Ones(2 + 1)
          /\ Ones(3) \o Ones(1) = Ones(3 + 1) /\ Ones(4) \o Ones(1) = Ones(4 + 1)
      BY OnesMore
    <3>2. 1 + 1 = 2 /\ 2 + 1 = 3 /\ 3 + 1 = 4 /\ 4 + 1 = 5
      OBVIOUS
    <3> QED
      BY <3>1, <3>2
  <2>13. Ones(3) \in Shapes /\ Ones(5) \in Shapes
    BY OnesType
  <2>14. items \in Seq(I) /\ Chain(items, one, D)
    <3>1. CASE type = "template"
      <4> DEFINE o == Of("operand", 1)
      <4>1. s = <<o>> /\ D = Ones(3) \o <<o, o>> /\ o \in Sorts
        <5>1. i.ifs[1].addr # "Variable" /\ by = "operand"
          BY <2>2, <3>1
        <5> QED
          BY <2>11, <5>1 DEF Of, Sorts
      <4> HIDE DEF o
      <4>2. (Ones(3) \o <<o>>) \o <<o>> = Ones(3) \o <<o, o>>
        BY <2>13, <4>1, TwoMore, SMTT(30) DEF Shapes
      <4> HIDE DEF pIf, pElse, sIf, sElse, one, s, I, it
      <4>3. (((one \o one) \o one) \o s) \o s = D
        BY <2>12, <4>1, <4>2
      <4> HIDE DEF D
      <4>4. /\ pIf \o pElse \o sIf \o sElse \in Seq(I)
            /\ Chain(pIf \o pElse \o sIf \o sElse, one, (((one \o one) \o one) \o s) \o s)
        BY <2>4, <2>5, <2>7, <2>8, <2>9, FourCalcs DEF I
      <4> QED
        BY <3>1, <4>3, <4>4
    <3>2. CASE type # "template"
      <4>1. s = one /\ D = Ones(5)
        <5>1. i.ifs[1].addr = "Variable" /\ by # "operand"
          BY <2>2, <3>2
        <5> QED
          BY <2>11, <5>1, OnesOne
      <4> HIDE DEF pIf, pElse, sIf, sElse, one, s, I, it
      <4>2. (((one \o one) \o one) \o one) \o one = D
        BY <2>12, <4>1
      <4> HIDE DEF D
      <4>3. \A P \in Shapes : Chain(sIf, P, P \o one) /\ Chain(sElse, P, P \o one)
        BY <2>7, <2>8, <4>1
      <4>4. /\ pIf \o sIf \o pElse \o sElse \in Seq(I)
            /\ Chain(pIf \o sIf \o pElse \o sElse, one, (((one \o one) \o one) \o one) \o one)
        BY <2>4, <2>5, <2>7, <2>8, <2>9, <4>3, FourCalcs DEF I
      <4> QED
        BY <3>2, <4>2, <4>4
    <3> QED
      BY <3>1, <3>2
  <2>15. D \in Shapes
    BY <2>11, NeedType
  <2>16. <<>> \in Shapes /\ <<>> \o D = D /\ <<>> \o <<>> = <<>>
    BY <2>15, ShapesConcat
  <2> HIDE DEF items, it
  <2>17. D = Need(it)
    OBVIOUS
  <2> HIDE DEF D
  <2>18. Chain(items, one, <<>> \o D)
    BY <2>14, <2>16
  <2> HIDE DEF one
  <2>19. items \o <<it>> \in Seq(I) /\ Chain(items \o <<it>>, one, <<>> \o Gives(it))
    BY <2>9, <2>11, <2>14, <2>15, <2>16, <2>17, <2>18, ThenItem
  <2>20. Chain(items \o <<it>>, Need(Item), <<>>)
    BY <2>10, <2>11, <2>16, <2>19
  <2> QED
    BY <1>1, <1>3, <2>19, <2>20, ExactExpandKeeps
<1> QED
  BY <1>2, <1>3, PanicKeeps

\* A choice needs five values.
LEMMA ChooseNeeds ==
    ASSUME IInv, Doing("choose")
    PROVE  Len(Need(Item)) = 5 /\ \A k \in 1..5 : Need(Item)[k][1] = 1
<1>0. Item.do = "choose"
  BY DEF Doing
<1> DEFINE two == <<Of("operand", 1), Of("operand", 1)>>
<1>1. Need(Item) = Ones(5) \/ Need(Item) = Ones(3) \o two
  BY <1>0 DEF Need
<1>2. 3 \in Nat /\ 5 \in Nat
  OBVIOUS
<1>3. /\ Ones(5) \in Seq(Sorts) /\ Len(Ones(5)) = 5 /\ \A j \in 1..5 : Ones(5)[j] = AnyOf(1)
      /\ Ones(3) \in Seq(Sorts) /\ Len(Ones(3)) = 3 /\ \A j \in 1..3 : Ones(3)[j] = AnyOf(1)
  BY <1>2, OnesType DEF Shapes
<1>4. two \in Seq(Sorts) /\ Len(two) = 2 /\ two[1][1] = 1 /\ two[2][1] = 1
  <2>1. Of("operand", 1) \in Sorts /\ Of("operand", 1)[1] = 1
    BY DEF Of, Sorts
  <2> QED
    BY <2>1
<1> HIDE DEF two
<1>5. /\ Len(Ones(3) \o two) = Len(Ones(3)) + Len(two)
      /\ \A j \in 1..Len(Ones(3)) + Len(two) :
            (Ones(3) \o two)[j] = IF j <= Len(Ones(3)) THEN Ones(3)[j] ELSE two[j - Len(Ones(3))]
  BY <1>3, <1>4, ConcatProperties
<1>6. AnyOf(1)[1] = 1
  BY DEF AnyOf
<1>7. ASSUME NEW k \in 1..5 PROVE (Ones(3) \o two)[k][1] = 1
  <2>1. 3 + 2 = 5 /\ (k <= 3 => k \in 1..3) /\ (~(k <= 3) => k - 3 = 1 \/ k - 3 = 2)
    OBVIOUS
  <2>2. Len(Ones(3)) = 3 /\ Len(two) = 2
    BY <1>3, <1>4
  <2>3. (Ones(3) \o two)[k] = IF k <= 3 THEN Ones(3)[k] ELSE two[k - 3]
    BY <1>5, <2>1, <2>2
  <2>4. k <= 3 => Ones(3)[k][1] = 1
    BY <1>3, <1>6, <2>1
  <2>5. ~(k <= 3) => two[k - 3][1] = 1
    BY <1>4, <2>1
  <2> QED
    BY <2>3, <2>4, <2>5
<1>8. Len(Ones(3) \o two) = 5
  <2>1. Len(Ones(3)) = 3 /\ Len(two) = 2
    BY <1>3, <1>4
  <2> DEFINE l == Len(Ones(3))
             m == Len(two)
             both == Len(Ones(3) \o two)
  <2>2. both = l + m /\ l = 3 /\ m = 2
    <3>1. both = l + m
      BY <1>5
    <3> QED
      BY <2>1, <3>1
  <2> HIDE DEF l, m, both
  <2>3. both = 5
    BY <2>2, SMTT(30)
  <2> QED
    BY <2>3 DEF both
<1> QED
  BY <1>1, <1>3, <1>6, <1>7, <1>8

\* The five values that a choice finds, and the node it makes.
LEMMA ChooseMakes ==
    ASSUME IInv, Doing("choose"),
           NEW vs, vs = [k \in 1..5 |-> Top(5)[k][1]],
           NEW r, r = AsNodes(Chosen(vs), nodes),
           NEW node, node = TresOp("TernCond", r.vals[1].val, r.vals[2].val, r.vals[3].val)
    PROVE  /\ GraphOK(Append(r.nodes, node), program)
           /\ Len(Append(r.nodes, node)) = Len(r.nodes) + 1
           /\ Len(r.nodes) \in Nat /\ Len(nodes) <= Len(r.nodes)
<1> DEFINE V == Val(Len(nodes))
           chosen == Chosen(vs)
<1>1. pc = "run" /\ Frame.todo # <<>> /\ Item.do = "choose"
  BY DEF Doing
<1>2. Len(Need(Item)) = 5 /\ \A k \in 1..5 : Need(Item)[k][1] = 1
  BY ChooseNeeds
<1>3. \A k \in 1..5 : vs[k] \in V
  <2>1. 5 = Len(Need(Item))
    BY <1>2
  <2> QED
    BY <1>1, <1>2, <2>1, Operands
<1>4. chosen \in Seq(V) /\ Len(chosen) = 3
  <2>1. vs[1] \in V /\ vs[3] \in V /\ vs[4] \in V /\ vs[5] \in V
    BY <1>3
  <2> HIDE DEF V
  <2> QED
    BY <2>1, TwoOrThree DEF Chosen
<1>5. GraphOK(nodes, program)
  BY Running, SMTT(30)
<1> HIDE DEF chosen
<1>6. /\ GraphOK(r.nodes, program) /\ Len(nodes) <= Len(r.nodes) /\ Len(r.nodes) \in Nat
      /\ \A k \in 1..3 : r.vals[k].val \in 1..Len(r.nodes)
  BY <1>4, <1>5, AsNodesMake, SMTT(30) DEF chosen
<1>7. node \in Made(Len(r.nodes), program)
  <2>1. 1 \in 1..3 /\ 2 \in 1..3 /\ 3 \in 1..3
    OBVIOUS
  <2> QED
    BY <1>6, <2>1, MakesNodes
<1> QED
  BY <1>6, <1>7, GraphAppend

\* The choice gives a signal or a variable the node that it makes.
LEMMA ChooseKeeps == ASSUME IInv, Choose PROVE IInv'
<1> DEFINE vs == [k \in 1..5 |-> Top(5)[k][1]]
           at == ToConst(vs[2])
           r == AsNodes(Chosen(vs), nodes)
           node == TresOp("TernCond", r.vals[1].val, r.vals[2].val, r.vals[3].val)
           result == Len(r.nodes) + 1
           ns == Append(r.nodes, node)
           f == Resumed(<<>>, 5, <<>>)
           g == [f EXCEPT !.vars[at] = NodeAt(result)]
           m == Len(ns)
<1>1. Doing("choose")
  BY DEF Choose
<1>2. /\ GraphOK(ns, program) /\ m = result /\ m \in Nat /\ Len(nodes) <= m
  <2>1. /\ GraphOK(ns, program) /\ m = Len(r.nodes) + 1
        /\ Len(r.nodes) \in Nat /\ Len(nodes) <= Len(r.nodes)
    BY <1>1, ChooseMakes
  <2>2. Len(nodes) \in Nat
    BY Running
  <2> HIDE DEF r, ns
  <2> QED
    BY <2>1, <2>2
<1>3. \/ Panics
      \/ /\ nodes' = ns /\ UNCHANGED <<program, outputs, pc>>
         /\ \/ /\ signals' = [signals EXCEPT ![Frame.start + at] = result]
               /\ stack' = <<f>> \o Tail(stack)
            \/ stack' = <<g>> \o Tail(stack) /\ UNCHANGED signals
  BY DEF Choose
<1> HIDE DEF r, ns, result
<1>4. Frame.todo # <<>> /\ Exact(Item) /\ Len(Need(Item)) = 5
  <2>1. Frame.todo # <<>> /\ Item.do = "choose"
    BY <1>1 DEF Doing
  <2>2. Exact(Item)
    BY <2>1 DEF Exact
  <2>3. Len(Need(Item)) = 5
    BY <1>1, ChooseNeeds
  <2> QED
    BY <2>1, <2>2, <2>3
<1> HIDE DEF m
<1>5. GoOn(f, m)
  BY <1>2, <1>4, IsDone
<1>6. signals \in [0..program.signals - 1 -> 0..m]
  BY <1>2, SignalsStay
<1> HIDE DEF at
<1>7. CASE /\ nodes' = ns /\ UNCHANGED <<program, outputs, pc>>
           /\ signals' = [signals EXCEPT ![Frame.start + at] = result]
           /\ stack' = <<f>> \o Tail(stack)
  <2> HIDE DEF f
  <2>1. StackOK(stack', m, program)
    BY <1>2, <1>5, <1>7, Replaced DEF GoOn
  <2>2. signals' \in [0..program.signals - 1 -> 0..m]
    <3>1. result \in 0..m
      BY <1>2
    <3> QED
      BY <1>6, <1>7, <3>1
  <2>3. program' = program /\ pc' \in {"run", "built", "panic"} /\ nodes' = ns
    BY <1>7 DEF IInv
  <2> QED
    BY <1>2, <2>1, <2>2, <2>3, Steps DEF m
<1>8. CASE /\ nodes' = ns /\ UNCHANGED <<program, outputs, pc>>
           /\ stack' = <<g>> \o Tail(stack) /\ UNCHANGED signals
  <2> DEFINE others == [f.vars EXCEPT ![at] = NodeAt(result)]
  <2>1. NodeAt(result) \in Var(m)
    <3>1. result \in 1..m
      BY <1>2 DEF result, m
    <3> QED
      BY <3>1 DEF NodeAt, Var, Val
  <2>2. f.vars \in [DOMAIN f.vars -> Var(m)]
    BY <1>5 DEF GoOn, IsFrame
  <2>3. g = [f EXCEPT !.vars = others]
    OBVIOUS
  <2> HIDE DEF f
  <2>4. others \in [DOMAIN others -> Var(m)]
    BY <2>1, <2>2
  <2> HIDE DEF others, g
  <2>5. StillRuns(g, m)
    BY <1>5, <2>3, <2>4, OtherVariables
  <2>6. StackOK(stack', m, program)
    BY <1>2, <1>8, <2>5, Replaced DEF StillRuns
  <2>7. program' = program /\ pc' \in {"run", "built", "panic"} /\ nodes' = ns
        /\ signals' \in [0..program.signals - 1 -> 0..m]
    BY <1>6, <1>8 DEF IInv
  <2> QED
    BY <1>2, <2>6, <2>7, Steps DEF m
<1> QED
  BY <1>3, <1>7, <1>8, PanicKeeps

\* The steps of branches and loops.
LEMMA ControlKeeps == IInv /\ Control => IInv'
BY ExecBranchKeeps, BranchKnownKeeps, BranchUnknownKeeps, ChooseKeeps, ExecLoopKeeps,
   FinishLoopKeeps, LeaveBranchKeeps, SMTT(30) DEF Control

-----------------------------------------------------------------------------
\* Components, and what is left.

\* Components are created, and run at once if they have no inputs.
LEMMA CreateComponentsKeeps == ASSUME IInv, CreateComponents PROVE IInv'
<1> DEFINE i == Item.what
           n == Len(nodes)
           first == ToConst(Top(1)[1][1])
           cs == first..first + i.number - 1
           offset(c) == Frame.start + i.offset + (c - first) * i.jump
           comp(c) == [template |-> i.template, offset |-> offset(c),
                       inputs |-> program.templates[i.template].inputs]
           f == Resumed(<<>>, 1, <<>>)
           comps == [c \in DOMAIN f.comps |-> IF c \in cs THEN comp(c) ELSE f.comps[c]]
           g == [f EXCEPT !.comps = comps]
           some == [k \in 1..i.number |-> TemplateFrame(i.template, offset(first + k - 1))]
           new == IF i.hasInputs THEN <<>> ELSE some
<1>1. /\ Frame.todo # <<>> /\ Exact(Item) /\ 1 = Len(Need(Item))
      /\ i.kind = "CreateCmp" /\ IsInstruction(i, Instructions, Expressions)
  BY Finishing, SMTT(30) DEF CreateComponents, DoingA
<1>2. \/ Panics
      \/ /\ first \in Nat /\ i.template \in DOMAIN program.templates
         /\ stack' = new \o <<g>> \o Tail(stack)
         /\ UNCHANGED <<program, nodes, signals, outputs, pc>>
  BY DEF CreateComponents
<1>3. /\ n \in Nat /\ GraphOK(nodes, program) /\ program \in Programs /\ IsFrame(Frame, n, program)
  BY Running
<1>4. i.number \in Nat /\ i.offset \in Nat /\ i.jump \in Nat /\ Frame.start \in Nat
  BY <1>1, <1>3 DEF IsInstruction, IsFrame
<1>5. CASE /\ first \in Nat /\ i.template \in DOMAIN program.templates
           /\ stack' = new \o <<g>> \o Tail(stack)
           /\ UNCHANGED <<program, nodes, signals, outputs, pc>>
  <2> HIDE DEF first
  <2>1. \A c \in Nat : c >= first => offset(c) \in Nat
    <3> SUFFICES ASSUME NEW c \in Nat, c >= first PROVE offset(c) \in Nat
      BY SMTT(30)
    <3> DEFINE d == c - first
               j == i.jump
    <3>1. d \in Nat /\ j \in Nat
      BY <1>4, <1>5
    <3> HIDE DEF d, j
    <3>2. d * j \in Nat
      BY <3>1
    <3> HIDE DEF i
    <3> QED
      BY <1>4, <3>2 DEF d, j
  <2>2. GoOn(f, n)
    BY <1>1, <1>3, IsDone
  <2>3. \A c \in DOMAIN f.comps : IsComponent(f.comps[c], program)
    BY <2>2 DEF GoOn, IsFrame
  <2>4. \A c \in cs : IsComponent(comp(c), program)
    <3> SUFFICES ASSUME NEW c \in cs PROVE IsComponent(comp(c), program)
      BY SMTT(30)
    <3>1. c \in Nat /\ c >= first
      BY <1>4, <1>5
    <3>2. offset(c) \in Nat
      BY <2>1, <3>1
    <3> HIDE DEF offset, i
    <3> QED
      BY <1>5, <3>2 DEF IsComponent
  <2> HIDE DEF comp
  <2>5. /\ comps = [c \in DOMAIN comps |-> comps[c]]
        /\ \A c \in DOMAIN comps : IsComponent(comps[c], program)
    <3> HIDE DEF cs, f
    <3> QED
      BY <2>3, <2>4
  <2> HIDE DEF comps, f
  <2>6. StillRuns(g, n)
    BY <2>2, <2>5, OtherComponents
  <2> HIDE DEF g
  <2> DEFINE N == IF i.hasInputs THEN 0 ELSE i.number
  <2>7. N \in Nat /\ new = [k \in 1..N |-> new[k]]
    <3>1. CASE i.hasInputs
      <4>1. <<>> = [k \in 1..0 |-> <<>>[k]]
        OBVIOUS
      <4> QED
        BY <3>1, <4>1
    <3>2. CASE ~i.hasInputs
      <4>1. some = [k \in 1..i.number |-> some[k]]
        OBVIOUS
      <4> HIDE DEF some
      <4> QED
        BY <1>4, <3>2, <4>1
    <3> QED
      BY <3>1, <3>2
  <2>8. ASSUME NEW k \in 1..N
        PROVE  /\ IsFrame(new[k], n, program) /\ Ready(new[k]) /\ new[k].type = "template"
    <3>1. ~i.hasInputs /\ k \in 1..i.number
      <4>1. CASE i.hasInputs
        BY <4>1
      <4>2. CASE ~i.hasInputs
        BY <4>2
      <4> QED
        BY <4>1, <4>2
    <3> DEFINE c == first + k - 1
    <3>2. c \in Nat /\ c >= first
      BY <1>4, <1>5, <3>1
    <3>3. offset(c) \in Nat
      BY <2>1, <3>2
    <3>4. new[k] = TemplateFrame(i.template, offset(c))
      BY <3>1
    <3> HIDE DEF offset, c, new
    <3> QED
      BY <1>3, <1>5, <3>3, <3>4, TemplateStarts
  <2>9. stack' = (new \o <<g>>) \o Tail(stack)
    BY <1>5
  <2> HIDE DEF new, N
  <2>10. StackOK(stack', n, program)
    BY <2>6, <2>7, <2>8, <2>9, TemplatesCalled DEF StillRuns
  <2>11. signals' \in [0..program.signals - 1 -> 0..n] /\ pc' \in {"run", "built", "panic"}
         /\ nodes' = nodes /\ program' = program
    BY <1>5 DEF IInv
  <2> QED
    BY <1>3, <2>10, <2>11, Steps
<1> QED
  BY <1>2, <1>5, PanicKeeps

\* The frame below a template's is not waiting for it.
LEMMA LeaveTemplateKeeps == ASSUME IInv, LeaveTemplate PROVE IInv'
<1> DEFINE n == Len(nodes)
           l == Len(stack)
           rest == SubSeq(stack, 2, l)
<1>1. /\ AreFrames(stack, n, program) /\ l \in Nat /\ GraphOK(nodes, program)
      /\ Frame = stack[1] /\ Tail(stack) = rest /\ StackOK(stack, n, program)
  BY Running DEF IInv
<1>2. /\ Frame.type = "template" /\ l > 1 /\ stack' = Tail(stack)
      /\ UNCHANGED <<program, nodes, signals, outputs, pc>>
  BY DEF LeaveTemplate
<1>3. 2 \in 2..l + 1 /\ l + 1 - 2 = l - 1 /\ \A k : 2 - 1 + k = 1 + k
  BY <1>1, <1>2
<1>4. AreFrames(rest, n, program) /\ Len(rest) = l - 1
      /\ \A k \in 1..l - 1 : rest[k] = stack[1 + k]
  <2>1. /\ AreFrames(SubSeq(stack, 2, Len(stack)), n, program)
        /\ Len(SubSeq(stack, 2, Len(stack))) = Len(stack) + 1 - 2
        /\ \A k \in 1..Len(stack) + 1 - 2 : SubSeq(stack, 2, Len(stack))[k] = stack[2 - 1 + k]
    BY <1>1, <1>3, FrameAt
  <2> QED
    BY <1>3, <2>1
<1>5. /\ \A k \in 1..l - 1 : Follows(stack[k], stack[k + 1])
      /\ stack[l].type = "template"
  BY <1>1 DEF StackOK, Linked
<1> HIDE DEF rest, l, n
<1>6. rest # <<>>
  <2>1. Len(rest) # 0
    BY <1>1, <1>2, <1>4
  <2> QED
    BY <2>1, EmptySeq
<1>7. Ready(rest[1])
  <2>1. 1 \in 1..l - 1
    BY <1>1, <1>2
  <2>2. Follows(stack[1], stack[1 + 1]) /\ rest[1] = stack[1 + 1]
    BY <1>4, <1>5, <2>1
  <2> QED
    BY <1>1, <1>2, <2>2 DEF Follows
<1>8. ASSUME NEW k \in 1..Len(rest) - 1 PROVE Follows(rest[k], rest[k + 1])
  <2>1. k \in 1..l - 1 /\ k + 1 \in 1..l - 1 /\ k + 1 = 1 + k
    BY <1>1, <1>4
  <2>2. rest[k] = stack[k + 1] /\ rest[k + 1] = stack[(k + 1) + 1]
    <3>1. rest[k] = stack[1 + k] /\ rest[k + 1] = stack[1 + (k + 1)]
      BY <1>4, <2>1
    <3>2. 1 + k = k + 1 /\ 1 + (k + 1) = (k + 1) + 1
      OBVIOUS
    <3> QED
      BY <3>1, <3>2
  <2> QED
    BY <1>5, <2>1, <2>2
<1>9. rest[Len(rest)].type = "template"
  <2>1. l - 1 \in 1..l - 1 /\ 1 + (l - 1) = l
    BY <1>1, <1>2
  <2> QED
    BY <1>4, <1>5, <2>1
<1>10. StackOK(stack', n, program)
  BY <1>1, <1>2, <1>4, <1>6, <1>7, <1>8, <1>9 DEF StackOK, Linked
<1>11. signals' \in [0..program.signals - 1 -> 0..n] /\ pc' \in {"run", "built", "panic"}
       /\ nodes' = nodes /\ program' = program
  BY <1>2 DEF IInv, n
<1> QED
  BY <1>1, <1>10, <1>11, Steps DEF n

\* The end of the main template changes no more than the outputs.
LEMMA LeaveMainKeeps == ASSUME IInv, LeaveMain PROVE IInv'
BY DEF IInv, LeaveMain

\* The steps of components, and what is left.
LEMMA ComponentsKeep == IInv /\ Components => IInv'
BY ExecCreateKeeps, CreateComponentsKeeps, ExecAssertKeeps, LeaveTemplateKeeps,
   LeaveMainKeeps, PanicKeeps DEF Components, ExecOther, LeaveFunction

-----------------------------------------------------------------------------
\* The beginning.

\* The signals that are inputs are numbers.
LEMMA InputSignalsType ==
    ASSUME NEW p \in Programs
    PROVE  InputSignals(p) \in Seq(Nat) /\ Len(InputSignals(p)) \in Nat
<1> DEFINE some(k) == [e \in 1..p.inputs[k].len |-> p.inputs[k].at + e - 1]
           lists == [k \in DOMAIN p.inputs |-> some(k)]
<1>1. p.inputs \in Seq([at : Nat, len : Nat])
  BY Compiled DEF IsProgram
<1>2. DOMAIN p.inputs = 1..Len(p.inputs) /\ Len(p.inputs) \in Nat
      /\ \A k \in 1..Len(p.inputs) : p.inputs[k].at \in Nat /\ p.inputs[k].len \in Nat
  <2>1. DOMAIN p.inputs = 1..Len(p.inputs) /\ Len(p.inputs) \in Nat
    BY <1>1, LenProperties
  <2>2. \A k \in 1..Len(p.inputs) : p.inputs[k] \in [at : Nat, len : Nat]
    BY <1>1, ElementOfSeq
  <2> QED
    BY <2>1, <2>2
<1>3. ASSUME NEW k \in 1..Len(p.inputs) PROVE some(k) \in Seq(Nat)
  <2> DEFINE len == p.inputs[k].len
             at == p.inputs[k].at
  <2>1. len \in Nat /\ at \in Nat
    BY <1>2
  <2> HIDE DEF len, at
  <2>2. [e \in 1..len |-> at + e - 1] \in [1..len -> Nat]
    BY <2>1
  <2>3. [e \in 1..len |-> at + e - 1] \in Seq(Nat)
    BY <2>1, <2>2
  <2> QED
    BY <2>3 DEF len, at
<1> HIDE DEF some
<1>4. lists \in [1..Len(p.inputs) -> Seq(Nat)]
  BY <1>2, <1>3
<1>5. lists \in Seq(Seq(Nat))
  BY <1>2, <1>4
<1>6. InputSignals(p) = FlattenSeq(lists)
  BY DEF InputSignals, some
<1> HIDE DEF lists
<1> QED
  BY <1>5, <1>6, FlattenType

\* The first nodes are constants and inputs.
LEMMA StartNodesType ==
    ASSUME NEW p \in Programs
    PROVE  /\ GraphOK(StartNodes(p), p)
           /\ Len(StartNodes(p)) = Len(p.constants) + (Len(InputSignals(p)) + 1)
           /\ Len(p.constants) \in Nat
<1> DEFINE C == Len(p.constants)
           I == Len(InputSignals(p)) + 1
           consts == [k \in DOMAIN p.constants |-> Constant(p.constants[k])]
           ins == [k \in 1..I |-> InputNode(k - 1)]
<1>1. p.constants \in Seq(Words)
  BY Compiled DEF IsProgram
<1>2. C \in Nat /\ DOMAIN p.constants = 1..C /\ \A k \in 1..C : p.constants[k] \in Words
  BY <1>1, LenProperties, ElementOfSeq
<1>3. I \in Nat
  BY InputSignalsType
<1> HIDE DEF I, C
<1>4. GraphOK(<<>>, p) /\ Len(<<>>) = 0
  BY DEF GraphOK
<1>5. consts = [k \in 1..C |-> consts[k]] /\ \A k \in 1..C : consts[k] = Constant(p.constants[k])
  BY <1>2
<1> HIDE DEF consts
<1>6. ASSUME NEW j \in 1..C PROVE consts[j] \in Made(Len(<<>>) + j - 1, p)
  BY <1>2, <1>5 DEF Made
<1>7. GraphOK(<<>> \o consts, p) /\ Len(<<>> \o consts) = Len(<<>>) + C
  <2> DEFINE none == <<>>
  <2>1. GraphOK(none, p) /\ \A j \in 1..C : consts[j] \in Made(Len(none) + j - 1, p)
    BY <1>4, <1>6
  <2> HIDE DEF none, GraphOK
  <2>2. GraphOK(none \o consts, p) /\ Len(none \o consts) = Len(none) + C
    BY <1>2, <1>5, <2>1, GraphConcat
  <2> QED
    BY <2>2 DEF none
<1>8. <<>> \o consts = consts
  <2>1. consts \in [1..C -> {consts[k] : k \in 1..C}]
    BY <1>5
  <2>2. consts \in Seq({consts[k] : k \in 1..C})
    BY <1>2, <2>1, SMTT(30)
  <2> QED
    BY <2>2, ConcatEmptySeq
<1>9. GraphOK(consts, p) /\ Len(consts) = C
  BY <1>2, <1>4, <1>7, <1>8
<1>10. ins = [k \in 1..I |-> ins[k]] /\ \A k \in 1..I : ins[k] = InputNode(k - 1)
  OBVIOUS
<1> HIDE DEF ins
<1>11. ASSUME NEW j \in 1..I PROVE ins[j] \in Made(Len(consts) + j - 1, p)
  <2>1. j - 1 \in Nat /\ j - 1 <= Len(InputSignals(p))
    BY <1>3, InputSignalsType DEF I
  <2> QED
    BY <1>10, <2>1 DEF Made
<1>12. GraphOK(consts \o ins, p) /\ Len(consts \o ins) = Len(consts) + I
  BY <1>3, <1>9, <1>10, <1>11, GraphConcat
<1>13. StartNodes(p) = consts \o ins
  BY DEF StartNodes, consts, ins, I
<1> QED
  BY <1>2, <1>9, <1>12, <1>13 DEF C, I

\* The signals that are inputs have the nodes of those.
LEMMA StartSignalsType ==
    ASSUME NEW p \in Programs
    PROVE  StartSignals(p) \in [0..p.signals - 1 -> 0..Len(StartNodes(p))]
<1> DEFINE C == Len(p.constants)
           in == InputSignals(p)
           ins == <<0>> \o in
<1>1. in \in Seq(Nat) /\ Len(in) \in Nat
  BY InputSignalsType
<1>2. C \in Nat /\ Len(StartNodes(p)) = C + (Len(in) + 1)
  BY StartNodesType
<1> HIDE DEF C, in
<1>3. ins \in Seq(Nat) /\ Len(ins) = 1 + Len(in)
  <2>1. <<0>> \in Seq(Nat) /\ Len(<<0>>) = 1
    OBVIOUS
  <2>2. <<0>> \o in \in Seq(Nat) /\ Len(<<0>> \o in) = Len(<<0>>) + Len(in)
    BY <1>1, <2>1, ConcatProperties
  <2> QED
    BY <2>1, <2>2
<1> HIDE DEF ins
<1>4. DOMAIN ins = 1..1 + Len(in)
  BY <1>3, LenProperties
<1>5. ASSUME NEW s \in Range(ins)
      PROVE  C + (CHOOSE k \in DOMAIN ins : ins[k] = s) \in 0..Len(StartNodes(p))
  <2> DEFINE k == CHOOSE k \in DOMAIN ins : ins[k] = s
  <2>1. \E j \in DOMAIN ins : ins[j] = s
    BY DEF Range
  <2>2. k \in DOMAIN ins
    BY <2>1
  <2> HIDE DEF k
  <2>3. C + k \in 0..Len(StartNodes(p))
    BY <1>1, <1>2, <1>4, <2>2
  <2> QED
    BY <2>3 DEF k
<1>6. Unset \in 0..Len(StartNodes(p))
  BY <1>1, <1>2 DEF Unset
<1>7. StartSignals(p) = [s \in 0..p.signals - 1 |->
          IF s \in Range(ins) THEN C + (CHOOSE k \in DOMAIN ins : ins[k] = s) ELSE Unset]
  BY DEF StartSignals, C, ins, in
<1> QED
  BY <1>5, <1>6, <1>7

\* The invariant holds at first.
LEMMA InitKeeps == Init => IInv
<1> SUFFICES ASSUME Init PROVE IInv
  OBVIOUS
<1> DEFINE f == TemplateFrame(program.main, 1)
           n == Len(nodes)
<1>1. /\ program \in Programs /\ nodes = StartNodes(program)
      /\ signals = StartSignals(program) /\ stack = <<f>> /\ pc = "run"
  BY DEF Init
<1>2. GraphOK(nodes, program) /\ n \in Nat
  BY <1>1, StartNodesType, MadeGraph
<1>3. signals \in [0..program.signals - 1 -> 0..n]
  BY <1>1, StartSignalsType
<1>4. program.main \in DOMAIN program.templates
  BY <1>1, Compiled DEF IsProgram
<1>5. IsFrame(f, n, program) /\ Ready(f) /\ f.type = "template"
  <2>1. 1 \in Nat
    OBVIOUS
  <2> QED
    BY <1>1, <1>2, <1>4, <2>1, TemplateStarts
<1> HIDE DEF f
<1>6. AreFrames(<<f>>, n, program) /\ Len(<<f>>) = 1 /\ <<f>>[1] = f
  BY <1>5, FramesOne
<1>7. Linked(<<f>>)
  <2>1. 1 - 1 = 0 /\ \A k \in 1..0 : FALSE
    OBVIOUS
  <2>2. <<f>> # <<>>
    OBVIOUS
  <2> QED
    BY <1>5, <1>6, <2>1, <2>2 DEF Linked
<1>8. StackOK(stack, n, program)
  BY <1>1, <1>5, <1>6, <1>7 DEF StackOK
<1> QED
  BY <1>1, <1>2, <1>3, <1>8 DEF IInv

-----------------------------------------------------------------------------
\* The invariant is inductive, and what follows from it.

\* Every step keeps it.
LEMMA NextKeeps == IInv /\ [Next]_vars => IInv'
<1> SUFFICES ASSUME IInv, [Next]_vars PROVE IInv'
  OBVIOUS
<1>1. CASE UNCHANGED vars
  BY <1>1 DEF vars, IInv
<1>2. CASE Next
  BY <1>2, ExpressionKeeps, StoreKeeps, CallsKeep, ControlKeeps, ComponentsKeep DEF Next
<1> QED
  BY <1>1, <1>2

\* So it holds always.
LEMMA Invariance == Spec => []IInv
  BY InitKeeps, NextKeeps, PTL DEF Spec

\* It says more than the type invariant, and that references point backwards.
LEMMA ImpliesType == IInv => TypeOK /\ NodesReferBack
<1> SUFFICES ASSUME IInv PROVE TypeOK /\ NodesReferBack
  OBVIOUS
<1> DEFINE n == Len(nodes)
<1>1. /\ IsGraph(nodes) /\ BackRefs(nodes) /\ n \in Nat /\ DOMAIN nodes = 1..n
      /\ pc \in {"run", "built", "panic"}
      /\ signals \in [0..program.signals - 1 -> 0..n]
      /\ AreFrames(stack, n, program) /\ stack # <<>>
  BY MadeGraph DEF IInv, StackOK, Linked
<1>2. \A s \in DOMAIN signals : signals[s] \in DOMAIN nodes \cup {Unset}
  BY <1>1 DEF Unset
<1>3. \A v \in Var(n) : Reference(v)
  BY <1>1 DEF Var, Val, Reference, None
<1>4. ASSUME NEW f \in Range(stack)
      PROVE  /\ \A v \in DOMAIN f.vars : Reference(f.vars[v])
             /\ \A vs \in Range(f.vals) : \A v \in Range(vs) : Reference(v)
  <2> DEFINE V == Val(n)
  <2>1. f.vars \in [DOMAIN f.vars -> Var(n)] /\ f.vals \in Seq(Seq(V))
    BY <1>1 DEF AreFrames, IsFrame
  <2>2. \A v \in DOMAIN f.vars : Reference(f.vars[v])
    BY <1>3, <2>1
  <2>3. \A v \in V : Reference(v)
    BY <1>3 DEF Var
  <2> HIDE DEF V
  <2>4. ASSUME NEW vs \in Range(f.vals) PROVE \A v \in Range(vs) : Reference(v)
    <3>1. vs \in Seq(V)
      BY <2>1, RangeOfSeq
    <3>2. Range(vs) \subseteq V
      BY <3>1, RangeOfSeq
    <3> QED
      BY <2>3, <3>2
  <2> QED
    BY <2>2, <2>4
<1> QED
  BY <1>1, <1>2, <1>4 DEF TypeOK, NodesReferBack

\* Whatever the program and however far it has been run: the graph is one, the
\* signals, variables and values refer to nodes of it.
THEOREM TypeCorrect == Spec => []TypeOK
  BY Invariance, ImpliesType, PTL

\* The operands of a node come before it, whatever part has been run.
THEOREM ReferencesPointBack == Spec => []NodesReferBack
  BY Invariance, ImpliesType, PTL
=============================================================================
