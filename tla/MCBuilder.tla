------------------------------ MODULE MCBuilder ------------------------------
(***************************************************************************)
(* Families of compiled programs.  The main template has one output, two   *)
(* inputs and one signal between, then the signals of its components.      *)
(***************************************************************************)
EXTENDS CircuitSemantics

\* Expressions.  Constants are 0, 1, 2, 3, at these places in the table.
Num(n) == [kind |-> "Value", as |-> "BigInt", val |-> n]
U32(n) == [kind |-> "Value", as |-> "U32", val |-> n]
Duo(op, a, b) == [kind |-> "Compute", op |-> op, args |-> <<a, b>>]
Uno(op, a) == [kind |-> "Compute", op |-> op, args |-> <<a>>]
Addr(addr, cmp, code, at) == [addr |-> addr, cmp |-> cmp, code |-> code, at |-> at]
Load(a) == [kind |-> "Load"] @@ a
SigAt(e) == Addr("Signal", <<>>, Indexed, <<e>>)
VarAt(e) == Addr("Variable", <<>>, Indexed, <<e>>)
CmpAt(c, e) == Addr("Subcmp", <<U32(c)>>, Indexed, <<e>>)
CmpMapped(c, code, at) == Addr("Subcmp", <<U32(c)>>, code, at)
Sig(n) == Load(SigAt(U32(n)))
Var(n) == Load(VarAt(U32(n)))
Cmp(c, n) == Load(CmpAt(c, U32(n)))

\* Instructions.
Stores(a, src, size) == [kind |-> "Store", src |-> src, size |-> size, status |-> "Unknown"] @@ a
SetSig(n, e) == Stores(SigAt(U32(n)), e, 1)
SetVar(n, e) == Stores(VarAt(U32(n)), e, 1)
SetCmp(c, n, e, status) == [Stores(CmpAt(c, U32(n)), e, 1) EXCEPT !.status = status]
CallTo(a, fn, args, sizes, size) ==
    [kind |-> "Call", fn |-> fn, args |-> args, sizes |-> sizes, arena |-> 4,
     size |-> size, status |-> "Unknown"] @@ a
If(cond, ifs, elses) == [kind |-> "Branch", cond |-> cond, ifs |-> ifs, elses |-> elses]
While(cond, body) == [kind |-> "Loop", cond |-> cond, body |-> body]
Returns(e) == [kind |-> "Return", src |-> e, size |-> 1]
Create(id, t, number, offset, hasInputs) ==
    [kind |-> "CreateCmp", id |-> U32(id), template |-> t, number |-> number,
     offset |-> offset, jump |-> 3, hasInputs |-> hasInputs]
Asserts == [kind |-> "Assert"]
Logs == [kind |-> "Log"]

OutSig == 0
InA == 1
InB == 2
MidSig == 3

\* The components: of two inputs, of an array of two, of none, and of two
\* inputs with a component of its own.
Product == [body |-> <<SetSig(0, Duo("Mul", Sig(1), Sig(2)))>>,
            vars |-> 0, comps |-> 0, inputs |-> 2, outs |-> 1]
Difference == [body |-> <<SetVar(0, U32(1)),
                          SetSig(0, Duo("Sub", Load(SigAt(Duo("AddAddress", Uno("ToAddress", Num(0)), Var(0)))),
                                        Load(SigAt(Duo("AddAddress", Var(0), U32(1))))))>>,
               vars |-> 1, comps |-> 0, inputs |-> 2, outs |-> 1]
Three == [body |-> <<SetSig(0, Num(3))>>, vars |-> 0, comps |-> 0, inputs |-> 0, outs |-> 1]
Nested == [body |-> <<Create(0, 1, 1, 3, TRUE),
                      Stores(CmpAt(0, U32(1)), Sig(1), 2), SetSig(0, Uno("PrefixSub", Cmp(0, 0)))>>,
           vars |-> 0, comps |-> 1, inputs |-> 2, outs |-> 1]

Program(body, fns) ==
    [constants |-> <<0, 1, 2, 3>>, inputs |-> <<[at |-> 2, len |-> 2]>>, signals |-> 11,
     templates |-> <<Product, Difference, Three, Nested,
                     [body |-> body, vars |-> 4, comps |-> 2, inputs |-> 2, outs |-> 1]>>,
     functions |-> fns, main |-> 5,
     io |-> [t \in 1..2 |-> [c \in 0..1 |-> c]],
     witness |-> <<0, 1, 2, 3>>]
NoFunctions == [none |-> <<>>]

-----------------------------------------------------------------------------
\* Variables, branches and loops: a variable gets a value, something happens
\* to it, and it becomes the output.
Firsts == {Num(2), Sig(InA), Duo("Sub", Sig(InA), Num(1)), U32(2), Duo("Lt", U32(1), U32(2))}
Counting(n, body) ==
    <<SetVar(1, Num(0)),
      While(Duo("Neq", Var(1), n), Append(body, SetVar(1, Duo("Add", Var(1), Num(1)))))>>
Middles ==
    {<<Asserts>>,
     Counting(Num(2), <<SetVar(0, Duo("Mul", Var(0), Num(2)))>>),
     Counting(Num(3), <<If(Duo("Eq", Var(1), Num(1)),
                           <<SetVar(0, Duo("Add", Var(0), Sig(InB)))>>, <<>>)>>),
     Counting(Num(2), <<Stores(VarAt(Duo("AddAddress", Uno("ToAddress", Var(1)), U32(2))),
                               Sig(InB), 1)>>)
         \o <<SetVar(0, Duo("Mul", Var(2), Var(3)))>>,
     Counting(Sig(InA), <<SetVar(0, Num(1))>>),
     <<If(Var(0), <<SetVar(0, Uno("PrefixSub", Var(0)))>>, <<SetVar(0, Num(3))>>)>>,
     <<If(Sig(InB), <<SetVar(0, Num(1))>>, <<SetVar(0, Num(3))>>)>>}
Lasts ==
    {<<SetSig(OutSig, Var(0))>>,
     <<SetSig(MidSig, Duo("Add", Var(0), Sig(InA))), SetSig(OutSig, Duo("Mul", Sig(MidSig), Sig(MidSig)))>>,
     <<If(Duo("Lt", Sig(InA), Sig(InB)), <<SetSig(OutSig, Var(0))>>, <<SetSig(OutSig, Sig(InB))>>)>>,
     <<If(Duo("Eq", Sig(InA), Var(0)), <<SetSig(OutSig, Num(2))>>, <<SetSig(MidSig, Sig(InB))>>)>>,
     <<SetSig(OutSig, Var(0)), If(Sig(InA), <<SetSig(OutSig, Num(2))>>, <<SetSig(OutSig, Sig(InB))>>)>>,
     <<SetSig(OutSig, Duo("Lor", Var(0), Sig(InA)))>>,
     <<Logs, SetSig(OutSig, Var(0))>>,
     <<SetSig(MidSig, Var(0))>>}
Straight == {Program(<<SetVar(0, f)>> \o m \o l, NoFunctions) :
                f \in Firsts, m \in Middles, l \in Lasts}

-----------------------------------------------------------------------------
\* Components: how they are created, in which order and portions their inputs
\* are stored, and what the compiler says of each store.
Feeds ==
    {<<SetCmp(0, 1, Sig(InA), s[1]), SetCmp(0, 2, Duo("Add", Sig(InB), Num(1)), s[2])>> :
        s \in {<<"Unknown", "Unknown">>, <<"NoLast", "Last">>}}
    \cup {<<SetCmp(0, 2, Num(2), "NoLast"), SetCmp(0, 1, Sig(InB), "Last")>>,
          <<Stores(CmpAt(0, U32(1)), Sig(InA), 2)>>,
          <<SetCmp(0, 1, Sig(InA), "Unknown")>>,
          <<SetCmp(0, 1, Sig(InA), "Unknown"), SetCmp(0, 1, Sig(InB), "Unknown")>>}
MappedFeed == <<Stores(CmpMapped(0, 1, <<>>), Sig(InA), 1),
                Stores(CmpMapped(0, 1, <<U32(1)>>), Sig(InB), 1)>>
Seconds == {<<SetCmp(1, 1, Cmp(0, 0), "NoLast"), SetCmp(1, 2, Sig(InA), "Last")>>,
            <<SetVar(0, Num(1)),
              While(Duo("Neq", Var(0), Num(3)),
                    <<Stores(CmpAt(1, Uno("ToAddress", Var(0))), Var(0), 1),
                      SetVar(0, Duo("Add", Var(0), Num(1)))>>)>>}
ReadsOne == {<<SetSig(OutSig, Cmp(0, 0))>>, <<SetSig(OutSig, Sig(InB))>>}
ReadsTwo == {<<SetVar(1, Cmp(1, 0)),
               SetSig(OutSig, Duo("Add", Var(1), Load(CmpMapped(0, 0, <<>>))))>>}
Single == {<<Create(0, 1, 1, 4, TRUE)>>, <<Create(0, 4, 1, 4, TRUE)>>,
           <<Create(0, 2, 1, 4, TRUE), Create(1, 3, 1, 7, FALSE)>>}
Double == {<<Create(0, 1, 2, 4, TRUE)>>,
           <<Create(0, 1, 1, 4, TRUE), Create(1, 2, 1, 7, TRUE)>>,
           <<Create(1, 2, 1, 7, TRUE), Create(0, 2, 1, 4, TRUE)>>}
MainBodies == {c \o f \o r : c \in Single, f \in Feeds, r \in ReadsOne}
           \cup {c \o f \o s \o r : c \in Double, f \in Feeds \cup {MappedFeed},
                                    s \in Seconds, r \in ReadsOne \cup ReadsTwo}
           \cup {<<Create(0, 3, 2, 4, FALSE), SetSig(OutSig, Duo("Mul", Cmp(0, 0), Cmp(1, 0)))>>}
Composed == {Program(body, NoFunctions) : body \in MainBodies}

-----------------------------------------------------------------------------
\* Functions of one or two arguments, called with constants and inputs; the
\* result goes to a variable or to a component.
Bodies ==
    {<<Returns(Duo("Add", Var(0), Num(1)))>>,
     <<Returns(Num(2))>>,
     <<If(Duo("Geq", Var(0), Num(2)), <<Returns(Num(2))>>, <<Returns(Var(0))>>)>>,
     <<If(Var(0), <<SetVar(1, Num(3))>>, <<SetVar(1, Uno("PrefixSub", Var(0)))>>), Returns(Var(1))>>,
     <<If(Var(0), <<SetVar(1, Num(3))>>, <<SetVar(2, Num(1))>>), Returns(Var(1))>>,
     <<SetVar(1, Num(0)), SetVar(2, Num(1)),
       While(Duo("Lt", Var(1), Num(2)),
             <<SetVar(2, Duo("Mul", Var(2), Var(0))), SetVar(1, Duo("Add", Var(1), Num(1)))>>),
       Returns(Var(2))>>,
     <<Stores(VarAt(U32(1)), Num(1), 2), CallTo(VarAt(U32(3)), "g", <<Load(VarAt(U32(0))), Var(1)>>, <<1, 1>>, 1),
       Returns(Duo("Mul", Var(3), Var(2)))>>,
     <<SetVar(1, Num(0)), While(Var(0), <<SetVar(0, Num(0))>>), Asserts, Returns(Load(VarAt(Var(1))))>>,
     <<If(Duo("Eq", Var(0), Num(1)), <<Returns(Num(2))>>, <<>>)>>,
     <<SetVar(1, Num(0)),
       While(Duo("Lt", Var(1), Num(2)),
             <<If(Duo("Eq", Var(1), Num(1)), <<Returns(Var(0))>>, <<>>),
               SetVar(1, Duo("Add", Var(1), Num(1)))>>),
       Returns(Var(0))>>,
     <<CallTo(SigAt(U32(OutSig)), "g", <<Var(0), Var(0)>>, <<1, 1>>, 1), Returns(Var(0))>>}
G == <<If(Duo("Lt", Var(0), Var(1)), <<SetVar(2, Var(0))>>, <<SetVar(2, Var(1))>>), Returns(Var(2))>>
Results == {<<CallTo(VarAt(U32(0)), "f", <<a>>, <<1>>, 1), SetSig(OutSig, Var(0))>> :
                a \in {Num(0), Num(2), Sig(InA), Duo("Mul", Sig(InA), Sig(InB)), U32(1)}}
           \cup {<<Create(0, 1, 1, 4, TRUE), SetCmp(0, 1, Sig(InB), "Unknown"),
                   CallTo(CmpAt(0, U32(2)), "f", <<a>>, <<1>>, 1), SetSig(OutSig, Cmp(0, 0))>> :
                a \in {Num(1), Sig(InA), U32(2)}}
           \cup {<<CallTo(VarAt(U32(0)), "f", <<Load(SigAt(U32(InA)))>>, <<2>>, 1), SetSig(OutSig, Var(0))>>,
                 <<CallTo(SigAt(U32(OutSig)), "f", <<Num(1)>>, <<1>>, 1)>>}
Called == {Program(r, ("f" :> b) @@ ("g" :> G)) : b \in Bodies, r \in Results}

-----------------------------------------------------------------------------
\* Arrays of two as arguments and results, from signals, variables and other
\* functions; the result goes to a variable or to the inputs of a component.
ReturnsTwo(n) == [Returns(Var(n)) EXCEPT !.size = 2]
CallTwo(a, fn, arg) == CallTo(a, fn, <<arg>>, <<2>>, 2)
ArrayBodies ==
    {<<SetVar(2, Var(1)), SetVar(3, Var(0)), ReturnsTwo(2)>>,
     <<If(Duo("Eq", Var(0), Var(1)), <<ReturnsTwo(0)>>, <<>>), SetVar(1, Num(2)), ReturnsTwo(0)>>,
     <<If(Var(0), <<SetVar(1, Num(1))>>, <<SetVar(1, Var(0))>>), Stores(VarAt(U32(2)), Var(0), 2),
       ReturnsTwo(2)>>,
     <<SetVar(2, Var(0)), ReturnsTwo(2)>>,
     <<CallTwo(VarAt(U32(2)), "g", Var(0)), ReturnsTwo(2)>>}
Twice == <<SetVar(0, Duo("Add", Var(0), Var(0))), SetVar(1, Duo("Mul", Num(2), Var(1))), ReturnsTwo(0)>>
Pairs == {<<Load(SigAt(U32(InA))), <<>> >>, <<Num(2), <<>> >>,
          <<Var(0), <<SetVar(0, Num(1)), SetVar(1, Sig(InB))>> >>,
          <<Var(0), <<SetVar(0, Num(1)), SetVar(1, Num(2))>> >>}
ArrayCalls ==
    {p[2] \o <<CallTwo(VarAt(U32(2)), "f", p[1]), SetSig(OutSig, Duo("Sub", Var(2), Var(3)))>> : p \in Pairs}
    \cup {p[2] \o <<Create(0, 2, 1, 4, TRUE), CallTwo(a, "f", p[1]), SetSig(OutSig, Cmp(0, 0))>> :
              p \in Pairs, a \in {CmpAt(0, U32(1)), CmpMapped(0, 1, <<>>), CmpMapped(0, 1, <<U32(0)>>)}}
Arrays == {Program(r, ("f" :> b) @@ ("g" :> Twice)) : b \in ArrayBodies, r \in ArrayCalls}

\* Divisions by what may be 0, in circuits whose witness has no inputs: those
\* that are not divided are dropped.
Divisions == {[Program(<<SetSig(OutSig, Duo(o, n, d))>>, NoFunctions) EXCEPT !.witness = <<0, 1>>] :
                  o \in {"Div", "Idiv", "Mod"}, n \in {Sig(InA), Sig(InB)},
                  d \in {Sig(InB), Num(2), Duo("Sub", Num(1), Num(1))}}

MCPrograms == Straight \cup Composed \cup Called \cup Arrays \cup Divisions

-----------------------------------------------------------------------------
\* The instructions and the expressions of all of these programs: three levels
\* of blocks and five of operands, as ProgramsAssumption confirms.
WithBlocks(is) ==
    UNION {{i} \cup (CASE i.kind = "Branch" -> Range(i.ifs) \cup Range(i.elses)
                       [] i.kind = "Loop" -> Range(i.body)
                       [] OTHER -> {}) : i \in is}
WithOperands(es) ==
    UNION {{e} \cup (CASE e.kind = "Load" -> Range(e.cmp) \cup Range(e.at)
                       [] e.kind = "Compute" -> Range(e.args)
                       [] OTHER -> {}) : e \in es}
Used(i) ==
    CASE i.kind = "Store" -> {i.src} \cup Range(i.cmp) \cup Range(i.at)
      [] i.kind = "Call" -> Range(i.args) \cup Range(i.cmp) \cup Range(i.at)
      [] i.kind = "Return" -> {i.src}
      [] i.kind \in {"Branch", "Loop"} -> {i.cond}
      [] i.kind = "CreateCmp" -> {i.id}
      [] OTHER -> {}
InstructionsOf(ps) ==
    WithBlocks(WithBlocks(UNION {UNION {Range(t.body) : t \in Range(p.templates)}
                                   \cup UNION {Range(p.functions[f]) : f \in DOMAIN p.functions} :
                                 p \in ps}))
ExpressionsOf(is) ==
    WithOperands(WithOperands(WithOperands(WithOperands(UNION {Used(i) : i \in is}))))
MCInstructions == InstructionsOf(MCPrograms)
MCExpressions == ExpressionsOf(MCInstructions)

\* A function that returns from within a loop, through a branch: the root of
\* x below 3, or 3 if there is none.
Search == <<SetVar(1, Num(0)),
            While(Duo("Neq", Var(1), Num(3)),
                  <<If(Duo("Eq", Duo("Mul", Var(1), Var(1)), Var(0)), <<Returns(Var(1))>>, <<>>),
                    SetVar(1, Duo("Add", Var(1), Num(1)))>>),
            Returns(Num(3))>>
Searching == {Program(<<CallTo(VarAt(U32(0)), "f", <<Num(n)>>, <<1>>, 1), SetSig(OutSig, Var(0))>>,
                      ("f" :> Search)) : n \in 0..1}
SearchInstructions == InstructionsOf(Searching)
SearchExpressions == ExpressionsOf(SearchInstructions)
=============================================================================
