----------------------------- MODULE CalcWitness -----------------------------
(***************************************************************************)
(* The way of an input value from a JSON file to the node that reads it.   *)
(* build-circuit gives every element of the main component's input signals *)
(* a place in the input buffer (init_input_signals) and stores the places  *)
(* with the graph; optimize drops the Input nodes that nobody reads;       *)
(* calc_witness (src/src/lib.rs) sizes the buffer from the nodes that are  *)
(* left, fills it from the inputs in the order of a hash map, and          *)
(* evaluates the graph.                                                    *)
(***************************************************************************)
EXTENDS Graph

CONSTANTS Names,     \* names in a file of inputs
          Layouts,   \* sequences of [name, len]: input lists of main components
          Files      \* files of inputs: records [is, inputs]

\* A JSON value: a string of digits or a number with its value, an array, or
\* something else.  A string that is not a number has a value that is no word.
Json(json, val, elems) == [json |-> json, val |-> val, elems |-> elems]
String(v) == Json("String", v, <<>>)
Number(v) == Json("Number", v, <<>>)
Array(elems) == Json("Array", 0, elems)
Null == Json("Null", 0, <<>>)

\* A file is not there, is not JSON, is JSON but not an object, or is an
\* object, which has a value for each name in it.
ASSUME LayoutAssumption ==
    /\ \A l \in Layouts :
          /\ l \in Seq([name : Names, len : Nat])
          /\ \A i, j \in DOMAIN l : l[i].name = l[j].name => i = j
    /\ \A f \in Files :
          /\ f.is \in {"absent", "malformed", "value", "object"}
          /\ DOMAIN f.inputs \subseteq Names
          /\ \A n \in DOMAIN f.inputs :
                 f.inputs[n].elems \in Seq(Range(f.inputs[n].elems))

VARIABLES layout,    \* the main component's inputs
          sample,    \* the file given to build-circuit (-i), if there is one
          given,     \* the file given to calc-witness
          pc,
          cursor,    \* how many inputs are declared, or nodes evaluated
          info,      \* InputSignalsInfo: the place and length of each input
          signals,   \* the place of each signal <<name, element>>
          nodes,
          pending,   \* the inputs still to be put into the buffer
          buffer,    \* the input buffer, from position 0 on
          values     \* what the nodes evaluate to
vars == <<layout, sample, given, pc, cursor, info, signals, nodes, pending,
          buffer, values>>

Init ==
    /\ layout \in Layouts /\ sample \in {{}} \cup {{f} : f \in Files} /\ given \in Files
    /\ pc = "sample" /\ cursor = 0
    /\ info = <<>> /\ signals = <<>> /\ nodes = <<Constant(1), InputNode(0)>>
    /\ pending = {} /\ buffer = <<>> /\ values = <<>>

-----------------------------------------------------------------------------
\* deserialize_inputs: a scalar is an array of one; a string must fit in a
\* word, a number in one limb (u64); an array in an array is refused.

Elements(v) == IF v.json = "Array" THEN v.elems ELSE <<v>>
\* A variant for the mutation runs: the number's size is not looked at.
IsWordOrNumber(e) == (e.json = "String" /\ e.val \in Words) \/ e.json = "Number"
IsWord(e) == \/ e.json = "String" /\ e.val \in Words
             \/ e.json = "Number" /\ e.val \in 0..Limb - 1
Input(file, n) ==
    LET es == Elements(file.inputs[n]) IN [i \in DOMAIN es |-> es[i].val]

Parsable(file) == file.is \in {"value", "object"}
Readable(file) ==
    /\ file.is = "object"
    /\ \A n \in DOMAIN file.inputs : \A e \in Range(Elements(file.inputs[n])) : IsWord(e)

-----------------------------------------------------------------------------
\* build-circuit

\* Whatever is wrong with the file, the builder panics.
ReadSample ==
    /\ pc = "sample"
    /\ pc' = IF \A f \in sample : Readable(f) THEN "declare" ELSE "refused"
    /\ UNCHANGED <<layout, sample, given, cursor, info, signals, nodes, pending,
                   buffer, values>>

\* A map after insertions: the entries of new, and of old for other keys.
Inserted(new, old) ==
    [x \in DOMAIN new \cup DOMAIN old |-> IF x \in DOMAIN new THEN new[x] ELSE old[x]]

\* A place for each Input node there is.
NextPlace == Cardinality(InputNodes(nodes))

\* A variant for the mutation runs: the place is that of the node.
DeclaredAtNode(s) == [offset |-> Len(nodes), len |-> s.len]
Declared(s) == [offset |-> NextPlace, len |-> s.len]

\* The next input of the main component, one Input node for each element.
Declare ==
    /\ pc = "declare" /\ cursor < Len(layout)
    /\ LET s == layout[cursor + 1]
       IN  IF \E f \in sample : s.name \notin DOMAIN f.inputs
                                \/ Len(Input(f, s.name)) # s.len
           THEN pc' = "refused" /\ UNCHANGED <<info, signals, nodes>>
           ELSE /\ info' = Inserted([n \in {s.name} |-> Declared(s)], info)
                /\ signals' = Inserted([x \in {s.name} \X (1..s.len) |->
                                            NextPlace + x[2] - 1], signals)
                /\ nodes' = nodes \o [i \in 1..s.len |-> InputNode(NextPlace + i - 1)]
                /\ pc' = pc
    /\ cursor' = cursor + 1
    /\ UNCHANGED <<layout, sample, given, pending, buffer, values>>

\* The template adds operations; optimize keeps what is used, in the same
\* order.  Input 0, the second node, is the first signal of every witness.
Optimize ==
    /\ pc = "declare" /\ cursor = Len(layout)
    /\ \E unused \in SUBSET (DOMAIN nodes \ {2}) :
           LET kept == Kept(nodes, DOMAIN nodes \ unused)
           IN  nodes' = Append(kept, Op("Add", 1, Len(kept)))
    /\ pc' = "parse" /\ cursor' = 0
    /\ UNCHANGED <<layout, sample, given, info, signals, pending, buffer, values>>

-----------------------------------------------------------------------------
\* calc_witness

\* A file that is not JSON panics (unwrap), one that is not a list of inputs
\* is an error that is returned.
DeserializeInputs ==
    /\ pc = "parse"
    /\ pc' = CASE ~Parsable(given) -> "stopped"
               [] Readable(given) -> "open"
               [] OTHER -> "error"
    /\ pending' = IF Readable(given) THEN DOMAIN given.inputs ELSE {}
    /\ UNCHANGED <<layout, sample, given, cursor, info, signals, nodes, buffer, values>>

\* The graph is read back, or is damaged (GraphStorage says when), which
\* panics.
ReadGraph ==
    /\ pc = "open"
    /\ pc' \in {"size", "stopped"}
    /\ UNCHANGED <<layout, sample, given, cursor, info, signals, nodes, pending,
                   buffer, values>>

\* get_inputs_buffer
InputsBuffer ==
    /\ pc = "size"
    /\ buffer' = [i \in 0..InputsSize(nodes) - 1 |-> IF i = 0 THEN 1 ELSE 0]
    /\ pc' = "populate"
    /\ UNCHANGED <<layout, sample, given, cursor, info, signals, nodes, pending, values>>

\* populate_inputs panics for a name it does not know, for a wrong number of
\* elements, and for a place that is not in the buffer.
Places(n) == info[n].offset..info[n].offset + Len(Input(given, n)) - 1
\* A variant for the mutation runs: the elements that are missing are left 0.
MisfitsButShort(n) == \/ n \notin DOMAIN info
                      \/ info[n].len < Len(Input(given, n))
                      \/ ~(Places(n) \subseteq DOMAIN buffer)
Misfits(n) == \/ n \notin DOMAIN info
              \/ info[n].len # Len(Input(given, n))
              \/ ~(Places(n) \subseteq DOMAIN buffer)

Populate(n) ==
    /\ pc = "populate" /\ n \in pending
    /\ IF Misfits(n)
       THEN pc' = "panic" /\ UNCHANGED <<buffer, pending>>
       ELSE /\ buffer' = [p \in DOMAIN buffer |->
                             IF p \in Places(n) THEN Input(given, n)[p - info[n].offset + 1]
                                                ELSE buffer[p]]
            /\ pending' = pending \ {n}
            /\ pc' = pc
    /\ UNCHANGED <<layout, sample, given, cursor, info, signals, nodes, values>>

Populated ==
    /\ pc = "populate" /\ pending = {}
    /\ pc' = "evaluate"
    /\ UNCHANGED <<layout, sample, given, cursor, info, signals, nodes, pending,
                   buffer, values>>

\* evaluate, one node after another.
EvaluateNode ==
    /\ pc = "evaluate" /\ cursor < Len(nodes)
    /\ LET v == NodeValue(nodes[cursor + 1], values, buffer)
       IN  IF v = Panic
           THEN pc' = "panic" /\ UNCHANGED <<cursor, values>>
           ELSE values' = Append(values, v) /\ cursor' = cursor + 1 /\ pc' = pc
    /\ UNCHANGED <<layout, sample, given, info, signals, nodes, pending, buffer>>

Evaluated ==
    /\ pc = "evaluate" /\ cursor = Len(nodes)
    /\ pc' = "ok"
    /\ UNCHANGED <<layout, sample, given, cursor, info, signals, nodes, pending,
                   buffer, values>>

Next == \/ ReadSample \/ Declare \/ Optimize
        \/ DeserializeInputs \/ ReadGraph \/ InputsBuffer
        \/ (\E n \in Names : Populate(n)) \/ Populated
        \/ EvaluateNode \/ Evaluated
Spec == Init /\ [][Next]_vars

-----------------------------------------------------------------------------
\* The buffer holds words and the values are field elements; places, nodes and
\* inputs that are pending are what their names say.
TypeOK ==
    /\ layout \in Layouts /\ sample \subseteq Files /\ given \in Files
    /\ pc \in {"sample", "declare", "parse", "open", "size", "populate", "evaluate",
               "refused", "stopped", "error", "panic", "ok"}
    /\ cursor \in Nat
    /\ DOMAIN info \subseteq Names
    /\ \A n \in DOMAIN info : info[n].offset \in Nat /\ info[n].len \in Nat
    /\ DOMAIN signals \subseteq Names \X Nat /\ Range(signals) \subseteq Nat
    /\ IsGraph(nodes) /\ \A k \in DOMAIN nodes : nodes[k].val \in Nat
    /\ pending \subseteq Names
    /\ DOMAIN buffer \subseteq Nat /\ Range(buffer) \subseteq Words
    /\ Range(values) \subseteq Field

\* In whichever order the map yields the inputs, every Input node that was
\* kept reads the element of the input it was declared for: 1 for the constant
\* signal, and 0 when the input is not given.
Meant(s) ==
    IF s[1] \in DOMAIN given.inputs THEN Input(given, s[1])[s[2]] % M ELSE 0
EveryNodeReadsItsInput ==
    pc = "ok" => \A k \in DOMAIN nodes :
        /\ nodes[k] = InputNode(0) => values[k] = 1
        /\ \A s \in DOMAIN signals : nodes[k] = InputNode(signals[s]) => values[k] = Meant(s)

\* The buffer is as long as the nodes that are left need, however few they
\* are and although only the first of them are looked at: evaluate never
\* reads beyond it.
BufferCoversTheGraph ==
    pc = "evaluate" => \A k \in InputNodes(nodes) : nodes[k].val \in DOMAIN buffer

\* Whether the inputs are refused does not depend on the order in which the
\* map yields them.
LastUsed == Max({nodes[k].val : k \in InputNodes(nodes)})
Deserved(n) ==
    \/ \A k \in DOMAIN layout : layout[k].name # n
    \/ \E k \in DOMAIN layout :
           layout[k].name = n /\ layout[k].len # Len(Input(given, n))
    \/ \E s \in DOMAIN signals : s[1] = n /\ signals[s] > LastUsed
RefusalIsNoMatterOfOrder ==
    /\ pc = "panic" => \E n \in DOMAIN given.inputs : Deserved(n)
    /\ pc = "ok" => \A n \in DOMAIN given.inputs : ~Deserved(n)

\* "The idea is to have a universal library that can calculate the witness
\* for any Circom circuit" (README.md:8): when every input is given with its
\* right number of elements, the witness is calculated.
Complete ==
    /\ Readable(given)
    /\ DOMAIN given.inputs = {layout[k].name : k \in DOMAIN layout}
    /\ \A k \in DOMAIN layout : Len(Input(given, layout[k].name)) = layout[k].len
CompleteInputsRun == Complete => pc # "panic"
=============================================================================
