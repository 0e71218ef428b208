---------------------------- MODULE MCCalcWitness ----------------------------
(* Up to two inputs of no, one or two elements.  Files with the inputs, with *)
(* one more, with some missing, too short, too long or not numbers, as       *)
(* scalars and as arrays; words and numbers at their limits (63 and 7), of   *)
(* which 63 is 3 and 7 is 2 in the field.                                    *)
EXTENDS CalcWitness
MCNames == {"a", "b", "c"}
MCLayouts == {<<>>} \cup {<<[name |-> "a", len |-> l]>> : l \in 0..2}
                 \cup {<<[name |-> n, len |-> k], [name |-> m, len |-> l]>> :
                          k \in 1..2, l \in 1..2, n \in {"a"}, m \in {"b"}}
                 \cup {<<[name |-> "b", len |-> k], [name |-> "a", len |-> l]>> :
                          k \in 1..2, l \in 1..2}
Good == {Number(7), Array(<<String(63)>>), Array(<<Number(3), String(7)>>)}
Faulty == {String(64), Number(8), Number(-1), Null, Array(<<String(3), String(-1)>>),
           Array(<<Array(<<>>)>>), Array(<<Number(3), Number(8)>>)}
Object(inputs) == [is |-> "object", inputs |-> inputs]
MCFiles == {Object(f) : f \in UNION {[d -> Good] : d \in SUBSET {"a", "b"}}}
      \cup {Object(f) : f \in [{"a"} -> Faulty \cup {Array(<<>>)}]}
      \cup {Object([n \in {"a", "b"} |-> IF n = "a" THEN Number(3) ELSE v]) : v \in Faulty}
      \cup {Object(f) : f \in [{"a", "c"} -> {Number(3), Array(<<Number(7), String(4)>>)}]}
      \cup {[is |-> i, inputs |-> <<>>] : i \in {"absent", "malformed", "value"}}
=============================================================================
