--------------------------- MODULE MCGraphStorage ---------------------------
(* Instances of GraphStorage: lengths of one and of two bytes.             *)
EXTENDS GraphStorage
Messages(lens) == UNION {[1..n -> 1..2] : n \in lens}
MCGraphs == [nodes : {<<>>} \cup {<<m>> : m \in Messages({1, 2})}
                         \cup {<<m, <<2, 1>>>> : m \in Messages({1, 2})},
             meta : {<<>>, <<1>>, <<2, 1, 1>>}]
MCMagic == <<7, 3>>
=============================================================================
