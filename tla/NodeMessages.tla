----------------------------- MODULE NodeMessages -----------------------------
(***************************************************************************)
(* Nodes as protobuf messages: From<&Node> for proto::node::Node when a    *)
(* graph is written, From<proto::Node> for Node when it is read            *)
(* (src/src/storage.rs:20-135, src/protos/messages.proto).  Operations are *)
(* numbers in a message, positions lose what is beyond their 32 bits, and  *)
(* constants come back reduced to the field.                               *)
(***************************************************************************)
EXTENDS Graph

CONSTANT Indexes      \* how many positions a message can tell apart (2^32)
ASSUME IndexesAssumption == Indexes \in Nat \ {0}

\* Which node it is, the number of its operation, the positions it refers to,
\* from 0 on, and the number that an input or a constant holds.
Message(oneof, op, at, value) == [oneof |-> oneof, op |-> op, at |-> at, value |-> value]

\* The number of each operation (From<&Operation> for DuoOp, and so on), ...
DuoNumber == [Mul |-> 0, Div |-> 1, Add |-> 2, Sub |-> 3, Pow |-> 4, Idiv |-> 5,
              Mod |-> 6, Eq |-> 7, Neq |-> 8, Lt |-> 9, Gt |-> 10, Leq |-> 11,
              Geq |-> 12, Land |-> 13, Lor |-> 14, Shl |-> 15, Shr |-> 16,
              Bor |-> 17, Band |-> 18, Bxor |-> 19]
UnoNumber == [Neg |-> 0, Id |-> 1]
TresNumber == [TernCond |-> 0]

\* ...and the operation of each number, counted from 1 here.
\* A variant for the mutation runs: two that are exchanged.
DuoOfNumberSwapped ==
    <<"Mul", "Div", "Add", "Sub", "Pow", "Idiv", "Mod", "Eq", "Neq", "Gt", "Lt",
      "Leq", "Geq", "Land", "Lor", "Shl", "Shr", "Bor", "Band", "Bxor">>
DuoOfNumber ==
    <<"Mul", "Div", "Add", "Sub", "Pow", "Idiv", "Mod", "Eq", "Neq", "Lt", "Gt",
      "Leq", "Geq", "Land", "Lor", "Shl", "Shr", "Bor", "Band", "Bxor">>
UnoOfNumber == <<"Neg", "Id">>
TresOfNumber == <<"TernCond">>

\* A constant that is not in Montgomery form panics.
Writable(n) == n.kind # "Constant"
ToMessage(n) ==
    LET at == [k \in DOMAIN n.args |-> (n.args[k] - 1) % Indexes]
    IN  CASE n.kind = "Input" -> Message("input", 0, <<>>, n.val % Indexes)
          [] n.kind = "MontConstant" -> Message("constant", 0, <<>>, n.val)
          [] n.kind = "UnoOp" -> Message("unoOp", UnoNumber[n.op], at, 0)
          [] n.kind = "Op" -> Message("duoOp", DuoNumber[n.op], at, 0)
          [] n.kind = "TresOp" -> Message("tresOp", TresNumber[n.op], at, 0)

\* A variant for the mutation runs: the operands the other way round.
ArgsBackwards(m) == [k \in DOMAIN m.at |-> m.at[Len(m.at) + 1 - k] + 1]
ArgsIn(m) == [k \in DOMAIN m.at |-> m.at[k] + 1]
FromMessage(m) ==
    CASE m.oneof = "input" -> InputNode(m.value)
      [] m.oneof = "constant" -> MontConstant(m.value % M)
      [] m.oneof = "unoOp" -> Node("UnoOp", UnoOfNumber[m.op + 1], 0, ArgsIn(m))
      [] m.oneof = "duoOp" -> Node("Op", DuoOfNumber[m.op + 1], 0, ArgsIn(m))
      [] m.oneof = "tresOp" -> Node("TresOp", TresOfNumber[m.op + 1], 0, ArgsIn(m))
=============================================================================
