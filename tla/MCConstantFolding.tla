------------------------- MODULE MCConstantFolding -------------------------
(* Instances of ConstantFolding: the operations whose two versions agree,  *)
(* and all operations.                                                     *)
EXTENDS ConstantFolding

MCRegs == {"a", "b"}
MCField == Field
MCSoundOps == {"Mul", "Div", "Add", "Sub", "Eq", "Neq", "Lt", "Gt", "Leq",
               "Geq", "Land", "Lor", "Band", "Idiv", "Mod"}
MCAllOps == DuoOps \ {"Pow"}
=============================================================================
