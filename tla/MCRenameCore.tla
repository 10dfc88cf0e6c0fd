---------------------------- MODULE MCRenameCore ----------------------------
(* RenameCore with few architectural registers: an op that writes one, a   *)
(* branch, a jump that links, and for dual allocation a CSR instruction.   *)
EXTENDS RenameCore

Plain(rd) == [rd |-> rd, ctrl |-> FALSE, sys |-> FALSE]
Branch(rd) == [rd |-> rd, ctrl |-> TRUE, sys |-> FALSE]
System(rd) == [rd |-> rd, ctrl |-> FALSE, sys |-> TRUE]
SingleKinds == {Plain(1), Branch(0), Branch(1)}
FaultKinds == {Plain(0), Plain(1), Branch(0)}
DualKinds == {Plain(1), Branch(0)}
StraightKinds == {Plain(0), Plain(1)}
SystemKinds == {Plain(1), System(1)}
=============================================================================
