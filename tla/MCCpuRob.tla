------------------------------ MODULE MCCpuRob ------------------------------
(* CpuRob on four slots.  What an op frees is fixed by its destination:    *)
(* even ones write a register, odd ones (stores, branches) do not.         *)
EXTENDS CpuRob

CONSTANT MaxPrd

MCOps == {[prd |-> p, old |-> IF p % 2 = 0 THEN NPRD ELSE 0,
           rd |-> (p + 1) % 2] : p \in 1 .. MaxPrd}
=============================================================================
