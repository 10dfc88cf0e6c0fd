------------------------------- MODULE CpuPrf -------------------------------
(***************************************************************************)
(* The free list of the physical register file (src/RTL/cpu/cpu_prf.sv)    *)
(* and the core's busy scoreboard over the same registers (cpu_core.sv     *)
(* 1993-2018).  A free bit alone does not make a register allocatable: the *)
(* core masks out the ones the map or the reorder buffer still names.  The *)
(* 32-bit contents are not modelled.                                       *)
(***************************************************************************)
EXTENDS Integers, FiniteSetsExt

CONSTANT NPRD

VARIABLES
  free,    \* free_bits (without register 0)
  busy     \* pr_busy

Regs == 1 .. NPRD

PrfInit == free = Regs /\ busy = {}

(* allocate_prd and allocate1_prd: the two lowest candidates, 0 for none.  *)
Lowest(S) == IF S = {} THEN 0 ELSE Min(S)
First(inuse) == Lowest(free \ inuse)
Second(inuse) == Lowest(free \ (inuse \cup {First(inuse)}))

(* Mutations: the scoreboard forgets one of the ways an instruction can    *)
(* disappear.                                                              *)
ScoreSquashed(taken, squashed, retracted, written) ==
  busy' = (busy \cup (taken \ {0})) \ (retracted \cup written)
ScoreRetracted(taken, squashed, retracted, written) ==
  busy' = (busy \cup (taken \ {0})) \ (squashed \cup written)

(* One clock edge: back holds the registers released, retracted or squashed*)
(* (the one-cycle-delayed mask squashed), taken those allocated, written   *)
(* those whose writeback the reorder buffer accepts.                       *)
Recycle(back, taken) == free' = (free \cup (back \ {0})) \ (taken \ {0})
Score(taken, squashed, retracted, written) ==
  busy' = (busy \cup (taken \ {0})) \ (squashed \cup retracted \cup written)
=============================================================================
