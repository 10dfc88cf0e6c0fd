------------------------------ MODULE RobOrder ------------------------------
(***************************************************************************)
(* What the reorder buffer promises the core, without slots or tags: a     *)
(* queue in program order.  In one cycle at most two finished, fault-free  *)
(* instructions leave at the front; any waiting one may finish, at most    *)
(* one with a fault; the back may lose a suffix or gain at most two new    *)
(* instructions, never both, and the front instruction survives unless it  *)
(* left by finishing.  A faulty instruction at the front empties the queue *)
(* at once, and nothing enters until its registers are returned.           *)
(***************************************************************************)
EXTENDS Integers, Sequences

CONSTANT NPRD

VARIABLES
  window,    \* the instructions in flight, oldest first
  flushing   \* returning the registers of a flushed window

Instr == [prd : 1 .. NPRD, done : BOOLEAN, exc : BOOLEAN]
New(p) == [prd |-> p, done |-> FALSE, exc |-> FALSE]

(* An instruction keeps its register; it finishes once.                    *)
Progress(a, b) == a.prd = b.prd /\ (a.done => a = b) /\ (b.exc => b.done)

Init == window = <<>> /\ flushing = FALSE

Faulty == window # <<>> /\ window[1].done /\ window[1].exc

(* From a to b: n leave at the front and keep of the others remain.        *)
Step(n, keep, a, b) ==
  /\ \A i \in 1 .. n : a[i].done /\ ~a[i].exc
  /\ n = 0 /\ a # <<>> => ~a[1].done /\ keep > 0
  /\ Len(b) \in keep .. keep + 2
  /\ Len(b) > keep => n + keep = Len(a)
  /\ \A i \in 1 .. keep : Progress(a[n + i], b[i])
  /\ \A i \in keep + 1 .. Len(b) : b[i] = New(b[i].prd)

Cycle ==
  /\ ~flushing /\ ~Faulty
  /\ \E n \in 0 .. 2 : \E keep \in 0 .. Len(window) - n :
       Step(n, keep, window, window')
  /\ UNCHANGED flushing

Flush == Faulty /\ window' = <<>> /\ flushing' = TRUE
Flushed == flushing /\ flushing' = FALSE /\ UNCHANGED window

Next == Cycle \/ Flush \/ Flushed

Spec == Init /\ [][Next]_<<window, flushing>>
=============================================================================
