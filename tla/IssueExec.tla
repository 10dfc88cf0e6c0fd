------------------------------ MODULE IssueExec ------------------------------
(***************************************************************************)
(* From allocation to completion: the reservation stations                 *)
(* (cpu_issue_queue.sv), the EX/MEM register (cpu_ex_stage.sv), the load   *)
(* and store queue's FIFO (cpu_lsq.sv), the multiplier's handshake and the *)
(* fence state machine (cpu_core.sv), as they run against one another when *)
(* one instruction is allocated a cycle (FETCH_W = 32).  They are registers*)
(* on one clock, so a step is one clock edge: Cycle has a conjunct per     *)
(* always_ff block, and its parameters are what the outside decides.       *)
(*                                                                         *)
(* Abstractions.  An instruction is its execution unit and whether it reads*)
(* the result of the instruction before it.  Its tag stands for its        *)
(* physical register: two live instructions differ in both.  The buffer is *)
(* its window of tags; traps are not taken.  The memory answers the oldest *)
(* access at any later cycle, and a multiplication or division takes any   *)
(* number of cycles.                                                       *)
(***************************************************************************)
EXTENDS Integers, FiniteSets, SequencesExt

CONSTANTS
  DEPTH,       \* ROB_DEPTH: 16
  IQ_DEPTH,    \* 8
  LSQ_DEPTH,   \* 8
  Mixes        \* programs, as the set of units each uses

AllUnits == {"alu", "muldiv", "mem", "branch", "fence"}
HeadOnly == {"mem", "branch", "fence"}   \* issue only from the ROB head
Writers  == {"alu", "muldiv", "mem"}     \* write a register

ASSUME DepthsAssumption ==
  /\ DEPTH \in Nat \ {0, 1} /\ IQ_DEPTH \in Nat \ {0} /\ LSQ_DEPTH \in Nat \ {0}
ASSUME MixesAssumption == Mixes \subseteq SUBSET AllUnits

VARIABLES
  program,   \* the units of the program that runs
  unit,      \* of every tag: its unit while pending, "done", or "none"
  head, tail,
  pend,      \* younger_squash_ptr_q while younger_squash_pending_q, as a set
  d1,        \* {[tag, dep]}: allocated last cycle, in ID/EX
  iq,        \* {[tag, dep, rdy]}: the valid reservation stations
  iqFull,    \* iq_full, the registered capacity hint
  ex,        \* {tag}: the issue register, which EX executes
  exmem,     \* {tag}: the EX/MEM register while it is valid
  lsq,       \* the LSQ's FIFO of tags
  memwb,     \* {tag}: the LSQ's response register
  md,        \* the multiplier: "idle", "busy" or "done"
  fence,     \* fence_state_q: "idle", "drain" or "wait"
  fencePend  \* {tag}: fence_pending_rob_ptr while valid

vars == <<program, unit, head, tail, pend, d1, iq, iqFull, ex, exmem, lsq, memwb, md,
          fence, fencePend>>

Tag == 0 .. (2 * DEPTH - 1)
Plus(t, n) == (t + n) % (2 * DEPTH)
Dist(a, b) == (a - b) % (2 * DEPTH)
Occ == Dist(tail, head)
Empty == head = tail
InWindow(t) == Dist(t, head) < Occ
Pending(t) == unit[t] \notin {"none", "done"}
Is(S, u) == \E t \in S : unit[t] = u

-----------------------------------------------------------------------------
(* Combinational signals.                                                  *)

FenceBusy == fence # "idle"
FenceFire == ~FenceBusy /\ Is(ex, "fence")
StallFp   == Is(ex, "muldiv") /\ md # "done"
StallMem  == Len(lsq) >= LSQ_DEPTH
CanCapture == ~FenceBusy /\ ~StallFp /\ ~(StallMem /\ Is(exmem, "mem"))
Redirecting(mis) == mis \/ pend # {}

(* What completes in the buffer this cycle: an EX/MEM instruction other    *)
(* than a memory access, an answered access, an acknowledged fence.        *)
Completing(ack) ==
  {t \in (IF StallFp THEN {} ELSE {u \in exmem : unit[u] # "mem"})
           \cup memwb \cup (IF ack THEN fencePend ELSE {}) :
     InWindow(t) /\ Pending(t)}

(* Result buses: completions that write a register wake their readers.     *)
Woken(t, ack) == \E p \in Completing(ack) : p = Plus(t, 2 * DEPTH - 1) /\ unit[p] \in Writers
Busy(t) == Pending(Plus(t, 2 * DEPTH - 1))   \* pr_busy of the source

Dispatch(mis) == IF Redirecting(mis) THEN {} ELSE d1
Accepted(mis) == IF Cardinality(iq) < IQ_DEPTH THEN Dispatch(mis) ELSE {}
TakenBack(mis) == IF Redirecting(mis) THEN {} ELSE d1 \ Accepted(mis)

(* Sources of an instruction as it is dispatched: already written, or just *)
(* being written.  Mutation: this cycle's results are missed.              *)
ReadyMissed(d, ack) == ~d.dep \/ ~Busy(d.tag)
Ready(d, ack) == ~d.dep \/ ~Busy(d.tag) \/ Woken(d.tag, ack)

(* Mutations: memory and control issue like any other; an instruction      *)
(* issues although EX is stalled; all that are ready issue.                *)
IssuableAny == {e \in iq : e.rdy}
(* issue_ready_idx, and the oldest such station.                           *)
Issuable == {e \in iq : e.rdy /\ (unit[e.tag] \in HeadOnly => e.tag = head)}
SelectedStalled(mis) ==
  IF StallMem \/ FenceBusy \/ Redirecting(mis) THEN {}
  ELSE {e \in Issuable : \A f \in Issuable : Dist(e.tag, head) <= Dist(f.tag, head)}
SelectedAll(mis) ==
  IF StallMem \/ StallFp \/ FenceBusy \/ Redirecting(mis) THEN {} ELSE Issuable
Selected(mis) ==
  IF StallMem \/ StallFp \/ FenceBusy \/ Redirecting(mis) THEN {}
  ELSE {e \in Issuable : \A f \in Issuable : Dist(e.tag, head) <= Dist(f.tag, head)}

(* Mutation: the capacity hint is not looked at.                           *)
MayAllocNoHint(mis) ==
  /\ ~StallMem /\ ~StallFp /\ ~FenceBusy /\ ~Redirecting(mis)
  /\ Occ < DEPTH /\ TakenBack(mis) = {}
(* An instruction may be allocated: pipeline_advance and alloc0_fire.      *)
MayAlloc(mis) ==
  /\ ~StallMem /\ ~StallFp /\ ~FenceBusy /\ ~iqFull /\ ~Redirecting(mis)
  /\ Occ < DEPTH /\ TakenBack(mis) = {}

(* Killed by this cycle's squash, which keeps the instruction pend names.  *)
Squash == pend # {} /\ ~Empty /\ \E p \in pend : InWindow(p)
Younger(t) == \E p \in pend : /\ Dist(t, Plus(p, 1)) < Dist(tail, Plus(p, 1))
Killed(t) == Squash /\ Younger(t)

(* The head retires once done, its successor with it.                      *)
Done(t) == InWindow(t) /\ unit[t] = "done"
Retiring ==
  IF ~Done(head) THEN {}
  ELSE IF Done(Plus(head, 1)) /\ ~(Squash /\ pend = {head}) THEN {head, Plus(head, 1)}
  ELSE {head}

-----------------------------------------------------------------------------
(* The registers.  new is {} or {[u, dep]}, the instruction in IF/ID.      *)

Reorder(new, mis, ack) ==
  /\ head' = Plus(head, Cardinality(Retiring))
  /\ tail' = IF Squash THEN Plus(CHOOSE p \in pend : TRUE, 1)
             ELSE Plus(tail, Cardinality(new) - Cardinality(TakenBack(mis)))
  /\ unit' = [t \in Tag |->
                IF \E n \in new : t = tail THEN (CHOOSE n \in new : TRUE).u
                ELSE IF t \in Retiring \/ Killed(t) \/ (\E d \in TakenBack(mis) : d.tag = t)
                     THEN "none"
                ELSE IF t \in Completing(ack) THEN "done" ELSE unit[t]]
  /\ pend' = IF mis THEN ex ELSE {}
  /\ d1' = {[tag |-> tail, dep |-> n.dep] : n \in new}

Stations(mis, ack) ==
  /\ iq' = {[e EXCEPT !.rdy = @ \/ (e.dep /\ Woken(e.tag, ack))] :
              e \in {f \in iq : ~Killed(f.tag)} \ Selected(mis)}
           \cup {[tag |-> d.tag, dep |-> d.dep,
                  rdy |-> Ready(d, ack)] : d \in Accepted(mis)}
  /\ iqFull' = (IQ_DEPTH - Cardinality(iq) - Cardinality(Dispatch(mis)) < 3)
  /\ ex' = IF Selected(mis) # {} THEN {e.tag : e \in Selected(mis)}
           ELSE IF StallFp THEN ex ELSE {}

(* A fence never enters EX/MEM; a frozen EX/MEM keeps its valid bit.       *)
(* Mutation: a bubble leaves EX/MEM as it was, too.                        *)
ExecuteSticky == exmem' = IF CanCapture /\ ex # {} THEN {t \in ex : unit[t] # "fence"} ELSE exmem
Execute == exmem' = IF CanCapture THEN {t \in ex : unit[t] # "fence"} ELSE exmem

(* The multiplier keeps its result until EX takes it.                      *)
Multiply(fin) ==
  md' = CASE md = "idle" /\ StallFp -> IF fin THEN "done" ELSE "busy"
          [] md = "busy" -> IF fin THEN "done" ELSE "busy"
          [] md = "done" /\ Is(ex, "muldiv") /\ CanCapture -> "idle"
          [] OTHER -> md

(* Every cycle in which EX/MEM holds an access enqueues it.                *)
Memory(resp) ==
  LET in == {t \in exmem : unit[t] = "mem" /\ ~StallMem}
  IN /\ lsq' = (IF resp THEN Tail(lsq) ELSE lsq) \o SetToSeq(in)
     /\ memwb' = IF resp THEN {Head(lsq)} ELSE {}

(* Mutation: the fence waits for the stations too, which wait for it.      *)
FenceDrainsAll(ack) ==
  /\ fence' = CASE FenceFire -> "drain"
                [] fence = "drain" /\ lsq = <<>> /\ iq = {} -> "wait"
                [] fence = "wait" /\ ack -> "idle"
                [] OTHER -> fence
  /\ fencePend' = IF FenceFire THEN ex ELSE IF ack THEN {} ELSE fencePend
FenceFsm(ack) ==
  /\ fence' = CASE FenceFire -> "drain"
                [] fence = "drain" /\ lsq = <<>> -> "wait"
                [] fence = "wait" /\ ack -> "idle"
                [] OTHER -> fence
  /\ fencePend' = IF FenceFire THEN ex ELSE IF ack THEN {} ELSE fencePend

-----------------------------------------------------------------------------
Init ==
  /\ program \in Mixes
  /\ unit = [t \in Tag |-> "none"] /\ head = 0 /\ tail = 0 /\ pend = {}
  /\ d1 = {} /\ iq = {} /\ iqFull = FALSE /\ ex = {} /\ exmem = {}
  /\ lsq = <<>> /\ memwb = {} /\ md = "idle" /\ fence = "idle" /\ fencePend = {}

(* One clock edge.  mis: the branch in EX is mispredicted; resp: the memory*)
(* answers; fin: the multiplier finishes; ack: ctl_done.                   *)
Cycle(new, mis, resp, fin, ack) ==
  /\ new # {} => MayAlloc(mis)
  /\ \A n \in new : n.dep => unit[Plus(tail, 2 * DEPTH - 1)] \in Writers
  /\ mis => Is(ex, "branch")
  /\ resp => lsq # <<>>
  /\ fin => md = "busy" \/ (md = "idle" /\ StallFp)
  /\ ack => fence = "wait"
  /\ Reorder(new, mis, ack)
  /\ Stations(mis, ack)
  /\ Execute
  /\ Multiply(fin)
  /\ Memory(resp)
  /\ FenceFsm(ack)
  /\ UNCHANGED program

Incoming == {{}} \cup {{[u |-> u, dep |-> d]} : u \in program, d \in BOOLEAN}

Next == \E new \in Incoming, mis, resp, fin, ack \in BOOLEAN :
          Cycle(new, mis, resp, fin, ack)

Spec == Init /\ [][Next]_vars

(* The clock runs, and memory, multiplier and cache control answer.        *)
Answered == \E new \in Incoming, mis \in BOOLEAN :
              Cycle(new, mis, lsq # <<>>, md = "busy" \/ (md = "idle" /\ StallFp), fence = "wait")
FairSpec == Spec /\ WF_vars(Answered)

-----------------------------------------------------------------------------
(* Properties.                                                             *)

Waiting == [tag : Tag, dep : BOOLEAN]
TypeOK ==
  /\ program \in Mixes
  /\ unit \in [Tag -> AllUnits \cup {"none", "done"}]
  /\ head \in Tag /\ tail \in Tag
  /\ d1 \subseteq Waiting /\ iq \subseteq [tag : Tag, dep : BOOLEAN, rdy : BOOLEAN]
  /\ iqFull \in BOOLEAN
  /\ \A S \in {pend, ex, exmem, memwb, fencePend} : S \subseteq Tag /\ Cardinality(S) <= 1
  /\ Cardinality(d1) <= 1 /\ Cardinality(iq) <= IQ_DEPTH
  /\ lsq \in Seq(Tag) /\ Len(lsq) <= LSQ_DEPTH
  /\ md \in {"idle", "busy", "done"} /\ fence \in {"idle", "drain", "wait"}

Unexecuted(t) == InWindow(t) /\ Pending(t)
Places(t) == <<\E d \in d1 : d.tag = t, \E e \in iq : e.tag = t, t \in ex,
               t \in exmem, \E n \in DOMAIN lsq : lsq[n] = t, t \in memwb, t \in fencePend>>

(* No instruction is lost: one that has not completed is in some stage, or *)
(* about to be squashed.  Nothing else could ever complete it, and the     *)
(* buffer would wait for it for ever.                                      *)
NoOpLost ==
  \A t \in Tag : Unexecuted(t) =>
    \/ \E n \in DOMAIN Places(t) : Places(t)[n]
    \/ pend # {} /\ Younger(t)

(* The LSQ is an in-order queue of accesses, each sent once (cpu_lsq.sv:3):*)
(* the same instruction is never in it twice.                              *)
AccessOnce == IsInjective(lsq)

(* Wakeups are neither lost nor early: a station's source bit is set       *)
(* exactly when the instruction it reads has completed, whatever cycle it  *)
(* was dispatched in (cpu_issue_queue.sv:372).                             *)
WakeupExact ==
  \A e \in iq : e.dep /\ ~(pend # {} /\ Younger(e.tag)) => (e.rdy <=> ~Busy(e.tag))

(* Memory and control are never speculative: what they hold is the oldest  *)
(* instruction, which no squash can take back.                             *)
AccessAtHead ==
  \A t \in ex \cup exmem \cup ToSet(lsq) \cup memwb \cup fencePend :
    unit[t] \in HeadOnly => t = head /\ ~Empty

(* The registered hint keeps the stations from overflowing: an instruction *)
(* allocated under it is accepted when it is dispatched a cycle later.     *)
DispatchAccepted == d1 # {} => Cardinality(iq) < IQ_DEPTH

(* The head never waits for ever: again and again the buffer is empty or   *)
(* its head is done (cpu_rob.sv:534 reports a "head waiting >10000 cycles")*)
HeadCompletes == []<>(Empty \/ ~Pending(head))
=============================================================================
