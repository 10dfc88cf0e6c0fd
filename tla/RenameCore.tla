----------------------------- MODULE RenameCore -----------------------------
(***************************************************************************)
(* The rename machinery of cpu_core.sv: the reorder buffer, the alias      *)
(* table, the free list and the scoreboard, driven by allocation, dispatch,*)
(* branch resolution, the registered younger-squash request and faults.    *)
(* Every action is one clock edge of the whole machine.                    *)
(*                                                                         *)
(* A dispatched instruction finishes at any later time.  A control-flow    *)
(* instruction resolves only at the head of the reorder buffer, where the  *)
(* issue queue lets it issue (cpu_issue_queue.sv:190), and finishes after. *)
(***************************************************************************)
EXTENDS Integers, FiniteSets, Sequences

CONSTANTS
  DEPTH, NREG, NPRD, CP_DEPTH, NoEntry, WbPorts,
  DualAlloc,   \* FETCH_W = 64
  Kinds,       \* what decode may see: records [rd, ctrl, sys]
  Faults,      \* "none"; "reset": the bridge resets the core after a trap
               \* (fpga_top); "resume": execution goes on (cpu_core_mem_top)
  Mret         \* whether MRET is executed

(* An instruction as decode sees it: its destination, whether it is control*)
(* flow, whether it is a CSR, SYSTEM or FENCE instruction.                 *)
Kind == [rd : 0 .. NREG, ctrl : BOOLEAN, sys : BOOLEAN]
(* The architectural registers start out in physical ones of their own     *)
(* (cpu_rat.sv resets to the identity).                                    *)
ASSUME SizeAssumption == /\ DEPTH \in Nat /\ DEPTH >= 2
                         /\ NREG \in Nat /\ NPRD \in Nat /\ NREG <= NPRD
                         /\ CP_DEPTH \in Nat /\ WbPorts \in Nat
                         /\ DualAlloc \in BOOLEAN
ASSUME KindsAssumption == Kinds \subseteq Kind
ASSUME FaultsAssumption == Faults \in {"none", "reset", "resume"}
                           /\ Mret \in BOOLEAN
(* cpu_rat drops a snapshot when its stack is full.  In the code the issue *)
(* queue, which accepts at most 7 of its 8, and EX bound the unresolved    *)
(* branches by CP_DEPTH = 8; here the reorder buffer does.                 *)
ASSUME SnapshotsAssumption == CP_DEPTH >= DEPTH

VARIABLES
  q, head, tail, scanning, scanCur, scanTail, released, sqMask, trap,
  rat, stack, shadow,
  free, busy,
  maskD1,      \* rob_squash_release_mask_d1
  pend,        \* younger_squash_ptr_q while younger_squash_pending_q, as a set
  d1,          \* the slots allocated in the last cycle, before dispatch
  fix,         \* cp_fixup: <<rd, prd>>, rd = 0 when not valid
  unresolved,  \* tags of control-flow instructions not yet executed
  stopped,     \* the bridge holds the core in reset (cpu_reset_n is low)
  commit       \* history: the architectural map, updated at retirement

Rob == INSTANCE CpuRob WITH Ops <- {}
(* An empty slot is no entry.                                              *)
ASSUME SlotAssumption == NoEntry \notin Rob!Entry
Rat == INSTANCE CpuRat
Prf == INSTANCE CpuPrf

robVars == <<q, head, tail, scanning, scanCur, scanTail, released, sqMask, trap>>
ratVars == <<rat, stack, shadow>>
coreVars == <<maskD1, pend, d1, fix, unresolved, stopped>>
vars == <<robVars, ratVars, free, busy, coreVars, commit>>

-----------------------------------------------------------------------------
InUse == Rob!InUse \cup Rat!Mapped      \* prf_inuse_prd_mask
D1Tags == {d1[n].tag : n \in DOMAIN d1}

(* Writebacks and exceptions of a cycle: of dispatched instructions, and   *)
(* of control flow only once it has executed.                              *)
Executing == {Rob!Idx(t) : t \in {u \in Rob!Tag : Rob!InWindow(u)} \ (D1Tags \cup unresolved)}
WbSets == {S \in Rob!WbSets : S \subseteq Executing}
ExSets == IF Faults = "none" THEN {{}} ELSE {S \in Rob!ExSets : S \subseteq Executing}

(* The architectural map after the entries popped by this cycle.           *)
Retired(sq) ==
  LET e0 == q[Rob!Idx(head)]
      e1 == q[Rob!Idx(Rob!Inc(head))]
      once == Rat!Set(commit, <<e0.rd, e0.prd>>)
  IN IF ~Rob!HeadDone THEN commit
     ELSE IF Rob!Retire1CanPop(sq) THEN Rat!Set(once, <<e1.rd, e1.prd>>) ELSE once

Prds(S) == {q[i].prd : i \in S}

(* In fpga_top the bridge sees the trap and resets the core a cycle later. *)
Stopping == stopped' = (stopped \/ (Faults = "reset" /\ trap))

(* Mutations: squashed registers, or retracted ones, are not freed.        *)
CommonSquashed(taken, retracted, wb) ==
  /\ Prf!Recycle(released \cup retracted, taken)
  /\ Prf!Score(taken, maskD1, retracted, Prds(wb))
  /\ maskD1' = sqMask
  /\ Stopping
CommonRetracted(taken, retracted, wb) ==
  /\ Prf!Recycle(released \cup maskD1, taken)
  /\ Prf!Score(taken, maskD1, retracted, Prds(wb))
  /\ maskD1' = sqMask
  /\ Stopping

(* The parts of a clock edge that every cycle shares: the release ports    *)
(* and the delayed mask free registers, wb clears the scoreboard.          *)
Common(taken, retracted, wb) ==
  /\ Prf!Recycle(released \cup maskD1 \cup retracted, taken)
  /\ Prf!Score(taken, maskD1, retracted, Prds(wb))
  /\ maskD1' = sqMask
  /\ Stopping

(* What each slot allocates.  Sources and old mappings of slot 1 see the   *)
(* rename of slot 0.  (The old mapping of an instruction that writes no    *)
(* register is not used; here it is 0.)                                    *)
Slot(k, tag, prd, old) == [tag |-> tag, rd |-> k.rd, prd |-> prd, old |-> old, sys |-> k.sys]
OldOf(m, k) == IF k.rd = 0 THEN 0 ELSE m[k.rd]
(* Mutation: slot 1 does not see the rename of slot 0.                     *)
SlotsApart(ks) ==
  LET prd(n) == IF n = 1 THEN Prf!First(InUse) ELSE Prf!Second(InUse)
      tag(n) == IF n = 1 THEN tail ELSE Rob!Inc(tail)
  IN [n \in DOMAIN ks |-> Slot(ks[n], tag(n), prd(n), OldOf(rat, ks[n]))]
Slots(ks) ==
  LET p0 == Prf!First(InUse)
      p1 == Prf!Second(InUse)
      s0 == Slot(ks[1], tail, p0, OldOf(rat, ks[1]))
  IN IF Len(ks) = 1 THEN <<s0>>
     ELSE <<s0, Slot(ks[2], Rob!Inc(tail), p1,
                     OldOf(Rat!Set(rat, <<ks[1].rd, p0>>), ks[2]))>>

Bundles == {<<k>> : k \in Kinds} \cup
           (IF DualAlloc THEN {<<k0, k1>> : k0 \in Kinds, k1 \in Kinds} ELSE {})

(* alloc0_fire and alloc1_fire, short of what a redirect forbids: room, a  *)
(* free register per slot, not two control-flow instructions at once.      *)
MayAlloc(ks) ==
  /\ ~Rob!Full /\ ~scanning /\ ~trap /\ pend = {}
  /\ Prf!First(InUse) # 0
  /\ Len(ks) = 2 => /\ ~Rob!FullDual /\ Prf!Second(InUse) # 0
                    /\ ~(ks[1].ctrl /\ ks[2].ctrl)

PushTags(ks) == {Slots(ks)[n].tag : n \in {m \in DOMAIN ks : ks[m].ctrl}}
Ren(ks, n) == IF n \in DOMAIN ks THEN <<Slots(ks)[n].rd, Slots(ks)[n].prd>> ELSE <<0, 0>>
RobOp(s) == [prd |-> s.prd, old |-> s.old, rd |-> s.rd]
Taken(ks) == {Slots(ks)[n].prd : n \in DOMAIN ks}

(* The rename side of an allocation.  The snapshot of a branch in slot 1   *)
(* is taken of the map before slot 0's rename; cp_fixup is registered to   *)
(* put that rename back in.                                                *)
Rename(ks, rel) ==
  /\ Rat!Edit(PushTags(ks), fix, rel, <<0, 0>>, <<0, 0>>, Ren(ks, 1), Ren(ks, 2))
  /\ fix' = IF Len(ks) = 2 /\ ks[2].ctrl /\ ks[1].rd # 0 THEN Ren(ks, 1)
            ELSE IF rel # {} THEN <<0, 0>> ELSE fix
  /\ d1' = Slots(ks)

(* rel is the tag of a branch that executes this cycle as predicted.       *)
Resolvable == {t \in unresolved : t = head /\ ~Rob!Empty /\ t \notin D1Tags}
Rels == {{}} \cup {{t} : t \in Resolvable}

(* The last cycle's slot 1 was a CSR, SYSTEM or FENCE instruction: those   *)
(* are never dispatched from slot 1 (dispatch1_is_ctl_class), so its       *)
(* allocation is taken back, unless a squash is under way.                 *)
RetractSlot1 == Len(d1) = 2 /\ d1[2].sys /\ pend = {} /\ ~scanning

-----------------------------------------------------------------------------
Init ==
  /\ Rob!Init /\ Rat!RatInit /\ Prf!PrfInit
  /\ maskD1 = {} /\ pend = {} /\ d1 = <<>> /\ fix = <<0, 0>>
  /\ unresolved = {} /\ stopped = FALSE /\ commit = Rat!Identity

Running == ~stopped

(* Allocate one or two instructions; a correctly predicted branch may      *)
(* release its snapshot in the same cycle.                                 *)
Allocate(ks, rel, wb, ex) ==
  /\ Running /\ MayAlloc(ks) /\ ~RetractSlot1
  /\ IF Len(ks) = 1 THEN Rob!Alloc(RobOp(Slots(ks)[1]), wb, ex)
     ELSE Rob!AllocTwo(RobOp(Slots(ks)[1]), RobOp(Slots(ks)[2]), wb, ex)
  /\ Rename(ks, rel)
  /\ Common(Taken(ks), {}, wb)
  /\ unresolved' = (unresolved \ rel) \cup PushTags(ks)
  /\ commit' = Retired(FALSE)
  /\ UNCHANGED pend

(* A cycle that allocates nothing.                                         *)
Idle(rel, wb, ex) ==
  /\ Running /\ pend = {} /\ ~RetractSlot1
  /\ Rob!Quiet(wb, ex)
  /\ Rat!Edit({}, fix, rel, <<0, 0>>, <<0, 0>>, <<0, 0>>, <<0, 0>>)
  /\ fix' = IF rel # {} THEN <<0, 0>> ELSE fix
  /\ Common({}, {}, wb)
  /\ d1' = <<>>
  /\ unresolved' = unresolved \ rel
  /\ commit' = Retired(FALSE)
  /\ UNCHANGED pend

(* MRET, at the head and ready to execute.                                 *)
Returns ==
  {b \in {head} : /\ Mret /\ Rob!InWindow(b) /\ Rob!Pending(Rob!Idx(b))
                  /\ b \notin unresolved \cup D1Tags /\ q[Rob!Idx(b)].rd = 0}

(* A branch or jump at the head turns out mispredicted, or MRET executes.  *)
(* A branch restores its snapshot at once, MRET restores none; the squash  *)
(* of the reorder buffer is registered.                                    *)
Redirect(b, wb, ex) ==
  LET e == q[Rob!Idx(b)]
  IN /\ Running /\ pend = {}
     /\ Rob!Quiet(wb, ex)
     /\ IF b \in unresolved /\ stack # <<>> THEN Rat!CpPop(b, <<e.rd, e.prd>>)
        ELSE Rat!Edit({}, fix, {}, <<0, 0>>, <<0, 0>>, <<0, 0>>, <<0, 0>>)
     /\ fix' = IF b \in unresolved THEN <<0, 0>> ELSE fix
     /\ Common({}, {}, wb)
     /\ pend' = {b} /\ d1' = <<>>
     /\ unresolved' = unresolved \ {b}
     /\ commit' = Retired(FALSE)

(* The registered squash reaches the reorder buffer (younger_squash_to_rob)*)
SquashYounger(p, wb, ex) ==
  LET first == Rob!Inc(p)
  IN /\ Running /\ p \in pend /\ ~scanning
     /\ IF Rob!Empty THEN Rob!Quiet(wb, ex) ELSE Rob!Squash(p, wb, ex)
     /\ Rat!Edit({}, fix, {}, <<0, 0>>, <<0, 0>>, <<0, 0>>, <<0, 0>>)
     /\ Common({}, {}, wb)
     /\ pend' = {} /\ d1' = <<>>
     /\ unresolved' = {t \in unresolved : Rob!Dist(t, first) >= Rob!Dist(tail, first)}
     /\ commit' = Retired(Rob!SquashHeadSameCycle(p))
     /\ UNCHANGED fix

(* Slot 1 of the last bundle is taken back from all three structures.      *)
TakeBack(wb, ex) ==
  LET s == d1[2]
      ack == Rob!Ack1(FALSE, TRUE)
  IN /\ Running /\ RetractSlot1
     /\ Rob!Retract(FALSE, TRUE, wb, ex)
     /\ Rat!Edit({}, fix, {}, IF ack THEN <<s.rd, s.old>> ELSE <<0, 0>>,
                 <<0, 0>>, <<0, 0>>, <<0, 0>>)
     /\ Common({}, IF ack THEN {s.prd} ELSE {}, wb)
     /\ d1' = <<>>
     /\ commit' = Retired(FALSE)
     /\ UNCHANGED <<pend, fix, unresolved>>

(* The head has faulted.  The redirect is registered, so the allocation    *)
(* logic still sees an ordinary cycle: an instruction may be renamed that  *)
(* the reorder buffer, busy flushing, does not take.                       *)
Fault(ks) ==
  /\ Running
  /\ Rob!ExceptionFlush
  /\ IF ks = <<>>
     THEN /\ Rat!Edit({}, fix, {}, <<0, 0>>, <<0, 0>>, <<0, 0>>, <<0, 0>>)
          /\ d1' = <<>>
          /\ UNCHANGED fix
     ELSE MayAlloc(ks) /\ Rename(ks, {})
  /\ Common(IF ks = <<>> THEN {} ELSE Taken(ks), {}, {})
  /\ unresolved' = {}
  /\ UNCHANGED <<pend, commit>>

(* The release scan walks on; what was allocated with the fault is not     *)
(* dispatched, nor taken back while the scan makes younger_squash_active.  *)
Scan ==
  /\ Running
  /\ Rob!ReleaseScan
  /\ Rat!Edit({}, fix, {}, <<0, 0>>, <<0, 0>>, <<0, 0>>, <<0, 0>>)
  /\ Common({}, {}, {})
  /\ d1' = <<>> /\ pend' = {}
  /\ UNCHANGED <<fix, unresolved, commit>>

(* fpga_top: the trap ends the run, the bridge holds the core in reset     *)
(* until the next program.                                                 *)
Reset ==
  /\ stopped /\ stopped' = FALSE
  /\ q' = [i \in Rob!Index |-> NoEntry]
  /\ head' = 0 /\ tail' = 0 /\ scanning' = FALSE /\ scanCur' = 0 /\ scanTail' = 0
  /\ released' = {} /\ sqMask' = {} /\ trap' = FALSE
  /\ rat' = Rat!Identity /\ stack' = <<>> /\ shadow' = <<>>
  /\ free' = Prf!Regs /\ busy' = {}
  /\ maskD1' = {} /\ pend' = {} /\ d1' = <<>> /\ fix' = <<0, 0>>
  /\ unresolved' = {} /\ commit' = Rat!Identity

Cycle(wb, ex) ==
  \/ \E ks \in Bundles, rel \in Rels : Allocate(ks, rel, wb, ex)
  \/ \E rel \in Rels : Idle(rel, wb, ex)
  \/ \E b \in Resolvable \cup Returns : Redirect(b, wb, ex)
  \/ \E p \in pend : SquashYounger(p, wb, ex)
  \/ TakeBack(wb, ex)

Next ==
  \/ \E wb \in WbSets, ex \in ExSets : Cycle(wb, ex)
  \/ \E ks \in Bundles \cup {<<>>} : Fault(ks)
  \/ Scan
  \/ Reset

Spec == Init /\ [][Next]_vars

-----------------------------------------------------------------------------
(* Properties.                                                             *)

TypeOK ==
  /\ Rob!TypeOK
  /\ rat \in Rat!Map /\ commit \in Rat!Map
  /\ stack \in Seq(Rat!Snapshot(Rob!Tag)) /\ Len(stack) <= CP_DEPTH
  /\ shadow \in Seq(Rat!Snapshot(Rob!Tag)) /\ Len(shadow) <= 1
  /\ free \subseteq Prf!Regs /\ busy \subseteq Prf!Regs
  /\ maskD1 \subseteq Rob!Prd
  /\ pend \subseteq Rob!Tag /\ Cardinality(pend) <= 1
  /\ unresolved \subseteq Rob!Tag /\ stopped \in BOOLEAN

(* In reset mode a trapped core does nothing any more.                     *)
Halted == Faults = "reset" /\ (trap \/ scanning \/ stopped)
(* No redirect, squash or flush under way: an instruction may be renamed.  *)
Settled == ~trap /\ ~scanning /\ ~stopped /\ pend = {}

(* The map the program order implies: the committed one overlaid with the  *)
(* renames in flight.                                                      *)
Writers(r) == {t \in Rob!Tag : Rob!InWindow(t) /\ q[Rob!Idx(t)].rd = r}
Implied(r) ==
  IF Writers(r) = {} THEN commit[r]
  ELSE q[Rob!Idx(CHOOSE t \in Writers(r) :
           \A u \in Writers(r) : Rob!Dist(u, head) <= Rob!Dist(t, head))].prd

(* After any mix of speculation, mispredicts, faults and retirements the   *)
(* next instruction renamed reads the mapping its program order gives it:  *)
(* cp_pop and the trap path leave no trace of squashed instructions and    *)
(* lose none of an older one (cpu_core.sv:1305, cpu_rob.sv:87).            *)
RatPrecise == Settled => \A r \in 1 .. NREG : rat[r] = Implied(r)

(* A register that can be allocated now is nobody's: not the committed     *)
(* value of a register, and in no snapshot a branch in flight may restore. *)
Allocatable == free \ InUse
NoLiveReuse ==
  ~Halted =>
    /\ \A r \in 1 .. NREG : commit[r] \notin Allocatable
    /\ \A s \in DOMAIN stack : stack[s].tag \in unresolved =>
         \A r \in 1 .. NREG : stack[s].map[r] \notin Allocatable
    /\ \A s \in DOMAIN shadow :
         \A r \in 1 .. NREG : shadow[s].map[r] \notin Allocatable

(* Registers are conserved: one that is not free is the destination or the *)
(* replaced mapping of an entry, the committed value of a register, or on  *)
(* its way back through a release port or the squash mask.                 *)
Owned == Rob!InUse \cup {commit[r] : r \in 1 .. NREG} \cup released \cup sqMask \cup maskD1
NoRegisterLost == Settled => Prf!Regs \ free \subseteq Owned

(* A register is marked busy exactly while an instruction that will write  *)
(* it is in flight ("tracks in-flight physical register writes",           *)
(* cpu_core.sv:1993): a reader waits for it, and never for ever.           *)
Unwritten == {q[i].prd : i \in {j \in Rob!Index : Rob!Pending(j)}}
BusyExact ==
  Settled => /\ Unwritten \subseteq busy
             /\ busy \subseteq Rob!InUse \cup sqMask \cup maskD1

(* Every branch that may still resolve has its snapshot, on the stack or   *)
(* in the shadow: a pop never falls back to another one's.                 *)
SnapshotKept ==
  Settled => \A t \in unresolved : \E s \in DOMAIN (stack \o shadow) :
                (stack \o shadow)[s].tag = t
=============================================================================
