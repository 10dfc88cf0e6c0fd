------------------------------- MODULE CpuRob -------------------------------
(***************************************************************************)
(* The reorder buffer (src/RTL/cpu/cpu_rob.sv): a circular array of        *)
(* DEPTH slots addressed by tags of one more bit than an index, so that    *)
(* head = tail means empty and equal indices with different wrap bits mean *)
(* full.  Every action is one clock edge.                                  *)
(*                                                                         *)
(* Abstractions.  An entry keeps what the buffer decides by: done, the     *)
(* architectural register it writes (rd, 0 unless regwrite), its old and   *)
(* new physical register, and whether it carries an exception.  The fields *)
(* of a slot with valid = 0 are never read: such a slot is NoEntry.  pc,   *)
(* inst and wdata are carried by the code and looked at by nobody here.    *)
(* Tag arithmetic is modulo 2 * DEPTH, as the PTR_W + 1 bit registers      *)
(* compute it.                                                             *)
(***************************************************************************)
EXTENDS Integers, FiniteSets, Sequences

CONSTANTS
  DEPTH,          \* ROB_DEPTH: 16 in cpu_core
  NREG,           \* the largest architectural register: 31
  NPRD,           \* the largest physical register number: 63
  NoEntry,        \* a slot whose valid bit is 0
  Ops,            \* what decode may allocate: records [prd, old, rd]
  WbPorts,        \* writeback ports: 3
  DualAlloc       \* FETCH_W = 64 (cpu_core_mem_top): two allocations a cycle

Tag   == 0 .. (2 * DEPTH - 1)
Index == 0 .. (DEPTH - 1)
Reg   == 0 .. NREG
Prd   == 0 .. NPRD
Op    == [prd : Prd \ {0}, old : Prd, rd : Reg]
Entry == [prd : Prd \ {0}, old : Prd, rd : Reg,
          done : BOOLEAN, exc : BOOLEAN]
Request == [ptr : Tag, prd : Prd]

ASSUME DepthAssumption == DEPTH \in Nat /\ DEPTH >= 2
ASSUME PrdAssumption   == NREG \in Nat /\ NPRD \in Nat
ASSUME EntryAssumption == NoEntry \notin Entry
ASSUME OpsAssumption   == Ops \subseteq Op
ASSUME PortsAssumption == WbPorts \in Nat
ASSUME DualAssumption  == DualAlloc \in BOOLEAN

VARIABLES
  q,         \* the slots
  head, tail,
  scanning, scanCur, scanTail,  \* release_scan_active, _cur, _tail
  released,  \* the prds on retire_release_prd and retire1_release_prd
  sqMask,    \* squash_release_mask
  trap       \* trap_redirect

vars == <<q, head, tail, scanning, scanCur, scanTail, released, sqMask, trap>>
scan == <<scanning, scanCur, scanTail>>

-----------------------------------------------------------------------------
(* Tag arithmetic.  Throughout the modules a definition headed "mutation"  *)
(* is not the code's: it is a slip the properties have to tell from it.    *)

(* Mutation: the wrap bit is lost.                                         *)
IncNoWrap(t) == t + 1
Inc(t) == IF t = 2 * DEPTH - 1 THEN 0 ELSE t + 1
Dec(t) == IF t = 0 THEN 2 * DEPTH - 1 ELSE t - 1
Idx(t) == IF t < DEPTH THEN t ELSE t - DEPTH
Dist(a, b) == IF a >= b THEN a - b ELSE a - b + 2 * DEPTH

(* The combinational outputs.                                              *)
Occ   == Dist(tail, head)
Empty == head = tail
InWindow(t) == Dist(t, head) < Occ
SameWrap == (tail < DEPTH) <=> (head < DEPTH)
Full == ~SameWrap /\ Idx(tail) = Idx(head)
FullDual == Full \/ (SameWrap /\ Idx(Inc(tail)) = Idx(head))

Valid(i)   == q[i] # NoEntry
Pending(i) == Valid(i) /\ ~q[i].done
Clean(i)   == Valid(i) /\ q[i].done /\ ~q[i].exc

(* Mutations: only one of the two registers of an entry is masked.         *)
InUseOld == {q[i].old : i \in {j \in Index : Valid(j)}} \ {0}
InUsePrd == {q[i].prd : i \in {j \in Index : Valid(j)}}
(* rob_prd_inuse_mask: PRF allocation never picks one of these.            *)
InUse == {q[i].prd : i \in {j \in Index : Valid(j)}}
           \cup ({q[i].old : i \in {j \in Index : Valid(j)}} \ {0})

HeadDone == ~Empty /\ Valid(Idx(head)) /\ q[Idx(head)].done
FlushNow == HeadDone /\ q[Idx(head)].exc

(* Mutations: the second entry need not be done, or leaves although the    *)
(* squash has just dropped it.                                             *)
Retire1NotDone(sq) ==
  ~sq /\ HeadDone /\ Clean(Idx(head)) /\ Valid(Idx(Inc(head)))
Retire1Squashed(sq) == HeadDone /\ Clean(Idx(head)) /\ Clean(Idx(Inc(head)))
(* retire1_can_pop; sq says that this cycle's squash keeps only the head.  *)
Retire1CanPop(sq) ==
  ~sq /\ HeadDone /\ Clean(Idx(head)) /\ Clean(Idx(Inc(head)))

Popped(sq) ==
  IF ~HeadDone THEN {}
  ELSE IF Retire1CanPop(sq) THEN {Idx(head), Idx(Inc(head))} ELSE {Idx(head)}

HeadAfterPop(sq) ==
  IF ~HeadDone THEN head
  ELSE IF Retire1CanPop(sq) THEN Inc(Inc(head)) ELSE Inc(head)

(* A retiring writer frees the mapping it replaced; an op that writes no   *)
(* register frees its completion tag.                                      *)
Freed(e) == IF e.rd # 0 THEN e.old ELSE e.prd

(* wb_accept: a request completes only the entry it was issued for.        *)
Accept(r) == /\ r.prd # 0
             /\ InWindow(r.ptr)
             /\ Pending(Idx(r.ptr))
             /\ q[Idx(r.ptr)].prd = r.prd

(* A request that is not accepted changes nothing, so what a cycle's       *)
(* requests do is the set of slots whose accepted request is among them.   *)
Completable == {Idx(r.ptr) : r \in {s \in Request : Accept(s)}}
WbSets == {S \in SUBSET Completable : Cardinality(S) <= WbPorts}
ExSets == {S \in SUBSET Completable : Cardinality(S) <= 1}

(* Slots after this cycle's writebacks wb and exception ex: the exception  *)
(* is assigned last.                                                       *)
Written(i, wb, ex) ==
  IF i \in ex THEN [q[i] EXCEPT !.done = TRUE, !.exc = TRUE]
  ELSE IF i \in wb THEN [q[i] EXCEPT !.done = TRUE]
  ELSE q[i]

NewEntry(op) == [prd |-> op.prd, old |-> op.old, rd |-> op.rd,
                 done |-> FALSE, exc |-> FALSE]

-----------------------------------------------------------------------------
(* Retracting the youngest allocation(s), asked for slot 0 (r0), slot 1.   *)

Last1 == Idx(Dec(tail))
Last2 == Idx(Dec(Dec(tail)))
Reclaimable(i) == i # Idx(head) /\ Pending(i)

RetractBoth(r0, r1) == r0 /\ r1 /\ Reclaimable(Last1) /\ Reclaimable(Last2)
RetractOne(r0, r1)  == ~RetractBoth(r0, r1) /\ (r0 \/ r1) /\ Reclaimable(Last1)

(* retract_ack0, retract_ack1: which slot's PRF and RAT state is undone.   *)
Ack0(r0, r1) == ~Empty /\ (RetractBoth(r0, r1) \/ (RetractOne(r0, r1) /\ ~r1))
Ack1(r0, r1) == ~Empty /\ r1 /\ (RetractBoth(r0, r1) \/ RetractOne(r0, r1))

Retracted(r0, r1) ==
  IF Empty THEN {}
  ELSE IF RetractBoth(r0, r1) THEN {Last1, Last2}
  ELSE IF RetractOne(r0, r1) THEN {Last1} ELSE {}

TailAfterRetract(r0, r1) ==
  IF Empty THEN tail
  ELSE IF RetractBoth(r0, r1) THEN Dec(Dec(tail))
  ELSE IF RetractOne(r0, r1) THEN Dec(tail) ELSE tail

(* Mutation: p itself is dropped too.                                      *)
YoungerOrSame(p) == {Idx(t) : t \in {u \in Tag : Dist(u, p) < Dist(tail, p)}}
(* The entries strictly younger than tag p.                                *)
Younger(p) == {Idx(t) : t \in {u \in Tag : /\ Dist(u, Inc(p)) < Dist(tail, Inc(p))
                                           /\ Dist(u, Inc(p)) < DEPTH}}

-----------------------------------------------------------------------------
Init ==
  /\ q = [i \in Index |-> NoEntry]
  /\ head = 0 /\ tail = 0
  /\ scanning = FALSE /\ scanCur = 0 /\ scanTail = 0
  /\ released = {} /\ sqMask = {} /\ trap = FALSE

(* What every cycle without an exception at the head does: pop up to two   *)
(* entries, take the writebacks, drop the slots of gone, fill those of new *)
(* (a function from slots to entries).                                     *)
Retire(sq, gone, new, wb, ex) ==
  /\ ~scanning /\ ~FlushNow
  /\ head' = HeadAfterPop(sq)
  /\ released' = {Freed(q[i]) : i \in Popped(sq)}
  /\ trap' = FALSE
  /\ q' = [i \in Index |-> IF i \in DOMAIN new THEN new[i]
                           ELSE IF i \in gone \cup Popped(sq) THEN NoEntry
                           ELSE Written(i, wb, ex)]
  /\ UNCHANGED scan

NoNew == [i \in {} |-> NoEntry]

(* No allocation, retract or squash this cycle.                            *)
Quiet(wb, ex) ==
  /\ Retire(FALSE, {}, NoNew, wb, ex)
  /\ sqMask' = {}
  /\ UNCHANGED tail

(* alloc_en: an op takes the slot at tail.                                 *)
Alloc(op, wb, ex) ==
  /\ ~Full
  /\ Retire(FALSE, {}, [i \in {Idx(tail)} |-> NewEntry(op)], wb, ex)
  /\ tail' = Inc(tail)
  /\ sqMask' = {}

(* alloc_en and alloc1_en: two ops, unless rob_full_dual is set.           *)
AllocTwo(op0, op1, wb, ex) ==
  /\ DualAlloc /\ ~FullDual
  /\ Retire(FALSE, {}, [i \in {Idx(tail), Idx(Inc(tail))} |->
                         IF i = Idx(tail) THEN NewEntry(op0) ELSE NewEntry(op1)],
            wb, ex)
  /\ tail' = Inc(Inc(tail))
  /\ sqMask' = {}

(* retract_en: the core takes back allocations that found no issue slot.   *)
Retract(r0, r1, wb, ex) ==
  /\ r0 \/ r1
  /\ Retire(FALSE, Retracted(r0, r1), NoNew, wb, ex)
  /\ tail' = TailAfterRetract(r0, r1)
  /\ sqMask' = {}

(* squash_en with squash_rob_ptr = p: ignored unless p is in the window.   *)
SquashHeadSameCycle(p) == p = head /\ HeadDone
(* Mutations: the dropped slots stay valid, or their registers are lost.   *)
SquashKeeps(p, wb, ex) ==
  /\ InWindow(p) /\ Retire(SquashHeadSameCycle(p), {}, NoNew, wb, ex)
  /\ tail' = Inc(p)
  /\ sqMask' = {q[i].prd : i \in {j \in Younger(p) : Valid(j)}}
SquashLoses(p, wb, ex) ==
  /\ InWindow(p) /\ Retire(SquashHeadSameCycle(p), Younger(p), NoNew, wb, ex)
  /\ tail' = Inc(p)
  /\ sqMask' = {}
Squash(p, wb, ex) ==
  /\ ~Empty
  /\ IF InWindow(p)
     THEN /\ Retire(SquashHeadSameCycle(p), Younger(p), NoNew, wb, ex)
          /\ tail' = Inc(p)
          /\ sqMask' = {q[i].prd : i \in {j \in Younger(p) : Valid(j)}}
     ELSE Quiet(wb, ex)

(* The head is done with an exception: redirect, empty the window and let  *)
(* the release scan walk what was in it.  Every other input is ignored.    *)
ExceptionFlush ==
  /\ ~scanning /\ FlushNow
  /\ trap' = TRUE
  /\ scanning' = TRUE /\ scanCur' = head /\ scanTail' = tail
  /\ head' = 0 /\ tail' = 0
  /\ released' = {} /\ sqMask' = {}
  /\ UNCHANGED q

(* Mutation: the scan never advances.                                      *)
ReleaseScanStuck ==
  /\ scanning
  /\ sqMask' = IF Valid(Idx(scanCur)) THEN {q[Idx(scanCur)].prd} ELSE {}
  /\ q' = [q EXCEPT ![Idx(scanCur)] = NoEntry]
  /\ released' = {} /\ trap' = FALSE
  /\ UNCHANGED <<head, tail, scan>>

(* One step of the release scan.  The core allocates, retracts and         *)
(* squashes nothing while squash_busy is high.  (The code leaves the scan  *)
(* pointers at their last value when it is over, where nothing reads them; *)
(* here they go back to 0.)                                                *)
ReleaseScan ==
  /\ scanning
  /\ sqMask' = IF Valid(Idx(scanCur)) THEN {q[Idx(scanCur)].prd} ELSE {}
  /\ q' = [q EXCEPT ![Idx(scanCur)] = NoEntry]
  /\ scanning' = (Inc(scanCur) # scanTail)
  /\ scanCur' = IF Inc(scanCur) = scanTail THEN 0 ELSE Inc(scanCur)
  /\ scanTail' = IF Inc(scanCur) = scanTail THEN 0 ELSE scanTail
  /\ released' = {} /\ trap' = FALSE
  /\ UNCHANGED <<head, tail>>

(* The inputs of a cycle as the core drives them: at most one of           *)
(* allocation, retract and squash, and physical registers not in use.      *)
Run(wb, ex) ==
  \/ Quiet(wb, ex)
  \/ \E op \in Ops : op.prd \notin InUse /\ Alloc(op, wb, ex)
  \/ \E op0, op1 \in Ops :
       /\ {op0.prd, op1.prd} \cap InUse = {} /\ op0.prd # op1.prd
       /\ AllocTwo(op0, op1, wb, ex)
  \/ \E r0, r1 \in BOOLEAN : Retract(r0, r1, wb, ex)
  \/ \E p \in Tag : Squash(p, wb, ex)

Next ==
  \/ ReleaseScan
  \/ ExceptionFlush
  \/ \E wb \in WbSets, ex \in ExSets : Run(wb, ex)

Spec == Init /\ [][Next]_vars
(* The clock does not stop while the scan runs.                            *)
FairSpec == Spec /\ WF_vars(ReleaseScan)

-----------------------------------------------------------------------------
(* Properties.                                                             *)

(* Every register holds a value of its width; slots hold entries.          *)
TypeOK ==
  /\ q \in [Index -> Entry \cup {NoEntry}]
  /\ head \in Tag /\ tail \in Tag
  /\ scanning \in BOOLEAN /\ scanCur \in Tag /\ scanTail \in Tag
  /\ released \subseteq Prd /\ sqMask \subseteq Prd
  /\ trap \in BOOLEAN

(* The slots that must be occupied: the window, or what the release scan   *)
(* has still to walk.                                                      *)
Live(t) == IF scanning THEN Dist(t, scanCur) < Dist(scanTail, scanCur)
           ELSE InWindow(t)
Bounded == IF scanning THEN Dist(scanTail, scanCur) <= DEPTH /\ Empty
           ELSE Occ <= DEPTH

(* No head hole, no hole anywhere, nothing left behind: a slot is valid    *)
(* exactly when a tag of the window (of the scan range during a flush)     *)
(* denotes it, and the window never exceeds the array.  The simulation     *)
(* check "persistent head hole" (cpu_rob.sv:484) samples a part of this.   *)
WindowExact ==
  /\ Bounded
  /\ \A i \in Index : Valid(i) <=> \E t \in Tag : Idx(t) = i /\ Live(t)

(* A physical register is never put back on the free list while an entry   *)
(* still owns it as destination.                                           *)
NoLiveRelease ==
  \A i \in Index : Valid(i) => q[i].prd \notin sqMask

(* Two entries never wait for the same physical register: a writeback      *)
(* would complete the wrong one (cpu_rob.sv:555).                          *)
PendingDistinct ==
  \A i, j \in Index : Pending(i) /\ Pending(j) /\ i # j => q[i].prd # q[j].prd

(* An entry leaves the buffer in one of four ways, each accounted for: it  *)
(* retires and frees its register, a squash or the release scan puts its   *)
(* destination in the mask, or it was among the two youngest and undone.   *)
LeavingAccounted ==
  [][\A i \in Index : Valid(i) /\ q'[i] # q[i] /\ ~(q'[i] # NoEntry /\ q'[i].prd = q[i].prd) =>
        \/ q[i].prd \in sqMask'
        \/ Clean(i) /\ i \in {Idx(head), Idx(Inc(head))} /\ Freed(q[i]) \in released'
        \/ Pending(i) /\ i \in {Last1, Last2} /\ i # Idx(head)]_vars

(* The walk that follows an exception ends: squash_busy, which blocks every *)
(* allocation, falls again.                                                *)
ScanEnds == scanning ~> ~scanning

(* rob_full_dual is "True when tail cannot accept two new entries"         *)
(* (cpu_rob.sv:71): whoever allocates two relies on it.                    *)
DualRoom == Occ + 2 > DEPTH => FullDual

(* Seen from outside the buffer is a queue in program order: Order.        *)
Nth(t, n) == IF t + n < 2 * DEPTH THEN t + n ELSE t + n - 2 * DEPTH
Window == [n \in 1 .. Occ |->
             LET e == q[Idx(Nth(head, n - 1))]
             IN [prd |-> e.prd, done |-> e.done, exc |-> e.exc]]
Order == INSTANCE RobOrder WITH window <- Window, flushing <- scanning
InOrder == Order!Spec
=============================================================================
