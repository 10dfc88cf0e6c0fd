---------------------------- MODULE CpuRob_proofs ----------------------------
(***************************************************************************)
(* What CpuRob promises for every depth, register count and port count:    *)
(* its type invariant, and whose a physical register is.                   *)
(***************************************************************************)
EXTENDS CpuRob, TLAPS

(* Tags stay tags and denote slots.                                        *)
LEMMA TagArithmetic ==
  ASSUME NEW t \in Tag
  PROVE  /\ Inc(t) \in Tag /\ Dec(t) \in Tag
         /\ Idx(t) \in Index
BY DepthAssumption DEF Tag, Index, Inc, Dec, Idx

(* A slot whose request is accepted holds an entry.                        *)
LEMMA CompletableValid ==
  ASSUME TypeOK, NEW i \in Completable
  PROVE  i \in Index /\ Valid(i) /\ q[i] \in Entry
<1>1. PICK r \in Request : i = Idx(r.ptr) /\ Accept(r)
  BY DEF Completable
<1>2. r.ptr \in Tag
  BY DEF Request
<1>3. i \in Index
  BY <1>1, <1>2, TagArithmetic
<1>4. Valid(i)
  BY <1>1 DEF Accept, Pending
<1> QED
  BY <1>3, <1>4 DEF TypeOK, Valid

LEMMA WrittenType ==
  ASSUME TypeOK, NEW wb \in WbSets, NEW ex \in ExSets, NEW i \in Index
  PROVE  Written(i, wb, ex) \in Entry \cup {NoEntry}
<1>1. wb \subseteq Completable /\ ex \subseteq Completable
  BY DEF WbSets, ExSets
<1>2. CASE i \in wb \cup ex
  <2>1. q[i] \in Entry
    BY <1>1, <1>2, CompletableValid
  <2> QED
    BY <1>2, <2>1 DEF Written, Entry
<1>3. CASE i \notin wb \cup ex
  BY <1>3 DEF Written, TypeOK
<1> QED
  BY <1>2, <1>3

LEMMA PoppedValid ==
  ASSUME TypeOK, NEW sq \in BOOLEAN, NEW i \in Popped(sq)
  PROVE  i \in Index /\ Valid(i) /\ q[i] \in Entry
<1>1. Idx(head) \in Index /\ Idx(Inc(head)) \in Index
  BY TagArithmetic DEF TypeOK
<1>2. Valid(i)
  BY DEF Popped, HeadDone, Retire1CanPop, Clean
<1> QED
  BY <1>1, <1>2 DEF Popped, TypeOK, Valid

(* The part of a cycle that Retire describes keeps the types, whatever     *)
(* slots it drops and whatever well-typed entries it fills.                *)
LEMMA RetireType ==
  ASSUME TypeOK, NEW wb \in WbSets, NEW ex \in ExSets,
         NEW sq \in BOOLEAN, NEW gone, NEW new,
         \A i \in DOMAIN new : new[i] \in Entry,
         Retire(sq, gone, new, wb, ex)
  PROVE  /\ q' \in [Index -> Entry \cup {NoEntry}]
         /\ head' \in Tag
         /\ scanning' \in BOOLEAN /\ scanCur' \in Tag /\ scanTail' \in Tag
         /\ released' \subseteq Prd
         /\ trap' \in BOOLEAN
<1>1. q' \in [Index -> Entry \cup {NoEntry}]
  <2> SUFFICES ASSUME NEW i \in Index
               PROVE  (IF i \in DOMAIN new THEN new[i]
                       ELSE IF i \in gone \cup Popped(sq) THEN NoEntry
                       ELSE Written(i, wb, ex)) \in Entry \cup {NoEntry}
    BY DEF Retire
  <2> QED
    BY WrittenType
<1>2. head' \in Tag
  BY TagArithmetic DEF Retire, HeadAfterPop, TypeOK
<1>3. released' \subseteq Prd
  <2> SUFFICES ASSUME NEW i \in Popped(sq)
               PROVE  Freed(q[i]) \in Prd
    BY DEF Retire
  <2> QED
    BY PoppedValid DEF Freed, Entry
<1> QED
  BY <1>1, <1>2, <1>3 DEF Retire, TypeOK, scan

LEMMA NewEntryType ==
  ASSUME NEW op \in Ops
  PROVE  NewEntry(op) \in Entry
BY OpsAssumption DEF NewEntry, Entry, Op

LEMMA YoungerType ==
  ASSUME NEW p \in Tag
  PROVE  Younger(p) \subseteq Index
BY TagArithmetic DEF Younger

(* A cycle that neither flushes nor scans keeps the types.                 *)
LEMMA RunType ==
  ASSUME TypeOK, NEW wb \in WbSets, NEW ex \in ExSets, Run(wb, ex)
  PROVE  TypeOK'
<1>1. ASSUME Quiet(wb, ex) PROVE TypeOK'
  <2>1. \A i \in DOMAIN NoNew : NoNew[i] \in Entry
    BY DEF NoNew
  <2> QED
    BY <1>1, <2>1, RetireType DEF Quiet, TypeOK
<1>2. ASSUME NEW op \in Ops, Alloc(op, wb, ex) PROVE TypeOK'
  <2> DEFINE new == [i \in {Idx(tail)} |-> NewEntry(op)]
  <2>1. \A i \in DOMAIN new : new[i] \in Entry
    BY NewEntryType
  <2>2. Retire(FALSE, {}, new, wb, ex)
    BY <1>2 DEF Alloc
  <2> HIDE DEF new
  <2> QED
    BY <1>2, <2>1, <2>2, RetireType, TagArithmetic DEF Alloc, TypeOK
<1>3. ASSUME NEW op0 \in Ops, NEW op1 \in Ops, AllocTwo(op0, op1, wb, ex) PROVE TypeOK'
  <2> DEFINE new == [i \in {Idx(tail), Idx(Inc(tail))} |->
                       IF i = Idx(tail) THEN NewEntry(op0) ELSE NewEntry(op1)]
  <2>1. \A i \in DOMAIN new : new[i] \in Entry
    BY NewEntryType
  <2>2. Retire(FALSE, {}, new, wb, ex)
    BY <1>3 DEF AllocTwo
  <2> HIDE DEF new
  <2> QED
    BY <1>3, <2>1, <2>2, RetireType, TagArithmetic DEF AllocTwo, TypeOK
<1>4. ASSUME NEW r0 \in BOOLEAN, NEW r1 \in BOOLEAN, Retract(r0, r1, wb, ex) PROVE TypeOK'
  <2>1. \A i \in DOMAIN NoNew : NoNew[i] \in Entry
    BY DEF NoNew
  <2>2. TailAfterRetract(r0, r1) \in Tag
    BY TagArithmetic DEF TailAfterRetract, TypeOK
  <2> QED
    BY <1>4, <2>1, <2>2, RetireType DEF Retract, TypeOK
<1>5. ASSUME NEW p \in Tag, Squash(p, wb, ex) PROVE TypeOK'
  <2>1. \A i \in DOMAIN NoNew : NoNew[i] \in Entry
    BY DEF NoNew
  <2>2. CASE InWindow(p)
    <3>1. {q[i].prd : i \in {j \in Younger(p) : Valid(j)}} \subseteq Prd
      BY YoungerType DEF TypeOK, Valid, Entry
    <3>2. SquashHeadSameCycle(p) \in BOOLEAN
      BY DEF SquashHeadSameCycle, HeadDone, Empty, Valid, TypeOK, Entry
    <3>3. Retire(SquashHeadSameCycle(p), Younger(p), NoNew, wb, ex)
      BY <1>5, <2>2 DEF Squash
    <3> QED
      BY <1>5, <2>1, <2>2, <3>1, <3>2, <3>3, RetireType, TagArithmetic DEF Squash, TypeOK
  <2>3. CASE ~InWindow(p)
    BY <1>1, <1>5, <2>3 DEF Squash
  <2> QED
    BY <2>2, <2>3
<1> QED
  BY <1>1, <1>2, <1>3, <1>4, <1>5 DEF Run

LEMMA InitType == Init => TypeOK
<1>1. 0 \in Tag
  BY DepthAssumption DEF Tag
<1> QED
  BY <1>1 DEF Init, TypeOK

LEMMA TypeNext ==
  ASSUME TypeOK, [Next]_vars
  PROVE  TypeOK'
<1>1. CASE ReleaseScan
  <2>1. Idx(scanCur) \in Index /\ Inc(scanCur) \in Tag /\ 0 \in Tag
    BY TagArithmetic, DepthAssumption DEF TypeOK, Tag
  <2>2. sqMask' \subseteq Prd
    BY <1>1, <2>1 DEF ReleaseScan, TypeOK, Valid, Entry
  <2>3. q' \in [Index -> Entry \cup {NoEntry}]
    BY <1>1, <2>1 DEF ReleaseScan, TypeOK
  <2>4. scanning' \in BOOLEAN /\ scanCur' \in Tag /\ scanTail' \in Tag
    BY <1>1, <2>1 DEF ReleaseScan, TypeOK
  <2> QED
    BY <1>1, <2>2, <2>3, <2>4 DEF ReleaseScan, TypeOK
<1>2. CASE ExceptionFlush
  <2>1. 0 \in Tag
    BY DepthAssumption DEF Tag
  <2> QED
    BY <1>2, <2>1 DEF ExceptionFlush, TypeOK
<1>3. CASE \E wb \in WbSets, ex \in ExSets : Run(wb, ex)
  BY <1>3, RunType
<1>4. CASE UNCHANGED vars
  BY <1>4 DEF vars, TypeOK
<1> QED
  BY <1>1, <1>2, <1>3, <1>4 DEF Next

(* Every register keeps a value of its width and every slot an entry or    *)
(* none, through any mix of allocations, writebacks, retirements, retracts,*)
(* squashes and flushes (cpu_rob.sv:235-454).                              *)
THEOREM TypeCorrect == Spec => []TypeOK
BY InitType, TypeNext, PTL DEF Spec

-----------------------------------------------------------------------------
(***************************************************************************)
(* Physical registers in the reorder buffer, for every depth, any number of *)
(* writeback ports and with one or two allocations a cycle: no two entries *)
(* have the same destination, and none that is put back on the free list   *)
(* still belongs to an entry.                                              *)
(*                                                                         *)
(* PendingDistinct is not inductive: an entry that is done keeps its       *)
(* register and may be squashed later.  Owners says the same of all valid  *)
(* entries.  No step but allocation gives a slot a register it did not have *)
(* (Inherits), and the squash mask names the registers of the slots that   *)
(* are emptied in the same cycle, which by Owners belong to nobody else.   *)
(***************************************************************************)

Owners == \A i, j \in Index : Valid(i) /\ Valid(j) /\ i # j => q[i].prd # q[j].prd
RInv == TypeOK /\ Owners /\ NoLiveRelease

(* Slot i holds nothing, or an entry with the register it had before.      *)
Inherits(i) == q'[i] # NoEntry => Valid(i) /\ q'[i].prd = q[i].prd

LEMMA OwnersInherit ==
  ASSUME Owners, \A i \in Index : Inherits(i)
  PROVE  Owners'
BY DEF Owners, Inherits, Valid

LEMMA WrittenInherits ==
  ASSUME TypeOK, NEW wb \in WbSets, NEW ex \in ExSets, NEW i \in Index,
         Written(i, wb, ex) # NoEntry
  PROVE  Valid(i) /\ Written(i, wb, ex).prd = q[i].prd
<1>1. wb \subseteq Completable /\ ex \subseteq Completable
  BY DEF WbSets, ExSets
<1>2. CASE i \in wb \cup ex
  <2>1. Valid(i) /\ q[i] \in Entry
    BY <1>1, <1>2, CompletableValid
  <2> QED
    BY <1>2, <2>1 DEF Written, Entry
<1>3. CASE i \notin wb \cup ex
  BY <1>3 DEF Written, Valid
<1> QED
  BY <1>2, <1>3

(* What a cycle of Retire leaves in a slot that it does not fill.          *)
LEMMA RetireInherits ==
  ASSUME TypeOK, NEW wb \in WbSets, NEW ex \in ExSets, NEW sq, NEW gone, NEW new,
         Retire(sq, gone, new, wb, ex), NEW i \in Index, i \notin DOMAIN new
  PROVE  Inherits(i) /\ (i \in gone => q'[i] = NoEntry)
<1>1. q'[i] = IF i \in gone \cup Popped(sq) THEN NoEntry ELSE Written(i, wb, ex)
  BY DEF Retire
<1> QED
  BY <1>1, WrittenInherits DEF Inherits

(* A cycle that allocates nothing and squashes at most gone.               *)
LEMMA ShrinkInv ==
  ASSUME RInv, NEW wb \in WbSets, NEW ex \in ExSets, NEW sq, NEW gone \in SUBSET Index,
         Retire(sq, gone, NoNew, wb, ex),
         sqMask' \in {{}, {q[i].prd : i \in {j \in gone : Valid(j)}}}
  PROVE  Owners' /\ NoLiveRelease'
<1>1. \A i \in Index : Inherits(i) /\ (i \in gone => q'[i] = NoEntry)
  BY RetireInherits DEF RInv, NoNew
<1>2. Owners'
  BY <1>1, OwnersInherit DEF RInv
<1>3. ASSUME NEW i \in Index, q'[i] # NoEntry PROVE q'[i].prd \notin sqMask'
  <2>1. Valid(i) /\ q'[i].prd = q[i].prd /\ i \notin gone
    BY <1>1, <1>3 DEF Inherits
  <2>2. \A j \in gone : Valid(j) => q[j].prd # q[i].prd
    BY <2>1 DEF RInv, Owners
  <2> QED
    BY <2>1, <2>2
<1> QED
  BY <1>2, <1>3 DEF NoLiveRelease, Valid

(* A cycle that fills slots with registers that are not in use.            *)
LEMMA GrowInv ==
  ASSUME RInv, NEW wb \in WbSets, NEW ex \in ExSets, NEW new,
         Retire(FALSE, {}, new, wb, ex), sqMask' = {},
         \A i \in DOMAIN new : new[i].prd \notin InUse,
         \A i, j \in DOMAIN new : i # j => new[i].prd # new[j].prd
  PROVE  Owners' /\ NoLiveRelease'
<1>1. \A i \in Index : i \notin DOMAIN new => Inherits(i)
  BY RetireInherits DEF RInv
<1>2. \A i \in Index : i \in DOMAIN new => q'[i] = new[i]
  BY DEF Retire
<1>3. \A i \in Index : Valid(i) => q[i].prd \in InUse
  BY DEF InUse
<1>4. ASSUME NEW i \in Index, NEW j \in Index, q'[i] # NoEntry, q'[j] # NoEntry, i # j
      PROVE  q'[i].prd # q'[j].prd
  <2>1. CASE i \in DOMAIN new /\ j \in DOMAIN new
    BY <1>2, <1>4, <2>1
  <2>2. CASE i \in DOMAIN new /\ j \notin DOMAIN new
    BY <1>1, <1>2, <1>3, <1>4, <2>2 DEF Inherits
  <2>3. CASE i \notin DOMAIN new /\ j \in DOMAIN new
    BY <1>1, <1>2, <1>3, <1>4, <2>3 DEF Inherits
  <2>4. CASE i \notin DOMAIN new /\ j \notin DOMAIN new
    BY <1>1, <1>4, <2>4 DEF Inherits, RInv, Owners
  <2> QED
    BY <2>1, <2>2, <2>3, <2>4
<1> QED
  BY <1>4 DEF Owners, NoLiveRelease, Valid

LEMMA RunInv ==
  ASSUME RInv, NEW wb \in WbSets, NEW ex \in ExSets, Run(wb, ex)
  PROVE  Owners' /\ NoLiveRelease'
<1>1. ASSUME Quiet(wb, ex) PROVE Owners' /\ NoLiveRelease'
  <2>1. Retire(FALSE, {}, NoNew, wb, ex) /\ sqMask' = {}
    BY <1>1 DEF Quiet
  <2>2. {} \in SUBSET Index
    OBVIOUS
  <2> QED
    BY <2>1, <2>2, ShrinkInv
<1>2. ASSUME NEW op \in Ops, op.prd \notin InUse, Alloc(op, wb, ex)
      PROVE  Owners' /\ NoLiveRelease'
  <2> DEFINE new == [i \in {Idx(tail)} |-> NewEntry(op)]
  <2>1. \A i \in DOMAIN new : new[i].prd = op.prd
    BY DEF NewEntry
  <2>2. Retire(FALSE, {}, new, wb, ex) /\ sqMask' = {}
    BY <1>2 DEF Alloc
  <2>3. \A i, j \in DOMAIN new : i = j
    OBVIOUS
  <2> HIDE DEF new
  <2>4. \A i \in DOMAIN new : new[i].prd \notin InUse
    BY <1>2, <2>1
  <2>5. \A i, j \in DOMAIN new : i # j => new[i].prd # new[j].prd
    BY <2>3
  <2> QED
    BY <2>2, <2>4, <2>5, GrowInv
<1>3. ASSUME NEW op0 \in Ops, NEW op1 \in Ops, {op0.prd, op1.prd} \cap InUse = {},
             op0.prd # op1.prd, AllocTwo(op0, op1, wb, ex)
      PROVE  Owners' /\ NoLiveRelease'
  <2> DEFINE new == [i \in {Idx(tail), Idx(Inc(tail))} |->
                       IF i = Idx(tail) THEN NewEntry(op0) ELSE NewEntry(op1)]
  <2>1. \A i \in DOMAIN new : new[i].prd = IF i = Idx(tail) THEN op0.prd ELSE op1.prd
    BY DEF NewEntry
  <2>2. Retire(FALSE, {}, new, wb, ex) /\ sqMask' = {}
    BY <1>3 DEF AllocTwo
  <2>3. \A i, j \in DOMAIN new : i # j => (i = Idx(tail)) # (j = Idx(tail))
    OBVIOUS
  <2> HIDE DEF new
  <2>4. \A i \in DOMAIN new : new[i].prd \notin InUse
    BY <1>3, <2>1
  <2>5. \A i, j \in DOMAIN new : i # j => new[i].prd # new[j].prd
    BY <1>3, <2>1, <2>3
  <2> QED
    BY <2>2, <2>4, <2>5, GrowInv
<1>4. ASSUME NEW r0 \in BOOLEAN, NEW r1 \in BOOLEAN, Retract(r0, r1, wb, ex)
      PROVE  Owners' /\ NoLiveRelease'
  <2>1. Retracted(r0, r1) \in SUBSET Index
    <3>1. Last1 \in Index /\ Last2 \in Index
      BY TagArithmetic DEF RInv, TypeOK, Last1, Last2
    <3> QED
      BY <3>1 DEF Retracted
  <2> QED
    BY <1>4, <2>1, ShrinkInv DEF Retract
<1>5. ASSUME NEW p \in Tag, Squash(p, wb, ex) PROVE Owners' /\ NoLiveRelease'
  <2>1. CASE InWindow(p)
    <3>1. Younger(p) \in SUBSET Index
      BY YoungerType
    <3> QED
      BY <1>5, <2>1, <3>1, ShrinkInv DEF Squash
  <2>2. CASE ~InWindow(p)
    BY <1>1, <1>5, <2>2 DEF Squash
  <2> QED
    BY <2>1, <2>2
<1> QED
  BY <1>1, <1>2, <1>3, <1>4, <1>5 DEF Run

LEMMA InitRInv == Init => RInv
<1> SUFFICES ASSUME Init PROVE RInv
  OBVIOUS
<1>1. Owners /\ NoLiveRelease
  BY DEF Init, Owners, NoLiveRelease, Valid
<1> QED
  BY <1>1, InitType DEF RInv

LEMMA NextRInv ==
  ASSUME RInv, [Next]_vars
  PROVE  RInv'
<1>1. TypeOK'
  BY TypeNext DEF RInv
<1>2. CASE ReleaseScan
  <2>1. Idx(scanCur) \in Index
    BY TagArithmetic DEF RInv, TypeOK
  <2>2. \A i \in Index : Inherits(i) /\ q'[Idx(scanCur)] = NoEntry
    BY <1>2, <2>1 DEF ReleaseScan, Inherits, Valid, RInv, TypeOK
  <2>3. Owners'
    BY <2>2, OwnersInherit DEF RInv
  <2>4. ASSUME NEW i \in Index, q'[i] # NoEntry PROVE q'[i].prd \notin sqMask'
    <3>1. Valid(i) /\ q'[i].prd = q[i].prd /\ i # Idx(scanCur)
      BY <2>2, <2>4 DEF Inherits
    <3>2. Valid(Idx(scanCur)) => q[Idx(scanCur)].prd # q[i].prd
      BY <2>1, <3>1 DEF RInv, Owners
    <3> QED
      BY <1>2, <3>1, <3>2 DEF ReleaseScan
  <2> QED
    BY <1>1, <2>3, <2>4 DEF RInv, NoLiveRelease, Valid
<1>3. CASE ExceptionFlush
  BY <1>1, <1>3 DEF ExceptionFlush, RInv, Owners, NoLiveRelease, Valid
<1>4. ASSUME NEW wb \in WbSets, NEW ex \in ExSets, Run(wb, ex) PROVE RInv'
  BY <1>1, <1>4, RunInv DEF RInv
<1>5. CASE UNCHANGED vars
  BY <1>1, <1>5 DEF vars, RInv, Owners, NoLiveRelease, Valid
<1> QED
  BY <1>2, <1>3, <1>4, <1>5 DEF Next

(* No register is put back on the free list while an entry still owns it:  *)
(* the mask of a squash or of the release scan names nothing that stays    *)
(* (cpu_rob.sv:332-358, 259-268).                                          *)
THEOREM ReleasesDead == Spec => []NoLiveRelease
<1>1. RInv => NoLiveRelease
  BY DEF RInv
<1>2. RInv /\ [Next]_vars => RInv'
  BY NextRInv
<1> QED
  BY InitRInv, <1>1, <1>2, PTL DEF Spec

(* At most one entry waits for a register, so that a writeback that names  *)
(* it completes the right one (cpu_rob.sv:148-162, 555).                   *)
THEOREM DestinationsDistinct == Spec => []PendingDistinct
<1>1. RInv => PendingDistinct
  BY DEF RInv, Owners, PendingDistinct, Pending
<1>2. RInv /\ [Next]_vars => RInv'
  BY NextRInv
<1> QED
  BY InitRInv, <1>1, <1>2, PTL DEF Spec
=============================================================================
