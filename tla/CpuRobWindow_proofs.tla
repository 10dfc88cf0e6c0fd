------------------------- MODULE CpuRobWindow_proofs -------------------------
(***************************************************************************)
(* For every depth, the reorder buffer of the single-allocation core has   *)
(* no hole and never exceeds its array: WindowExact is an invariant.  With *)
(* two allocations a cycle it is one as long as rob_full_dual does what it *)
(* is meant to do (Roomy).                                                 *)
(*                                                                         *)
(* The arithmetic of tags is dealt with first, on an arbitrary half-open   *)
(* range of tags from a to b; the steps of the buffer then only extend the *)
(* range at an end or cut it.                                              *)
(***************************************************************************)
EXTENDS CpuRob_proofs

(* The range from a to b has a tag that denotes slot i.                    *)
Covers(a, b, i) == \/ Dist(i, a) < Dist(b, a)
                   \/ Dist(i + DEPTH, a) < Dist(b, a)

(* The range of the window, or of what is left to walk.                    *)
From == IF scanning THEN scanCur ELSE head
To   == IF scanning THEN scanTail ELSE tail

(* What makes WindowExact inductive: the scan has always something left to *)
(* walk, so that its next step cannot run past scanTail.                   *)
Exact == /\ Dist(To, From) <= DEPTH
         /\ scanning => Empty /\ scanCur # scanTail
         /\ \A i \in Index : Valid(i) <=> Covers(From, To, i)
IInv == TypeOK /\ Exact

(* Who allocates two has room for two.                                     *)
Roomy == DualAlloc => DualRoom

-----------------------------------------------------------------------------
(* Ranges of tags.                                                         *)

LEMMA CoversSome ==
  ASSUME NEW a \in Tag, NEW b \in Tag, NEW i \in Index
  PROVE  Covers(a, b, i) <=> \E t \in Tag : Idx(t) = i /\ Dist(t, a) < Dist(b, a)
<1>1. /\ i \in Tag /\ i + DEPTH \in Tag
      /\ Idx(i) = i /\ Idx(i + DEPTH) = i
  BY DepthAssumption DEF Index, Tag, Idx
<1>2. \A t \in Tag : Idx(t) = i => t = i \/ t = i + DEPTH
  BY DepthAssumption DEF Index, Tag, Idx
<1> QED
  BY <1>1, <1>2 DEF Covers

LEMMA DistType ==
  ASSUME NEW a \in Tag, NEW b \in Tag
  PROVE  Dist(a, b) \in Nat
BY DepthAssumption DEF Tag, Dist

LEMMA EmptyRange ==
  ASSUME NEW a \in Tag, NEW b \in Tag, NEW i \in Index, Covers(a, b, i)
  PROVE  a # b
BY DepthAssumption DEF Tag, Index, Covers, Dist

LEMMA CutFront ==
  ASSUME NEW a \in Tag, NEW b \in Tag, Dist(b, a) <= DEPTH, a # b
  PROVE  /\ Dist(b, Inc(a)) = Dist(b, a) - 1
         /\ \A i \in Index : Covers(Inc(a), b, i) <=> Covers(a, b, i) /\ i # Idx(a)
BY DepthAssumption, SMTT(60) DEF Tag, Index, Covers, Dist, Idx, Inc

LEMMA GrowBack ==
  ASSUME NEW a \in Tag, NEW b \in Tag, Dist(b, a) < DEPTH
  PROVE  /\ Dist(Inc(b), a) = Dist(b, a) + 1
         /\ \A i \in Index : Covers(a, Inc(b), i) <=> Covers(a, b, i) \/ i = Idx(b)
BY DepthAssumption, SMTT(60) DEF Tag, Index, Covers, Dist, Idx, Inc

LEMMA CutBack ==
  ASSUME NEW a \in Tag, NEW b \in Tag, Dist(b, a) <= DEPTH, a # b
  PROVE  /\ Dist(Dec(b), a) = Dist(b, a) - 1
         /\ \A i \in Index : Covers(a, Dec(b), i) <=> Covers(a, b, i) /\ i # Idx(Dec(b))
BY DepthAssumption, SMTT(60) DEF Tag, Index, Covers, Dist, Idx, Dec

(* Cutting behind p, which is in the range, leaves what is up to p.        *)
LEMMA CutBehind ==
  ASSUME NEW a \in Tag, NEW b \in Tag, NEW p \in Tag,
         Dist(b, a) <= DEPTH, Dist(p, a) < Dist(b, a)
  PROVE  /\ Dist(Inc(p), a) = Dist(p, a) + 1
         /\ Dist(b, Inc(p)) < DEPTH
         /\ \A i \in Index : Covers(a, Inc(p), i) <=>
                               Covers(a, b, i) /\ ~Covers(Inc(p), b, i)
BY DepthAssumption, SMTT(120) DEF Tag, Index, Covers, Dist, Idx, Inc

-----------------------------------------------------------------------------
(* What one cycle does to the slots and to the front of the window.        *)

(* Writebacks and exceptions fill no slot and empty none: the slots after  *)
(* a cycle are those before, without the dropped, with the new.            *)
LEMMA RetireSlots ==
  ASSUME TypeOK, NEW wb \in WbSets, NEW ex \in ExSets,
         NEW sq \in BOOLEAN, NEW gone, NEW new,
         \A i \in DOMAIN new : new[i] \in Entry,
         Retire(sq, gone, new, wb, ex)
  PROVE  \A i \in Index : q'[i] # NoEntry <=>
           i \in DOMAIN new \/ (Valid(i) /\ i \notin gone \cup Popped(sq))
<1> SUFFICES ASSUME NEW i \in Index
             PROVE  q'[i] # NoEntry <=>
                      i \in DOMAIN new \/ (Valid(i) /\ i \notin gone \cup Popped(sq))
  OBVIOUS
<1>1. CASE i \in DOMAIN new
  BY <1>1, EntryAssumption DEF Retire
<1>2. CASE i \notin DOMAIN new /\ i \in gone \cup Popped(sq)
  BY <1>2 DEF Retire
<1>3. CASE i \notin DOMAIN new /\ i \notin gone \cup Popped(sq)
  <2>1. q'[i] = Written(i, wb, ex)
    BY <1>3 DEF Retire
  <2>2. CASE i \in wb \cup ex
    <3>1. i \in Completable
      BY <2>2 DEF WbSets, ExSets
    <3>2. Valid(i) /\ q[i] \in Entry
      BY <3>1, CompletableValid
    <3>3. Written(i, wb, ex) \in Entry
      BY <2>2, <3>2 DEF Written, Entry
    <3> QED
      BY <1>3, <2>1, <3>2, <3>3, EntryAssumption
  <2>3. CASE i \notin wb \cup ex
    BY <1>3, <2>1, <2>3 DEF Written, Valid
  <2> QED
    BY <2>2, <2>3
<1> QED
  BY <1>1, <1>2, <1>3

(* The window in a cycle without a scan.                                   *)
LEMMA Running ==
  ASSUME Exact, ~scanning
  PROVE  /\ Dist(tail, head) <= DEPTH
         /\ \A i \in Index : Valid(i) <=> Covers(head, tail, i)
BY DEF Exact, From, To

(* Two entries retire together only when the window has two.               *)
LEMMA SecondPopped ==
  ASSUME TypeOK, Exact, ~scanning, NEW sq \in BOOLEAN, Retire1CanPop(sq)
  PROVE  Inc(head) # tail
<1>1. head \in Tag /\ tail \in Tag /\ Inc(head) \in Tag /\ Idx(Inc(head)) \in Index
  BY TagArithmetic DEF TypeOK
<1>2. Covers(head, tail, Idx(Inc(head)))
  BY <1>1, Running DEF Retire1CanPop, Clean
<1>3. head # tail
  BY <1>1, <1>2, EmptyRange
<1>4. Idx(Inc(head)) # Idx(head)
  BY <1>1, DepthAssumption DEF Tag, Inc, Idx
<1>5. Covers(Inc(head), tail, Idx(Inc(head)))
  BY <1>1, <1>2, <1>3, <1>4, CutFront, Running
<1> QED
  BY <1>1, <1>5, EmptyRange

(* Retiring cuts the popped slots off the front of any range that starts   *)
(* at head and holds them.                                                 *)
LEMMA PopCuts ==
  ASSUME TypeOK, NEW sq \in BOOLEAN, NEW b \in Tag, Dist(b, head) <= DEPTH,
         HeadDone => head # b, Retire1CanPop(sq) => Inc(head) # b
  PROVE  /\ HeadAfterPop(sq) \in Tag
         /\ Dist(b, HeadAfterPop(sq)) <= Dist(b, head)
         /\ \A i \in Index : Covers(HeadAfterPop(sq), b, i) <=>
                               Covers(head, b, i) /\ i \notin Popped(sq)
<1>1. head \in Tag /\ Inc(head) \in Tag /\ Inc(Inc(head)) \in Tag
  BY TagArithmetic DEF TypeOK
<1>2. Dist(b, head) \in Int
  BY <1>1, DepthAssumption DEF Tag, Dist
<1>3. CASE ~HeadDone
  <2>1. HeadAfterPop(sq) = head /\ Popped(sq) = {}
    BY <1>3 DEF HeadAfterPop, Popped
  <2> QED
    BY <1>1, <1>2, <2>1
<1>4. CASE HeadDone /\ ~Retire1CanPop(sq)
  <2>1. HeadAfterPop(sq) = Inc(head) /\ Popped(sq) = {Idx(head)}
    BY <1>4 DEF HeadAfterPop, Popped
  <2> QED
    BY <1>1, <1>2, <1>4, <2>1, CutFront
<1>5. CASE HeadDone /\ Retire1CanPop(sq)
  <2>1. HeadAfterPop(sq) = Inc(Inc(head)) /\ Popped(sq) = {Idx(head), Idx(Inc(head))}
    BY <1>5 DEF HeadAfterPop, Popped
  <2>2. /\ Dist(b, Inc(head)) = Dist(b, head) - 1
        /\ \A i \in Index : Covers(Inc(head), b, i) <=> Covers(head, b, i) /\ i # Idx(head)
    BY <1>1, <1>5, CutFront
  <2>4. Dist(b, Inc(head)) <= DEPTH /\ Dist(b, Inc(head)) \in Int
    BY <1>2, <2>2, DepthAssumption
  <2>3. /\ Dist(b, Inc(Inc(head))) = Dist(b, Inc(head)) - 1
        /\ \A i \in Index : Covers(Inc(Inc(head)), b, i) <=>
                              Covers(Inc(head), b, i) /\ i # Idx(Inc(head))
    BY <1>1, <1>5, <2>4, CutFront
  <2> QED
    BY <1>1, <1>2, <2>1, <2>2, <2>3, <2>4
<1> QED
  BY <1>3, <1>4, <1>5

-----------------------------------------------------------------------------
(* The actions.                                                            *)

(* It remains to show, of a cycle without a scan, that the slots it leaves *)
(* occupied are those of the window it leaves.                             *)
LEMMA ExactNext ==
  ASSUME ~scanning, UNCHANGED scan, Dist(tail', head') <= DEPTH,
         \A i \in Index : q'[i] # NoEntry <=> Covers(head', tail', i)
  PROVE  Exact'
BY DEF Exact, From, To, Valid, scan, Covers

(* Full means that the window has DEPTH entries.                           *)
LEMMA NotFull ==
  ASSUME TypeOK, Exact, ~scanning, ~Full
  PROVE  Dist(tail, head) < DEPTH
<1>1. head \in Tag /\ tail \in Tag /\ Dist(tail, head) <= DEPTH
  BY Running DEF TypeOK
<1> QED
  BY <1>1, DepthAssumption DEF Tag, Dist, Full, SameWrap, Idx

(* Retiring alone, on the window as it is.                                 *)
LEMMA PopWindow ==
  ASSUME TypeOK, Exact, ~scanning, NEW sq \in BOOLEAN
  PROVE  /\ HeadAfterPop(sq) \in Tag
         /\ Dist(tail, HeadAfterPop(sq)) <= DEPTH
         /\ Dist(tail, HeadAfterPop(sq)) <= Dist(tail, head)
         /\ ~Full => Dist(tail, HeadAfterPop(sq)) < DEPTH
         /\ \A i \in Index : Covers(HeadAfterPop(sq), tail, i) <=>
                               Valid(i) /\ i \notin Popped(sq)
<1>1. tail \in Tag /\ head \in Tag
  BY DEF TypeOK
<1>2. HeadDone => head # tail
  BY DEF HeadDone, Empty
<1>3. /\ HeadAfterPop(sq) \in Tag
      /\ Dist(tail, HeadAfterPop(sq)) <= Dist(tail, head)
      /\ \A i \in Index : Covers(HeadAfterPop(sq), tail, i) <=>
                            Covers(head, tail, i) /\ i \notin Popped(sq)
  BY <1>1, <1>2, Running, SecondPopped, PopCuts
<1>4. Dist(tail, head) \in Int /\ Dist(tail, HeadAfterPop(sq)) \in Int
  BY <1>1, <1>3, DistType
<1> QED
  BY <1>3, <1>4, Running, NotFull, DepthAssumption

LEMMA NoNewEntry ==
  DOMAIN NoNew = {} /\ \A i \in DOMAIN NoNew : NoNew[i] \in Entry
BY DEF NoNew

LEMMA QuietExact ==
  ASSUME IInv, NEW wb \in WbSets, NEW ex \in ExSets, Quiet(wb, ex)
  PROVE  Exact'
<1>1. TypeOK /\ Exact /\ ~scanning
  BY DEF IInv, Quiet, Retire
<1>2. head' = HeadAfterPop(FALSE) /\ tail' = tail /\ UNCHANGED scan
  BY DEF Quiet, Retire
<1>3. \A i \in Index : q'[i] # NoEntry <=> Valid(i) /\ i \notin Popped(FALSE)
  BY <1>1, NoNewEntry, RetireSlots DEF Quiet
<1>4. Dist(tail, HeadAfterPop(FALSE)) <= DEPTH
  BY <1>1, PopWindow
<1> QED
  BY <1>1, <1>2, <1>3, <1>4, PopWindow, ExactNext

LEMMA AllocExact ==
  ASSUME IInv, NEW wb \in WbSets, NEW ex \in ExSets, NEW op \in Ops, Alloc(op, wb, ex)
  PROVE  Exact'
<1> DEFINE new == [i \in {Idx(tail)} |-> NewEntry(op)]
<1>1. TypeOK /\ Exact /\ ~scanning /\ ~Full
  BY DEF IInv, Alloc, Retire
<1>2. head' = HeadAfterPop(FALSE) /\ tail' = Inc(tail) /\ UNCHANGED scan
  BY DEF Alloc, Retire
<1>3. DOMAIN new = {Idx(tail)} /\ \A i \in DOMAIN new : new[i] \in Entry
  BY NewEntryType
<1>4. Retire(FALSE, {}, new, wb, ex)
  BY DEF Alloc
<1> HIDE DEF new
<1>5. \A i \in Index : q'[i] # NoEntry <=>
         i = Idx(tail) \/ (Valid(i) /\ i \notin Popped(FALSE))
  BY <1>1, <1>3, <1>4, RetireSlots
<1> DEFINE h == HeadAfterPop(FALSE)
<1>6. tail \in Tag /\ h \in Tag
  BY <1>1, PopWindow DEF TypeOK
<1>7. Dist(tail, h) < DEPTH /\ Dist(tail, h) \in Nat
  <2>1. Dist(tail, h) < DEPTH
    BY <1>1, PopWindow
  <2>2. Dist(tail, h) \in Nat
    BY <1>6, DistType
  <2> QED
    BY <2>1, <2>2
<1>8. \A i \in Index : Covers(h, tail, i) <=> Valid(i) /\ i \notin Popped(FALSE)
  BY <1>1, PopWindow
<1> HIDE DEF h
<1>9. /\ Dist(Inc(tail), h) = Dist(tail, h) + 1
      /\ \A i \in Index : Covers(h, Inc(tail), i) <=> Covers(h, tail, i) \/ i = Idx(tail)
  BY <1>6, <1>7, GrowBack
<1>10. Dist(Inc(tail), h) <= DEPTH
  BY <1>7, <1>9, DepthAssumption
<1>11. head' = h
  BY <1>2 DEF h
<1> QED
  BY <1>1, <1>2, <1>5, <1>8, <1>9, <1>10, <1>11, ExactNext

(* Room for two in a cycle that allocates two.                             *)
LEMMA TwoFree ==
  ASSUME TypeOK, Exact, ~scanning, Roomy, DualAlloc, ~FullDual
  PROVE  /\ Dist(tail, head) \in Nat /\ Dist(tail, head) + 2 <= DEPTH
         /\ Idx(tail) # Idx(Inc(tail))
         /\ ~Valid(Idx(tail)) /\ ~Valid(Idx(Inc(tail)))
<1>1. /\ head \in Tag /\ tail \in Tag /\ Inc(tail) \in Tag
      /\ Idx(tail) \in Index /\ Idx(Inc(tail)) \in Index
  BY TagArithmetic DEF TypeOK
<1>2. Dist(tail, head) \in Nat
  BY <1>1, DistType
<1>3. ~(Dist(tail, head) + 2 > DEPTH)
  BY DEF Roomy, DualRoom, Occ
<1>4. Dist(tail, head) + 2 <= DEPTH
  BY <1>2, <1>3, DepthAssumption
<1>5. Idx(tail) # Idx(Inc(tail))
  BY <1>1, DepthAssumption DEF Tag, Inc, Idx
<1>6. ~Covers(head, tail, Idx(tail)) /\ ~Covers(head, tail, Idx(Inc(tail)))
  BY <1>1, <1>4, DepthAssumption DEF Covers, Dist, Tag, Idx, Inc
<1> QED
  BY <1>1, <1>2, <1>4, <1>5, <1>6, Running

LEMMA AllocTwoExact ==
  ASSUME IInv, Roomy, NEW wb \in WbSets, NEW ex \in ExSets,
         NEW op0 \in Ops, NEW op1 \in Ops, AllocTwo(op0, op1, wb, ex)
  PROVE  Exact'
<1> DEFINE new == [i \in {Idx(tail), Idx(Inc(tail))} |->
                     IF i = Idx(tail) THEN NewEntry(op0) ELSE NewEntry(op1)]
<1> DEFINE h == HeadAfterPop(FALSE)
<1>1. TypeOK /\ Exact /\ ~scanning /\ DualAlloc /\ ~FullDual
  BY DEF IInv, AllocTwo, Retire
<1>2. head' = h /\ tail' = Inc(Inc(tail)) /\ UNCHANGED scan
  BY DEF AllocTwo, Retire
<1>3. DOMAIN new = {Idx(tail), Idx(Inc(tail))} /\ \A i \in DOMAIN new : new[i] \in Entry
  BY NewEntryType
<1>4. Retire(FALSE, {}, new, wb, ex)
  BY DEF AllocTwo
<1> HIDE DEF new
<1>5. \A i \in Index : q'[i] # NoEntry <=>
         (i = Idx(tail) \/ i = Idx(Inc(tail))) \/ (Valid(i) /\ i \notin Popped(FALSE))
  <2>1. \A i \in Index : q'[i] # NoEntry <=>
           i \in DOMAIN new \/ (Valid(i) /\ i \notin {} \cup Popped(FALSE))
    BY <1>1, <1>3, <1>4, RetireSlots
  <2> QED
    BY <1>3, <2>1
<1>6. tail \in Tag /\ Inc(tail) \in Tag /\ h \in Tag
  BY <1>1, PopWindow, TagArithmetic DEF TypeOK
<1>7. /\ Dist(tail, h) <= Dist(tail, head)
      /\ \A i \in Index : Covers(h, tail, i) <=> Valid(i) /\ i \notin Popped(FALSE)
  BY <1>1, PopWindow
<1> HIDE DEF h
<1>8. Dist(tail, h) \in Nat /\ Dist(tail, h) + 2 <= DEPTH
  <2>1. Dist(tail, h) <= Dist(tail, head)
    BY <1>7
  <2>2. Dist(tail, head) \in Nat /\ Dist(tail, head) + 2 <= DEPTH
    BY <1>1, TwoFree
  <2>3. Dist(tail, h) \in Nat
    BY <1>6, DistType
  <2> HIDE DEF Dist
  <2> QED
    BY <2>1, <2>2, <2>3, DepthAssumption
<1>9. /\ Dist(Inc(tail), h) = Dist(tail, h) + 1
      /\ \A i \in Index : Covers(h, Inc(tail), i) <=> Covers(h, tail, i) \/ i = Idx(tail)
  <2>1. Dist(tail, h) < DEPTH
    BY <1>8, DepthAssumption
  <2> QED
    BY <1>6, <2>1, GrowBack
<1>10. /\ Dist(Inc(Inc(tail)), h) = Dist(Inc(tail), h) + 1
       /\ \A i \in Index : Covers(h, Inc(Inc(tail)), i) <=>
                             Covers(h, Inc(tail), i) \/ i = Idx(Inc(tail))
  <2>1. Dist(Inc(tail), h) < DEPTH
    BY <1>8, <1>9, DepthAssumption
  <2> QED
    BY <1>6, <2>1, GrowBack
<1>11. Dist(Inc(Inc(tail)), h) <= DEPTH
  BY <1>8, <1>9, <1>10, DepthAssumption
<1> QED
  BY <1>1, <1>2, <1>5, <1>7, <1>9, <1>10, <1>11, ExactNext

(* A retract takes back only slots that no retirement of the cycle takes.  *)
LEMMA ReclaimableKept ==
  ASSUME NEW i, Reclaimable(i)
  PROVE  Valid(i) /\ i \notin Popped(FALSE)
BY DEF Reclaimable, Pending, Popped, Retire1CanPop, Clean

(* Cutting the youngest slot off what a retirement leaves.                 *)
LEMMA RetractCuts ==
  ASSUME NEW h \in Tag, NEW t \in Tag, Dist(t, h) <= DEPTH,
         Covers(h, t, Idx(Dec(t)))
  PROVE  /\ Dec(t) \in Tag
         /\ Dist(Dec(t), h) <= DEPTH
         /\ \A i \in Index : Covers(h, Dec(t), i) <=> Covers(h, t, i) /\ i # Idx(Dec(t))
<1>1. Dec(t) \in Tag /\ Idx(Dec(t)) \in Index
  BY TagArithmetic
<1>2. h # t
  BY <1>1, EmptyRange
<1>3. Dist(t, h) \in Nat
  BY DistType
<1> QED
  BY <1>1, <1>2, <1>3, CutBack, DepthAssumption

LEMMA RetractExact ==
  ASSUME IInv, NEW wb \in WbSets, NEW ex \in ExSets,
         NEW r0 \in BOOLEAN, NEW r1 \in BOOLEAN, Retract(r0, r1, wb, ex)
  PROVE  Exact'
<1> DEFINE h == HeadAfterPop(FALSE)
<1>1. TypeOK /\ Exact /\ ~scanning
  BY DEF IInv, Retract, Retire
<1>2. head' = h /\ tail' = TailAfterRetract(r0, r1) /\ UNCHANGED scan
  BY DEF Retract, Retire
<1>3. \A i \in Index : q'[i] # NoEntry <=>
         Valid(i) /\ i \notin Popped(FALSE) /\ i \notin Retracted(r0, r1)
  BY <1>1, NoNewEntry, RetireSlots DEF Retract
<1>4. /\ h \in Tag /\ Dist(tail, h) <= DEPTH
      /\ \A i \in Index : Covers(h, tail, i) <=> Valid(i) /\ i \notin Popped(FALSE)
  BY <1>1, PopWindow
<1>5. tail \in Tag /\ Dec(tail) \in Tag /\ Last1 \in Index /\ Last2 \in Index
  BY <1>1, TagArithmetic DEF TypeOK, Last1, Last2
<1>6. Last1 # Last2
  BY <1>5, DepthAssumption DEF Last1, Last2, Tag, Dec, Idx
<1> HIDE DEF h
<1>7. CASE TailAfterRetract(r0, r1) = tail /\ Retracted(r0, r1) = {}
  BY <1>1, <1>2, <1>3, <1>4, <1>7, ExactNext
<1>8. ASSUME Reclaimable(Last1)
      PROVE  /\ Dist(Dec(tail), h) <= DEPTH
             /\ \A i \in Index : Covers(h, Dec(tail), i) <=>
                   Valid(i) /\ i \notin Popped(FALSE) /\ i # Last1
  <2>1. Covers(h, tail, Idx(Dec(tail)))
    BY <1>4, <1>5, <1>8, ReclaimableKept DEF Last1
  <2> QED
    BY <1>4, <1>5, <2>1, RetractCuts DEF Last1
<1>9. CASE /\ TailAfterRetract(r0, r1) = Dec(tail) /\ Retracted(r0, r1) = {Last1}
           /\ Reclaimable(Last1)
  BY <1>1, <1>2, <1>3, <1>8, <1>9, ExactNext
<1>10. CASE /\ TailAfterRetract(r0, r1) = Dec(Dec(tail))
            /\ Retracted(r0, r1) = {Last1, Last2}
            /\ Reclaimable(Last1) /\ Reclaimable(Last2)
  <2>1. Covers(h, Dec(tail), Idx(Dec(Dec(tail))))
    BY <1>5, <1>6, <1>8, <1>10, ReclaimableKept DEF Last2
  <2>2. /\ Dist(Dec(Dec(tail)), h) <= DEPTH
        /\ \A i \in Index : Covers(h, Dec(Dec(tail)), i) <=>
                              Covers(h, Dec(tail), i) /\ i # Last2
    BY <1>4, <1>5, <1>8, <1>10, <2>1, RetractCuts DEF Last2
  <2> QED
    BY <1>1, <1>2, <1>3, <1>8, <1>10, <2>2, ExactNext
<1> QED
  BY <1>7, <1>9, <1>10 DEF TailAfterRetract, Retracted, RetractBoth, RetractOne

(* What a squash drops is the part of the window behind p.                 *)
LEMMA YoungerRange ==
  ASSUME TypeOK, Exact, ~scanning, NEW p \in Tag, InWindow(p)
  PROVE  /\ Dist(Inc(p), head) <= DEPTH /\ head # Inc(p)
         /\ \A i \in Index : Covers(head, Inc(p), i) <=> Valid(i) /\ i \notin Younger(p)
<1>1. head \in Tag /\ tail \in Tag /\ Inc(p) \in Tag
  BY TagArithmetic DEF TypeOK
<1>2. Dist(tail, head) <= DEPTH /\ Dist(p, head) < Dist(tail, head)
  BY Running DEF InWindow, Occ
<1>3. /\ Dist(Inc(p), head) = Dist(p, head) + 1
      /\ Dist(tail, Inc(p)) < DEPTH
      /\ \A i \in Index : Covers(head, Inc(p), i) <=>
                            Covers(head, tail, i) /\ ~Covers(Inc(p), tail, i)
  BY <1>1, <1>2, CutBehind
<1>4. \A i \in Index : i \in Younger(p) <=> Covers(Inc(p), tail, i)
  <2>1. \A u \in Tag : Dist(u, Inc(p)) < Dist(tail, Inc(p)) => Dist(u, Inc(p)) < DEPTH
    <3> TAKE u \in Tag
    <3>1. Dist(u, Inc(p)) \in Nat /\ Dist(tail, Inc(p)) \in Nat
      BY <1>1, DistType
    <3> QED
      BY <1>3, <3>1, DepthAssumption
  <2> QED
    BY <1>1, <2>1, CoversSome DEF Younger
<1>5. head # Inc(p)
  BY <1>1, <1>2, DepthAssumption DEF Tag, Dist, Inc
<1>6. Dist(Inc(p), head) <= DEPTH
  <2>1. Dist(p, head) \in Nat /\ Dist(tail, head) \in Nat
    BY <1>1, DistType
  <2> QED
    BY <1>2, <1>3, <2>1, DepthAssumption
<1> QED
  BY <1>3, <1>4, <1>5, <1>6, Running

LEMMA SquashExact ==
  ASSUME IInv, NEW wb \in WbSets, NEW ex \in ExSets, NEW p \in Tag, Squash(p, wb, ex)
  PROVE  Exact'
<1>1. CASE ~InWindow(p)
  BY <1>1, QuietExact DEF Squash
<1>2. CASE InWindow(p)
  <2> DEFINE sq == SquashHeadSameCycle(p)
  <2>1. Retire(sq, Younger(p), NoNew, wb, ex) /\ tail' = Inc(p)
    BY <1>2 DEF Squash
  <2>2. sq \in BOOLEAN
    BY DEF IInv, SquashHeadSameCycle, HeadDone, Empty, Valid, TypeOK, Entry
  <2>3. (p = head /\ HeadDone) => sq
    BY DEF SquashHeadSameCycle
  <2> HIDE DEF sq
  <2>4. TypeOK /\ Exact /\ ~scanning
    BY <2>1 DEF IInv, Retire
  <2>5. head' = HeadAfterPop(sq) /\ UNCHANGED scan
    BY <2>1 DEF Retire
  <2>6. \A i \in Index : q'[i] # NoEntry <=>
           Valid(i) /\ i \notin Younger(p) /\ i \notin Popped(sq)
    BY <2>1, <2>2, <2>4, NoNewEntry, RetireSlots
  <2>7. head \in Tag /\ Inc(p) \in Tag
    BY <2>4, TagArithmetic DEF TypeOK
  <2>8. Retire1CanPop(sq) => Inc(head) # Inc(p)
    <3> SUFFICES ASSUME Retire1CanPop(sq) PROVE Inc(head) # Inc(p)
      OBVIOUS
    <3>1. p # head
      BY <2>3 DEF Retire1CanPop
    <3> QED
      BY <2>7, <3>1, DepthAssumption DEF Tag, Inc
  <2>9. /\ Dist(Inc(p), head) <= DEPTH /\ head # Inc(p)
        /\ \A i \in Index : Covers(head, Inc(p), i) <=> Valid(i) /\ i \notin Younger(p)
    BY <1>2, <2>4, YoungerRange
  <2>10. /\ HeadAfterPop(sq) \in Tag
         /\ Dist(Inc(p), HeadAfterPop(sq)) <= Dist(Inc(p), head)
         /\ \A i \in Index : Covers(HeadAfterPop(sq), Inc(p), i) <=>
                               Covers(head, Inc(p), i) /\ i \notin Popped(sq)
    BY <2>2, <2>4, <2>7, <2>8, <2>9, PopCuts
  <2>11. Dist(Inc(p), HeadAfterPop(sq)) <= DEPTH
    <3>1. Dist(Inc(p), head) \in Nat /\ Dist(Inc(p), HeadAfterPop(sq)) \in Nat
      BY <2>7, <2>10, DistType
    <3> QED
      BY <2>9, <2>10, <3>1, DepthAssumption
  <2> QED
    BY <2>1, <2>4, <2>5, <2>6, <2>9, <2>10, <2>11, ExactNext
<1> QED
  BY <1>1, <1>2

(* The flush turns the window into the range to walk.                      *)
LEMMA FlushExact ==
  ASSUME IInv, ExceptionFlush
  PROVE  Exact'
<1>1. Exact /\ ~scanning /\ head # tail
  BY DEF IInv, ExceptionFlush, FlushNow, HeadDone, Empty
<1>2. /\ scanning' /\ scanCur' = head /\ scanTail' = tail /\ head' = tail' /\ q' = q
  BY DEF ExceptionFlush
<1> QED
  BY <1>1, <1>2, Running DEF Exact, From, To, Valid, Covers, Empty

(* A step of the scan cuts one slot off the front of that range; it ends   *)
(* with the last.                                                          *)
LEMMA ScanExact ==
  ASSUME IInv, ReleaseScan
  PROVE  Exact'
<1>1. /\ TypeOK /\ scanning /\ Empty /\ scanCur # scanTail
      /\ Dist(scanTail, scanCur) <= DEPTH
      /\ \A i \in Index : Valid(i) <=> Covers(scanCur, scanTail, i)
  BY DEF IInv, ReleaseScan, Exact, From, To
<1>2. /\ scanCur \in Tag /\ scanTail \in Tag /\ head \in Tag
      /\ Inc(scanCur) \in Tag /\ Idx(scanCur) \in Index
  BY <1>1, TagArithmetic DEF TypeOK
<1>3. /\ Dist(scanTail, Inc(scanCur)) = Dist(scanTail, scanCur) - 1
      /\ \A i \in Index : Covers(Inc(scanCur), scanTail, i) <=>
                            Valid(i) /\ i # Idx(scanCur)
  BY <1>1, <1>2, CutFront
<1>4. \A i \in Index : q'[i] # NoEntry <=> Covers(Inc(scanCur), scanTail, i)
  BY <1>1, <1>2, <1>3 DEF ReleaseScan, TypeOK, Valid
<1>5. CASE Inc(scanCur) = scanTail
  <2>1. ~scanning' /\ head' = head /\ tail' = head
    BY <1>1, <1>5 DEF ReleaseScan, Empty
  <2>2. \A i \in Index : q'[i] = NoEntry /\ ~Covers(head, head, i)
    BY <1>2, <1>4, <1>5, EmptyRange
  <2>3. Dist(head, head) <= DEPTH
    BY <1>2, DepthAssumption DEF Dist, Tag
  <2> QED
    BY <2>1, <2>2, <2>3 DEF Exact, From, To, Valid, Covers
<1>6. CASE Inc(scanCur) # scanTail
  <2>1. /\ scanning' /\ head' = tail'
        /\ scanCur' = Inc(scanCur) /\ scanTail' = scanTail
    BY <1>1, <1>6 DEF ReleaseScan, Empty
  <2>2. Dist(scanTail, Inc(scanCur)) <= DEPTH
    <3>1. Dist(scanTail, scanCur) \in Nat
      BY <1>2, DistType
    <3> QED
      BY <1>1, <1>3, <3>1, DepthAssumption
  <2> QED
    BY <1>4, <1>6, <2>1, <2>2 DEF Exact, From, To, Valid, Covers, Empty
<1> QED
  BY <1>5, <1>6

-----------------------------------------------------------------------------
(* The invariant.                                                          *)

LEMMA ExactGivesWindow ==
  ASSUME TypeOK, Exact
  PROVE  WindowExact
<1>1. From \in Tag /\ To \in Tag
  BY DEF TypeOK, From, To
<1>2. Bounded
  BY DEF Exact, From, To, Bounded, Occ
<1>3. \A t \in Tag : Live(t) <=> Dist(t, From) < Dist(To, From)
  BY DEF Live, From, To, InWindow, Occ
<1>4. \A i \in Index : Valid(i) <=> \E t \in Tag : Idx(t) = i /\ Live(t)
  BY <1>1, <1>3, CoversSome DEF Exact
<1> QED
  BY <1>2, <1>4 DEF WindowExact

LEMMA InitExact == Init => Exact
<1> SUFFICES ASSUME Init PROVE Exact
  OBVIOUS
<1>1. 0 \in Tag /\ Dist(0, 0) <= DEPTH
  BY DepthAssumption DEF Tag, Dist
<1>2. \A i \in Index : ~Covers(0, 0, i)
  BY <1>1, EmptyRange
<1> QED
  BY <1>1, <1>2 DEF Init, Exact, From, To, Valid

LEMMA InitIInv == Init => IInv
BY InitExact, InitType DEF IInv

LEMMA NextIInv ==
  ASSUME Roomy, IInv, [Next]_vars
  PROVE  IInv'
<1>1. TypeOK'
  BY TypeNext DEF IInv
<1>2. CASE ReleaseScan
  BY <1>1, <1>2, ScanExact DEF IInv
<1>3. CASE ExceptionFlush
  BY <1>1, <1>3, FlushExact DEF IInv
<1>4. ASSUME NEW wb \in WbSets, NEW ex \in ExSets, Run(wb, ex) PROVE Exact'
  BY <1>4, QuietExact, AllocExact, AllocTwoExact, RetractExact, SquashExact DEF Run
<1>5. CASE UNCHANGED vars
  <2>1. Exact'
    BY <1>5 DEF IInv, vars, Exact, From, To, Valid, Covers, Empty
  <2> QED
    BY <1>1, <2>1 DEF IInv
<1> QED
  BY <1>1, <1>2, <1>3, <1>4, <1>5 DEF Next, IInv

(* With one allocation a cycle the window and the occupied slots are the   *)
(* same thing, for every depth: no hole at the head, none inside, nothing  *)
(* left behind by a retract, squash or flush (cpu_rob.sv:235-388).  With   *)
(* two it is false: rob_full_dual lets the window outgrow the array.       *)
THEOREM WindowCorrect ==
  ASSUME ~DualAlloc
  PROVE  Spec => []WindowExact
<1>1. IInv => WindowExact
  BY ExactGivesWindow DEF IInv
<1>2. IInv /\ [Next]_vars => IInv'
  BY NextIInv DEF Roomy
<1> QED
  BY <1>1, <1>2, InitIInv, PTL DEF Spec

(* With two allocations the same holds of a core in which rob_full_dual    *)
(* does what its comment says (cpu_rob.sv:71): nothing else in the buffer  *)
(* stands in the way of the second one.                                    *)
THEOREM WindowRoomy ==
  Spec /\ []DualRoom => []WindowExact
<1>1. IInv => WindowExact
  BY ExactGivesWindow DEF IInv
<1>2. IInv /\ DualRoom /\ [Next]_vars => IInv'
  BY NextIInv DEF Roomy
<1> QED
  BY <1>1, <1>2, InitIInv, PTL DEF Spec

-----------------------------------------------------------------------------
(* Leaving the buffer.                                                     *)

(* Slot i is no longer the entry it was.                                   *)
Left(i) == Valid(i) /\ q'[i] # q[i] /\ ~(q'[i] # NoEntry /\ q'[i].prd = q[i].prd)
Accounted(i) ==
  \/ q[i].prd \in sqMask'
  \/ Clean(i) /\ i \in {Idx(head), Idx(Inc(head))} /\ Freed(q[i]) \in released'
  \/ Pending(i) /\ i \in {Last1, Last2} /\ i # Idx(head)

(* Of the slots that are not filled, only those retired or dropped change   *)
(* hands: a writeback keeps the register of an entry.                      *)
LEMMA RetireLeaves ==
  ASSUME TypeOK, NEW wb \in WbSets, NEW ex \in ExSets, NEW sq \in BOOLEAN,
         NEW gone, NEW new, Retire(sq, gone, new, wb, ex),
         NEW i \in Index, i \notin DOMAIN new, i \notin gone, Left(i)
  PROVE  Accounted(i)
<1>1. CASE i \in Popped(sq)
  <2>1. Freed(q[i]) \in released'
    BY <1>1 DEF Retire
  <2>2. Clean(i) /\ i \in {Idx(head), Idx(Inc(head))}
    BY <1>1 DEF Popped, HeadDone, Retire1CanPop, Retire, FlushNow, Clean
  <2> QED
    BY <2>1, <2>2 DEF Accounted
<1>2. CASE i \notin Popped(sq)
  <2>1. q'[i] = Written(i, wb, ex)
    BY <1>2 DEF Retire
  <2>2. q[i] \in Entry
    BY DEF Left, Valid, TypeOK
  <2>3. Written(i, wb, ex) \in Entry /\ Written(i, wb, ex).prd = q[i].prd
    BY <2>2 DEF Written, Entry
  <2> QED
    BY <2>1, <2>3, EntryAssumption DEF Left
<1> QED
  BY <1>1, <1>2

(* The slot at the tail of a buffer that is not full is free.              *)
LEMMA TailFree ==
  ASSUME TypeOK, Exact, ~scanning, ~Full
  PROVE  ~Valid(Idx(tail))
<1>1. head \in Tag /\ tail \in Tag /\ Idx(tail) \in Index
  BY TagArithmetic DEF TypeOK
<1>2. Dist(tail, head) < DEPTH
  BY NotFull
<1>3. ~Covers(head, tail, Idx(tail))
  BY <1>1, <1>2, DepthAssumption DEF Covers, Dist, Tag, Idx
<1> QED
  BY <1>1, <1>3, Running

LEMMA RunLeaves ==
  ASSUME Roomy, IInv, NEW wb \in WbSets, NEW ex \in ExSets, Run(wb, ex),
         NEW i \in Index, Left(i)
  PROVE  Accounted(i)
<1>1. TypeOK /\ Exact /\ DOMAIN NoNew = {}
  BY NoNewEntry DEF IInv
<1>2. CASE Quiet(wb, ex)
  BY <1>1, <1>2, RetireLeaves DEF Quiet
<1>3. ASSUME NEW op \in Ops, Alloc(op, wb, ex) PROVE Accounted(i)
  <2> DEFINE new == [j \in {Idx(tail)} |-> NewEntry(op)]
  <2>1. Retire(FALSE, {}, new, wb, ex) /\ ~Full /\ ~scanning
    BY <1>3 DEF Alloc, Retire
  <2>2. i # Idx(tail)
    BY <1>1, <2>1, TailFree DEF Left
  <2>3. i \notin DOMAIN new
    BY <2>2
  <2> HIDE DEF new
  <2> QED
    BY <1>1, <2>1, <2>3, RetireLeaves
<1>4. ASSUME NEW r0 \in BOOLEAN, NEW r1 \in BOOLEAN, Retract(r0, r1, wb, ex)
      PROVE  Accounted(i)
  <2>1. Retire(FALSE, Retracted(r0, r1), NoNew, wb, ex)
    BY <1>4 DEF Retract
  <2>2. CASE i \in Retracted(r0, r1)
    BY <2>2 DEF Retracted, RetractBoth, RetractOne, Reclaimable, Accounted
  <2>3. CASE i \notin Retracted(r0, r1)
    BY <1>1, <2>1, <2>3, RetireLeaves
  <2> QED
    BY <2>2, <2>3
<1>5. ASSUME NEW p \in Tag, Squash(p, wb, ex) PROVE Accounted(i)
  <2>1. CASE ~InWindow(p)
    BY <1>2, <1>5, <2>1 DEF Squash
  <2>2. CASE InWindow(p)
    <3>1. /\ Retire(SquashHeadSameCycle(p), Younger(p), NoNew, wb, ex)
          /\ sqMask' = {q[j].prd : j \in {l \in Younger(p) : Valid(l)}}
      BY <1>5, <2>2 DEF Squash
    <3>2. SquashHeadSameCycle(p) \in BOOLEAN
      BY DEF SquashHeadSameCycle
    <3>3. CASE i \in Younger(p)
      BY <3>1, <3>3 DEF Left, Accounted
    <3>4. CASE i \notin Younger(p)
      BY <1>1, <3>1, <3>2, <3>4, RetireLeaves
    <3> QED
      BY <3>3, <3>4
  <2> QED
    BY <2>1, <2>2
<1>6. ASSUME NEW op0 \in Ops, NEW op1 \in Ops, AllocTwo(op0, op1, wb, ex)
      PROVE  Accounted(i)
  <2> DEFINE new == [j \in {Idx(tail), Idx(Inc(tail))} |->
                       IF j = Idx(tail) THEN NewEntry(op0) ELSE NewEntry(op1)]
  <2>1. Retire(FALSE, {}, new, wb, ex) /\ DualAlloc /\ ~FullDual /\ ~scanning
    BY <1>6 DEF AllocTwo, Retire
  <2>2. i # Idx(tail) /\ i # Idx(Inc(tail))
    BY <1>1, <2>1, TwoFree DEF Left
  <2>3. i \notin DOMAIN new
    BY <2>2
  <2> HIDE DEF new
  <2> QED
    BY <1>1, <2>1, <2>3, RetireLeaves
<1> QED
  BY <1>2, <1>3, <1>4, <1>5, <1>6 DEF Run

LEMMA StepLeaves ==
  ASSUME Roomy, IInv, [Next]_vars
  PROVE  [\A i \in Index : Left(i) => Accounted(i)]_vars
<1> SUFFICES ASSUME Next, NEW i \in Index, Left(i) PROVE Accounted(i)
  OBVIOUS
<1>1. CASE ReleaseScan
  <2>1. Idx(scanCur) \in Index
    BY TagArithmetic DEF IInv, TypeOK
  <2>2. i = Idx(scanCur)
    BY <1>1, <2>1 DEF ReleaseScan, Left, IInv, TypeOK
  <2> QED
    BY <1>1, <2>2 DEF ReleaseScan, Left, Accounted
<1>2. CASE ExceptionFlush
  BY <1>2 DEF ExceptionFlush, Left
<1>3. ASSUME NEW wb \in WbSets, NEW ex \in ExSets, Run(wb, ex) PROVE Accounted(i)
  BY <1>3, RunLeaves
<1> QED
  BY <1>1, <1>2, <1>3 DEF Next

(* With one allocation a cycle, for every depth: no entry disappears        *)
(* unaccounted for.  It retires and frees its register, its register is in *)
(* the mask of a squash or of the scan, or it was one of the two youngest,  *)
(* unfinished, and taken back (cpu_rob.sv:235-388).                        *)
THEOREM LeavingCorrect ==
  ASSUME ~DualAlloc
  PROVE  Spec => LeavingAccounted
<1>1. IInv /\ [Next]_vars => [\A i \in Index : Left(i) => Accounted(i)]_vars
  BY StepLeaves DEF Roomy
<1>2. IInv /\ [Next]_vars => IInv'
  BY NextIInv DEF Roomy
<1> QED
  BY <1>1, <1>2, InitIInv, PTL DEF Spec, LeavingAccounted, Left, Accounted

(* And with two, under the same condition as WindowRoomy.                  *)
THEOREM LeavingRoomy ==
  Spec /\ []DualRoom => LeavingAccounted
<1>1. IInv /\ DualRoom /\ [Next]_vars => [\A i \in Index : Left(i) => Accounted(i)]_vars
  BY StepLeaves DEF Roomy
<1>2. IInv /\ DualRoom /\ [Next]_vars => IInv'
  BY NextIInv DEF Roomy
<1> QED
  BY <1>1, <1>2, InitIInv, PTL DEF Spec, LeavingAccounted, Left, Accounted
=============================================================================
