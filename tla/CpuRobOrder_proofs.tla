------------------------- MODULE CpuRobOrder_proofs -------------------------
(***************************************************************************)
(* For every depth, the reorder buffer of the single-allocation core is    *)
(* the queue in program order of RobOrder: its steps, seen through Window, *)
(* are steps of that queue.  With two allocations a cycle too, while who   *)
(* allocates two has room for two (Roomy).                                 *)
(*                                                                         *)
(* Place k of the window is the slot of the tag k - 1 behind head.  When n *)
(* entries retire, place k of the new window is place n + k of the old.    *)
(* That such a slot was neither popped nor squashed needs no argument      *)
(* about the step: it is occupied afterwards, because the new window is    *)
(* exact (CpuRobWindow_proofs).                                            *)
(***************************************************************************)
EXTENDS CpuRobWindow_proofs

Place(k) == Idx(Nth(head, k - 1))
View(e) == [prd |-> e.prd, done |-> e.done, exc |-> e.exc]

(* The queue gives no instruction a fault before it is done.               *)
FaultsDone == \A i \in Index : Valid(i) /\ q[i].exc => q[i].done
QInv == IInv /\ FaultsDone

-----------------------------------------------------------------------------
(* Tags counted from an end of a range.                                    *)

LEMMA NthTag ==
  ASSUME NEW a \in Tag, NEW k \in 0 .. 2 * DEPTH - 1
  PROVE  Nth(a, k) \in Tag /\ Dist(Nth(a, k), a) = k
BY DepthAssumption DEF Tag, Nth, Dist

LEMMA NthNth ==
  ASSUME NEW a \in Tag, NEW n \in Nat, NEW k \in Nat, n + k < 2 * DEPTH
  PROVE  Nth(Nth(a, n), k) = Nth(a, n + k)
BY DepthAssumption DEF Tag, Nth

LEMMA NthDist ==
  ASSUME NEW a \in Tag, NEW b \in Tag
  PROVE  Nth(a, Dist(b, a)) = b
BY DepthAssumption DEF Tag, Nth, Dist

LEMMA DistCut ==
  ASSUME NEW a \in Tag, NEW b \in Tag, NEW n \in Nat, n <= Dist(b, a)
  PROVE  Dist(b, Nth(a, n)) = Dist(b, a) - n
BY DepthAssumption DEF Tag, Nth, Dist

LEMMA NthDistinct ==
  ASSUME NEW a \in Tag, NEW k \in Nat, NEW j \in Nat, k < j, j < DEPTH
  PROVE  Idx(Nth(a, k)) # Idx(Nth(a, j))
BY DepthAssumption DEF Tag, Nth, Idx

LEMMA OccNat ==
  TypeOK => Occ \in Nat /\ Occ < 2 * DEPTH
BY DepthAssumption DEF TypeOK, Occ, Dist, Tag

LEMMA OccNext ==
  ASSUME TypeOK'
  PROVE  Occ' \in Nat
<1>1. (TypeOK => Occ \in Nat /\ Occ < 2 * DEPTH)'
  BY OccNat, PTL
<1> QED
  BY <1>1

LEMMA WindowIs ==
  ASSUME TypeOK
  PROVE  /\ Window = [k \in 1 .. Occ |-> View(q[Place(k)])]
         /\ Len(Window) = Occ
<1>1. Window = [k \in 1 .. Occ |-> View(q[Place(k)])]
  BY DEF Window, View, Place
<1>2. Occ \in Nat
  BY OccNat
<1> QED
  BY <1>1, <1>2

(* The places of the window are occupied.                                  *)
LEMMA PlaceValid ==
  TypeOK /\ Exact /\ ~scanning =>
    \A k \in 1 .. Occ : Place(k) \in Index /\ Valid(Place(k)) /\ q[Place(k)] \in Entry
<1> SUFFICES ASSUME TypeOK, Exact, ~scanning, NEW k \in 1 .. Occ
             PROVE  Place(k) \in Index /\ Valid(Place(k)) /\ q[Place(k)] \in Entry
  OBVIOUS
<1>1. k - 1 \in 0 .. 2 * DEPTH - 1 /\ k - 1 < Occ
  BY OccNat, DepthAssumption
<1>2. head \in Tag /\ tail \in Tag
  BY DEF TypeOK
<1>3. Nth(head, k - 1) \in Tag /\ Dist(Nth(head, k - 1), head) = k - 1
  BY <1>1, <1>2, NthTag
<1>4. Place(k) \in Index
  BY <1>3, TagArithmetic DEF Place
<1>5. Covers(head, tail, Place(k))
  BY <1>1, <1>2, <1>3, <1>4, CoversSome DEF Place, Occ
<1>6. Valid(Place(k))
  BY <1>4, <1>5, Running
<1> QED
  BY <1>4, <1>6 DEF Valid, TypeOK

-----------------------------------------------------------------------------
(* What retires: the first n places.                                       *)

LEMMA Popping ==
  ASSUME TypeOK, Exact, ~scanning, ~FlushNow, NEW sq \in BOOLEAN
  PROVE  \E n \in 0 .. 2 :
           /\ HeadAfterPop(sq) = Nth(head, n) /\ HeadAfterPop(sq) \in Tag
           /\ n <= Occ
           /\ n = 0 => ~HeadDone
           /\ n = 2 => Retire1CanPop(sq)
           /\ \A k \in 1 .. n : q[Place(k)].done /\ ~q[Place(k)].exc
<1>1. head \in Tag /\ tail \in Tag /\ Inc(head) \in Tag /\ Inc(Inc(head)) \in Tag
  BY TagArithmetic DEF TypeOK
<1>2. /\ Nth(head, 0) = head /\ Nth(head, 1) = Inc(head)
      /\ Nth(head, 2) = Inc(Inc(head))
  BY <1>1, DepthAssumption DEF Tag, Nth, Inc
<1>3. Place(1) = Idx(head) /\ Place(2) = Idx(Inc(head))
  BY <1>2 DEF Place
<1>4. CASE ~HeadDone
  BY <1>1, <1>2, <1>4, OccNat, DepthAssumption DEF HeadAfterPop
<1>5. HeadDone => Occ >= 1 /\ q[Idx(head)].done /\ ~q[Idx(head)].exc
  <2>1. head # tail => Occ >= 1
    BY <1>1, DepthAssumption DEF Tag, Dist, Occ
  <2> QED
    BY <2>1 DEF HeadDone, Empty, FlushNow
<1>6. CASE HeadDone /\ ~Retire1CanPop(sq)
  <2>1. HeadAfterPop(sq) = Nth(head, 1) /\ HeadAfterPop(sq) \in Tag
    BY <1>1, <1>2, <1>6 DEF HeadAfterPop
  <2>2. \A k \in 1 .. 1 : q[Place(k)].done /\ ~q[Place(k)].exc
    BY <1>3, <1>5, <1>6
  <2> QED
    BY <1>5, <1>6, <2>1, <2>2
<1>7. CASE HeadDone /\ Retire1CanPop(sq)
  <2>1. HeadAfterPop(sq) = Nth(head, 2) /\ HeadAfterPop(sq) \in Tag
    BY <1>1, <1>2, <1>7 DEF HeadAfterPop
  <2>2. q[Place(2)].done /\ ~q[Place(2)].exc
    BY <1>3, <1>7 DEF Retire1CanPop, Clean
  <2>3. \A k \in 1 .. 2 : q[Place(k)].done /\ ~q[Place(k)].exc
    BY <1>3, <1>5, <1>7, <2>2
  <2>4. Occ >= 2
    <3>1. head # tail /\ Inc(head) # tail
      BY <1>7, SecondPopped DEF HeadDone, Empty
    <3> QED
      BY <1>1, <3>1, DepthAssumption DEF Tag, Dist, Occ, Inc
  <2> QED
    BY <1>7, <2>1, <2>3, <2>4
<1> QED
  BY <1>4, <1>6, <1>7

(* What a cycle makes of an entry that stays is progress.                  *)
LEMMA WrittenProgress ==
  ASSUME TypeOK, FaultsDone, NEW wb \in WbSets, NEW ex \in ExSets,
         NEW i \in Index, Valid(i)
  PROVE  LET e == Written(i, wb, ex)
         IN  Order!Progress(View(q[i]), View(e)) /\ (e.exc => e.done)
<1>1. q[i] \in Entry
  BY DEF Valid, TypeOK
<1>2. i \in wb \cup ex => ~q[i].done
  <2>1. \A j \in Completable : Pending(j)
    BY DEF Completable, Accept
  <2> QED
    BY <2>1 DEF WbSets, ExSets, Pending
<1>3. q[i].exc => q[i].done
  BY DEF FaultsDone
<1>4. CASE i \in ex
  BY <1>1, <1>2, <1>4 DEF Written, View, Order!Progress, Entry
<1>5. CASE i \notin ex /\ i \in wb
  BY <1>1, <1>2, <1>3, <1>5 DEF Written, View, Order!Progress, Entry
<1>6. CASE i \notin ex /\ i \notin wb
  BY <1>3, <1>6 DEF Written, View, Order!Progress
<1> QED
  BY <1>4, <1>5, <1>6

-----------------------------------------------------------------------------
(* A step of the buffer is a cycle of the queue if, n entries retiring, the *)
(* places up to keep come from those n further on, and the rest is new.    *)
LEMMA Moved ==
  ASSUME QInv, TypeOK', Exact', ~FlushNow,
         NEW wb \in WbSets, NEW ex \in ExSets, NEW sq \in BOOLEAN,
         NEW gone, NEW new, Retire(sq, gone, new, wb, ex),
         NEW n \in 0 .. 2, head' = Nth(head, n), n <= Occ, n = 0 => ~HeadDone,
         \A k \in 1 .. n : q[Place(k)].done /\ ~q[Place(k)].exc,
         NEW keep \in Nat, n + keep <= Occ,
         Occ' \in keep .. keep + 2, Occ' > keep => n + keep = Occ,
         n = 0 /\ Occ > 0 => keep > 0,
         \A k \in 1 .. keep : Place(n + k) \notin DOMAIN new,
         \A k \in keep + 1 .. Occ' :
           Place(n + k) \in DOMAIN new /\ \E op \in Ops : new[Place(n + k)] = NewEntry(op)
  PROVE  Order!Cycle
<1>1. TypeOK /\ Exact /\ FaultsDone /\ ~scanning /\ ~scanning' /\ scanning' = scanning
  BY DEF QInv, IInv, Retire, scan
<1>2. /\ Window = [k \in 1 .. Occ |-> View(q[Place(k)])]
      /\ Len(Window) = Occ /\ Occ \in Nat
  BY <1>1, WindowIs, OccNat
<1>3. /\ Window' = [k \in 1 .. Occ' |-> View(q'[Place(k)'])]
      /\ Len(Window') = Occ' /\ Occ' \in Nat /\ Occ' <= DEPTH
  <2>1. Window' = [k \in 1 .. Occ' |-> View(q'[Place(k)'])]
    BY DEF Window, View, Place
  <2>2. Occ' \in Nat
    BY OccNext
  <2> QED
    BY <1>1, <2>1, <2>2 DEF Exact, From, To, Occ
<1>4. \A k \in 1 .. Occ' : Place(k)' = Place(n + k)
  <2> TAKE k \in 1 .. Occ'
  <2>1. Occ <= DEPTH
    BY <1>1, Running DEF Occ
  <2>2. n + (k - 1) < 2 * DEPTH /\ k - 1 \in Nat /\ n \in Nat /\ head \in Tag
    BY <1>1, <1>2, <1>3, <2>1, DepthAssumption DEF TypeOK
  <2>3. Nth(head', k - 1) = Nth(head, (n + k) - 1)
    BY <2>2, NthNth
  <2> QED
    BY <2>3 DEF Place
<1>5. \A k \in 1 .. Occ' : Place(n + k) \in Index /\ q'[Place(n + k)] # NoEntry
  <2>1. (\A k \in 1 .. Occ : Place(k) \in Index /\ Valid(Place(k)) /\ q[Place(k)] \in Entry)'
    BY <1>1, PlaceValid, PTL
  <2> QED
    BY <1>4, <2>1 DEF Valid, Index
<1>6. ASSUME NEW k \in 1 .. keep
      PROVE  /\ n + k \in 1 .. Occ /\ k \in 1 .. Occ'
             /\ Order!Progress(View(q[Place(n + k)]), View(q'[Place(n + k)]))
  <2>1. n + k \in 1 .. Occ /\ k \in 1 .. Occ'
    BY <1>2, <1>3
  <2>2. Place(n + k) \in Index /\ Valid(Place(n + k))
    BY <1>1, <2>1, PlaceValid
  <2>3. q'[Place(n + k)] = Written(Place(n + k), wb, ex)
    BY <1>5, <2>1, <2>2 DEF Retire
  <2> QED
    BY <1>1, <2>1, <2>2, <2>3, WrittenProgress
<1>7. ASSUME NEW k \in keep + 1 .. Occ'
      PROVE  Window'[k] = Order!New(Window'[k].prd)
  <2>1. k \in 1 .. Occ'
    BY <1>3
  <2>2. PICK op \in Ops : q'[Place(n + k)] = NewEntry(op)
    BY <1>5, <2>1 DEF Retire
  <2>3. Window'[k] = View(NewEntry(op))
    BY <1>3, <1>4, <2>1, <2>2
  <2>4. View(NewEntry(op)) = Order!New(op.prd)
    BY DEF View, NewEntry, Order!New
  <2>5. Order!New(op.prd).prd = op.prd
    BY DEF Order!New
  <2> QED
    BY <2>3, <2>4, <2>5
<1>8. ~Order!Faulty
  <2>1. Window # <<>> => Occ >= 1 /\ Place(1) = Idx(head) /\ head # tail
    BY <1>1, <1>2, DepthAssumption DEF Place, Nth, Tag, TypeOK, Occ, Dist
  <2>2. Occ >= 1 => Valid(Place(1))
    BY <1>1, <1>2, PlaceValid
  <2> SUFFICES ASSUME Window # <<>>, Window[1].done, Window[1].exc
               PROVE  FALSE
    BY DEF Order!Faulty
  <2>3. Window[1] = View(q[Idx(head)])
    BY <1>2, <2>1
  <2>4. q[Idx(head)].done /\ q[Idx(head)].exc
    BY <2>3 DEF View
  <2>5. FlushNow
    BY <2>1, <2>2, <2>4 DEF FlushNow, HeadDone, Empty
  <2> QED
    BY <1>2, <2>5
<1>9. ASSUME n = 0, Window # <<>> PROVE ~Window[1].done /\ keep > 0
  <2>1. Occ >= 1 /\ Place(1) = Idx(head) /\ head # tail
    BY <1>1, <1>2, <1>9, DepthAssumption DEF Place, Nth, Tag, TypeOK, Occ, Dist
  <2>2. Valid(Place(1))
    BY <1>1, <1>2, <2>1, PlaceValid
  <2> QED
    BY <1>2, <1>9, <2>1, <2>2 DEF HeadDone, Empty, View
<1>10. Order!Step(n, keep, Window, Window')
  <2>1. \A k \in 1 .. n : Window[k].done /\ ~Window[k].exc
    BY <1>2 DEF View
  <2>2. \A k \in 1 .. keep : Order!Progress(Window[n + k], Window'[k])
    BY <1>2, <1>3, <1>4, <1>6
  <2> QED
    BY <1>2, <1>3, <1>7, <1>9, <2>1, <2>2 DEF Order!Step
<1> QED
  BY <1>1, <1>2, <1>8, <1>10 DEF Order!Cycle

(* Nothing enters.                                                         *)
LEMMA Shrunk ==
  ASSUME QInv, TypeOK', Exact',
         NEW wb \in WbSets, NEW ex \in ExSets, NEW sq \in BOOLEAN, NEW gone,
         Retire(sq, gone, NoNew, wb, ex),
         \A n \in 0 .. 2 : head' = Nth(head, n) /\ n <= Occ /\ (n = 2 => Retire1CanPop(sq)) =>
           n + Occ' <= Occ /\ (n = 0 /\ Occ > 0 => Occ' > 0)
  PROVE  Order!Cycle
<1>1. TypeOK /\ Exact /\ ~scanning /\ ~FlushNow /\ head' = HeadAfterPop(sq)
  BY DEF QInv, IInv, Retire
<1>2. PICK n \in 0 .. 2 :
         /\ head' = Nth(head, n) /\ n <= Occ
         /\ n = 0 => ~HeadDone
         /\ n = 2 => Retire1CanPop(sq)
         /\ \A k \in 1 .. n : q[Place(k)].done /\ ~q[Place(k)].exc
  BY <1>1, Popping
<1>3. Occ' \in Nat
  BY OccNext
<1>4. n + Occ' <= Occ /\ (n = 0 /\ Occ > 0 => Occ' > 0)
  BY <1>2
<1>5. DOMAIN NoNew = {}
  BY NoNewEntry
<1>6. PICK keep \in Nat : Occ' = keep
  BY <1>3
<1>7. n + keep <= Occ /\ (n = 0 /\ Occ > 0 => keep > 0)
  BY <1>4, <1>6
<1>8. Occ' \in keep .. keep + 2 /\ ~(Occ' > keep)
  BY <1>6
<1>9. \A k \in keep + 1 .. Occ' : FALSE
  BY <1>6
<1>10. \A k \in 1 .. keep : Place(n + k) \notin DOMAIN NoNew
  BY <1>5
<1> QED
  BY <1>1, <1>2, <1>6, <1>7, <1>8, <1>9, <1>10, Moved

LEMMA QuietQueue ==
  ASSUME QInv, TypeOK', Exact', NEW wb \in WbSets, NEW ex \in ExSets, Quiet(wb, ex)
  PROVE  Order!Cycle
<1>1. Retire(FALSE, {}, NoNew, wb, ex) /\ tail' = tail
  BY DEF Quiet
<1>2. head \in Tag /\ tail \in Tag /\ Occ \in Nat
  BY OccNat DEF QInv, IInv, TypeOK
<1>3. ASSUME NEW n \in 0 .. 2, head' = Nth(head, n), n <= Occ
      PROVE  Occ' = Occ - n
  BY <1>1, <1>2, <1>3, DistCut DEF Occ
<1>4. \A n \in 0 .. 2 : head' = Nth(head, n) /\ n <= Occ =>
        n + Occ' <= Occ /\ (n = 0 /\ Occ > 0 => Occ' > 0)
  BY <1>2, <1>3
<1> QED
  BY <1>1, <1>4, Shrunk

LEMMA AllocQueue ==
  ASSUME QInv, TypeOK', Exact', NEW wb \in WbSets, NEW ex \in ExSets,
         NEW op \in Ops, Alloc(op, wb, ex)
  PROVE  Order!Cycle
<1> DEFINE new == [i \in {Idx(tail)} |-> NewEntry(op)]
<1>1. /\ Retire(FALSE, {}, new, wb, ex) /\ tail' = Inc(tail)
      /\ TypeOK /\ Exact /\ ~scanning /\ ~FlushNow /\ ~Full
      /\ head' = HeadAfterPop(FALSE)
  BY DEF Alloc, Retire, QInv, IInv
<1>2. DOMAIN new = {Idx(tail)} /\ new[Idx(tail)] = NewEntry(op)
  OBVIOUS
<1> HIDE DEF new
<1>3. head \in Tag /\ tail \in Tag /\ Occ \in Nat /\ Occ < DEPTH /\ head' \in Tag
  BY <1>1, OccNat, NotFull, PopWindow DEF TypeOK, Occ
<1>4. PICK n \in 0 .. 2 :
         /\ head' = Nth(head, n) /\ n <= Occ
         /\ n = 0 => ~HeadDone
         /\ \A k \in 1 .. n : q[Place(k)].done /\ ~q[Place(k)].exc
  BY <1>1, Popping
<1>5. Dist(tail, head') = Occ - n
  BY <1>3, <1>4, DistCut DEF Occ
<1>6. Occ' = (Occ - n) + 1
  <2>1. Dist(tail, head') < DEPTH
    BY <1>3, <1>4, <1>5, DepthAssumption
  <2> QED
    BY <1>1, <1>3, <1>5, <2>1, GrowBack DEF Occ
<1>7. Place(Occ + 1) = Idx(tail)
  BY <1>3, NthDist DEF Place, Occ
<1> DEFINE keep == Occ - n
<1>8. /\ keep \in Nat /\ n + keep = Occ /\ Occ' = keep + 1
      /\ n = 0 /\ Occ > 0 => keep > 0
  BY <1>3, <1>4, <1>6
<1>9. \A k \in 1 .. keep : Place(n + k) \notin DOMAIN new
  <2> TAKE k \in 1 .. keep
  <2>1. (n + k) - 1 \in Nat /\ (n + k) - 1 < Occ
    BY <1>3, <1>4
  <2>2. Idx(Nth(head, (n + k) - 1)) # Idx(Nth(head, Occ))
    BY <1>3, <2>1, NthDistinct
  <2> QED
    BY <1>2, <1>3, <2>2, NthDist DEF Place, Occ
<1>10. \A k \in keep + 1 .. Occ' :
         Place(n + k) \in DOMAIN new /\ \E o \in Ops : new[Place(n + k)] = NewEntry(o)
  <2> TAKE k \in keep + 1 .. Occ'
  <2>1. n + k = Occ + 1
    BY <1>3, <1>4, <1>8
  <2> QED
    BY <1>2, <1>7, <2>1
<1> HIDE DEF keep
<1>11. n + keep <= Occ /\ Occ' \in keep .. keep + 2
  BY <1>3, <1>8
<1> QED
  BY <1>1, <1>4, <1>8, <1>9, <1>10, <1>11, Moved

LEMMA AllocTwoQueue ==
  ASSUME QInv, Roomy, TypeOK', Exact', NEW wb \in WbSets, NEW ex \in ExSets,
         NEW op0 \in Ops, NEW op1 \in Ops, AllocTwo(op0, op1, wb, ex)
  PROVE  Order!Cycle
<1> DEFINE new == [i \in {Idx(tail), Idx(Inc(tail))} |->
                     IF i = Idx(tail) THEN NewEntry(op0) ELSE NewEntry(op1)]
<1>1. /\ Retire(FALSE, {}, new, wb, ex) /\ tail' = Inc(Inc(tail))
      /\ TypeOK /\ Exact /\ ~scanning /\ ~FlushNow /\ DualAlloc /\ ~FullDual
      /\ head' = HeadAfterPop(FALSE)
  BY DEF AllocTwo, Retire, QInv, IInv
<1>2. Occ \in Nat /\ Occ + 2 <= DEPTH /\ Idx(tail) # Idx(Inc(tail))
  BY <1>1, TwoFree DEF Occ
<1>3. /\ DOMAIN new = {Idx(tail), Idx(Inc(tail))}
      /\ new[Idx(tail)] = NewEntry(op0) /\ new[Idx(Inc(tail))] = NewEntry(op1)
  BY <1>2
<1> HIDE DEF new
<1>4. head \in Tag /\ tail \in Tag /\ Inc(tail) \in Tag /\ head' \in Tag
  BY <1>1, PopWindow, TagArithmetic DEF TypeOK
<1>5. PICK n \in 0 .. 2 :
         /\ head' = Nth(head, n) /\ n <= Occ
         /\ n = 0 => ~HeadDone
         /\ \A k \in 1 .. n : q[Place(k)].done /\ ~q[Place(k)].exc
  BY <1>1, Popping
<1>6. Occ' = (Occ - n) + 2
  <2>1. Dist(tail, head') = Occ - n
    BY <1>4, <1>5, DistCut DEF Occ
  <2>2. Dist(tail, head') < DEPTH /\ (Occ - n) + 1 < DEPTH
    BY <1>2, <2>1, DepthAssumption
  <2>3. Dist(Inc(tail), head') = (Occ - n) + 1
    BY <1>4, <2>1, <2>2, GrowBack
  <2>4. Dist(Inc(Inc(tail)), head') = Dist(Inc(tail), head') + 1
    BY <1>4, <2>2, <2>3, GrowBack
  <2>5. Occ' = ((Occ - n) + 1) + 1
    BY <1>1, <2>3, <2>4 DEF Occ
  <2> QED
    BY <1>2, <2>5
<1>7. tail = Nth(head, Occ) /\ Inc(tail) = Nth(head, Occ + 1)
  BY <1>2, <1>4, DepthAssumption DEF Nth, Inc, Tag, Occ, Dist
<1>8. Place(Occ + 1) = Idx(tail) /\ Place(Occ + 2) = Idx(Inc(tail))
  <2>1. (Occ + 1) - 1 = Occ /\ (Occ + 2) - 1 = Occ + 1
    BY <1>2
  <2> QED
    BY <1>7, <2>1 DEF Place
<1> DEFINE keep == Occ - n
<1>9. /\ keep \in Nat /\ n + keep = Occ /\ Occ' = keep + 2
      /\ n = 0 /\ Occ > 0 => keep > 0
  BY <1>2, <1>5, <1>6
<1>10. \A k \in 1 .. keep : Place(n + k) \notin DOMAIN new
  <2> TAKE k \in 1 .. keep
  <2>1. /\ (n + k) - 1 \in Nat /\ (n + k) - 1 < Occ /\ Occ < DEPTH
        /\ (n + k) - 1 < Occ + 1 /\ Occ + 1 < DEPTH /\ Occ + 1 \in Nat
    BY <1>2, <1>5, DepthAssumption
  <2>2. Idx(Nth(head, (n + k) - 1)) # Idx(Nth(head, Occ))
    BY <1>2, <1>4, <2>1, NthDistinct
  <2>3. Idx(Nth(head, (n + k) - 1)) # Idx(Nth(head, Occ + 1))
    BY <1>4, <2>1, NthDistinct
  <2> QED
    BY <1>3, <1>7, <2>2, <2>3 DEF Place
<1>11. \A k \in keep + 1 .. Occ' :
         Place(n + k) \in DOMAIN new /\ \E o \in Ops : new[Place(n + k)] = NewEntry(o)
  <2> TAKE k \in keep + 1 .. Occ'
  <2>1. n + k = Occ + 1 \/ n + k = Occ + 2
    BY <1>2, <1>5, <1>9
  <2> QED
    BY <1>3, <1>8, <2>1
<1> HIDE DEF keep
<1>12. n + keep <= Occ /\ Occ' \in keep .. keep + 2
  BY <1>2, <1>9
<1> QED
  BY <1>1, <1>5, <1>9, <1>10, <1>11, <1>12, Moved

LEMMA RetractQueue ==
  ASSUME QInv, TypeOK', Exact', NEW wb \in WbSets, NEW ex \in ExSets,
         NEW r0 \in BOOLEAN, NEW r1 \in BOOLEAN, Retract(r0, r1, wb, ex)
  PROVE  Order!Cycle
<1>1. /\ Retire(FALSE, Retracted(r0, r1), NoNew, wb, ex)
      /\ tail' = TailAfterRetract(r0, r1)
      /\ TypeOK /\ Exact /\ ~scanning /\ head' = HeadAfterPop(FALSE)
  BY DEF Retract, Retire, QInv, IInv
<1>2. /\ head \in Tag /\ tail \in Tag /\ Occ \in Nat /\ head' \in Tag
      /\ Dec(tail) \in Tag /\ Dec(Dec(tail)) \in Tag
      /\ Last1 \in Index /\ Last2 \in Index
  BY <1>1, OccNat, PopWindow, TagArithmetic DEF TypeOK, Last1, Last2
<1>3. /\ Dist(tail, head') <= DEPTH
      /\ \A i \in Index : Covers(head', tail, i) <=> Valid(i) /\ i \notin Popped(FALSE)
  BY <1>1, PopWindow
<1>4. ASSUME NEW n \in 0 .. 2, head' = Nth(head, n), n <= Occ
      PROVE  n + Occ' <= Occ /\ (n = 0 /\ Occ > 0 => Occ' > 0)
  <2>1. Dist(tail, head') = Occ - n
    BY <1>2, <1>4, DistCut DEF Occ
  <2>2. n = 0 => head' = head
    BY <1>2, <1>4, DepthAssumption DEF Nth, Tag
  <2>3. CASE tail' = tail
    BY <1>2, <2>1, <2>3 DEF Occ
  <2>4. ASSUME Reclaimable(Last1)
        PROVE  /\ Dist(Dec(tail), head') = (Occ - n) - 1
               /\ \A i \in Index : Covers(head', Dec(tail), i) <=>
                                     Covers(head', tail, i) /\ i # Last1
               /\ n = 0 => Dec(tail) # head'
    <3>1. Covers(head', tail, Last1) /\ Last1 # Idx(head)
      BY <1>2, <1>3, <2>4, ReclaimableKept DEF Reclaimable
    <3>2. head' # tail
      BY <1>2, <3>1, EmptyRange
    <3> QED
      BY <1>2, <1>3, <2>1, <2>2, <3>1, <3>2, CutBack DEF Last1
  <2>5. CASE tail' = Dec(tail) /\ Reclaimable(Last1)
    <3>1. Occ' = (Occ - n) - 1
      BY <2>4, <2>5 DEF Occ
    <3>2. n = 0 => Occ' # 0
      BY <1>2, <2>4, <2>5, DepthAssumption DEF Occ, Dist, Tag
    <3> QED
      BY <1>2, <1>4, <3>1, <3>2
  <2>6. CASE tail' = Dec(Dec(tail)) /\ Reclaimable(Last1) /\ Reclaimable(Last2)
    <3>1. Last1 # Last2 /\ Last2 # Idx(head)
      BY <1>2, <2>6, DepthAssumption DEF Last1, Last2, Tag, Dec, Idx, Reclaimable
    <3>2. Covers(head', Dec(tail), Last2)
      BY <1>2, <1>3, <2>4, <2>6, <3>1, ReclaimableKept
    <3>3. head' # Dec(tail)
      BY <1>2, <3>2, EmptyRange
    <3>4. Dist(Dec(tail), head') <= DEPTH
      BY <1>2, <1>3, <1>4, <2>1, <2>4, <2>6, DepthAssumption
    <3>5. Occ' = (Occ - n) - 2
      BY <1>2, <2>4, <2>6, <3>3, <3>4, CutBack DEF Occ
    <3>6. n = 0 => Occ' # 0
      BY <1>2, <2>2, <2>6, <3>1, DepthAssumption DEF Occ, Dist, Tag, Last2
    <3>7. Occ' \in Nat
      BY OccNext
    <3> QED
      BY <1>2, <1>4, <3>5, <3>6, <3>7
  <2> QED
    BY <1>1, <2>3, <2>5, <2>6 DEF TailAfterRetract, RetractBoth, RetractOne
<1> QED
  BY <1>1, <1>4, Shrunk

LEMMA SquashQueue ==
  ASSUME QInv, TypeOK', Exact', NEW wb \in WbSets, NEW ex \in ExSets,
         NEW p \in Tag, Squash(p, wb, ex)
  PROVE  Order!Cycle
<1>1. CASE ~InWindow(p)
  BY <1>1, QuietQueue DEF Squash
<1>2. CASE InWindow(p)
  <2> DEFINE sq == SquashHeadSameCycle(p)
  <2>1. Retire(sq, Younger(p), NoNew, wb, ex) /\ tail' = Inc(p)
    BY <1>2 DEF Squash
  <2>2. sq \in BOOLEAN
    BY DEF QInv, IInv, SquashHeadSameCycle, HeadDone, Empty, Valid, TypeOK, Entry
  <2>3. Retire1CanPop(sq) => p # head
    BY DEF SquashHeadSameCycle, Retire1CanPop
  <2> HIDE DEF sq
  <2>4. head \in Tag /\ tail \in Tag /\ Inc(p) \in Tag /\ Occ \in Nat
    BY OccNat, TagArithmetic DEF QInv, IInv, TypeOK
  <2>5. Dist(p, head) \in Nat /\ Dist(p, head) < Occ /\ Occ <= DEPTH
    BY <1>2, <2>1, <2>4, DistType, Running DEF InWindow, QInv, IInv, Retire, Occ
  <2>6. Dist(Inc(p), head) = Dist(p, head) + 1
    BY <2>4, <2>5, DepthAssumption DEF Tag, Dist, Inc
  <2>7. p # head => Dist(p, head) # 0
    BY <2>4, DepthAssumption DEF Tag, Dist
  <2>8. ASSUME NEW n \in 0 .. 2, head' = Nth(head, n), n <= Occ, n = 2 => Retire1CanPop(sq)
        PROVE  n + Occ' <= Occ /\ (n = 0 /\ Occ > 0 => Occ' > 0)
    <3>1. n <= Dist(Inc(p), head)
      BY <2>3, <2>5, <2>6, <2>7, <2>8
    <3>2. Occ' = Dist(Inc(p), head) - n
      BY <2>1, <2>4, <2>8, <3>1, DistCut DEF Occ
    <3> QED
      BY <2>4, <2>5, <2>6, <3>2
  <2> QED
    BY <2>1, <2>2, <2>8, Shrunk
<1> QED
  BY <1>1, <1>2

LEMMA RunQueue ==
  ASSUME Roomy, QInv, TypeOK', Exact',
         NEW wb \in WbSets, NEW ex \in ExSets, Run(wb, ex)
  PROVE  Order!Cycle
BY QuietQueue, AllocQueue, AllocTwoQueue, RetractQueue, SquashQueue DEF Run

-----------------------------------------------------------------------------
(* The flush and the scan.                                                 *)

LEMMA NoWindow ==
  head = tail /\ head \in Tag => Window = <<>>
<1> SUFFICES ASSUME head = tail, head \in Tag PROVE Window = <<>>
  OBVIOUS
<1>1. Occ = 0
  BY DepthAssumption DEF Occ, Dist, Tag
<1> QED
  BY <1>1 DEF Window

LEMMA FlushQueue ==
  ASSUME QInv, TypeOK', ExceptionFlush
  PROVE  Order!Flush
<1>1. TypeOK /\ Exact /\ ~scanning /\ head # tail
  BY DEF QInv, IInv, ExceptionFlush, FlushNow, HeadDone, Empty
<1>2. Place(1) = Idx(head) /\ Occ >= 1
  BY <1>1, DepthAssumption DEF Place, Nth, Tag, TypeOK, Occ, Dist
<1>3. Window[1] = View(q[Idx(head)]) /\ Window # <<>>
  BY <1>1, <1>2, WindowIs, OccNat
<1>4. q[Idx(head)].done /\ q[Idx(head)].exc
  BY DEF ExceptionFlush, FlushNow, HeadDone
<1>5. (head = tail /\ head \in Tag => Window = <<>>)'
  BY NoWindow, PTL
<1>6. Window' = <<>>
  BY <1>5 DEF ExceptionFlush, TypeOK
<1> QED
  BY <1>3, <1>4, <1>6 DEF Order!Flush, Order!Faulty, View, ExceptionFlush

LEMMA ScanQueue ==
  ASSUME QInv, TypeOK', ReleaseScan
  PROVE  Order!Flushed \/ UNCHANGED <<Window, scanning>>
<1>1. scanning /\ head = tail /\ head \in Tag /\ head' = head /\ tail' = tail
  BY DEF QInv, IInv, Exact, Empty, TypeOK, ReleaseScan
<1>2. Window = <<>>
  BY <1>1, NoWindow
<1>3. (head = tail /\ head \in Tag => Window = <<>>)'
  BY NoWindow, PTL
<1>4. Window' = <<>> /\ scanning' \in BOOLEAN
  BY <1>1, <1>3 DEF TypeOK
<1> QED
  BY <1>1, <1>2, <1>4 DEF Order!Flushed, TypeOK, QInv, IInv

-----------------------------------------------------------------------------
LEMMA FaultsDoneNext ==
  ASSUME QInv, [Next]_vars
  PROVE  FaultsDone'
<1>1. TypeOK /\ FaultsDone
  BY DEF QInv, IInv
<1>2. CASE ReleaseScan
  BY <1>1, <1>2 DEF ReleaseScan, FaultsDone, Valid, TypeOK
<1>3. CASE ExceptionFlush \/ UNCHANGED vars
  BY <1>1, <1>3 DEF ExceptionFlush, vars, FaultsDone, Valid
<1>4. ASSUME NEW wb \in WbSets, NEW ex \in ExSets, NEW sq, NEW gone, NEW new,
             \A i \in DOMAIN new : ~new[i].exc, Retire(sq, gone, new, wb, ex)
      PROVE  FaultsDone'
  <2> SUFFICES ASSUME NEW i \in Index, q'[i] # NoEntry, q'[i].exc PROVE q'[i].done
    BY DEF FaultsDone, Valid
  <2>1. i \notin DOMAIN new /\ q'[i] = Written(i, wb, ex)
    BY <1>4 DEF Retire
  <2>2. Valid(i)
    BY <1>1, <2>1, CompletableValid DEF Written, WbSets, ExSets, Valid
  <2> QED
    BY <1>1, <2>1, <2>2, WrittenProgress
<1>5. \A i \in DOMAIN NoNew : ~NoNew[i].exc
  BY NoNewEntry
<1>6. ASSUME NEW wb \in WbSets, NEW ex \in ExSets, Run(wb, ex) PROVE FaultsDone'
  <2>1. ASSUME Quiet(wb, ex) PROVE FaultsDone'
    BY <1>4, <1>5, <2>1 DEF Quiet
  <2>2. ASSUME NEW op \in Ops, Alloc(op, wb, ex) PROVE FaultsDone'
    <3> DEFINE new == [i \in {Idx(tail)} |-> NewEntry(op)]
    <3>1. \A i \in DOMAIN new : ~new[i].exc
      BY DEF NewEntry
    <3>2. Retire(FALSE, {}, new, wb, ex)
      BY <2>2 DEF Alloc
    <3> HIDE DEF new
    <3> QED
      BY <1>4, <3>1, <3>2
  <2>3. ASSUME NEW op0 \in Ops, NEW op1 \in Ops, AllocTwo(op0, op1, wb, ex)
        PROVE  FaultsDone'
    <3> DEFINE new == [i \in {Idx(tail), Idx(Inc(tail))} |->
                         IF i = Idx(tail) THEN NewEntry(op0) ELSE NewEntry(op1)]
    <3>1. \A i \in DOMAIN new : ~new[i].exc
      BY DEF NewEntry
    <3>2. Retire(FALSE, {}, new, wb, ex)
      BY <2>3 DEF AllocTwo
    <3> HIDE DEF new
    <3> QED
      BY <1>4, <3>1, <3>2
  <2>4. ASSUME NEW r0 \in BOOLEAN, NEW r1 \in BOOLEAN, Retract(r0, r1, wb, ex)
        PROVE  FaultsDone'
    BY <1>4, <1>5, <2>4 DEF Retract
  <2>5. ASSUME NEW p \in Tag, Squash(p, wb, ex) PROVE FaultsDone'
    BY <1>4, <1>5, <2>1, <2>5 DEF Squash
  <2> QED
    BY <1>6, <2>1, <2>2, <2>3, <2>4, <2>5 DEF Run
<1> QED
  BY <1>2, <1>3, <1>6 DEF Next

LEMMA InitQueue == Init => QInv /\ Order!Init
<1> SUFFICES ASSUME Init PROVE QInv /\ Order!Init
  OBVIOUS
<1>1. QInv
  BY InitIInv DEF QInv, FaultsDone, Init, Valid
<1>2. head = tail /\ head \in Tag
  BY DepthAssumption DEF Init, Tag
<1> QED
  BY <1>1, <1>2, NoWindow DEF Order!Init, Init

LEMMA StepQueue ==
  ASSUME Roomy, QInv, [Next]_vars
  PROVE  QInv' /\ [Order!Next]_<<Window, scanning>>
<1>1. IInv' /\ TypeOK' /\ Exact'
  BY NextIInv DEF QInv, IInv
<1>2. QInv'
  BY <1>1, FaultsDoneNext DEF QInv
<1> SUFFICES [Order!Next]_<<Window, scanning>>
  BY <1>2
<1>3. CASE ReleaseScan
  BY <1>1, <1>3, ScanQueue DEF Order!Next
<1>4. CASE ExceptionFlush
  BY <1>1, <1>4, FlushQueue DEF Order!Next
<1>5. ASSUME NEW wb \in WbSets, NEW ex \in ExSets, Run(wb, ex)
      PROVE  Order!Next
  BY <1>1, <1>5, RunQueue DEF Order!Next
<1>6. CASE UNCHANGED vars
  BY <1>6 DEF vars, Window, Occ
<1> QED
  BY <1>3, <1>4, <1>5, <1>6 DEF Next

(* The reorder buffer with one allocation a cycle implements the queue in  *)
(* program order, for every depth: whatever is retracted, squashed or      *)
(* flushed, instructions leave finished, fault-free and oldest first, at   *)
(* most two a cycle, and only younger ones are ever dropped                *)
(* (cpu_rob.sv:235-388).                                                   *)
THEOREM QueueImplemented ==
  ASSUME ~DualAlloc
  PROVE  Spec => InOrder
<1>1. Init => QInv /\ Order!Init
  BY InitQueue
<1>2. QInv /\ [Next]_vars => QInv' /\ [Order!Next]_<<Window, scanning>>
  BY StepQueue DEF Roomy
<1> QED
  BY <1>1, <1>2, PTL DEF Spec, InOrder, Order!Spec

(* And with two, for every depth, of a core in which rob_full_dual does    *)
(* what its comment says (cpu_rob.sv:71).                                  *)
THEOREM QueueRoomy ==
  Spec /\ []DualRoom => InOrder
<1>1. Init => QInv /\ Order!Init
  BY InitQueue
<1>2. QInv /\ DualRoom /\ [Next]_vars => QInv' /\ [Order!Next]_<<Window, scanning>>
  BY StepQueue DEF Roomy
<1> QED
  BY <1>1, <1>2, PTL DEF Spec, InOrder, Order!Spec

-----------------------------------------------------------------------------
(* A cycle seen place by place, for the modules that compose the buffer.   *)

(* Written keeps all of an entry but its two flags.                        *)
LEMMA WrittenKeeps ==
  ASSUME TypeOK, NEW wb \in WbSets, NEW ex \in ExSets, NEW i \in Index, Valid(i)
  PROVE  LET e == Written(i, wb, ex)
         IN  /\ e \in Entry
             /\ e.prd = q[i].prd /\ e.old = q[i].old /\ e.rd = q[i].rd
             /\ e.done <=> q[i].done \/ i \in wb \cup ex
             /\ e.exc <=> q[i].exc \/ i \in ex
<1>1. q[i] \in Entry
  BY DEF Valid, TypeOK
<1>2. CASE i \in ex
  BY <1>1, <1>2 DEF Written, Entry
<1>3. CASE i \notin ex /\ i \in wb
  BY <1>1, <1>3 DEF Written, Entry
<1>4. CASE i \notin ex /\ i \notin wb
  BY <1>1, <1>4 DEF Written, Entry
<1> QED
  BY <1>2, <1>3, <1>4

LEMMA PoppedPlaces ==
  ASSUME TypeOK, Exact, ~scanning, ~FlushNow, NEW sq \in BOOLEAN
  PROVE  \E n \in 0 .. 2 :
           /\ HeadAfterPop(sq) = Nth(head, n) /\ n <= Occ
           /\ n = 0 <=> ~HeadDone
           /\ n = 2 <=> HeadDone /\ Retire1CanPop(sq)
           /\ Popped(sq) = {Place(k) : k \in 1 .. n}
           /\ \A k \in 1 .. n : q[Place(k)].done /\ ~q[Place(k)].exc
<1>1. PICK n \in 0 .. 2 :
         /\ HeadAfterPop(sq) = Nth(head, n) /\ n <= Occ
         /\ n = 0 => ~HeadDone
         /\ n = 2 => Retire1CanPop(sq)
         /\ \A k \in 1 .. n : q[Place(k)].done /\ ~q[Place(k)].exc
  BY Popping
<1>2. head \in Tag
  BY DEF TypeOK
<1>3. /\ Nth(head, 0) = head /\ Nth(head, 1) = Inc(head)
      /\ Nth(head, 2) = Inc(Inc(head))
      /\ head # Inc(head) /\ head # Inc(Inc(head)) /\ Inc(head) # Inc(Inc(head))
  BY <1>2, DepthAssumption DEF Tag, Nth, Inc
<1>4. Place(1) = Idx(head) /\ Place(2) = Idx(Inc(head))
  BY <1>3 DEF Place
<1>5. n = 0 <=> ~HeadDone
  BY <1>1, <1>3 DEF HeadAfterPop
<1>6. n = 2 <=> HeadDone /\ Retire1CanPop(sq)
  BY <1>1, <1>3, <1>5 DEF HeadAfterPop
<1>7. Popped(sq) = {Place(k) : k \in 1 .. n}
  <2>1. CASE n = 0
    BY <1>5, <2>1 DEF Popped
  <2>2. CASE n = 1
    <3>1. 1 .. n = {1}
      BY <2>2
    <3> QED
      BY <1>4, <1>5, <1>6, <2>2, <3>1 DEF Popped
  <2>3. CASE n = 2
    <3>1. 1 .. n = {1, 2}
      BY <2>3
    <3> QED
      BY <1>4, <1>5, <1>6, <2>3, <3>1 DEF Popped
  <2> QED
    BY <2>1, <2>2, <2>3
<1> QED
  BY <1>1, <1>5, <1>6, <1>7

(* The step in which n entries retire moves place n + k to place k; what   *)
(* is at place k then was there or is new.                                 *)
Moves(n, sq, new, wb, ex) ==
  /\ n <= Occ /\ head' = Nth(head, n)
  /\ n = 0 <=> ~HeadDone
  /\ n = 2 <=> HeadDone /\ Retire1CanPop(sq)
  /\ \A k \in 1 .. n : q[Place(k)].done /\ ~q[Place(k)].exc
  /\ released' = {Freed(q[Place(k)]) : k \in 1 .. n}
  /\ \A k \in 1 .. Occ' :
       /\ Nth(head', k - 1) = Nth(head, (n + k) - 1)
       /\ q'[Place(k)'] = IF Place(n + k) \in DOMAIN new THEN new[Place(n + k)]
                          ELSE Written(Place(n + k), wb, ex)

LEMMA RetireMoves ==
  ASSUME TypeOK, Exact, TypeOK', Exact', NEW wb, NEW ex, NEW sq \in BOOLEAN,
         NEW gone, NEW new, Retire(sq, gone, new, wb, ex)
  PROVE  \E n \in 0 .. 2 : Moves(n, sq, new, wb, ex)
<1>1. ~scanning /\ ~scanning' /\ ~FlushNow /\ head' = HeadAfterPop(sq)
  BY DEF Retire, scan
<1>2. PICK n \in 0 .. 2 :
         /\ HeadAfterPop(sq) = Nth(head, n) /\ n <= Occ
         /\ n = 0 <=> ~HeadDone
         /\ n = 2 <=> HeadDone /\ Retire1CanPop(sq)
         /\ Popped(sq) = {Place(k) : k \in 1 .. n}
         /\ \A k \in 1 .. n : q[Place(k)].done /\ ~q[Place(k)].exc
  BY <1>1, PoppedPlaces
<1>3. released' = {Freed(q[Place(k)]) : k \in 1 .. n}
  BY <1>2 DEF Retire
<1>4. Occ' \in Nat /\ Occ' <= DEPTH /\ Occ <= DEPTH
  BY <1>1, OccNext DEF Exact, From, To, Occ
<1>5. (\A k \in 1 .. Occ : Place(k) \in Index /\ Valid(Place(k)) /\ q[Place(k)] \in Entry)'
  <2>1. TypeOK' /\ Exact' /\ ~scanning'
    BY <1>1
  <2>2. (TypeOK /\ Exact /\ ~scanning => 
     \A k \in 1 .. Occ : Place(k) \in Index /\ Valid(Place(k)) /\ q[Place(k)] \in Entry)'
    BY PlaceValid, PTL
  <2> QED
    BY <2>1, <2>2
<1>6. ASSUME NEW k \in 1 .. Occ'
      PROVE  /\ Nth(head', k - 1) = Nth(head, (n + k) - 1)
             /\ q'[Place(k)'] = IF Place(n + k) \in DOMAIN new THEN new[Place(n + k)]
                                ELSE Written(Place(n + k), wb, ex)
  <2>1. n + (k - 1) < 2 * DEPTH /\ k - 1 \in Nat /\ n \in Nat /\ head \in Tag
    BY <1>2, <1>4, OccNat, DepthAssumption DEF TypeOK
  <2>2. Nth(head', k - 1) = Nth(head, (n + k) - 1)
    BY <1>1, <1>2, <2>1, NthNth
  <2>3. Place(k)' = Place(n + k)
    BY <2>2 DEF Place
  <2>4. Place(n + k) \in Index /\ q'[Place(n + k)] # NoEntry
    BY <1>5, <2>3 DEF Valid, Index
  <2> QED
    BY <2>2, <2>3, <2>4 DEF Retire
<1> QED
  BY <1>1, <1>2, <1>3, <1>6 DEF Moves

(* Without an allocation.                                                  *)
LEMMA QuietMoves ==
  ASSUME TypeOK, Exact, TypeOK', Exact', NEW wb, NEW ex, Quiet(wb, ex)
  PROVE  \E n \in 0 .. 2 : Moves(n, FALSE, NoNew, wb, ex) /\ Occ' = Occ - n
<1>1. Retire(FALSE, {}, NoNew, wb, ex) /\ tail' = tail
  BY DEF Quiet
<1>2. PICK n \in 0 .. 2 : Moves(n, FALSE, NoNew, wb, ex)
  BY <1>1, RetireMoves
<1>3. head \in Tag /\ tail \in Tag /\ n \in Nat /\ n <= Dist(tail, head)
  BY <1>2 DEF TypeOK, Moves, Occ
<1>4. Occ' = Occ - n
  BY <1>1, <1>2, <1>3, DistCut DEF Occ, Moves
<1> QED
  BY <1>2, <1>4

LEMMA AllocMoves ==
  ASSUME TypeOK, Exact, TypeOK', Exact', NEW wb, NEW ex, NEW op, Alloc(op, wb, ex)
  PROVE  \E n \in 0 .. 2 :
           /\ Moves(n, FALSE, [i \in {Idx(tail)} |-> NewEntry(op)], wb, ex)
           /\ Occ' = (Occ - n) + 1
           /\ tail = Nth(head, Occ)
           /\ Place(Occ + 1) = Idx(tail)
           /\ \A k \in 1 .. Occ : Place(k) # Idx(tail)
<1> DEFINE new == [i \in {Idx(tail)} |-> NewEntry(op)]
<1>1. Retire(FALSE, {}, new, wb, ex) /\ tail' = Inc(tail) /\ ~Full /\ ~scanning
  BY DEF Alloc, Retire
<1> HIDE DEF new
<1>2. PICK n \in 0 .. 2 : Moves(n, FALSE, new, wb, ex)
  BY <1>1, RetireMoves
<1>3. head \in Tag /\ tail \in Tag /\ Occ \in Nat /\ Occ < DEPTH /\ head' \in Tag
  BY <1>1, OccNat, NotFull DEF TypeOK, Occ
<1>4. n \in Nat /\ n <= Occ /\ head' = Nth(head, n)
  BY <1>2 DEF Moves
<1>5. Dist(tail, head') = Occ - n
  BY <1>3, <1>4, DistCut DEF Occ
<1>6. Occ' = (Occ - n) + 1
  <2>1. Dist(tail, head') < DEPTH
    BY <1>3, <1>4, <1>5, DepthAssumption
  <2> QED
    BY <1>1, <1>3, <1>5, <2>1, GrowBack DEF Occ
<1>7. tail = Nth(head, Occ) /\ Place(Occ + 1) = Idx(tail)
  BY <1>3, NthDist DEF Place, Occ
<1>8. \A k \in 1 .. Occ : Place(k) # Idx(tail)
  <2> TAKE k \in 1 .. Occ
  <2>1. k - 1 \in Nat /\ k - 1 < Occ
    BY <1>3
  <2> QED
    BY <1>3, <1>7, <2>1, NthDistinct DEF Place
<1>9. new = [i \in {Idx(tail)} |-> NewEntry(op)]
  BY DEF new
<1> QED
  BY <1>2, <1>6, <1>7, <1>8, <1>9

(* A squash that keeps only the head, which stays.                         *)
LEMMA SquashMoves ==
  ASSUME TypeOK, Exact, TypeOK', Exact', NEW wb, NEW ex,
         ~HeadDone, ~Empty, Squash(head, wb, ex)
  PROVE  /\ Moves(0, FALSE, NoNew, wb, ex)
         /\ Occ' = 1 /\ Occ >= 1
         /\ tail' = Inc(head)
         /\ sqMask' = {q[Place(k)].prd : k \in 2 .. Occ}
<1>1. head \in Tag /\ tail \in Tag /\ Occ \in Nat /\ Occ < 2 * DEPTH
  BY OccNat DEF TypeOK
<1>2. Dist(head, head) = 0 /\ Dist(Inc(head), head) = 1 /\ Occ >= 1
  BY <1>1, DepthAssumption DEF Dist, Inc, Tag, Occ, Empty
<1>3. InWindow(head)
  BY <1>1, <1>2 DEF InWindow
<1>4. SquashHeadSameCycle(head) = FALSE
  BY DEF SquashHeadSameCycle
<1>5. /\ Retire(FALSE, Younger(head), NoNew, wb, ex) /\ tail' = Inc(head)
      /\ sqMask' = {q[i].prd : i \in {j \in Younger(head) : Valid(j)}}
  BY <1>3, <1>4 DEF Squash
<1>6. PICK n \in 0 .. 2 : Moves(n, FALSE, NoNew, wb, ex)
  BY <1>5, RetireMoves
<1>7. n = 0
  BY <1>6 DEF Moves
<1>8. head' = head
  BY <1>5 DEF Retire, HeadAfterPop
<1>9. Occ' = 1
  BY <1>2, <1>5, <1>8 DEF Occ
<1>10. ~scanning
  BY <1>5 DEF Retire
<1>11. \A k \in 1 .. Occ : Place(k) \in Index /\ Valid(Place(k))
  BY <1>10, PlaceValid
<1>12. Occ <= DEPTH
  BY <1>10, Running DEF Occ
<1>13. Dist(tail, Inc(head)) = Occ - 1
  BY <1>1, <1>2, DepthAssumption DEF Occ, Dist, Inc, Tag
<1>14. ASSUME NEW k \in 2 .. Occ PROVE Place(k) \in Younger(head) /\ Valid(Place(k))
  <2>1. k - 1 \in 0 .. 2 * DEPTH - 1
    BY <1>1, DepthAssumption
  <2>2. Nth(head, k - 1) \in Tag
    BY <1>1, <2>1, NthTag
  <2>3. Dist(Nth(head, k - 1), Inc(head)) = k - 2
    BY <1>1, <2>1, DepthAssumption DEF Nth, Dist, Inc, Tag
  <2>4. k \in 1 .. Occ
    OBVIOUS
  <2>5. k - 2 < Occ - 1 /\ k - 2 < DEPTH
    BY <1>1, <1>12, DepthAssumption
  <2>6. Idx(Nth(head, k - 1)) \in Younger(head)
    BY <1>13, <2>2, <2>3, <2>5 DEF Younger
  <2> QED
    BY <1>11, <2>4, <2>6 DEF Place
<1>15. ASSUME NEW i \in Younger(head) PROVE \E k \in 2 .. Occ : i = Place(k)
  <2>1. PICK t \in Tag : /\ i = Idx(t)
                         /\ Dist(t, Inc(head)) < Dist(tail, Inc(head))
    BY DEF Younger
  <2>2. Dist(t, Inc(head)) \in Nat /\ Dist(t, Inc(head)) + 2 \in 2 .. Occ
    BY <1>1, <1>13, <2>1, DepthAssumption DEF Dist, Inc, Tag
  <2>3. PICK k \in 2 .. Occ : k - 1 = Dist(t, Inc(head)) + 1
    BY <2>2
  <2>4. Nth(head, Dist(t, Inc(head)) + 1) = t
    BY <1>1, <1>12, <2>1, <2>2, DepthAssumption DEF Dist, Inc, Tag, Nth
  <2> QED
    BY <2>1, <2>3, <2>4 DEF Place
<1>16. sqMask' = {q[Place(k)].prd : k \in 2 .. Occ}
  BY <1>5, <1>14, <1>15
<1> QED
  BY <1>2, <1>5, <1>6, <1>7, <1>9, <1>16
=============================================================================
