-------------------------- MODULE RenameCore_proofs --------------------------
(***************************************************************************)
(* The rename machinery of cpu_core as fpga_top uses it (Board), for every *)
(* depth of the buffer, any number of registers and writeback ports and    *)
(* any mix of instructions: the invariants the runs of RenameCore check.   *)
(*                                                                         *)
(* None of them is inductive.  The argument looks at the window of the     *)
(* reorder buffer place by place, oldest first (At, TagAt), and at one     *)
(* cycle as a shift of those places (Stays): n entries retire, m stay, at  *)
(* most one is new.  Value(r, n, p) says that p is what the n oldest       *)
(* instructions leave in register r.  Names then fixes every name in use:  *)
(* the map is the value behind the whole window, the replaced mapping of an*)
(* entry the value before it, the snapshot of a branch the value before    *)
(* that branch, and the snapshots stand in the order of their branches;    *)
(* between a redirect and its squash the map is the value behind the head. *)
(* Owners says whose each register is: a destination of the window, a      *)
(* committed value, or on its way back.  A free register that neither the  *)
(* buffer nor the map keeps out of allocation is nobody's (FreshApart),    *)
(* because the committed value of r is the map's, or what the oldest writer*)
(* of r in the window replaced (Held).  Names keeps Owners and Owners, by  *)
(* what it gives an allocation, keeps Names.                               *)
(***************************************************************************)
EXTENDS RenameCore, FiniteSetTheorems, WellFoundedInduction, TLAPS

AnyOp == [prd : 1 .. NPRD, old : 0 .. NPRD, rd : 0 .. NREG]
R == INSTANCE CpuRobOrder_proofs WITH Ops <- AnyOp

-----------------------------------------------------------------------------
(* The buffer of the core meets the assumptions of its own theorems.       *)
LEMMA RobAssumptions ==
  /\ R!DepthAssumption /\ R!PrdAssumption /\ R!EntryAssumption
  /\ R!OpsAssumption /\ R!PortsAssumption /\ R!DualAssumption
BY SizeAssumption, SlotAssumption
   DEF R!DepthAssumption, R!PrdAssumption, R!EntryAssumption, R!OpsAssumption,
       R!PortsAssumption, R!DualAssumption, R!Entry, Rob!Entry, R!Prd, Rob!Prd,
       R!Reg, Rob!Reg, R!Op, AnyOp

(* The instance proved about is the one the core uses.                     *)
LEMMA SameSets ==
  /\ Rob!Tag = R!Tag /\ Rob!Index = R!Index /\ Rob!Prd = R!Prd /\ Rob!Reg = R!Reg
  /\ Rob!Entry = R!Entry /\ Rob!Request = R!Request /\ Rob!TypeOK <=> R!TypeOK
  /\ Rob!Init <=> R!Init
BY DEF Rob!Tag, R!Tag, Rob!Index, R!Index, Rob!Prd, R!Prd, Rob!Reg, R!Reg, Rob!Entry, R!Entry,
  Rob!Request, R!Request, Rob!TypeOK, R!TypeOK, Rob!Init, R!Init

LEMMA SameTags ==
  /\ \A t : Rob!Idx(t) = R!Idx(t) /\ Rob!Inc(t) = R!Inc(t) /\ Rob!Dec(t) = R!Dec(t)
  /\ \A a, b : Rob!Dist(a, b) = R!Dist(a, b)
BY DEF Rob!Idx, R!Idx, Rob!Inc, R!Inc, Rob!Dec, R!Dec, Rob!Dist, R!Dist

LEMMA SameOutputs ==
  /\ Rob!Occ = R!Occ /\ (Rob!Empty <=> R!Empty) /\ (Rob!Full <=> R!Full)
  /\ (Rob!HeadDone <=> R!HeadDone) /\ (Rob!FlushNow <=> R!FlushNow)
  /\ Rob!InUse = R!InUse
  /\ \A t : Rob!InWindow(t) <=> R!InWindow(t)
  /\ \A sq : Rob!Retire1CanPop(sq) <=> R!Retire1CanPop(sq)
<1>1. Rob!Occ = R!Occ /\ (Rob!Empty <=> R!Empty) /\ (Rob!Full <=> R!Full)
  BY DEF
    Rob!Occ, R!Occ, Rob!Dist, R!Dist, Rob!Empty, R!Empty, Rob!Full, R!Full, Rob!SameWrap,
    R!SameWrap, Rob!Idx, R!Idx
<1>2. (Rob!HeadDone <=> R!HeadDone) /\ (Rob!FlushNow <=> R!FlushNow)
  BY DEF
    Rob!HeadDone, R!HeadDone, Rob!FlushNow, R!FlushNow, Rob!Empty, R!Empty, Rob!Valid,
    R!Valid, Rob!Idx, R!Idx
<1>3. Rob!InUse = R!InUse
  BY DEF
    Rob!InUse, R!InUse, Rob!Valid, R!Valid, Rob!Index, R!Index
<1>4. \A t : Rob!InWindow(t) <=> R!InWindow(t)
  BY DEF
    Rob!InWindow, R!InWindow, Rob!Dist, R!Dist, Rob!Occ, R!Occ
<1>5. \A sq : Rob!Retire1CanPop(sq) <=> R!Retire1CanPop(sq)
  BY DEF
    Rob!Retire1CanPop, R!Retire1CanPop, Rob!HeadDone, R!HeadDone, Rob!Empty, R!Empty,
    Rob!Valid, R!Valid, Rob!Clean, R!Clean, Rob!Idx, R!Idx, Rob!Inc, R!Inc
<1> QED
  BY <1>1, <1>2, <1>3, <1>4, <1>5

LEMMA SameWritebacks ==
  Rob!WbSets = R!WbSets /\ Rob!ExSets = R!ExSets
<1>1. \A r : Rob!Accept(r) <=> R!Accept(r)
  BY DEF
    Rob!Accept, R!Accept, Rob!InWindow, R!InWindow, Rob!Dist, R!Dist, Rob!Occ, R!Occ,
    Rob!Pending, R!Pending, Rob!Valid, R!Valid, Rob!Idx, R!Idx
<1>2. ASSUME NEW i PROVE i \in Rob!Completable <=> i \in R!Completable
  BY <1>1 DEF
    Rob!Completable, R!Completable, Rob!Request, R!Request, Rob!Tag, R!Tag, Rob!Prd,
    R!Prd, Rob!Idx, R!Idx
<1>3. Rob!Completable = R!Completable
  BY <1>2
<1>4. \A S : Rob!Cardinality(S) = R!Cardinality(S)
  BY DEF Rob!Cardinality, R!Cardinality
<1> QED
  BY <1>3, <1>4 DEF Rob!WbSets, R!WbSets, Rob!ExSets, R!ExSets

LEMMA SameActions ==
  ASSUME NEW wb, NEW ex
  PROVE  /\ Rob!Quiet(wb, ex) <=> R!Quiet(wb, ex)
         /\ \A op : Rob!Alloc(op, wb, ex) <=> R!Alloc(op, wb, ex)
         /\ \A p : Rob!Squash(p, wb, ex) <=> R!Squash(p, wb, ex)
         /\ Rob!ExceptionFlush <=> R!ExceptionFlush
         /\ Rob!ReleaseScan <=> R!ReleaseScan
<1>1. Rob!Quiet(wb, ex) <=> R!Quiet(wb, ex)
  BY DEF
    Rob!Quiet, R!Quiet, Rob!Retire, R!Retire, Rob!NoNew, R!NoNew, Rob!HeadAfterPop,
    R!HeadAfterPop, Rob!Popped, R!Popped, Rob!Freed, R!Freed, Rob!Written, R!Written,
    Rob!HeadDone, R!HeadDone, Rob!Retire1CanPop, R!Retire1CanPop, Rob!Valid, R!Valid,
    Rob!Clean, R!Clean, Rob!Idx, R!Idx, Rob!Inc, R!Inc, Rob!Empty, R!Empty, Rob!FlushNow,
    R!FlushNow, Rob!Index, R!Index, Rob!scan, R!scan
<1>2. ASSUME NEW op PROVE Rob!Alloc(op, wb, ex) <=> R!Alloc(op, wb, ex)
  BY DEF
    Rob!Alloc, R!Alloc, Rob!NewEntry, R!NewEntry, Rob!Full, R!Full, Rob!SameWrap,
    R!SameWrap, Rob!Retire, R!Retire, Rob!NoNew, R!NoNew, Rob!HeadAfterPop,
    R!HeadAfterPop, Rob!Popped, R!Popped, Rob!Freed, R!Freed, Rob!Written, R!Written,
    Rob!HeadDone, R!HeadDone, Rob!Retire1CanPop, R!Retire1CanPop, Rob!Valid, R!Valid,
    Rob!Clean, R!Clean, Rob!Idx, R!Idx, Rob!Inc, R!Inc, Rob!Empty, R!Empty, Rob!FlushNow,
    R!FlushNow, Rob!Index, R!Index, Rob!scan, R!scan
<1>3. ASSUME NEW p PROVE Rob!Squash(p, wb, ex) <=> R!Squash(p, wb, ex)
  BY DEF
    Rob!Squash, R!Squash, Rob!Quiet, R!Quiet, Rob!InWindow, R!InWindow, Rob!Dist, R!Dist,
    Rob!Occ, R!Occ, Rob!Younger, R!Younger, Rob!SquashHeadSameCycle,
    R!SquashHeadSameCycle, Rob!Tag, R!Tag, Rob!Retire, R!Retire, Rob!NoNew, R!NoNew,
    Rob!HeadAfterPop, R!HeadAfterPop, Rob!Popped, R!Popped, Rob!Freed, R!Freed,
    Rob!Written, R!Written, Rob!HeadDone, R!HeadDone, Rob!Retire1CanPop, R!Retire1CanPop,
    Rob!Valid, R!Valid, Rob!Clean, R!Clean, Rob!Idx, R!Idx, Rob!Inc, R!Inc, Rob!Empty,
    R!Empty, Rob!FlushNow, R!FlushNow, Rob!Index, R!Index, Rob!scan, R!scan
<1>4. Rob!ExceptionFlush <=> R!ExceptionFlush
  BY DEF
    Rob!ExceptionFlush, R!ExceptionFlush, Rob!HeadDone, R!HeadDone, Rob!FlushNow,
    R!FlushNow, Rob!Empty, R!Empty, Rob!Valid, R!Valid, Rob!Idx, R!Idx
<1>5. Rob!ReleaseScan <=> R!ReleaseScan
  BY DEF
    Rob!ReleaseScan, R!ReleaseScan, Rob!Valid, R!Valid, Rob!Idx, R!Idx, Rob!Inc, R!Inc
<1> QED
  BY <1>1, <1>2, <1>3, <1>4, <1>5

-----------------------------------------------------------------------------
(* The window by places, oldest first.                                     *)

Size == R!Occ
At(k) == q[R!Place(k)]
TagAt(k) == R!Nth(head, k - 1)

(* n entries retire, the m after them stay and become the first m; their   *)
(* flags change as the writebacks wb and the exceptions ex say.            *)
Stays(n, m, wb, ex) ==
  /\ n \in 0 .. 2 /\ m \in Nat /\ n + m <= Size /\ m <= Size' /\ Size' \in Nat
  /\ \A k \in 1 .. n : At(k).done /\ ~At(k).exc
  /\ released' = {R!Freed(At(k)) : k \in 1 .. n}
  /\ \A k \in 1 .. m :
       /\ TagAt(k)' = TagAt(n + k)
       /\ At(k)'.prd = At(n + k).prd /\ At(k)'.old = At(n + k).old
       /\ At(k)'.rd = At(n + k).rd
       /\ At(k)'.done <=> At(n + k).done \/ R!Place(n + k) \in wb \cup ex
       /\ At(k)'.exc <=> At(n + k).exc \/ R!Place(n + k) \in ex
  /\ n = 0 => commit' = commit
  /\ n = 1 => commit' = Rat!Set(commit, <<At(1).rd, At(1).prd>>)
  /\ n = 2 => commit' = Rat!Set(Rat!Set(commit, <<At(1).rd, At(1).prd>>),
                                <<At(2).rd, At(2).prd>>)

(* The window has no more places than the buffer slots, and each is valid. *)
LEMMA Places ==
  ASSUME R!TypeOK, R!Exact, ~scanning
  PROVE  /\ Size \in Nat /\ Size <= DEPTH /\ head \in R!Tag /\ tail \in R!Tag
         /\ \A k \in 1 .. Size : /\ R!Place(k) \in R!Index /\ R!Valid(R!Place(k))
                                  /\ At(k) \in R!Entry
<1>1. Size \in Nat
  BY RobAssumptions, R!OccNat DEF Size
<1>2. R!Dist(tail, head) <= DEPTH
  BY RobAssumptions, R!Running
<1>3. \A k \in 1 .. R!Occ : /\ R!Place(k) \in R!Index /\ R!Valid(R!Place(k))
                            /\ q[R!Place(k)] \in R!Entry
  BY RobAssumptions, R!PlaceValid
<1> QED
  BY <1>1, <1>2, <1>3 DEF Size, At, R!Occ, R!TypeOK

(* What a cycle commits, by the number of entries it retires.              *)
LEMMA RetiredIs ==
  ASSUME head \in R!Tag, NEW sq, commit' = Retired(sq), NEW n \in 0 .. 2,
         n = 0 <=> ~R!HeadDone, n = 2 <=> R!HeadDone /\ R!Retire1CanPop(sq)
  PROVE  /\ n = 0 => commit' = commit
         /\ n = 1 => commit' = Rat!Set(commit, <<At(1).rd, At(1).prd>>)
         /\ n = 2 => commit' = Rat!Set(Rat!Set(commit, <<At(1).rd, At(1).prd>>),
                                       <<At(2).rd, At(2).prd>>)
<1>1. R!Nth(head, 0) = head /\ R!Nth(head, 1) = R!Inc(head)
  BY SizeAssumption DEF R!Tag, R!Nth, R!Inc
<1>2. R!Place(1) = R!Idx(head) /\ R!Place(2) = R!Idx(R!Inc(head))
  BY <1>1 DEF R!Place
<1>3. At(1) = q[Rob!Idx(head)] /\ At(2) = q[Rob!Idx(Rob!Inc(head))]
  BY <1>2, SameTags DEF At
<1> QED
  BY <1>3, SameOutputs DEF Retired

(* The writebacks of the core are writebacks of the buffer.                *)
LEMMA Ports ==
  ASSUME NEW wb \in WbSets, NEW ex \in ExSets
  PROVE  wb \in R!WbSets /\ ex \in R!ExSets
<1>1. {} \in R!ExSets
  <2>1. R!Cardinality({}) = Cardinality({})
    BY DEF R!Cardinality, Cardinality
  <2> QED
    BY <2>1, FS_EmptySet DEF R!ExSets
<1> QED
  BY <1>1, SameWritebacks DEF WbSets, ExSets

(* What Moves says of the places that take nothing new.                    *)
LEMMA MovesStay ==
  ASSUME R!TypeOK, R!Exact, ~scanning, NEW wb \in WbSets, NEW ex \in ExSets,
         NEW sq, commit' = Retired(sq), NEW new, NEW n \in 0 .. 2, R!Moves(n, sq, new, wb, ex),
         NEW m \in Nat, n + m <= Size, m <= Size', Size' \in Nat,
         \A k \in 1 .. m : R!Place(n + k) \notin DOMAIN new
  PROVE  Stays(n, m, wb, ex)
<1>1. Size \in Nat /\ head \in R!Tag
  BY Places
<1>2. wb \in R!WbSets /\ ex \in R!ExSets
  BY Ports
<1>3. ASSUME NEW k \in 1 .. m
      PROVE  /\ TagAt(k)' = TagAt(n + k)
             /\ At(k)'.prd = At(n + k).prd /\ At(k)'.old = At(n + k).old
             /\ At(k)'.rd = At(n + k).rd
             /\ At(k)'.done <=> At(n + k).done \/ R!Place(n + k) \in wb \cup ex
             /\ At(k)'.exc <=> At(n + k).exc \/ R!Place(n + k) \in ex
  <2>1. k \in 1 .. Size' /\ n + k \in 1 .. Size
    BY <1>1
  <2>2. /\ TagAt(k)' = TagAt(n + k)
        /\ At(k)' = R!Written(R!Place(n + k), wb, ex)
    BY <2>1 DEF R!Moves, TagAt, At, Size
  <2>3. R!Place(n + k) \in R!Index /\ R!Valid(R!Place(n + k))
    BY <2>1, Places
  <2> QED
    BY <1>2, <2>2, <2>3, RobAssumptions, R!WrittenKeeps DEF At
<1>4. /\ \A k \in 1 .. n : At(k).done /\ ~At(k).exc
      /\ released' = {R!Freed(At(k)) : k \in 1 .. n}
      /\ n = 0 <=> ~R!HeadDone
      /\ n = 2 <=> R!HeadDone /\ R!Retire1CanPop(sq)
  BY DEF R!Moves, At
<1> QED
  BY <1>1, <1>3, <1>4, RetiredIs DEF Stays

(* A cycle that only retires.                                              *)
LEMMA QuietStays ==
  ASSUME R!IInv, R!IInv', NEW wb \in WbSets, NEW ex \in ExSets,
         Rob!Quiet(wb, ex), commit' = Retired(FALSE)
  PROVE  \E n \in 0 .. 2, m \in Nat :
           /\ Stays(n, m, wb, ex) /\ n + m = Size /\ Size' = m
           /\ n = 0 <=> ~R!HeadDone
<1>1. R!TypeOK /\ R!Exact /\ R!TypeOK' /\ R!Exact'
  BY DEF R!IInv
<1>2. ~scanning /\ R!Quiet(wb, ex)
  <2>1. R!Quiet(wb, ex)
    BY SameActions
  <2> QED
    BY <2>1 DEF R!Quiet, R!Retire
<1>3. PICK n \in 0 .. 2 : R!Moves(n, FALSE, R!NoNew, wb, ex) /\ R!Occ' = R!Occ - n
  BY <1>1, <1>2, RobAssumptions, R!QuietMoves
<1>4. Size \in Nat /\ n <= Size /\ (n = 0 <=> ~R!HeadDone)
  BY <1>1, <1>2, <1>3, Places DEF R!Moves, Size
<1>5. PICK m \in Nat : m = Size - n
  BY <1>4
<1>6. Size' = m /\ n + m = Size
  BY <1>3, <1>4, <1>5 DEF Size
<1>7. DOMAIN R!NoNew = {}
  BY DEF R!NoNew
<1>8. Stays(n, m, wb, ex)
  <2>1. Size' \in Nat /\ m <= Size' /\ n + m <= Size
    BY <1>4, <1>6
  <2>2. \A k \in 1 .. m : R!Place(n + k) \notin DOMAIN R!NoNew
    BY <1>7
  <2> QED
    BY <1>1, <1>2, <1>3, <2>1, <2>2, MovesStay
<1> QED
  BY <1>4, <1>6, <1>8

(* A cycle that allocates one entry.                                       *)
LEMMA AllocStays ==
  ASSUME R!IInv, R!IInv', NEW wb \in WbSets, NEW ex \in ExSets, NEW op,
         Rob!Alloc(op, wb, ex), commit' = Retired(FALSE)
  PROVE  \E n \in 0 .. 2, m \in Nat :
           /\ Stays(n, m, wb, ex) /\ n + m = Size /\ Size' = m + 1
           /\ At(m + 1)' = R!NewEntry(op) /\ TagAt(m + 1)' = tail
           /\ tail = R!Nth(head, Size) /\ Size < DEPTH
<1>1. R!TypeOK /\ R!Exact /\ R!TypeOK' /\ R!Exact'
  BY DEF R!IInv
<1>2. R!Alloc(op, wb, ex)
  BY SameActions
<1>3. ~scanning /\ ~R!Full
  BY <1>2 DEF R!Alloc, R!Retire
<1> DEFINE new == [i \in {R!Idx(tail)} |-> R!NewEntry(op)]
<1>4. PICK n \in 0 .. 2 :
         /\ R!Moves(n, FALSE, new, wb, ex)
         /\ R!Occ' = (R!Occ - n) + 1
         /\ tail = R!Nth(head, R!Occ)
         /\ R!Place(R!Occ + 1) = R!Idx(tail)
         /\ \A k \in 1 .. R!Occ : R!Place(k) # R!Idx(tail)
  BY <1>1, <1>2, RobAssumptions, R!AllocMoves
<1>5. DOMAIN new = {R!Idx(tail)} /\ new[R!Idx(tail)] = R!NewEntry(op)
  OBVIOUS
<1> HIDE DEF new
<1>6. Size \in Nat /\ n <= Size
  BY <1>1, <1>3, <1>4, Places DEF R!Moves, Size
<1>7. PICK m \in Nat : m = Size - n
  BY <1>6
<1>8. Size' = m + 1 /\ n + m = Size
  BY <1>4, <1>6, <1>7 DEF Size
<1>9. Stays(n, m, wb, ex)
  <2>1. \A k \in 1 .. m : R!Place(n + k) \notin DOMAIN new
    <3> TAKE k \in 1 .. m
    <3>1. n + k \in 1 .. R!Occ
      BY <1>6, <1>8 DEF Size
    <3> QED
      BY <1>4, <1>5, <3>1
  <2>2. Size' \in Nat /\ m <= Size' /\ n + m <= Size
    BY <1>6, <1>8
  <2> QED
    BY <1>1, <1>3, <1>4, <2>1, <2>2, MovesStay
<1>10. At(m + 1)' = R!NewEntry(op) /\ TagAt(m + 1)' = tail
  <2>1. m + 1 \in 1 .. R!Occ' /\ n + (m + 1) = R!Occ + 1
    BY <1>6, <1>8 DEF Size
  <2>2. /\ R!Nth(head', (m + 1) - 1) = R!Nth(head, (n + (m + 1)) - 1)
        /\ q'[R!Place(m + 1)'] = IF R!Place(n + (m + 1)) \in DOMAIN new
                                 THEN new[R!Place(n + (m + 1))]
                                 ELSE R!Written(R!Place(n + (m + 1)), wb, ex)
    BY <1>4, <2>1 DEF R!Moves
  <2>3. (R!Occ + 1) - 1 = R!Occ
    BY <1>6 DEF Size
  <2> QED
    BY <1>4, <1>5, <2>1, <2>2, <2>3 DEF At, TagAt
<1>11. Size < DEPTH
  BY <1>1, <1>3, RobAssumptions, R!NotFull DEF Size, R!Occ
<1> QED
  BY <1>4, <1>8, <1>9, <1>10, <1>11 DEF Size

(* A squash behind the head, which is not done.                            *)
LEMMA SquashStays ==
  ASSUME R!IInv, R!IInv', NEW wb \in WbSets, NEW ex \in ExSets, ~R!HeadDone, ~R!Empty,
         Rob!Squash(head, wb, ex), commit' = Retired(Rob!SquashHeadSameCycle(head))
  PROVE  /\ Stays(0, 1, wb, ex) /\ Size' = 1 /\ Size >= 1
         /\ sqMask' = {At(k).prd : k \in 2 .. Size}
<1>1. R!TypeOK /\ R!Exact /\ R!TypeOK' /\ R!Exact'
  BY DEF R!IInv
<1>2. R!Squash(head, wb, ex)
  BY SameActions
<1>3. ~scanning
  BY <1>2 DEF R!Squash, R!Quiet, R!Retire
<1>4. /\ R!Moves(0, FALSE, R!NoNew, wb, ex)
      /\ R!Occ' = 1 /\ R!Occ >= 1
      /\ sqMask' = {q[R!Place(k)].prd : k \in 2 .. R!Occ}
  BY <1>1, <1>2, RobAssumptions, R!SquashMoves
<1>5. commit' = Retired(FALSE)
  <2>1. Rob!SquashHeadSameCycle(head) = FALSE
    BY SameOutputs DEF Rob!SquashHeadSameCycle
  <2> QED
    BY <2>1
<1>6. DOMAIN R!NoNew = {}
  BY DEF R!NoNew
<1>7. Stays(0, 1, wb, ex)
  <2>1. Size' \in Nat /\ 1 <= Size' /\ 0 + 1 <= Size
    BY <1>4 DEF Size
  <2>2. \A k \in 1 .. 1 : R!Place(0 + k) \notin DOMAIN R!NoNew
    BY <1>6
  <2>3. 0 \in 0 .. 2 /\ 1 \in Nat
    OBVIOUS
  <2> QED
    BY <1>1, <1>3, <1>4, <1>5, <2>1, <2>2, <2>3, MovesStay
<1> QED
  BY <1>4, <1>7 DEF Size, At

-----------------------------------------------------------------------------
(* The physical register that holds r behind the n oldest instructions.    *)
Value(r, n, p) ==
  \/ p = commit[r] /\ \A k \in 1 .. n : At(k).rd # r
  \/ \E k \in 1 .. n : /\ At(k).rd = r /\ At(k).prd = p
                       /\ \A j \in k + 1 .. n : At(j).rd # r

(* A register has one value at each place.                                 *)
LEMMA ValueUnique ==
  ASSUME NEW r, NEW n \in Nat, NEW p, NEW o, Value(r, n, p), Value(r, n, o)
  PROVE  p = o
BY DEF Value

(* One more instruction.                                                   *)
LEMMA ValueNext ==
  ASSUME NEW r, NEW n \in Nat, NEW p, At(n + 1).rd # r => Value(r, n, p),
         At(n + 1).rd = r => p = At(n + 1).prd
  PROVE  Value(r, n + 1, p)
<1>1. CASE At(n + 1).rd = r
  <2>1. n + 1 \in 1 .. n + 1 /\ \A j \in (n + 1) + 1 .. n + 1 : FALSE
    OBVIOUS
  <2> QED
    BY <1>1, <2>1 DEF Value
<1>2. CASE At(n + 1).rd # r
  <2>1. \A k \in 1 .. n + 1 : k \in 1 .. n \/ k = n + 1
    OBVIOUS
  <2>2. CASE p = commit[r] /\ \A k \in 1 .. n : At(k).rd # r
    BY <1>2, <2>1, <2>2 DEF Value
  <2>3. ASSUME NEW k \in 1 .. n, At(k).rd = r, At(k).prd = p,
               \A j \in k + 1 .. n : At(j).rd # r
        PROVE  Value(r, n + 1, p)
    <3>1. \A j \in k + 1 .. n + 1 : At(j).rd # r
      BY <1>2, <2>3
    <3> QED
      BY <2>3, <3>1 DEF Value
  <2> QED
    BY <1>2, <2>2, <2>3 DEF Value
<1> QED
  BY <1>1, <1>2

(* One assignment to a map.                                                *)
LEMMA SetMap ==
  ASSUME NEW m \in Rat!Map, NEW r \in 0 .. NREG, NEW p \in 0 .. NPRD
  PROVE  /\ Rat!Set(m, <<r, p>>) \in Rat!Map
         /\ \A i \in 1 .. NREG : Rat!Set(m, <<r, p>>)[i] = IF i = r THEN p ELSE m[i]
BY SizeAssumption DEF Rat!Map, Rat!Set

LEMMA SetNone ==
  ASSUME NEW m
  PROVE  Rat!Set(m, <<0, 0>>) = m
BY DEF Rat!Set

(* What has retired is the committed value.                                *)
LEMMA CommitMoves ==
  ASSUME R!TypeOK, R!Exact, ~scanning, commit \in Rat!Map,
         NEW n, NEW m, NEW wb, NEW ex, Stays(n, m, wb, ex)
  PROVE  /\ commit' \in Rat!Map
         /\ \A r \in 1 .. NREG : Value(r, n, commit'[r])
<1>1. n \in 0 .. 2 /\ \A k \in 1 .. n : At(k).rd \in 0 .. NREG /\ At(k).prd \in 0 .. NPRD
  <2>1. \A k \in 1 .. n : At(k) \in R!Entry
    BY Places DEF Stays
  <2> QED
    BY <2>1 DEF R!Entry, R!Prd, R!Reg, Stays
<1>2. CASE n = 0
  BY <1>2 DEF Stays, Value
<1>3. \A r \in 1 .. NREG : Value(r, 0, commit[r])
  BY DEF Value
<1>4. ASSUME n > 0
      PROVE  LET c == Rat!Set(commit, <<At(1).rd, At(1).prd>>)
             IN  c \in Rat!Map /\ \A r \in 1 .. NREG : Value(r, 0 + 1, c[r])
  <2> DEFINE c == Rat!Set(commit, <<At(1).rd, At(1).prd>>)
  <2>1. 1 \in 1 .. n
    BY <1>1, <1>4
  <2>2. /\ c \in Rat!Map
        /\ \A r \in 1 .. NREG : c[r] = IF r = At(1).rd THEN At(1).prd ELSE commit[r]
    BY <1>1, <2>1, SetMap
  <2> HIDE DEF c
  <2>3. ASSUME NEW r \in 1 .. NREG PROVE Value(r, 0 + 1, c[r])
    BY <1>3, <2>2, ValueNext
  <2> QED
    BY <2>2, <2>3 DEF c
<1>5. CASE n = 1
  BY <1>4, <1>5 DEF Stays
<1>6. CASE n = 2
  <2> DEFINE c == Rat!Set(commit, <<At(1).rd, At(1).prd>>)
  <2>1. c \in Rat!Map /\ \A r \in 1 .. NREG : Value(r, 1, c[r])
    BY <1>4, <1>6
  <2>2. commit' = Rat!Set(c, <<At(2).rd, At(2).prd>>) /\ 2 \in 1 .. n
    BY <1>6 DEF Stays
  <2> HIDE DEF c
  <2>3. /\ commit' \in Rat!Map
        /\ \A r \in 1 .. NREG : commit'[r] = IF r = At(2).rd THEN At(2).prd ELSE c[r]
    BY <1>1, <2>1, <2>2, SetMap
  <2>4. ASSUME NEW r \in 1 .. NREG PROVE Value(r, 1 + 1, commit'[r])
    BY <2>1, <2>3, ValueNext
  <2> QED
    BY <1>6, <2>3, <2>4
<1> QED
  BY <1>1, <1>2, <1>5, <1>6

(* A value behind the first n + j instructions is one behind the first j   *)
(* when n have retired.                                                    *)
LEMMA ValueMoves ==
  ASSUME R!TypeOK, R!Exact, ~scanning, commit \in Rat!Map,
         NEW n, NEW m, NEW wb, NEW ex, Stays(n, m, wb, ex),
         NEW r \in 1 .. NREG, NEW p, NEW j \in 0 .. m, Value(r, n + j, p)
  PROVE  Value(r, j, p)'
<1>1. n \in 0 .. 2 /\ m \in Nat
  BY DEF Stays
<1>2. Value(r, n, commit'[r])
  BY CommitMoves
<1>3. \A k \in 1 .. j : At(k)'.rd = At(n + k).rd /\ At(k)'.prd = At(n + k).prd
  BY <1>1 DEF Stays
<1>4. CASE \A k \in 1 .. j : At(n + k).rd # r
  <2>1. Value(r, n, p)
    <3>1. CASE p = commit[r] /\ \A k \in 1 .. n + j : At(k).rd # r
      BY <1>1, <3>1 DEF Value
    <3>2. ASSUME NEW k \in 1 .. n + j, At(k).rd = r, At(k).prd = p,
                 \A i \in k + 1 .. n + j : At(i).rd # r
          PROVE  Value(r, n, p)
      <4>1. k \in 1 .. n
        <5> SUFFICES ASSUME k > n PROVE FALSE
          BY <1>1
        <5>1. k - n \in 1 .. j /\ n + (k - n) = k
          BY <1>1
        <5> QED
          BY <1>4, <3>2, <5>1
      <4>2. \A i \in k + 1 .. n : At(i).rd # r
        BY <1>1, <3>2
      <4> QED
        BY <3>2, <4>1, <4>2 DEF Value
    <3> QED
      BY <3>1, <3>2 DEF Value
  <2>2. p = commit'[r]
    BY <1>1, <1>2, <2>1, ValueUnique
  <2>3. \A k \in 1 .. j : At(k)'.rd # r
    BY <1>3, <1>4
  <2> QED
    BY <2>2, <2>3 DEF Value
<1>5. ASSUME NEW i \in 1 .. j, At(n + i).rd = r PROVE Value(r, j, p)'
  <2>1. n + i \in 1 .. n + j
    BY <1>1
  <2>2. PICK k \in 1 .. n + j : /\ At(k).rd = r /\ At(k).prd = p
                               /\ \A l \in k + 1 .. n + j : At(l).rd # r
    BY <1>5, <2>1 DEF Value
  <2>3. k >= n + i
    <3> SUFFICES ASSUME k < n + i PROVE FALSE
      BY <1>1
    <3>1. n + i \in k + 1 .. n + j
      BY <1>1
    <3> QED
      BY <1>5, <2>2, <3>1
  <2>4. PICK h \in 1 .. j : k = n + h
    <3>1. k - n \in 1 .. j /\ k = n + (k - n)
      BY <1>1, <2>3
    <3> QED
      BY <3>1
  <2>5. At(h)'.rd = r /\ At(h)'.prd = p
    BY <1>3, <2>2, <2>4
  <2>6. ASSUME NEW l \in h + 1 .. j PROVE At(l)'.rd # r
    <3>1. l \in 1 .. j /\ n + l \in k + 1 .. n + j
      BY <1>1, <2>4
    <3> QED
      BY <1>3, <2>2, <3>1
  <2> QED
    BY <2>5, <2>6 DEF Value
<1> QED
  BY <1>4, <1>5

-----------------------------------------------------------------------------
(* Least and greatest members.                                             *)

(* A set of naturals has a least element; a bounded one a greatest.        *)
LEMMA LeastNat ==
  ASSUME NEW T \in SUBSET Nat, T # {}
  PROVE  \E x \in T : \A y \in T : x <= y
<1> DEFINE L == OpToRel(<, Nat)
<1>1. IsWellFoundedOn(L, Nat)
  BY NatLessThanWellFounded
<1>2. \A x, y \in Nat : <<y, x>> \in L <=> y < x
  BY DEF OpToRel
<1> HIDE DEF L
<1>3. PICK x \in T : \A y \in T : ~(<<y, x>> \in L)
  BY <1>1, WFMin
<1>4. \A y \in T : y \in Nat /\ ~(y < x)
  BY <1>2, <1>3
<1> QED
  BY <1>3, <1>4

LEMMA GreatestBelow ==
  ASSUME NEW n \in Nat, NEW T \in SUBSET (1 .. n), T # {}
  PROVE  \E x \in T : \A y \in T : y <= x
<1> DEFINE D == {n - y : y \in T}
<1>1. D \in SUBSET Nat /\ D # {}
  <2>1. \A y \in T : n - y \in Nat
    OBVIOUS
  <2>2. PICK y \in T : TRUE
    OBVIOUS
  <2> QED
    BY <2>1, <2>2
<1>2. PICK d \in D : \A e \in D : d <= e
  BY <1>1, LeastNat
<1>3. PICK x \in T : d = n - x
  OBVIOUS
<1>4. \A y \in T : n - x <= n - y
  BY <1>2, <1>3
<1> QED
  BY <1>3, <1>4

-----------------------------------------------------------------------------
(* The operators of the alias table and the free list.                     *)

(* A release takes at most one snapshot.                                   *)
LEMMA ReleasedLength ==
  ASSUME NEW S, stack \in Seq(S), NEW rel
  PROVE  Rat!Released(rel) \in Seq(S) /\ Len(Rat!Released(rel)) <= Len(stack)
<1> DEFINE M == {s \in 1 .. Len(stack) : stack[s].tag \in rel}
           m == CHOOSE s \in M : \A t \in M : s <= t
<1>1. CASE M = {}
  BY <1>1 DEF Rat!Released
<1>2. CASE M # {}
  <2>1. M \in SUBSET Nat
    OBVIOUS
  <2>2. m \in M
    BY <1>2, <2>1, LeastNat
  <2>3. m \in 1 .. Len(stack) /\ Len(stack) \in Nat
    BY <2>2
  <2>4. Rat!Released(rel) = SubSeq(stack, 1, m - 1) \o SubSeq(stack, m + 1, Len(stack))
    BY <1>2 DEF Rat!Released
  <2> HIDE DEF M, m
  <2> DEFINE a == SubSeq(stack, 1, m - 1)
             b == SubSeq(stack, m + 1, Len(stack))
  <2>5. a \in Seq(S) /\ Len(a) = m - 1
    BY <2>3
  <2>6. b \in Seq(S) /\ Len(b) = Len(stack) - m
    BY <2>3
  <2>7. Rat!Released(rel) = a \o b
    BY <2>4
  <2> HIDE DEF a, b
  <2>8. a \o b \in Seq(S) /\ Len(a \o b) = Len(a) + Len(b)
    BY <2>5, <2>6
  <2> QED
    BY <2>3, <2>5, <2>6, <2>7, <2>8
<1> QED
  BY <1>1, <1>2

(* A pop finds a snapshot of the stack.                                    *)
LEMMA PopIndexIn ==
  ASSUME NEW S, stack \in Seq(S), stack # <<>>, NEW tag
  PROVE  Rat!PopIndex(tag) \in 1 .. Len(stack)
<1>1. Len(stack) \in Nat /\ Len(stack) >= 1
  OBVIOUS
<1>2. Rat!Matches(tag) \in SUBSET (1 .. Len(stack))
  BY DEF Rat!Matches
<1>3. CASE Rat!Matches(tag) = {}
  BY <1>1, <1>3 DEF Rat!PopIndex
<1>4. CASE Rat!Matches(tag) # {}
  BY <1>1, <1>2, <1>4, GreatestBelow DEF Rat!PopIndex
<1> QED
  BY <1>3, <1>4

(* The register the free list offers is free.                              *)
LEMMA FirstFree ==
  ASSUME free \subseteq Prf!Regs, NEW used, Prf!First(used) # 0
  PROVE  Prf!First(used) \in free \ used
<1>1. free \ used # {} /\ Prf!First(used) = Prf!Min(free \ used)
  BY DEF Prf!First, Prf!Lowest
<1>2. free \ used \in SUBSET Nat
  <2>1. \A x \in Prf!Regs : x \in Nat
    BY SizeAssumption DEF Prf!Regs
  <2> QED
    BY <2>1
<1>3. \E x \in free \ used : \A y \in free \ used : x <= y
  BY <1>1, <1>2, LeastNat
<1> QED
  BY <1>1, <1>3 DEF Prf!Min

-----------------------------------------------------------------------------
(* Types, with one allocation a cycle: no slot 1, no fixup.                *)
Snap == Rat!Snapshot(R!Tag)
Types ==
  /\ R!IInv
  /\ rat \in Rat!Map /\ commit \in Rat!Map
  /\ stack \in Seq(Snap) /\ Len(stack) <= CP_DEPTH
  /\ shadow \in Seq(Snap) /\ Len(shadow) <= 1
  /\ free \subseteq Prf!Regs /\ busy \subseteq Prf!Regs /\ maskD1 \subseteq R!Prd
  /\ pend = {} \/ \E p \in R!Tag : pend = {p}
  /\ unresolved \subseteq R!Tag /\ stopped \in BOOLEAN
  /\ fix = <<0, 0>> /\ Len(d1) # 2

Fresh == Prf!First(InUse)
Push(k) == IF k.ctrl THEN {tail} ELSE {}
OpOf(k) == [prd |-> Fresh, old |-> OldOf(rat, k), rd |-> k.rd]
None == <<0, 0>>

(* What one slot allocates.                                                *)
LEMMA Renamed ==
  ASSUME NEW k \in Kinds
  PROVE  LET s == Slot(k, tail, Fresh, OldOf(rat, k))
         IN  /\ Slots(<<k>>) = <<s>> /\ RobOp(Slots(<<k>>)[1]) = OpOf(k)
             /\ Taken(<<k>>) = {Fresh} /\ PushTags(<<k>>) = Push(k)
             /\ Ren(<<k>>, 1) = <<k.rd, Fresh>> /\ Ren(<<k>>, 2) = None
<1> DEFINE s == Slot(k, tail, Fresh, OldOf(rat, k))
<1>1. Slots(<<k>>) = <<s>>
  BY DEF Slots, Fresh
<1>2. s.tag = tail /\ s.prd = Fresh /\ s.rd = k.rd /\ s.old = OldOf(rat, k)
  BY DEF Slot
<1> HIDE DEF s
<1>3. DOMAIN <<k>> = {1} /\ DOMAIN Slots(<<k>>) = {1} /\ Slots(<<k>>)[1] = s /\ <<k>>[1] = k
  BY <1>1
<1>4. RobOp(Slots(<<k>>)[1]) = OpOf(k)
  BY <1>2, <1>3 DEF RobOp, OpOf
<1>5. Taken(<<k>>) = {Fresh}
  BY <1>2, <1>3 DEF Taken
<1>6. PushTags(<<k>>) = Push(k)
  <2>1. {m \in DOMAIN <<k>> : <<k>>[m].ctrl} = IF k.ctrl THEN {1} ELSE {}
    BY <1>3
  <2> QED
    BY <1>2, <1>3, <2>1 DEF PushTags, Push
<1>7. Ren(<<k>>, 1) = <<k.rd, Fresh>> /\ Ren(<<k>>, 2) = None
  BY <1>2, <1>3 DEF Ren, None
<1> QED
  BY <1>1, <1>4, <1>5, <1>6, <1>7 DEF s

(* A core with 32-bit fetch allocates bundles of one.                      *)
LEMMA Single ==
  ASSUME ~DualAlloc, NEW ks \in Bundles
  PROVE  \E k \in Kinds : ks = <<k>>
BY DEF Bundles

(* A cycle's allocation, in terms of the one instruction it renames.       *)
LEMMA RenameIs ==
  ASSUME Types, NEW k \in Kinds, NEW rel, MayAlloc(<<k>>), Rename(<<k>>, rel)
  PROVE  /\ ~Rob!Full /\ ~scanning /\ ~trap /\ pend = {}
         /\ Fresh \in free \ InUse /\ Fresh \in 1 .. NPRD /\ OpOf(k) \in AnyOp
         /\ Rat!Edit(Push(k), None, rel, None, None, <<k.rd, Fresh>>, None)
         /\ fix' = None
         /\ d1' = <<Slot(k, tail, Fresh, OldOf(rat, k))>>
<1>1. ~Rob!Full /\ ~scanning /\ ~trap /\ pend = {} /\ Fresh # 0
  BY DEF MayAlloc, Fresh
<1>2. Fresh \in free \ InUse
  BY <1>1, FirstFree DEF Types, Fresh
<1>3. Fresh \in 1 .. NPRD
  BY <1>2 DEF Types, Prf!Regs
<1>4. OpOf(k) \in AnyOp
  <2>1. k.rd \in 0 .. NREG
    BY KindsAssumption DEF Kind
  <2>2. OldOf(rat, k) \in 0 .. NPRD
    BY <2>1, SizeAssumption DEF OldOf, Types, Rat!Map
  <2> QED
    BY <1>3, <2>1, <2>2 DEF OpOf, AnyOp
<1>5. Len(<<k>>) = 1 /\ fix = None
  BY DEF Types, None
<1> QED
  BY <1>1, <1>2, <1>3, <1>4, <1>5, Renamed DEF Rename, None

(* A cycle that allocates, in those terms.                                 *)
LEMMA AllocateIs ==
  ASSUME Types, NEW k \in Kinds, NEW rel, NEW wb, NEW ex, Allocate(<<k>>, rel, wb, ex)
  PROVE  /\ Running /\ pend' = {}
         /\ MayAlloc(<<k>>) /\ Rename(<<k>>, rel)
         /\ Rob!Alloc(OpOf(k), wb, ex)
         /\ Common({Fresh}, {}, wb)
         /\ unresolved' = (unresolved \ rel) \cup Push(k)
         /\ commit' = Retired(FALSE)
<1>1. Len(<<k>>) = 1
  OBVIOUS
<1> QED
  BY <1>1, Renamed DEF Allocate, MayAlloc

-----------------------------------------------------------------------------
(* A cycle of the alias table keeps its types.                             *)
LEMMA EditTypes ==
  ASSUME rat \in Rat!Map, stack \in Seq(Snap), Len(stack) <= CP_DEPTH,
         shadow \in Seq(Snap), Len(shadow) <= 1,
         NEW push \in SUBSET R!Tag, NEW rel, NEW r \in 0 .. NREG, NEW p \in 0 .. NPRD,
         Rat!Edit(push, None, rel, None, None, <<r, p>>, None)
  PROVE  /\ rat' \in Rat!Map /\ rat' = Rat!Set(rat, <<r, p>>)
         /\ stack' \in Seq(Snap) /\ Len(stack') <= CP_DEPTH
         /\ shadow' \in Seq(Snap) /\ Len(shadow') <= 1
<1>1. rat' = Rat!Set(rat, <<r, p>>) /\ Rat!Set(rat, None) = rat
  BY SetNone DEF Rat!Edit, None
<1>2. rat' \in Rat!Map
  BY <1>1, SetMap
<1>3. shadow' \in Seq(Snap) /\ Len(shadow') <= 1
  <2>1. CASE push # {} /\ Len(stack) < CP_DEPTH
    <3> DEFINE s == [tag |-> CHOOSE t \in push : TRUE, map |-> rat]
    <3>1. shadow' = <<s>>
      BY <1>1, <2>1 DEF Rat!Edit
    <3>2. (CHOOSE t \in push : TRUE) \in R!Tag
      BY <2>1
    <3>3. s \in Snap
      BY <3>2 DEF Snap, Rat!Snapshot
    <3> HIDE DEF s
    <3> QED
      BY <3>1, <3>3
  <2>2. CASE ~(push # {} /\ Len(stack) < CP_DEPTH)
    BY <2>2 DEF Rat!Edit
  <2> QED
    BY <2>1, <2>2
<1>4. stack' \in Seq(Snap) /\ Len(stack') <= CP_DEPTH
  <2> DEFINE f == Rat!Released(rel)
  <2>1. f \in Seq(Snap) /\ Len(f) <= Len(stack)
    BY ReleasedLength
  <2>2. stack' = IF Len(f) < CP_DEPTH THEN f \o shadow ELSE f
    BY DEF Rat!Edit
  <2> HIDE DEF f
  <2>3. f \o shadow \in Seq(Snap) /\ Len(f \o shadow) = Len(f) + Len(shadow)
    BY <2>1
  <2> QED
    BY <2>1, <2>2, <2>3, SizeAssumption
<1> QED
  BY <1>1, <1>2, <1>3, <1>4

(* So do free list, scoreboard and delayed mask.                           *)
LEMMA CommonTypes ==
  ASSUME Types, NEW taken \in SUBSET Prf!Regs, NEW wb, Common(taken, {}, wb)
  PROVE  /\ free' \subseteq Prf!Regs /\ busy' \subseteq Prf!Regs
         /\ maskD1' \subseteq R!Prd /\ stopped' \in BOOLEAN
<1>1. /\ released \subseteq R!Prd /\ sqMask \subseteq R!Prd /\ maskD1 \subseteq R!Prd
      /\ free \subseteq Prf!Regs /\ busy \subseteq Prf!Regs
      /\ stopped \in BOOLEAN /\ trap \in BOOLEAN
  BY DEF Types, R!IInv, R!TypeOK
<1>2. R!Prd \ {0} = Prf!Regs
  BY SizeAssumption DEF R!Prd, Prf!Regs
<1> QED
  BY <1>1, <1>2 DEF Common, Prf!Recycle, Prf!Score, Stopping

(* The first place is the head.                                            *)
LEMMA HeadPlace ==
  ASSUME R!TypeOK, R!Exact, ~scanning, ~R!Empty
  PROVE  /\ Size >= 1 /\ At(1) = q[R!Idx(head)] /\ TagAt(1) = head
         /\ At(1) \in R!Entry
<1>1. head \in R!Tag /\ tail \in R!Tag /\ Size \in Nat
  BY Places
<1>2. Size >= 1
  BY <1>1, SizeAssumption DEF R!Empty, Size, R!Occ, R!Dist, R!Tag
<1>3. R!Nth(head, 1 - 1) = head
  BY <1>1, SizeAssumption DEF R!Nth, R!Tag
<1> QED
  BY <1>1, <1>2, <1>3, Places DEF At, TagAt, R!Place

(* Every operation the core drives is an operation of the buffer alone.    *)
LEMMA RobSteps ==
  ASSUME ~DualAlloc, R!IInv, R!Next
  PROVE  R!IInv'
BY RobAssumptions, R!NextIInv DEF R!Roomy

(* Types, operation by operation.                                          *)
LEMMA QuietTypes ==
  ASSUME ~DualAlloc, Types, NEW wb \in WbSets, NEW ex \in ExSets,
         Rob!Quiet(wb, ex), commit' = Retired(FALSE)
  PROVE  R!IInv' /\ commit' \in Rat!Map /\ ~scanning
<1>1. wb \in R!WbSets /\ ex \in R!ExSets
  BY Ports
<1>2. R!Quiet(wb, ex)
  BY SameActions
<1>3. R!IInv'
  BY <1>1, <1>2, RobSteps DEF R!Next, R!Run, Types
<1>4. R!IInv /\ R!TypeOK /\ R!Exact /\ ~scanning
  BY <1>2 DEF Types, R!IInv, R!Quiet, R!Retire
<1>5. PICK n \in 0 .. 2, m \in Nat : Stays(n, m, wb, ex)
  BY <1>3, <1>4, QuietStays
<1> QED
  BY <1>3, <1>4, <1>5, CommitMoves DEF Types

LEMMA AllocTypes ==
  ASSUME ~DualAlloc, Types, NEW k \in Kinds, NEW rel,
         NEW wb \in WbSets, NEW ex \in ExSets, Allocate(<<k>>, rel, wb, ex)
  PROVE  R!IInv' /\ commit' \in Rat!Map /\ ~scanning
<1>1. /\ Rob!Alloc(OpOf(k), wb, ex) /\ commit' = Retired(FALSE)
      /\ OpOf(k) \in AnyOp /\ ~scanning /\ Fresh \notin InUse
  BY AllocateIs, RenameIs
<1>2. wb \in R!WbSets /\ ex \in R!ExSets
  BY Ports
<1>3. R!Alloc(OpOf(k), wb, ex)
  BY <1>1, SameActions
<1>4. OpOf(k).prd \notin R!InUse
  BY <1>1, SameOutputs DEF OpOf, InUse
<1>5. R!IInv'
  <2>1. R!Run(wb, ex)
    BY <1>1, <1>3, <1>4 DEF R!Run
  <2> QED
    BY <1>2, <2>1, RobSteps DEF R!Next, Types
<1>6. R!IInv /\ R!TypeOK /\ R!Exact
  BY DEF Types, R!IInv
<1>7. PICK n \in 0 .. 2, m \in Nat : Stays(n, m, wb, ex)
  BY <1>1, <1>5, <1>6, AllocStays
<1> QED
  BY <1>1, <1>5, <1>6, <1>7, CommitMoves DEF Types

(* A registered squash, whatever its tag.                                  *)
LEMMA SquashTypes ==
  ASSUME ~DualAlloc, Types, NEW wb \in WbSets, NEW ex \in ExSets, NEW p \in R!Tag,
         IF Rob!Empty THEN Rob!Quiet(wb, ex) ELSE Rob!Squash(p, wb, ex),
         commit' = Retired(Rob!SquashHeadSameCycle(p))
  PROVE  R!IInv' /\ commit' \in Rat!Map
<1>1. wb \in R!WbSets /\ ex \in R!ExSets
  BY Ports
<1>2. R!Quiet(wb, ex) \/ R!Squash(p, wb, ex)
  BY SameActions
<1>3. R!IInv'
  BY <1>1, <1>2, RobSteps DEF R!Next, R!Run, Types
<1>4. R!IInv /\ R!TypeOK /\ R!Exact /\ ~scanning
  BY <1>2 DEF Types, R!IInv, R!Quiet, R!Squash, R!Retire
<1>5. head \in R!Tag /\ Size \in Nat
  BY <1>4, Places
<1> DEFINE sq == Rob!SquashHeadSameCycle(p)
           once == Rat!Set(commit, <<At(1).rd, At(1).prd>>)
<1>6. ASSUME R!HeadDone
      PROVE  At(1).rd \in 0 .. NREG /\ At(1).prd \in 0 .. NPRD /\ q[Rob!Idx(head)] = At(1)
  <2>1. At(1) \in R!Entry /\ At(1) = q[R!Idx(head)]
    BY <1>4, <1>6, HeadPlace DEF R!HeadDone
  <2> QED
    BY <2>1, SameTags DEF R!Entry, R!Prd, R!Reg
<1>7. ASSUME R!HeadDone, R!Retire1CanPop(sq)
      PROVE  LET e == q[Rob!Idx(Rob!Inc(head))]
             IN  e.rd \in 0 .. NREG /\ e.prd \in 0 .. NPRD
  <2>1. R!Idx(R!Inc(head)) \in R!Index
    BY <1>5, SizeAssumption DEF R!Idx, R!Inc, R!Tag, R!Index
  <2>2. q[R!Idx(R!Inc(head))] \in R!Entry
    BY <1>4, <1>7, <2>1 DEF R!Retire1CanPop, R!Clean, R!Valid, R!TypeOK
  <2> QED
    BY <2>2, SameTags DEF R!Entry, R!Prd, R!Reg
<1>8. R!HeadDone => once \in Rat!Map
  BY <1>6, SetMap DEF Types
<1>9. commit' \in Rat!Map
  <2>1. CASE ~R!HeadDone
    BY <2>1, SameOutputs DEF Retired, Types
  <2>2. CASE R!HeadDone /\ ~R!Retire1CanPop(sq)
    BY <1>6, <1>8, <2>2, SameOutputs DEF Retired
  <2>3. CASE R!HeadDone /\ R!Retire1CanPop(sq)
    <3> DEFINE e == q[Rob!Idx(Rob!Inc(head))]
    <3>1. commit' = Rat!Set(once, <<e.rd, e.prd>>)
      BY <1>6, <2>3, SameOutputs DEF Retired
    <3> HIDE DEF once
    <3> QED
      BY <1>7, <1>8, <2>3, <3>1, SetMap
  <2> QED
    BY <2>1, <2>2, <2>3
<1> QED
  BY <1>3, <1>9

LEMMA RobInit == R!Init => R!IInv
BY RobAssumptions, R!InitIInv

LEMMA InitTypes == Init => Types
<1> SUFFICES ASSUME Init PROVE Types
  OBVIOUS
<1>1. /\ R!Init /\ maskD1 = {} /\ pend = {} /\ d1 = <<>> /\ fix = <<0, 0>>
      /\ unresolved = {} /\ stopped = FALSE /\ commit = Rat!Identity
      /\ stack = <<>> /\ shadow = <<>> /\ rat = Rat!Identity /\ free = Prf!Regs /\ busy = {}
  BY SameSets DEF Init, Rat!RatInit, Prf!PrfInit
<1>2. R!IInv
  BY <1>1, RobInit
<1>3. Rat!Identity \in Rat!Map
  BY SizeAssumption DEF Rat!Identity, Rat!Map
<1>4. <<>> \in Seq(Snap) /\ Len(<<>>) = 0
  OBVIOUS
<1>5. Len(d1) # 2
  BY <1>1
<1>6. /\ stack \in Seq(Snap) /\ Len(stack) <= CP_DEPTH
      /\ shadow \in Seq(Snap) /\ Len(shadow) <= 1
  BY <1>1, <1>4, SizeAssumption
<1>7. /\ free \subseteq Prf!Regs /\ busy \subseteq Prf!Regs
      /\ maskD1 \subseteq R!Prd /\ unresolved \subseteq R!Tag
  BY <1>1
<1>8. rat \in Rat!Map /\ commit \in Rat!Map
  BY <1>1, <1>3
<1> QED
  BY <1>1, <1>2, <1>5, <1>6, <1>7, <1>8 DEF Types

LEMMA ResetInit == Reset => Init'
BY DEF Reset, Init, Rob!Init, Rat!RatInit, Prf!PrfInit, Rat!Identity, Prf!Regs, Rob!Index

LEMMA AllocateTypes ==
  ASSUME ~DualAlloc, Types, NEW k \in Kinds, NEW rel,
         NEW wb \in WbSets, NEW ex \in ExSets, Allocate(<<k>>, rel, wb, ex)
  PROVE  Types'
<1>1. R!IInv' /\ commit' \in Rat!Map
  BY AllocTypes
<1>2. /\ Fresh \in 1 .. NPRD
      /\ Rat!Edit(Push(k), None, rel, None, None, <<k.rd, Fresh>>, None)
      /\ fix' = None /\ d1' = <<Slot(k, tail, Fresh, OldOf(rat, k))>>
      /\ Common({Fresh}, {}, wb)
      /\ unresolved' = (unresolved \ rel) \cup Push(k) /\ pend' = {}
  BY AllocateIs, RenameIs
<1>3. Push(k) \in SUBSET R!Tag /\ k.rd \in 0 .. NREG /\ Fresh \in 0 .. NPRD
  BY <1>2, KindsAssumption DEF Push, Types, R!IInv, R!TypeOK, Kind
<1>4. {Fresh} \in SUBSET Prf!Regs
  BY <1>2 DEF Prf!Regs
<1>5. /\ free' \subseteq Prf!Regs /\ busy' \subseteq Prf!Regs
      /\ maskD1' \subseteq R!Prd /\ stopped' \in BOOLEAN
  BY <1>2, <1>4, CommonTypes
<1>6. /\ rat' \in Rat!Map
      /\ stack' \in Seq(Snap) /\ Len(stack') <= CP_DEPTH
      /\ shadow' \in Seq(Snap) /\ Len(shadow') <= 1
  BY <1>2, <1>3, EditTypes DEF Types
<1>7. Len(d1') # 2 /\ fix' = <<0, 0>>
  BY <1>2 DEF None
<1> QED
  BY <1>1, <1>2, <1>3, <1>5, <1>6, <1>7 DEF Types

(* The alias table when nothing is renamed.                                *)
LEMMA EditNone ==
  ASSUME Types, NEW rel,
         Rat!Edit({}, fix, rel, <<0, 0>>, <<0, 0>>, <<0, 0>>, <<0, 0>>)
  PROVE  /\ Rat!Edit({}, None, rel, None, None, <<0, 0>>, None)
         /\ rat' = rat /\ rat' \in Rat!Map
         /\ stack' \in Seq(Snap) /\ Len(stack') <= CP_DEPTH
         /\ shadow' \in Seq(Snap) /\ Len(shadow') <= 1
<1>1. Rat!Edit({}, None, rel, None, None, <<0, 0>>, None)
  BY DEF Types, None
<1>2. {} \in SUBSET R!Tag /\ 0 \in 0 .. NREG /\ 0 \in 0 .. NPRD
  BY SizeAssumption
<1> QED
  BY <1>1, <1>2, EditTypes, SetNone DEF Types

LEMMA NoneTaken ==
  ASSUME Types, NEW wb, Common({}, {}, wb)
  PROVE  /\ free' \subseteq Prf!Regs /\ busy' \subseteq Prf!Regs
         /\ maskD1' \subseteq R!Prd /\ stopped' \in BOOLEAN
BY CommonTypes

LEMMA IdleTypes ==
  ASSUME ~DualAlloc, Types, NEW rel, NEW wb \in WbSets, NEW ex \in ExSets, Idle(rel, wb, ex)
  PROVE  Types'
<1>1. /\ Rob!Quiet(wb, ex) /\ commit' = Retired(FALSE) /\ Common({}, {}, wb)
      /\ Rat!Edit({}, fix, rel, <<0, 0>>, <<0, 0>>, <<0, 0>>, <<0, 0>>)
      /\ fix' = fix \/ fix' = <<0, 0>>
      /\ d1' = <<>> /\ unresolved' = unresolved \ rel /\ pend' = pend
  BY DEF Idle
<1>2. R!IInv' /\ commit' \in Rat!Map
  BY <1>1, QuietTypes
<1>3. fix' = <<0, 0>> /\ Len(d1') # 2 /\ unresolved' \subseteq R!Tag
  BY <1>1 DEF Types
<1> QED
  BY <1>1, <1>2, <1>3, EditNone, NoneTaken DEF Types

LEMMA RedirectTypes ==
  ASSUME ~DualAlloc, Types, NEW b \in Resolvable \cup Returns,
         NEW wb \in WbSets, NEW ex \in ExSets, Redirect(b, wb, ex)
  PROVE  Types'
<1> DEFINE e == q[Rob!Idx(b)]
<1>1. /\ Rob!Quiet(wb, ex) /\ commit' = Retired(FALSE) /\ Common({}, {}, wb)
      /\ IF b \in unresolved /\ stack # <<>> THEN Rat!CpPop(b, <<e.rd, e.prd>>)
         ELSE Rat!Edit({}, fix, {}, <<0, 0>>, <<0, 0>>, <<0, 0>>, <<0, 0>>)
      /\ fix' = fix \/ fix' = <<0, 0>>
      /\ d1' = <<>> /\ unresolved' = unresolved \ {b} /\ pend' = {b}
  BY DEF Redirect
<1>2. R!IInv' /\ commit' \in Rat!Map /\ ~scanning
  BY <1>1, QuietTypes
<1>3. b \in R!Tag /\ R!TypeOK /\ R!Exact
  BY DEF Resolvable, Returns, Types, R!IInv, R!TypeOK
<1>4. /\ rat' \in Rat!Map
      /\ stack' \in Seq(Snap) /\ Len(stack') <= CP_DEPTH
      /\ shadow' \in Seq(Snap) /\ Len(shadow') <= 1
  <2>1. CASE b \in unresolved /\ stack # <<>>
    <3> DEFINE i == Rat!PopIndex(b)
    <3>1. b = head /\ ~R!Empty
      BY <2>1, SameOutputs DEF Resolvable, Returns
    <3>2. e.rd \in 0 .. NREG /\ e.prd \in 0 .. NPRD
      BY <1>2, <1>3, <3>1, HeadPlace, SameTags DEF R!Entry, R!Prd, R!Reg
    <3>3. i \in 1 .. Len(stack)
      BY <2>1, PopIndexIn DEF Types
    <3>4. /\ rat' = Rat!Set(stack[i].map, <<e.rd, e.prd>>)
          /\ stack' = SubSeq(stack, 1, i - 1) /\ shadow' = <<>>
      BY <1>1, <2>1 DEF Rat!CpPop
    <3> HIDE DEF i, e
    <3>5. stack[i] \in Snap /\ stack[i].map \in Rat!Map
      <4>1. stack[i] \in Snap
        BY <3>3 DEF Types
      <4> QED
        BY <4>1 DEF Snap, Rat!Snapshot
    <3>6. stack' \in Seq(Snap) /\ Len(stack') = i - 1
      BY <3>3, <3>4 DEF Types
    <3> QED
      BY <3>2, <3>3, <3>4, <3>5, <3>6, SetMap, SizeAssumption DEF Types
  <2>2. CASE ~(b \in unresolved /\ stack # <<>>)
    BY <1>1, <2>2, EditNone
  <2> QED
    BY <2>1, <2>2
<1> HIDE DEF e
<1>5. unresolved' \subseteq R!Tag
  BY <1>1 DEF Types
<1>6. fix' = <<0, 0>> /\ Len(d1') # 2
  BY <1>1 DEF Types
<1> QED
  BY <1>1, <1>2, <1>3, <1>4, <1>5, <1>6, NoneTaken DEF Types

LEMMA SquashYoungerTypes ==
  ASSUME ~DualAlloc, Types, NEW p \in pend,
         NEW wb \in WbSets, NEW ex \in ExSets, SquashYounger(p, wb, ex)
  PROVE  Types'
<1>1. /\ IF Rob!Empty THEN Rob!Quiet(wb, ex) ELSE Rob!Squash(p, wb, ex)
      /\ commit' = Retired(Rob!SquashHeadSameCycle(p)) /\ Common({}, {}, wb)
      /\ Rat!Edit({}, fix, {}, <<0, 0>>, <<0, 0>>, <<0, 0>>, <<0, 0>>)
      /\ fix' = fix /\ d1' = <<>> /\ unresolved' \subseteq unresolved /\ pend' = {}
  BY DEF SquashYounger
<1>2. p \in R!Tag
  BY DEF Types
<1>3. R!IInv' /\ commit' \in Rat!Map
  BY <1>1, <1>2, SquashTypes
<1> QED
  BY <1>1, <1>3, EditNone, NoneTaken DEF Types

LEMMA FaultTypes ==
  ASSUME ~DualAlloc, Types, NEW ks \in Bundles \cup {<<>>}, Fault(ks)
  PROVE  Types'
<1>1. /\ R!ExceptionFlush /\ unresolved' = {} /\ pend' = pend /\ commit' = commit
      /\ Common(IF ks = <<>> THEN {} ELSE Taken(ks), {}, {})
  BY SameActions DEF Fault
<1>2. R!IInv'
  BY <1>1, RobSteps DEF R!Next, Types
<1>3. CASE ks = <<>>
  <2>1. /\ Rat!Edit({}, fix, {}, <<0, 0>>, <<0, 0>>, <<0, 0>>, <<0, 0>>)
        /\ d1' = <<>> /\ fix' = fix /\ Common({}, {}, {})
    BY <1>1, <1>3 DEF Fault
  <2> QED
    BY <1>1, <1>2, <2>1, EditNone, NoneTaken DEF Types
<1>4. CASE ks # <<>>
  <2>1. PICK k \in Kinds : ks = <<k>>
    BY <1>4, Single
  <2>2. MayAlloc(<<k>>) /\ Rename(<<k>>, {})
    BY <1>4, <2>1 DEF Fault
  <2>3. /\ Fresh \in 1 .. NPRD
        /\ Rat!Edit(Push(k), None, {}, None, None, <<k.rd, Fresh>>, None)
        /\ fix' = None /\ d1' = <<Slot(k, tail, Fresh, OldOf(rat, k))>>
        /\ Common({Fresh}, {}, {})
    BY <1>1, <1>4, <2>1, <2>2, RenameIs, Renamed
  <2>4. Push(k) \in SUBSET R!Tag /\ k.rd \in 0 .. NREG /\ Fresh \in 0 .. NPRD
    BY <2>3, KindsAssumption DEF Push, Types, R!IInv, R!TypeOK, Kind
  <2>5. {Fresh} \in SUBSET Prf!Regs
    BY <2>3 DEF Prf!Regs
  <2>6. /\ free' \subseteq Prf!Regs /\ busy' \subseteq Prf!Regs
        /\ maskD1' \subseteq R!Prd /\ stopped' \in BOOLEAN
    BY <2>3, <2>5, CommonTypes
  <2>7. /\ rat' \in Rat!Map
        /\ stack' \in Seq(Snap) /\ Len(stack') <= CP_DEPTH
        /\ shadow' \in Seq(Snap) /\ Len(shadow') <= 1
    BY <2>3, <2>4, EditTypes DEF Types
  <2>8. Len(d1') # 2 /\ fix' = <<0, 0>>
    BY <2>3 DEF None
  <2> QED
    BY <1>1, <1>2, <2>6, <2>7, <2>8 DEF Types
<1> QED
  BY <1>3, <1>4

LEMMA ScanTypes ==
  ASSUME ~DualAlloc, Types, Scan
  PROVE  Types'
<1>1. /\ R!ReleaseScan /\ unresolved' = unresolved /\ pend' = {} /\ commit' = commit
      /\ Common({}, {}, {}) /\ d1' = <<>> /\ fix' = fix
      /\ Rat!Edit({}, fix, {}, <<0, 0>>, <<0, 0>>, <<0, 0>>, <<0, 0>>)
  BY SameActions DEF Scan
<1>2. R!IInv'
  BY <1>1, RobSteps DEF R!Next, Types
<1> QED
  BY <1>1, <1>2, EditNone, NoneTaken DEF Types

LEMMA ResetTypes ==
  ASSUME Reset
  PROVE  Types'
<1>1. (Init => Types)'
  BY InitTypes, PTL
<1> QED
  BY <1>1, ResetInit

LEMMA NextTypes ==
  ASSUME ~DualAlloc, Types, [Next]_vars
  PROVE  Types'
<1>1. ASSUME NEW wb \in WbSets, NEW ex \in ExSets, Cycle(wb, ex) PROVE Types'
  <2>1. ASSUME NEW ks \in Bundles, NEW rel \in Rels, Allocate(ks, rel, wb, ex) PROVE Types'
    BY <2>1, Single, AllocateTypes
  <2>2. ~TakeBack(wb, ex)
    <3>1. Len(d1) # 2
      BY DEF Types
    <3>2. TakeBack(wb, ex) => RetractSlot1
      BY DEF TakeBack
    <3> QED
      BY <3>1, <3>2 DEF RetractSlot1
  <2> QED
    BY <1>1, <2>1, <2>2, IdleTypes, RedirectTypes, SquashYoungerTypes DEF Cycle
<1>2. CASE UNCHANGED vars
  <2>1. UNCHANGED R!vars
    BY <1>2 DEF vars, robVars, R!vars
  <2>3. R!IInv'
    BY <2>1, RobAssumptions, R!NextIInv DEF Types, R!Roomy
  <2>2. UNCHANGED <<rat, commit, stack, shadow, free, busy, maskD1, pend, unresolved,
                    stopped, fix, d1>>
    BY <1>2 DEF vars, ratVars, coreVars
  <2> QED
    BY <2>3, <2>2 DEF Types
<1> QED
  BY <1>1, <1>2, FaultTypes, ScanTypes, ResetTypes DEF Next

(* Every state holds what its registers can hold: a map is total, at most  *)
(* one snapshot is on its way to the stack, the stack never exceeds its 8  *)
(* places, at most one squash is registered.  For one allocation a cycle   *)
(* (fpga_top), any mix of faults, resets and MRET.                         *)
THEOREM RenameTypes ==
  ASSUME ~DualAlloc
  PROVE  Spec => []TypeOK
<1>1. Init => Types
  BY InitTypes
<1>2. Types /\ [Next]_vars => Types'
  BY NextTypes
<1>3. Types => TypeOK
  <2> SUFFICES ASSUME Types PROVE TypeOK
    OBVIOUS
  <2>1. Rob!TypeOK /\ Rob!Tag = R!Tag /\ Rob!Prd = R!Prd
    BY SameSets DEF Types, R!IInv
  <2>2. Rat!Snapshot(Rob!Tag) = Snap
    BY <2>1 DEF Snap
  <2>3. Cardinality(pend) <= 1
    <3>1. Cardinality({}) = 0 /\ \A p : Cardinality({p}) = 1
      BY FS_EmptySet, FS_Singleton
    <3>2. pend = {} \/ \E p \in R!Tag : pend = {p}
      BY DEF Types
    <3> QED
      BY <3>1, <3>2
  <2> QED
    BY <2>1, <2>2, <2>3 DEF Types, TypeOK
<1> QED
  BY <1>1, <1>2, <1>3, PTL DEF Spec

-----------------------------------------------------------------------------
(* Places and slots.                                                       *)

(* No two places share a slot or a tag.                                    *)
LEMMA PlaceUnique ==
  ASSUME R!TypeOK, R!Exact, ~scanning, NEW j \in 1 .. Size, NEW k \in 1 .. Size,
         R!Place(j) = R!Place(k) \/ TagAt(j) = TagAt(k)
  PROVE  j = k
<1>1. Size \in Nat /\ Size <= DEPTH /\ head \in R!Tag
  BY Places
<1>2. R!Place(j) = R!Place(k)
  BY DEF R!Place, TagAt
<1>3. j - 1 \in Nat /\ k - 1 \in Nat /\ j - 1 < DEPTH /\ k - 1 < DEPTH
  BY <1>1, SizeAssumption
<1>4. ~(j - 1 < k - 1) /\ ~(k - 1 < j - 1)
  BY <1>1, <1>2, <1>3, RobAssumptions, R!NthDistinct DEF R!Place
<1> QED
  BY <1>3, <1>4

(* The tag of a place.                                                     *)
LEMMA PlaceTag ==
  ASSUME R!TypeOK, R!Exact, ~scanning, NEW k \in 1 .. Size
  PROVE  /\ TagAt(k) \in R!Tag /\ R!Dist(TagAt(k), head) = k - 1
         /\ R!Idx(TagAt(k)) = R!Place(k) /\ Rob!InWindow(TagAt(k))
<1>1. Size \in Nat /\ Size <= DEPTH /\ head \in R!Tag
  BY Places
<1>2. k - 1 \in 0 .. 2 * DEPTH - 1
  BY <1>1, SizeAssumption
<1>3. TagAt(k) \in R!Tag /\ R!Dist(TagAt(k), head) = k - 1
  BY <1>1, <1>2, RobAssumptions, R!NthTag DEF TagAt
<1>4. R!InWindow(TagAt(k))
  BY <1>1, <1>3 DEF R!InWindow, Size
<1> QED
  BY <1>3, <1>4, SameOutputs DEF TagAt, R!Place

(* A tag of the window is the tag of a place, an occupied slot is a place. *)
LEMMA TagPlace ==
  ASSUME R!TypeOK, R!Exact, ~scanning, NEW t \in R!Tag, Rob!InWindow(t)
  PROVE  \E k \in 1 .. Size : t = TagAt(k) /\ R!Idx(t) = R!Place(k)
<1>1. Size \in Nat /\ head \in R!Tag
  BY Places
<1>2. R!Dist(t, head) < Size /\ R!Dist(t, head) \in Nat
  <2>1. R!InWindow(t)
    BY SameOutputs
  <2> QED
    BY <1>1, <2>1, RobAssumptions, R!DistType DEF R!InWindow, Size
<1>3. PICK k \in 1 .. Size : k = R!Dist(t, head) + 1
  BY <1>1, <1>2
<1>4. k - 1 = R!Dist(t, head)
  BY <1>2, <1>3
<1>5. TagAt(k) = t
  BY <1>1, <1>4, RobAssumptions, R!NthDist DEF TagAt
<1> QED
  BY <1>5 DEF TagAt, R!Place

(* An occupied slot is a place.                                            *)
LEMMA SlotPlace ==
  ASSUME R!TypeOK, R!Exact, ~scanning, NEW i \in R!Index, R!Valid(i)
  PROVE  \E k \in 1 .. Size : i = R!Place(k)
<1>1. R!Covers(head, tail, i) /\ head \in R!Tag /\ tail \in R!Tag
  BY Places, RobAssumptions, R!Running
<1>2. PICK t \in R!Tag : R!Idx(t) = i /\ R!Dist(t, head) < R!Dist(tail, head)
  BY <1>1, RobAssumptions, R!CoversSome
<1>3. Rob!InWindow(t)
  BY <1>2, SameOutputs DEF R!InWindow, R!Occ
<1> QED
  BY <1>2, <1>3, TagPlace

(* What the buffer keeps out of allocation, by places.                     *)
Dests == {At(k).prd : k \in 1 .. Size}
Olds == {At(k).old : k \in 1 .. Size}

(* The mask rob_prd_inuse_mask, by places.                                 *)
LEMMA InUsePlaces ==
  ASSUME R!TypeOK, R!Exact, ~scanning
  PROVE  Rob!InUse = Dests \cup (Olds \ {0})
<1>1. \A k \in 1 .. Size : R!Place(k) \in R!Index /\ R!Valid(R!Place(k))
  BY Places
<1>2. \A i \in R!Index : R!Valid(i) => \E k \in 1 .. Size : i = R!Place(k)
  BY SlotPlace
<1>3. {q[i].prd : i \in {j \in R!Index : R!Valid(j)}} = Dests
  BY <1>1, <1>2 DEF Dests, At
<1>4. {q[i].old : i \in {j \in R!Index : R!Valid(j)}} = Olds
  BY <1>1, <1>2 DEF Olds, At
<1> QED
  BY <1>3, <1>4, SameOutputs DEF R!InUse

-----------------------------------------------------------------------------
(* The inductive invariant, for the core as fpga_top uses it: the bridge   *)
(* resets it after a trap, MRET is not executed.                           *)

Board == ~DualAlloc /\ Faults # "resume" /\ ~Mret

(* A trap starts the release scan and the bridge's reset in the next cycle.*)
Phase ==
  /\ trap => scanning /\ ~stopped
  /\ scanning /\ ~stopped => trap
  /\ Faults = "none" => ~trap /\ ~scanning /\ ~stopped
Alive == ~trap /\ ~scanning /\ ~stopped

Snaps == stack \o shadow
Has(x, k) == TagAt(k) = x.tag /\ \A r \in 1 .. NREG : Value(r, k - 1, x.map[r])

(* What is named: the map, the replaced mappings and the snapshots.        *)
NoFault == Faults = "none" => \A k \in 1 .. Size : ~At(k).exc
Waiting == \A t \in unresolved : \E k \in 1 .. Size : TagAt(k) = t /\ ~At(k).done
MapExact == pend = {} => \A r \in 1 .. NREG : Value(r, Size, rat[r])
OldExact ==
  \A k \in 1 .. Size : /\ At(k).rd # 0 => Value(At(k).rd, k - 1, At(k).old)
                       /\ At(k).rd = 0 => At(k).old = 0
SnapExact == \A s \in 1 .. Len(Snaps) : \E k \in 1 .. Size : Has(Snaps[s], k)
SnapOrder ==
  \A s, u \in 1 .. Len(Snaps) : \A j, k \in 1 .. Size :
    s < u /\ TagAt(j) = Snaps[s].tag /\ TagAt(k) = Snaps[u].tag => j < k
SnapTags == pend = {} => unresolved = {Snaps[s].tag : s \in 1 .. Len(Snaps)}
ShadowNew == \A s \in 1 .. Len(shadow) : shadow[s].tag \in D1Tags
(* Between a redirect and its squash everything behind the head is doomed. *)
Redirecting ==
  pend # {} => /\ pend = {head} /\ head \notin unresolved /\ Size >= 1 /\ ~At(1).done
               /\ stack = <<>> /\ shadow = <<>>
               /\ \A r \in 1 .. NREG : Value(r, 1, rat[r])
Names == /\ NoFault /\ Waiting /\ MapExact /\ OldExact
         /\ SnapExact /\ SnapOrder /\ SnapTags /\ ShadowNew /\ Redirecting

(* Who owns a physical register.                                           *)
CommitOwns ==
  \A r \in 1 .. NREG : commit[r] # 0 /\ \A s \in 1 .. NREG : commit[r] = commit[s] => r = s
DestOwns ==
  \A k \in 1 .. Size : /\ \A j \in 1 .. Size : At(j).prd = At(k).prd => j = k
                       /\ \A r \in 1 .. NREG : At(k).prd # commit[r]
FreeApart == free \cap (Dests \cup sqMask \cup maskD1) = {}
Returning ==
  /\ released \cap Dests = {} /\ (sqMask # {} => released = {})
  /\ sqMask \cap (Dests \cup maskD1) = {}
  /\ maskD1 \cap Dests = {}
Scored ==
  /\ \A k \in 1 .. Size : ~At(k).done => At(k).prd \in busy
  /\ \A x \in busy \ (sqMask \cup maskD1) :
       \E k \in 1 .. Size : x = At(k).prd /\ (~At(k).done \/ At(k).exc)
Conserved ==
  \A x \in Prf!Regs \ (free \cup released \cup sqMask \cup maskD1) :
    \/ \E k \in 1 .. Size : x = At(k).prd
    \/ \E r \in 1 .. NREG : x = commit[r]
Owners == CommitOwns /\ DestOwns /\ FreeApart /\ Returning /\ Scored /\ Conserved

Inv == Types /\ Phase /\ (Alive => Names /\ Owners)

-----------------------------------------------------------------------------
(* Consequences within a state.                                            *)

(* The oldest writer of r in the window replaced its committed value.      *)
LEMMA FirstWriter ==
  ASSUME OldExact, NEW n \in Nat, n <= Size, Size \in Nat, NEW r \in 1 .. NREG,
         NEW i \in 1 .. n, At(i).rd = r
  PROVE  \E k \in 1 .. n : At(k).rd = r /\ At(k).old = commit[r]
<1> DEFINE W == {k \in 1 .. n : At(k).rd = r}
<1>1. W \in SUBSET Nat /\ W # {}
  OBVIOUS
<1>2. PICK k \in W : \A j \in W : k <= j
  BY <1>1, LeastNat
<1>3. \A j \in 1 .. k - 1 : At(j).rd # r
  BY <1>2
<1>4. Value(r, k - 1, At(k).old)
  BY <1>2 DEF OldExact
<1>5. At(k).old = commit[r]
  BY <1>3, <1>4 DEF Value
<1> QED
  BY <1>2, <1>5

(* Whatever is the value of r at some place is kept out of allocation: the *)
(* committed one because the map or a replaced mapping holds it.           *)
LEMMA Held ==
  ASSUME R!TypeOK, R!Exact, ~scanning, OldExact, CommitOwns, rat \in Rat!Map,
         NEW r \in 1 .. NREG, NEW n \in Nat, n <= Size, Value(r, n, rat[r])
  PROVE  /\ commit[r] \in InUse
         /\ \A j \in 0 .. Size : \A p : Value(r, j, p) => p \in InUse
<1>1. Size \in Nat
  BY Places
<1>2. InUse = Dests \cup (Olds \ {0}) \cup Rat!Mapped
  BY InUsePlaces DEF InUse
<1>3. commit[r] \in InUse
  <2>1. commit[r] # 0
    BY DEF CommitOwns
  <2>2. CASE \A i \in 1 .. n : At(i).rd # r
    <3>1. rat[r] = commit[r]
      BY <2>2 DEF Value
    <3> QED
      BY <1>2, <2>1, <3>1, SizeAssumption DEF Rat!Mapped
  <2>3. ASSUME NEW i \in 1 .. n, At(i).rd = r PROVE commit[r] \in InUse
    <3>1. PICK k \in 1 .. n : At(k).old = commit[r]
      BY <1>1, <2>3, FirstWriter
    <3>2. k \in 1 .. Size
      BY <1>1
    <3> QED
      BY <1>2, <2>1, <3>1, <3>2 DEF Olds
  <2> QED
    BY <2>2, <2>3
<1>4. ASSUME NEW j \in 0 .. Size, NEW p, Value(r, j, p) PROVE p \in InUse
  <2>1. CASE p = commit[r]
    BY <1>3, <2>1
  <2>2. CASE p # commit[r]
    <3>1. PICK k \in 1 .. j : p = At(k).prd
      BY <1>4, <2>2 DEF Value
    <3>2. k \in 1 .. Size
      BY <1>1
    <3> QED
      BY <1>2, <3>1, <3>2 DEF Dests
  <2> QED
    BY <2>1, <2>2
<1> QED
  BY <1>3, <1>4

(* A fresh register is nobody's.                                           *)
LEMMA FreshApart ==
  ASSUME Types, ~scanning, Names, Owners, NEW f \in (free \ InUse)
  PROVE  /\ \A k \in 1 .. Size : f # At(k).prd /\ f # At(k).old
         /\ \A r \in 1 .. NREG : f # commit[r]
         /\ f \notin sqMask /\ f \notin maskD1
<1>1. R!TypeOK /\ R!Exact /\ rat \in Rat!Map /\ f # 0
  BY SizeAssumption DEF Types, R!IInv, Prf!Regs
<1>2. Size \in Nat
  BY <1>1, Places
<1>3. InUse = Dests \cup (Olds \ {0}) \cup Rat!Mapped
  BY <1>1, InUsePlaces DEF InUse
<1>4. ASSUME NEW r \in 1 .. NREG PROVE commit[r] \in InUse
  <2>1. \E n \in Nat : n <= Size /\ Value(r, n, rat[r])
    BY <1>2 DEF Names, MapExact, Redirecting
  <2> QED
    BY <1>1, <2>1, Held DEF Names, Owners
<1> QED
  BY <1>1, <1>3, <1>4 DEF Dests, Olds, Owners, FreeApart

(* A replaced mapping is the committed value of a register or an older     *)
(* entry's destination.                                                    *)
LEMMA OldIs ==
  ASSUME OldExact, NEW k \in 1 .. Size, Size \in Nat, At(k).rd # 0
  PROVE  \/ At(k).old = commit[At(k).rd]
         \/ \E j \in 1 .. k - 1 : At(k).old = At(j).prd
BY DEF OldExact, Value

(* Writebacks of a cycle.                                                  *)
LEMMA WrittenPlaces ==
  ASSUME R!TypeOK, R!Exact, ~scanning, NEW wb \in WbSets, NEW ex \in ExSets
  PROVE  /\ \A i \in wb \cup ex : \E k \in 1 .. Size : i = R!Place(k)
         /\ \A k \in 1 .. Size : TagAt(k) \in unresolved => R!Place(k) \notin wb \cup ex
         /\ Faults = "none" => ex = {}
<1>1. wb \in SUBSET Executing /\ ex \in SUBSET Executing
  BY DEF WbSets, ExSets
<1>2. ASSUME NEW i \in Executing
      PROVE  \E k \in 1 .. Size : i = R!Place(k) /\ TagAt(k) \notin unresolved
  <2>1. PICK t \in R!Tag : Rob!InWindow(t) /\ t \notin unresolved /\ i = R!Idx(t)
    BY SameSets, SameTags DEF Executing
  <2> QED
    BY <2>1, TagPlace
<1>3. \A k \in 1 .. Size : TagAt(k) \in unresolved => R!Place(k) \notin Executing
  BY <1>2, PlaceUnique
<1> QED
  BY <1>1, <1>2, <1>3 DEF ExSets

-----------------------------------------------------------------------------
(* A cycle as the owners of registers see it: n entries retire, m stay,    *)
(* those behind are squashed, and at most one register is taken.           *)
Grows(m, T) ==
  \/ T = {} /\ Size' = m
  \/ \E f \in free \ InUse : /\ T = {f} /\ Size' = m + 1
                             /\ At(m + 1)'.prd = f /\ ~At(m + 1)'.done
Turn(n, m, T, wb, ex) ==
  /\ Stays(n, m, wb, ex) /\ Grows(m, T)
  /\ n + m < Size => n = 0 /\ T = {}
  /\ sqMask' = {At(k).prd : k \in n + m + 1 .. Size}
  /\ maskD1' = sqMask
  /\ free' = (free \cup ((released \cup maskD1) \ {0})) \ T
  /\ busy' = (busy \cup T) \ (maskD1 \cup Prds(wb))

Settling == Types /\ ~scanning /\ Names /\ Owners

(* The facts every step of the argument uses.                              *)
LEMMA Settled0 ==
  ASSUME Settling
  PROVE  /\ R!TypeOK /\ R!Exact /\ rat \in Rat!Map /\ commit \in Rat!Map /\ ~scanning
         /\ Size \in Nat /\ OldExact /\ CommitOwns /\ DestOwns /\ FreeApart /\ Returning
         /\ Scored /\ Conserved /\ Types
         /\ \A k \in 1 .. Size : At(k) \in R!Entry /\ At(k).rd \in 0 .. NREG /\ At(k).prd # 0
<1>1. R!TypeOK /\ R!Exact /\ rat \in Rat!Map /\ commit \in Rat!Map /\ ~scanning /\ Types
  BY DEF Settling, Types, R!IInv
<1>2. Size \in Nat /\ \A k \in 1 .. Size : At(k) \in R!Entry
  BY <1>1, Places
<1>3. \A k \in 1 .. Size : At(k).rd \in 0 .. NREG /\ At(k).prd # 0
  BY <1>2 DEF R!Entry, R!Reg
<1> QED
  BY <1>1, <1>2, <1>3 DEF Settling, Names, Owners

(* The destinations after the cycle.                                       *)
LEMMA TurnDests ==
  ASSUME Settling, NEW n, NEW m, NEW T, NEW wb, NEW ex, Turn(n, m, T, wb, ex)
  PROVE  /\ n \in 0 .. 2 /\ m \in Nat /\ n + m <= Size
         /\ Size' = m \/ Size' = m + 1
         /\ \A k \in 1 .. m : At(k)'.prd = At(n + k).prd /\ n + k \in 1 .. Size
         /\ \A k \in 1 .. Size' : k \in 1 .. m \/ (k = m + 1 /\ At(k)'.prd \in T)
         /\ \A f \in T : /\ f \in free \ InUse /\ Size' = m + 1 /\ At(m + 1)'.prd = f
                         /\ n + m = Size
<1>1. Size \in Nat /\ n \in 0 .. 2 /\ m \in Nat /\ n + m <= Size
  BY Settled0 DEF Turn, Stays
<1>2. Size' = m \/ Size' = m + 1
  BY DEF Turn, Grows
<1>3. \A k \in 1 .. m : At(k)'.prd = At(n + k).prd /\ n + k \in 1 .. Size
  BY <1>1 DEF Turn, Stays
<1>4. ASSUME NEW k \in 1 .. Size'
      PROVE  k \in 1 .. m \/ (k = m + 1 /\ At(k)'.prd \in T)
  <2>1. CASE k = m + 1
    <3>1. Size' # m
      BY <1>1, <2>1
    <3> QED
      BY <2>1, <3>1 DEF Turn, Grows
  <2> QED
    BY <1>1, <1>2, <2>1
<1>5. \A f \in T : /\ f \in free \ InUse /\ Size' = m + 1 /\ At(m + 1)'.prd = f
                   /\ n + m = Size
  BY <1>1 DEF Turn, Grows
<1> QED
  BY <1>1, <1>2, <1>3, <1>4, <1>5

(* What is committed after the cycle was committed or has just retired.    *)
LEMMA TurnCommit ==
  ASSUME Settling, NEW n, NEW m, NEW T, NEW wb, NEW ex, Turn(n, m, T, wb, ex),
         NEW r \in 1 .. NREG
  PROVE  \/ commit'[r] = commit[r] /\ \A k \in 1 .. n : At(k).rd # r
         \/ \E k \in 1 .. n : /\ At(k).rd = r /\ At(k).prd = commit'[r]
                              /\ \A j \in k + 1 .. n : At(j).rd # r
<1>1. Stays(n, m, wb, ex)
  BY DEF Turn
<1>2. Value(r, n, commit'[r])
  BY <1>1, Settled0, CommitMoves
<1> QED
  BY <1>2 DEF Value

(* Two registers never have the same committed value, for a retiring entry *)
(* owned its destination.                                                  *)
LEMMA CommitOwnsNext ==
  ASSUME Settling, NEW n, NEW m, NEW T, NEW wb, NEW ex, Turn(n, m, T, wb, ex)
  PROVE  CommitOwns'
<1>1. n \in 0 .. 2 /\ \A k \in 1 .. n : k \in 1 .. Size
  BY TurnDests, Settled0
<1>2. ASSUME NEW r \in 1 .. NREG PROVE commit'[r] # 0
  BY <1>1, TurnCommit, Settled0 DEF CommitOwns
<1>3. ASSUME NEW r \in 1 .. NREG, NEW s \in 1 .. NREG, commit'[r] = commit'[s]
      PROVE  r = s
  <2>1. CASE commit'[r] = commit[r] /\ commit'[s] = commit[s]
    BY <1>3, <2>1, Settled0 DEF CommitOwns
  <2>2. ASSUME NEW k \in 1 .. n, At(k).rd = r, At(k).prd = commit'[r]
        PROVE  r = s
    <3>1. commit'[s] # commit[s]
      BY <1>1, <1>3, <2>2, Settled0 DEF DestOwns
    <3>2. PICK j \in 1 .. n : At(j).rd = s /\ At(j).prd = commit'[s]
      BY <3>1, TurnCommit
    <3>3. j = k
      BY <1>1, <1>3, <2>2, <3>2, Settled0 DEF DestOwns
    <3> QED
      BY <2>2, <3>2, <3>3
  <2>3. ASSUME NEW k \in 1 .. n, At(k).rd = s, At(k).prd = commit'[s], commit'[r] = commit[r]
        PROVE  r = s
    BY <1>1, <1>3, <2>3, Settled0 DEF DestOwns
  <2> QED
    BY <2>1, <2>2, <2>3, TurnCommit
<1> QED
  BY <1>2, <1>3 DEF CommitOwns

(* A destination stays its entry's own, and a new one was nobody's.        *)
LEMMA DestOwnsNext ==
  ASSUME Settling, NEW n, NEW m, NEW T, NEW wb, NEW ex, Turn(n, m, T, wb, ex)
  PROVE  DestOwns'
<1>1. n \in 0 .. 2 /\ m \in Nat /\ \A k \in 1 .. n : k \in 1 .. Size
  BY TurnDests, Settled0
<1>2. \A f \in T : /\ \A k \in 1 .. Size : f # At(k).prd
                   /\ \A r \in 1 .. NREG : f # commit[r]
  BY TurnDests, FreshApart DEF Settling
<1>3. ASSUME NEW k \in 1 .. Size', NEW j \in 1 .. Size', At(j)'.prd = At(k)'.prd
      PROVE  j = k
  <2>1. CASE k \in 1 .. m /\ j \in 1 .. m
    <3>1. At(n + j).prd = At(n + k).prd /\ n + j \in 1 .. Size /\ n + k \in 1 .. Size
      BY <1>3, <2>1, TurnDests
    <3>2. n + j = n + k
      BY <3>1, Settled0 DEF DestOwns
    <3> QED
      BY <1>1, <2>1, <3>2
  <2>2. CASE k = m + 1 /\ j = m + 1
    BY <2>2
  <2>3. CASE k \in 1 .. m /\ At(j)'.prd \in T
    BY <1>2, <1>3, <2>3, TurnDests
  <2>4. CASE j \in 1 .. m /\ At(k)'.prd \in T
    BY <1>2, <1>3, <2>4, TurnDests
  <2> QED
    BY <2>1, <2>2, <2>3, <2>4, TurnDests
<1>4. ASSUME NEW k \in 1 .. Size', NEW r \in 1 .. NREG
      PROVE  At(k)'.prd # commit'[r]
  <2>1. CASE k \in 1 .. m
    <3>1. At(k)'.prd = At(n + k).prd /\ n + k \in 1 .. Size
      BY <2>1, TurnDests
    <3>2. ASSUME NEW i \in 1 .. n PROVE At(n + k).prd # At(i).prd
      <4>1. i # n + k
        BY <1>1, <2>1
      <4> QED
        BY <1>1, <3>1, <4>1, Settled0 DEF DestOwns
    <3>3. At(n + k).prd # commit[r]
      BY <3>1, Settled0 DEF DestOwns
    <3> QED
      BY <3>1, <3>2, <3>3, TurnCommit
  <2>2. CASE At(k)'.prd \in T
    BY <1>1, <1>2, <2>2, TurnCommit
  <2> QED
    BY <2>1, <2>2, TurnDests
<1> QED
  BY <1>3, <1>4 DEF DestOwns

(* What is named after the cycle stood behind what retires, or is fresh.   *)
LEMMA DestsNext ==
  ASSUME Settling, NEW n, NEW m, NEW T, NEW wb, NEW ex, Turn(n, m, T, wb, ex),
         NEW x \in Dests'
  PROVE  \/ x \in T
         \/ \E i \in n + 1 .. n + m : i \in 1 .. Size /\ x = At(i).prd
<1>1. PICK k \in 1 .. Size' : x = At(k)'.prd
  BY DEF Dests
<1>2. CASE k \in 1 .. m
  <2>1. x = At(n + k).prd /\ n + k \in 1 .. Size /\ n \in Nat /\ m \in Nat
    BY <1>1, <1>2, TurnDests
  <2>2. n + k \in n + 1 .. n + m
    BY <1>2, <2>1
  <2> QED
    BY <2>1, <2>2
<1> QED
  BY <1>1, <1>2, TurnDests

(* What a retirement frees was committed, or the destination of an entry   *)
(* that retires with it.                                                   *)
LEMMA FreedIs ==
  ASSUME Settling, NEW n, NEW m, NEW T, NEW wb, NEW ex, Turn(n, m, T, wb, ex),
         NEW x \in released'
  PROVE  \/ \E r \in 1 .. NREG : x = commit[r]
         \/ \E j \in 1 .. n : j \in 1 .. Size /\ x = At(j).prd
<1>1. n \in 0 .. 2 /\ \A k \in 1 .. n : k \in 1 .. Size
  BY TurnDests, Settled0
<1>2. PICK k \in 1 .. n : x = R!Freed(At(k))
  BY DEF Turn, Stays
<1>3. CASE At(k).rd = 0
  BY <1>1, <1>2, <1>3 DEF R!Freed
<1>4. CASE At(k).rd # 0
  <2>1. x = At(k).old /\ At(k).rd \in 1 .. NREG
    BY <1>1, <1>2, <1>4, Settled0, SizeAssumption DEF R!Freed
  <2>2. At(k).old = commit[At(k).rd] \/ \E j \in 1 .. k - 1 : At(k).old = At(j).prd
    BY <1>1, <1>4, Settled0, OldIs
  <2>3. \A j \in 1 .. k - 1 : j \in 1 .. n
    BY <1>1
  <2> QED
    BY <1>1, <2>1, <2>2, <2>3
<1> QED
  BY <1>3, <1>4

(* Nothing on the free list is a destination or on its way there.          *)
LEMMA FreeApartNext ==
  ASSUME Settling, NEW n, NEW m, NEW T, NEW wb, NEW ex, Turn(n, m, T, wb, ex)
  PROVE  FreeApart'
<1>1. n \in 0 .. 2 /\ m \in Nat /\ n + m <= Size /\ Size \in Nat
  BY TurnDests, Settled0
<1>2. free' = (free \cup ((released \cup maskD1) \ {0})) \ T /\ maskD1' = sqMask
  BY DEF Turn
<1>3. (free \cup released \cup maskD1) \cap Dests = {}
  BY Settled0 DEF FreeApart, Returning
<1>4. sqMask' \subseteq Dests
  <2>1. \A k \in n + m + 1 .. Size : k \in 1 .. Size
    BY <1>1
  <2> QED
    BY <2>1 DEF Turn, Dests
<1>5. free' \cap sqMask = {}
  BY <1>2, Settled0 DEF FreeApart, Returning
<1>6. ASSUME NEW x \in Dests' PROVE x \notin free'
  <2>1. CASE x \in T
    BY <1>2, <2>1
  <2>2. CASE x \notin T
    <3>1. x \in Dests
      BY <2>2, DestsNext DEF Dests
    <3> QED
      BY <1>2, <1>3, <3>1
  <2> QED
    BY <2>1, <2>2
<1> QED
  BY <1>2, <1>3, <1>4, <1>5, <1>6 DEF FreeApart

(* What is on its way back belongs to no entry any more.                   *)
LEMMA ReturningNext ==
  ASSUME Settling, NEW n, NEW m, NEW T, NEW wb, NEW ex, Turn(n, m, T, wb, ex)
  PROVE  Returning'
<1>1. n \in 0 .. 2 /\ m \in Nat /\ n + m <= Size /\ Size \in Nat
  BY TurnDests, Settled0
<1>2. maskD1' = sqMask /\ sqMask' = {At(k).prd : k \in n + m + 1 .. Size}
  BY DEF Turn
<1>3. \A f \in T : /\ \A k \in 1 .. Size : f # At(k).prd
                   /\ \A r \in 1 .. NREG : f # commit[r]
                   /\ f \notin sqMask
  BY TurnDests, FreshApart DEF Settling
<1>4. ASSUME NEW x \in Dests'
      PROVE  x \notin released' /\ x \notin sqMask' /\ x \notin maskD1'
  <2>1. CASE x \in T
    <3>1. x \notin released'
      BY <1>3, <2>1, FreedIs
    <3>2. x \notin sqMask'
      <4>1. \A k \in n + m + 1 .. Size : k \in 1 .. Size
        BY <1>1
      <4> QED
        BY <1>2, <1>3, <2>1, <4>1
    <3> QED
      BY <1>2, <1>3, <2>1, <3>1, <3>2
  <2>2. ASSUME NEW i \in n + 1 .. n + m, i \in 1 .. Size, x = At(i).prd
        PROVE  x \notin released' /\ x \notin sqMask' /\ x \notin maskD1'
    <3>1. x \notin released'
      <4>1. \A r \in 1 .. NREG : x # commit[r]
        BY <2>2, Settled0 DEF DestOwns
      <4>2. \A j \in 1 .. n : j \in 1 .. Size => x # At(j).prd
        <5>1. \A j \in 1 .. n : j # i
          BY <1>1, <2>2
        <5> QED
          BY <2>2, <5>1, Settled0 DEF DestOwns
      <4> QED
        BY <4>1, <4>2, FreedIs
    <3>2. x \notin sqMask'
      <4>1. \A j \in n + m + 1 .. Size : j # i /\ j \in 1 .. Size
        BY <1>1, <2>2
      <4> QED
        BY <1>2, <2>2, <4>1, Settled0 DEF DestOwns
    <3>3. x \notin sqMask
      BY <2>2, Settled0 DEF Returning, Dests
    <3> QED
      BY <1>2, <3>1, <3>2, <3>3
  <2> QED
    BY <2>1, <2>2, DestsNext
<1>5. sqMask' \cap maskD1' = {}
  <2>1. \A k \in n + m + 1 .. Size : k \in 1 .. Size
    BY <1>1
  <2>2. sqMask' \subseteq Dests
    BY <1>2, <2>1 DEF Dests
  <2> QED
    BY <1>2, <2>2, Settled0 DEF Returning
<1>6. ASSUME sqMask' # {} PROVE released' = {}
  <2>1. n + m < Size
    BY <1>1, <1>2, <1>6
  <2>2. n = 0
    BY <2>1 DEF Turn
  <2> QED
    BY <2>2 DEF Turn, Stays
<1> QED
  BY <1>4, <1>5, <1>6 DEF Returning

(* The scoreboard: a taken register is marked, a written or squashed one is*)
(* not, and no other changes.                                              *)
LEMMA ScoredNext ==
  ASSUME Settling, NEW n, NEW m, NEW T, NEW wb \in WbSets, NEW ex \in ExSets,
         Turn(n, m, T, wb, ex)
  PROVE  Scored'
<1>1. n \in 0 .. 2 /\ m \in Nat /\ n + m <= Size /\ Size \in Nat
  BY TurnDests, Settled0
<1>2. busy' = (busy \cup T) \ (maskD1 \cup Prds(wb)) /\ maskD1' = sqMask
  BY DEF Turn
<1>3. \A f \in T : (\A k \in 1 .. Size : f # At(k).prd) /\ f \notin maskD1
  BY TurnDests, FreshApart DEF Settling
<1>4. \A x \in Prds(wb) : \E k \in 1 .. Size : x = At(k).prd /\ R!Place(k) \in wb
  <2>1. \A i \in wb : \E k \in 1 .. Size : i = R!Place(k)
    BY WrittenPlaces, Settled0
  <2> QED
    BY <2>1 DEF Prds, At
<1>5. ASSUME NEW k \in 1 .. Size, R!Place(k) \notin wb PROVE At(k).prd \notin Prds(wb)
  BY <1>4, <1>5, Settled0 DEF DestOwns
<1>6. \A k \in 1 .. m :
        /\ n + k \in 1 .. Size /\ At(k)'.prd = At(n + k).prd
        /\ At(k)'.done <=> At(n + k).done \/ R!Place(n + k) \in wb \cup ex
        /\ At(k)'.exc <=> At(n + k).exc \/ R!Place(n + k) \in ex
  BY <1>1 DEF Turn, Stays
<1>7. ASSUME NEW k \in 1 .. Size', ~At(k)'.done PROVE At(k)'.prd \in busy'
  <2>1. CASE k \in 1 .. m
    <3>1. /\ n + k \in 1 .. Size /\ At(k)'.prd = At(n + k).prd
          /\ ~At(n + k).done /\ R!Place(n + k) \notin wb
      BY <1>6, <1>7, <2>1
    <3>2. At(n + k).prd \in busy /\ At(n + k).prd \notin maskD1
      BY <3>1, Settled0 DEF Scored, Returning, Dests
    <3> QED
      BY <1>2, <1>5, <3>1, <3>2
  <2>2. CASE At(k)'.prd \in T
    BY <1>2, <1>3, <1>4, <2>2
  <2> QED
    BY <2>1, <2>2, TurnDests
<1>8. ASSUME NEW x \in busy', x \notin sqMask', x \notin maskD1'
      PROVE  \E k \in 1 .. Size' : x = At(k)'.prd /\ (~At(k)'.done \/ At(k)'.exc)
  <2>1. CASE x \in T
    <3>1. Size' = m + 1 /\ At(m + 1)'.prd = x /\ ~At(m + 1)'.done
      BY <2>1 DEF Turn, Grows
    <3>2. m + 1 \in 1 .. Size'
      BY <1>1, <3>1
    <3> QED
      BY <3>1, <3>2
  <2>2. CASE x \notin T
    <3>1. x \in busy \ (sqMask \cup maskD1) /\ x \notin Prds(wb)
      BY <1>2, <1>8, <2>2
    <3>2. PICK i \in 1 .. Size : x = At(i).prd /\ (~At(i).done \/ At(i).exc)
      BY <3>1, Settled0 DEF Scored
    <3>3. i > n
      <4>1. \A k \in 1 .. n : At(k).done /\ ~At(k).exc
        BY DEF Turn, Stays
      <4> QED
        BY <1>1, <3>2, <4>1
    <3>4. i <= n + m
      <4> SUFFICES ASSUME i > n + m PROVE FALSE
        BY <1>1
      <4>1. i \in n + m + 1 .. Size
        BY <1>1
      <4> QED
        BY <1>8, <3>2, <4>1 DEF Turn
    <3>5. PICK k \in 1 .. m : i = n + k
      <4>1. i - n \in 1 .. m /\ i = n + (i - n)
        BY <1>1, <3>3, <3>4
      <4> QED
        BY <4>1
    <3>6. R!Place(i) \notin wb
      BY <3>1, <3>2 DEF Prds, At
    <3>7. At(k)'.prd = x /\ (~At(k)'.done \/ At(k)'.exc)
      BY <1>6, <3>2, <3>5, <3>6
    <3>8. k \in 1 .. Size'
      BY <1>1, TurnDests
    <3> QED
      BY <3>7, <3>8
  <2> QED
    BY <2>1, <2>2
<1> QED
  BY <1>7, <1>8 DEF Scored

(* A register that leaves the window, or is no longer committed, is released*)
(* or in the squash mask.                                                  *)
LEMMA ConservedNext ==
  ASSUME Settling, NEW n, NEW m, NEW T, NEW wb, NEW ex, Turn(n, m, T, wb, ex)
  PROVE  Conserved'
<1>1. n \in 0 .. 2 /\ m \in Nat /\ n + m <= Size /\ Size \in Nat
  BY TurnDests, Settled0
<1>2. /\ free' = (free \cup ((released \cup maskD1) \ {0})) \ T /\ maskD1' = sqMask
      /\ sqMask' = {At(k).prd : k \in n + m + 1 .. Size}
      /\ released' = {R!Freed(At(k)) : k \in 1 .. n}
  BY DEF Turn, Stays
<1> SUFFICES ASSUME NEW x \in Prf!Regs, x \notin free', x \notin released',
                    x \notin sqMask', x \notin maskD1'
             PROVE  \/ \E k \in 1 .. Size' : x = At(k)'.prd
                    \/ \E r \in 1 .. NREG : x = commit'[r]
  BY DEF Conserved, Prf!Regs
<1>3. CASE x \in T
  <2>1. Size' = m + 1 /\ At(m + 1)'.prd = x
    BY <1>3, TurnDests
  <2>2. m + 1 \in 1 .. Size'
    BY <1>1, <2>1
  <2> QED
    BY <2>1, <2>2
<1>4. CASE x \notin T
  <2>1. x \in Prf!Regs \ (free \cup released \cup sqMask \cup maskD1)
    BY <1>2, <1>4, SizeAssumption DEF Prf!Regs
  <2>2. ASSUME NEW k \in 1 .. Size, x = At(k).prd
        PROVE  \/ \E i \in 1 .. Size' : x = At(i)'.prd
               \/ \E r \in 1 .. NREG : x = commit'[r]
    <3>1. k <= n + m
      <4> SUFFICES ASSUME k > n + m PROVE FALSE
        BY <1>1
      <4>1. k \in n + m + 1 .. Size
        BY <1>1
      <4> QED
        BY <1>2, <2>2, <4>1
    <3>2. CASE k > n
      <4>1. PICK i \in 1 .. m : k = n + i
        <5>1. k - n \in 1 .. m /\ k = n + (k - n)
          BY <1>1, <3>1, <3>2
        <5> QED
          BY <5>1
      <4>2. At(i)'.prd = x /\ i \in 1 .. Size'
        BY <1>1, <2>2, <4>1, TurnDests
      <4> QED
        BY <4>2
    <3>3. CASE k \in 1 .. n /\ At(k).rd = 0
      <4>1. x \in released'
        BY <1>2, <2>2, <3>3 DEF R!Freed
      <4> QED
        BY <4>1
    <3>4. CASE k \in 1 .. n /\ At(k).rd # 0
      <4>1. PICK r \in 1 .. NREG : r = At(k).rd
        BY <3>4, Settled0, SizeAssumption
      <4>2. CASE \A j \in k + 1 .. n : At(j).rd # r
        <5>1. PICK j \in 1 .. n : /\ At(j).rd = r /\ At(j).prd = commit'[r]
                                  /\ \A i \in j + 1 .. n : At(i).rd # r
          BY <3>4, <4>1, TurnCommit
        <5>2. j = k
          <6>1. ~(j > k)
            BY <1>1, <4>2, <5>1
          <6>2. ~(k > j)
            BY <1>1, <3>4, <4>1, <5>1
          <6> QED
            BY <6>1, <6>2
        <5> QED
          BY <2>2, <5>1, <5>2
      <4>3. ASSUME NEW j \in k + 1 .. n, At(j).rd = r
            PROVE  x \in released'
        <5>1. k = 1 /\ j = 2 /\ n = 2 /\ 2 \in 1 .. Size
          BY <1>1, <3>4
        <5>2. At(2).rd = r /\ r # 0 /\ At(1).rd = r /\ At(1).prd = x
          BY <2>2, <4>1, <4>3, <5>1
        <5>3. Value(r, 1, At(2).old)
          <6>1. Value(At(2).rd, 2 - 1, At(2).old)
            BY <5>1, <5>2, Settled0 DEF OldExact
          <6> QED
            BY <5>2, <6>1
        <5>4. 1 \in 1 .. 1 /\ \A i \in 1 .. 1 : i = 1
          OBVIOUS
        <5>5. At(2).old = x
          BY <5>2, <5>3, <5>4 DEF Value
        <5>6. R!Freed(At(2)) = x /\ 2 \in 1 .. n
          BY <5>1, <5>2, <5>5 DEF R!Freed
        <5> QED
          BY <1>2, <5>6
      <4> QED
        BY <4>2, <4>3
    <3> QED
      BY <1>1, <3>2, <3>3, <3>4
  <2>3. ASSUME NEW r \in 1 .. NREG, x = commit[r]
        PROVE  x = commit'[r]
    <3>1. ASSUME NEW i \in 1 .. n, At(i).rd = r PROVE FALSE
      <4>1. PICK k \in 1 .. n : At(k).rd = r /\ At(k).old = x
        BY <1>1, <2>3, <3>1, Settled0, FirstWriter
      <4>2. R!Freed(At(k)) = x
        BY <4>1 DEF R!Freed
      <4> QED
        BY <1>2, <4>2
    <3> QED
      BY <2>3, <3>1, TurnCommit
  <2> QED
    BY <2>1, <2>2, <2>3, Settled0 DEF Conserved
<1> QED
  BY <1>3, <1>4

(* So the owners are kept, whatever the operation.                         *)
LEMMA OwnersNext ==
  ASSUME Settling, NEW n, NEW m, NEW T, NEW wb \in WbSets, NEW ex \in ExSets,
         Turn(n, m, T, wb, ex)
  PROVE  Owners'
BY CommitOwnsNext, DestOwnsNext, FreeApartNext, ReturningNext, ScoredNext, ConservedNext
   DEF Owners

-----------------------------------------------------------------------------
(* The stack of snapshots, with the one in the shadow on top.              *)

(* More snapshots than places: two at the same place.                      *)
LEMMA NoRoom ==
  ASSUME NEW n \in Nat, NEW m \in Nat, m < n, NEW f \in [1 .. n -> 1 .. m]
  PROVE  \E s, u \in 1 .. n : s # u /\ f[s] = f[u]
<1>1. /\ IsFiniteSet(1 .. n) /\ Cardinality(1 .. n) = IF 1 > n THEN 0 ELSE n - 1 + 1
      /\ IsFiniteSet(1 .. m) /\ Cardinality(1 .. m) = IF 1 > m THEN 0 ELSE m - 1 + 1
  BY FS_Interval
<1>2. Cardinality(1 .. m) < Cardinality(1 .. n)
  BY <1>1
<1> QED
  BY <1>1, <1>2, FS_PigeonHole

(* Two snapshots never cover the same place, so they are no more than the  *)
(* instructions in flight: none is ever dropped.                           *)
LEMMA SnapsFew ==
  ASSUME Settling
  PROVE  Len(Snaps) \in Nat /\ Len(Snaps) <= Size /\ Len(Snaps) = Len(stack) + Len(shadow)
<1>1. /\ Snaps \in Seq(Snap) /\ Len(Snaps) = Len(stack) + Len(shadow)
      /\ Len(Snaps) \in Nat /\ Size \in Nat
  BY Settled0 DEF Types, Snaps
<1> DEFINE f == [s \in 1 .. Len(Snaps) |-> CHOOSE k \in 1 .. Size : Has(Snaps[s], k)]
<1>2. \A s \in 1 .. Len(Snaps) : f[s] \in 1 .. Size /\ TagAt(f[s]) = Snaps[s].tag
  BY DEF Settling, Names, SnapExact, Has
<1>3. f \in [1 .. Len(Snaps) -> 1 .. Size]
  BY <1>2
<1>4. \A s, u \in 1 .. Len(Snaps) : s # u => f[s] # f[u]
  <2> HIDE DEF f
  <2> SUFFICES ASSUME NEW s \in 1 .. Len(Snaps), NEW u \in 1 .. Len(Snaps), s < u
               PROVE  f[s] # f[u]
    BY <1>1
  <2>1. f[s] < f[u]
    BY <1>2 DEF Settling, Names, SnapOrder
  <2> QED
    BY <1>2, <2>1
<1> HIDE DEF f
<1>5. Len(Snaps) <= Size
  <2> SUFFICES ASSUME Size < Len(Snaps) PROVE FALSE
    BY <1>1
  <2>1. \E s, u \in 1 .. Len(Snaps) : s # u /\ f[s] = f[u]
    BY <1>1, <1>3, NoRoom
  <2> QED
    BY <1>4, <2>1
<1> QED
  BY <1>1, <1>5

(* Positions in a concatenation.                                           *)
LEMMA Concat ==
  ASSUME NEW S, NEW a \in Seq(S), NEW b \in Seq(S), NEW g, g = a \o b
  PROVE  /\ g \in Seq(S) /\ Len(g) = Len(a) + Len(b)
         /\ \A i \in 1 .. Len(a) : g[i] = a[i]
         /\ \A i \in 1 .. Len(b) : g[Len(a) + i] = b[i]
OBVIOUS

(* The snapshots, stack first.                                             *)
LEMMA SnapsAt ==
  ASSUME Types
  PROVE  /\ Snaps \in Seq(Snap) /\ Len(Snaps) = Len(stack) + Len(shadow)
         /\ Len(stack) \in Nat /\ Len(shadow) \in {0, 1}
         /\ \A s \in 1 .. Len(stack) : Snaps[s] = stack[s]
         /\ \A s \in 1 .. Len(shadow) : Snaps[Len(stack) + s] = shadow[s]
<1>1. stack \in Seq(Snap) /\ shadow \in Seq(Snap) /\ Len(shadow) <= 1
  BY DEF Types
<1>2. Len(stack) \in Nat /\ Len(shadow) \in Nat
  BY <1>1
<1>3. Len(shadow) \in {0, 1}
  BY <1>1, <1>2
<1>4. /\ Snaps \in Seq(Snap) /\ Len(Snaps) = Len(stack) + Len(shadow)
      /\ \A s \in 1 .. Len(stack) : Snaps[s] = stack[s]
      /\ \A s \in 1 .. Len(shadow) : Snaps[Len(stack) + s] = shadow[s]
  <2>1. Snaps = stack \o shadow
    BY DEF Snaps
  <2> QED
    BY <1>1, <2>1, Concat
<1> QED
  BY <1>2, <1>3, <1>4

(* A branch that may resolve is at the head and its snapshot is the lowest *)
(* of the stack.                                                           *)
LEMMA HeadSnapshot ==
  ASSUME Settling, pend = {}, NEW t \in Resolvable
  PROVE  /\ t = head /\ head \in unresolved /\ Size >= 1 /\ TagAt(1) = head /\ ~At(1).done
         /\ Len(stack) >= 1 /\ Snaps[1] = stack[1] /\ Has(stack[1], 1)
<1>1. t = head /\ head \in unresolved /\ head \notin D1Tags /\ ~R!Empty
  BY SameOutputs DEF Resolvable
<1>2. Size >= 1 /\ TagAt(1) = head /\ Size \in Nat
  BY <1>1, HeadPlace, Settled0
<1>3. \A k \in 1 .. Size : TagAt(k) = head => k = 1
  <2>1. 1 \in 1 .. Size
    BY <1>2
  <2> QED
    BY <1>2, <2>1, PlaceUnique, Settled0
<1>4. ~At(1).done
  BY <1>1, <1>3 DEF Settling, Names, Waiting
<1>5. PICK s \in 1 .. Len(Snaps) : Snaps[s].tag = head
  BY <1>1 DEF Settling, Names, SnapTags
<1>6. /\ Len(Snaps) = Len(stack) + Len(shadow) /\ Len(stack) \in Nat /\ Len(shadow) \in Nat
      /\ \A i \in 1 .. Len(stack) : Snaps[i] = stack[i]
      /\ \A i \in 1 .. Len(shadow) : Snaps[Len(stack) + i] = shadow[i]
  BY Settled0, SnapsAt
<1>7. s <= Len(stack)
  <2> SUFFICES ASSUME s > Len(stack) PROVE FALSE
    BY <1>6
  <2>1. PICK i \in 1 .. Len(shadow) : s = Len(stack) + i
    <3>1. s - Len(stack) \in 1 .. Len(shadow) /\ s = Len(stack) + (s - Len(stack))
      BY <1>6
    <3> QED
      BY <3>1
  <2>2. shadow[i].tag \in D1Tags /\ Snaps[s] = shadow[i]
    BY <1>6, <2>1 DEF Settling, Names, ShadowNew
  <2> QED
    BY <1>1, <1>5, <2>2
<1>8. 1 \in 1 .. Len(Snaps) /\ Snaps[1] = stack[1] /\ Len(stack) >= 1
  BY <1>6, <1>7
<1>9. PICK k \in 1 .. Size : Has(Snaps[1], k)
  BY <1>8 DEF Settling, Names, SnapExact
<1>10. s = 1
  <2> SUFFICES ASSUME 1 < s PROVE FALSE
    BY <1>6
  <2>1. TagAt(k) = Snaps[1].tag /\ TagAt(1) = Snaps[s].tag /\ 1 \in 1 .. Size
    BY <1>2, <1>5, <1>9 DEF Has
  <2>2. k < 1
    BY <1>8, <2>1 DEF Settling, Names, SnapOrder
  <2> QED
    BY <2>2
<1>11. k = 1
  BY <1>3, <1>5, <1>9, <1>10 DEF Has
<1> QED
  BY <1>1, <1>2, <1>4, <1>8, <1>9, <1>11

(* A release at the head takes the lowest snapshot, or nothing.            *)
LEMMA ReleasedHead ==
  ASSUME Settling, pend = {}, NEW rel \in Rels
  PROVE  /\ Rat!Released(rel) \in Seq(Snap)
         /\ \/ rel = {} /\ Rat!Released(rel) = stack
            \/ /\ rel = {head} /\ head \in unresolved /\ Len(stack) >= 1
               /\ Snaps[1] = stack[1] /\ stack[1].tag = head
               /\ Len(Rat!Released(rel)) = Len(stack) - 1
               /\ \A i \in 1 .. Len(stack) - 1 : Rat!Released(rel)[i] = stack[i + 1]
<1>1. stack \in Seq(Snap) /\ Len(stack) \in Nat
  BY Settled0 DEF Types
<1>2. Rat!Released(rel) \in Seq(Snap)
  BY <1>1, ReleasedLength
<1>3. CASE rel = {}
  BY <1>2, <1>3 DEF Rat!Released
<1>4. ASSUME NEW t \in Resolvable, rel = {t}
      PROVE  /\ rel = {head} /\ head \in unresolved /\ Len(stack) >= 1
             /\ Snaps[1] = stack[1] /\ stack[1].tag = head
             /\ Len(Rat!Released(rel)) = Len(stack) - 1
             /\ \A i \in 1 .. Len(stack) - 1 : Rat!Released(rel)[i] = stack[i + 1]
  <2>1. /\ rel = {head} /\ head \in unresolved /\ Len(stack) >= 1
        /\ Snaps[1] = stack[1] /\ stack[1].tag = head
    BY <1>4, HeadSnapshot DEF Has
  <2> DEFINE M == {s \in 1 .. Len(stack) : stack[s].tag \in rel}
             c == CHOOSE s \in M : \A u \in M : s <= u
  <2>2. 1 \in M /\ \A u \in M : 1 <= u /\ u \in Nat
    BY <1>1, <2>1
  <2>3. c \in M /\ \A u \in M : c <= u
    BY <2>2
  <2>4. c = 1
    BY <2>2, <2>3
  <2>5. Rat!Released(rel) = SubSeq(stack, 1, c - 1) \o SubSeq(stack, c + 1, Len(stack))
    BY <2>2 DEF Rat!Released
  <2> HIDE DEF M, c
  <2> DEFINE a == SubSeq(stack, 1, 0)
             b == SubSeq(stack, 2, Len(stack))
  <2>6. Rat!Released(rel) = a \o b
    BY <2>4, <2>5
  <2>7. a \in Seq(Snap) /\ Len(a) = 0
    BY <1>1, <2>1
  <2>8. b \in Seq(Snap) /\ Len(b) = Len(stack) - 1
    <3>1. b = SubSeq(stack, c + 1, Len(stack)) /\ c \in 1 .. Len(stack)
      BY <1>1, <2>1, <2>4
    <3>2. /\ SubSeq(stack, c + 1, Len(stack)) \in Seq(Snap)
          /\ Len(SubSeq(stack, c + 1, Len(stack))) = Len(stack) - c
      BY <1>1, <3>1
    <3> HIDE DEF b
    <3> QED
      BY <2>4, <3>1, <3>2
  <2>9. \A i \in 1 .. Len(stack) - 1 : b[i] = stack[i + 1]
    BY <1>1, <2>1
  <2> HIDE DEF a, b
  <2> DEFINE g == a \o b
  <2>10. Len(g) = 0 + Len(b) /\ \A i \in 1 .. Len(b) : g[0 + i] = b[i]
    <3>1. g = a \o b
      OBVIOUS
    <3> HIDE DEF g
    <3> QED
      BY <2>7, <2>8, <3>1, Concat
  <2>11. /\ Len(Rat!Released(rel)) = Len(stack) - 1
         /\ \A i \in 1 .. Len(stack) - 1 : Rat!Released(rel)[i] = stack[i + 1]
    <3> DEFINE f == Rat!Released(rel)
    <3>1. f = g
      BY <2>6
    <3>2. Len(g) = 0 + Len(b) /\ \A i \in 1 .. Len(b) : g[0 + i] = b[i]
      BY <2>10
    <3> HIDE DEF f, g
    <3>3. Len(f) = Len(stack) - 1 /\ \A i \in 1 .. Len(stack) - 1 : f[i] = stack[i + 1]
      BY <1>1, <2>8, <2>9, <3>1, <3>2
    <3> QED
      BY <3>3 DEF f
  <2> QED
    BY <2>1, <2>11
<1> QED
  BY <1>2, <1>3, <1>4 DEF Rels

(* The snapshots after a cycle: c of them (the lowest) released, those     *)
(* above moved down, the one taken this cycle on top.                      *)
Edited(c, push, rel) ==
  /\ c = 0 => rel = {}
  /\ c = 1 => rel = {head} /\ Len(Snaps) >= 1 /\ Snaps[1].tag = head
              /\ head \in unresolved
  /\ \A s \in 1 .. Len(Snaps) - c : Snaps'[s] = Snaps[s + c]
  /\ push = {} => Len(Snaps') = Len(Snaps) - c /\ shadow' = <<>>
  /\ push # {} => /\ Len(Snaps') = (Len(Snaps) - c) + 1
                  /\ Snaps'[Len(Snaps')] = [tag |-> tail, map |-> rat]
                  /\ shadow' = <<[tag |-> tail, map |-> rat]>>

(* What the alias table does to the snapshots.                             *)
LEMMA SnapsEdit ==
  ASSUME Settling, pend = {}, Types', NEW rel \in Rels,
         NEW push, push = {} \/ (push = {tail} /\ Size < DEPTH), NEW w,
         Rat!Edit(push, None, rel, None, None, w, None)
  PROVE  \E c \in {0, 1} : Edited(c, push, rel)
<1>1. /\ Len(Snaps) = Len(stack) + Len(shadow) /\ Len(Snaps) <= Size /\ Size <= DEPTH
      /\ Len(stack) \in Nat /\ Len(shadow) \in {0, 1} /\ Len(Snaps) \in Nat
      /\ stack \in Seq(Snap) /\ shadow \in Seq(Snap)
  BY SnapsFew, SnapsAt, Settled0, Places DEF Types
<1>2. CP_DEPTH >= DEPTH /\ CP_DEPTH \in Nat /\ DEPTH \in Nat /\ Size \in Nat
  BY SnapshotsAssumption, SizeAssumption, Settled0
<1> DEFINE f == Rat!Released(rel)
<1>3. PICK c \in {0, 1} :
        /\ c = 0 => rel = {}
        /\ c = 1 => rel = {head} /\ Len(Snaps) >= 1 /\ Snaps[1].tag = head
                    /\ head \in unresolved
        /\ f \in Seq(Snap) /\ Len(f) = Len(stack) - c
        /\ \A i \in 1 .. Len(stack) - c : f[i] = stack[i + c]
        /\ c <= Len(stack)
  <2>1. CASE rel = {} /\ f = stack
    BY <1>1, <2>1
  <2>2. CASE /\ rel = {head} /\ head \in unresolved /\ Len(stack) >= 1
             /\ Snaps[1] = stack[1] /\ stack[1].tag = head
             /\ Len(f) = Len(stack) - 1
             /\ \A i \in 1 .. Len(stack) - 1 : f[i] = stack[i + 1]
    <3>1. f \in Seq(Snap)
      BY ReleasedHead
    <3>2. Len(Snaps) >= 1
      BY <1>1, <2>2
    <3>3. 1 \in {0, 1} /\ 1 <= Len(stack) /\ Snaps[1].tag = head
      BY <2>2
    <3> HIDE DEF f
    <3> QED
      BY <2>2, <3>1, <3>2, <3>3
  <2> QED
    BY <2>1, <2>2, ReleasedHead
<1>4. stack' = IF Len(f) < CP_DEPTH THEN f \o shadow ELSE f
  BY DEF Rat!Edit
<1> HIDE DEF f
<1>5. stack' = f \o shadow
  <2>1. CASE Len(shadow) = 0
    <3>1. shadow = <<>>
      BY <1>1, <2>1
    <3>2. f \o <<>> = f
      BY <1>3
    <3> QED
      BY <1>4, <3>1, <3>2
  <2>2. CASE Len(shadow) = 1
    <3>1. Len(f) < CP_DEPTH
      BY <1>1, <1>2, <1>3, <2>2
    <3> QED
      BY <1>4, <3>1
  <2> QED
    BY <1>1, <2>1, <2>2
<1>6. /\ Len(stack') = Len(Snaps) - c
      /\ \A s \in 1 .. Len(Snaps) - c : stack'[s] = Snaps[s + c]
  <2>1. /\ Len(stack') = Len(f) + Len(shadow)
        /\ \A i \in 1 .. Len(f) : stack'[i] = f[i]
        /\ \A i \in 1 .. Len(shadow) : stack'[Len(f) + i] = shadow[i]
    <3>1. f \in Seq(Snap) /\ shadow \in Seq(Snap) /\ stack' = f \o shadow
      BY <1>1, <1>3, <1>5
    <3> QED
      BY <3>1, Concat
  <2>2. Len(stack') = Len(Snaps) - c
    BY <1>1, <1>3, <1>5, <2>1
  <2>3. ASSUME NEW s \in 1 .. Len(Snaps) - c PROVE stack'[s] = Snaps[s + c]
    <3>1. CASE s \in 1 .. Len(f)
      <4>1. s + c \in 1 .. Len(stack)
        BY <1>1, <1>3, <3>1
      <4> QED
        BY <1>3, <1>5, <2>1, <3>1, <4>1, Settled0, SnapsAt
    <3>2. CASE s > Len(f)
      <4>1. PICK i \in 1 .. Len(shadow) : s = Len(f) + i
        <5>1. s - Len(f) \in 1 .. Len(shadow) /\ s = Len(f) + (s - Len(f))
          BY <1>1, <1>3, <3>2
        <5> QED
          BY <5>1
      <4>2. s + c = Len(stack) + i
        BY <1>1, <1>3, <4>1
      <4> QED
        BY <1>5, <2>1, <4>1, <4>2, Settled0, SnapsAt
    <3> QED
      BY <1>1, <1>3, <3>1, <3>2
  <2> QED
    BY <2>2, <2>3
<1>7. push = {} => shadow' = <<>>
  BY DEF Rat!Edit
<1>8. push # {} => shadow' = <<[tag |-> tail, map |-> rat]>>
  <2> SUFFICES ASSUME push = {tail}, Size < DEPTH
               PROVE  shadow' = <<[tag |-> tail, map |-> rat]>>
    OBVIOUS
  <2>1. Len(stack) < CP_DEPTH
    BY <1>1, <1>2
  <2>2. (CHOOSE t \in push : TRUE) = tail /\ Rat!Set(rat, None) = rat
    BY SetNone DEF None
  <2> QED
    BY <2>1, <2>2 DEF Rat!Edit
<1>9. /\ Len(Snaps') = Len(stack') + Len(shadow')
      /\ \A s \in 1 .. Len(stack') : Snaps'[s] = stack'[s]
      /\ \A s \in 1 .. Len(shadow') : Snaps'[Len(stack') + s] = shadow'[s]
  <2>1. stack' \in Seq(Snap) /\ shadow' \in Seq(Snap)
    BY DEF Types, Snap, Rat!Snapshot, R!Tag, Rat!Map
  <2> QED
    BY <2>1, Concat DEF Snaps
<1>10. \A s \in 1 .. Len(Snaps) - c : Snaps'[s] = Snaps[s + c]
  BY <1>6, <1>9
<1>11. push = {} => Len(Snaps') = Len(Snaps) - c
  <2>1. Len(<<>>) = 0
    OBVIOUS
  <2>2. Len(Snaps) - c \in Int
    BY <1>1
  <2> QED
    BY <1>6, <1>7, <1>9, <2>1, <2>2
<1>12. push # {} => /\ Len(Snaps') = (Len(Snaps) - c) + 1
                    /\ Snaps'[Len(Snaps')] = [tag |-> tail, map |-> rat]
  <2> SUFFICES ASSUME push # {}
               PROVE  /\ Len(Snaps') = (Len(Snaps) - c) + 1
                      /\ Snaps'[Len(Snaps')] = [tag |-> tail, map |-> rat]
    OBVIOUS
  <2> DEFINE x == [tag |-> tail, map |-> rat]
  <2>1. shadow' = <<x>>
    BY <1>8
  <2> HIDE DEF x
  <2>2. Len(shadow') = 1 /\ shadow'[1] = x /\ 1 \in 1 .. Len(shadow')
    BY <2>1
  <2>3. Len(Snaps') = Len(stack') + 1 /\ Snaps'[Len(stack') + 1] = x
    BY <1>9, <2>2
  <2> QED
    BY <1>6, <2>3 DEF x
<1> QED
  BY <1>3, <1>7, <1>8, <1>10, <1>11, <1>12 DEF Edited

-----------------------------------------------------------------------------
(* What is named after a cycle.                                            *)

(* Value and Has of the next state, for a value known in this one.         *)
Later(r, n, p) ==
  \/ p = commit'[r] /\ \A k \in 1 .. n : At(k)'.rd # r
  \/ \E k \in 1 .. n : /\ At(k)'.rd = r /\ At(k)'.prd = p
                       /\ \A j \in k + 1 .. n : At(j)'.rd # r
HasLater(x, k) ==
  TagAt(k)' = x.tag /\ \A r \in 1 .. NREG : Later(r, k - 1, x.map[r])

(* Values move with their places.                                          *)
LEMMA ValueLater ==
  ASSUME Settling, NEW n, NEW m, NEW wb, NEW ex, Stays(n, m, wb, ex),
         NEW r \in 1 .. NREG, NEW p, NEW j \in 0 .. m, Value(r, n + j, p)
  PROVE  Later(r, j, p)
<1>1. Value(r, j, p)'
  BY Settled0, ValueMoves
<1> QED
  BY <1>1 DEF Later, Value

(* One more instruction.                                                   *)
LEMMA LaterNext ==
  ASSUME NEW r, NEW n \in Nat, NEW p, At(n + 1)'.rd # r => Later(r, n, p),
         At(n + 1)'.rd = r => p = At(n + 1)'.prd
  PROVE  Later(r, n + 1, p)
<1>1. CASE At(n + 1)'.rd = r
  <2>1. n + 1 \in 1 .. n + 1 /\ \A j \in (n + 1) + 1 .. n + 1 : FALSE
    OBVIOUS
  <2> QED
    BY <1>1, <2>1 DEF Later
<1>2. CASE At(n + 1)'.rd # r
  <2>1. \A k \in 1 .. n + 1 : k \in 1 .. n \/ k = n + 1
    OBVIOUS
  <2>2. CASE p = commit'[r] /\ \A k \in 1 .. n : At(k)'.rd # r
    BY <1>2, <2>1, <2>2 DEF Later
  <2>3. ASSUME NEW k \in 1 .. n, At(k)'.rd = r, At(k)'.prd = p,
               \A j \in k + 1 .. n : At(j)'.rd # r
        PROVE  Later(r, n + 1, p)
    <3>1. \A j \in k + 1 .. n + 1 : At(j)'.rd # r
      BY <1>2, <2>3
    <3> QED
      BY <2>3, <3>1 DEF Later
  <2> QED
    BY <1>2, <2>2, <2>3 DEF Later
<1> QED
  BY <1>1, <1>2

(* A branch that has not executed is not done, so it stays.                *)
LEMMA UnresolvedStays ==
  ASSUME Settling, NEW n, NEW m, NEW wb \in WbSets, NEW ex \in ExSets,
         Stays(n, m, wb, ex), n + m = Size, NEW k \in 1 .. Size, TagAt(k) \in unresolved
  PROVE  \E j \in 1 .. m : k = n + j /\ TagAt(j)' = TagAt(k) /\ ~At(j)'.done
<1>1. n \in 0 .. 2 /\ m \in Nat /\ \A i \in 1 .. n : At(i).done
  BY DEF Stays
<1>2. PICK i \in 1 .. Size : TagAt(i) = TagAt(k) /\ ~At(i).done
  BY DEF Settling, Names, Waiting
<1>3. i = k
  BY <1>2, PlaceUnique, Settled0
<1>4. k > n
  <2> SUFFICES ASSUME k <= n PROVE FALSE
    BY <1>1
  <2>1. k \in 1 .. n
    BY <1>1
  <2> QED
    BY <1>1, <1>2, <1>3, <2>1
<1>5. PICK j \in 1 .. m : k = n + j
  <2>1. k - n \in 1 .. m /\ k = n + (k - n)
    BY <1>1, <1>4
  <2> QED
    BY <2>1
<1>6. R!Place(k) \notin wb \cup ex
  BY WrittenPlaces, Settled0
<1>7. TagAt(j)' = TagAt(k) /\ ~At(j)'.done
  BY <1>2, <1>3, <1>5, <1>6 DEF Stays
<1> QED
  BY <1>5, <1>7

(* A cycle as the snapshots see it.                                        *)
SnapTurn(n, m, push, rel, w, wb, ex) ==
  /\ Stays(n, m, wb, ex) /\ n + m = Size /\ (Size' = m \/ Size' = m + 1)
  /\ pend = {} /\ pend' = {} /\ ~scanning'
  /\ unresolved' = (unresolved \ rel) \cup push
  /\ push = {} \/ /\ push = {tail} /\ Size < DEPTH /\ Size' = m + 1
                  /\ TagAt(m + 1)' = tail /\ ~At(m + 1)'.done /\ D1Tags' = {tail}
  /\ Rat!Edit(push, None, rel, None, None, w, None)

(* Branches that have not executed wait in the window.                     *)
LEMMA WaitingNext ==
  ASSUME Settling, NEW n, NEW m, NEW push, NEW rel, NEW w,
         NEW wb \in WbSets, NEW ex \in ExSets, SnapTurn(n, m, push, rel, w, wb, ex)
  PROVE  Waiting'
<1> SUFFICES ASSUME NEW t \in unresolved'
             PROVE  \E k \in 1 .. Size' : TagAt(k)' = t /\ ~At(k)'.done
  BY DEF Waiting
<1>1. m \in Nat /\ (Size' = m \/ Size' = m + 1)
  BY DEF SnapTurn, Stays
<1>2. CASE t \in unresolved
  <2>1. PICK k \in 1 .. Size : TagAt(k) = t
    BY <1>2 DEF Settling, Names, Waiting
  <2>2. PICK j \in 1 .. m : TagAt(j)' = t /\ ~At(j)'.done
    BY <1>2, <2>1, UnresolvedStays DEF SnapTurn
  <2>3. j \in 1 .. Size'
    BY <1>1
  <2> QED
    BY <2>2, <2>3
<1>3. CASE t \in push
  <2>1. t = tail /\ Size' = m + 1 /\ TagAt(m + 1)' = tail /\ ~At(m + 1)'.done
    BY <1>3 DEF SnapTurn
  <2>2. m + 1 \in 1 .. Size'
    BY <1>1, <2>1
  <2> QED
    BY <2>1, <2>2
<1> QED
  BY <1>2, <1>3 DEF SnapTurn

(* A snapshot follows its branch.                                          *)
LEMMA SnapStays ==
  ASSUME Settling, NEW n, NEW m, NEW push, NEW rel, NEW w,
         NEW wb \in WbSets, NEW ex \in ExSets, SnapTurn(n, m, push, rel, w, wb, ex),
         NEW s \in 1 .. Len(Snaps)
  PROVE  \E j \in 1 .. m : /\ HasLater(Snaps[s], j) /\ TagAt(n + j) = Snaps[s].tag
                           /\ n + j \in 1 .. Size
<1>1. PICK k \in 1 .. Size : Has(Snaps[s], k)
  BY DEF Settling, Names, SnapExact
<1>2. TagAt(k) = Snaps[s].tag /\ Snaps[s].tag \in unresolved
  BY <1>1 DEF Has, Settling, Names, SnapTags, SnapTurn
<1>3. Stays(n, m, wb, ex) /\ n + m = Size /\ n \in Nat /\ m \in Nat
  BY DEF SnapTurn, Stays
<1>4. PICK j \in 1 .. m : k = n + j /\ TagAt(j)' = Snaps[s].tag
  <2>1. TagAt(k) \in unresolved
    BY <1>2
  <2>2. \E j \in 1 .. m : k = n + j /\ TagAt(j)' = TagAt(k)
    BY <1>3, <2>1, UnresolvedStays
  <2> QED
    BY <1>2, <2>2
<1>5. ASSUME NEW r \in 1 .. NREG PROVE Later(r, j - 1, Snaps[s].map[r])
  <2>1. Value(r, k - 1, Snaps[s].map[r])
    BY <1>1 DEF Has
  <2>2. j - 1 \in 0 .. m /\ k - 1 = n + (j - 1)
    BY <1>3, <1>4
  <2> QED
    BY <1>3, <2>1, <2>2, ValueLater
<1> QED
  BY <1>2, <1>4, <1>5 DEF HasLater

(* What a snapshot taken now will say.                                     *)
LEMMA NewSnap ==
  ASSUME Settling, NEW n, NEW m, NEW push, NEW rel, NEW w,
         NEW wb \in WbSets, NEW ex \in ExSets, SnapTurn(n, m, push, rel, w, wb, ex),
         push # {}
  PROVE  HasLater([tag |-> tail, map |-> rat], m + 1)
<1>1. /\ Stays(n, m, wb, ex) /\ n + m = Size /\ m \in Nat /\ pend = {}
      /\ TagAt(m + 1)' = tail
  BY DEF SnapTurn, Stays
<1>2. ASSUME NEW r \in 1 .. NREG PROVE Later(r, (m + 1) - 1, rat[r])
  <2>1. Value(r, n + m, rat[r])
    BY <1>1 DEF Settling, Names, MapExact
  <2>2. m \in 0 .. m /\ (m + 1) - 1 = m
    BY <1>1
  <2> QED
    BY <1>1, <2>1, <2>2, ValueLater
<1> QED
  BY <1>1, <1>2 DEF HasLater

TagUnique == \A j, k \in 1 .. Size : TagAt(j) = TagAt(k) => j = k

(* Tags of the window differ.                                              *)
LEMMA TagsUnique == R!TypeOK /\ R!Exact /\ ~scanning => TagUnique
BY PlaceUnique DEF TagUnique

LEMMA TagUniqueNext ==
  ASSUME Types', ~scanning'
  PROVE  TagUnique'
<1>2. (R!TypeOK /\ R!Exact /\ ~scanning => TagUnique)'
  BY TagsUnique, PTL
<1>3. R!TypeOK' /\ R!Exact' /\ ~scanning'
  BY DEF Types, R!IInv
<1> QED
  BY <1>2, <1>3

(* Where the snapshots of the next state come from and stand.              *)
From(c, m, push, s, j) ==
  \/ /\ s \in 1 .. Len(Snaps) - c /\ Snaps'[s] = Snaps[s + c] /\ j \in 1 .. m
  \/ /\ push # {} /\ s = (Len(Snaps) - c) + 1 /\ j = m + 1
     /\ Snaps'[s] = [tag |-> tail, map |-> rat]

(* Each snapshot of the next state follows its branch or is the new one.   *)
LEMMA SnapsFrom ==
  ASSUME Settling, Types', NEW n, NEW m, NEW push, NEW rel \in Rels, NEW w,
         NEW wb \in WbSets, NEW ex \in ExSets, SnapTurn(n, m, push, rel, w, wb, ex)
  PROVE  \E c \in {0, 1} :
           /\ Edited(c, push, rel) /\ Len(Snaps) \in Nat /\ c <= Len(Snaps)
           /\ \A s \in 1 .. Len(Snaps') :
                \E j \in 1 .. Size' : HasLater(Snaps'[s], j) /\ From(c, m, push, s, j)
<1>1. /\ pend = {} /\ (push = {} \/ (push = {tail} /\ Size < DEPTH))
      /\ Rat!Edit(push, None, rel, None, None, w, None)
      /\ m \in Nat /\ (Size' = m \/ Size' = m + 1) /\ (push # {} => Size' = m + 1)
  BY DEF SnapTurn, Stays
<1>2. PICK c \in {0, 1} : Edited(c, push, rel)
  BY <1>1, SnapsEdit
<1>3. Len(Snaps) \in Nat /\ c <= Len(Snaps)
  BY <1>2, SnapsFew DEF Edited
<1>4. ASSUME NEW s \in 1 .. Len(Snaps')
      PROVE  \E j \in 1 .. Size' : HasLater(Snaps'[s], j) /\ From(c, m, push, s, j)
  <2>1. CASE s \in 1 .. Len(Snaps) - c
    <3>1. Snaps'[s] = Snaps[s + c] /\ s + c \in 1 .. Len(Snaps)
      BY <1>2, <1>3, <2>1 DEF Edited
    <3>2. PICK j \in 1 .. m : HasLater(Snaps[s + c], j)
      BY <3>1, SnapStays
    <3>3. j \in 1 .. Size' /\ HasLater(Snaps'[s], j)
      BY <1>1, <3>1, <3>2
    <3>4. From(c, m, push, s, j)
      BY <2>1, <3>1, <3>2 DEF From
    <3> QED
      BY <3>3, <3>4
  <2>2. CASE push # {} /\ s = (Len(Snaps) - c) + 1
    <3>1. Snaps'[s] = [tag |-> tail, map |-> rat]
      BY <1>2, <2>2 DEF Edited
    <3>2. HasLater([tag |-> tail, map |-> rat], m + 1)
      BY <2>2, NewSnap
    <3>3. m + 1 \in 1 .. Size' /\ HasLater(Snaps'[s], m + 1)
      BY <1>1, <2>2, <3>1, <3>2
    <3>4. From(c, m, push, s, m + 1)
      BY <2>2, <3>1 DEF From
    <3> QED
      BY <3>3, <3>4
  <2> QED
    BY <1>2, <1>3, <2>1, <2>2 DEF Edited
<1> QED
  BY <1>2, <1>3, <1>4

(* The four parts about snapshots.                                         *)
LEMMA SnapNamesNext ==
  ASSUME Settling, Types', NEW n, NEW m, NEW push, NEW rel \in Rels, NEW w,
         NEW wb \in WbSets, NEW ex \in ExSets, SnapTurn(n, m, push, rel, w, wb, ex)
  PROVE  SnapExact' /\ SnapOrder' /\ SnapTags' /\ ShadowNew'
<1>1. PICK c \in {0, 1} :
        /\ Edited(c, push, rel) /\ Len(Snaps) \in Nat /\ c <= Len(Snaps)
        /\ \A s \in 1 .. Len(Snaps') :
             \E j \in 1 .. Size' : HasLater(Snaps'[s], j) /\ From(c, m, push, s, j)
  BY SnapsFrom
<1>2. /\ Len(Snaps) \in Nat /\ c <= Len(Snaps)
      /\ c = 0 => rel = {}
      /\ c = 1 => rel = {head} /\ Len(Snaps) >= 1 /\ Snaps[1].tag = head
      /\ \A s \in 1 .. Len(Snaps) - c : Snaps'[s] = Snaps[s + c]
      /\ push = {} => Len(Snaps') = Len(Snaps) - c /\ shadow' = <<>>
      /\ push # {} => /\ Len(Snaps') = (Len(Snaps) - c) + 1
                      /\ Snaps'[Len(Snaps')] = [tag |-> tail, map |-> rat]
                      /\ shadow' = <<[tag |-> tail, map |-> rat]>>
  BY <1>1 DEF Edited
<1>3. SnapExact'
  <2>1. \A s \in 1 .. Len(Snaps') : \E j \in 1 .. Size' : Has(Snaps[s], j)'
    <3>1. \A s \in 1 .. Len(Snaps') : \E j \in 1 .. Size' : HasLater(Snaps'[s], j)
      BY <1>1
    <3> QED
      BY <3>1 DEF Has, HasLater, Value, Later
  <2> QED
    BY <2>1 DEF SnapExact
<1>4. SnapOrder'
  <2> SUFFICES ASSUME NEW s \in 1 .. Len(Snaps'), NEW u \in 1 .. Len(Snaps'),
                      NEW j \in 1 .. Size', NEW k \in 1 .. Size',
                      s < u, TagAt(j)' = Snaps'[s].tag, TagAt(k)' = Snaps'[u].tag
               PROVE  j < k
    BY DEF SnapOrder
  <2>1. PICK h \in 1 .. Size' : HasLater(Snaps'[s], h) /\ From(c, m, push, s, h)
    BY <1>1
  <2>2. PICK i \in 1 .. Size' : HasLater(Snaps'[u], i) /\ From(c, m, push, u, i)
    BY <1>1
  <2>3. TagUnique'
    BY TagUniqueNext DEF SnapTurn
  <2>4. j = h /\ k = i
    BY <2>1, <2>2, <2>3 DEF HasLater, TagUnique
  <2>5. s \in 1 .. Len(Snaps) - c /\ h \in 1 .. m /\ Snaps'[s] = Snaps[s + c]
    BY <1>2, <2>1, <2>2 DEF From
  <2>6. CASE u \in 1 .. Len(Snaps) - c
    <3>1. Snaps'[u] = Snaps[u + c] /\ i \in 1 .. m
      BY <1>2, <2>2, <2>6 DEF From
    <3>2. s + c \in 1 .. Len(Snaps) /\ u + c \in 1 .. Len(Snaps) /\ s + c < u + c
      BY <1>2, <2>5, <2>6
    <3>3. PICK hh \in 1 .. m : /\ HasLater(Snaps[s + c], hh) /\ n + hh \in 1 .. Size
                               /\ TagAt(n + hh) = Snaps[s + c].tag
      BY <3>2, SnapStays
    <3>4. PICK ii \in 1 .. m : /\ HasLater(Snaps[u + c], ii) /\ n + ii \in 1 .. Size
                               /\ TagAt(n + ii) = Snaps[u + c].tag
      BY <3>2, SnapStays
    <3>5. n + hh < n + ii
      BY <3>2, <3>3, <3>4 DEF Settling, Names, SnapOrder
    <3>6. n \in Nat /\ m \in Nat /\ (Size' = m \/ Size' = m + 1)
      BY DEF SnapTurn, Stays
    <3>7. hh \in 1 .. Size' /\ ii \in 1 .. Size'
      BY <3>6
    <3>8. hh = h /\ ii = i
      BY <2>1, <2>2, <2>3, <2>5, <3>1, <3>3, <3>4, <3>7 DEF HasLater, TagUnique
    <3> QED
      BY <2>4, <3>5, <3>6, <3>8
  <2>7. CASE ~(u \in 1 .. Len(Snaps) - c)
    <3>1. i = m + 1
      BY <2>2, <2>7 DEF From
    <3>2. m \in Nat
      BY DEF SnapTurn, Stays
    <3> QED
      BY <2>4, <2>5, <3>1, <3>2
  <2> QED
    BY <2>6, <2>7
<1>5. SnapTags'
  <2>1. unresolved = {Snaps[s].tag : s \in 1 .. Len(Snaps)}
    BY DEF Settling, Names, SnapTags, SnapTurn
  <2>2. unresolved' = (unresolved \ rel) \cup push /\ (push = {} \/ push = {tail})
    BY DEF SnapTurn
  <2>3. ASSUME NEW s \in 1 .. Len(Snaps) - c
        PROVE  Snaps'[s].tag \in unresolved \ rel
    <3>1. Snaps'[s] = Snaps[s + c] /\ s + c \in 1 .. Len(Snaps)
      BY <1>2
    <3>2. ASSUME c = 1, Snaps[s + c].tag = head PROVE FALSE
      <4>1. 1 \in 1 .. Len(Snaps) /\ 1 < s + c
        BY <1>2, <3>2
      <4>2. PICK k \in 1 .. Size : Has(Snaps[1], k)
        BY <4>1 DEF Settling, Names, SnapExact
      <4>3. TagAt(k) = Snaps[1].tag /\ TagAt(k) = Snaps[s + c].tag
        BY <1>2, <3>2, <4>2 DEF Has
      <4>4. k < k
        BY <3>1, <4>1, <4>3 DEF Settling, Names, SnapOrder
      <4> QED
        BY <4>4
    <3> QED
      BY <1>2, <2>1, <3>1, <3>2
  <2>4. ASSUME NEW t \in unresolved \ rel
        PROVE  \E s \in 1 .. Len(Snaps) - c : Snaps'[s].tag = t
    <3>1. PICK u \in 1 .. Len(Snaps) : Snaps[u].tag = t
      BY <2>1
    <3>2. c = 1 => u # 1
      BY <1>2, <3>1
    <3>3. PICK s \in 1 .. Len(Snaps) - c : u = s + c
      <4>1. u - c \in 1 .. Len(Snaps) - c /\ u = (u - c) + c
        BY <1>2, <3>2
      <4> QED
        BY <4>1
    <3> QED
      BY <1>2, <3>1, <3>3
  <2>5. CASE push = {}
    <3>1. Len(Snaps') = Len(Snaps) - c
      BY <1>2, <2>5
    <3>2. unresolved' = {Snaps'[s].tag : s \in 1 .. Len(Snaps')}
      BY <2>2, <2>3, <2>4, <2>5, <3>1
    <3> QED
      BY <3>2 DEF SnapTags
  <2>6. CASE push = {tail}
    <3>1. /\ Len(Snaps') = (Len(Snaps) - c) + 1
          /\ Snaps'[Len(Snaps')].tag = tail
      BY <1>2, <2>6
    <3>2. /\ Len(Snaps') \in 1 .. Len(Snaps')
          /\ \A s \in 1 .. Len(Snaps) - c : s \in 1 .. Len(Snaps')
          /\ \A s \in 1 .. Len(Snaps') : s \in 1 .. Len(Snaps) - c \/ s = Len(Snaps')
      BY <1>2, <3>1
    <3>3. unresolved' = {Snaps'[s].tag : s \in 1 .. Len(Snaps')}
      BY <2>2, <2>3, <2>4, <2>6, <3>1, <3>2
    <3> QED
      BY <3>3 DEF SnapTags
  <2> QED
    BY <2>2, <2>5, <2>6
<1>6. ShadowNew'
  <2>1. CASE push = {}
    <3>1. shadow' = <<>>
      BY <1>2, <2>1
    <3> QED
      BY <3>1 DEF ShadowNew
  <2>2. CASE push # {}
    <3> DEFINE x == [tag |-> tail, map |-> rat]
    <3>1. shadow' = <<x>> /\ tail \in D1Tags' /\ x.tag = tail
      BY <1>2, <2>2 DEF SnapTurn
    <3> HIDE DEF x
    <3>2. \A s \in 1 .. Len(shadow') : shadow'[s] = x
      BY <3>1
    <3> QED
      BY <3>1, <3>2 DEF ShadowNew
  <2> QED
    BY <2>1, <2>2
<1> QED
  BY <1>3, <1>4, <1>5, <1>6

-----------------------------------------------------------------------------
(* The parts about the map and the replaced mappings, action by action.    *)

(* An entry that stays keeps what it says of the mapping it replaced.      *)
LEMMA KeptNames ==
  ASSUME Settling, NEW n, NEW m, NEW wb \in WbSets, NEW ex \in ExSets,
         Stays(n, m, wb, ex), NEW k \in 1 .. m
  PROVE  /\ Faults = "none" => ~At(k)'.exc
         /\ At(k)'.rd # 0 => Later(At(k)'.rd, k - 1, At(k)'.old)
         /\ At(k)'.rd = 0 => At(k)'.old = 0
<1>1. n \in 0 .. 2 /\ m \in Nat /\ n + m <= Size /\ Size \in Nat
  BY Settled0 DEF Stays
<1>2. /\ n + k \in 1 .. Size
      /\ At(k)'.old = At(n + k).old /\ At(k)'.rd = At(n + k).rd
      /\ At(k)'.exc <=> At(n + k).exc \/ R!Place(n + k) \in ex
  BY <1>1 DEF Stays
<1>3. Faults = "none" => ~At(k)'.exc
  <2>1. Faults = "none" => ex = {}
    BY WrittenPlaces, Settled0
  <2>2. Faults = "none" => ~At(n + k).exc
    BY <1>2 DEF Settling, Names, NoFault
  <2> QED
    BY <1>2, <2>1, <2>2
<1>4. ASSUME At(n + k).rd # 0 PROVE Later(At(k)'.rd, k - 1, At(k)'.old)
  <2>1. PICK r \in 1 .. NREG : r = At(n + k).rd
    BY <1>2, <1>4, Settled0, SizeAssumption
  <2>2. Value(r, (n + k) - 1, At(n + k).old)
    BY <1>2, <1>4, <2>1, Settled0 DEF OldExact
  <2>3. k - 1 \in 0 .. m /\ (n + k) - 1 = n + (k - 1)
    BY <1>1
  <2>4. Later(r, k - 1, At(n + k).old)
    BY <2>2, <2>3, ValueLater
  <2> QED
    BY <1>2, <2>1, <2>4
<1>5. At(n + k).rd = 0 => At(n + k).old = 0
  BY <1>2, Settled0 DEF OldExact
<1> QED
  BY <1>2, <1>3, <1>4, <1>5

(* In terms of Later.                                                      *)
LEMMA NamesLater ==
  /\ (\A r \in 1 .. NREG : Later(r, Size', rat'[r])) => MapExact'
  /\ (\A k \in 1 .. Size' : /\ At(k)'.rd # 0 => Later(At(k)'.rd, k - 1, At(k)'.old)
                            /\ At(k)'.rd = 0 => At(k)'.old = 0) => OldExact'
BY DEF MapExact, OldExact, Later, Value

(* An allocation as the owners and the snapshots see it.                   *)
LEMMA AllocateTurn ==
  ASSUME Settling, Types', NEW k \in Kinds, NEW rel \in Rels,
         NEW wb \in WbSets, NEW ex \in ExSets, Allocate(<<k>>, rel, wb, ex)
  PROVE  \E n, m \in Nat :
           /\ Turn(n, m, {Fresh}, wb, ex)
           /\ SnapTurn(n, m, Push(k), rel, <<k.rd, Fresh>>, wb, ex)
           /\ Size' = m + 1 /\ At(m + 1)' = R!NewEntry(OpOf(k))
           /\ rat' = Rat!Set(rat, <<k.rd, Fresh>>) /\ Fresh \in 1 .. NPRD
<1>1. /\ pend' = {} /\ Rob!Alloc(OpOf(k), wb, ex) /\ Common({Fresh}, {}, wb)
      /\ unresolved' = (unresolved \ rel) \cup Push(k)
      /\ commit' = Retired(FALSE)
      /\ Fresh \in free \ InUse /\ Fresh \in 1 .. NPRD /\ pend = {}
      /\ Rat!Edit(Push(k), None, rel, None, None, <<k.rd, Fresh>>, None)
      /\ d1' = <<Slot(k, tail, Fresh, OldOf(rat, k))>>
  BY Settled0, AllocateIs, RenameIs
<1>2. R!IInv /\ R!IInv' /\ Types
  BY DEF Settling, Types
<1>3. PICK n \in 0 .. 2, m \in Nat :
        /\ Stays(n, m, wb, ex) /\ n + m = Size /\ Size' = m + 1
        /\ At(m + 1)' = R!NewEntry(OpOf(k)) /\ TagAt(m + 1)' = tail
        /\ Size < DEPTH
  BY <1>1, <1>2, AllocStays
<1>4. sqMask' = {} /\ ~scanning'
  <2>1. R!Alloc(OpOf(k), wb, ex)
    BY <1>1, SameActions
  <2> QED
    BY <2>1 DEF R!Alloc, R!Retire, R!scan
<1>5. At(m + 1)'.prd = Fresh /\ ~At(m + 1)'.done
  BY <1>3 DEF R!NewEntry, OpOf
<1>6. D1Tags' = {tail}
  <2> DEFINE s == Slot(k, tail, Fresh, OldOf(rat, k))
  <2>1. d1' = <<s>> /\ s.tag = tail
    BY <1>1 DEF Slot
  <2> HIDE DEF s
  <2>2. DOMAIN d1' = {1} /\ d1'[1] = s
    BY <2>1
  <2> QED
    BY <2>1, <2>2 DEF D1Tags
<1>7. Turn(n, m, {Fresh}, wb, ex)
  <2>1. Grows(m, {Fresh})
    BY <1>1, <1>3, <1>5 DEF Grows
  <2>2. sqMask' = {At(j).prd : j \in n + m + 1 .. Size}
    <3>1. n + m + 1 .. Size = {}
      BY <1>3
    <3> QED
      BY <1>4, <3>1
  <2>3. /\ maskD1' = sqMask
        /\ free' = (free \cup ((released \cup maskD1) \ {0})) \ {Fresh}
        /\ busy' = (busy \cup {Fresh}) \ (maskD1 \cup Prds(wb))
    BY <1>1 DEF Common, Prf!Recycle, Prf!Score
  <2>4. ~(n + m < Size)
    BY <1>3 DEF Stays
  <2> QED
    BY <1>3, <2>1, <2>2, <2>3, <2>4 DEF Turn
<1>8. SnapTurn(n, m, Push(k), rel, <<k.rd, Fresh>>, wb, ex)
  BY <1>1, <1>3, <1>4, <1>5, <1>6 DEF SnapTurn, Push
<1>9. rat' = Rat!Set(rat, <<k.rd, Fresh>>)
  BY <1>1, SetNone DEF Rat!Edit, None
<1> QED
  BY <1>1, <1>3, <1>7, <1>8, <1>9

(* An allocation keeps names and owners.                                   *)
LEMMA AllocateNames ==
  ASSUME Settling, Types', NEW k \in Kinds, NEW rel \in Rels,
         NEW wb \in WbSets, NEW ex \in ExSets, Allocate(<<k>>, rel, wb, ex)
  PROVE  Names' /\ Owners'
<1>1. PICK n, m \in Nat :
        /\ Turn(n, m, {Fresh}, wb, ex)
        /\ SnapTurn(n, m, Push(k), rel, <<k.rd, Fresh>>, wb, ex)
        /\ Size' = m + 1 /\ At(m + 1)' = R!NewEntry(OpOf(k))
        /\ rat' = Rat!Set(rat, <<k.rd, Fresh>>) /\ Fresh \in 1 .. NPRD
  BY AllocateTurn
<1>2. Stays(n, m, wb, ex) /\ n + m = Size /\ pend = {} /\ pend' = {}
  BY <1>1 DEF SnapTurn
<1>3. /\ At(m + 1)'.rd = k.rd /\ At(m + 1)'.prd = Fresh /\ At(m + 1)'.old = OldOf(rat, k)
      /\ ~At(m + 1)'.exc /\ k.rd \in 0 .. NREG
  BY <1>1, KindsAssumption DEF R!NewEntry, OpOf, Kind
<1>4. \A r \in 1 .. NREG : rat'[r] = IF r = k.rd THEN Fresh ELSE rat[r]
  <2>1. Fresh \in 0 .. NPRD /\ rat \in Rat!Map
    BY <1>1, Settled0
  <2> QED
    BY <1>1, <1>3, <2>1, SetMap
<1>5. ASSUME NEW r \in 1 .. NREG PROVE Later(r, m, rat[r])
  <2>1. Value(r, n + m, rat[r])
    BY <1>2 DEF Settling, Names, MapExact
  <2>2. m \in 0 .. m
    BY <1>1
  <2> QED
    BY <1>2, <2>1, <2>2, ValueLater
<1>6. MapExact'
  <2>1. ASSUME NEW r \in 1 .. NREG PROVE Later(r, m + 1, rat'[r])
    BY <1>3, <1>4, <1>5, LaterNext
  <2> QED
    BY <1>1, <2>1, NamesLater
<1>7. \A j \in 1 .. Size' : j \in 1 .. m \/ j = m + 1
  BY <1>1
<1>8. OldExact'
  <2>1. ASSUME k.rd # 0
        PROVE  Later(At(m + 1)'.rd, (m + 1) - 1, At(m + 1)'.old)
    <3>1. k.rd \in 1 .. NREG /\ (m + 1) - 1 = m
      BY <1>3, <2>1, SizeAssumption
    <3>2. At(m + 1)'.old = rat[k.rd]
      BY <1>3, <2>1 DEF OldOf
    <3> QED
      BY <1>3, <1>5, <3>1, <3>2
  <2>2. k.rd = 0 => At(m + 1)'.old = 0
    BY <1>3 DEF OldOf
  <2>3. \A j \in 1 .. Size' : /\ At(j)'.rd # 0 => Later(At(j)'.rd, j - 1, At(j)'.old)
                              /\ At(j)'.rd = 0 => At(j)'.old = 0
    BY <1>2, <1>3, <1>7, <2>1, <2>2, KeptNames
  <2> QED
    BY <2>3, NamesLater
<1>9. NoFault'
  <2>1. Faults = "none" => \A j \in 1 .. Size' : ~At(j)'.exc
    BY <1>2, <1>3, <1>7, KeptNames
  <2> QED
    BY <2>1 DEF NoFault
<1>10. Redirecting'
  BY <1>2 DEF Redirecting
<1>11. Waiting' /\ SnapExact' /\ SnapOrder' /\ SnapTags' /\ ShadowNew'
  BY <1>1, WaitingNext, SnapNamesNext
<1>12. Owners'
  BY <1>1, OwnersNext
<1> QED
  BY <1>6, <1>8, <1>9, <1>10, <1>11, <1>12 DEF Names

(* A cycle without allocation or squash.                                   *)
LEMMA QuietTurn ==
  ASSUME Settling, Types', NEW wb \in WbSets, NEW ex \in ExSets,
         Rob!Quiet(wb, ex), Common({}, {}, wb), commit' = Retired(FALSE)
  PROVE  \E n, m \in Nat :
           /\ Turn(n, m, {}, wb, ex) /\ n + m = Size /\ Size' = m
           /\ n = 0 <=> ~R!HeadDone
           /\ ~scanning'
<1>1. R!IInv /\ R!IInv'
  BY DEF Settling, Types
<1>2. PICK n \in 0 .. 2, m \in Nat :
        /\ Stays(n, m, wb, ex) /\ n + m = Size /\ Size' = m
        /\ n = 0 <=> ~R!HeadDone
  BY <1>1, QuietStays
<1>3. sqMask' = {} /\ ~scanning'
  <2>1. R!Quiet(wb, ex)
    BY SameActions
  <2> QED
    BY <2>1 DEF R!Quiet, R!Retire, R!scan
<1>4. Turn(n, m, {}, wb, ex)
  <2>1. n + m + 1 .. Size = {} /\ ~(n + m < Size)
    BY <1>2
  <2>2. sqMask' = {At(j).prd : j \in n + m + 1 .. Size}
    BY <1>3, <2>1
  <2>3. /\ maskD1' = sqMask
        /\ free' = (free \cup ((released \cup maskD1) \ {0})) \ {}
        /\ busy' = (busy \cup {}) \ (maskD1 \cup Prds(wb))
    BY DEF Common, Prf!Recycle, Prf!Score
  <2> QED
    BY <1>2, <2>1, <2>2, <2>3 DEF Turn, Grows
<1> QED
  BY <1>2, <1>3, <1>4

(* When nothing is allocated every entry of the next window stood before.  *)
LEMMA ShrinkNames ==
  ASSUME Settling, NEW n, NEW wb \in WbSets, NEW ex \in ExSets, NEW m, Stays(n, m, wb, ex),
         Size' = m
  PROVE  OldExact' /\ NoFault'
<1>1. OldExact'
  <2>1. \A j \in 1 .. Size' : /\ At(j)'.rd # 0 => Later(At(j)'.rd, j - 1, At(j)'.old)
                              /\ At(j)'.rd = 0 => At(j)'.old = 0
    BY KeptNames
  <2> QED
    BY <2>1, NamesLater
<1>2. NoFault'
  <2>1. Faults = "none" => \A j \in 1 .. Size' : ~At(j)'.exc
    BY KeptNames
  <2> QED
    BY <2>1 DEF NoFault
<1> QED
  BY <1>1, <1>2

(* Such a cycle keeps names and owners.                                    *)
LEMMA IdleNames ==
  ASSUME Settling, Types', NEW rel \in Rels,
         NEW wb \in WbSets, NEW ex \in ExSets, Idle(rel, wb, ex)
  PROVE  Names' /\ Owners'
<1>1. /\ Rob!Quiet(wb, ex) /\ Common({}, {}, wb) /\ commit' = Retired(FALSE)
      /\ pend = {} /\ pend' = {} /\ unresolved' = (unresolved \ rel) \cup {}
      /\ Rat!Edit({}, fix, rel, <<0, 0>>, <<0, 0>>, <<0, 0>>, <<0, 0>>)
  BY DEF Idle
<1>2. PICK n, m \in Nat :
        Turn(n, m, {}, wb, ex) /\ n + m = Size /\ Size' = m /\ ~scanning'
  BY <1>1, QuietTurn
<1>3. Rat!Edit({}, None, rel, None, None, <<0, 0>>, None) /\ rat' = rat
  BY <1>1, Settled0, EditNone
<1>4. Stays(n, m, wb, ex)
  BY <1>2 DEF Turn
<1>5. SnapTurn(n, m, {}, rel, <<0, 0>>, wb, ex)
  BY <1>1, <1>2, <1>3, <1>4 DEF SnapTurn
<1>6. MapExact'
  <2>1. ASSUME NEW r \in 1 .. NREG PROVE Later(r, m, rat[r])
    <3>1. Value(r, n + m, rat[r])
      BY <1>1, <1>2 DEF Settling, Names, MapExact
    <3>2. m \in 0 .. m
      BY <1>2
    <3> QED
      BY <1>4, <3>1, <3>2, ValueLater
  <2> QED
    BY <1>2, <1>3, <2>1, NamesLater
<1>7. Waiting' /\ SnapExact' /\ SnapOrder' /\ SnapTags' /\ ShadowNew'
  BY <1>5, WaitingNext, SnapNamesNext
<1>8. Redirecting'
  BY <1>1 DEF Redirecting
<1>9. Owners' /\ OldExact' /\ NoFault'
  BY <1>2, <1>4, OwnersNext, ShrinkNames
<1> QED
  BY <1>6, <1>7, <1>8, <1>9 DEF Names

(* No snapshot left.                                                       *)
LEMMA NoSnaps ==
  ASSUME stack' = <<>>, shadow' = <<>>
  PROVE  SnapExact' /\ SnapOrder' /\ ShadowNew' /\ (unresolved' = {} => SnapTags')
<1>1. Len(<<>>) = 0 /\ <<>> \o <<>> = <<>>
  OBVIOUS
<1>2. Len(Snaps') = 0 /\ Len(shadow') = 0
  BY <1>1 DEF Snaps
<1>3. SnapExact' /\ SnapOrder' /\ ShadowNew'
  BY <1>2 DEF SnapExact, SnapOrder, ShadowNew
<1>4. unresolved' = {} => SnapTags'
  BY <1>2 DEF SnapTags
<1> QED
  BY <1>3, <1>4

(* A pop of the head's snapshot restores the lowest and empties the stack. *)
LEMMA HeadPop ==
  ASSUME Settling, pend = {}, NEW b \in Resolvable, NEW w, Rat!CpPop(b, w)
  PROVE  rat' = Rat!Set(stack[1].map, w) /\ stack' = <<>> /\ shadow' = <<>>
<1>1. /\ b = head /\ Len(stack) >= 1 /\ Snaps[1] = stack[1] /\ Has(stack[1], 1)
      /\ Len(stack) \in Nat /\ stack \in Seq(Snap) /\ Size >= 1 /\ Size \in Nat
  BY HeadSnapshot, Settled0 DEF Types
<1>2. /\ Len(Snaps) = Len(stack) + Len(shadow) /\ Len(shadow) \in Nat
      /\ \A s \in 1 .. Len(stack) : Snaps[s] = stack[s]
  BY Settled0, SnapsAt
<1>3. stack[1].tag = head /\ TagAt(1) = head
  BY <1>1, HeadSnapshot DEF Has
<1>4. Rat!Matches(b) = {1}
  <2>1. 1 \in Rat!Matches(b)
    BY <1>1, <1>3 DEF Rat!Matches
  <2>2. ASSUME NEW s \in Rat!Matches(b), s # 1 PROVE FALSE
    <3>1. s \in 1 .. Len(Snaps) /\ 1 \in 1 .. Len(Snaps) /\ 1 < s
      BY <1>1, <1>2, <2>2 DEF Rat!Matches
    <3>2. Snaps[s].tag = head /\ Snaps[1].tag = head
      BY <1>1, <1>2, <1>3, <2>2 DEF Rat!Matches
    <3>3. 1 \in 1 .. Size
      BY <1>1
    <3>4. 1 < 1
      BY <1>3, <3>1, <3>2, <3>3 DEF Settling, Names, SnapOrder
    <3> QED
      BY <3>4
  <2> QED
    BY <2>1, <2>2
<1>5. Rat!PopIndex(b) = 1
  BY <1>4 DEF Rat!PopIndex
<1>6. stack' = SubSeq(stack, 1, 1 - 1) /\ shadow' = <<>> /\ rat' = Rat!Set(stack[1].map, w)
  BY <1>5 DEF Rat!CpPop
<1>7. SubSeq(stack, 1, 1 - 1) = <<>>
  BY <1>1
<1> QED
  BY <1>6, <1>7

(* A mispredicted branch at the head: the map is its snapshot, with its    *)
(* own link register.                                                      *)
LEMMA RedirectNames ==
  ASSUME Settling, ~Mret, Types', NEW b \in Resolvable \cup Returns,
         NEW wb \in WbSets, NEW ex \in ExSets, Redirect(b, wb, ex)
  PROVE  Names' /\ Owners'
<1> DEFINE e == q[Rob!Idx(b)]
<1>1. b \in Resolvable
  BY DEF Returns
<1>2. /\ Rob!Quiet(wb, ex) /\ Common({}, {}, wb) /\ commit' = Retired(FALSE)
      /\ pend = {} /\ pend' = {b} /\ unresolved' = unresolved \ {b} /\ d1' = <<>>
      /\ b \in unresolved /\ stack # <<>> => Rat!CpPop(b, <<e.rd, e.prd>>)
  BY DEF Redirect
<1>3. /\ b = head /\ head \in unresolved /\ Size >= 1 /\ TagAt(1) = head /\ ~At(1).done
      /\ Len(stack) >= 1 /\ Has(stack[1], 1)
  BY <1>1, <1>2, HeadSnapshot
<1>4. At(1) = q[R!Idx(head)] /\ e = At(1) /\ At(1) \in R!Entry
  <2>1. ~R!Empty
    BY <1>1, SameOutputs DEF Resolvable
  <2> QED
    BY <1>3, <2>1, HeadPlace, Settled0, SameTags
<1>5. stack # <<>>
  <2>1. Len(<<>>) = 0
    OBVIOUS
  <2> QED
    BY <1>3, <2>1
<1>6. /\ rat' = Rat!Set(stack[1].map, <<At(1).rd, At(1).prd>>)
      /\ stack' = <<>> /\ shadow' = <<>>
  BY <1>1, <1>2, <1>3, <1>4, <1>5, HeadPop
<1> HIDE DEF e
<1>7. PICK n, m \in Nat :
        /\ Turn(n, m, {}, wb, ex) /\ n + m = Size /\ Size' = m
        /\ n = 0 <=> ~R!HeadDone
        /\ ~scanning'
  BY <1>2, QuietTurn
<1>8. n = 0 /\ m = Size
  BY <1>3, <1>4, <1>7, Settled0 DEF R!HeadDone
<1>9. Stays(0, m, wb, ex) /\ 1 \in 1 .. m /\ 0 \in 0 .. m
  BY <1>3, <1>7, <1>8 DEF Turn
<1>10. 1 \in 1 .. Size /\ R!Place(1) \notin wb \cup ex
  <2>1. 1 \in 1 .. Size
    BY <1>3, Settled0
  <2> QED
    BY <1>3, <2>1, WrittenPlaces, Settled0
<1>11. /\ TagAt(1)' = head /\ At(1)'.rd = At(1).rd /\ At(1)'.prd = At(1).prd
       /\ ~At(1)'.done
  <2>1. /\ TagAt(1)' = TagAt(0 + 1)
        /\ At(1)'.prd = At(0 + 1).prd /\ At(1)'.rd = At(0 + 1).rd
        /\ At(1)'.done <=> At(0 + 1).done \/ R!Place(0 + 1) \in wb \cup ex
    BY <1>9 DEF Stays
  <2>2. 0 + 1 = 1
    OBVIOUS
  <2> QED
    BY <1>3, <1>10, <2>1, <2>2
<1>12. head' = head
  <2>3. ~R!HeadDone
    BY <1>7, <1>8
  <2> QED
    BY <1>2, <2>3, SameActions DEF R!Quiet, R!Retire, R!HeadAfterPop
<1>13. \A r \in 1 .. NREG : Later(r, 1, rat'[r])
  <2> TAKE r \in 1 .. NREG
  <2>1. stack[1] \in Snap
    BY <1>3, Settled0 DEF Types
  <2>2. stack[1].map \in Rat!Map
    BY <2>1 DEF Snap, Rat!Snapshot
  <2>3. At(1).rd \in 0 .. NREG /\ At(1).prd \in 0 .. NPRD
    BY <1>4 DEF R!Entry, R!Reg, R!Prd
  <2>4. rat'[r] = IF r = At(1).rd THEN At(1).prd ELSE stack[1].map[r]
    BY <1>6, <2>2, <2>3, SetMap
  <2>5. Value(r, 0 + 0, stack[1].map[r])
    <3>1. Value(r, 1 - 1, stack[1].map[r]) /\ 1 - 1 = 0 + 0
      BY <1>3 DEF Has
    <3> QED
      BY <3>1
  <2>6. Later(r, 0, stack[1].map[r])
    BY <1>9, <2>5, ValueLater
  <2>7. Later(r, 0 + 1, rat'[r])
    <3>1. At(0 + 1)'.rd # r => rat'[r] = stack[1].map[r]
      BY <1>11, <2>4
    <3>2. At(0 + 1)'.rd = r => rat'[r] = At(0 + 1)'.prd
      BY <1>11, <2>4
    <3>3. At(0 + 1)'.rd # r => Later(r, 0, rat'[r])
      BY <2>6, <3>1
    <3> QED
      BY <3>2, <3>3, LaterNext
  <2> QED
    BY <2>7
<1>14. Redirecting'
  <2>1. /\ pend' = {head'} /\ head' \notin unresolved' /\ Size' >= 1
        /\ stack' = <<>> /\ shadow' = <<>>
    BY <1>2, <1>3, <1>6, <1>7, <1>8, <1>12
  <2>2. \A r \in 1 .. NREG : Value(r, 1, rat[r])'
    BY <1>13 DEF Later, Value
  <2> QED
    BY <1>11, <2>1, <2>2 DEF Redirecting
<1>15. Waiting'
  <2> SUFFICES ASSUME NEW t \in unresolved'
               PROVE  \E k \in 1 .. Size' : TagAt(k)' = t /\ ~At(k)'.done
    BY DEF Waiting
  <2>1. PICK k \in 1 .. Size : TagAt(k) = t /\ t \in unresolved
    BY <1>2 DEF Settling, Names, Waiting
  <2>2. \E j \in 1 .. m : k = 0 + j /\ TagAt(j)' = TagAt(k) /\ ~At(j)'.done
    BY <1>8, <1>9, <1>7, <2>1, UnresolvedStays
  <2> QED
    BY <1>7, <2>1, <2>2
<1>16. MapExact' /\ SnapTags'
  BY <1>2 DEF MapExact, SnapTags
<1>17. SnapExact' /\ SnapOrder' /\ ShadowNew'
  BY <1>6, NoSnaps
<1>18. Owners' /\ OldExact' /\ NoFault'
  BY <1>7, <1>8, <1>9, OwnersNext, ShrinkNames
<1> QED
  BY <1>14, <1>15, <1>16, <1>17, <1>18 DEF Names

(* Places behind the head are between its successor and tail.              *)
LEMMA BehindHead ==
  ASSUME R!TypeOK, R!Exact, ~scanning, NEW k \in 2 .. Size
  PROVE  R!Dist(TagAt(k), R!Inc(head)) < R!Dist(tail, R!Inc(head))
<1>1. Size \in Nat /\ Size <= DEPTH /\ head \in R!Tag /\ tail \in R!Tag
  BY Places
<1>2. TagAt(k) = R!Nth(head, k - 1)
  BY DEF TagAt
<1>3. Size = R!Dist(tail, head)
  BY DEF Size, R!Occ
<1> QED
  BY <1>1, <1>2, <1>3, SizeAssumption DEF R!Nth, R!Dist, R!Inc, R!Tag

(* The squash reaches the buffer: all behind the head go.                  *)
LEMMA SquashNames ==
  ASSUME Settling, Types', NEW p \in pend,
         NEW wb \in WbSets, NEW ex \in ExSets, SquashYounger(p, wb, ex)
  PROVE  Names' /\ Owners'
<1>1. /\ p = head /\ head \notin unresolved /\ Size >= 1 /\ ~At(1).done
      /\ stack = <<>> /\ shadow = <<>>
      /\ \A r \in 1 .. NREG : Value(r, 1, rat[r])
  BY DEF Settling, Names, Redirecting
<1>2. ~R!Empty
  <2>1. R!Dist(head, head) = 0
    BY Settled0, Places DEF R!Dist, R!Tag
  <2> QED
    BY <1>1, <2>1 DEF R!Empty, Size, R!Occ
<1>3. TagAt(1) = head /\ ~R!HeadDone
  BY <1>1, <1>2, HeadPlace, Settled0 DEF R!HeadDone
<1>4. /\ Rob!Squash(head, wb, ex)
      /\ Rat!Edit({}, fix, {}, <<0, 0>>, <<0, 0>>, <<0, 0>>, <<0, 0>>)
      /\ Common({}, {}, wb) /\ pend' = {}
      /\ unresolved' = {t \in unresolved :
                          Rob!Dist(t, Rob!Inc(head)) >= Rob!Dist(tail, Rob!Inc(head))}
      /\ commit' = Retired(Rob!SquashHeadSameCycle(head))
  BY <1>1, <1>2, SameOutputs DEF SquashYounger
<1>5. /\ Stays(0, 1, wb, ex) /\ Size' = 1
      /\ sqMask' = {At(k).prd : k \in 2 .. Size}
  <2>1. R!IInv /\ R!IInv'
    BY DEF Settling, Types
  <2> QED
    BY <1>2, <1>3, <1>4, <2>1, SquashStays
<1>6. ~scanning'
  <2>1. R!Squash(head, wb, ex)
    BY <1>4, SameActions
  <2> QED
    BY <2>1 DEF R!Squash, R!Quiet, R!Retire, R!scan
<1>7. Turn(0, 1, {}, wb, ex)
  <2>1. sqMask' = {At(k).prd : k \in 0 + 1 + 1 .. Size}
    BY <1>5
  <2>2. /\ maskD1' = sqMask
        /\ free' = (free \cup ((released \cup maskD1) \ {0})) \ {}
        /\ busy' = (busy \cup {}) \ (maskD1 \cup Prds(wb))
    BY <1>4 DEF Common, Prf!Recycle, Prf!Score
  <2> QED
    BY <1>5, <2>1, <2>2 DEF Turn, Grows
<1>8. unresolved' = {}
  <2> SUFFICES ASSUME NEW t \in unresolved' PROVE FALSE
    OBVIOUS
  <2>1. PICK k \in 1 .. Size : TagAt(k) = t /\ t \in unresolved
    BY <1>4 DEF Settling, Names, Waiting
  <2>2. k # 1
    BY <1>1, <1>3, <2>1
  <2>3. k \in 2 .. Size
    BY <2>2, Settled0
  <2>4. R!Dist(t, R!Inc(head)) < R!Dist(tail, R!Inc(head))
    BY <2>1, <2>3, BehindHead, Settled0
  <2>5. /\ R!Dist(t, R!Inc(head)) >= R!Dist(tail, R!Inc(head))
        /\ R!Dist(t, R!Inc(head)) \in Int /\ R!Dist(tail, R!Inc(head)) \in Int
    <3>1. t \in R!Tag /\ tail \in R!Tag /\ head \in R!Tag
      BY <2>1, PlaceTag, Places, Settled0
    <3> QED
      BY <1>4, <3>1, SameTags, SizeAssumption DEF R!Dist, R!Inc, R!Tag
  <2> QED
    BY <2>4, <2>5
<1>9. rat' = rat /\ stack' = <<>> /\ shadow' = <<>>
  <2>1. Rat!Edit({}, None, {}, None, None, <<0, 0>>, None) /\ rat' = rat
    BY <1>4, EditNone, Settled0
  <2>2. Rat!Released({}) = <<>>
    BY <1>1 DEF Rat!Released
  <2>3. <<>> \o <<>> = <<>>
    OBVIOUS
  <2> QED
    BY <1>1, <2>1, <2>2, <2>3 DEF Rat!Edit
<1>10. MapExact'
  <2>1. ASSUME NEW r \in 1 .. NREG PROVE Later(r, 1, rat[r])
    <3>1. Value(r, 0 + 1, rat[r]) /\ 1 \in 0 .. 1
      <4>1. 0 + 1 = 1
        OBVIOUS
      <4> QED
        BY <1>1, <4>1
    <3> QED
      BY <1>5, <3>1, ValueLater
  <2> QED
    BY <1>5, <1>9, <2>1, NamesLater
<1>11. SnapExact' /\ SnapOrder' /\ ShadowNew' /\ SnapTags'
  BY <1>8, <1>9, NoSnaps
<1>12. Waiting' /\ Redirecting'
  BY <1>4, <1>8 DEF Waiting, Redirecting
<1>13. Owners' /\ OldExact' /\ NoFault'
  BY <1>5, <1>7, OwnersNext, ShrinkNames
<1> QED
  BY <1>10, <1>11, <1>12, <1>13 DEF Names

-----------------------------------------------------------------------------
(* The invariant is inductive.                                             *)

(* Initially the window is empty and every register committed to itself.   *)
LEMMA InitInv == Init => Inv
<1> SUFFICES ASSUME Init PROVE Inv
  OBVIOUS
<1>1. /\ head = 0 /\ tail = 0 /\ ~scanning /\ ~trap /\ ~stopped
      /\ released = {} /\ sqMask = {} /\ maskD1 = {} /\ pend = {}
      /\ unresolved = {} /\ stack = <<>> /\ shadow = <<>>
      /\ rat = Rat!Identity /\ commit = Rat!Identity /\ free = Prf!Regs /\ busy = {}
  BY DEF Init, Rob!Init, Rat!RatInit, Prf!PrfInit
<1>2. Size = 0
  BY <1>1 DEF Size, R!Occ, R!Dist
<1>3. 1 .. Size = {}
  BY <1>2
<1>4. \A r \in 1 .. NREG : rat[r] = commit[r] /\ commit[r] = r
  BY <1>1, SizeAssumption DEF Rat!Identity
<1>5. Len(Snaps) = 0 /\ Len(shadow) = 0
  BY <1>1 DEF Snaps
<1>6. NoFault /\ Waiting /\ OldExact /\ Redirecting
  BY <1>1, <1>3 DEF NoFault, Waiting, OldExact, Redirecting
<1>7. MapExact
  BY <1>2, <1>3, <1>4 DEF MapExact, Value
<1>8. SnapExact /\ SnapOrder /\ SnapTags /\ ShadowNew
  BY <1>1, <1>5 DEF SnapExact, SnapOrder, SnapTags, ShadowNew
<1>9. CommitOwns
  BY <1>4 DEF CommitOwns
<1>10. DestOwns /\ Dests = {}
  BY <1>3 DEF DestOwns, Dests
<1>11. FreeApart /\ Returning
  BY <1>1, <1>10 DEF FreeApart, Returning
<1>12. Scored /\ Conserved
  BY <1>1, <1>3 DEF Scored, Conserved
<1>13. Types /\ Phase
  BY <1>1, InitTypes DEF Phase
<1> QED
  BY <1>6, <1>7, <1>8, <1>9, <1>10, <1>11, <1>12, <1>13 DEF Inv, Names, Owners

(* A cycle without fault leaves no scan and no trap behind.                *)
LEMMA CycleRuns ==
  ASSUME NEW wb, NEW ex, Cycle(wb, ex)
  PROVE  ~stopped /\ ~scanning /\ ~scanning' /\ ~trap' /\ Stopping
<1>1. ASSUME NEW ks, NEW rel, Allocate(ks, rel, wb, ex)
      PROVE  ~stopped /\ ~scanning /\ ~scanning' /\ ~trap' /\ Stopping
  BY <1>1 DEF Allocate, Running, Common, Rob!Alloc, Rob!AllocTwo, Rob!Retire, Rob!scan
<1>2. ASSUME NEW rel, Idle(rel, wb, ex)
      PROVE  ~stopped /\ ~scanning /\ ~scanning' /\ ~trap' /\ Stopping
  BY <1>2 DEF Idle, Running, Common, Rob!Quiet, Rob!Retire, Rob!scan
<1>3. ASSUME NEW b, Redirect(b, wb, ex)
      PROVE  ~stopped /\ ~scanning /\ ~scanning' /\ ~trap' /\ Stopping
  BY <1>3 DEF Redirect, Running, Common, Rob!Quiet, Rob!Retire, Rob!scan
<1>4. ASSUME NEW p, SquashYounger(p, wb, ex)
      PROVE  ~stopped /\ ~scanning /\ ~scanning' /\ ~trap' /\ Stopping
  BY <1>4 DEF SquashYounger, Running, Common, Rob!Squash, Rob!Quiet, Rob!Retire, Rob!scan
<1>5. ASSUME TakeBack(wb, ex)
      PROVE  ~stopped /\ ~scanning /\ ~scanning' /\ ~trap' /\ Stopping
  BY <1>5 DEF TakeBack, Running, Common, Rob!Retract, Rob!Retire, Rob!scan
<1> QED
  BY <1>1, <1>2, <1>3, <1>4, <1>5 DEF Cycle

(* A running core, whatever the cycle does.                                *)
LEMMA CycleInv ==
  ASSUME Board, Inv, NEW wb \in WbSets, NEW ex \in ExSets, Cycle(wb, ex)
  PROVE  Inv'
<1>1. ~stopped /\ ~scanning /\ ~scanning' /\ ~trap' /\ Stopping
  BY CycleRuns
<1>2. Alive /\ ~trap /\ Types
  BY <1>1 DEF Alive, Inv, Phase
<1>3. Settling
  BY <1>1, <1>2 DEF Inv, Settling
<1>4. Types'
  <2>1. Next
    BY DEF Next
  <2> QED
    BY <1>2, <2>1, NextTypes DEF Board
<1>5. ~stopped'
  BY <1>1, <1>2 DEF Stopping
<1>6. Phase'
  BY <1>1, <1>5 DEF Phase
<1>7. ~DualAlloc /\ ~Mret
  BY DEF Board
<1>8. ASSUME NEW ks \in Bundles, NEW rel \in Rels, Allocate(ks, rel, wb, ex)
      PROVE  Names' /\ Owners'
  <2>1. PICK k \in Kinds : ks = <<k>>
    BY <1>7, Single
  <2> QED
    BY <1>3, <1>4, <1>8, <2>1, AllocateNames
<1>9. ~TakeBack(wb, ex)
  <2>1. Len(d1) # 2
    BY <1>2 DEF Types
  <2>2. TakeBack(wb, ex) => RetractSlot1
    BY DEF TakeBack
  <2> QED
    BY <2>1, <2>2 DEF RetractSlot1
<1>10. Names' /\ Owners'
  BY <1>3, <1>4, <1>7, <1>8, <1>9, IdleNames, RedirectNames, SquashNames DEF Cycle
<1> QED
  BY <1>4, <1>6, <1>10 DEF Inv

(* An exception reaches the head only where instructions fault; the bridge *)
(* then stops the core before its scan is over.                            *)
LEMMA FaultInv ==
  ASSUME Board, Inv, NEW ks \in Bundles \cup {<<>>}, Fault(ks)
  PROVE  Inv'
<1>1. /\ ~stopped /\ ~scanning /\ R!FlushNow /\ trap' = TRUE /\ scanning' = TRUE /\ Stopping
  BY SameOutputs DEF Fault, Running, Rob!ExceptionFlush, Common
<1>2. Alive /\ ~trap /\ Types /\ NoFault
  BY <1>1 DEF Alive, Inv, Phase, Names
<1>3. Types'
  <2>1. Next
    BY DEF Next
  <2> QED
    BY <1>2, <2>1, NextTypes DEF Board
<1>4. Faults # "none"
  <2>1. ~R!Empty /\ q[R!Idx(head)].exc
    BY <1>1 DEF R!FlushNow, R!HeadDone
  <2>2. R!TypeOK /\ R!Exact
    BY <1>2 DEF Types, R!IInv
  <2>3. At(1).exc /\ 1 \in 1 .. Size
    <3>1. Size \in Nat
      BY <1>1, <2>2, Places
    <3> QED
      BY <1>1, <2>1, <2>2, <3>1, HeadPlace
  <2> QED
    BY <1>2, <2>3 DEF NoFault
<1>5. stopped' = FALSE
  BY <1>1, <1>2 DEF Stopping, Types
<1> QED
  BY <1>1, <1>3, <1>4, <1>5 DEF Inv, Phase, Alive

(* The release scan starts only where the bridge then stops the core.      *)
LEMMA ScanInv ==
  ASSUME Board, Inv, Scan
  PROVE  Inv'
<1>1. ~stopped /\ scanning /\ trap' = FALSE /\ Stopping
  BY DEF Scan, Running, Rob!ReleaseScan, Common
<1>2. trap /\ Types /\ Faults # "none"
  BY <1>1 DEF Inv, Phase
<1>3. Types'
  <2>1. Next
    BY DEF Next
  <2> QED
    BY <1>2, <2>1, NextTypes DEF Board
<1>4. stopped'
  BY <1>1, <1>2, FaultsAssumption DEF Stopping, Board
<1> QED
  BY <1>1, <1>2, <1>3, <1>4 DEF Inv, Phase, Alive

(* Nothing changes.                                                        *)
LEMMA StutterInv ==
  ASSUME Board, Inv, UNCHANGED vars
  PROVE  Inv'
<1>1. UNCHANGED <<q, head, tail, scanning, released, sqMask, trap, rat, stack, shadow, free,
                  busy, maskD1, pend, d1, unresolved, stopped, commit>>
  BY DEF vars, robVars, ratVars, coreVars
<1>2. Types'
  BY NextTypes DEF Inv, Board
<1>3. /\ Size' = Size /\ \A k : At(k)' = At(k) /\ TagAt(k)' = TagAt(k)
  BY <1>1 DEF Size, At, TagAt, R!Occ, R!Dist, R!Place, R!Nth, R!Idx
<1>4. \A r, n, p : Value(r, n, p)' <=> Value(r, n, p)
  BY <1>1, <1>3 DEF Value
<1>5. Snaps' = Snaps /\ D1Tags' = D1Tags
  BY <1>1 DEF Snaps, D1Tags
<1>6. Phase' <=> Phase
  BY <1>1 DEF Phase
<1>7. Alive' <=> Alive
  BY <1>1 DEF Alive
<1>8. ASSUME Names PROVE Names'
  <2>1. NoFault' /\ Waiting' /\ MapExact' /\ OldExact'
    BY <1>1, <1>3, <1>4, <1>8 DEF Names, NoFault, Waiting, MapExact, OldExact
  <2>2. \A x, k : Has(x, k)' <=> Has(x, k)
    BY <1>3, <1>4 DEF Has
  <2>3. SnapExact' /\ SnapOrder' /\ SnapTags' /\ ShadowNew'
    BY <1>1, <1>3, <1>5, <1>8, <2>2 DEF Names, SnapExact, SnapOrder, SnapTags, ShadowNew
  <2>4. Redirecting'
    BY <1>1, <1>3, <1>4, <1>8 DEF Names, Redirecting
  <2> QED
    BY <2>1, <2>3, <2>4 DEF Names
<1>9. ASSUME Owners PROVE Owners'
  <2>1. Dests' = Dests
    BY <1>3 DEF Dests
  <2>2. CommitOwns' /\ DestOwns'
    BY <1>1, <1>3, <1>9 DEF Owners, CommitOwns, DestOwns
  <2>3. FreeApart' /\ Returning'
    BY <1>1, <1>9, <2>1 DEF Owners, FreeApart, Returning
  <2>4. Scored' /\ Conserved'
    BY <1>1, <1>3, <1>9 DEF Owners, Scored, Conserved
  <2> QED
    BY <2>2, <2>3, <2>4 DEF Owners
<1> QED
  BY <1>2, <1>6, <1>7, <1>8, <1>9 DEF Inv

(* Every step.                                                             *)
LEMMA NextInv == Board => (Inv /\ [Next]_vars => Inv')
<1> SUFFICES ASSUME Board, Inv, [Next]_vars PROVE Inv'
  OBVIOUS
<1>1. ASSUME Reset PROVE Inv'
  <2>1. (Init => Inv)'
    BY InitInv, PTL
  <2> QED
    BY <1>1, <2>1, ResetInit
<1> QED
  BY <1>1, CycleInv, FaultInv, ScanInv, StutterInv DEF Next

-----------------------------------------------------------------------------
(* What the invariant says.                                                *)

(* The premise of the properties.                                          *)
LEMMA SettledInv ==
  ASSUME Inv, Settled
  PROVE  Settling /\ pend = {}
BY DEF Inv, Settled, Settling, Alive

(* The value behind the window is the youngest writer's destination, or the*)
(* committed one.                                                          *)
LEMMA PreciseNow ==
  ASSUME Inv, Settled, NEW r \in 1 .. NREG
  PROVE  rat[r] = Implied(r)
<1>1. /\ R!TypeOK /\ R!Exact /\ ~scanning /\ Size \in Nat
      /\ \A k \in 1 .. Size : At(k) \in R!Entry
  BY SettledInv, Settled0
<1>2. Value(r, Size, rat[r])
  BY SettledInv DEF Settling, Names, MapExact
<1>3. ASSUME NEW t \in Writers(r)
      PROVE  \E k \in 1 .. Size : /\ t = TagAt(k) /\ At(k) = q[Rob!Idx(t)] /\ At(k).rd = r
                                  /\ Rob!Dist(t, head) = k - 1
  <2>1. t \in R!Tag /\ Rob!InWindow(t) /\ q[R!Idx(t)].rd = r
    BY SameSets, SameTags DEF Writers
  <2>2. PICK k \in 1 .. Size : t = TagAt(k) /\ R!Idx(t) = R!Place(k)
    BY <1>1, <2>1, TagPlace
  <2> QED
    BY <1>1, <2>1, <2>2, PlaceTag, SameTags DEF At
<1>4. ASSUME NEW k \in 1 .. Size, At(k).rd = r
      PROVE  TagAt(k) \in Writers(r) /\ Rob!Dist(TagAt(k), head) = k - 1
  BY <1>1, <1>4, PlaceTag, SameSets, SameTags DEF Writers, At
<1>5. CASE \A k \in 1 .. Size : At(k).rd # r
  <2>1. Writers(r) = {}
    BY <1>3, <1>5
  <2> QED
    BY <1>2, <1>5, <2>1 DEF Implied, Value
<1>6. ASSUME NEW i \in 1 .. Size, At(i).rd = r PROVE rat[r] = Implied(r)
  <2>1. PICK k \in 1 .. Size : /\ At(k).rd = r /\ At(k).prd = rat[r]
                               /\ \A j \in k + 1 .. Size : At(j).rd # r
    BY <1>2, <1>6 DEF Value
  <2> DEFINE Last(t) == \A u \in Writers(r) : Rob!Dist(u, head) <= Rob!Dist(t, head)
  <2>2. TagAt(k) \in Writers(r) /\ Rob!Dist(TagAt(k), head) = k - 1
    BY <1>4, <2>1
  <2>3. Last(TagAt(k))
    <3> SUFFICES ASSUME NEW u \in Writers(r) PROVE Rob!Dist(u, head) <= k - 1
      BY <2>2
    <3>1. PICK j \in 1 .. Size : At(j).rd = r /\ Rob!Dist(u, head) = j - 1
      BY <1>3
    <3>2. j <= k
      BY <1>1, <2>1, <3>1
    <3> QED
      BY <3>1, <3>2
  <2>4. ASSUME NEW t \in Writers(r), Last(t) PROVE t = TagAt(k)
    <3>1. PICK j \in 1 .. Size : t = TagAt(j) /\ At(j).rd = r /\ Rob!Dist(t, head) = j - 1
      BY <1>3
    <3>2. k - 1 <= j - 1
      BY <2>2, <2>4, <3>1
    <3>3. j = k
      BY <1>1, <2>1, <3>1, <3>2
    <3> QED
      BY <3>1, <3>3
  <2>5. (CHOOSE t \in Writers(r) : Last(t)) = TagAt(k)
    <3> HIDE DEF Last
    <3> QED
      BY <2>2, <2>3, <2>4
  <2>6. q[Rob!Idx(TagAt(k))] = At(k)
    BY <1>1, PlaceTag, SameTags DEF At
  <2> QED
    BY <2>1, <2>2, <2>5, <2>6 DEF Implied
<1> QED
  BY <1>5, <1>6

(* After any mix of speculation, mispredicts and retirements the next      *)
(* instruction renamed reads the mapping its program order gives it, with  *)
(* buffers and register files of any size (cpu_core.sv:1305).              *)
THEOREM RenamePrecise ==
  ASSUME Board
  PROVE  Spec => []RatPrecise
<1>1. Init => Inv
  BY InitInv
<1>2. Inv /\ [Next]_vars => Inv'
  BY NextInv
<1>3. Inv => RatPrecise
  BY PreciseNow DEF RatPrecise
<1> QED
  BY <1>1, <1>2, <1>3, PTL DEF Spec

(* Committed values and snapshots are values at some place, hence held.    *)
LEMMA ReuseNow ==
  ASSUME Board, Inv
  PROVE  NoLiveReuse
<1> SUFFICES ASSUME ~Halted PROVE NoLiveReuse
  BY DEF NoLiveReuse
<1>1. Alive
  BY FaultsAssumption DEF Inv, Phase, Alive, Halted, Board
<1>2. Settling /\ Types /\ Names
  BY <1>1 DEF Inv, Alive, Settling
<1>3. ASSUME NEW r \in 1 .. NREG
      PROVE  /\ commit[r] \in InUse
             /\ \A j \in 0 .. Size : \A p : Value(r, j, p) => p \in InUse
  <2>1. \E n \in Nat : n <= Size /\ Value(r, n, rat[r])
    BY <1>2, Settled0 DEF Names, MapExact, Redirecting
  <2> QED
    BY <1>2, <2>1, Held, Settled0
<1>4. ASSUME NEW s \in 1 .. Len(Snaps), NEW r \in 1 .. NREG
      PROVE  Snaps[s].map[r] \in InUse
  <2>1. PICK k \in 1 .. Size : Has(Snaps[s], k)
    BY <1>2 DEF Names, SnapExact
  <2>2. k - 1 \in 0 .. Size /\ Value(r, k - 1, Snaps[s].map[r])
    BY <1>2, <2>1, Settled0 DEF Has
  <2> QED
    BY <1>3, <2>2
<1>5. /\ Len(Snaps) = Len(stack) + Len(shadow)
      /\ Len(stack) \in Nat /\ Len(shadow) \in Nat
      /\ \A s \in 1 .. Len(stack) : Snaps[s] = stack[s]
      /\ \A s \in 1 .. Len(shadow) : Snaps[Len(stack) + s] = shadow[s]
      /\ DOMAIN stack = 1 .. Len(stack) /\ DOMAIN shadow = 1 .. Len(shadow)
  BY <1>2, SnapsAt DEF Types
<1>6. \A s \in DOMAIN stack : \A r \in 1 .. NREG : stack[s].map[r] \in InUse
  BY <1>4, <1>5
<1>7. \A s \in DOMAIN shadow : \A r \in 1 .. NREG : shadow[s].map[r] \in InUse
  <2> TAKE s \in DOMAIN shadow
  <2>1. Len(stack) + s \in 1 .. Len(Snaps) /\ Snaps[Len(stack) + s] = shadow[s]
    BY <1>5
  <2> QED
    BY <1>4, <2>1
<1> QED
  BY <1>3, <1>6, <1>7 DEF NoLiveReuse, Allocatable

(* A register that can be allocated holds no committed value and is in no  *)
(* snapshot that a branch in flight may restore: what rename takes from    *)
(* the free list, less rob_prd_inuse_mask and mapped_prd_mask, is nobody's *)
(* (cpu_core.sv:1337, cpu_prf.sv:76).                                      *)
THEOREM ReuseSafe ==
  ASSUME Board
  PROVE  Spec => []NoLiveReuse
<1>1. Init => Inv
  BY InitInv
<1>2. Inv /\ [Next]_vars => Inv'
  BY NextInv
<1>3. Inv => NoLiveReuse
  BY ReuseNow
<1> QED
  BY <1>1, <1>2, <1>3, PTL DEF Spec

(* No register is lost: one that is not free is in the reorder buffer,     *)
(* holds a committed value, or is on its way back through a release port   *)
(* or the squash mask (cpu_prf.sv:99-111).                                 *)
THEOREM RegistersConserved ==
  ASSUME Board
  PROVE  Spec => []NoRegisterLost
<1>1. Init => Inv
  BY InitInv
<1>2. Inv /\ [Next]_vars => Inv'
  BY NextInv
<1>3. ASSUME Inv, Settled PROVE Prf!Regs \ free \subseteq Owned
  <2>1. Conserved /\ R!TypeOK /\ R!Exact /\ ~scanning
    BY <1>3, SettledInv, Settled0
  <2>2. Rob!InUse = Dests \cup (Olds \ {0})
    BY <2>1, InUsePlaces
  <2> QED
    BY <2>1, <2>2 DEF Conserved, Owned, Dests
<1>4. Inv => NoRegisterLost
  BY <1>3 DEF NoRegisterLost
<1> QED
  BY <1>1, <1>2, <1>4, PTL DEF Spec

(* A register is busy exactly while an instruction that will write it is   *)
(* in flight, or its squash is still on the way ("tracks in-flight         *)
(* physical register writes", cpu_core.sv:1993): a reader never takes a    *)
(* value too early and never waits for a write that will not come.         *)
THEOREM ScoreboardExact ==
  ASSUME Board
  PROVE  Spec => []BusyExact
<1>1. Init => Inv
  BY InitInv
<1>2. Inv /\ [Next]_vars => Inv'
  BY NextInv
<1>3. ASSUME Inv, Settled
      PROVE  Unwritten \subseteq busy /\ busy \subseteq Rob!InUse \cup sqMask \cup maskD1
  <2>1. Scored /\ R!TypeOK /\ R!Exact /\ ~scanning
    BY <1>3, SettledInv, Settled0
  <2>2. Rob!InUse = Dests \cup (Olds \ {0})
    BY <2>1, InUsePlaces
  <2>3. ASSUME NEW i \in R!Index, R!Valid(i), ~q[i].done PROVE q[i].prd \in busy
    <3>1. PICK k \in 1 .. Size : i = R!Place(k)
      BY <2>1, <2>3, SlotPlace
    <3> QED
      BY <2>1, <2>3, <3>1 DEF Scored, At
  <2>4. Unwritten \subseteq busy
    BY <2>3 DEF Unwritten, Rob!Pending, Rob!Valid, R!Valid, Rob!Index, R!Index
  <2> QED
    BY <2>1, <2>2, <2>4 DEF Scored, Dests
<1>4. Inv => BusyExact
  BY <1>3 DEF BusyExact
<1> QED
  BY <1>1, <1>2, <1>4, PTL DEF Spec

(* A branch that may still resolve finds its own snapshot, on the stack or *)
(* in the shadow: a pop never falls back to another one's                  *)
(* (cpu_rat.sv:93-115).                                                    *)
THEOREM SnapshotsKept ==
  ASSUME Board
  PROVE  Spec => []SnapshotKept
<1>1. Init => Inv
  BY InitInv
<1>2. Inv /\ [Next]_vars => Inv'
  BY NextInv
<1>3. ASSUME Inv, Settled, NEW t \in unresolved
      PROVE  \E s \in DOMAIN (stack \o shadow) : (stack \o shadow)[s].tag = t
  <2>1. SnapTags /\ pend = {} /\ Snaps \in Seq(Snap)
    BY <1>3, SettledInv, SnapsAt, Settled0 DEF Settling, Names
  <2>2. PICK s \in 1 .. Len(Snaps) : Snaps[s].tag = t
    BY <1>3, <2>1 DEF SnapTags
  <2>3. s \in DOMAIN Snaps
    BY <2>1, <2>2
  <2> QED
    BY <2>2, <2>3 DEF Snaps
<1>4. Inv => SnapshotKept
  BY <1>3 DEF SnapshotKept
<1> QED
  BY <1>1, <1>2, <1>4, PTL DEF Spec
=============================================================================
