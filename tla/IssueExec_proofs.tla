-------------------------- MODULE IssueExec_proofs --------------------------
(***************************************************************************)
(* The invariants the run of IssueExec checks, for every ROB_DEPTH,        *)
(* IQ_DEPTH and LSQ_DEPTH and any set of programs.                         *)
(*                                                                         *)
(* Types, the sizes of the stations and of the queue, and the sufficiency  *)
(* of the capacity hint hold for every program: Basic is inductive by      *)
(* itself.                                                                 *)
(*                                                                         *)
(* The others rest on Inv, about one instruction at a time: it is in one   *)
(* place at most (Apart) and pending while it is in one; past the stations *)
(* memory, control and fences are the head (Stages); a redirect finds its  *)
(* branch alone at the head, so that the squash a cycle later takes exactly*)
(* the rest of the window (Redirects); and a station's bit tells whether   *)
(* the instruction it reads is pending (Woke).  Inv is inductive when no   *)
(* program has both a memory access and a multiplication (Unmixed): with   *)
(* both, an access held in EX/MEM is enqueued again.                       *)
(*                                                                         *)
(* Kept, the converse of Apart, that a pending instruction is in some      *)
(* place, also needs the execute stage empty while a fence drains (Quiet), *)
(* which programs without an ALU operation or a multiplication beside      *)
(* their fences give (Ordered).                                            *)
(***************************************************************************)
EXTENDS IssueExec, FiniteSetTheorems, FunctionTheorems, TLAPS

-----------------------------------------------------------------------------
(* Tags: a ring of 2 * DEPTH.                                              *)

(* Remainders of what is within one turn of the ring.                      *)
LEMMA ModLow ==
  ASSUME NEW m \in Nat, m > 0, NEW a \in Nat, a < m
  PROVE  a % m = a
BY Z3

LEMMA ModHigh ==
  ASSUME NEW m \in Nat, m > 0, NEW a \in Nat, a >= m, a < m + m
  PROVE  a % m = a - m
BY Z3

LEMMA ModNegative ==
  ASSUME NEW m \in Nat, m > 0, NEW a \in Int, a < 0, a >= -m
  PROVE  a % m = a + m
BY Z3

(* Arithmetic on tags, without remainders.                                 *)
LEMMA PlusIs ==
  ASSUME NEW t \in Tag, NEW n \in 0 .. 2 * DEPTH - 1
  PROVE  Plus(t, n) = IF t + n < 2 * DEPTH THEN t + n ELSE t + n - 2 * DEPTH
<1>1. PICK m \in Nat : m = 2 * DEPTH /\ m > 0
  BY DepthsAssumption
<1>2. t + n \in Nat /\ t + n < m + m
  BY <1>1 DEF Tag
<1>3. CASE t + n < m
  BY <1>1, <1>2, <1>3, ModLow DEF Plus
<1>4. CASE ~(t + n < m)
  <2>1. PICK a \in Nat : a = t + n /\ a >= m /\ a < m + m
    BY <1>1, <1>2, <1>4 DEF Tag
  <2>2. a % m = a - m
    BY <1>1, <2>1, ModHigh
  <2> QED
    BY <1>1, <1>4, <2>1, <2>2 DEF Plus, Tag
<1> QED
  BY <1>3, <1>4

LEMMA DistIs ==
  ASSUME NEW a \in Tag, NEW b \in Tag
  PROVE  Dist(a, b) = IF a >= b THEN a - b ELSE a - b + 2 * DEPTH
<1>1. PICK m \in Nat : m = 2 * DEPTH /\ m > 0
  BY DepthsAssumption
<1>2. CASE a >= b
  <2>1. a - b \in Nat /\ a - b < m
    BY <1>1, <1>2 DEF Tag
  <2> QED
    BY <1>1, <1>2, <2>1, ModLow DEF Dist
<1>3. CASE ~(a >= b)
  <2>1. a - b \in Int /\ a - b < 0 /\ a - b >= -m
    BY <1>1, <1>3 DEF Tag
  <2> QED
    BY <1>1, <1>3, <2>1, ModNegative DEF Dist
<1> QED
  BY <1>2, <1>3

(* Its successor and its predecessor.                                      *)
Succ(t) == Plus(t, 1)
Pred(t) == Plus(t, 2 * DEPTH - 1)

LEMMA Ring ==
  /\ \A t \in Tag : Plus(t, 0) = t
  /\ \A t \in Tag : Succ(t) = IF t + 1 < 2 * DEPTH THEN t + 1 ELSE 0
  /\ \A t \in Tag : Plus(t, 2) = IF t + 2 < 2 * DEPTH THEN t + 2 ELSE t + 2 - 2 * DEPTH
  /\ \A t \in Tag : Pred(t) = IF t = 0 THEN 2 * DEPTH - 1 ELSE t - 1
  /\ \A a, b \in Tag : Dist(a, b) = IF a >= b THEN a - b ELSE a - b + 2 * DEPTH
<1>1. /\ 0 \in 0 .. 2 * DEPTH - 1 /\ 1 \in 0 .. 2 * DEPTH - 1 /\ 2 \in 0 .. 2 * DEPTH - 1
      /\ 2 * DEPTH - 1 \in 0 .. 2 * DEPTH - 1
  BY DepthsAssumption
<1>2. \A t \in Tag : Plus(t, 0) = t
  BY <1>1, PlusIs, DepthsAssumption DEF Tag
<1>3. \A t \in Tag : Succ(t) = IF t + 1 < 2 * DEPTH THEN t + 1 ELSE 0
  <2> TAKE t \in Tag
  <2>1. Plus(t, 1) = IF t + 1 < 2 * DEPTH THEN t + 1 ELSE t + 1 - 2 * DEPTH
    BY <1>1, PlusIs
  <2> QED
    BY <2>1, DepthsAssumption DEF Tag, Succ
<1>4. \A t \in Tag : Plus(t, 2) = IF t + 2 < 2 * DEPTH THEN t + 2 ELSE t + 2 - 2 * DEPTH
  BY <1>1, PlusIs
<1>5. \A t \in Tag : Pred(t) = IF t = 0 THEN 2 * DEPTH - 1 ELSE t - 1
  <2> TAKE t \in Tag
  <2>1. Plus(t, 2 * DEPTH - 1) = IF t + (2 * DEPTH - 1) < 2 * DEPTH THEN t + (2 * DEPTH - 1)
                                 ELSE t + (2 * DEPTH - 1) - 2 * DEPTH
    BY <1>1, PlusIs
  <2> QED
    BY <2>1, DepthsAssumption DEF Tag, Pred
<1> QED
  BY <1>2, <1>3, <1>4, <1>5, DistIs

(* How far one tag is behind another.                                      *)
LEMMA Distances ==
  /\ \A a, b \in Tag : Dist(a, b) \in 0 .. 2 * DEPTH - 1 /\ (Dist(a, b) = 0 <=> a = b)
  /\ \A a \in Tag : /\ Succ(a) \in Tag /\ Pred(a) \in Tag
                    /\ Pred(Succ(a)) = a /\ Succ(Pred(a)) = a /\ Plus(a, 2) = Succ(Succ(a))
                    /\ Plus(a, 0) = a
  /\ \A a, b, c \in Tag : Dist(a, c) = Dist(b, c) <=> a = b
  /\ \A a, b \in Tag : Dist(a, Succ(b)) = IF a = b THEN 2 * DEPTH - 1 ELSE Dist(a, b) - 1
  /\ \A a, b \in Tag : Dist(Succ(a), b) = IF Succ(a) = b THEN 0 ELSE Dist(a, b) + 1
<1>1. PICK m \in Nat : m = 2 * DEPTH /\ m > 2
  BY DepthsAssumption
<1>2. Tag = 0 .. m - 1
  BY <1>1 DEF Tag
<1>3. \A a, b \in Tag : Dist(a, b) = IF a >= b THEN a - b ELSE a - b + m
  BY <1>1, Ring
<1>4. \A t \in Tag : /\ Succ(t) = IF t + 1 < m THEN t + 1 ELSE 0
                     /\ Pred(t) = IF t = 0 THEN m - 1 ELSE t - 1
                     /\ Plus(t, 2) = IF t + 2 < m THEN t + 2 ELSE t + 2 - m
  BY <1>1, Ring
<1>5. \A a, b \in Tag : Dist(a, b) \in 0 .. m - 1 /\ (Dist(a, b) = 0 <=> a = b)
  <2> TAKE a \in Tag, b \in Tag
  <2>1. Dist(a, b) = IF a >= b THEN a - b ELSE a - b + m
    BY <1>3
  <2>2. a \in 0 .. m - 1 /\ b \in 0 .. m - 1
    BY <1>2
  <2> QED
    BY <1>1, <2>1, <2>2
<1>6. \A a \in Tag : Succ(a) \in Tag /\ Pred(a) \in Tag
  <2> TAKE a \in Tag
  <2>1. /\ Succ(a) = IF a + 1 < m THEN a + 1 ELSE 0
        /\ Pred(a) = IF a = 0 THEN m - 1 ELSE a - 1
    BY <1>4
  <2>2. a \in 0 .. m - 1
    BY <1>2
  <2> QED
    BY <1>1, <1>2, <2>1, <2>2
<1>7. \A a \in Tag : Pred(Succ(a)) = a /\ Succ(Pred(a)) = a /\ Plus(a, 2) = Succ(Succ(a))
  <2> TAKE a \in Tag
  <2>1. a \in 0 .. m - 1 /\ Succ(a) \in 0 .. m - 1 /\ Pred(a) \in 0 .. m - 1
    BY <1>2, <1>6
  <2>2. Succ(a) = IF a + 1 < m THEN a + 1 ELSE 0
    BY <1>4
  <2>3. Pred(a) = IF a = 0 THEN m - 1 ELSE a - 1
    BY <1>4
  <2>4. Succ(Succ(a)) = IF Succ(a) + 1 < m THEN Succ(a) + 1 ELSE 0
    BY <1>4, <1>6
  <2>5. Pred(Succ(a)) = IF Succ(a) = 0 THEN m - 1 ELSE Succ(a) - 1
    BY <1>4, <1>6
  <2>6. Succ(Pred(a)) = IF Pred(a) + 1 < m THEN Pred(a) + 1 ELSE 0
    BY <1>4, <1>6
  <2>7. Plus(a, 2) = IF a + 2 < m THEN a + 2 ELSE a + 2 - m
    BY <1>4
  <2> QED
    BY <1>1, <2>1, <2>2, <2>3, <2>4, <2>5, <2>6, <2>7
<1>8. \A a, b, c \in Tag : Dist(a, c) = Dist(b, c) <=> a = b
  <2> TAKE a \in Tag, b \in Tag, c \in Tag
  <2>1. /\ Dist(a, c) = IF a >= c THEN a - c ELSE a - c + m
        /\ Dist(b, c) = IF b >= c THEN b - c ELSE b - c + m
    BY <1>3
  <2>2. a \in 0 .. m - 1 /\ b \in 0 .. m - 1 /\ c \in 0 .. m - 1
    BY <1>2
  <2> QED
    BY <1>1, <2>1, <2>2
<1>9. ASSUME NEW a \in Tag, NEW b \in Tag
      PROVE  /\ Dist(a, Succ(b)) = IF a = b THEN m - 1 ELSE Dist(a, b) - 1
             /\ Dist(Succ(a), b) = IF Succ(a) = b THEN 0 ELSE Dist(a, b) + 1
  <2>1. a \in 0 .. m - 1 /\ b \in 0 .. m - 1
    BY <1>2
  <2>2. Succ(a) = IF a + 1 < m THEN a + 1 ELSE 0
    BY <1>4
  <2>3. Succ(b) = IF b + 1 < m THEN b + 1 ELSE 0
    BY <1>4
  <2>4. Dist(a, b) = IF a >= b THEN a - b ELSE a - b + m
    BY <1>3
  <2>5. Dist(a, Succ(b)) = IF a >= Succ(b) THEN a - Succ(b) ELSE a - Succ(b) + m
    BY <1>3, <1>6
  <2>6. Dist(Succ(a), b) = IF Succ(a) >= b THEN Succ(a) - b ELSE Succ(a) - b + m
    BY <1>3, <1>6
  <2> QED
    BY <1>1, <2>1, <2>2, <2>3, <2>4, <2>5, <2>6
<1> QED
  BY <1>1, <1>5, <1>6, <1>7, <1>8, <1>9, Ring

(* Tags at the same distance are one tag.                                  *)
LEMMA SameDistance ==
  ASSUME NEW a \in Tag, NEW b \in Tag, NEW c \in Tag
  PROVE  Dist(a, c) = Dist(b, c) <=> a = b
BY Distances

-----------------------------------------------------------------------------
(* Where an instruction is, and the inductive invariant.                   *)
InD(t) == \E d \in d1 : d.tag = t
InI(t) == \E e \in iq : e.tag = t
InX(t) == t \in ex
InM(t) == t \in exmem
InL(t) == \E n \in DOMAIN lsq : lsq[n] = t
InW(t) == t \in memwb
InF(t) == t \in fencePend
Somewhere(t) == InD(t) \/ InI(t) \/ InX(t) \/ InM(t) \/ InL(t) \/ InW(t) \/ InF(t)
Apart(t) ==
  /\ InD(t) => ~(InI(t) \/ InX(t) \/ InM(t) \/ InL(t) \/ InW(t) \/ InF(t))
  /\ InI(t) => ~(InX(t) \/ InM(t) \/ InL(t) \/ InW(t) \/ InF(t))
  /\ InX(t) => ~(InM(t) \/ InL(t) \/ InW(t) \/ InF(t))
  /\ InM(t) => ~(InL(t) \/ InW(t) \/ InF(t))
  /\ InL(t) => ~(InW(t) \/ InF(t))
  /\ InW(t) => ~InF(t)

(* At most one tag.                                                        *)
Small(S) == S = {} \/ \E t \in Tag : S = {t}
Station == [tag : Tag, dep : BOOLEAN, rdy : BOOLEAN]

(* What the registers hold.                                                *)
Plain ==
  /\ program \in Mixes
  /\ unit \in [Tag -> program \cup {"none", "done"}]
  /\ head \in Tag /\ tail \in Tag
  /\ d1 = {} \/ \E d \in Waiting : d1 = {d}
  /\ iq \subseteq Station
  /\ iqFull \in BOOLEAN
  /\ Small(pend) /\ Small(ex) /\ Small(exmem) /\ Small(memwb) /\ Small(fencePend)
  /\ lsq \in Seq(Tag) /\ Len(lsq) <= LSQ_DEPTH
  /\ md \in {"idle", "busy", "done"} /\ fence \in {"idle", "drain", "wait"}

(* Room in the stations for what is on its way to them.                    *)
Room ==
  /\ IsFiniteSet(iq) /\ Cardinality(iq) <= IQ_DEPTH
  /\ d1 # {} => Cardinality(iq) < IQ_DEPTH
  /\ ~iqFull => Cardinality(iq) + 3 <= IQ_DEPTH \/ (iq = {} /\ d1 = {})
Basic == Plain /\ Room

(* An access in the queue and a redirecting branch are the head.           *)
Oldest ==
  /\ lsq = <<>> \/ lsq = <<head>>
  /\ pend = {} \/ pend = {head}
Types == Plain /\ Oldest

(* No two stations hold one instruction.                                   *)
Distinct == \A e, f \in iq : e.tag = f.tag => e = f

(* The window is what has been allocated and has not retired.              *)
Window ==
  /\ Occ <= DEPTH
  /\ \A t \in Tag : unit[t] = "none" <=> ~InWindow(t)

(* One place at a time; past the stations, ordered operations are the      *)
(* head.                                                                   *)
Stages ==
  \A t \in Tag :
    /\ Apart(t)
    /\ Somewhere(t) => Pending(t)
    /\ InD(t) => Succ(t) = tail
    /\ InX(t) \/ InM(t) => (unit[t] \in HeadOnly => t = head)
    /\ InL(t) \/ InW(t) => unit[t] = "mem" /\ t = head
    /\ InF(t) => unit[t] = "fence" /\ t = head
    /\ InM(t) => unit[t] # "fence"

(* A pending instruction is somewhere, or about to be squashed.            *)
Kept == \A t \in Tag : Pending(t) => Somewhere(t) \/ (pend # {} /\ t # head)

(* A redirect's branch is in EX/MEM, and nothing younger left the          *)
(* stations.                                                               *)
Redirects == pend # {} => exmem = {head} /\ unit[head] = "branch" /\ ex = {} /\ d1 = {}

(* While a fence drains nothing ordered is in execution but it.            *)
Units ==
  /\ (fence = "idle") <=> (fencePend = {})
  /\ fence # "idle" => exmem = {} /\ \A t \in ex : unit[t] \notin HeadOnly

(* A source bit says whether the instruction it reads has completed.       *)
Woke ==
  /\ \A e \in iq : e.dep => /\ e.rdy <=> ~Busy(e.tag)
                            /\ Busy(e.tag) => unit[Pred(e.tag)] \in Writers
  /\ \A d \in d1 : d.dep /\ Busy(d.tag) => unit[Pred(d.tag)] \in Writers

(* The inductive invariant.                                                *)
Inv == /\ Basic /\ Oldest /\ Distinct /\ Window /\ Stages
       /\ Redirects /\ Units /\ Woke

(* Programs: no multiplication beside memory accesses; and no ALU          *)
(* operation or multiplication beside fences.                              *)
Unmixed == \A P \in Mixes : ~({"mem", "muldiv"} \subseteq P)
Ordered == \A P \in Mixes : "fence" \in P => P \cap {"alu", "muldiv"} = {}

LEMMA Parts ==
  ASSUME Inv
  PROVE  /\ Basic /\ Types /\ Distinct /\ Window /\ Stages
         /\ Redirects /\ Units /\ Room /\ Woke
BY DEF Inv, Types, Plain, Oldest, Basic

-----------------------------------------------------------------------------
(* For every program: what the registers hold, and room in the stations.   *)

Fresh(new, t) == new # {} /\ t = tail

(* What becomes of a station that stays, and the station that dispatch     *)
(* fills.                                                                  *)
Staying(mis) == {f \in iq : ~Killed(f.tag)} \ Selected(mis)
After(e, ack) == [e EXCEPT !.rdy = @ \/ (e.dep /\ Woken(e.tag, ack))]
Entering(d, ack) == [tag |-> d.tag, dep |-> d.dep, rdy |-> Ready(d, ack)]

(* What either gives.                                                      *)
LEMMA AfterIs ==
  ASSUME NEW f \in Station, NEW ack \in BOOLEAN
  PROVE  /\ After(f, ack) \in Station /\ After(f, ack).tag = f.tag /\ After(f, ack).dep = f.dep
         /\ After(f, ack).rdy = (f.rdy \/ (f.dep /\ Woken(f.tag, ack)))
<1>1. f = [tag |-> f.tag, dep |-> f.dep, rdy |-> f.rdy] /\ f.tag \in Tag /\ f.dep \in BOOLEAN
      /\ f.rdy \in BOOLEAN
  BY DEF Station
<1>2. After(f, ack) = [tag |-> f.tag, dep |-> f.dep,
                       rdy |-> f.rdy \/ (f.dep /\ Woken(f.tag, ack))]
  BY <1>1 DEF After
<1>3. (f.rdy \/ (f.dep /\ Woken(f.tag, ack))) \in BOOLEAN
  OBVIOUS
<1> QED
  BY <1>1, <1>2, <1>3 DEF Station

LEMMA EnteringIs ==
  ASSUME Plain, NEW d \in d1, NEW ack \in BOOLEAN
  PROVE  Entering(d, ack) \in Station /\ Entering(d, ack).tag = d.tag
<1>1. d.tag \in Tag /\ d.dep \in BOOLEAN
  BY DEF Plain, Waiting
<1>2. Ready(d, ack) \in BOOLEAN
  BY DEF Ready
<1> QED
  BY <1>1, <1>2 DEF Station, Entering

(* The stations of the next cycle.                                         *)
LEMMA NextIq ==
  ASSUME NEW new \in Incoming, NEW mis \in BOOLEAN, NEW resp \in BOOLEAN,
         NEW fin \in BOOLEAN, NEW ack \in BOOLEAN, Cycle(new, mis, resp, fin, ack)
  PROVE  iq' = {After(e, ack) : e \in Staying(mis)}
                 \cup {Entering(d, ack) : d \in Accepted(mis)}
BY DEF Cycle, Stations, Staying, After, Entering

(* What is selected has one tag.                                           *)
LEMMA SameTag ==
  ASSUME Plain, NEW mis \in BOOLEAN, NEW e \in Selected(mis), NEW f \in Selected(mis)
  PROVE  e.tag \in Tag /\ e.tag = f.tag
<1>1. /\ e \in Issuable /\ f \in Issuable
      /\ Dist(e.tag, head) <= Dist(f.tag, head) /\ Dist(f.tag, head) <= Dist(e.tag, head)
  BY DEF Selected
<1>2. e.tag \in Tag /\ f.tag \in Tag /\ head \in Tag
  BY <1>1 DEF Plain, Issuable, Station
<1>3. Dist(e.tag, head) \in 0 .. 2 * DEPTH - 1 /\ Dist(f.tag, head) \in 0 .. 2 * DEPTH - 1
  BY <1>2, Distances
<1>4. Dist(e.tag, head) = Dist(f.tag, head)
  BY <1>1, <1>3, DepthsAssumption
<1> QED
  BY <1>2, <1>4, SameDistance

(* With room in the stations nothing that dispatch holds is taken back.    *)
LEMMA NoneTakenBack ==
  ASSUME Room, NEW mis
  PROVE  TakenBack(mis) = {} /\ Accepted(mis) = Dispatch(mis)
<1>1. CASE d1 = {}
  BY <1>1 DEF TakenBack, Accepted, Dispatch
<1>2. CASE d1 # {}
  <2>1. Cardinality(iq) < IQ_DEPTH
    BY <1>2 DEF Room
  <2>2. Accepted(mis) = Dispatch(mis)
    BY <2>1 DEF Accepted
  <2> QED
    BY <2>2 DEF TakenBack, Dispatch
<1> QED
  BY <1>1, <1>2

(* What is allocated: nothing, or one instruction.                         *)
LEMMA Allocated ==
  ASSUME NEW new \in Incoming
  PROVE  \/ new = {} /\ Cardinality(new) = 0
         \/ \E u \in program, d \in BOOLEAN : /\ new = {[u |-> u, dep |-> d]}
                                              /\ Cardinality(new) = 1
                                              /\ (CHOOSE n \in new : TRUE) = [u |-> u, dep |-> d]
<1>1. CASE new = {}
  BY <1>1, FS_EmptySet
<1>2. CASE new # {}
  <2>1. PICK u \in program, d \in BOOLEAN : new = {[u |-> u, dep |-> d]}
    BY <1>2 DEF Incoming
  <2>2. Cardinality(new) = 1
    BY <2>1, FS_Singleton
  <2>3. (CHOOSE n \in new : TRUE) = [u |-> u, dep |-> d]
    <3>1. \E n : n \in new
      BY <2>1
    <3>2. (CHOOSE n \in new : TRUE) \in new
      BY <3>1
    <3> QED
      BY <2>1, <3>2
  <2> QED
    BY <2>1, <2>2, <2>3
<1> QED
  BY <1>1, <1>2

LEMMA AllocatedOne ==
  ASSUME NEW new \in Incoming
  PROVE  Cardinality(new) = IF new = {} THEN 0 ELSE 1
<1>1. CASE new = {}
  BY <1>1, FS_EmptySet
<1>2. CASE new # {}
  <2>1. PICK u \in program, d \in BOOLEAN : new = {[u |-> u, dep |-> d]}
    BY <1>2 DEF Incoming
  <2> QED
    BY <1>2, <2>1, FS_Singleton
<1> QED
  BY <1>1, <1>2

(* Pointers stay in the ring.                                              *)
LEMMA NextPointers ==
  ASSUME Basic, NEW new \in Incoming, NEW mis \in BOOLEAN, NEW resp \in BOOLEAN,
         NEW fin \in BOOLEAN, NEW ack \in BOOLEAN, Cycle(new, mis, resp, fin, ack)
  PROVE  head' \in Tag /\ tail' \in Tag
<1>1. Plain /\ Room
  BY DEF Basic
<1>2. /\ head' = Plus(head, Cardinality(Retiring))
      /\ tail' = IF Squash THEN Plus(CHOOSE p \in pend : TRUE, 1)
                 ELSE Plus(tail, Cardinality(new) - Cardinality(TakenBack(mis)))
  BY DEF Cycle, Reorder
<1>3. head \in Tag /\ tail \in Tag /\ Small(pend)
  BY <1>1 DEF Plain
<1>4. \A t \in Tag : Plus(t, 0) \in Tag /\ Plus(t, 1) \in Tag /\ Plus(t, 2) \in Tag
  BY Distances DEF Succ
<1>5. Cardinality(Retiring) \in {0, 1, 2}
  <2>1. Retiring = {} \/ Retiring = {head} \/ Retiring = {head} \cup {Plus(head, 1)}
    BY DEF Retiring
  <2>2. Cardinality({}) = 0
    BY FS_EmptySet
  <2>3. IsFiniteSet({head}) /\ Cardinality({head}) = 1
    BY FS_Singleton
  <2>4. Cardinality({head} \cup {Plus(head, 1)}) \in {1, 2}
    BY <2>3, FS_AddElement
  <2> QED
    BY <2>1, <2>2, <2>3, <2>4
<1>6. head' \in Tag
  BY <1>2, <1>3, <1>4, <1>5
<1>7. CASE Squash
  <2>1. pend # {}
    BY <1>7 DEF Squash
  <2>2. (CHOOSE p \in pend : TRUE) \in Tag
    BY <1>3, <2>1 DEF Small
  <2> QED
    BY <1>2, <1>4, <1>6, <1>7, <2>2
<1>8. CASE ~Squash
  <2>1. Cardinality(TakenBack(mis)) = 0
    BY <1>1, NoneTakenBack, FS_EmptySet
  <2>2. Cardinality(new) \in {0, 1}
    BY AllocatedOne
  <2> QED
    BY <1>2, <1>3, <1>4, <1>6, <1>8, <2>1, <2>2
<1> QED
  BY <1>7, <1>8

(* What becomes of an instruction: it is allocated, leaves, or completes.  *)
LEMMA NextUnit ==
  ASSUME Basic, NEW new \in Incoming, NEW mis \in BOOLEAN, NEW resp \in BOOLEAN,
         NEW fin \in BOOLEAN, NEW ack \in BOOLEAN, Cycle(new, mis, resp, fin, ack)
  PROVE  /\ unit' \in [Tag -> program \cup {"none", "done"}]
         /\ program' = program
         /\ \A t \in Tag : Fresh(new, t) => unit'[t] \in program
         /\ \A t \in Tag : ~Fresh(new, t) =>
              unit'[t] = IF t \in Retiring \/ Killed(t) THEN "none"
                         ELSE IF t \in Completing(ack) THEN "done" ELSE unit[t]
<1>1. Plain /\ Room
  BY DEF Basic
<1>2. /\ unit' = [t \in Tag |->
                IF \E n \in new : t = tail THEN (CHOOSE n \in new : TRUE).u
                ELSE IF t \in Retiring \/ Killed(t) \/ (\E d \in TakenBack(mis) : d.tag = t)
                     THEN "none"
                ELSE IF t \in Completing(ack) THEN "done" ELSE unit[t]]
      /\ program' = program
  BY DEF Cycle, Reorder
<1>3. \A t \in Tag : Fresh(new, t) <=> \E n \in new : t = tail
  BY DEF Fresh
<1>4. TakenBack(mis) = {}
  BY <1>1, NoneTakenBack
<1>5. ASSUME NEW t \in Tag, Fresh(new, t)
      PROVE  unit'[t] \in program
  <2>1. new # {}
    BY <1>5 DEF Fresh
  <2>2. PICK u \in program, d \in BOOLEAN : (CHOOSE n \in new : TRUE) = [u |-> u, dep |-> d]
    BY <1>1, <2>1, Allocated
  <2>3. (CHOOSE n \in new : TRUE).u \in program
    <3>1. [u |-> u, dep |-> d].u = u
      OBVIOUS
    <3> QED
      BY <2>2, <3>1, Zenon
  <2>4. unit'[t] = (CHOOSE n \in new : TRUE).u
    BY <1>2, <1>3, <1>5
  <2> QED
    BY <2>3, <2>4
<1>6. ASSUME NEW t \in Tag, ~Fresh(new, t)
      PROVE  unit'[t] = IF t \in Retiring \/ Killed(t) THEN "none"
                        ELSE IF t \in Completing(ack) THEN "done" ELSE unit[t]
  BY <1>2, <1>3, <1>4, <1>6
<1>7. unit' = [t \in Tag |-> unit'[t]]
  BY <1>2
<1>8. \A t \in Tag : unit'[t] \in program \cup {"none", "done"}
  <2> TAKE t \in Tag
  <2>1. unit[t] \in program \cup {"none", "done"}
    BY <1>1 DEF Plain
  <2> QED
    BY <2>1, <1>5, <1>6
<1>9. unit' \in [Tag -> program \cup {"none", "done"}]
  BY <1>7, <1>8
<1> QED
  BY <1>2, <1>5, <1>6, <1>9

(* The hint leaves room for what is allocated under it.                    *)
LEMMA NextRoom ==
  ASSUME Basic, NEW new \in Incoming, NEW mis \in BOOLEAN, NEW resp \in BOOLEAN,
         NEW fin \in BOOLEAN, NEW ack \in BOOLEAN, Cycle(new, mis, resp, fin, ack)
  PROVE  Room' /\ iqFull' \in BOOLEAN
<1>1. Plain /\ Room
  BY DEF Basic
<1> DEFINE stay == Staying(mis)
<1> DEFINE A == {After(e, ack) : e \in stay}
<1> DEFINE B == {Entering(d, ack) : d \in Accepted(mis)}
<1>0. iq' = A \cup B
  BY NextIq
<1>2. /\ d1' = {[tag |-> tail, dep |-> n.dep] : n \in new}
      /\ iqFull' = (IQ_DEPTH - Cardinality(iq) - Cardinality(Dispatch(mis)) < 3)
      /\ new # {} => MayAlloc(mis)
  BY DEF Cycle, Stations, Reorder
<1>3. Accepted(mis) = Dispatch(mis) /\ Dispatch(mis) \in {{}, d1}
  BY <1>1, NoneTakenBack DEF Dispatch
<1>4. IsFiniteSet(stay) /\ Cardinality(stay) <= Cardinality(iq) /\ Cardinality(stay) \in Nat
  <2>1. stay \in SUBSET iq
    BY DEF Staying
  <2>2. IsFiniteSet(stay) /\ Cardinality(stay) <= Cardinality(iq)
    BY <1>1, <2>1, FS_Subset DEF Room
  <2> QED
    BY <2>2, FS_CardinalityType
<1>5. IsFiniteSet(A) /\ Cardinality(A) <= Cardinality(stay) /\ Cardinality(A) \in Nat
  <2> DEFINE f == [e \in stay |-> After(e, ack)]
  <2>1. f \in Surjection(stay, A)
    <3> HIDE DEF stay
    <3>1. f \in [stay -> A]
      OBVIOUS
    <3>2. \A x \in A : \E e \in stay : f[e] = x
      OBVIOUS
    <3> QED
      BY <3>1, <3>2 DEF Surjection
  <2> HIDE DEF A, f, stay
  <2>2. IsFiniteSet(A) /\ Cardinality(A) <= Cardinality(stay)
    BY <1>4, <2>1, FS_Surjection
  <2> QED
    BY <2>2, FS_CardinalityType
<1>6. /\ IsFiniteSet(B) /\ Cardinality(B) = Cardinality(Dispatch(mis))
      /\ Cardinality(B) \in {0, 1} /\ (d1 = {} => Cardinality(B) = 0)
  <2>1. CASE Dispatch(mis) = {}
    <3>1. B = {}
      BY <1>3, <2>1
    <3> QED
      BY <2>1, <3>1, FS_EmptySet
  <2>2. CASE Dispatch(mis) # {}
    <3>1. PICK d : Dispatch(mis) = {d} /\ d1 # {}
      BY <1>1, <1>3, <2>2 DEF Plain
    <3>2. B = {Entering(d, ack)}
      BY <1>3, <3>1
    <3> HIDE DEF B
    <3> QED
      BY <3>1, <3>2, FS_Singleton
  <2> QED
    BY <2>1, <2>2
<1> HIDE DEF A, B, stay
<1>7. /\ IsFiniteSet(iq') /\ Cardinality(iq') \in Nat
      /\ Cardinality(iq') <= Cardinality(A) + Cardinality(B)
  <2>1. /\ IsFiniteSet(A \cup B)
        /\ Cardinality(A \cup B) = Cardinality(A) + Cardinality(B) - Cardinality(A \cap B)
    BY <1>5, <1>6, FS_Union
  <2>2. Cardinality(A \cap B) \in Nat
    <3>1. IsFiniteSet(A \cap B)
      <4>1. A \cap B \in SUBSET A
        OBVIOUS
      <4> QED
        BY <1>5, <4>1, FS_Subset
    <3> QED
      BY <3>1, FS_CardinalityType
  <2>3. Cardinality(A \cup B) \in Nat
    BY <2>1, FS_CardinalityType
  <2> QED
    BY <1>0, <1>5, <1>6, <2>1, <2>2, <2>3
<1>8. Cardinality(iq) \in Nat /\ Cardinality(iq) <= IQ_DEPTH
      /\ (d1 # {} => Cardinality(iq) < IQ_DEPTH)
  BY <1>1, FS_CardinalityType DEF Room
<1>9. Cardinality(iq') <= Cardinality(iq) + Cardinality(Dispatch(mis))
  BY <1>4, <1>5, <1>6, <1>7, <1>8
<1>10. Cardinality(iq') <= IQ_DEPTH
  BY <1>6, <1>7, <1>8, <1>9, DepthsAssumption
<1>11. d1' # {} => Cardinality(iq') < IQ_DEPTH
  <2> HAVE d1' # {}
  <2>1. ~iqFull
    BY <1>2 DEF MayAlloc
  <2>2. CASE Cardinality(iq) + 3 <= IQ_DEPTH
    BY <1>6, <1>7, <1>8, <1>9, <2>2, DepthsAssumption
  <2>3. CASE iq = {} /\ d1 = {}
    <3>1. Cardinality(iq) = 0
      BY <2>3, FS_EmptySet
    <3> QED
      BY <1>6, <1>7, <1>9, <2>3, <3>1, DepthsAssumption
  <2> QED
    BY <1>1, <2>1, <2>2, <2>3 DEF Room
<1>12. iqFull' \in BOOLEAN
  BY <1>2
<1>13. ~iqFull' => Cardinality(iq') + 3 <= IQ_DEPTH
  <2> HAVE ~iqFull'
  <2>1. ~(IQ_DEPTH - Cardinality(iq) - Cardinality(Dispatch(mis)) < 3)
    BY <1>2
  <2>2. Cardinality(Dispatch(mis)) \in Nat
    BY <1>6
  <2> QED
    BY <1>7, <1>8, <1>9, <2>1, <2>2, DepthsAssumption
<1> QED
  BY <1>7, <1>10, <1>11, <1>12, <1>13 DEF Room

(* What the FIFO takes in: one access or none.                             *)
LEMMA SeqOfOne ==
  /\ SetToSeq({}) = <<>>
  /\ \A x : SetToSeq({x}) = <<x>>
<1>1. SetToSeq({}) = <<>>
  <2>1. Cardinality({}) = 0
    BY FS_EmptySet
  <2>2. \A S : SetToSeq(S) = CHOOSE f \in [1 .. Cardinality(S) -> S] : IsInjective(f)
    BY DEF SetToSeq
  <2>3. <<>> \in [1 .. 0 -> {}] /\ IsInjective(<<>>)
    BY DEF IsInjective
  <2>4. SetToSeq({}) \in [1 .. 0 -> {}]
    BY <2>1, <2>2, <2>3
  <2> QED
    BY <2>4
<1>2. ASSUME NEW x
      PROVE  SetToSeq({x}) = <<x>>
  <2>1. Cardinality({x}) = 1
    BY FS_Singleton
  <2>2. SetToSeq({x}) = CHOOSE f \in [1 .. 1 -> {x}] : IsInjective(f)
    BY <2>1 DEF SetToSeq
  <2>3. <<x>> \in [1 .. 1 -> {x}] /\ IsInjective(<<x>>)
    BY DEF IsInjective
  <2>4. SetToSeq({x}) \in [1 .. 1 -> {x}]
    BY <2>2, <2>3
  <2> QED
    BY <2>4
<1> QED
  BY <1>1, <1>2

(* Every register again holds what it can hold.                            *)
LEMMA NextPlain ==
  ASSUME Basic, NEW new \in Incoming, NEW mis \in BOOLEAN, NEW resp \in BOOLEAN,
         NEW fin \in BOOLEAN, NEW ack \in BOOLEAN, Cycle(new, mis, resp, fin, ack)
  PROVE  Plain'
<1>1. Plain /\ Room
  BY DEF Basic
<1>2. program' = program /\ unit' \in [Tag -> program \cup {"none", "done"}]
  BY NextUnit
<1>3. (program \in Mixes /\ unit \in [Tag -> program \cup {"none", "done"}])'
  BY <1>1, <1>2 DEF Plain
<1>4. (d1 = {} \/ \E d \in Waiting : d1 = {d})'
  <2>1. d1' = {[tag |-> tail, dep |-> n.dep] : n \in new}
    BY DEF Cycle, Reorder
  <2>2. CASE new = {}
    BY <2>1, <2>2
  <2>3. CASE new # {}
    <3>1. PICK u \in program, d \in BOOLEAN : new = {[u |-> u, dep |-> d]}
      BY <2>3 DEF Incoming
    <3>2. d1' = {[tag |-> tail, dep |-> d]}
      BY <2>1, <3>1
    <3>3. [tag |-> tail, dep |-> d] \in Waiting
      BY <1>1 DEF Plain, Waiting
    <3> QED
      BY <3>2, <3>3 DEF Waiting
  <2> QED
    BY <2>2, <2>3
<1>5. iq' \subseteq Station
  <2>1. \A e \in Staying(mis) : e \in Station
    BY <1>1 DEF Staying, Plain
  <2>2. \A d \in Accepted(mis) : d \in d1
    BY <1>1, NoneTakenBack DEF Dispatch
  <2> QED
    BY <1>1, <2>1, <2>2, NextIq, AfterIs, EnteringIs
<1>6. iqFull' \in BOOLEAN
  BY NextRoom
<1>7. /\ ex' = IF Selected(mis) # {} THEN {e.tag : e \in Selected(mis)}
               ELSE IF StallFp THEN ex ELSE {}
      /\ exmem' = IF CanCapture THEN {t \in ex : unit[t] # "fence"} ELSE exmem
      /\ fencePend' = IF FenceFire THEN ex ELSE IF ack THEN {} ELSE fencePend
      /\ pend' = IF mis THEN ex ELSE {}
      /\ memwb' = IF resp THEN {Head(lsq)} ELSE {}
      /\ lsq' = (IF resp THEN Tail(lsq) ELSE lsq)
                \o SetToSeq({t \in exmem : unit[t] = "mem" /\ ~StallMem})
      /\ resp => lsq # <<>>
  BY DEF Cycle, Stations, Execute, FenceFsm, Reorder, Memory
<1>8. Small(pend) /\ Small(ex) /\ Small(exmem) /\ Small(memwb) /\ Small(fencePend)
  BY <1>1 DEF Plain
<1>9. Small(ex)'
  <2>1. CASE Selected(mis) # {}
    <3>1. PICK e \in Selected(mis) : TRUE
      BY <2>1
    <3>2. e.tag \in Tag /\ \A f \in Selected(mis) : f.tag = e.tag
      BY <1>1, SameTag
    <3>3. ex' = {e.tag}
      BY <1>7, <3>1, <3>2
    <3> QED
      BY <3>2, <3>3 DEF Small
  <2>2. CASE Selected(mis) = {}
    BY <1>7, <1>8, <2>2 DEF Small
  <2> QED
    BY <2>1, <2>2
<1>10. Small(exmem)'
  <2>1. CASE ex = {}
    BY <1>7, <1>8, <2>1 DEF Small
  <2>2. CASE ex # {}
    <3>1. PICK t \in Tag : ex = {t}
      BY <1>8, <2>2 DEF Small
    <3> QED
      BY <1>7, <1>8, <3>1 DEF Small
  <2> QED
    BY <2>1, <2>2
<1>11. Small(fencePend)' /\ Small(pend)'
  BY <1>7, <1>8 DEF Small
<1>12. lsq \in Seq(Tag) /\ Len(lsq) <= LSQ_DEPTH /\ LSQ_DEPTH \in Nat
  BY <1>1, DepthsAssumption DEF Plain
<1>13. Small(memwb)'
  <2>1. resp => Head(lsq) \in Tag
    BY <1>7, <1>12
  <2> QED
    BY <1>7, <2>1 DEF Small
<1>14. (lsq \in Seq(Tag) /\ Len(lsq) <= LSQ_DEPTH)'
  <2> DEFINE in == {t \in exmem : unit[t] = "mem" /\ ~StallMem}
  <2> DEFINE old == IF resp THEN Tail(lsq) ELSE lsq
  <2>1. old \in Seq(Tag) /\ Len(old) <= Len(lsq)
    BY <1>7, <1>12
  <2>2. CASE in = {}
    <3>1. SetToSeq(in) = <<>>
      BY <2>2, SeqOfOne
    <3>2. lsq' = old \o <<>>
      BY <1>7, <3>1
    <3> HIDE DEF old, in
    <3>3. lsq' = old
      BY <2>1, <3>2
    <3> QED
      BY <1>12, <2>1, <3>3
  <2>3. CASE in # {}
    <3>1. ~StallMem
      BY <2>3
    <3>2. PICK t \in Tag : in = {t}
      BY <1>8, <2>3 DEF Small
    <3>3. lsq' = old \o <<t>>
      BY <1>7, <3>2, SeqOfOne
    <3>4. Len(lsq) < LSQ_DEPTH
      BY <1>12, <3>1 DEF StallMem
    <3> HIDE DEF old, in
    <3>5. lsq' \in Seq(Tag) /\ Len(lsq') = Len(old) + 1
      BY <2>1, <3>3
    <3> QED
      BY <1>12, <2>1, <3>4, <3>5
  <2> QED
    BY <2>2, <2>3
<1>15. md' \in {"idle", "busy", "done"}
  <2>1. md' = CASE md = "idle" /\ StallFp -> IF fin THEN "done" ELSE "busy"
                [] md = "busy" -> IF fin THEN "done" ELSE "busy"
                [] md = "done" /\ Is(ex, "muldiv") /\ CanCapture -> "idle"
                [] OTHER -> md
    BY DEF Cycle, Multiply
  <2> QED
    BY <1>1, <2>1 DEF Plain
<1>16. fence' \in {"idle", "drain", "wait"}
  <2>1. fence' = CASE FenceFire -> "drain"
                   [] fence = "drain" /\ lsq = <<>> -> "wait"
                   [] fence = "wait" /\ ack -> "idle"
                   [] OTHER -> fence
    BY DEF Cycle, FenceFsm
  <2>2. FenceFire => fence = "idle"
    BY DEF FenceFire, FenceBusy
  <2> QED
    BY <1>1, <2>1, <2>2 DEF Plain
<1> QED
  BY <1>3, <1>4, <1>5, <1>6, <1>9, <1>10, <1>11, <1>13, <1>14, <1>15, <1>16, NextPointers
     DEF Plain

LEMMA InitBasic == Init => Basic
<1> SUFFICES ASSUME Init PROVE Basic
  OBVIOUS
<1>1. unit \in [Tag -> program \cup {"none", "done"}]
  BY DEF Init
<1>2. 0 \in Tag
  BY DepthsAssumption DEF Tag
<1>3. <<>> \in Seq(Tag) /\ Len(<<>>) = 0
  OBVIOUS
<1>4. lsq \in Seq(Tag) /\ Len(lsq) <= LSQ_DEPTH
  BY <1>3, DepthsAssumption DEF Init
<1>5. Plain
  BY <1>1, <1>2, <1>4 DEF Init, Plain, Small
<1>6. IsFiniteSet(iq) /\ Cardinality(iq) = 0
  BY FS_EmptySet DEF Init
<1>7. Room
  BY <1>6, DepthsAssumption DEF Room, Init
<1> QED
  BY <1>5, <1>7 DEF Basic

LEMMA NextBasic == Basic /\ [Next]_vars => Basic'
<1>1. ASSUME Basic, Next PROVE Basic'
  <2>1. PICK new \in Incoming, mis \in BOOLEAN, resp \in BOOLEAN, fin \in BOOLEAN,
             ack \in BOOLEAN : Cycle(new, mis, resp, fin, ack)
    BY <1>1 DEF Next
  <2> QED
    BY <1>1, <2>1, NextPlain, NextRoom DEF Basic
<1>2. ASSUME Basic, UNCHANGED vars PROVE Basic'
  BY <1>2 DEF Basic, Plain, Room, vars
<1> QED
  BY <1>1, <1>2

LEMMA SmallSets ==
  ASSUME NEW S, Small(S)
  PROVE  S \subseteq Tag /\ Cardinality(S) <= 1
<1>1. CASE S = {}
  BY <1>1, FS_EmptySet
<1>2. CASE S # {}
  <2>1. PICK t \in Tag : S = {t}
    BY <1>2 DEF Small
  <2>2. Cardinality({t}) = 1
    BY FS_Singleton
  <2> QED
    BY <2>1, <2>2
<1> QED
  BY <1>1, <1>2

(* Every register of the pipeline holds what it can hold, whatever the     *)
(* program: one instruction at most in each stage, and neither the         *)
(* stations nor the queue of accesses ever exceed their size.              *)
THEOREM IssueTypes == Spec => []TypeOK
<1>1. Basic => TypeOK
  <2> SUFFICES ASSUME Basic PROVE TypeOK
    OBVIOUS
  <2>1. Plain /\ Room
    BY DEF Basic
  <2>2. unit \in [Tag -> AllUnits \cup {"none", "done"}]
    BY <2>1, MixesAssumption DEF Plain
  <2>3. \A S \in {pend, ex, exmem, memwb, fencePend} : S \subseteq Tag /\ Cardinality(S) <= 1
    BY <2>1, SmallSets DEF Plain
  <2>4. d1 \subseteq Waiting /\ Cardinality(d1) <= 1
    <3>1. CASE d1 = {}
      BY <3>1, FS_EmptySet
    <3>2. CASE d1 # {}
      <4>1. PICK d \in Waiting : d1 = {d}
        BY <2>1, <3>2 DEF Plain
      <4>2. Cardinality({d}) = 1
        BY FS_Singleton
      <4> QED
        BY <4>1, <4>2
    <3> QED
      BY <3>1, <3>2
  <2> QED
    BY <2>1, <2>2, <2>3, <2>4 DEF TypeOK, Plain, Room, Station
<1> QED
  BY <1>1, InitBasic, NextBasic, PTL DEF Spec

(* The registered hint is enough: whatever the program, an instruction     *)
(* allocated under iq_full is accepted when it is dispatched a cycle later *)
(* (cpu_issue_queue.sv:163), so that none is ever taken back.              *)
THEOREM HintSuffices == Spec => []DispatchAccepted
<1>1. Basic => DispatchAccepted
  BY DEF Basic, Room, DispatchAccepted
<1> QED
  BY <1>1, InitBasic, NextBasic, PTL DEF Spec

-----------------------------------------------------------------------------
(* Redirects and retirement, in a state of the invariant.                  *)

(* A registered squash takes the window but for its head.                  *)
LEMMA Squashed ==
  ASSUME Types, Window, Redirects
  PROVE  /\ pend # {} => Squash /\ Retiring = {} /\ InWindow(head) /\ unit[head] = "branch"
         /\ pend = {} => ~Squash
         /\ \A t \in Tag : Killed(t) <=> (pend # {} /\ InWindow(t) /\ t # head)
<1>1. CASE pend = {}
  BY <1>1 DEF Squash, Killed
<1>2. CASE pend # {}
  <2>1. pend = {head} /\ head \in Tag /\ tail \in Tag /\ unit[head] = "branch"
    BY <1>2 DEF Types, Plain, Oldest, Redirects
  <2>2. InWindow(head)
    BY <2>1 DEF Window
  <2>3. Occ # 0 /\ head # tail
    BY <2>1, <2>2, Distances DEF InWindow, Occ
  <2>4. Squash
    BY <1>2, <2>1, <2>2, <2>3 DEF Squash, Empty
  <2>5. Retiring = {}
    BY <2>1 DEF Retiring, Done
  <2>6. \A t \in Tag : Younger(t) <=> InWindow(t) /\ t # head
    <3> TAKE t \in Tag
    <3>1. Younger(t) <=> Dist(t, Succ(head)) < Dist(tail, Succ(head))
      BY <2>1 DEF Younger, Succ
    <3>2. /\ Dist(t, Succ(head)) = IF t = head THEN 2 * DEPTH - 1 ELSE Dist(t, head) - 1
          /\ Dist(tail, Succ(head)) = Dist(tail, head) - 1
      BY <2>1, <2>3, Distances
    <3>3. Dist(t, head) \in 0 .. 2 * DEPTH - 1 /\ Dist(tail, head) \in 0 .. 2 * DEPTH - 1
      BY <2>1, Distances
    <3> QED
      BY <3>1, <3>2, <3>3, DepthsAssumption DEF InWindow, Occ
  <2> QED
    BY <1>2, <2>1, <2>2, <2>4, <2>5, <2>6 DEF Killed
<1> QED
  BY <1>1, <1>2

(* How many retire, and where that leaves the others.                      *)
LEMMA Retires ==
  ASSUME Types, Window
  PROVE  \E k \in 0 .. 2 : /\ Cardinality(Retiring) = k /\ k <= Occ
                           /\ Plus(head, k) \in Tag
                           /\ \A t \in Tag : t \in Retiring <=> Dist(t, head) < k
                           /\ \A t \in Tag : Dist(t, Plus(head, k)) =
                                IF Dist(t, head) < k THEN Dist(t, head) + 2 * DEPTH - k
                                ELSE Dist(t, head) - k
                           /\ \A t \in Retiring : t \in Tag /\ unit[t] = "done"
                           /\ head \in Retiring <=> k # 0
<1>1. head \in Tag /\ tail \in Tag
  BY DEF Types, Plain, Oldest
<1>2. Succ(head) \in Tag /\ Succ(head) # head /\ Dist(Succ(head), head) = 1 /\ Dist(head, head) = 0
  <2>1. Dist(head, head) = 0
    BY <1>1, Distances
  <2>2. Succ(head) \in Tag /\ Dist(head, Succ(head)) = 2 * DEPTH - 1
    BY <1>1, Distances
  <2>3. Succ(head) # head
    BY <2>1, <2>2, DepthsAssumption
  <2> QED
    BY <1>1, <2>1, <2>2, <2>3, Distances
<1>3. \A t \in Tag : Dist(t, head) \in Nat
  BY <1>1, Distances
<1>4. CASE Retiring = {}
  <2>1. Cardinality(Retiring) = 0
    BY <1>4, FS_EmptySet
  <2>2. Plus(head, 0) = head
    BY <1>1, Distances
  <2>3. Occ \in Nat
    BY <1>1, Distances DEF Occ
  <2>4. \A t \in Tag : ~(Dist(t, head) < 0) /\ Dist(t, head) = Dist(t, head) - 0
    BY <1>3
  <2> WITNESS 0 \in 0 .. 2
  <2> QED
    BY <1>1, <1>4, <2>1, <2>2, <2>3, <2>4
<1>5. CASE Retiring = {head}
  <2>1. Cardinality(Retiring) = 1
    BY <1>5, FS_Singleton
  <2>2. Done(head)
    BY <1>5 DEF Retiring
  <2>3. unit[head] = "done" /\ 1 <= Occ
    BY <1>1, <1>2, <2>2, Distances DEF Done, InWindow, Occ
  <2>4. \A t \in Tag : t = head <=> Dist(t, head) < 1
    BY <1>1, Distances
  <2>5. \A t \in Tag : Dist(t, Plus(head, 1)) =
                         IF t = head THEN 2 * DEPTH - 1 ELSE Dist(t, head) - 1
    BY <1>1, Distances DEF Succ
  <2>6. \A t \in Tag : Dist(t, Plus(head, 1)) =
          IF Dist(t, head) < 1 THEN Dist(t, head) + 2 * DEPTH - 1 ELSE Dist(t, head) - 1
    <3> TAKE t \in Tag
    <3>1. CASE t = head
      BY <1>2, <2>4, <2>5, <3>1, DepthsAssumption
    <3>2. CASE t # head
      BY <2>4, <2>5, <3>2
    <3> QED
      BY <3>1, <3>2
  <2>7. Plus(head, 1) \in Tag
    BY <1>2 DEF Succ
  <2> WITNESS 1 \in 0 .. 2
  <2> QED
    BY <1>1, <1>5, <2>1, <2>3, <2>4, <2>6, <2>7
<1>6. CASE Retiring = {head, Succ(head)} /\ Done(head) /\ Done(Succ(head))
  <2>1. Cardinality(Retiring) = 2
    <3>1. IsFiniteSet({head}) /\ Cardinality({head}) = 1
      BY FS_Singleton
    <3>2. Cardinality({head} \cup {Succ(head)}) = 2
      BY <1>2, <3>1, FS_AddElement
    <3>3. {head} \cup {Succ(head)} = {head, Succ(head)}
      OBVIOUS
    <3> QED
      BY <1>6, <3>2, <3>3
  <2>2. unit[head] = "done" /\ unit[Succ(head)] = "done" /\ 2 <= Occ
    BY <1>1, <1>2, <1>6, Distances DEF Done, InWindow, Occ
  <2>3. \A t \in Tag : t \in {head, Succ(head)} <=> Dist(t, head) < 2
    <3> TAKE t \in Tag
    <3>1. Dist(t, head) = 0 <=> t = head
      BY <1>1, Distances
    <3>2. Dist(t, head) = 1 <=> t = Succ(head)
      <4>1. Dist(t, head) = Dist(Succ(head), head) <=> t = Succ(head)
        BY <1>1, <1>2, SameDistance
      <4> QED
        BY <1>2, <4>1
    <3> QED
      BY <1>3, <3>1, <3>2
  <2>4. Plus(head, 2) = Succ(Succ(head)) /\ Plus(head, 2) \in Tag
    BY <1>1, <1>2, Distances
  <2>5. \A t \in Tag : Dist(t, Plus(head, 2)) =
          IF Dist(t, head) < 2 THEN Dist(t, head) + 2 * DEPTH - 2 ELSE Dist(t, head) - 2
    <3> TAKE t \in Tag
    <3>1. Dist(t, Succ(Succ(head))) =
            IF t = Succ(head) THEN 2 * DEPTH - 1 ELSE Dist(t, Succ(head)) - 1
      BY <1>2, Distances
    <3>2. Dist(t, Succ(head)) = IF t = head THEN 2 * DEPTH - 1 ELSE Dist(t, head) - 1
      BY <1>1, Distances
    <3>3. CASE t = head
      BY <1>2, <2>3, <2>4, <3>1, <3>2, <3>3, DepthsAssumption
    <3>4. CASE t = Succ(head)
      BY <1>2, <2>3, <2>4, <3>1, <3>2, <3>4, DepthsAssumption
    <3>5. CASE t \notin {head, Succ(head)}
      <4>1. Dist(t, head) \in Nat /\ ~(Dist(t, head) < 2)
        BY <1>3, <2>3, <3>5
      <4> QED
        BY <2>4, <3>1, <3>2, <3>5, <4>1
    <3> QED
      BY <3>3, <3>4, <3>5
  <2> WITNESS 2 \in 0 .. 2
  <2> QED
    BY <1>1, <1>2, <1>6, <2>1, <2>2, <2>3, <2>4, <2>5
<1> QED
  BY <1>4, <1>5, <1>6 DEF Retiring, Succ

-----------------------------------------------------------------------------
(* One clock edge: the window, the units.                                  *)

(* Who is in the window a cycle later.                                     *)
LEMMA NextWindow ==
  ASSUME Inv, NEW new \in Incoming, NEW mis \in BOOLEAN, NEW resp \in BOOLEAN,
         NEW fin \in BOOLEAN, NEW ack \in BOOLEAN, Cycle(new, mis, resp, fin, ack)
  PROVE  /\ head' \in Tag /\ tail' \in Tag /\ Occ' <= DEPTH
         /\ \A t \in Tag : InWindow(t)' <=> \/ Fresh(new, t)
                                            \/ InWindow(t) /\ t \notin Retiring /\ ~Killed(t)
         /\ new # {} => /\ MayAlloc(mis) /\ pend = {} /\ ~mis
                        /\ ~InWindow(tail) /\ ~InWindow(Succ(tail))
                        /\ tail' = Succ(tail)
         /\ new = {} /\ pend = {} => tail' = tail
         /\ head \notin Retiring => head' = head
         /\ \A t \in Retiring : unit[t] = "done"
<1>0. /\ Types /\ Distinct /\ Window /\ Stages
      /\ Redirects /\ Units /\ Room /\ Woke
  BY Parts
<1>1. PICK k \in 0 .. 2 : /\ Cardinality(Retiring) = k /\ k <= Occ
                          /\ Plus(head, k) \in Tag
                          /\ \A t \in Tag : t \in Retiring <=> Dist(t, head) < k
                          /\ \A t \in Tag : Dist(t, Plus(head, k)) =
                               IF Dist(t, head) < k THEN Dist(t, head) + 2 * DEPTH - k
                               ELSE Dist(t, head) - k
                          /\ \A t \in Retiring : t \in Tag /\ unit[t] = "done"
                          /\ head \in Retiring <=> k # 0
  BY <1>0, Retires
<1>2. /\ head' = Plus(head, Cardinality(Retiring))
      /\ tail' = IF Squash THEN Plus(CHOOSE p \in pend : TRUE, 1)
                 ELSE Plus(tail, Cardinality(new) - Cardinality(TakenBack(mis)))
      /\ new # {} => MayAlloc(mis)
  BY DEF Cycle, Reorder
<1>3. head' = Plus(head, k)
  BY <1>1, <1>2
<1>4. /\ head \in Tag /\ tail \in Tag /\ Occ \in 0 .. DEPTH
      /\ \A t \in Tag : Dist(t, head) \in 0 .. 2 * DEPTH - 1
  <2>1. head \in Tag /\ tail \in Tag
    BY <1>0 DEF Types, Plain, Oldest
  <2>2. Occ <= DEPTH
    BY <1>0 DEF Window
  <2> QED
    BY <2>1, <2>2, Distances, DepthsAssumption DEF Occ
<1>5. Plus(head, 0) = head
  BY <1>4, Distances
<1>6. head \notin Retiring => head' = head
  BY <1>1, <1>3, <1>5
<1>7. CASE pend # {}
  <2>1. Squash /\ Retiring = {} /\ InWindow(head)
    BY <1>0, <1>7, Squashed
  <2>2. head' = head
    BY <1>6, <2>1
  <2>3. tail' = Succ(head)
    <3>1. pend = {head}
      BY <1>0, <1>7 DEF Types, Plain, Oldest
    <3>2. (CHOOSE p \in pend : TRUE) = head
      BY <3>1
    <3> QED
      BY <1>2, <2>1, <3>2 DEF Succ
  <2>4. new = {}
    BY <1>2, <1>7 DEF MayAlloc, Redirecting
  <2>5. Occ' = 1
    <3>1. Succ(head) # head
      <4>1. Dist(head, head) = 0 /\ Dist(head, Succ(head)) = 2 * DEPTH - 1
        BY <1>4, Distances
      <4> QED
        BY <4>1, DepthsAssumption
    <3>2. Dist(Succ(head), head) = 1
      <4>1. Dist(head, head) = 0
        BY <1>4, Distances
      <4> QED
        BY <1>4, <3>1, <4>1, Distances
    <3> QED
      BY <2>2, <2>3, <3>2 DEF Occ
  <2>6. \A t \in Tag : InWindow(t)' <=> t = head
    <3> TAKE t \in Tag
    <3>1. InWindow(t)' <=> Dist(t, head) < 1
      BY <2>2, <2>5 DEF InWindow
    <3>2. Dist(t, head) = 0 <=> t = head
      BY <1>4, Distances
    <3> QED
      BY <1>4, <3>1, <3>2
  <2>7. \A t \in Tag : Killed(t) <=> InWindow(t) /\ t # head
    BY <1>0, <1>7, Squashed
  <2>8. Succ(head) \in Tag
    BY <1>4, Distances
  <2> QED
    BY <1>1, <1>4, <1>7, <2>1, <2>2, <2>3, <2>4, <2>5, <2>6, <2>7, <2>8, DepthsAssumption
       DEF Fresh
<1>8. CASE pend = {}
  <2>1. ~Squash /\ \A t \in Tag : ~Killed(t)
    BY <1>0, <1>8, Squashed
  <2>2. tail' = Plus(tail, Cardinality(new))
    <3>1. Cardinality(TakenBack(mis)) = 0
      BY <1>0, NoneTakenBack, FS_EmptySet
    <3>2. Cardinality(new) \in Nat
      BY <1>0, AllocatedOne
    <3> QED
      BY <1>2, <2>1, <3>1, <3>2
  <2>3. \A t \in Tag : Dist(t, head') = IF Dist(t, head) < k THEN Dist(t, head) + 2 * DEPTH - k
                                        ELSE Dist(t, head) - k
    BY <1>1, <1>3
  <2>4. CASE new = {}
    <3>1. tail' = tail
      BY <1>0, <1>4, <2>2, <2>4, AllocatedOne, Distances
    <3>2. Occ = Dist(tail, head) /\ Occ' = Dist(tail, head')
      BY <3>1 DEF Occ
    <3>3. Occ' = Occ - k
      BY <1>1, <1>4, <2>3, <3>2
    <3>4. \A t \in Tag : InWindow(t)' <=> InWindow(t) /\ t \notin Retiring
      <4> TAKE t \in Tag
      <4>1. /\ InWindow(t)' <=> Dist(t, head') < Occ'
            /\ InWindow(t) <=> Dist(t, head) < Occ
            /\ t \in Retiring <=> Dist(t, head) < k
        BY <1>1 DEF InWindow
      <4>2. Dist(t, head') = IF Dist(t, head) < k THEN Dist(t, head) + 2 * DEPTH - k
                             ELSE Dist(t, head) - k
        BY <2>3
      <4> QED
        BY <1>1, <1>4, <3>3, <4>1, <4>2, DepthsAssumption
    <3> QED
      BY <1>1, <1>3, <1>4, <1>6, <1>8, <2>1, <2>4, <3>1, <3>3, <3>4, DepthsAssumption DEF Fresh
  <2>5. CASE new # {}
    <3>1. MayAlloc(mis) /\ ~mis /\ Occ < DEPTH
      BY <1>2, <2>5 DEF MayAlloc, Redirecting
    <3>2. tail' = Succ(tail)
      BY <1>0, <2>2, <2>5, AllocatedOne DEF Succ
    <3>3. Succ(tail) \in Tag /\ Dist(Succ(tail), head) = Occ + 1
      <4>1. Succ(tail) \in Tag /\ Dist(tail, Succ(tail)) = 2 * DEPTH - 1
        BY <1>4, Distances
      <4>2. Succ(tail) # head
        BY <1>4, <3>1, <4>1, DepthsAssumption DEF Occ
      <4> QED
        BY <1>4, <4>1, <4>2, Distances DEF Occ
    <3>4. Occ' = Occ + 1 - k
      <4>1. Dist(Succ(tail), head') = Occ + 1 - k
        BY <1>1, <1>4, <2>3, <3>3
      <4> QED
        BY <3>2, <4>1 DEF Occ
    <3>5. \A t \in Tag : InWindow(t)' <=> (t = tail \/ (InWindow(t) /\ t \notin Retiring))
      <4> TAKE t \in Tag
      <4>1. /\ InWindow(t)' <=> Dist(t, head') < Occ'
            /\ InWindow(t) <=> Dist(t, head) < Occ
            /\ t \in Retiring <=> Dist(t, head) < k
        BY <1>1 DEF InWindow
      <4>2. Dist(t, head') = IF Dist(t, head) < k THEN Dist(t, head) + 2 * DEPTH - k
                             ELSE Dist(t, head) - k
        BY <2>3
      <4>3. Dist(t, head) = Occ <=> t = tail
        BY <1>4, Distances DEF Occ
      <4>4. Dist(t, head) \in 0 .. 2 * DEPTH - 1 /\ Occ \in 0 .. DEPTH
        BY <1>4
      <4> QED
        BY <1>1, <3>1, <3>4, <4>1, <4>2, <4>3, <4>4, DepthsAssumption
    <3>6. ~InWindow(tail) /\ ~InWindow(Succ(tail))
      BY <1>4, <3>3 DEF InWindow, Occ
    <3>7. Occ' <= DEPTH
      BY <1>1, <1>4, <3>1, <3>4, DepthsAssumption
    <3>8. tail' \in Tag /\ head' \in Tag
      BY <1>1, <1>3, <3>2, <3>3
    <3> QED
      BY <1>1, <1>6, <1>8, <2>1, <2>5, <3>1, <3>2, <3>5, <3>6, <3>7, <3>8 DEF Fresh
  <2> QED
    BY <2>4, <2>5
<1> QED
  BY <1>7, <1>8

(* What completes.                                                         *)
LEMMA Completes ==
  ASSUME Window, NEW ack \in BOOLEAN, NEW t \in Tag
  PROVE  /\ Pending(t) => InWindow(t)
         /\ t \in Completing(ack) <=>
              /\ Pending(t)
              /\ \/ ~StallFp /\ InM(t) /\ unit[t] # "mem"
                 \/ InW(t)
                 \/ ack /\ InF(t)
<1>1. Pending(t) => InWindow(t)
  BY DEF Pending, Window
<1> QED
  BY <1>1 DEF Completing, InM, InW, InF

(* What is pending a cycle later: what was and neither completed nor was   *)
(* squashed, and what was allocated.                                       *)
LEMMA NextPending ==
  ASSUME Inv, NEW new \in Incoming, NEW mis \in BOOLEAN, NEW resp \in BOOLEAN,
         NEW fin \in BOOLEAN, NEW ack \in BOOLEAN, Cycle(new, mis, resp, fin, ack),
         NEW t \in Tag
  PROVE  /\ Pending(t)' <=> \/ Fresh(new, t)
                            \/ Pending(t) /\ ~Killed(t) /\ t \notin Completing(ack)
         /\ Pending(t)' /\ ~Fresh(new, t) => unit'[t] = unit[t]
<1>1. Basic /\ Types /\ Window
  BY Parts
<1>2. program \subseteq AllUnits /\ "none" \notin AllUnits /\ "done" \notin AllUnits
  BY <1>1, MixesAssumption DEF Types, Plain, Oldest, AllUnits
<1>3. t \in Completing(ack) => Pending(t)
  BY <1>1, Completes
<1>4. t \in Retiring => unit[t] = "done"
  BY NextWindow
<1>5. CASE Fresh(new, t)
  <2>1. unit'[t] \in program
    BY <1>1, <1>5, NextUnit
  <2> QED
    BY <1>2, <1>5, <2>1 DEF Pending
<1>6. CASE ~Fresh(new, t)
  <2>1. unit'[t] = IF t \in Retiring \/ Killed(t) THEN "none"
                   ELSE IF t \in Completing(ack) THEN "done" ELSE unit[t]
    BY <1>1, <1>6, NextUnit
  <2> QED
    BY <1>3, <1>4, <1>6, <2>1 DEF Pending
<1> QED
  BY <1>5, <1>6

-----------------------------------------------------------------------------
(* One clock edge: what moves where.                                       *)

(* What the stalls exclude.                                                *)
LEMMA Stalls ==
  ASSUME Inv, Unmixed
  PROVE  /\ StallMem => ~Is(exmem, "mem")
         /\ CanCapture <=> ~FenceBusy /\ ~StallFp
         /\ FenceBusy => exmem = {} /\ \A t \in ex : unit[t] \notin HeadOnly
         /\ StallFp => ~Is(exmem, "mem")
         /\ FenceFire => ex = {head} /\ unit[head] = "fence" /\ ~StallFp /\ ~FenceBusy
         /\ Is(ex, "branch") => ex = {head} /\ unit[head] = "branch" /\ CanCapture /\ ~StallFp
<1>1. Types /\ Stages /\ Units
  BY Parts
<1>2. \A t \in exmem : t \in Tag /\ InM(t)
  BY <1>1 DEF Types, Plain, Oldest, Small, InM
<1>3. \A t \in ex : t \in Tag /\ InX(t)
  BY <1>1 DEF Types, Plain, Oldest, Small, InX
<1>4. ASSUME StallMem, Is(exmem, "mem")
      PROVE  FALSE
  <2>1. PICK t \in exmem : unit[t] = "mem"
    BY <1>4 DEF Is
  <2>2. t \in Tag /\ InM(t) /\ t = head
    BY <1>1, <1>2, <2>1 DEF Stages, HeadOnly
  <2>3. lsq = <<head>>
    <3>1. Len(<<>>) = 0
      OBVIOUS
    <3>2. Len(lsq) >= 1
      <4>1. CASE lsq = <<>>
        BY <1>4, <3>1, <4>1, DepthsAssumption DEF StallMem
      <4>2. CASE lsq = <<head>>
        BY <4>2
      <4> QED
        BY <1>1, <4>1, <4>2 DEF Types, Plain, Oldest
    <3> QED
      BY <1>1, <3>1, <3>2 DEF Types, Plain, Oldest
  <2>4. InL(head)
    BY <2>3 DEF InL
  <2> QED
    BY <1>1, <2>2, <2>4 DEF Stages, Apart
<1>5. FenceBusy => exmem = {} /\ \A t \in ex : unit[t] \notin HeadOnly
  BY <1>1 DEF Units, FenceBusy
<1>6. CanCapture <=> ~FenceBusy /\ ~StallFp
  BY <1>4 DEF CanCapture
<1>7. \A t \in Tag : Pending(t) => unit[t] \in program
  BY <1>1 DEF Types, Plain, Oldest, Pending
<1>8. program \in Mixes
  BY <1>1 DEF Types, Plain, Oldest
<1>9. \A t \in ex : unit[t] \in program
  BY <1>1, <1>3, <1>7 DEF Stages, Somewhere
<1>10. \A t \in exmem : unit[t] \in program
  BY <1>1, <1>2, <1>7 DEF Stages, Somewhere
<1>11. ASSUME StallFp, Is(exmem, "mem")
       PROVE  FALSE
  <2>1. "muldiv" \in program
    BY <1>9, <1>11 DEF StallFp, Is
  <2>2. "mem" \in program
    BY <1>10, <1>11 DEF Is
  <2> QED
    BY <1>8, <2>1, <2>2 DEF Unmixed
<1>12. ASSUME NEW u \in {"branch", "fence"}, Is(ex, u)
       PROVE  ex = {head} /\ unit[head] = u /\ ~StallFp /\ u \in program /\ InX(head)
  <2>1. PICK t \in ex : unit[t] = u
    BY <1>12 DEF Is
  <2>2. t \in Tag /\ InX(t) /\ t = head
    BY <1>1, <1>3, <1>12, <2>1 DEF Stages, HeadOnly
  <2>3. ex = {head}
    BY <1>1, <2>2 DEF Types, Plain, Oldest, Small
  <2>4. ~StallFp
    BY <1>12, <2>1, <2>2, <2>3 DEF StallFp, Is
  <2> QED
    BY <1>9, <2>1, <2>2, <2>3, <2>4
<1>13. FenceFire => ex = {head} /\ unit[head] = "fence" /\ ~StallFp /\ ~FenceBusy
  BY <1>12 DEF FenceFire
<1>14. Is(ex, "branch") => ex = {head} /\ unit[head] = "branch" /\ CanCapture /\ ~StallFp
  <2> HAVE Is(ex, "branch")
  <2>1. ex = {head} /\ unit[head] = "branch" /\ ~StallFp
    BY <1>12
  <2>2. ~FenceBusy
    BY <1>5, <2>1 DEF HeadOnly
  <2> QED
    BY <1>6, <2>1, <2>2
<1> QED
  BY <1>4, <1>5, <1>6, <1>11, <1>13, <1>14

(* The stations that issue: at most one.                                   *)
Issues(mis, t) == \E e \in Selected(mis) : e.tag = t

LEMMA Selects ==
  ASSUME Inv, NEW mis \in BOOLEAN
  PROVE  /\ \A e \in Selected(mis) : e \in iq
         /\ \A e, f \in Selected(mis) : e = f
         /\ Selected(mis) # {} => ~StallFp /\ ~FenceBusy /\ ~mis /\ pend = {}
         /\ \A t \in Tag : Issues(mis, t) =>
              InI(t) /\ (unit[t] \in HeadOnly => t = head)
<1>1. Types /\ Distinct /\ Stages
  BY Parts
<1>2. ASSUME NEW e \in Selected(mis)
      PROVE  /\ e \in iq /\ e.tag \in Tag /\ ~StallFp /\ ~FenceBusy /\ ~mis /\ pend = {}
             /\ e \in Issuable /\ (unit[e.tag] \in HeadOnly => e.tag = head)
  <2>1. e \in Issuable
    BY <1>2 DEF Selected
  <2>2. e \in iq /\ e.tag \in Tag
    BY <1>1, <2>1 DEF Issuable, Types, Plain, Oldest, Station
  <2> QED
    BY <1>2, <2>1, <2>2 DEF Selected, Issuable, Redirecting
<1>3. ASSUME NEW e \in Selected(mis), NEW f \in Selected(mis)
      PROVE  e = f
  <2>1. e.tag = f.tag
    BY <1>1, SameTag DEF Types
  <2> QED
    BY <1>1, <1>2, <2>1 DEF Distinct
<1>4. ASSUME NEW t \in Tag, Issues(mis, t)
      PROVE  InI(t) /\ (unit[t] \in HeadOnly => t = head)
  <2>1. PICK e \in Selected(mis) : e.tag = t
    BY <1>4 DEF Issues
  <2> QED
    BY <1>2, <2>1 DEF InI
<1> QED
  BY <1>2, <1>3, <1>4

(* Who waits in ID/EX and in the stations a cycle later.                   *)
LEMMA NextWaiting ==
  ASSUME Inv, Unmixed, NEW new \in Incoming, NEW mis \in BOOLEAN, NEW resp \in BOOLEAN,
         NEW fin \in BOOLEAN, NEW ack \in BOOLEAN, Cycle(new, mis, resp, fin, ack)
  PROVE  /\ \A t \in Tag : InD(t)' <=> Fresh(new, t)
         /\ \A t \in Tag : InI(t)' <=> \/ InI(t) /\ ~Killed(t) /\ ~Issues(mis, t)
                                       \/ InD(t) /\ ~mis /\ pend = {}
         /\ \A e \in iq' : \/ \E f \in iq : /\ ~Killed(f.tag) /\ ~Issues(mis, f.tag)
                                            /\ e.tag = f.tag /\ e.dep = f.dep
                                            /\ e.rdy = (f.rdy \/ (f.dep /\ Woken(f.tag, ack)))
                           \/ \E d \in d1 : /\ ~mis /\ pend = {}
                                            /\ e = [tag |-> d.tag, dep |-> d.dep,
                                                    rdy |-> Ready(d, ack)]
         /\ \A e \in iq' : e.tag \in Tag /\ e.dep \in BOOLEAN /\ e.rdy \in BOOLEAN
         /\ iq' \subseteq Station
<1>1. Types /\ Distinct /\ Room
  BY Parts
<1> DEFINE stay == Staying(mis)
<1>2. /\ iq' = {After(e, ack) : e \in stay} \cup {Entering(d, ack) : d \in Accepted(mis)}
      /\ d1' = {[tag |-> tail, dep |-> n.dep] : n \in new}
  BY NextIq DEF Cycle, Reorder
<1>3. Accepted(mis) = IF mis \/ pend # {} THEN {} ELSE d1
  BY <1>1, NoneTakenBack DEF Dispatch, Redirecting
<1>4. \A f \in iq : f \in stay <=> ~Killed(f.tag) /\ ~Issues(mis, f.tag)
  <2> TAKE f \in iq
  <2>1. f \in Selected(mis) <=> Issues(mis, f.tag)
    <3>1. f \in Selected(mis) => Issues(mis, f.tag)
      BY DEF Issues
    <3>2. Issues(mis, f.tag) => f \in Selected(mis)
      BY <1>1, Selects DEF Issues, Distinct
    <3> QED
      BY <3>1, <3>2
  <2> QED
    BY <2>1 DEF Staying
<1>5. \A f \in stay : f \in iq /\ f \in Station
  BY <1>1 DEF Types, Plain, Oldest, Staying
<1>8. ASSUME NEW d \in d1
      PROVE  Entering(d, ack) \in Station /\ Entering(d, ack).tag = d.tag
  BY <1>1, EnteringIs DEF Types
<1> HIDE DEF stay
<1>9. ASSUME NEW e \in iq'
      PROVE  /\ \/ \E f \in iq : /\ ~Killed(f.tag) /\ ~Issues(mis, f.tag)
                                 /\ e.tag = f.tag /\ e.dep = f.dep
                                 /\ e.rdy = (f.rdy \/ (f.dep /\ Woken(f.tag, ack)))
                \/ \E d \in d1 : ~mis /\ pend = {} /\ e = Entering(d, ack)
             /\ e \in Station
  <2>1. CASE \E f \in stay : e = After(f, ack)
    <3>1. PICK f \in stay : e = After(f, ack)
      BY <2>1
    <3>2. f \in iq /\ f \in Station /\ ~Killed(f.tag) /\ ~Issues(mis, f.tag)
      BY <1>4, <1>5, <3>1
    <3> QED
      BY <3>1, <3>2, AfterIs
  <2>2. CASE \E d \in Accepted(mis) : e = Entering(d, ack)
    BY <1>3, <1>8, <2>2
  <2> QED
    BY <1>2, <1>9, <2>1, <2>2
<1>10. ASSUME NEW t \in Tag
       PROVE  InI(t)' <=> \/ InI(t) /\ ~Killed(t) /\ ~Issues(mis, t)
                          \/ InD(t) /\ ~mis /\ pend = {}
  <2>1. ASSUME InI(t)'
        PROVE  \/ InI(t) /\ ~Killed(t) /\ ~Issues(mis, t)
               \/ InD(t) /\ ~mis /\ pend = {}
    <3>1. PICK e \in iq' : e.tag = t
      BY <2>1 DEF InI
    <3> QED
      BY <1>8, <1>9, <3>1 DEF InI, InD
  <2>2. ASSUME InI(t), ~Killed(t), ~Issues(mis, t)
        PROVE  InI(t)'
    <3>1. PICK f \in iq : f.tag = t
      BY <2>2 DEF InI
    <3>2. f \in stay
      BY <1>4, <2>2, <3>1
    <3>3. After(f, ack) \in iq' /\ After(f, ack).tag = t
      BY <1>2, <1>5, <3>1, <3>2, AfterIs
    <3> QED
      BY <3>3 DEF InI
  <2>3. ASSUME InD(t), ~mis, pend = {}
        PROVE  InI(t)'
    <3>1. PICK d \in d1 : d.tag = t
      BY <2>3 DEF InD
    <3>2. Entering(d, ack) \in iq' /\ Entering(d, ack).tag = t
      BY <1>2, <1>3, <1>8, <2>3, <3>1
    <3> QED
      BY <3>2 DEF InI
  <2> QED
    BY <2>1, <2>2, <2>3
<1>11. \A t \in Tag : InD(t)' <=> Fresh(new, t)
  <2> TAKE t \in Tag
  <2>1. InD(t)' <=> \E d \in d1' : d.tag = t
    BY DEF InD
  <2>2. ASSUME NEW d \in d1', d.tag = t
        PROVE  Fresh(new, t)
    <3>1. PICK n \in new : d = [tag |-> tail, dep |-> n.dep]
      BY <1>2, <2>2
    <3> QED
      BY <2>2, <3>1 DEF Fresh
  <2>3. ASSUME Fresh(new, t)
        PROVE  \E d \in d1' : d.tag = t
    <3>1. PICK n \in new : TRUE
      BY <2>3 DEF Fresh
    <3>2. [tag |-> tail, dep |-> n.dep] \in d1'
      BY <1>2, <3>1
    <3> QED
      BY <2>3, <3>2 DEF Fresh
  <2> QED
    BY <2>1, <2>2, <2>3
<1>12. \A e \in iq' : e.tag \in Tag /\ e.dep \in BOOLEAN /\ e.rdy \in BOOLEAN
  BY <1>9 DEF Station
<1> QED
  BY <1>9, <1>10, <1>11, <1>12 DEF Entering

(* Who is in EX, in EX/MEM and in the pending fence.                       *)
LEMMA NextExecuting ==
  ASSUME Inv, NEW new \in Incoming, NEW mis \in BOOLEAN, NEW resp \in BOOLEAN,
         NEW fin \in BOOLEAN, NEW ack \in BOOLEAN, Cycle(new, mis, resp, fin, ack)
  PROVE  /\ \A t \in Tag : InX(t)' <=> Issues(mis, t) \/ (StallFp /\ InX(t))
         /\ \A t \in Tag : InM(t)' <=> IF CanCapture THEN InX(t) /\ unit[t] # "fence" ELSE InM(t)
         /\ \A t \in Tag : InF(t)' <=> IF FenceFire THEN InX(t) ELSE InF(t) /\ ~ack
         /\ StallFp => ex' = ex
         /\ Selected(mis) = {} /\ ~StallFp => ex' = {}
<1>1. Types /\ Stages
  BY Parts
<1>2. /\ ex' = IF Selected(mis) # {} THEN {e.tag : e \in Selected(mis)}
               ELSE IF StallFp THEN ex ELSE {}
      /\ exmem' = IF CanCapture THEN {t \in ex : unit[t] # "fence"} ELSE exmem
      /\ fencePend' = IF FenceFire THEN ex ELSE IF ack THEN {} ELSE fencePend
  BY DEF Cycle, Stations, Execute, FenceFsm
<1>3. Selected(mis) # {} => ~StallFp
  BY Selects
<1>4. \A t \in Tag : InX(t)' <=> Issues(mis, t) \/ (StallFp /\ InX(t))
  <2> TAKE t \in Tag
  <2>1. CASE Selected(mis) # {}
    <3>1. InX(t)' <=> t \in {e.tag : e \in Selected(mis)}
      BY <1>2, <2>1 DEF InX
    <3> QED
      BY <1>3, <2>1, <3>1 DEF Issues
  <2>2. CASE Selected(mis) = {}
    BY <1>2, <2>2 DEF InX, Issues
  <2> QED
    BY <2>1, <2>2
<1>5. \A t \in Tag : InM(t)' <=> IF CanCapture THEN InX(t) /\ unit[t] # "fence" ELSE InM(t)
  BY <1>2 DEF InX, InM
<1>6. \A t \in Tag : InF(t)' <=> IF FenceFire THEN InX(t) ELSE InF(t) /\ ~ack
  BY <1>2 DEF InX, InF
<1> QED
  BY <1>2, <1>3, <1>4, <1>5, <1>6

(* Who is in the FIFO and in its response register.                        *)
LEMMA NextMemory ==
  ASSUME Inv, Unmixed, NEW new \in Incoming, NEW mis \in BOOLEAN, NEW resp \in BOOLEAN,
         NEW fin \in BOOLEAN, NEW ack \in BOOLEAN, Cycle(new, mis, resp, fin, ack)
  PROVE  /\ \A t \in Tag : InL(t)' <=> (InL(t) /\ ~resp) \/ (InM(t) /\ unit[t] = "mem")
         /\ \A t \in Tag : InW(t)' <=> resp /\ InL(t)
         /\ resp => InL(head)
         /\ (lsq = <<>> \/ lsq = <<head>>)'
<1>1. Types /\ Stages
  BY Parts
<1>2. /\ lsq' = (IF resp THEN Tail(lsq) ELSE lsq)
                \o SetToSeq({t \in exmem : unit[t] = "mem" /\ ~StallMem})
      /\ memwb' = IF resp THEN {Head(lsq)} ELSE {}
      /\ resp => lsq # <<>>
  BY DEF Cycle, Memory
<1>3. /\ Tail(<<head>>) = <<>> /\ Head(<<head>>) = head
      /\ <<>> \o <<>> = <<>> /\ <<head>> \o <<>> = <<head>> /\ <<>> \o <<head>> = <<head>>
  OBVIOUS
<1>4. lsq \in {<<>>, <<head>>}
  BY <1>1 DEF Types, Plain, Oldest
<1>5. \A t \in Tag : InL(t) <=> lsq = <<head>> /\ t = head
  <2> TAKE t \in Tag
  <2>1. CASE lsq = <<>>
    <3>1. DOMAIN <<>> = {} /\ <<>> # <<head>>
      OBVIOUS
    <3> QED
      BY <2>1, <3>1 DEF InL
  <2>2. CASE lsq = <<head>>
    BY <2>2 DEF InL
  <2> QED
    BY <1>4, <2>1, <2>2
<1>6. \A t \in exmem : t \in Tag /\ (unit[t] = "mem" => t = head /\ InM(head) /\ ~StallMem)
  <2> TAKE t \in exmem
  <2>1. t \in Tag /\ InM(t)
    BY <1>1 DEF Types, Plain, Oldest, Small, InM
  <2>2. unit[t] = "mem" => t = head
    BY <1>1, <2>1 DEF Stages, HeadOnly
  <2>3. unit[t] = "mem" => ~StallMem
    BY Stalls DEF Is
  <2> QED
    BY <2>1, <2>2, <2>3
<1>7. {t \in exmem : unit[t] = "mem" /\ ~StallMem} =
        IF InM(head) /\ unit[head] = "mem" THEN {head} ELSE {}
  BY <1>6 DEF InM
<1>8. SetToSeq({t \in exmem : unit[t] = "mem" /\ ~StallMem}) =
        IF InM(head) /\ unit[head] = "mem" THEN <<head>> ELSE <<>>
  BY <1>7, SeqOfOne
<1>9. head \in Tag
  BY <1>1 DEF Types, Plain, Oldest
<1>10. InL(head) => ~InM(head)
  BY <1>1, <1>9 DEF Stages, Apart
<1>11. lsq' = IF (InL(head) /\ ~resp) \/ (InM(head) /\ unit[head] = "mem") THEN <<head>>
              ELSE <<>>
  <2>1. CASE lsq = <<>>
    <3>1. ~InL(head) /\ ~resp
      BY <1>2, <1>3, <1>5, <1>9, <2>1
    <3>2. lsq' = <<>> \o SetToSeq({t \in exmem : unit[t] = "mem" /\ ~StallMem})
      BY <1>2, <2>1, <3>1
    <3> QED
      BY <1>3, <1>8, <3>1, <3>2
  <2>2. CASE lsq = <<head>>
    <3>1. InL(head) /\ ~InM(head)
      BY <1>5, <1>9, <1>10, <2>2
    <3>2. lsq' = (IF resp THEN <<>> ELSE <<head>>) \o <<>>
      BY <1>2, <1>3, <1>8, <2>2, <3>1
    <3> QED
      BY <1>3, <3>1, <3>2
  <2> QED
    BY <1>4, <2>1, <2>2
<1>12. \A t \in Tag : InL(t)' <=> lsq' = <<head>> /\ t = head
  <2> TAKE t \in Tag
  <2>1. InL(t)' <=> \E n \in DOMAIN lsq' : lsq'[n] = t
    BY DEF InL
  <2>2. CASE lsq' = <<>>
    <3>1. DOMAIN <<>> = {} /\ <<>> # <<head>>
      OBVIOUS
    <3> QED
      BY <2>1, <2>2, <3>1
  <2>3. CASE lsq' = <<head>>
    <3>1. DOMAIN <<head>> = {1} /\ <<head>>[1] = head
      OBVIOUS
    <3> QED
      BY <2>1, <2>3, <3>1
  <2> QED
    BY <1>11, <2>2, <2>3
<1>13. \A t \in Tag : InL(t)' <=> (InL(t) /\ ~resp) \/ (InM(t) /\ unit[t] = "mem")
  <2> TAKE t \in Tag
  <2>1. <<>> # <<head>>
    OBVIOUS
  <2>2. lsq' = <<head>> <=> (InL(head) /\ ~resp) \/ (InM(head) /\ unit[head] = "mem")
    BY <1>11, <2>1
  <2>3. InL(t) => t = head
    BY <1>5
  <2>4. InM(t) /\ unit[t] = "mem" => t = head
    BY <1>6 DEF InM
  <2> QED
    BY <1>12, <2>2, <2>3, <2>4
<1>14. resp => lsq = <<head>> /\ memwb' = {head} /\ InL(head)
  BY <1>2, <1>3, <1>4, <1>5, <1>9
<1>15. \A t \in Tag : InW(t)' <=> resp /\ InL(t)
  <2> TAKE t \in Tag
  <2>1. InL(t) => t = head
    BY <1>5
  <2> QED
    BY <1>2, <1>14, <2>1 DEF InW
<1>16. (lsq = <<>> \/ lsq = <<head>>)'
  <2>1. Window
    BY Parts
  <2>2. CASE lsq' = <<head>>
    <3>1. InL(head) \/ InM(head)
      <4>1. <<>> # <<head>>
        OBVIOUS
      <4> QED
        BY <1>11, <2>2, <4>1
    <3>2. Pending(head)
      BY <1>1, <1>9, <3>1 DEF Stages, Somewhere
    <3>3. head' = head
      BY <3>2, NextWindow DEF Pending
    <3> QED
      BY <2>2, <3>3
  <2> QED
    BY <1>11, <2>2
<1> QED
  BY <1>13, <1>14, <1>15, <1>16

-----------------------------------------------------------------------------
(* One clock edge, seen by one instruction.                                *)

(* What one place excludes of the others.                                  *)
LEMMA Here ==
  ASSUME Inv, Unmixed, NEW t \in Tag
  PROVE  /\ Apart(t) /\ (Somewhere(t) => Pending(t))
         /\ InX(t) /\ unit[t] = "mem" => t = head
         /\ pend # {} => /\ ~InD(t) /\ ~InX(t)
                         /\ InM(t) \/ InL(t) \/ InW(t) \/ InF(t) => t = head
         /\ FenceBusy => ~InM(t) /\ (InX(t) => unit[t] \notin HeadOnly)
         /\ StallFp /\ InM(t) => unit[t] # "mem"
         /\ FenceFire /\ InX(t) => unit[t] = "fence"
         /\ InX(t) /\ unit[t] = "fence" /\ ~FenceBusy => FenceFire
         /\ InF(t) => ~FenceFire
         /\ InX(t) \/ InM(t) => (unit[t] \in HeadOnly => t = head)
         /\ InL(t) \/ InW(t) => unit[t] = "mem" /\ t = head
         /\ InF(t) => unit[t] = "fence" /\ t = head
         /\ InM(t) => unit[t] # "fence"
<1>1. Types /\ Stages /\ Redirects /\ Units
  BY Parts
<1>2. pend # {} => exmem = {head} /\ ex = {} /\ d1 = {}
  BY <1>1 DEF Redirects
<1>3. /\ Apart(t) /\ (Somewhere(t) => Pending(t))
      /\ InX(t) \/ InM(t) => (unit[t] \in HeadOnly => t = head)
      /\ InL(t) \/ InW(t) => unit[t] = "mem" /\ t = head
      /\ InF(t) => unit[t] = "fence" /\ t = head
      /\ InM(t) => unit[t] # "fence"
  BY <1>1 DEF Stages
<1>4. pend # {} => ~InD(t) /\ ~InX(t) /\ (InM(t) => t = head)
  BY <1>2 DEF InD, InX, InM
<1>5. FenceBusy => ~InM(t) /\ (InX(t) => unit[t] \notin HeadOnly)
  BY Stalls DEF InX, InM
<1>6. StallFp /\ InM(t) => unit[t] # "mem"
  BY Stalls DEF InM, Is
<1>7. FenceFire /\ InX(t) => unit[t] = "fence"
  BY Stalls DEF InX
<1>8. InX(t) /\ unit[t] = "fence" /\ ~FenceBusy => FenceFire
  BY DEF InX, FenceFire, Is
<1>9. InF(t) => ~FenceFire
  BY <1>1 DEF Units, FenceFire, FenceBusy, InF
<1> QED
  BY <1>3, <1>4, <1>5, <1>6, <1>7, <1>8, <1>9 DEF HeadOnly

(* A tag about to be allocated is nobody's.                                *)
LEMMA FreshIdle ==
  ASSUME Inv, NEW new \in Incoming, NEW mis \in BOOLEAN, NEW resp \in BOOLEAN,
         NEW fin \in BOOLEAN, NEW ack \in BOOLEAN, Cycle(new, mis, resp, fin, ack),
         NEW t \in Tag, Fresh(new, t)
  PROVE  ~Pending(t) /\ pend = {} /\ ~mis
<1>1. Window
  BY Parts
<1>2. ~InWindow(t) /\ pend = {} /\ ~mis
  BY NextWindow DEF Fresh
<1> QED
  BY <1>1, <1>2 DEF Window, Pending

(* Every way from one place to the next.                                   *)
LEMMA Moves ==
  ASSUME Inv, Unmixed, NEW new \in Incoming, NEW mis \in BOOLEAN, NEW resp \in BOOLEAN,
         NEW fin \in BOOLEAN, NEW ack \in BOOLEAN, Cycle(new, mis, resp, fin, ack),
         NEW t \in Tag
  PROVE  /\ InD(t)' <=> Fresh(new, t)
         /\ InI(t)' <=> \/ InI(t) /\ ~Killed(t) /\ ~Issues(mis, t)
                        \/ InD(t) /\ ~mis /\ pend = {}
         /\ InX(t)' <=> Issues(mis, t) \/ (StallFp /\ InX(t))
         /\ InM(t)' <=> IF CanCapture THEN InX(t) /\ unit[t] # "fence" ELSE InM(t)
         /\ InL(t)' <=> (InL(t) /\ ~resp) \/ (InM(t) /\ unit[t] = "mem")
         /\ InW(t)' <=> resp /\ InL(t)
         /\ InF(t)' <=> IF FenceFire THEN InX(t) ELSE InF(t) /\ ~ack
         /\ Issues(mis, t) => InI(t) /\ (unit[t] \in HeadOnly => t = head)
         /\ Issues(mis, t) => ~StallFp /\ ~FenceBusy /\ ~mis /\ pend = {}
         /\ Fresh(new, t) => ~Pending(t) /\ pend = {} /\ ~mis
<1>1. /\ InD(t)' <=> Fresh(new, t)
      /\ InI(t)' <=> \/ InI(t) /\ ~Killed(t) /\ ~Issues(mis, t)
                     \/ InD(t) /\ ~mis /\ pend = {}
  BY NextWaiting
<1>2. /\ InX(t)' <=> Issues(mis, t) \/ (StallFp /\ InX(t))
      /\ InM(t)' <=> IF CanCapture THEN InX(t) /\ unit[t] # "fence" ELSE InM(t)
      /\ InF(t)' <=> IF FenceFire THEN InX(t) ELSE InF(t) /\ ~ack
  BY NextExecuting
<1>3. /\ InL(t)' <=> (InL(t) /\ ~resp) \/ (InM(t) /\ unit[t] = "mem")
      /\ InW(t)' <=> resp /\ InL(t)
  BY NextMemory
<1>4. Issues(mis, t) => InI(t) /\ (unit[t] \in HeadOnly => t = head)
  BY Selects
<1>5. Issues(mis, t) => ~StallFp /\ ~FenceBusy /\ ~mis /\ pend = {}
  BY Selects DEF Issues
<1>6. Fresh(new, t) => ~Pending(t) /\ pend = {} /\ ~mis
  BY FreshIdle
<1> QED
  BY <1>1, <1>2, <1>3, <1>4, <1>5, <1>6

(* It is in one place at most, and stays pending while it is in one.       *)
LEMMA OnePlace ==
  ASSUME Inv, Unmixed, NEW new \in Incoming, NEW mis \in BOOLEAN, NEW resp \in BOOLEAN,
         NEW fin \in BOOLEAN, NEW ack \in BOOLEAN, Cycle(new, mis, resp, fin, ack),
         NEW t \in Tag
  PROVE  Apart(t)'
<1>1. /\ InD(t)' <=> Fresh(new, t)
      /\ InI(t)' <=> \/ InI(t) /\ ~Killed(t) /\ ~Issues(mis, t)
                     \/ InD(t) /\ ~mis /\ pend = {}
      /\ InX(t)' <=> Issues(mis, t) \/ (StallFp /\ InX(t))
      /\ InM(t)' <=> IF CanCapture THEN InX(t) /\ unit[t] # "fence" ELSE InM(t)
      /\ InL(t)' <=> (InL(t) /\ ~resp) \/ (InM(t) /\ unit[t] = "mem")
      /\ InW(t)' <=> resp /\ InL(t)
      /\ InF(t)' <=> IF FenceFire THEN InX(t) ELSE InF(t) /\ ~ack
      /\ Issues(mis, t) => InI(t) /\ ~StallFp /\ ~FenceBusy
      /\ Fresh(new, t) => ~Pending(t)
  BY Moves
<1>2. /\ Apart(t) /\ (Somewhere(t) => Pending(t))
      /\ FenceBusy => ~InM(t)
      /\ StallFp /\ InM(t) => unit[t] # "mem"
      /\ FenceFire /\ InX(t) => unit[t] = "fence"
      /\ InF(t) => ~FenceFire
  BY Here
<1>3. /\ CanCapture <=> ~FenceBusy /\ ~StallFp
      /\ FenceFire => ~StallFp
  BY Stalls
<1>4. CASE Fresh(new, t)
  BY <1>1, <1>2, <1>4 DEF Apart, Somewhere
<1>5. CASE ~Fresh(new, t) /\ (InD(t) \/ InI(t))
  BY <1>1, <1>2, <1>5 DEF Apart
<1>6. CASE ~Fresh(new, t) /\ InX(t)
  BY <1>1, <1>2, <1>3, <1>6 DEF Apart
<1>7. CASE ~Fresh(new, t) /\ InM(t)
  BY <1>1, <1>2, <1>3, <1>7 DEF Apart
<1>8. CASE ~Fresh(new, t) /\ ~(InD(t) \/ InI(t) \/ InX(t) \/ InM(t))
  BY <1>1, <1>2, <1>8 DEF Apart
<1> QED
  BY <1>4, <1>5, <1>6, <1>7, <1>8

(* What is in some place a cycle later is pending then.                    *)
LEMMA StillPending ==
  ASSUME Inv, Unmixed, NEW new \in Incoming, NEW mis \in BOOLEAN, NEW resp \in BOOLEAN,
         NEW fin \in BOOLEAN, NEW ack \in BOOLEAN, Cycle(new, mis, resp, fin, ack),
         NEW t \in Tag, Somewhere(t)'
  PROVE  /\ Pending(t)'
         /\ ~Fresh(new, t) => /\ Somewhere(t) /\ Pending(t) /\ unit'[t] = unit[t]
                              /\ t = head => head' = head
<1>1. /\ InD(t)' <=> Fresh(new, t)
      /\ InI(t)' <=> \/ InI(t) /\ ~Killed(t) /\ ~Issues(mis, t)
                     \/ InD(t) /\ ~mis /\ pend = {}
      /\ InX(t)' <=> Issues(mis, t) \/ (StallFp /\ InX(t))
      /\ InM(t)' <=> IF CanCapture THEN InX(t) /\ unit[t] # "fence" ELSE InM(t)
      /\ InL(t)' <=> (InL(t) /\ ~resp) \/ (InM(t) /\ unit[t] = "mem")
      /\ InW(t)' <=> resp /\ InL(t)
      /\ InF(t)' <=> IF FenceFire THEN InX(t) ELSE InF(t) /\ ~ack
      /\ Issues(mis, t) => InI(t) /\ ~StallFp /\ ~FenceBusy /\ ~mis /\ pend = {}
  BY Moves
<1>2. /\ Apart(t) /\ (Somewhere(t) => Pending(t))
      /\ pend # {} => /\ ~InD(t) /\ ~InX(t)
                      /\ InM(t) \/ InL(t) \/ InW(t) \/ InF(t) => t = head
      /\ FenceBusy => ~InM(t)
      /\ StallFp /\ InM(t) => unit[t] # "mem"
      /\ FenceFire /\ InX(t) => unit[t] = "fence"
      /\ InF(t) => ~FenceFire
  BY Here
<1>3. CanCapture <=> ~FenceBusy /\ ~StallFp
  BY Stalls
<1>4. Types /\ Window /\ Redirects
  BY Parts
<1>5. Killed(t) => pend # {} /\ t # head
  BY <1>4, Squashed
<1>6. t \in Completing(ack) => \/ ~StallFp /\ InM(t) /\ unit[t] # "mem"
                               \/ InW(t)
                               \/ ack /\ InF(t)
  BY <1>4, Completes
<1>7. /\ Pending(t)' <=> \/ Fresh(new, t)
                         \/ Pending(t) /\ ~Killed(t) /\ t \notin Completing(ack)
      /\ Pending(t)' /\ ~Fresh(new, t) => unit'[t] = unit[t]
  BY NextPending
<1>8. CASE Fresh(new, t)
  BY <1>7, <1>8
<1>9. CASE ~Fresh(new, t)
  <2>1. \/ InI(t)' \/ InX(t)' \/ InM(t)' \/ InL(t)' \/ InW(t)' \/ InF(t)'
    BY <1>1, <1>9 DEF Somewhere
  <2>2. Somewhere(t)
    BY <1>1, <2>1 DEF Somewhere
  <2>3. ~Killed(t)
    BY <1>1, <1>2, <1>5, <2>1
  <2>4. t \notin Completing(ack)
    <3>1. CASE InD(t) \/ InI(t)
      BY <1>2, <1>6, <3>1 DEF Apart
    <3>2. CASE InX(t) \/ InL(t)
      BY <1>2, <1>6, <3>2 DEF Apart
    <3>3. CASE InM(t)
      BY <1>1, <1>2, <1>3, <1>6, <2>1, <3>3 DEF Apart
    <3>4. CASE InW(t)
      BY <1>1, <1>2, <2>1, <3>4 DEF Apart
    <3>5. CASE InF(t)
      BY <1>1, <1>2, <1>6, <2>1, <3>5 DEF Apart
    <3> QED
      BY <2>2, <3>1, <3>2, <3>3, <3>4, <3>5 DEF Somewhere
  <2>5. Pending(t)
    BY <1>2, <2>2
  <2>6. t = head => head' = head
    <3> HAVE t = head
    <3>1. unit[head] # "done"
      BY <2>5 DEF Pending
    <3> QED
      BY <3>1, NextWindow
  <2> QED
    BY <1>7, <1>9, <2>2, <2>3, <2>4, <2>5, <2>6
<1> QED
  BY <1>8, <1>9

(* The head stays the head while it executes.                              *)
LEMMA NextStages ==
  ASSUME Inv, Unmixed, NEW new \in Incoming, NEW mis \in BOOLEAN, NEW resp \in BOOLEAN,
         NEW fin \in BOOLEAN, NEW ack \in BOOLEAN, Cycle(new, mis, resp, fin, ack)
  PROVE  Stages'
<1> SUFFICES ASSUME NEW t \in Tag
             PROVE  /\ Apart(t)'
                    /\ Somewhere(t)' => Pending(t)'
                    /\ InD(t)' => Succ(t) = tail'
                    /\ InX(t)' \/ InM(t)' => (unit'[t] \in HeadOnly => t = head')
                    /\ InL(t)' \/ InW(t)' => unit'[t] = "mem" /\ t = head'
                    /\ InF(t)' => unit'[t] = "fence" /\ t = head'
                    /\ InM(t)' => unit'[t] # "fence"
  BY DEF Stages
<1>1. Apart(t)'
  BY OnePlace
<1>2. Somewhere(t)' => Pending(t)'
  BY StillPending
<1>3. /\ InD(t)' <=> Fresh(new, t)
      /\ InX(t)' <=> Issues(mis, t) \/ (StallFp /\ InX(t))
      /\ InM(t)' <=> IF CanCapture THEN InX(t) /\ unit[t] # "fence" ELSE InM(t)
      /\ InL(t)' <=> (InL(t) /\ ~resp) \/ (InM(t) /\ unit[t] = "mem")
      /\ InW(t)' <=> resp /\ InL(t)
      /\ InF(t)' <=> IF FenceFire THEN InX(t) ELSE InF(t) /\ ~ack
      /\ Issues(mis, t) => (unit[t] \in HeadOnly => t = head)
  BY Moves
<1>4. /\ FenceFire /\ InX(t) => unit[t] = "fence"
      /\ InX(t) \/ InM(t) => (unit[t] \in HeadOnly => t = head)
      /\ InL(t) \/ InW(t) => unit[t] = "mem" /\ t = head
      /\ InF(t) => unit[t] = "fence" /\ t = head
      /\ InM(t) => unit[t] # "fence"
  BY Here
<1>5. InD(t)' => Succ(t) = tail'
  <2> HAVE InD(t)'
  <2>1. new # {} /\ t = tail
    BY <1>3 DEF Fresh
  <2> QED
    BY <2>1, NextWindow
<1>6. Somewhere(t)' /\ ~InD(t)' => unit'[t] = unit[t] /\ (t = head => head' = head)
  BY <1>3, StillPending
<1>7. InD(t)' => ~(InX(t)' \/ InM(t)' \/ InL(t)' \/ InW(t)' \/ InF(t)')
  BY <1>1 DEF Apart
<1>8. ASSUME InX(t)' \/ InM(t)' \/ InL(t)' \/ InW(t)' \/ InF(t)'
      PROVE  unit'[t] = unit[t] /\ (t = head => t = head')
  BY <1>6, <1>7, <1>8 DEF Somewhere
<1>9. "mem" \in HeadOnly /\ "fence" \in HeadOnly
  BY DEF HeadOnly
<1>10. InX(t)' \/ InM(t)' => (unit[t] \in HeadOnly => t = head)
  BY <1>3, <1>4
<1>11. InL(t)' \/ InW(t)' => unit[t] = "mem" /\ t = head
  BY <1>3, <1>4, <1>9
<1>12. InF(t)' => unit[t] = "fence" /\ t = head
  BY <1>3, <1>4, <1>9
<1>13. InM(t)' => unit[t] # "fence"
  BY <1>3, <1>4
<1> QED
  BY <1>1, <1>2, <1>5, <1>8, <1>10, <1>11, <1>12, <1>13

(* A misprediction squashes, a cycle later, what the redirect took from    *)
(* ID/EX, and the branch is in EX/MEM then.                                *)
LEMMA NextRedirects ==
  ASSUME Inv, Unmixed, NEW new \in Incoming, NEW mis \in BOOLEAN, NEW resp \in BOOLEAN,
         NEW fin \in BOOLEAN, NEW ack \in BOOLEAN, Cycle(new, mis, resp, fin, ack)
  PROVE  /\ pend' = IF mis THEN {head} ELSE {}
         /\ mis => /\ InX(head) /\ Pending(head) /\ head' = head
                   /\ exmem' = {head} /\ unit'[head] = "branch" /\ ex' = {} /\ d1' = {}
<1>1. /\ pend' = IF mis THEN ex ELSE {}
      /\ mis => Is(ex, "branch")
      /\ exmem' = IF CanCapture THEN {t \in ex : unit[t] # "fence"} ELSE exmem
      /\ new # {} => MayAlloc(mis)
      /\ d1' = {[tag |-> tail, dep |-> n.dep] : n \in new}
  BY DEF Cycle, Reorder, Execute
<1>2. mis => ex = {head} /\ unit[head] = "branch" /\ CanCapture /\ ~StallFp
  BY <1>1, Stalls
<1>3. ASSUME mis
      PROVE  /\ InX(head) /\ Pending(head) /\ head' = head
             /\ exmem' = {head} /\ unit'[head] = "branch" /\ ex' = {} /\ d1' = {}
  <2>1. exmem' = {head}
    BY <1>1, <1>2, <1>3
  <2>2. new = {}
    BY <1>1, <1>3 DEF MayAlloc, Redirecting
  <2>3. d1' = {}
    BY <1>1, <2>2
  <2>4. Selected(mis) = {}
    BY <1>3, Selects
  <2>5. ex' = {}
    BY <1>2, <1>3, <2>4, NextExecuting
  <2>6. PICK h \in Tag : h = head
    BY Parts DEF Types, Plain
  <2>7. InX(head) /\ Pending(head)
    BY <1>2, <1>3 DEF InX, Pending
  <2>8. Somewhere(h)'
    <3>1. InM(h)'
      BY <2>1, <2>6 DEF InM
    <3> QED
      BY <3>1 DEF Somewhere
  <2>9. ~Fresh(new, h)
    BY <2>2 DEF Fresh
  <2>10. unit'[head] = unit[head] /\ head' = head
    <3>1. unit'[h] = unit[h] /\ (h = head => head' = head)
      BY <2>8, <2>9, StillPending
    <3> QED
      BY <2>6, <3>1
  <2> QED
    BY <1>2, <1>3, <2>1, <2>3, <2>5, <2>7, <2>10
<1> QED
  BY <1>1, <1>2, <1>3

(* A fence in progress is alone in EX/MEM and the only ordered operation.  *)
LEMMA NextUnits ==
  ASSUME Inv, Unmixed, NEW new \in Incoming, NEW mis \in BOOLEAN, NEW resp \in BOOLEAN,
         NEW fin \in BOOLEAN, NEW ack \in BOOLEAN, Cycle(new, mis, resp, fin, ack)
  PROVE  Units'
<1>1. /\ fence' = CASE FenceFire -> "drain"
                    [] fence = "drain" /\ lsq = <<>> -> "wait"
                    [] fence = "wait" /\ ack -> "idle"
                    [] OTHER -> fence
      /\ fencePend' = IF FenceFire THEN ex ELSE IF ack THEN {} ELSE fencePend
      /\ exmem' = IF CanCapture THEN {t \in ex : unit[t] # "fence"} ELSE exmem
      /\ ack => fence = "wait"
  BY DEF Cycle, FenceFsm, Execute
<1>2. fence \in {"idle", "drain", "wait"} /\ ((fence = "idle") <=> (fencePend = {}))
  BY Parts DEF Types, Plain, Units
<1>3. /\ FenceBusy => exmem = {}
      /\ FenceFire => ex = {head} /\ unit[head] = "fence" /\ ~StallFp /\ ~FenceBusy
      /\ CanCapture <=> ~FenceBusy /\ ~StallFp
  BY Stalls
<1>4. FenceFire => fence = "idle"
  BY DEF FenceFire, FenceBusy
<1>5. ((fence = "idle") <=> (fencePend = {}))'
  <2>1. CASE FenceFire
    <3>1. fence' = "drain" /\ fencePend' = {head}
      BY <1>1, <1>3, <1>4, <2>1
    <3> QED
      BY <3>1
  <2>2. CASE ~FenceFire /\ ack
    <3>1. fence' = "idle" /\ fencePend' = {}
      BY <1>1, <2>2
    <3> QED
      BY <3>1
  <2>3. CASE ~FenceFire /\ ~ack
    <3>1. fencePend' = fencePend /\ (fence' = "idle" <=> fence = "idle")
      BY <1>1, <1>2, <2>3
    <3> QED
      BY <1>2, <3>1
  <2> QED
    BY <2>1, <2>2, <2>3
<1>6. fence' # "idle" => FenceFire \/ FenceBusy
  BY <1>1, <1>2 DEF FenceBusy
<1>7. FenceFire => exmem' = {}
  BY <1>1, <1>3
<1>8. FenceBusy => exmem' = {}
  BY <1>1, <1>3
<1>9. ASSUME FenceFire \/ FenceBusy, NEW t \in ex'
      PROVE  unit'[t] \notin HeadOnly
  <2>1. t \in Tag /\ InX(t)'
    <3>1. Plain'
      BY Parts, NextPlain
    <3> QED
      BY <3>1 DEF Plain, Small, InX
  <2>2. unit'[t] = unit[t] /\ ~Fresh(new, t)
    <3>1. Apart(t)'
      BY <2>1, OnePlace
    <3>2. ~Fresh(new, t)
      BY <2>1, <3>1, Moves DEF Apart
    <3> QED
      BY <2>1, <3>2, StillPending DEF Somewhere
  <2>3. Issues(mis, t) \/ (StallFp /\ InX(t))
    BY <2>1, Moves
  <2>4. CASE Issues(mis, t)
    <3>1. ~FenceBusy /\ InI(t) /\ (unit[t] \in HeadOnly => t = head)
      BY <2>1, <2>4, Moves
    <3>2. t # head
      <4>1. ex = {head}
        BY <1>3, <1>9, <3>1
      <4>2. ~InX(t)
        BY <2>1, <3>1, Here DEF Apart
      <4> QED
        BY <4>1, <4>2 DEF InX
    <3> QED
      BY <2>2, <3>1, <3>2
  <2>5. CASE StallFp /\ InX(t)
    BY <1>3, <1>9, <2>1, <2>2, <2>5, Here
  <2> QED
    BY <2>3, <2>4, <2>5
<1> QED
  BY <1>5, <1>6, <1>7, <1>8, <1>9 DEF Units

-----------------------------------------------------------------------------
(* One clock edge: the stations.                                           *)

(* No two stations hold one instruction.                                   *)
LEMMA NextDistinct ==
  ASSUME Inv, Unmixed, NEW new \in Incoming, NEW mis \in BOOLEAN, NEW resp \in BOOLEAN,
         NEW fin \in BOOLEAN, NEW ack \in BOOLEAN, Cycle(new, mis, resp, fin, ack)
  PROVE  Distinct'
<1>1. Types /\ Distinct /\ Stages
  BY Parts
<1> SUFFICES ASSUME NEW e \in iq', NEW f \in iq', e.tag = f.tag
             PROVE  e = f
  BY DEF Distinct
<1> DEFINE FromIq(x, s) == /\ s \in iq /\ x.tag = s.tag /\ x.dep = s.dep
                           /\ x.rdy = (s.rdy \/ (s.dep /\ Woken(s.tag, ack)))
<1> DEFINE FromD1(x, d) == d \in d1 /\ x = [tag |-> d.tag, dep |-> d.dep, rdy |-> Ready(d, ack)]
<1>2. /\ (\E s : FromIq(e, s)) \/ (\E d : FromD1(e, d))
      /\ (\E s : FromIq(f, s)) \/ (\E d : FromD1(f, d))
  BY NextWaiting
<1>3. e \in Station /\ f \in Station
  BY NextWaiting
<1>4. ASSUME NEW s, NEW r, FromIq(e, s), FromIq(f, r)
      PROVE  e = f
  <2>1. s = r
    BY <1>1, <1>4 DEF Distinct
  <2>2. e.tag = f.tag /\ e.dep = f.dep /\ e.rdy = f.rdy
    BY <1>4, <2>1
  <2> QED
    BY <1>3, <2>2 DEF Station
<1>5. ASSUME NEW s, NEW d, NEW x \in iq', FromIq(x, s), d \in d1
      PROVE  x.tag # d.tag
  <2>1. s.tag \in Tag /\ InI(s.tag)
    BY <1>1, <1>5 DEF Types, Plain, Oldest, Station, InI
  <2>2. ~InD(s.tag)
    BY <1>1, <2>1 DEF Stages, Apart
  <2> QED
    BY <1>5, <2>2 DEF InD
<1>6. ASSUME NEW d, NEW c, FromD1(e, d), FromD1(f, c)
      PROVE  e = f
  <2>1. d = c
    BY <1>1, <1>6 DEF Types, Plain, Oldest
  <2> QED
    BY <1>6, <2>1
<1>7. ASSUME NEW d, NEW x, FromD1(x, d)
      PROVE  x.tag = d.tag /\ d \in d1
  BY <1>7
<1> HIDE DEF FromIq, FromD1
<1> QED
  BY <1>2, <1>4, <1>5, <1>6, <1>7

(* The instruction that one in flight reads.                               *)
LEMMA NextBusy ==
  ASSUME Inv, Unmixed, NEW new \in Incoming, NEW mis \in BOOLEAN, NEW resp \in BOOLEAN,
         NEW fin \in BOOLEAN, NEW ack \in BOOLEAN, Cycle(new, mis, resp, fin, ack),
         NEW t \in Tag, Pending(t), ~Killed(t)
  PROVE  /\ Busy(t)' <=> Busy(t) /\ Pred(t) \notin Completing(ack)
         /\ Busy(t)' => unit'[Pred(t)] = unit[Pred(t)]
         /\ Pred(t) \in Completing(ack) => Busy(t)
         /\ Woken(t, ack) <=> Pred(t) \in Completing(ack) /\ unit[Pred(t)] \in Writers
<1>1. Types /\ Window /\ Redirects
  BY Parts
<1>2. PICK p \in Tag : p = Pred(t)
  BY Distances
<1>3. (Busy(t) <=> Pending(p)) /\ (Busy(t)' <=> Pending(p)')
  BY <1>2 DEF Busy, Pred, Pending
<1>4. ~Fresh(new, p)
  <2> SUFFICES ASSUME new # {}, p = tail PROVE FALSE
    BY DEF Fresh
  <2>1. Succ(tail) = t
    BY <1>2, Distances
  <2>2. InWindow(t)
    BY <1>1, Completes
  <2> QED
    BY <2>1, <2>2, NextWindow
<1>5. Pending(p) => ~Killed(p)
  <2> SUFFICES ASSUME Pending(p), Killed(p) PROVE FALSE
    OBVIOUS
  <2>1. pend # {} /\ InWindow(p) /\ p # head
    BY <1>1, Squashed
  <2>2. InWindow(t)
    BY <1>1, Completes
  <2>3. t = head
    BY <1>1, <2>1, <2>2, Squashed
  <2>4. Succ(p) = head /\ head \in Tag /\ tail \in Tag
    BY <1>1, <1>2, <2>3, Distances DEF Types, Plain, Oldest
  <2>5. Dist(p, head) = 2 * DEPTH - 1
    BY <2>4, Distances
  <2>6. Occ <= DEPTH /\ Occ \in Int
    BY <1>1, <2>4, Distances DEF Window, Occ
  <2> QED
    BY <2>1, <2>5, <2>6, DepthsAssumption DEF InWindow
<1>6. /\ Pending(p)' <=> Pending(p) /\ p \notin Completing(ack)
      /\ Pending(p)' => unit'[p] = unit[p]
  BY <1>4, <1>5, NextPending
<1>7. p \in Completing(ack) => Pending(p)
  BY <1>1, Completes
<1>8. Woken(t, ack) <=> p \in Completing(ack) /\ unit[p] \in Writers
  BY <1>2 DEF Woken, Pred
<1> QED
  BY <1>2, <1>3, <1>6, <1>7, <1>8

(* A station is woken in the cycle its source completes, in whatever place *)
(* it then is.                                                             *)
LEMMA NextWoke ==
  ASSUME Inv, Unmixed, NEW new \in Incoming, NEW mis \in BOOLEAN, NEW resp \in BOOLEAN,
         NEW fin \in BOOLEAN, NEW ack \in BOOLEAN, Cycle(new, mis, resp, fin, ack)
  PROVE  Woke'
<1>1. Types /\ Window /\ Stages /\ Redirects /\ Woke
  BY Parts
<1>2. ASSUME NEW e \in iq', e.dep
      PROVE  /\ e.rdy <=> ~Busy(e.tag)'
             /\ Busy(e.tag)' => unit'[Pred(e.tag)] \in Writers
  <2>1. CASE \E f \in iq : /\ ~Killed(f.tag) /\ ~Issues(mis, f.tag)
                           /\ e.tag = f.tag /\ e.dep = f.dep
                           /\ e.rdy = (f.rdy \/ (f.dep /\ Woken(f.tag, ack)))
    <3>1. PICK f \in iq : /\ ~Killed(f.tag) /\ ~Issues(mis, f.tag)
                          /\ e.tag = f.tag /\ e.dep = f.dep
                          /\ e.rdy = (f.rdy \/ (f.dep /\ Woken(f.tag, ack)))
      BY <2>1
    <3>2. PICK t \in Tag : t = f.tag
      BY <1>1 DEF Types, Plain, Oldest, Station
    <3>3. Pending(t)
      BY <1>1, <3>1, <3>2 DEF Stages, Somewhere, InI
    <3>4. /\ f.rdy <=> ~Busy(t)
          /\ Busy(t) => unit[Pred(t)] \in Writers
      BY <1>1, <1>2, <3>1, <3>2 DEF Woke
    <3>5. /\ Busy(t)' <=> Busy(t) /\ Pred(t) \notin Completing(ack)
          /\ Busy(t)' => unit'[Pred(t)] = unit[Pred(t)]
          /\ Pred(t) \in Completing(ack) => Busy(t)
          /\ Woken(t, ack) <=> Pred(t) \in Completing(ack) /\ unit[Pred(t)] \in Writers
      BY <3>1, <3>2, <3>3, NextBusy
    <3>6. e.tag = t /\ (e.rdy <=> f.rdy \/ Woken(t, ack))
      BY <1>2, <3>1, <3>2
    <3>7. /\ e.rdy <=> ~Busy(t)'
          /\ Busy(t)' => unit'[Pred(t)] \in Writers
      BY <3>4, <3>5, <3>6
    <3> QED
      BY <3>6, <3>7
  <2>2. CASE \E d \in d1 : /\ ~mis /\ pend = {}
                           /\ e = [tag |-> d.tag, dep |-> d.dep, rdy |-> Ready(d, ack)]
    <3>1. PICK d \in d1 : /\ ~mis /\ pend = {}
                          /\ e = [tag |-> d.tag, dep |-> d.dep, rdy |-> Ready(d, ack)]
      BY <2>2
    <3>2. PICK t \in Tag : t = d.tag
      BY <1>1 DEF Types, Plain, Oldest, Waiting
    <3>3. Pending(t) /\ ~Killed(t)
      BY <1>1, <3>1, <3>2, Squashed DEF Stages, Somewhere, InD
    <3>4. d.dep /\ e.tag = t /\ e.rdy = Ready(d, ack)
      BY <1>2, <3>1, <3>2
    <3>5. Busy(t) => unit[Pred(t)] \in Writers
      BY <1>1, <3>2, <3>4 DEF Woke
    <3>6. /\ Busy(t)' <=> Busy(t) /\ Pred(t) \notin Completing(ack)
          /\ Busy(t)' => unit'[Pred(t)] = unit[Pred(t)]
          /\ Pred(t) \in Completing(ack) => Busy(t)
          /\ Woken(t, ack) <=> Pred(t) \in Completing(ack) /\ unit[Pred(t)] \in Writers
      BY <3>3, NextBusy
    <3>7. Ready(d, ack) <=> ~Busy(t) \/ Woken(t, ack)
      BY <3>2, <3>4 DEF Ready
    <3>8. /\ e.rdy <=> ~Busy(t)'
          /\ Busy(t)' => unit'[Pred(t)] \in Writers
      BY <3>4, <3>5, <3>6, <3>7
    <3> QED
      BY <3>4, <3>8
  <2> QED
    BY <2>1, <2>2, NextWaiting
<1>3. ASSUME NEW d \in d1', d.dep, Busy(d.tag)'
      PROVE  unit'[Pred(d.tag)] \in Writers
  <2>1. PICK n \in new : d = [tag |-> tail, dep |-> n.dep]
    BY DEF Cycle, Reorder
  <2>2. unit[Pred(tail)] \in Writers
    BY <1>3, <2>1 DEF Cycle, Pred
  <2>3. PICK p \in Tag : p = Pred(tail) /\ p # tail
    <3>1. tail \in Tag
      BY <1>1 DEF Types, Plain, Oldest
    <3>2. Pred(tail) \in Tag /\ Succ(Pred(tail)) = tail
      BY <3>1, Distances
    <3>3. Dist(Pred(tail), Succ(Pred(tail))) = 2 * DEPTH - 1 /\ Dist(tail, tail) = 0
      BY <3>1, <3>2, Distances
    <3>4. Pred(tail) # tail
      BY <3>2, <3>3, DepthsAssumption
    <3> QED
      BY <3>2, <3>4
  <2>4. Pending(p)' /\ ~Fresh(new, p)
    <3>1. d.tag = tail
      BY <2>1
    <3>2. Busy(d.tag)' <=> Pending(p)'
      BY <2>3, <3>1 DEF Busy, Pred, Pending
    <3> QED
      BY <1>3, <2>3, <3>2 DEF Fresh
  <2>5. unit'[p] = unit[p]
    BY <2>4, NextPending
  <2> QED
    BY <2>1, <2>2, <2>3, <2>5
<1> QED
  BY <1>2, <1>3 DEF Woke

-----------------------------------------------------------------------------
(* The invariant is inductive.                                             *)

LEMMA InitInv == Init => Inv
<1> SUFFICES ASSUME Init PROVE Inv
  OBVIOUS
<1>1. Basic
  BY InitBasic
<1>2. head = 0 /\ tail = 0 /\ 0 \in Tag /\ \A t \in Tag : unit[t] = "none"
  BY DepthsAssumption DEF Init, Tag
<1>3. Occ = 0
  BY <1>2, Distances DEF Occ
<1>4. \A t \in Tag : ~InWindow(t) /\ ~Pending(t)
  <2> TAKE t \in Tag
  <2>1. Dist(t, head) \in 0 .. 2 * DEPTH - 1
    BY <1>2, Distances
  <2> QED
    BY <1>2, <1>3, <2>1 DEF InWindow, Pending
<1>5. Window
  BY <1>2, <1>3, <1>4, DepthsAssumption DEF Window
<1>6. \A t \in Tag : ~(InD(t) \/ InI(t) \/ InX(t) \/ InM(t) \/ InL(t) \/ InW(t) \/ InF(t))
  <2>1. DOMAIN <<>> = {}
    OBVIOUS
  <2> QED
    BY <2>1 DEF Init, InD, InI, InX, InM, InL, InW, InF
<1>7. Stages
  BY <1>6 DEF Stages, Apart, Somewhere
<1>8. Oldest /\ Distinct /\ Redirects /\ Units /\ Woke
  BY DEF Init, Oldest, Distinct, Redirects, Units, Woke
<1> QED
  BY <1>1, <1>5, <1>7, <1>8 DEF Inv

(* A redirect and a queued access belong to the head.                      *)
LEMMA NextOldest ==
  ASSUME Inv, Unmixed, NEW new \in Incoming, NEW mis \in BOOLEAN, NEW resp \in BOOLEAN,
         NEW fin \in BOOLEAN, NEW ack \in BOOLEAN, Cycle(new, mis, resp, fin, ack)
  PROVE  Oldest' /\ Redirects' /\ Window'
<1>1. (lsq = <<>> \/ lsq = <<head>>)'
  BY NextMemory
<1>2. /\ pend' = IF mis THEN {head} ELSE {}
      /\ mis => /\ InX(head) /\ Pending(head) /\ head' = head
                /\ exmem' = {head} /\ unit'[head] = "branch" /\ ex' = {} /\ d1' = {}
  BY NextRedirects
<1>3. (pend = {} \/ pend = {head})'
  BY <1>2
<1>4. Redirects'
  BY <1>2 DEF Redirects
<1>5. Types /\ Window /\ Basic
  BY Parts
<1>6. ASSUME NEW t \in Tag
      PROVE  unit'[t] = "none" <=> ~InWindow(t)'
  <2>1. InWindow(t)' <=> \/ Fresh(new, t)
                         \/ InWindow(t) /\ t \notin Retiring /\ ~Killed(t)
    BY NextWindow
  <2>2. CASE Fresh(new, t)
    <3>1. unit'[t] \in program /\ program \subseteq AllUnits
      BY <1>5, <2>2, NextUnit, MixesAssumption DEF Types, Plain
    <3> QED
      BY <2>1, <2>2, <3>1 DEF AllUnits
  <2>3. CASE ~Fresh(new, t)
    <3>1. unit'[t] = IF t \in Retiring \/ Killed(t) THEN "none"
                     ELSE IF t \in Completing(ack) THEN "done" ELSE unit[t]
      BY <1>5, <2>3, NextUnit
    <3>2. t \in Completing(ack) => Pending(t) /\ InWindow(t)
      BY <1>5, Completes
    <3>3. unit[t] = "none" <=> ~InWindow(t)
      BY <1>5 DEF Window
    <3> QED
      BY <2>1, <2>3, <3>1, <3>2, <3>3
  <2> QED
    BY <2>2, <2>3
<1>7. Window'
  BY <1>6, NextWindow DEF Window
<1> QED
  BY <1>1, <1>3, <1>4, <1>7 DEF Oldest

LEMMA NextInv == Unmixed /\ Inv /\ [Next]_vars => Inv'
<1>1. ASSUME Unmixed, Inv, Next PROVE Inv'
  <2>1. PICK new \in Incoming, mis \in BOOLEAN, resp \in BOOLEAN, fin \in BOOLEAN,
             ack \in BOOLEAN : Cycle(new, mis, resp, fin, ack)
    BY <1>1 DEF Next
  <2>2. Basic'
    BY <1>1, Parts, NextBasic
  <2>3. Oldest' /\ Redirects' /\ Window'
    BY <1>1, <2>1, NextOldest
  <2>4. Stages' /\ Units'
    BY <1>1, <2>1, NextStages, NextUnits
  <2>5. Distinct' /\ Woke'
    BY <1>1, <2>1, NextDistinct, NextWoke
  <2> QED
    BY <2>2, <2>3, <2>4, <2>5 DEF Inv
<1>2. ASSUME Inv, UNCHANGED vars PROVE Inv'
  <2>1. Basic'
    BY <1>2, Parts, NextBasic
  <2>2. Oldest' /\ Distinct' /\ Redirects' /\ Units' /\ Woke'
    BY <1>2 DEF Inv, Oldest, Distinct, Redirects, Units, Woke, vars, Busy, Pending
  <2>3. Window'
    BY <1>2 DEF Inv, Window, vars, Occ, InWindow
  <2>4. Stages'
    BY <1>2 DEF Inv, Stages, Apart, Somewhere, Pending, InD, InI, InX, InM, InL, InW, InF, vars
  <2> QED
    BY <2>1, <2>2, <2>3, <2>4 DEF Inv
<1> QED
  BY <1>1, <1>2

(* While a fence drains nothing else is in the execute stage, when the     *)
(* program has no instruction that could issue beside it.                  *)
Quiet == fence # "idle" => ex = {}
LEMMA NextKept ==
  ASSUME Inv, Unmixed, Ordered, Kept, Quiet,
         NEW new \in Incoming, NEW mis \in BOOLEAN, NEW resp \in BOOLEAN,
         NEW fin \in BOOLEAN, NEW ack \in BOOLEAN, Cycle(new, mis, resp, fin, ack)
  PROVE  Kept'
<1> SUFFICES ASSUME NEW t \in Tag, Pending(t)'
             PROVE  Somewhere(t)' \/ (pend' # {} /\ t # head')
  BY DEF Kept
<1>1. /\ InD(t)' <=> Fresh(new, t)
      /\ InI(t)' <=> \/ InI(t) /\ ~Killed(t) /\ ~Issues(mis, t)
                     \/ InD(t) /\ ~mis /\ pend = {}
      /\ InX(t)' <=> Issues(mis, t) \/ (StallFp /\ InX(t))
      /\ InM(t)' <=> IF CanCapture THEN InX(t) /\ unit[t] # "fence" ELSE InM(t)
      /\ InL(t)' <=> (InL(t) /\ ~resp) \/ (InM(t) /\ unit[t] = "mem")
      /\ InW(t)' <=> resp /\ InL(t)
      /\ InF(t)' <=> IF FenceFire THEN InX(t) ELSE InF(t) /\ ~ack
  BY Moves
<1>2. /\ Apart(t)
      /\ pend # {} => ~InD(t)
      /\ FenceBusy => ~InM(t)
      /\ InX(t) /\ unit[t] = "fence" /\ ~FenceBusy => FenceFire
      /\ InF(t) => ~FenceFire
  BY Here
<1>3. /\ CanCapture <=> ~FenceBusy /\ ~StallFp
      /\ FenceBusy => ~InX(t)
  BY Stalls DEF Quiet, FenceBusy, InX
<1>4. Types /\ Window /\ Redirects
  BY Parts
<1>5. CASE Fresh(new, t)
  BY <1>1, <1>5 DEF Somewhere
<1>6. CASE ~Fresh(new, t)
  <2>1. Pending(t) /\ ~Killed(t) /\ t \notin Completing(ack)
    BY <1>6, NextPending
  <2>2. Somewhere(t)
    <3>1. InWindow(t)
      BY <1>4, <2>1, Completes
    <3>2. ~(pend # {} /\ t # head)
      BY <1>4, <2>1, <3>1, Squashed
    <3> QED
      BY <1>4, <2>1, <3>2 DEF Kept
  <2>3. /\ InM(t) => StallFp \/ unit[t] = "mem"
        /\ ~InW(t)
        /\ InF(t) => ~ack
    BY <1>4, <2>1, Completes
  <2>4. CASE InD(t)
    <3>1. mis => InX(head) /\ head' = head /\ pend' = {head}
      BY NextRedirects
    <3>2. mis => t # head'
      BY <1>2, <2>4, <3>1 DEF Apart
    <3> QED
      BY <1>1, <1>2, <2>4, <3>1, <3>2 DEF Somewhere
  <2>5. CASE InI(t)
    BY <1>1, <2>1, <2>5 DEF Somewhere
  <2>6. CASE InX(t)
    BY <1>1, <1>2, <1>3, <2>6 DEF Somewhere
  <2>7. CASE InM(t)
    BY <1>1, <1>3, <2>3, <2>7 DEF Somewhere
  <2>8. CASE InL(t)
    BY <1>1, <2>8 DEF Somewhere
  <2>9. CASE InF(t)
    BY <1>1, <1>2, <2>3, <2>9 DEF Somewhere
  <2> QED
    BY <2>2, <2>3, <2>4, <2>5, <2>6, <2>7, <2>8, <2>9 DEF Somewhere
<1> QED
  BY <1>5, <1>6

LEMMA NextQuiet ==
  ASSUME Inv, Unmixed, Ordered, Quiet, NEW new \in Incoming, NEW mis \in BOOLEAN,
         NEW resp \in BOOLEAN, NEW fin \in BOOLEAN, NEW ack \in BOOLEAN,
         Cycle(new, mis, resp, fin, ack)
  PROVE  Quiet'
<1>1. Types /\ Stages
  BY Parts
<1>2. fence' = CASE FenceFire -> "drain"
                 [] fence = "drain" /\ lsq = <<>> -> "wait"
                 [] fence = "wait" /\ ack -> "idle"
                 [] OTHER -> fence
  BY DEF Cycle, FenceFsm
<1>3. fence' # "idle" => FenceFire \/ FenceBusy
  BY <1>1, <1>2 DEF FenceBusy, Types, Plain
<1>4. CASE FenceBusy
  <2>1. ex = {} /\ ~StallFp
    BY <1>4 DEF Quiet, FenceBusy, StallFp, Is
  <2>2. Selected(mis) = {}
    BY <1>4, Selects
  <2>3. ex' = {}
    BY <2>1, <2>2, NextExecuting
  <2> QED
    BY <2>3 DEF Quiet
<1>5. CASE FenceFire
  <2>1. ex = {head} /\ unit[head] = "fence" /\ ~StallFp
    BY <1>5, Stalls
  <2>2. head \in Tag /\ InX(head)
    BY <1>1, <2>1 DEF Types, Plain, InX
  <2>3. \A t \in Tag : Pending(t) => unit[t] \in program
    BY <1>1 DEF Types, Plain, Pending
  <2>4. "fence" \in program /\ program \in Mixes
    BY <1>1, <2>1, <2>2, <2>3 DEF Stages, Somewhere, Types, Plain
  <2>5. program \cap {"alu", "muldiv"} = {} /\ program \subseteq AllUnits
    BY <2>4, MixesAssumption DEF Ordered
  <2>6. program \subseteq HeadOnly
    BY <2>5 DEF HeadOnly, AllUnits
  <2>7. Selected(mis) = {}
    <3> SUFFICES ASSUME NEW e \in Selected(mis) PROVE FALSE
      OBVIOUS
    <3>1. PICK t \in Tag : t = e.tag /\ Issues(mis, t)
      BY <1>1, Selects DEF Issues, Types, Plain, Station
    <3>2. InI(t) /\ (unit[t] \in HeadOnly => t = head)
      BY <3>1, Selects
    <3>3. unit[t] \in program
      BY <1>1, <2>3, <3>2 DEF Stages, Somewhere
    <3>4. t = head
      BY <2>6, <3>2, <3>3
    <3> QED
      BY <1>1, <2>2, <3>2, <3>4 DEF Stages, Apart
  <2>8. ex' = {}
    BY <2>1, <2>7, NextExecuting
  <2> QED
    BY <2>8 DEF Quiet
<1> QED
  BY <1>3, <1>4, <1>5 DEF Quiet

-----------------------------------------------------------------------------
(* What follows.                                                           *)

(* A station's source bit is set exactly when the instruction it reads has *)
(* completed, in whatever cycle it was dispatched: a wakeup is neither lost*)
(* nor early (cpu_issue_queue.sv:372).  For every program without a        *)
(* multiplication beside its memory accesses.                              *)
THEOREM WakeupsExact ==
  ASSUME Unmixed
  PROVE  Spec => []WakeupExact
<1>1. Inv => WakeupExact
  BY DEF Inv, Woke, WakeupExact
<1> QED
  BY <1>1, InitInv, NextInv, PTL DEF Spec

(* No access is in the load and store queue twice (cpu_lsq.sv:3), under    *)
(* the same premise: with a multiplication in EX behind it, an access that *)
(* waits in EX/MEM would be enqueued every cycle.                          *)
THEOREM AccessesOnce ==
  ASSUME Unmixed
  PROVE  Spec => []AccessOnce
<1>1. Inv => AccessOnce
  <2> SUFFICES ASSUME Inv PROVE IsInjective(lsq)
    BY DEF AccessOnce
  <2>1. lsq = <<>> \/ lsq = <<head>>
    BY DEF Inv, Oldest
  <2>2. IsInjective(<<>>) /\ IsInjective(<<head>>)
    BY DEF IsInjective
  <2> QED
    BY <2>1, <2>2
<1> QED
  BY <1>1, InitInv, NextInv, PTL DEF Spec

(* A memory access, a branch or a fence that has left the stations is the  *)
(* oldest instruction, which no squash can take back (cpu_issue_queue.sv:199).   *)
THEOREM NeverSpeculative ==
  ASSUME Unmixed
  PROVE  Spec => []AccessAtHead
<1>1. Inv => AccessAtHead
  <2> SUFFICES ASSUME Inv, NEW t \in ex \cup exmem \cup ToSet(lsq) \cup memwb \cup fencePend,
                      unit[t] \in HeadOnly
               PROVE  t = head /\ ~Empty
    BY DEF AccessAtHead
  <2>1. Types /\ Stages /\ Window
    BY Parts
  <2>2. t \in Tag /\ (InX(t) \/ InM(t) \/ InL(t) \/ InW(t) \/ InF(t))
    <3>1. t \in ToSet(lsq) => t \in Tag /\ InL(t)
      BY <2>1 DEF ToSet, InL, Types, Plain
    <3> QED
      BY <2>1, <3>1 DEF Types, Plain, Small, InX, InM, InW, InF
  <2>3. t = head /\ Pending(t)
    BY <2>1, <2>2 DEF Stages, Somewhere
  <2>4. InWindow(t)
    BY <2>1, <2>2, <2>3, Completes
  <2>5. ~Empty
    <3>1. head \in Tag /\ tail \in Tag
      BY <2>1 DEF Types, Plain
    <3>2. Empty => Occ = 0
      BY <3>1, Distances DEF Empty, Occ
    <3>3. Dist(t, head) \in Nat
      BY <2>2, <3>1, Distances
    <3> QED
      BY <2>4, <3>2, <3>3 DEF InWindow
  <2> QED
    BY <2>3, <2>5
<1> QED
  BY <1>1, InitInv, NextInv, PTL DEF Spec

(* No instruction is lost between allocation and completion: a pending one *)
(* is in some stage or about to be squashed.  Ordered excludes the programs*)
(* that lose one: those where a fence meets an ALU operation or a          *)
(* multiplication, which may issue in the cycle the fence begins to drain. *)
THEOREM NothingLost ==
  ASSUME Unmixed, Ordered
  PROVE  Spec => []NoOpLost
<1> DEFINE All == Inv /\ Kept /\ Quiet
<1>1. Init => All
  <2> SUFFICES ASSUME Init PROVE Kept /\ Quiet
    BY InitInv
  <2>1. \A t \in Tag : ~Pending(t)
    BY DEF Init, Pending
  <2> QED
    BY <2>1 DEF Kept, Quiet, Init
<1>2. All /\ [Next]_vars => All'
  <2> SUFFICES ASSUME Inv, Kept, Quiet, [Next]_vars PROVE Kept' /\ Quiet'
    BY NextInv
  <2>1. CASE Next
    <3>1. PICK new \in Incoming, mis \in BOOLEAN, resp \in BOOLEAN, fin \in BOOLEAN,
               ack \in BOOLEAN : Cycle(new, mis, resp, fin, ack)
      BY <2>1 DEF Next
    <3> QED
      BY <3>1, NextKept, NextQuiet
  <2>2. CASE UNCHANGED vars
    BY <2>2 DEF Kept, Quiet, Somewhere, Pending, InD, InI, InX, InM, InL, InW, InF, vars
  <2> QED
    BY <2>1, <2>2
<1>3. All => NoOpLost
  <2> SUFFICES ASSUME Inv, Kept, NEW t \in Tag, Unexecuted(t)
               PROVE  \/ \E n \in DOMAIN Places(t) : Places(t)[n]
                      \/ pend # {} /\ Younger(t)
    BY DEF NoOpLost
  <2>1. Types /\ Window /\ Redirects
    BY Parts
  <2>2. Pending(t) /\ InWindow(t)
    BY DEF Unexecuted
  <2>3. CASE pend # {} /\ t # head
    <3>1. Killed(t)
      BY <2>1, <2>2, <2>3, Squashed
    <3> QED
      BY <2>3, <3>1 DEF Killed
  <2>4. CASE Somewhere(t)
    <3>1. Places(t) = <<InD(t), InI(t), InX(t), InM(t), InL(t), InW(t), InF(t)>>
      BY DEF Places, InD, InI, InX, InM, InL, InW, InF
    <3>2. DOMAIN Places(t) = 1 .. 7
      BY <3>1
    <3>3. /\ Places(t)[1] = InD(t) /\ Places(t)[2] = InI(t) /\ Places(t)[3] = InX(t)
          /\ Places(t)[4] = InM(t) /\ Places(t)[5] = InL(t) /\ Places(t)[6] = InW(t)
          /\ Places(t)[7] = InF(t)
      BY <3>1
    <3>4. 1 \in 1 .. 7 /\ 2 \in 1 .. 7 /\ 3 \in 1 .. 7 /\ 4 \in 1 .. 7 /\ 5 \in 1 .. 7
          /\ 6 \in 1 .. 7 /\ 7 \in 1 .. 7
      OBVIOUS
    <3> QED
      BY <2>4, <3>2, <3>3, <3>4 DEF Somewhere
  <2> QED
    BY <2>2, <2>3, <2>4 DEF Kept
<1> HIDE DEF All
<1> QED
  BY <1>1, <1>2, <1>3, PTL DEF Spec
=============================================================================
