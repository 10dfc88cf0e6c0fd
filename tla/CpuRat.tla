------------------------------- MODULE CpuRat -------------------------------
(***************************************************************************)
(* The register alias table (src/RTL/cpu/cpu_rat.sv): the speculative map  *)
(* from architectural to physical registers, and a stack of snapshots of   *)
(* it, one per control-flow instruction in flight.  A snapshot is captured *)
(* in a shadow register first and reaches the stack one cycle later.       *)
(*                                                                         *)
(* An assignment to one register is a pair <<rd, prd>>; rd = 0 is none,    *)
(* as every write in the code is guarded by rd != 0.  The flush and commit *)
(* ports are tied off in cpu_core and left out.                            *)
(***************************************************************************)
EXTENDS Integers, Sequences

CONSTANTS NREG, NPRD, CP_DEPTH

VARIABLES
  rat,     \* rat_tbl
  stack,   \* cp_stack and cp_tag below cp_wptr, oldest first
  shadow   \* cp_push_shadow and cp_push_tag_q while cp_push_q, else empty

ratVars == <<rat, stack, shadow>>

Map == [0 .. NREG -> 0 .. NPRD]
Snapshot(tags) == [tag : tags, map : Map]
Identity == [r \in 0 .. NREG |-> r]

Set(m, w) == IF w[1] = 0 THEN m ELSE [m EXCEPT ![w[1]] = w[2]]
None == <<0, 0>>

RatInit == rat = Identity /\ stack = <<>> /\ shadow = <<>>

(* Which snapshot a pop restores: the youngest with that tag, else the top.*)
Matches(tag) == {s \in 1 .. Len(stack) : stack[s].tag = tag}
PopIndex(tag) ==
  IF Matches(tag) = {} THEN Len(stack)
  ELSE CHOOSE s \in Matches(tag) : \A t \in Matches(tag) : t <= s

(* Mutation: the link register of a redirecting jump is lost.              *)
CpPopNoLink(tag, link) ==
  /\ stack # <<>>
  /\ rat' = stack[PopIndex(tag)].map
  /\ stack' = SubSeq(stack, 1, PopIndex(tag) - 1)
  /\ shadow' = <<>>

(* cp_pop: back to the snapshot, except that a redirecting JAL or JALR     *)
(* keeps its own link register (link); the snapshot and all above it go,   *)
(* and so does one still in the shadow.                                    *)
CpPop(tag, link) ==
  /\ stack # <<>>
  /\ rat' = Set(stack[PopIndex(tag)].map, link)
  /\ stack' = SubSeq(stack, 1, PopIndex(tag) - 1)
  /\ shadow' = <<>>

(* Mutation: the youngest snapshot goes, whatever the tag.                 *)
ReleasedTop(tags) ==
  IF tags # {} /\ stack # <<>> THEN SubSeq(stack, 1, Len(stack) - 1) ELSE stack

(* cp_release: the oldest snapshot of that tag goes, those above move down.*)
Released(tags) ==
  LET M == {s \in 1 .. Len(stack) : stack[s].tag \in tags}
  IN IF M = {} THEN stack
     ELSE LET m == CHOOSE s \in M : \A t \in M : s <= t
          IN SubSeq(stack, 1, m - 1) \o SubSeq(stack, m + 1, Len(stack))

(* A cycle without cp_pop: capture a snapshot of the map as it was (push   *)
(* holds its tag, or nothing) with the fixup of an older slot, undo the    *)
(* retracted renames, younger first, apply the new ones, release (rel      *)
(* holds a tag, or nothing) and move the shadow to the stack.              *)
Edit(push, fixup, rel, undo1, undo0, ren0, ren1) ==
  /\ shadow' = IF push # {} /\ Len(stack) < CP_DEPTH
               THEN <<[tag |-> CHOOSE t \in push : TRUE, map |-> Set(rat, fixup)]>>
               ELSE <<>>
  /\ rat' = Set(Set(Set(Set(rat, undo1), undo0), ren0), ren1)
  /\ stack' = IF Len(Released(rel)) < CP_DEPTH THEN Released(rel) \o shadow
              ELSE Released(rel)

(* mapped_prd_mask.                                                        *)
Mapped == {rat[r] : r \in 0 .. NREG} \ {0}
=============================================================================
