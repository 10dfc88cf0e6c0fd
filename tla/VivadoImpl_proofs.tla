-------------------------- MODULE VivadoImpl_proofs --------------------------
(***************************************************************************)
(* For any number of versions: as long as the inputs never return to an    *)
(* earlier version and only --program-only names a bitstream of its own,   *)
(* the verdict "cached bitstream matches" is true and no plain run programs *)
(* a design older than the inputs it was started with.  Edits while Vivado *)
(* runs, failures, interrupts at every step, builds by hand and            *)
(* --program-only in between are all covered.                              *)
(*                                                                         *)
(* The argument.  Nothing on disk or in the script can name a version newer *)
(* than the inputs.  So a fingerprint that equals the inputs was taken     *)
(* after the last edit, and whatever was built since then was built from   *)
(* these very inputs: that is Honest, kept for the fingerprint in the state *)
(* file, for the one in the dictionary about to be saved, and, while Vivado *)
(* runs, for what it has read.                                             *)
(***************************************************************************)
EXTENDS VivadoImpl, TLAPS

Forward == ~Reverts /\ \A c \in Commands : c.only \/ c.bit = "imp"

(* Nothing is newer than the inputs.                                       *)
Past == /\ bit["imp"] <= src /\ netlist <= src /\ inp <= src
        /\ disk.inputs <= src /\ st.inputs <= src

(* If v is still the inputs, the default bitstream is not of another one.  *)
Honest(v) == v = src => bit["imp"] \in {None, src}

Faithful ==
  /\ Honest(disk.inputs)
  /\ pc \in {"only", "current", "save", "saving", "program", "stamp"} => Honest(st.inputs)
  /\ pc = "write" /\ (disk.inputs = src \/ inp = src) => netlist = src
  /\ pc \in {"probes", "built"} /\ inp = src => bit["imp"] = src

(* Where a plain run is, and what it has then at least.                    *)
NotOlder ==
  /\ cmd \in Commands
  /\ pc \in {"check", "current", "clean", "synth", "write", "probes", "built"} => ~cmd.only
  /\ pc = "only" => cmd.only
  /\ pc = "write" => netlist >= inp
  /\ pc \in {"probes", "built"} => bit["imp"] >= inp
  /\ pc \in {"save", "saving", "program", "stamp"} /\ ~cmd.only => bit["imp"] >= inp

IInv == TypeOK /\ Past /\ Faithful /\ NotOlder /\ VerdictTrue /\ BoardNotStale

-----------------------------------------------------------------------------
LEMMA InitInv == Init /\ Forward => IInv
<1> SUFFICES ASSUME Init, Forward PROVE IInv
  OBVIOUS
<1>1. Commands \subseteq Command
  BY CommandsAssumption
<1>2. TypeOK
  BY <1>1, VersionAssumption DEF Init, TypeOK, Version, Image, None, Path, State, Empty, Pc
<1>3. Past
  BY VersionAssumption DEF Init, Past, Version, None, Path, Empty
<1>4. Faithful
  BY VersionAssumption DEF Init, Faithful, Honest, Version, None, Path, Empty
<1>5. NotOlder /\ VerdictTrue /\ BoardNotStale
  BY DEF Init, NotOlder, VerdictTrue, BoardNotStale
<1> QED
  BY <1>2, <1>3, <1>4, <1>5 DEF IInv

(* A step that ends the run and touches neither files nor inputs.          *)
LEMMA AbortInv ==
  ASSUME IInv, Abort, UNCHANGED files, board' \in Image
  PROVE  IInv'
<1>1. TypeOK'
  BY DEF IInv, TypeOK, Abort, files, locals, Pc
<1>2. Past' /\ Faithful'
  BY DEF IInv, Past, Faithful, Honest, Abort, files, locals
<1>3. NotOlder' /\ VerdictTrue' /\ BoardNotStale'
  BY DEF IInv, NotOlder, VerdictTrue, BoardNotStale, Abort, files, locals
<1> QED
  BY <1>1, <1>2, <1>3 DEF IInv

(* The steps of main around Vivado.                                        *)
LEMMA MainInv ==
  ASSUME IInv, Forward,
         (\E c \in Commands : Start(c)) \/ Check \/ Current \/ ProgramOnly \/ Finish
  PROVE  IInv'
<1> USE VersionAssumption, CommandsAssumption DEF IInv, Version, Image, None
<1>1. ASSUME NEW c \in Commands, Start(c) PROVE IInv'
  <2>1. TypeOK'
    BY <1>1 DEF Start, TypeOK, files, State, Empty, Pc
  <2>2. Past' /\ Faithful'
    BY <1>1 DEF Start, TypeOK, Past, Faithful, Honest, files, Empty
  <2>3. NotOlder' /\ VerdictTrue' /\ BoardNotStale'
    BY <1>1 DEF Start, NotOlder, VerdictTrue, BoardNotStale, files
  <2> QED
    BY <2>1, <2>2, <2>3
<1>2. CASE Check
  <2>1. TypeOK'
    BY <1>2 DEF Check, TypeOK, files, Pc
  <2>2. Past' /\ Faithful'
    BY <1>2 DEF Check, TypeOK, Past, Faithful, Honest, files
  <2>3. NotOlder' /\ BoardNotStale'
    BY <1>2 DEF Check, NotOlder, BoardNotStale, files
  <2>4. VerdictTrue'
    <3>1. SUFFICES ASSUME pc' = "current" PROVE bit[cmd.bit] = src
      BY <1>2 DEF Check, VerdictTrue, files
    <3>2. ~Reasons(disk, cmd)
      BY <1>2, <3>1 DEF Check
    <3>3. cmd.bit = "imp"
      BY <1>2 DEF Check, NotOlder, Forward
    <3>4. disk.inputs = src /\ bit["imp"] # None
      BY <3>2, <3>3 DEF Reasons, Present
    <3> QED
      BY <3>3, <3>4 DEF Faithful, Honest
  <2> QED
    BY <2>1, <2>2, <2>3, <2>4
<1>3. CASE Current
  <2>1. TypeOK' /\ Past'
    BY <1>3 DEF Current, TypeOK, Past, files, locals, Pc
  <2>2. Faithful'
    BY <1>3 DEF Current, Faithful, Honest, files, locals
  <2>3. cmd.bit = "imp" /\ bit["imp"] = inp
    BY <1>3 DEF Current, NotOlder, VerdictTrue, Forward
  <2>4. NotOlder' /\ VerdictTrue' /\ BoardNotStale'
    BY <1>3, <2>3 DEF Current, NotOlder, VerdictTrue, BoardNotStale, files, locals, TypeOK
  <2> QED
    BY <2>1, <2>2, <2>4
<1>4. CASE ProgramOnly
  <2>1. CASE cmd.dry \/ Present(cmd)
    <3>1. TypeOK' /\ Past'
      BY <1>4, <2>1 DEF ProgramOnly, TypeOK, Past, files, locals, Pc
    <3>2. Faithful'
      BY <1>4, <2>1 DEF ProgramOnly, Faithful, Honest, files, locals
    <3>3. NotOlder' /\ VerdictTrue' /\ BoardNotStale'
      BY <1>4, <2>1 DEF ProgramOnly, NotOlder, VerdictTrue, BoardNotStale, files, locals
    <3> QED
      BY <3>1, <3>2, <3>3
  <2>2. CASE ~(cmd.dry \/ Present(cmd))
    BY <1>4, <2>2, AbortInv DEF ProgramOnly, TypeOK, files
  <2> QED
    BY <2>1, <2>2
<1>5. CASE Finish
  <2>1. TypeOK' /\ Past'
    BY <1>5 DEF Finish, TypeOK, Past, files, locals, Pc
  <2>2. Faithful'
    BY <1>5 DEF Finish, Faithful, Honest, files, locals
  <2>3. NotOlder' /\ VerdictTrue' /\ BoardNotStale'
    BY <1>5 DEF Finish, NotOlder, VerdictTrue, BoardNotStale, files, locals
  <2> QED
    BY <2>1, <2>2, <2>3
<1> QED
  BY <1>1, <1>2, <1>3, <1>4, <1>5

(* Vivado at work, and what main takes from it.                            *)
LEMMA BuildInv ==
  ASSUME IInv, Forward,
         CleanProject \/ Synthesise \/ WriteBitstream \/ WriteProbes \/ Built
  PROVE  IInv'
<1> USE VersionAssumption DEF IInv, Version, Image, None, Path
<1>1. CASE CleanProject
  <2>1. bit'["imp"] = None /\ TypeOK'
    BY <1>1 DEF CleanProject, TypeOK, locals, Pc
  <2>2. Past' /\ Faithful'
    BY <1>1, <2>1 DEF CleanProject, TypeOK, Past, Faithful, Honest, locals
  <2>3. NotOlder' /\ VerdictTrue' /\ BoardNotStale'
    BY <1>1, <2>1 DEF CleanProject, NotOlder, VerdictTrue, BoardNotStale, locals
  <2> QED
    BY <2>1, <2>2, <2>3
<1>2. CASE Synthesise
  <2>1. TypeOK' /\ Past'
    BY <1>2 DEF Synthesise, TypeOK, Past, files, Pc
  <2>2. Faithful'
    BY <1>2 DEF Synthesise, Faithful, Honest, files
  <2>3. NotOlder' /\ VerdictTrue' /\ BoardNotStale'
    BY <1>2 DEF Synthesise, NotOlder, VerdictTrue, BoardNotStale, files, TypeOK, Past
  <2> QED
    BY <2>1, <2>2, <2>3
<1>3. CASE WriteBitstream
  <2>1. bit'["imp"] = netlist /\ TypeOK'
    BY <1>3 DEF WriteBitstream, TypeOK, locals, Pc
  <2>2. Past' /\ Faithful'
    BY <1>3, <2>1 DEF WriteBitstream, TypeOK, Past, Faithful, Honest, locals
  <2>3. NotOlder' /\ VerdictTrue' /\ BoardNotStale'
    BY <1>3, <2>1 DEF WriteBitstream, NotOlder, VerdictTrue, BoardNotStale, locals
  <2> QED
    BY <2>1, <2>2, <2>3
<1>4. CASE WriteProbes
  <2>1. TypeOK' /\ Past'
    BY <1>4 DEF WriteProbes, TypeOK, Past, locals, Pc
  <2>2. Faithful'
    BY <1>4 DEF WriteProbes, Faithful, Honest, locals
  <2>3. NotOlder' /\ VerdictTrue' /\ BoardNotStale'
    BY <1>4 DEF WriteProbes, NotOlder, VerdictTrue, BoardNotStale, locals
  <2> QED
    BY <2>1, <2>2, <2>3
<1>5. CASE Built
  <2>1. CASE Present(cmd)
    <3>1. /\ st' = Recorded(cmd) /\ pc' = "save" /\ cmd.bit = "imp"
          /\ UNCHANGED <<src, files, disk, board, cmd, inp, netlist, programmed, good>>
      BY <1>5, <2>1 DEF Built, NotOlder, Forward
    <3>2. st' \in State /\ st'.inputs = inp
      BY <3>1 DEF Recorded, State, TypeOK
    <3>3. TypeOK' /\ Past'
      BY <3>1, <3>2 DEF TypeOK, Past, files, Pc
    <3>4. Faithful'
      BY <1>5, <3>1, <3>2 DEF Built, Faithful, Honest, files
    <3>5. NotOlder' /\ VerdictTrue' /\ BoardNotStale'
      BY <1>5, <3>1 DEF Built, NotOlder, VerdictTrue, BoardNotStale, files
    <3> QED
      BY <3>3, <3>4, <3>5
  <2>2. CASE ~Present(cmd)
    BY <1>5, <2>2, AbortInv DEF Built, TypeOK, files
  <2> QED
    BY <2>1, <2>2
<1> QED
  BY <1>1, <1>2, <1>3, <1>4, <1>5

(* Saving the state and programming.                                       *)
LEMMA SaveInv ==
  ASSUME IInv, Forward, SaveOpen \/ SaveWrite \/ Program \/ Stamp
  PROVE  IInv'
<1> USE VersionAssumption DEF IInv, Version, Image, None, Path
<1>1. CASE SaveOpen
  <2>1. disk' = Empty /\ Empty \in State /\ Empty.inputs = None
    BY <1>1 DEF SaveOpen, Empty, State
  <2>2. TypeOK' /\ Past'
    BY <1>1, <2>1 DEF SaveOpen, TypeOK, Past, files, locals, Pc
  <2>3. Faithful'
    BY <1>1, <2>1 DEF SaveOpen, Faithful, Honest, files, locals, TypeOK
  <2>4. NotOlder' /\ VerdictTrue' /\ BoardNotStale'
    BY <1>1 DEF SaveOpen, NotOlder, VerdictTrue, BoardNotStale, files, locals
  <2> QED
    BY <2>2, <2>3, <2>4
<1>2. CASE SaveWrite
  <2>1. TypeOK' /\ Past'
    BY <1>2 DEF SaveWrite, TypeOK, Past, files, locals, Pc
  <2>2. Faithful'
    BY <1>2 DEF SaveWrite, Faithful, Honest, files, locals
  <2>3. NotOlder' /\ VerdictTrue' /\ BoardNotStale'
    BY <1>2 DEF SaveWrite, NotOlder, VerdictTrue, BoardNotStale, files, locals
  <2> QED
    BY <2>1, <2>2, <2>3
<1>3. CASE Program
  <2>1. TypeOK' /\ Past'
    BY <1>3 DEF Program, TypeOK, Past, files, Pc, Command
  <2>2. Faithful'
    BY <1>3 DEF Program, Faithful, Honest, files
  <2>3. ~cmd.only => cmd.bit = "imp"
    BY DEF NotOlder, Forward
  <2>4. NotOlder' /\ VerdictTrue' /\ BoardNotStale'
    BY <1>3, <2>3 DEF Program, NotOlder, VerdictTrue, BoardNotStale, files
  <2> QED
    BY <2>1, <2>2, <2>4
<1>4. CASE Stamp
  <2>1. cmd.bit \in Path /\ bit[cmd.bit] \in Image
    BY DEF TypeOK, Command
  <2>2. /\ Updated(disk, cmd) \in State
        /\ Updated(disk, cmd).inputs = disk.inputs
    BY <2>1 DEF Updated, State, TypeOK
  <2>3. st' \in State /\ st'.inputs \in {st.inputs, disk.inputs}
    BY <1>4, <2>2 DEF Stamp, TypeOK
  <2>4. TypeOK' /\ Past'
    BY <1>4, <2>3 DEF Stamp, TypeOK, Past, files, Pc
  <2>5. Faithful'
    BY <1>4, <2>3 DEF Stamp, Faithful, Honest, files
  <2>6. NotOlder' /\ VerdictTrue' /\ BoardNotStale'
    BY <1>4 DEF Stamp, NotOlder, VerdictTrue, BoardNotStale, files
  <2> QED
    BY <2>4, <2>5, <2>6
<1> QED
  BY <1>1, <1>2, <1>3, <1>4

(* The user.                                                               *)
LEMMA UserInv ==
  ASSUME IInv, Forward,
         (\E v \in Version : Edit(v)) \/ BuildByHand \/ KeepCopy \/ Delete \/ PowerOff
  PROVE  IInv'
<1> USE VersionAssumption DEF IInv, Version, Image, None, Path
<1>1. ASSUME NEW v \in Version, Edit(v) PROVE IInv'
  <2>1. src' > src /\ TypeOK'
    BY <1>1 DEF Edit, TypeOK, Forward, files, locals
  <2>2. Past' /\ Faithful'
    BY <1>1, <2>1 DEF Edit, TypeOK, Past, Faithful, Honest, files, locals, State
  <2>3. NotOlder' /\ VerdictTrue' /\ BoardNotStale'
    BY <1>1 DEF Edit, NotOlder, VerdictTrue, BoardNotStale, files, locals
  <2> QED
    BY <2>1, <2>2, <2>3
<1>2. CASE BuildByHand
  <2>1. bit'["imp"] = src /\ TypeOK'
    BY <1>2 DEF BuildByHand, TypeOK, locals
  <2>2. Past' /\ Faithful'
    BY <1>2, <2>1 DEF BuildByHand, TypeOK, Past, Faithful, Honest, locals
  <2>3. NotOlder' /\ VerdictTrue' /\ BoardNotStale'
    BY <1>2 DEF BuildByHand, NotOlder, VerdictTrue, BoardNotStale, locals
  <2> QED
    BY <2>1, <2>2, <2>3
<1>3. CASE KeepCopy
  <2>1. bit'["imp"] = bit["imp"] /\ TypeOK'
    BY <1>3 DEF KeepCopy, TypeOK, locals
  <2>2. Past' /\ Faithful'
    BY <1>3, <2>1 DEF KeepCopy, Past, Faithful, Honest, locals
  <2>3. NotOlder' /\ VerdictTrue' /\ BoardNotStale'
    BY <1>3 DEF KeepCopy, NotOlder, VerdictTrue, BoardNotStale, locals
  <2> QED
    BY <2>1, <2>2, <2>3
<1>4. CASE Delete
  <2> DEFINE Less == /\ bit'["imp"] \in {None, bit["imp"]}
                     /\ disk'.inputs \in {None, disk.inputs}
                     /\ TypeOK'
  <2>4. ASSUME disk' = disk, bit' = [bit EXCEPT !["imp"] = None],
               ltx' = [ltx EXCEPT !["imp"] = FALSE]
        PROVE  Less
    BY <1>4, <2>4 DEF Delete, TypeOK, locals
  <2>5. ASSUME disk' = Empty, UNCHANGED files PROVE Less
    <3>1. disk'.inputs = None /\ disk' \in State
      BY <2>5 DEF Empty, State
    <3> QED
      BY <1>4, <2>5, <3>1 DEF Delete, TypeOK, locals, files
  <2>1. Less
    BY <1>4, <2>4, <2>5 DEF Delete
  <2>2. Past' /\ Faithful'
    BY <1>4, <2>1 DEF Delete, TypeOK, Past, Faithful, Honest, locals
  <2>3. NotOlder' /\ VerdictTrue' /\ BoardNotStale'
    BY <1>4 DEF Delete, NotOlder, VerdictTrue, BoardNotStale, locals
  <2> QED
    BY <2>1, <2>2, <2>3
<1>5. CASE PowerOff
  <2>1. TypeOK' /\ Past' /\ Faithful'
    BY <1>5 DEF PowerOff, TypeOK, Past, Faithful, Honest, files, locals
  <2>2. NotOlder' /\ VerdictTrue' /\ BoardNotStale'
    BY <1>5 DEF PowerOff, NotOlder, VerdictTrue, BoardNotStale, files, locals
  <2> QED
    BY <2>1, <2>2
<1> QED
  BY <1>1, <1>2, <1>3, <1>4, <1>5

LEMMA NextInv ==
  ASSUME IInv, Forward, [Next]_vars
  PROVE  IInv'
<1>1. ASSUME VivadoFails \/ Interrupt PROVE IInv'
  <2>1. Abort /\ UNCHANGED files /\ board' \in Image
    BY <1>1 DEF VivadoFails, Interrupt, IInv, TypeOK, Image
  <2> QED
    BY <2>1, AbortInv
<1>2. CASE UNCHANGED vars
  <2>1. TypeOK' /\ Past' /\ Faithful'
    BY <1>2 DEF IInv, vars, files, locals, TypeOK, Past, Faithful, Honest
  <2>2. NotOlder' /\ VerdictTrue' /\ BoardNotStale'
    BY <1>2 DEF IInv, vars, files, locals, NotOlder, VerdictTrue, BoardNotStale
  <2> QED
    BY <2>1, <2>2 DEF IInv
<1> QED
  BY <1>1, <1>2, MainInv, BuildInv, SaveInv, UserInv DEF Next, Script

(* Whatever fails, is interrupted or is edited in between, when main       *)
(* (vivado_impl.py:366-393) says that the cached bitstream matches, it was *)
(* made from the inputs just hashed: if inputs never come back (run        *)
(* vivado_revert shows that the premise is needed).                        *)
THEOREM VerdictCorrect ==
  ASSUME Forward
  PROVE  Spec => []VerdictTrue
<1>1. Init => IInv
  BY InitInv
<1>2. IInv /\ [Next]_vars => IInv'
  BY NextInv
<1>3. IInv => VerdictTrue
  BY DEF IInv
<1> QED
  BY <1>1, <1>2, <1>3, PTL DEF Spec

(* And a plain run never leaves a board with a design older than the inputs *)
(* it was started with (vivado_impl.py:421-431).                           *)
THEOREM BoardCorrect ==
  ASSUME Forward
  PROVE  Spec => []BoardNotStale
<1>1. Init => IInv
  BY InitInv
<1>2. IInv /\ [Next]_vars => IInv'
  BY NextInv
<1>3. IInv => BoardNotStale
  BY DEF IInv
<1> QED
  BY <1>1, <1>2, <1>3, PTL DEF Spec

-----------------------------------------------------------------------------
(***************************************************************************)
(* Hours of Vivado are not spent for nothing: NoNeedlessBuild, for any     *)
(* number of versions, any command lines, and edits in any direction.      *)
(*                                                                         *)
(* The argument follows the dictionary.  A run on the default paths that   *)
(* goes through to its end leaves a state file that agrees with its own    *)
(* fingerprint and with the files (Match); good is then the claim that the *)
(* fingerprint is still the inputs, so the file agrees with those as well  *)
(* (UpToDate).  Programming and dry runs keep that agreement, every other  *)
(* change takes good away, and a run that finds it has no reason to build. *)
(***************************************************************************)

Agrees(s, v) ==
  /\ s.schema /\ s.inputs = v
  /\ bit["imp"] # None /\ ltx["imp"] /\ s.bit = bit["imp"]
UpToDate(s) == Agrees(s, src)
Match(s) == Agrees(s, inp)

(* Which commands get where.                                               *)
Where ==
  /\ pc = "only" => cmd.only
  /\ pc \in {"check", "current", "clean", "synth", "write", "probes", "built"} => ~cmd.only
  /\ cmd.dry => pc \in {"idle", "only", "check", "current", "done"}

(* Between two runs, and until a run has decided.                          *)
Rest == good /\ pc \in {"idle", "only", "check"} => UpToDate(disk)

(* Runs that leave good as it is.                                          *)
Light == Default(cmd) /\ (cmd.only \/ cmd.dry)
Kept ==
  good /\ Light =>
    /\ pc \in {"current", "program", "stamp", "done"} => UpToDate(disk)
    /\ pc \in {"save", "saving"} => UpToDate(st)

(* Runs that set it.                                                       *)
Full == Default(cmd) /\ ~cmd.only /\ ~cmd.dry
Made ==
  Full =>
    /\ pc \in {"current", "program", "stamp"} => Match(disk) /\ st = disk
    /\ pc \in {"save", "saving"} => Match(st)
    /\ pc = "done" => Match(disk)

WInv == TypeOK /\ Where /\ Rest /\ Kept /\ Made /\ NoNeedlessBuild

Parts == Where /\ Rest /\ Kept /\ Made /\ NoNeedlessBuild

-----------------------------------------------------------------------------
LEMMA InitWInv == Init => WInv
<1> SUFFICES ASSUME Init PROVE WInv
  OBVIOUS
<1>1. TypeOK
  BY CommandsAssumption, VersionAssumption
  DEF Init, TypeOK, Version, Image, None, Path, State, Empty, Pc
<1>2. Parts
  BY DEF Init, Parts, Where, Rest, Kept, Made, NoNeedlessBuild
<1> QED
  BY <1>1, <1>2 DEF WInv, Parts

(* The run ends, whatever was at hand.                                     *)
LEMMA AbortWInv ==
  ASSUME WInv, Abort, UNCHANGED files, board' \in Image
  PROVE  WInv'
<1>1. TypeOK'
  BY DEF WInv, TypeOK, Abort, files, locals, Pc
<1>2. Parts'
  BY DEF WInv, Parts, Where, Rest, Kept, Made, NoNeedlessBuild, Abort, locals
<1> QED
  BY <1>1, <1>2 DEF WInv, Parts

(* The steps of main around Vivado.                                        *)
LEMMA MainWInv ==
  ASSUME WInv, (\E c \in Commands : Start(c)) \/ Check \/ Current \/ ProgramOnly \/ Finish
  PROVE  WInv'
<1> USE CommandsAssumption DEF WInv, Parts, Version, Image, None
<1>1. ASSUME NEW c \in Commands, Start(c) PROVE WInv'
  <2>1. TypeOK'
    BY <1>1 DEF Start, TypeOK, files, State, Empty, Pc
  <2>2. Parts'
    BY <1>1 DEF Start, files, Where, Rest, Kept, Made, NoNeedlessBuild, UpToDate, Agrees
  <2> QED
    BY <2>1, <2>2
<1>2. CASE Check
  <2>1. TypeOK'
    BY <1>2 DEF Check, TypeOK, files, Pc
  <2>2. ASSUME Default(cmd), UpToDate(disk), ~cmd.force PROVE ~Reasons(disk, cmd)
    BY <2>2 DEF Default, Reasons, Present, UpToDate, Agrees
  <2>3. ASSUME Default(cmd), ~Reasons(disk, cmd) PROVE UpToDate(disk)
    BY <2>3 DEF Default, Reasons, Present, UpToDate, Agrees
  <2>4. Where' /\ Rest'
    BY <1>2 DEF Check, Where, Rest, files
  <2>5. Kept'
    BY <1>2 DEF Check, Rest, Kept, Light, Default, files, UpToDate, Agrees
  <2>6. Made'
    <3> SUFFICES ASSUME Full', pc' = "current" PROVE Match(disk)' /\ st' = disk'
      BY <1>2 DEF Check, Made, Full
    <3>1. Default(cmd) /\ ~Reasons(disk, cmd)
      BY <1>2 DEF Check, Full, Default
    <3> QED
      BY <1>2, <2>3, <3>1 DEF Check, Match, UpToDate, Agrees, files
  <2>7. NoNeedlessBuild'
    BY <1>2, <2>2 DEF Check, NoNeedlessBuild, Rest, Default
  <2> QED
    BY <2>1, <2>4, <2>5, <2>6, <2>7
<1>3. CASE Current
  <2>1. TypeOK'
    BY <1>3 DEF Current, TypeOK, files, locals, Pc
  <2>2. Parts'
    BY <1>3 DEF Current, files, locals, Where, Rest, Kept, Made, NoNeedlessBuild,
                UpToDate, Match, Agrees, Light, Full, Default
  <2> QED
    BY <2>1, <2>2
<1>4. CASE ProgramOnly
  <2>1. CASE cmd.dry \/ Present(cmd)
    <3>1. TypeOK'
      BY <1>4, <2>1 DEF ProgramOnly, TypeOK, files, locals, Pc
    <3>2. Parts'
      BY <1>4, <2>1 DEF ProgramOnly, files, locals, Where, Rest, Kept, Made,
                        NoNeedlessBuild, UpToDate, Agrees, Light, Full, Default
    <3> QED
      BY <3>1, <3>2
  <2>2. CASE ~(cmd.dry \/ Present(cmd))
    BY <1>4, <2>2, AbortWInv DEF ProgramOnly, TypeOK, files
  <2> QED
    BY <2>1, <2>2
<1>5. CASE Finish
  <2>1. TypeOK'
    BY <1>5 DEF Finish, TypeOK, files, locals, Pc
  <2>2. Where' /\ Kept' /\ Made' /\ NoNeedlessBuild'
    BY <1>5 DEF Finish, Where, Kept, Made, NoNeedlessBuild, files, locals
  <2>3. Rest'
    <3> SUFFICES ASSUME good' PROVE UpToDate(disk)'
      BY DEF Rest
    <3>1. Default(cmd)
      BY <1>5 DEF Finish
    <3>2. CASE cmd.only \/ cmd.dry
      BY <1>5, <3>1, <3>2 DEF Finish, Kept, Light, UpToDate, Agrees, files, locals
    <3>3. CASE ~(cmd.only \/ cmd.dry)
      <4>1. Match(disk) /\ src = inp
        BY <1>5, <3>1, <3>3 DEF Finish, Made, Full
      <4> QED
        BY <1>5, <4>1 DEF Finish, Match, UpToDate, Agrees, files, locals
    <3> QED
      BY <3>2, <3>3
  <2> QED
    BY <2>1, <2>2, <2>3
<1> QED
  BY <1>1, <1>2, <1>3, <1>4, <1>5

(* Vivado at work, and what main takes from it.                            *)
LEMMA BuildWInv ==
  ASSUME WInv, CleanProject \/ Synthesise \/ WriteBitstream \/ WriteProbes \/ Built
  PROVE  WInv'
<1> USE DEF WInv, Parts, Image, None, Path
<1>1. CASE CleanProject
  <2>1. TypeOK'
    BY <1>1 DEF CleanProject, TypeOK, locals, Pc
  <2>2. Parts'
    BY <1>1 DEF CleanProject, locals, Where, Rest, Kept, Made, NoNeedlessBuild
  <2> QED
    BY <2>1, <2>2
<1>2. CASE Synthesise
  <2>1. TypeOK'
    BY <1>2 DEF Synthesise, TypeOK, files, Pc
  <2>2. Parts'
    BY <1>2 DEF Synthesise, files, Where, Rest, Kept, Made, NoNeedlessBuild
  <2> QED
    BY <2>1, <2>2
<1>3. CASE WriteBitstream
  <2>1. TypeOK'
    BY <1>3 DEF WriteBitstream, TypeOK, locals, Pc
  <2>2. Parts'
    BY <1>3 DEF WriteBitstream, locals, Where, Rest, Kept, Made, NoNeedlessBuild
  <2> QED
    BY <2>1, <2>2
<1>4. CASE WriteProbes
  <2>1. TypeOK'
    BY <1>4 DEF WriteProbes, TypeOK, locals, Pc
  <2>2. Parts'
    BY <1>4 DEF WriteProbes, locals, Where, Rest, Kept, Made, NoNeedlessBuild
  <2> QED
    BY <2>1, <2>2
<1>5. CASE Built
  <2>1. CASE Present(cmd)
    <3>1. /\ st' = Recorded(cmd) /\ pc' = "save" /\ pc = "built"
          /\ UNCHANGED <<src, files, disk, board, cmd, inp, netlist, programmed, good>>
      BY <1>5, <2>1 DEF Built
    <3>2. cmd.bit \in Path /\ bit[cmd.bit] \in Image
      BY DEF TypeOK, Command
    <3>3. Recorded(cmd) \in State
      BY <3>2 DEF Recorded, State, TypeOK
    <3>4. TypeOK'
      BY <3>1, <3>3 DEF TypeOK, files, Pc
    <3>5. Where' /\ Rest' /\ Kept' /\ NoNeedlessBuild'
      BY <3>1 DEF files, Where, Rest, Kept, Light, NoNeedlessBuild
    <3>6. Made'
      <4> SUFFICES ASSUME Default(cmd) PROVE Match(st)'
        BY <3>1 DEF Made, Full, Default
      <4>1. bit["imp"] # None /\ ltx["imp"] /\ cmd.bit = "imp"
        BY <2>1 DEF Present, Default
      <4> QED
        BY <3>1, <4>1 DEF Recorded, Match, Agrees, files
    <3> QED
      BY <3>4, <3>5, <3>6
  <2>2. CASE ~Present(cmd)
    BY <1>5, <2>2, AbortWInv DEF Built, TypeOK, files
  <2> QED
    BY <2>1, <2>2
<1> QED
  BY <1>1, <1>2, <1>3, <1>4, <1>5

(* Saving the state and programming.                                       *)
LEMMA SaveWInv ==
  ASSUME WInv, SaveOpen \/ SaveWrite \/ Program \/ Stamp
  PROVE  WInv'
<1> USE DEF WInv, Parts, Image, None, Path
<1>1. CASE SaveOpen
  <2>1. Empty \in State
    BY VersionAssumption DEF Empty, State, Version
  <2>2. TypeOK'
    BY <1>1, <2>1 DEF SaveOpen, TypeOK, files, locals, Pc
  <2>3. Parts'
    BY <1>1 DEF SaveOpen, files, locals, Where, Rest, Kept, Made, NoNeedlessBuild,
                UpToDate, Match, Agrees, Light, Full, Default
  <2> QED
    BY <2>2, <2>3
<1>2. CASE SaveWrite
  <2>1. TypeOK'
    BY <1>2 DEF SaveWrite, TypeOK, files, locals, Pc
  <2>2. Parts'
    BY <1>2 DEF SaveWrite, files, locals, Where, Rest, Kept, Made, NoNeedlessBuild,
                UpToDate, Match, Agrees, Light, Full, Default
  <2> QED
    BY <2>1, <2>2
<1>3. CASE Program
  <2>1. TypeOK'
    BY <1>3 DEF Program, TypeOK, files, Pc, Command
  <2>2. Parts'
    BY <1>3 DEF Program, files, Where, Rest, Kept, Made, NoNeedlessBuild,
                UpToDate, Match, Agrees, Light, Full, Default
  <2> QED
    BY <2>1, <2>2
<1>4. CASE Stamp
  <2>1. cmd.bit \in Path /\ bit[cmd.bit] \in Image
    BY DEF TypeOK, Command
  <2>2. Updated(disk, cmd) \in State
    BY <2>1 DEF Updated, State, TypeOK
  <2>3. TypeOK'
    BY <1>4, <2>2 DEF Stamp, TypeOK, files, Pc
  <2>4. Where' /\ Rest' /\ NoNeedlessBuild'
    BY <1>4 DEF Stamp, files, Where, Rest, NoNeedlessBuild
  <2>5. Made'
    BY <1>4 DEF Stamp, files, Made, Full, Default, Match, Agrees
  <2>6. Kept'
    <3> SUFFICES ASSUME good, Light PROVE UpToDate(st)'
      BY <1>4 DEF Stamp, files, Kept, Light, Default
    <3>1. cmd.only /\ UpToDate(disk) /\ cmd.bit = "imp"
      BY <1>4 DEF Stamp, Kept, Light, Where, Default
    <3> QED
      BY <1>4, <3>1 DEF Stamp, files, Updated, UpToDate, Agrees, TypeOK, State
  <2> QED
    BY <2>3, <2>4, <2>5, <2>6
<1> QED
  BY <1>1, <1>2, <1>3, <1>4

(* The user.                                                               *)
LEMMA UserWInv ==
  ASSUME WInv,
         (\E v \in Version : Edit(v)) \/ BuildByHand \/ KeepCopy \/ Delete \/ PowerOff
  PROVE  WInv'
<1> USE DEF WInv, Parts, Image, None, Path
<1>1. ASSUME NEW v \in Version, Edit(v) PROVE WInv'
  <2>1. TypeOK'
    BY <1>1 DEF Edit, TypeOK, files, locals
  <2>2. Parts'
    BY <1>1 DEF Edit, files, locals, Where, Rest, Kept, Made, NoNeedlessBuild,
                Match, Agrees, Full, Default
  <2> QED
    BY <2>1, <2>2
<1>2. CASE BuildByHand
  <2>1. TypeOK'
    BY <1>2 DEF BuildByHand, TypeOK, locals
  <2>2. Parts'
    BY <1>2 DEF BuildByHand, locals, Where, Rest, Kept, Made, NoNeedlessBuild
  <2> QED
    BY <2>1, <2>2
<1>3. CASE KeepCopy
  <2>1. bit'["imp"] = bit["imp"] /\ ltx'["imp"] = ltx["imp"] /\ TypeOK'
    BY <1>3 DEF KeepCopy, TypeOK, locals
  <2>2. Parts'
    BY <1>3, <2>1 DEF KeepCopy, locals, Where, Rest, Kept, Made, NoNeedlessBuild,
                      UpToDate, Agrees
  <2> QED
    BY <2>1, <2>2
<1>4. CASE Delete
  <2>1. Empty \in State
    BY VersionAssumption DEF Empty, State, Version
  <2>2. TypeOK'
    BY <1>4, <2>1 DEF Delete, TypeOK, files, locals
  <2>3. Parts'
    BY <1>4 DEF Delete, locals, Where, Rest, Kept, Made, NoNeedlessBuild
  <2> QED
    BY <2>2, <2>3
<1>5. CASE PowerOff
  <2>1. TypeOK'
    BY <1>5 DEF PowerOff, TypeOK, files, locals
  <2>2. Parts'
    BY <1>5 DEF PowerOff, files, locals, Where, Rest, Kept, Made, NoNeedlessBuild,
                UpToDate, Agrees
  <2> QED
    BY <2>1, <2>2
<1> QED
  BY <1>1, <1>2, <1>3, <1>4, <1>5

LEMMA NextWInv == WInv /\ [Next]_vars => WInv'
<1> SUFFICES ASSUME WInv, [Next]_vars PROVE WInv'
  OBVIOUS
<1>1. ASSUME VivadoFails \/ Interrupt PROVE WInv'
  <2>1. Abort /\ UNCHANGED files /\ board' \in Image
    BY <1>1 DEF VivadoFails, Interrupt, WInv, TypeOK, Image
  <2> QED
    BY <2>1, AbortWInv
<1>2. CASE UNCHANGED vars
  BY <1>2 DEF vars, files, locals, WInv, TypeOK, Where, Rest, Kept, Made, NoNeedlessBuild,
              UpToDate, Match, Agrees, Light, Full, Default
<1> QED
  BY <1>1, <1>2, MainWInv, BuildWInv, SaveWInv, UserWInv DEF Next, Script

(* Every variable of the script, its files and the board keeps its range.  *)
THEOREM TypeCorrect == Spec => []TypeOK
<1>1. WInv => TypeOK
  BY DEF WInv
<1> QED
  BY InitWInv, NextWInv, <1>1, PTL DEF Spec

(* After a run that left everything up to date, and after the programming  *)
(* and dry runs that followed it, no unforced run on the default paths     *)
(* starts Vivado (vivado_impl.py:366-397).                                 *)
THEOREM NothingNeedless == Spec => []NoNeedlessBuild
<1>1. WInv => NoNeedlessBuild
  BY DEF WInv
<1> QED
  BY InitWInv, NextWInv, <1>1, PTL DEF Spec
=============================================================================
