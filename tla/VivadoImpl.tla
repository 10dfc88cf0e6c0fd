----------------------------- MODULE VivadoImpl -----------------------------
(***************************************************************************)
(* scripts/vivado_impl.py: build the bitstream when the watched inputs have *)
(* changed, remember in a state file what was built, and program the board. *)
(* Around the script: its user, who edits, builds by hand (build.tcl:2),    *)
(* deletes and interrupts, and Vivado, which may fail at any point.         *)
(*                                                                         *)
(* Contents stand for their hashes.  The watched inputs (RTL, constraints   *)
(* and build.tcl together) are one version number; a bitstream is the       *)
(* version it was made from.  Of the probes file only its presence matters: *)
(* the script records its hash and never looks at it again.                 *)
(***************************************************************************)
EXTENDS Integers

CONSTANTS
  MaxVersion,        \* bound: the inputs are 0 .. MaxVersion
  Commands,          \* the command lines in use
  Reverts,           \* whether an edit may bring an earlier version back
  EditsWhileRunning  \* whether the inputs are edited while the script runs

Version == 0 .. MaxVersion
None == -1                       \* no such file, no such key, not configured
Image == Version \cup {None}
Path == {"imp", "own"}           \* the default paths; what the user names
Command == [only : BOOLEAN, force : BOOLEAN, buildOnly : BOOLEAN,
            existing : BOOLEAN, dry : BOOLEAN, bit : Path, ltx : Path]

ASSUME VersionAssumption == MaxVersion \in Nat
ASSUME CommandsAssumption == Commands \subseteq Command
ASSUME UserAssumption == Reverts \in BOOLEAN /\ EditsWhileRunning \in BOOLEAN

VARIABLES
  src,         \* the watched inputs
  bit, ltx,    \* bitstream and (presence of) probes, per path
  disk,        \* what load_state returns
  board,       \* the bitstream the FPGA is configured with
  pc, cmd,     \* where the script is, and its arguments
  inp,         \* input_hash
  st,          \* the dictionary state
  netlist,     \* what the running Vivado has read
  programmed,  \* program_bitstream has returned
  good         \* history: the last run left everything up to date

files == <<bit, ltx>>
locals == <<cmd, inp, st, netlist, programmed>>
vars == <<src, files, disk, board, pc, locals, good>>

State == [schema : BOOLEAN, inputs : Image, bit : Image]
Empty == [schema |-> FALSE, inputs |-> None, bit |-> None]
Pc == {"idle", "only", "check", "current", "clean", "synth", "write", "probes",
       "built", "save", "saving", "program", "stamp", "done"}

TypeOK ==
  /\ src \in Version
  /\ bit \in [Path -> Image] /\ ltx \in [Path -> BOOLEAN]
  /\ disk \in State /\ st \in State
  /\ board \in Image /\ inp \in Image /\ netlist \in Image
  /\ pc \in Pc /\ cmd \in Command
  /\ programmed \in BOOLEAN /\ good \in BOOLEAN

Init ==
  /\ src \in Version
  /\ bit \in [Path -> {None}] /\ ltx \in [Path -> {FALSE}]
  /\ disk = Empty /\ st = Empty
  /\ board = None /\ inp = None /\ netlist = None
  /\ pc = "idle" /\ cmd \in Commands
  /\ programmed = FALSE /\ good = FALSE

-----------------------------------------------------------------------------
(* main() up to the decision                                               *)

Present(c) == bit[c.bit] # None /\ ltx[c.ltx]
Default(c) == c.bit = "imp" /\ c.ltx = "imp"

Start(c) ==
  /\ pc = "idle"
  /\ ~(c.only /\ (c.buildOnly \/ c.force))
  /\ pc' = IF c.only THEN "only" ELSE "check"
  /\ cmd' = c
  /\ inp' = None /\ st' = Empty /\ netlist' = None /\ programmed' = FALSE
  /\ UNCHANGED <<src, files, disk, board, good>>

(* mutation: the inputs are not compared, the hash of the bitstream says it all *)
ReasonsBitOnly(s, c) ==
  c.force \/ ~s.schema \/ ~Present(c) \/ s.bit # bit[c.bit]

(* "reasons" in main *)
Reasons(s, c) ==
  \/ c.force
  \/ ~s.schema
  \/ s.inputs # src
  \/ ~Present(c)
  \/ s.bit # bit[c.bit]

Check ==
  /\ pc = "check"
  /\ inp' = src /\ st' = disk
  /\ pc' = CASE ~Reasons(disk, cmd) -> "current"
             [] Reasons(disk, cmd) /\ cmd.dry -> "done"
             [] OTHER -> "clean"
  /\ UNCHANGED <<src, files, disk, board, cmd, netlist, programmed, good>>

(* "cached bitstream matches current RTL and constraints" *)
Current ==
  /\ pc = "current"
  /\ pc' = IF cmd.existing /\ ~cmd.buildOnly /\ ~cmd.dry THEN "program" ELSE "done"
  /\ UNCHANGED <<src, files, disk, board, locals, good>>

(* The run ends without success, or is killed: only files and board stay.   *)
Abort == pc' = "idle" /\ good' = FALSE /\ UNCHANGED <<src, disk, locals>>

ProgramOnly ==
  /\ pc = "only"
  /\ IF cmd.dry \/ Present(cmd)
       THEN /\ pc' = IF cmd.dry THEN "done" ELSE "program"
            /\ UNCHANGED <<src, files, disk, board, locals, good>>
       ELSE Abort /\ UNCHANGED <<files, board>>

-----------------------------------------------------------------------------
(* Vivado with build.tcl, and what main does when it returns                *)

CleanProject ==
  /\ pc = "clean" /\ pc' = "synth"
  /\ bit' = [bit EXCEPT !["imp"] = None] /\ ltx' = [ltx EXCEPT !["imp"] = FALSE]
  /\ UNCHANGED <<src, disk, board, locals, good>>

Synthesise ==
  /\ pc = "synth" /\ pc' = "write" /\ netlist' = src
  /\ UNCHANGED <<src, files, disk, board, cmd, inp, st, programmed, good>>

WriteBitstream ==
  /\ pc = "write" /\ pc' = "probes"
  /\ bit' = [bit EXCEPT !["imp"] = netlist]
  /\ UNCHANGED <<src, ltx, disk, board, locals, good>>

WriteProbes ==
  /\ pc = "probes" /\ pc' = "built"
  /\ ltx' = [ltx EXCEPT !["imp"] = TRUE]
  /\ UNCHANGED <<src, bit, disk, board, locals, good>>

Recorded(c) == [schema |-> TRUE, inputs |-> inp, bit |-> bit[c.bit]]

Built ==
  /\ pc = "built"
  /\ IF Present(cmd)
       THEN /\ st' = Recorded(cmd) /\ pc' = "save"
            /\ UNCHANGED <<src, files, disk, board, cmd, inp, netlist, programmed, good>>
       ELSE Abort /\ UNCHANGED <<files, board>>

(* save_state opens the file, which empties it, and then writes: a run that *)
(* dies in between leaves an unreadable file, which load_state ignores.     *)
SaveOpen ==
  /\ pc = "save" /\ pc' = "saving" /\ disk' = Empty
  /\ UNCHANGED <<src, files, board, locals, good>>

SaveWrite ==
  /\ pc = "saving" /\ disk' = st
  /\ pc' = IF programmed \/ cmd.buildOnly THEN "done" ELSE "program"
  /\ UNCHANGED <<src, files, board, locals, good>>

-----------------------------------------------------------------------------
(* program_bitstream, and what is recorded afterwards                      *)

Program ==
  /\ pc = "program" /\ Present(cmd)
  /\ board' = bit[cmd.bit] /\ programmed' = TRUE /\ pc' = "stamp"
  /\ UNCHANGED <<src, files, disk, cmd, inp, st, netlist, good>>

(* mutation: --program-only writes a dictionary of its own *)
UpdatedFresh(s, c) == [Empty EXCEPT !.schema = TRUE, !.bit = bit[c.bit]]
(* mutation: and one without the keys it has nothing to say about *)
UpdatedShort(s, c) == [schema |-> TRUE, bit |-> bit[c.bit]]

(* --program-only updates the dictionary it loads; otherwise bitstream_sha256 *)
(* stays what it was when the bitstream was built or found to match.        *)
Updated(s, c) == [s EXCEPT !.schema = TRUE, !.bit = bit[c.bit]]

Stamp ==
  /\ pc = "stamp" /\ pc' = "save"
  /\ st' = IF cmd.only THEN Updated(disk, cmd) ELSE st
  /\ UNCHANGED <<src, files, disk, board, cmd, inp, netlist, programmed, good>>

(* return 0 *)
Finish ==
  /\ pc = "done" /\ pc' = "idle"
  /\ good' = (Default(cmd) /\ IF cmd.only \/ cmd.dry THEN good ELSE src = inp)
  /\ UNCHANGED <<src, files, disk, board, locals>>

(* mutation: subprocess.run without check=True, while programming *)
VivadoFailsUnseen ==
  /\ pc = "program" /\ board' \in {board, None}
  /\ programmed' = TRUE /\ pc' = "stamp"
  /\ UNCHANGED <<src, files, disk, cmd, inp, st, netlist, good>>

(* subprocess.run(check=True) raises.  A device that fails while it is      *)
(* being programmed is left unconfigured.                                   *)
VivadoFails ==
  /\ pc \in {"clean", "synth", "write", "probes", "program"}
  /\ board' \in IF pc = "program" THEN {board, None} ELSE {board}
  /\ Abort /\ UNCHANGED files

Interrupt == pc # "idle" /\ Abort /\ UNCHANGED <<files, board>>

-----------------------------------------------------------------------------
(* The user                                                                *)

Edit(v) ==
  /\ v # src /\ (Reverts \/ v > src)
  /\ EditsWhileRunning \/ pc = "idle"
  /\ src' = v /\ good' = FALSE
  /\ UNCHANGED <<files, disk, board, pc, locals>>

BuildByHand ==
  /\ pc = "idle"
  /\ bit' = [bit EXCEPT !["imp"] = src] /\ ltx' = [ltx EXCEPT !["imp"] = TRUE]
  /\ good' = FALSE
  /\ UNCHANGED <<src, disk, board, pc, locals>>

KeepCopy ==
  /\ pc = "idle"
  /\ bit' = [bit EXCEPT !["own"] = bit["imp"]]
  /\ ltx' = [ltx EXCEPT !["own"] = ltx["imp"]]
  /\ UNCHANGED <<src, disk, board, pc, locals, good>>

Delete ==
  /\ pc = "idle" /\ good' = FALSE
  /\ \/ /\ bit' = [bit EXCEPT !["imp"] = None] /\ ltx' = [ltx EXCEPT !["imp"] = FALSE]
        /\ disk' = disk
     \/ disk' = Empty /\ UNCHANGED files
  /\ UNCHANGED <<src, board, pc, locals>>

PowerOff ==
  /\ pc = "idle" /\ board' = None
  /\ UNCHANGED <<src, files, disk, pc, locals, good>>

Script ==
  \/ \E c \in Commands : Start(c)
  \/ Check \/ Current \/ ProgramOnly
  \/ CleanProject \/ Synthesise \/ WriteBitstream \/ WriteProbes \/ Built
  \/ SaveOpen \/ SaveWrite \/ Program \/ Stamp \/ Finish

Next ==
  \/ Script
  \/ VivadoFails \/ Interrupt
  \/ \E v \in Version : Edit(v)
  \/ BuildByHand \/ KeepCopy \/ Delete \/ PowerOff

Spec == Init /\ [][Next]_vars

-----------------------------------------------------------------------------
(* When the script says that the cached bitstream matches the inputs, the   *)
(* bitstream was made from exactly the inputs it has just hashed.           *)
VerdictTrue == pc = "current" => bit[cmd.bit] = inp

(* A plain run that has just programmed the board did not put an older      *)
(* design there than the inputs it was started with (main, should_program). *)
BoardNotStale == pc = "stamp" /\ ~cmd.only => board >= inp

(* Hours of Vivado are not spent for nothing: after a run that left all up  *)
(* to date, and programming runs and dry runs after it, an unforced run     *)
(* finds no reason to build (save_state and "reasons").                     *)
NoNeedlessBuild == pc = "clean" /\ ~cmd.force /\ Default(cmd) => ~good
=============================================================================
