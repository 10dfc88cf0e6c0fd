------------------------------ MODULE HostTests ------------------------------
(***************************************************************************)
(* One test on the developer's machine and the board: build_bins.py makes   *)
(* its ELF and BIN, run_fpga_compare.py runs Spike on the ELF, sends the    *)
(* BIN and compares, send_frame.py sends it and shows what comes back.      *)
(* The scripts run one after the other; the source is edited, tools fail,   *)
(* the user interrupts, and the board answers rightly, wrongly or not at    *)
(* all.                                                                    *)
(*                                                                         *)
(* Files are named by the version of the source they were made from, 0 if   *)
(* there is none.  build_bins.py builds its tests one by one in directories *)
(* of their own, so one test is enough.                                    *)
(***************************************************************************)
EXTENDS SpikeRun, HostLink

CONSTANTS
  Tests,        \* records [spec, inits, sources: what the source goes through]
  Extras,       \* what a wrong design may send after the right output
  Impatient     \* whether the port is opened while the bridge still answers
                \* the frame of an interrupted run

ASSUME ImpatientAssumption == Impatient \in BOOLEAN

VARIABLES
  test,         \* the test, fixed
  src,          \* version of its source
  inst,         \* of instrumented.S
  elf, bin,     \* of test.elf and test.bin
  expected,     \* of the ELF whose output spike_expected.json has
  meta,         \* metadata.json: "none", "torn", "written"
  pc, tool,     \* where the script is, and which one it is
  rebuild,      \* --rebuild of compare
  noSpike,      \* --no-spike of build_bins
  verdict       \* how the last script ended

fileVars == <<test, src, inst, elf, bin, expected, meta>>
toolVars == <<tool, rebuild, noSpike>>
vars == <<fileVars, toolVars, pc, verdict, spikeVars, linkVars>>

Source(v) == test.sources[v]
(* What Spike logs of the ELF, and what the source is to leave behind.     *)
PerVersion(F(_, _)) == [t \in Tests |-> [v \in DOMAIN t.sources |-> F(t.sources[v], t)]]
Logs == PerVersion(SpikeLog)
References == PerVersion(Reference)
WordsLeft == PerVersion(Words)
Right(v) == References[test][v]

(* Versions are numbered from 1; a test observes something, four bytes of   *)
(* it at a time, and Spike logs its stores and traps.                      *)
LogLine == [kind : {"mem", "other", "trap_breakpoint"}, addr : Int, val : Int]
ASSUME TestsAssumption ==
  \A t \in Tests :
    /\ 1 \in DOMAIN t.sources /\ 0 \notin DOMAIN t.sources
    /\ Len(t.spec.what) \in Nat \ {0}
    /\ \A v \in DOMAIN t.sources :
         /\ Logs[t][v] \in Seq(LogLine)
         /\ References[t][v] \in Seq(Byte)
         /\ Len(References[t][v]) = 4 * Len(t.spec.what)
(* The bytes of a response are bytes.                                      *)
ASSUME ResponseAssumption == Radix > 3
ASSUME ExtrasAssumption == Extras \subseteq Seq(Byte)

Builds == {"inst", "gcc", "objcopy", "spike", "expected", "meta", "metaWrite"}
Links == {"open", "send", "recv"}
Pc == {"idle", "start", "load", "run"} \cup Builds \cup Links

TypeOK ==
  /\ test \in Tests /\ src \in DOMAIN test.sources
  /\ {inst, elf, bin, expected} \subseteq {0} \cup DOMAIN test.sources
  /\ meta \in {"none", "torn", "written"}
  /\ pc \in Pc /\ tool \in {"build", "compare", "send"}
  /\ {rebuild, noSpike, open} \subseteq BOOLEAN
  /\ {out, wire, rx, busy, mine} \subseteq Seq(Byte)
  /\ Len(pipe) <= PipeCap /\ (open => pc \in Links)

Init ==
  /\ test \in Tests /\ src = 1
  /\ inst = 0 /\ elf = 0 /\ bin = 0 /\ expected = 0 /\ meta = "none"
  /\ pc = "idle" /\ tool = "build" /\ verdict = "none"
  /\ rebuild = FALSE /\ noSpike = FALSE
  /\ SpikeInit /\ LinkInit

Quiet == UNCHANGED <<spikeVars, linkVars>>

(* The script ends: the port is closed and the process gone, in every way  *)
(* there is to end (two finally clauses).                                  *)
End(v) == pc' = "idle" /\ verdict' = v

-----------------------------------------------------------------------------
Start ==
  /\ pc = "idle"
  /\ tool' \in {"build", "compare", "send"} /\ pc' = "start"
  /\ rebuild' \in (IF tool' = "compare" THEN BOOLEAN ELSE {FALSE})
  /\ noSpike' \in (IF tool' = "build" THEN BOOLEAN ELSE {FALSE})
  /\ verdict' = "none"
  /\ out' = <<>> /\ rx' = <<>> /\ mine' = <<>>
  /\ UNCHANGED <<fileVars, child, pipe, buf, spikeLeft, busy, open, wire, linkLeft, silence>>

(* ensure_artifacts: metadata that exists is not looked at.                 *)
Rebuilds == tool = "build" \/ (tool = "compare" /\ (rebuild \/ meta = "none"))

(* resolve_bin_path: metadata_bin_for_test falls back to artifact_bin_for_test, *)
(* which names the same file.                                              *)
Decide ==
  /\ pc = "start"
  /\ \/ Rebuilds /\ pc' = "inst" /\ UNCHANGED verdict
     \/ tool = "compare" /\ ~Rebuilds /\ pc' = "load" /\ UNCHANGED verdict
     \/ tool = "send" /\ bin # 0 /\ pc' = "open" /\ UNCHANGED verdict
     \/ tool = "send" /\ bin = 0 /\ End("error")
  /\ Quiet /\ UNCHANGED <<fileVars, toolVars>>

(* build_one *)
WriteInst ==
  /\ pc = "inst" /\ inst' = src /\ pc' = "gcc"
  /\ Quiet /\ UNCHANGED <<test, src, elf, bin, expected, meta, toolVars, verdict>>

(* mutation: the exit code of the assembler is not looked at *)
GccUnchecked ==
  /\ pc = "gcc" /\ elf' \in {inst, elf} /\ elf' # 0 /\ pc' = "objcopy" /\ UNCHANGED verdict
  /\ Quiet /\ UNCHANGED <<test, src, inst, bin, expected, meta, toolVars>>
(* A tool that fails leaves what was there, or nothing; run_checked raises. *)
Gcc ==
  /\ pc = "gcc"
  /\ \/ elf' = inst /\ pc' = "objcopy" /\ UNCHANGED verdict
     \/ elf' \in {0, elf} /\ End("failed")
  /\ Quiet /\ UNCHANGED <<test, src, inst, bin, expected, meta, toolVars>>

Objcopy ==
  /\ pc = "objcopy"
  /\ \/ bin' = elf /\ pc' = (IF noSpike THEN "meta" ELSE "spike") /\ UNCHANGED verdict
     \/ bin' \in {0, bin} /\ End("failed")
  /\ Quiet /\ UNCHANGED <<test, src, inst, elf, expected, meta, toolVars>>

WriteExpected ==
  /\ pc = "expected" /\ expected' = elf /\ pc' = "meta"
  /\ Quiet /\ UNCHANGED <<test, src, inst, elf, bin, meta, toolVars, verdict>>

MetaOpen ==
  /\ pc = "meta" /\ meta' = "torn" /\ pc' = "metaWrite"
  /\ Quiet /\ UNCHANGED <<test, src, inst, elf, bin, expected, toolVars, verdict>>

MetaWrite ==
  /\ pc = "metaWrite" /\ meta' = "written"
  /\ IF tool = "build" THEN End("built") ELSE pc' = "load" /\ UNCHANGED verdict
  /\ Quiet /\ UNCHANGED <<test, src, inst, elf, bin, expected, toolVars>>

(* load_metadata, and the check for both files *)
Load ==
  /\ pc = "load"
  /\ IF meta = "written" /\ elf # 0 /\ bin # 0
       THEN pc' = "run" /\ UNCHANGED verdict ELSE End("error")
  /\ Quiet /\ UNCHANGED <<fileVars, toolVars>>

-----------------------------------------------------------------------------
(* run_spike_expected, called by build_one and by main of compare          *)

SpikeBusy == pc \in {"spike", "run"} /\ child.st # "none"

SpikeStart ==
  /\ pc \in {"spike", "run"} /\ child.st = "none"
  /\ \E then \in Thens : Spawn(Logs[test][elf], then)
  /\ UNCHANGED <<fileVars, toolVars, pc, verdict, linkVars>>

SpikeReads ==
  /\ SpikeBusy
  /\ \/ ReadLine /\ UNCHANGED <<pc, verdict>>
     \/ ReadBreak /\ pc' = (IF pc = "spike" THEN "expected" ELSE "open") /\ UNCHANGED verdict
     \/ (ReadEnd \/ TimeOut) /\ End("failed")
  /\ UNCHANGED <<fileVars, toolVars, linkVars>>

SpikeRuns ==
  /\ SpikeBusy /\ (ChildStep \/ SpikeTick)
  /\ UNCHANGED <<fileVars, toolVars, pc, verdict, linkVars>>

-----------------------------------------------------------------------------
(* send_to_fpga, and main of send_frame.py                                 *)

(* What the board may answer: the right thing; too much, too little or a    *)
(* wrong byte; the end of its second; a checksum error.                    *)
Answers(v) ==
  IF Ends(Source(v))
    THEN {Right(v) \o x \o Response(STATUS_OK) : x \in Extras \cup {<<>>}}
         \cup {Front(Right(v)) \o Response(STATUS_OK),
               Front(Right(v)) \o <<1>> \o Response(STATUS_OK),
               Front(Right(v)) \o Response(1), Response(3)}
    ELSE {Response(1), Response(3)}

OpenLink ==
  /\ pc = "open" /\ (busy = <<>> \/ Impatient)
  /\ \/ OpenPort /\ pc' = "send" /\ UNCHANGED verdict
     \/ End("failed") /\ UNCHANGED linkVars            \* no such port
  /\ UNCHANGED <<fileVars, toolVars, spikeVars>>

SendFrame ==
  /\ pc = "send" /\ pc' = "recv" /\ Send(Answers(bin))
  /\ UNCHANGED <<fileVars, toolVars, verdict, spikeVars>>

CompareReceives ==
  /\ pc = "recv" /\ tool = "compare"
  /\ \/ Receive(Len(out)) /\ UNCHANGED <<pc, verdict>>
     \/ /\ ReceiveEnds(Len(out)) /\ End(Verdict(out))
        /\ ClosePort /\ UNCHANGED <<busy, rx, mine>>
  /\ UNCHANGED <<fileVars, toolVars, spikeVars>>

SendReceives ==
  /\ pc = "recv" /\ tool = "send"
  /\ \/ (ReadByte \/ ReadNothing) /\ UNCHANGED <<pc, verdict>>
     \/ SilenceOver /\ wire = <<>> /\ End("sent") /\ ClosePort /\ UNCHANGED <<busy, rx, mine>>
  /\ UNCHANGED <<fileVars, toolVars, spikeVars>>

LinkRuns ==
  /\ \/ BoardByte
     \/ pc = "recv" /\ LinkTick
  /\ UNCHANGED <<fileVars, toolVars, pc, verdict, spikeVars>>

-----------------------------------------------------------------------------
(* Ctrl-C, and an unplugged cable: both run the finally clauses.           *)
Interrupt ==
  /\ pc # "idle" /\ End("interrupted")
  /\ Reap /\ ClosePort
  /\ UNCHANGED <<fileVars, toolVars, out, busy, rx, mine>>

Edit ==
  /\ src + 1 \in DOMAIN test.sources /\ src' = src + 1
  /\ UNCHANGED <<test, inst, elf, bin, expected, meta, toolVars, pc, verdict, spikeVars, linkVars>>

Tool ==
  \/ Decide \/ WriteInst \/ Gcc \/ Objcopy \/ WriteExpected \/ MetaOpen \/ MetaWrite \/ Load
  \/ SpikeStart \/ SpikeReads
  \/ OpenLink \/ SendFrame \/ CompareReceives \/ SendReceives

Next == Start \/ Tool \/ SpikeRuns \/ LinkRuns \/ Interrupt \/ Edit

Spec == Init /\ [][Next]_vars

(* A script that can go on does; time passes; the board sends what it has   *)
(* begun to send.  Nothing is asked of Spike, and nothing of the user.      *)
Fairness ==
  /\ WF_vars(Tool)
  /\ WF_vars(SpikeTick /\ SpikeRuns) /\ WF_vars(LinkTick /\ LinkRuns)
  /\ WF_vars(BoardByte /\ LinkRuns)
FairSpec == Spec /\ Fairness

-----------------------------------------------------------------------------
(* A build that reports [OK] leaves an ELF, a BIN and, unless --no-spike,   *)
(* expected words of one source, whatever failed, was interrupted or edited *)
(* before and meanwhile (build_one).                                       *)
ArtifactsAgree ==
  verdict = "built" =>
    /\ elf = inst /\ bin = elf /\ meta = "written"
    /\ ~noSpike => expected = elf

(* What Spike is asked for is what the original program leaves in the       *)
(* observed registers and words, little end first, and nothing else the     *)
(* program stores: rewriting, prologue, epilogue, the log and its parsing   *)
(* together (build_bins.py:176-359, 411-522).                               *)
SpikeDone ==
  \/ pc \in {"expected", "meta", "metaWrite"} /\ ~noSpike
  \/ tool = "compare" /\ pc \in Links
ReferenceExact ==
  SpikeDone => /\ out = Right(elf)
               /\ BytesToWords(out, Len(test.spec.what)) = WordsLeft[test][elf]

(* [PASS] means that the board ran this binary to its end and sent what     *)
(* Spike did and nothing else; a mismatch, that it did not.  send_frame.py  *)
(* shows all that the board had to say (run_fpga_compare.py:112-263).       *)
AnswerExact ==
  /\ verdict = "pass" => mine = out \o Response(STATUS_OK)
  /\ verdict = "mismatch" => mine # out \o Response(STATUS_OK)
  /\ verdict = "sent" => rx = mine

(* Every script ends, with no process left behind, whatever Spike and the   *)
(* board do (deadlines in run_spike_expected and send_to_fpga, and the      *)
(* silence that ends send_frame.py).                                       *)
ScriptsEnd == pc # "idle" ~> pc = "idle" /\ child.st = "none"
=============================================================================
