--------------------------- MODULE HostTests_proofs ---------------------------
(***************************************************************************)
(* The scripts of the developer's machine, for every set of tests, every    *)
(* capacity of the pipe, every size of a read, every deadline and every     *)
(* behaviour of Spike and the board.                                       *)
(*                                                                         *)
(*   ArtifactsCorrect    what a build has made at each place of it          *)
(*   HostTypes           Typed: types, and what is there at each place      *)
(*   ReferenceCollected  Reading: the reader's buffer, the pipe and what    *)
(*                       Spike still writes are the rest of its log         *)
(*   AnswerCorrect       Flow: what was read, what is on the line and what  *)
(*                       the bridge still sends are the answer              *)
(***************************************************************************)
EXTENDS HostTests, SequenceTheorems, WellFoundedInduction, TLAPS

(* What build_one has already made at each place of it.                    *)
Linked == pc = "objcopy" => elf = inst
Copied == pc \in {"spike", "expected", "meta", "metaWrite"} => elf = inst /\ bin = elf
Recorded == pc \in {"meta", "metaWrite"} /\ ~noSpike => expected = elf
(* A verdict is only there when no script runs.                            *)
Over == pc # "idle" => verdict = "none"
IInv == Linked /\ Copied /\ Recorded /\ Over /\ ArtifactsAgree

LEMMA InitIInv == Init => IInv
  BY DEF Init, IInv, Linked, Copied, Recorded, Over, ArtifactsAgree

(* What the invariant is about; Spike, the board and edits leave it alone. *)
artifacts == <<inst, elf, bin, expected, meta, pc, noSpike, verdict>>

LEMMA Untouched == ASSUME IInv, UNCHANGED artifacts PROVE IInv'
  BY DEF IInv, Linked, Copied, Recorded, Over, ArtifactsAgree, artifacts

(* A script that ends otherwise than with a build leaves nothing to show.  *)
LEMMA Ended ==
  ASSUME IInv, NEW v, v # "built", End(v) PROVE IInv'
  BY DEF End, IInv, Linked, Copied, Recorded, Over, ArtifactsAgree

LEMMA BuildSteps ==
  ASSUME IInv, WriteInst \/ Gcc \/ Objcopy \/ WriteExpected \/ MetaOpen \/ MetaWrite
  PROVE  IInv'
<1> USE DEF IInv, Linked, Copied, Recorded, Over, ArtifactsAgree, End, toolVars
<1>1. CASE WriteInst BY <1>1 DEF WriteInst
<1>2. CASE Gcc BY <1>2 DEF Gcc
<1>3. CASE Objcopy BY <1>3 DEF Objcopy
<1>4. CASE WriteExpected BY <1>4 DEF WriteExpected
<1>5. CASE MetaOpen BY <1>5 DEF MetaOpen
<1>6. CASE MetaWrite BY <1>6 DEF MetaWrite
<1> QED BY <1>1, <1>2, <1>3, <1>4, <1>5, <1>6

LEMMA SpikeSteps ==
  ASSUME IInv, SpikeStart \/ SpikeReads \/ SpikeRuns PROVE IInv'
<1>1. CASE SpikeStart BY <1>1, Untouched DEF SpikeStart, fileVars, toolVars, artifacts
<1>2. CASE SpikeRuns BY <1>2, Untouched DEF SpikeRuns, fileVars, toolVars, artifacts
<1>3. CASE SpikeReads
  <2>1. pc \in {"spike", "run"} /\ UNCHANGED <<fileVars, toolVars>>
    BY <1>3 DEF SpikeReads, SpikeBusy
  <2>2. CASE UNCHANGED <<pc, verdict>>
    BY <2>1, <2>2, Untouched DEF fileVars, toolVars, artifacts
  <2>3. CASE pc' = (IF pc = "spike" THEN "expected" ELSE "open") /\ UNCHANGED verdict
    BY <2>1, <2>3 DEF fileVars, toolVars, IInv, Linked, Copied, Recorded, Over, ArtifactsAgree
  <2>4. CASE End("failed")
    BY <2>4, Ended
  <2> QED BY <1>3, <2>2, <2>3, <2>4 DEF SpikeReads
<1> QED BY <1>1, <1>2, <1>3

LEMMA LinkSteps ==
  ASSUME IInv, OpenLink \/ SendFrame \/ CompareReceives \/ SendReceives \/ LinkRuns
  PROVE  IInv'
<1> USE DEF fileVars, toolVars
<1>1. CASE OpenLink
  <2>1. CASE pc' = "send" /\ UNCHANGED verdict
    BY <1>1, <2>1 DEF OpenLink, IInv, Linked, Copied, Recorded, Over, ArtifactsAgree
  <2>2. CASE End("failed") BY <2>2, Ended
  <2> QED BY <1>1, <2>1, <2>2 DEF OpenLink
<1>2. CASE SendFrame
  BY <1>2 DEF SendFrame, IInv, Linked, Copied, Recorded, Over, ArtifactsAgree
<1>3. CASE CompareReceives
  <2>1. Verdict(out) # "built"
    BY DEF Verdict
  <2>2. CASE End(Verdict(out)) BY <2>1, <2>2, Ended
  <2>3. CASE UNCHANGED <<pc, verdict>>
    BY <1>3, <2>3, Untouched DEF CompareReceives, artifacts
  <2> QED BY <1>3, <2>2, <2>3 DEF CompareReceives
<1>4. CASE SendReceives
  <2>1. CASE End("sent") BY <2>1, Ended
  <2>2. CASE UNCHANGED <<pc, verdict>>
    BY <1>4, <2>2, Untouched DEF SendReceives, artifacts
  <2> QED BY <1>4, <2>1, <2>2 DEF SendReceives
<1>5. CASE LinkRuns BY <1>5, Untouched DEF LinkRuns, artifacts
<1> QED BY <1>1, <1>2, <1>3, <1>4, <1>5

LEMMA OtherSteps ==
  ASSUME IInv, Start \/ Decide \/ Load \/ Interrupt \/ Edit PROVE IInv'
<1> USE DEF fileVars, toolVars
<1>1. CASE Start
  BY <1>1 DEF Start, IInv, Linked, Copied, Recorded, Over, ArtifactsAgree
<1>2. CASE Decide
  BY <1>2 DEF Decide, Rebuilds, End, IInv, Linked, Copied, Recorded, Over, ArtifactsAgree
<1>3. CASE Load
  BY <1>3 DEF Load, End, IInv, Linked, Copied, Recorded, Over, ArtifactsAgree
<1>4. CASE Interrupt BY <1>4, Ended DEF Interrupt
<1>5. CASE Edit BY <1>5, Untouched DEF Edit, artifacts
<1> QED BY <1>1, <1>2, <1>3, <1>4, <1>5

LEMMA StepIInv == IInv /\ [Next]_vars => IInv'
<1> SUFFICES ASSUME IInv, [Next]_vars PROVE IInv'
  OBVIOUS
<1>1. CASE UNCHANGED vars
  BY <1>1, Untouched DEF vars, fileVars, toolVars, artifacts
<1>2. CASE Next
  BY <1>2, BuildSteps, SpikeSteps, LinkSteps, OtherSteps DEF Next, Tool
<1> QED BY <1>1, <1>2

(* After a build that reports [OK], the ELF that Spike will run, the BIN     *)
(* that the board will get and the expected words come from the one source *)
(* that was instrumented (build_bins.py:525-610).                          *)
THEOREM ArtifactsCorrect == Spec => []ArtifactsAgree
<1>1. IInv => ArtifactsAgree
  BY DEF IInv
<1> QED BY InitIInv, StepIInv, <1>1, PTL DEF Spec

-----------------------------------------------------------------------------
(* Types.                                                                  *)

Versions == DOMAIN test.sources
FileTypes ==
  /\ test \in Tests /\ src \in Versions
  /\ inst \in {0} \cup Versions /\ elf \in {0} \cup Versions
  /\ bin \in {0} \cup Versions /\ expected \in {0} \cup Versions
  /\ meta \in {"none", "torn", "written"}
ToolTypes ==
  /\ pc \in Pc /\ tool \in {"build", "compare", "send"}
  /\ rebuild \in BOOLEAN /\ noSpike \in BOOLEAN
SpikeTypes ==
  /\ child \in [st : {"none", "runs", "exited"}, todo : Seq(LogLine), then : Thens]
  /\ pipe \in Seq(LogLine) /\ Len(pipe) <= PipeCap
  /\ buf \in Seq(LogLine) /\ out \in Seq(Byte)
LinkTypes ==
  /\ open \in BOOLEAN /\ (open => pc \in {"send", "recv"})
  /\ busy \in Seq(Byte) /\ wire \in Seq(Byte) /\ rx \in Seq(Byte) /\ mine \in Seq(Byte)
  /\ linkLeft \in Nat /\ silence \in Nat

(* What is there at each place of a script.                                *)
Present ==
  /\ pc \in {"gcc", "objcopy", "spike", "expected", "meta", "metaWrite"} => inst # 0
  /\ pc \in {"objcopy", "spike", "expected", "meta", "metaWrite", "run"} => elf # 0
  /\ pc \in {"spike", "expected", "meta", "metaWrite", "run"} \cup Links => bin # 0
  /\ pc \in Links /\ tool = "compare" => elf # 0
Typed == FileTypes /\ ToolTypes /\ SpikeTypes /\ LinkTypes /\ Present

LEMMA TypedOK == Typed => TypeOK
<1> SUFFICES ASSUME Typed PROVE TypeOK
  OBVIOUS
<1>1. {inst, elf, bin, expected} \subseteq {0} \cup DOMAIN test.sources
  BY DEF Typed, FileTypes, Versions
<1>2. {rebuild, noSpike, open} \subseteq BOOLEAN
  BY DEF Typed, ToolTypes, LinkTypes
<1>3. {out, wire, rx, busy, mine} \subseteq Seq(Byte)
  BY DEF Typed, SpikeTypes, LinkTypes
<1>4. open => pc \in Links
  BY DEF Typed, LinkTypes, Links
<1> QED
  BY <1>1, <1>2, <1>3, <1>4 DEF Typed, FileTypes, ToolTypes, SpikeTypes, TypeOK, Versions

LEMMA Counts ==
  /\ PipeCap \in Nat /\ SpikeTicks \in Nat /\ ReadMax \in Nat /\ LinkTicks \in Nat
  /\ SilenceMax \in Nat /\ PauseMax \in Nat
BY SpikeAssumption, TicksAssumption

(* The bytes of a response.                                                *)
LEMMA ResponseType ==
  ASSUME NEW status \in 0 .. 3
  PROVE  Response(status) \in Seq(Byte) /\ Len(Response(status)) = 3
<1>1. RESP_CMD \in 0 .. 3
  BY DEF RESP_CMD
<1>2. \A a \in 0 .. 3, b \in 0 .. 3 : Xor2(a, b) \in 0 .. 3
  BY DEF Xor2, Xor1
<1>3. 0 .. 3 \subseteq Byte
  BY ResponseAssumption, RadixAssumption DEF Byte
<1>4. RESP_CMD \in Byte /\ status \in Byte /\ Xor2(RESP_CMD, status) \in Byte
  BY <1>1, <1>2, <1>3
<1> QED
  BY <1>4 DEF Response

(* What the board may answer.                                              *)
LEMMA AnswerTypes ==
  ASSUME FileTypes, bin # 0
  PROVE  Right(bin) \in Seq(Byte) /\ \A a \in Answers(bin) : a \in Seq(Byte)
<1>1. test \in Tests /\ bin \in DOMAIN test.sources
  BY DEF FileTypes, Versions
<1>2. Right(bin) \in Seq(Byte)
  BY <1>1, TestsAssumption DEF Right
<1>3. \A n \in 0 .. 3 : Response(n) \in Seq(Byte)
  BY ResponseType
<1>4. Front(Right(bin)) \in Seq(Byte)
  <2>1. \A s \in Seq(Byte) : SubSeq(s, 1, Len(s) - 1) \in Seq(Byte)
    OBVIOUS
  <2> QED
    BY <1>2, <2>1 DEF Front
<1>5. <<1>> \in Seq(Byte)
  BY ResponseAssumption, RadixAssumption DEF Byte
<1>6. \A s, t \in Seq(Byte) : s \o t \in Seq(Byte)
  OBVIOUS
<1>7. \A x \in Extras \cup {<<>>} : x \in Seq(Byte)
  <2>1. <<>> \in Seq(Byte)
    OBVIOUS
  <2> QED
    BY <2>1, ExtrasAssumption
<1>8. 0 \in 0 .. 3 /\ 1 \in 0 .. 3 /\ 3 \in 0 .. 3
  OBVIOUS
<1>9. Response(STATUS_OK) \in Seq(Byte) /\ Response(1) \in Seq(Byte) /\ Response(3) \in Seq(Byte)
  BY <1>3, <1>8 DEF STATUS_OK
<1>10. ASSUME NEW a \in Answers(bin) PROVE a \in Seq(Byte)
  <2>1. CASE \E x \in Extras \cup {<<>>} : a = Right(bin) \o x \o Response(STATUS_OK)
    <3>1. PICK x \in Extras \cup {<<>>} : a = (Right(bin) \o x) \o Response(STATUS_OK)
      BY <2>1
    <3>2. Right(bin) \o x \in Seq(Byte)
      BY <1>2, <1>6, <1>7
    <3> QED
      BY <1>6, <1>9, <3>1, <3>2
  <2>2. CASE a = Front(Right(bin)) \o Response(STATUS_OK)
    BY <1>4, <1>6, <1>9, <2>2
  <2>3. CASE a = (Front(Right(bin)) \o <<1>>) \o Response(STATUS_OK)
    <3>1. Front(Right(bin)) \o <<1>> \in Seq(Byte)
      BY <1>4, <1>5, <1>6
    <3> QED
      BY <1>6, <1>9, <2>3, <3>1
  <2>4. CASE a \in {Front(Right(bin)) \o Response(1), Response(3), Response(1)}
    BY <1>4, <1>6, <1>9, <2>4
  <2> QED
    BY <1>10, <2>1, <2>2, <2>3, <2>4 DEF Answers
<1> QED
  BY <1>2, <1>10

LEMMA LogTypes ==
  ASSUME FileTypes, elf # 0
  PROVE  Logs[test][elf] \in Seq(LogLine)
BY TestsAssumption DEF FileTypes, Versions

LEMMA ParsedType ==
  ASSUME NEW line \in LogLine
  PROVE  Parsed(line) \in Seq(Byte)
<1>1. Radix \in Nat /\ Radix > 0
  BY RadixAssumption
<1>2. line.val \in Int
  BY DEF LogLine
<1>3. \A d \in Nat, v \in Int : d > 0 => v % d \in 0 .. d - 1
  OBVIOUS
<1>4. line.val % Radix \in Byte
  BY <1>1, <1>2, <1>3 DEF Byte
<1>5. \A x \in Byte : <<x>> \in Seq(Byte)
  OBVIOUS
<1>6. <<>> \in Seq(Byte)
  OBVIOUS
<1> QED
  BY <1>4, <1>5, <1>6 DEF Parsed

LEMMA ReapTypes ==
  ASSUME SpikeTypes, Reap, out' \in Seq(Byte)
  PROVE  SpikeTypes'
<1>1. <<>> \in Seq(LogLine) /\ Len(<<>>) = 0
  OBVIOUS
<1>2. NoChild \in [st : {"none", "runs", "exited"}, todo : Seq(LogLine), then : Thens]
  BY <1>1 DEF NoChild, Thens
<1> QED
  BY <1>1, <1>2, Counts DEF Reap, SpikeTypes

LEMMA CloseTypes ==
  ASSUME LinkTypes, ClosePort, UNCHANGED <<busy, rx, mine>>
  PROVE  LinkTypes'
<1>1. <<>> \in Seq(Byte)
  OBVIOUS
<1> QED
  BY <1>1 DEF LinkTypes, ClosePort

-----------------------------------------------------------------------------
(* The steps.                                                              *)

(* A step that moves neither Spike nor the line.                           *)
LEMMA QuietTypes ==
  ASSUME SpikeTypes, LinkTypes, Quiet, pc \notin {"send", "recv"}
  PROVE  SpikeTypes' /\ LinkTypes'
<1>1. open = FALSE
  BY DEF LinkTypes
<1>2. UNCHANGED <<child, pipe, buf, out, busy, open, wire, rx, linkLeft, silence, mine>>
  BY DEF Quiet, spikeVars, linkVars
<1> QED
  BY <1>1, <1>2 DEF SpikeTypes, LinkTypes

LEMMA StartTyped ==
  ASSUME Typed, Start PROVE Typed'
<1>1. /\ FileTypes /\ ToolTypes /\ SpikeTypes /\ LinkTypes /\ pc = "idle"
      /\ UNCHANGED <<test, src, inst, elf, bin, expected, meta>> /\ pc' = "start"
      /\ UNCHANGED <<child, pipe, buf, busy, open, wire, linkLeft, silence>>
      /\ out' = <<>> /\ rx' = <<>> /\ mine' = <<>>
      /\ tool' \in {"build", "compare", "send"}
      /\ rebuild' \in BOOLEAN /\ noSpike' \in BOOLEAN
  BY DEF Typed, Start, fileVars
<1>2. <<>> \in Seq(Byte)
  OBVIOUS
<1>3. FileTypes'
  BY <1>1 DEF FileTypes, Versions
<1>4. ToolTypes'
  BY <1>1 DEF ToolTypes, Pc
<1>5. SpikeTypes'
  BY <1>1, <1>2 DEF SpikeTypes
<1>6. LinkTypes'
  BY <1>1, <1>2 DEF LinkTypes
<1>7. Present'
  BY <1>1 DEF Present, Links
<1> QED
  BY <1>3, <1>4, <1>5, <1>6, <1>7 DEF Typed

LEMMA BuildTyped ==
  ASSUME Typed, IInv,
         \/ Decide \/ WriteInst \/ Gcc \/ Objcopy \/ WriteExpected \/ MetaOpen \/ MetaWrite
         \/ Load
  PROVE  Typed'
<1>1. FileTypes /\ ToolTypes /\ SpikeTypes /\ LinkTypes /\ Present
  BY DEF Typed
<1>2. Quiet /\ UNCHANGED <<test, src, tool, rebuild, noSpike>> /\ pc \notin {"send", "recv"}
  BY DEF Decide, WriteInst, Gcc, Objcopy, WriteExpected, MetaOpen, MetaWrite, Load,
         fileVars, toolVars
<1>3. SpikeTypes' /\ LinkTypes'
  BY <1>1, <1>2, QuietTypes
<1>4. pc' \in Pc
  BY DEF Decide, WriteInst, Gcc, Objcopy, WriteExpected, MetaOpen, MetaWrite, Load,
         End, Pc, Builds, Links
<1>5. ToolTypes'
  BY <1>1, <1>2, <1>4 DEF ToolTypes
<1>6. src # 0
  BY <1>1, TestsAssumption DEF FileTypes, Versions
<1>7. FileTypes'
  <2>1. Versions' = Versions /\ test' \in Tests /\ src' \in Versions
    BY <1>1, <1>2 DEF Versions, FileTypes
  <2>2. meta' \in {"none", "torn", "written"}
    BY <1>1 DEF Decide, WriteInst, Gcc, Objcopy, WriteExpected, MetaOpen, MetaWrite, Load,
                fileVars, FileTypes
  <2>3. /\ inst' \in {inst, src} /\ elf' \in {0, elf, inst} /\ bin' \in {0, bin, elf}
        /\ expected' \in {expected, elf}
    BY DEF Decide, WriteInst, Gcc, Objcopy, WriteExpected, MetaOpen, MetaWrite, Load,
           fileVars
  <2> QED
    BY <1>1, <2>1, <2>2, <2>3 DEF FileTypes
<1>8. Present'
  <2> USE DEF Present, Links, End
  <2>1. CASE Decide
    BY <1>1, <2>1 DEF Decide, Rebuilds, fileVars, toolVars
  <2>2. CASE WriteInst
    BY <1>6, <2>2 DEF WriteInst
  <2>3. CASE Gcc
    BY <1>1, <2>3 DEF Gcc
  <2>4. CASE Objcopy
    BY <1>1, <2>4 DEF Objcopy
  <2>5. CASE WriteExpected
    BY <1>1, <2>5 DEF WriteExpected
  <2>6. CASE MetaOpen
    BY <1>1, <2>6 DEF MetaOpen
  <2>7. CASE MetaWrite
    BY <1>1, <2>7 DEF MetaWrite
  <2>8. CASE Load
    BY <1>1, <2>8 DEF Load, fileVars, toolVars
  <2> QED
    BY <2>1, <2>2, <2>3, <2>4, <2>5, <2>6, <2>7, <2>8
<1> QED
  BY <1>3, <1>5, <1>7, <1>8 DEF Typed

(* A step of Spike leaves the files and the line alone.                    *)
LEMMA SpikeTyped ==
  ASSUME Typed, SpikeStart \/ SpikeReads \/ SpikeRuns PROVE Typed'
<1>1. FileTypes /\ ToolTypes /\ SpikeTypes /\ LinkTypes /\ Present
  BY DEF Typed
<1>2. /\ UNCHANGED <<fileVars, toolVars, linkVars>> /\ pc \in {"spike", "run"}
      /\ pc' = pc \/ pc' = "idle" \/ (pc = "spike" /\ pc' = "expected")
                  \/ (pc = "run" /\ pc' = "open")
  BY DEF SpikeStart, SpikeReads, SpikeRuns, SpikeBusy, End
<1>3. FileTypes' /\ ToolTypes' /\ Present'
  BY <1>1, <1>2 DEF FileTypes, ToolTypes, Present, Versions, fileVars, toolVars, Pc, Builds, Links
<1>4. LinkTypes'
  BY <1>1, <1>2 DEF LinkTypes, linkVars
<1>5. SpikeTypes'
  <2>1. /\ pipe \in Seq(LogLine) /\ buf \in Seq(LogLine) /\ out \in Seq(Byte)
        /\ Len(pipe) <= PipeCap
        /\ child \in [st : {"none", "runs", "exited"}, todo : Seq(LogLine), then : Thens]
    BY <1>1 DEF SpikeTypes
  <2>2. <<>> \in Seq(LogLine) /\ Len(<<>>) = 0 /\ <<>> \in Seq(Byte)
    OBVIOUS
  <2>3. \A s \in Seq(LogLine) : s # <<>> => Head(s) \in LogLine /\ Tail(s) \in Seq(LogLine)
    OBVIOUS
  <2>4. \A s \in Seq(LogLine), x \in LogLine :
          Append(s, x) \in Seq(LogLine) /\ Len(Append(s, x)) = Len(s) + 1
    OBVIOUS
  <2>5. CASE SpikeStart
    <3>1. PICK then \in Thens : Spawn(Logs[test][elf], then)
      BY <2>5 DEF SpikeStart
    <3>2. Logs[test][elf] \in Seq(LogLine)
      BY <1>1, <1>2, LogTypes DEF Present
    <3> QED
      BY <2>2, <3>1, <3>2, Counts DEF Spawn, SpikeTypes
  <2>6. CASE SpikeRuns
    <3>1. CASE SpikeTick
      BY <2>1, <3>1 DEF SpikeTick, SpikeTypes
    <3>2. CASE ChildStep
      <4>1. child.todo \in Seq(LogLine) /\ Other \in LogLine
        BY <2>1 DEF Other, LogLine
      <4>2. buf' = buf /\ out' = out
        BY <3>2 DEF ChildStep
      <4>3. pipe' \in Seq(LogLine) /\ Len(pipe') <= PipeCap
        <5>1. \/ pipe' = pipe
              \/ Len(pipe) < PipeCap /\ \E x \in LogLine : pipe' = Append(pipe, x)
          BY <2>3, <3>2, <4>1 DEF ChildStep
        <5>2. Len(pipe) \in Nat
          BY <2>1
        <5>3. PipeCap \in Nat /\ \A n \in Nat : n < PipeCap => n + 1 <= PipeCap
          BY Counts
        <5>4. CASE pipe' = pipe
          BY <2>1, <5>4
        <5>5. ASSUME Len(pipe) < PipeCap, NEW x \in LogLine, pipe' = Append(pipe, x)
              PROVE  pipe' \in Seq(LogLine) /\ Len(pipe') <= PipeCap
          <6>1. pipe' \in Seq(LogLine) /\ Len(pipe') = Len(pipe) + 1
            BY <2>1, <2>4, <5>5
          <6>2. Len(pipe) + 1 <= PipeCap
            BY <5>2, <5>3, <5>5
          <6> QED
            BY <6>1, <6>2
        <5> QED
          BY <5>1, <5>4, <5>5
      <4>4. child' \in [st : {"none", "runs", "exited"}, todo : Seq(LogLine), then : Thens]
        <5>1. \/ child' = child
              \/ child' = [child EXCEPT !.st = "exited"]
              \/ child.todo # <<>> /\ child' = [child EXCEPT !.todo = Tail(@)]
          BY <3>2 DEF ChildStep
        <5>2. child.todo # <<>> => Tail(child.todo) \in Seq(LogLine)
          BY <2>3, <4>1
        <5> QED
          BY <2>1, <5>1, <5>2
      <4> QED
        BY <2>1, <4>2, <4>3, <4>4 DEF SpikeTypes
    <3> QED
      BY <2>6, <3>1, <3>2 DEF SpikeRuns
  <2>7. CASE SpikeReads
    <3>1. ASSUME pipe \o buf # <<>> PROVE Next1 \in LogLine /\ (buf = <<>> => pipe # <<>>)
      <4>1. <<>> \o <<>> = <<>>
        OBVIOUS
      <4>2. buf = <<>> => pipe # <<>>
        BY <3>1, <4>1
      <4> QED
        BY <2>1, <2>3, <4>2 DEF Next1
    <3>2. \A s, t \in Seq(Byte) : s \o t \in Seq(Byte)
      OBVIOUS
    <3>3. pipe \o buf # <<>> => out \o Parsed(Next1) \in Seq(Byte)
      BY <2>1, <3>1, <3>2, ParsedType
    <3>4. CASE ReadLine
      <4>1. out' \in Seq(Byte) /\ child' = child
        BY <3>3, <3>4 DEF ReadLine
      <4>2. pipe \o buf # <<>> /\ TakeLine
        BY <3>4 DEF ReadLine
      <4>3. buf' \in Seq(LogLine) /\ (pipe' = pipe \/ pipe' = <<>>)
        BY <2>1, <2>3, <3>1, <4>2 DEF TakeLine
      <4>4. PipeCap \in Nat /\ 0 <= PipeCap
        BY Counts
      <4>5. pipe' \in Seq(LogLine) /\ Len(pipe') <= PipeCap
        BY <2>1, <2>2, <4>3, <4>4
      <4> QED
        BY <2>1, <4>1, <4>3, <4>5 DEF SpikeTypes
    <3>5. CASE ReadBreak
      BY <1>1, <3>3, <3>5, ReapTypes DEF ReadBreak
    <3>6. CASE ReadEnd \/ TimeOut
      <4>1. Reap /\ out' \in Seq(Byte)
        BY <2>1, <3>6 DEF ReadEnd, TimeOut
      <4> QED
        BY <1>1, <4>1, ReapTypes
    <3> QED
      BY <2>7, <3>4, <3>5, <3>6 DEF SpikeReads
  <2> QED
    BY <2>5, <2>6, <2>7
<1> QED
  BY <1>3, <1>4, <1>5 DEF Typed

(* A step on the line leaves the files and Spike alone.                    *)
LEMMA LinkTyped ==
  ASSUME Typed, OpenLink \/ SendFrame \/ CompareReceives \/ SendReceives \/ LinkRuns
  PROVE  Typed'
<1>1. FileTypes /\ ToolTypes /\ SpikeTypes /\ LinkTypes /\ Present
  BY DEF Typed
<1>2. /\ UNCHANGED <<fileVars, toolVars, spikeVars>>
      /\ pc' = pc \/ pc' = "idle" \/ (pc \in Links /\ pc' \in Links)
  BY DEF OpenLink, SendFrame, CompareReceives, SendReceives, LinkRuns, End, Links
<1>3. FileTypes' /\ SpikeTypes'
  BY <1>1, <1>2 DEF FileTypes, Versions, SpikeTypes, fileVars, spikeVars
<1>4. ToolTypes' /\ Present'
  BY <1>1, <1>2 DEF ToolTypes, Present, fileVars, toolVars, Pc, Builds, Links
<1>5. LinkTypes'
  <2>1. /\ open \in BOOLEAN /\ (open => pc \in {"send", "recv"})
        /\ busy \in Seq(Byte) /\ wire \in Seq(Byte) /\ rx \in Seq(Byte) /\ mine \in Seq(Byte)
        /\ linkLeft \in Nat /\ silence \in Nat
    BY <1>1 DEF LinkTypes
  <2>2. <<>> \in Seq(Byte)
    OBVIOUS
  <2>3. \A s \in Seq(Byte) : s # <<>> => Head(s) \in Byte /\ Tail(s) \in Seq(Byte)
    OBVIOUS
  <2>4. \A s \in Seq(Byte), x \in Byte : Append(s, x) \in Seq(Byte)
    OBVIOUS
  <2>5. CASE OpenLink
    <3>1. CASE OpenPort /\ pc' = "send"
      BY <2>1, <2>2, <3>1 DEF OpenPort, LinkTypes
    <3>2. CASE UNCHANGED linkVars /\ pc = "open"
      BY <2>1, <3>2 DEF linkVars, LinkTypes
    <3> QED
      BY <2>5, <3>1, <3>2 DEF OpenLink
  <2>6. CASE SendFrame
    <3>1. /\ pc = "send" /\ pc' = "recv" /\ Send(Answers(bin)) /\ bin # 0
      BY <1>1, <2>6 DEF SendFrame, Present, Links
    <3>2. UNCHANGED <<open, wire, rx>> /\ linkLeft' \in Nat /\ silence' \in Nat
      BY <3>1, Counts DEF Send
    <3>3. busy' \in Seq(Byte) /\ mine' \in Seq(Byte)
      <4>1. \A a \in Answers(bin) \cup {<<>>} : a \in Seq(Byte)
        BY <1>1, <2>2, <3>1, AnswerTypes
      <4> QED
        BY <2>1, <3>1, <4>1 DEF Send
    <3> QED
      BY <2>1, <3>1, <3>2, <3>3 DEF LinkTypes
  <2>7. CASE CompareReceives
    <3>1. CASE Receive(Len(out)) /\ UNCHANGED pc
      <4>1. UNCHANGED <<busy, open, linkLeft, silence, mine>>
        BY <3>1 DEF Receive
      <4>2. rx' \in Seq(Byte) /\ wire' \in Seq(Byte)
        <5> DEFINE n == IF Len(wire) < ReadMax THEN Len(wire) ELSE ReadMax
        <5>1. n \in Nat /\ n <= Len(wire) /\ Len(wire) \in Nat
          BY <2>1, Counts
        <5>2. rx' = rx \o SubSeq(wire, 1, n) /\ wire' = SubSeq(wire, n + 1, Len(wire))
          BY <3>1 DEF Receive
        <5> HIDE DEF n
        <5>3. SubSeq(wire, 1, n) \in Seq(Byte) /\ SubSeq(wire, n + 1, Len(wire)) \in Seq(Byte)
          BY <2>1, <5>1
        <5>4. \A s, t \in Seq(Byte) : s \o t \in Seq(Byte)
          OBVIOUS
        <5> QED
          BY <2>1, <5>2, <5>3, <5>4
      <4> QED
        BY <2>1, <3>1, <4>1, <4>2 DEF LinkTypes
    <3>2. CASE ClosePort /\ UNCHANGED <<busy, rx, mine>>
      BY <1>1, <3>2, CloseTypes
    <3> QED
      BY <2>7, <3>1, <3>2 DEF CompareReceives
  <2>8. CASE SendReceives
    <3>1. CASE ReadByte /\ UNCHANGED pc
      BY <2>1, <2>3, <2>4, <3>1 DEF ReadByte, LinkTypes
    <3>2. CASE ReadNothing /\ UNCHANGED pc
      BY <2>1, <3>2 DEF ReadNothing, LinkTypes
    <3>3. CASE ClosePort /\ UNCHANGED <<busy, rx, mine>>
      BY <1>1, <3>3, CloseTypes
    <3> QED
      BY <2>8, <3>1, <3>2, <3>3 DEF SendReceives
  <2>9. CASE LinkRuns
    <3>1. CASE BoardByte /\ UNCHANGED pc
      BY <2>1, <2>3, <2>4, <3>1 DEF BoardByte, LinkTypes
    <3>2. CASE LinkTick /\ UNCHANGED pc
      BY <2>1, <3>2 DEF LinkTick, LinkTypes
    <3> QED
      BY <2>9, <3>1, <3>2 DEF LinkRuns
  <2> QED
    BY <2>5, <2>6, <2>7, <2>8, <2>9
<1> QED
  BY <1>3, <1>4, <1>5 DEF Typed

LEMMA UserTyped ==
  ASSUME Typed, Interrupt \/ Edit PROVE Typed'
<1>1. FileTypes /\ ToolTypes /\ SpikeTypes /\ LinkTypes /\ Present
  BY DEF Typed
<1>2. CASE Interrupt
  <2>1. /\ pc' = "idle" /\ Reap /\ ClosePort
        /\ UNCHANGED <<fileVars, toolVars, out, busy, rx, mine>>
    BY <1>2 DEF Interrupt, End
  <2>2. out' \in Seq(Byte)
    BY <1>1, <2>1 DEF SpikeTypes
  <2>3. SpikeTypes' /\ LinkTypes'
    BY <1>1, <2>1, <2>2, ReapTypes, CloseTypes
  <2>4. FileTypes' /\ ToolTypes' /\ Present'
    BY <1>1, <2>1 DEF FileTypes, Versions, ToolTypes, Present, Pc, Links, fileVars, toolVars
  <2> QED
    BY <2>3, <2>4 DEF Typed
<1>3. CASE Edit
  <2>1. /\ src' \in DOMAIN test.sources
        /\ UNCHANGED <<test, inst, elf, bin, expected, meta, toolVars, pc, spikeVars, linkVars>>
    BY <1>3 DEF Edit
  <2>2. FileTypes' /\ ToolTypes' /\ Present'
    BY <1>1, <2>1 DEF FileTypes, Versions, ToolTypes, Present, toolVars
  <2>3. SpikeTypes' /\ LinkTypes'
    BY <1>1, <2>1 DEF SpikeTypes, LinkTypes, spikeVars, linkVars
  <2> QED
    BY <2>2, <2>3 DEF Typed
<1> QED
  BY <1>2, <1>3

LEMMA InitTyped == Init => Typed
<1> SUFFICES ASSUME Init PROVE Typed
  OBVIOUS
<1>1. <<>> \in Seq(Byte) /\ <<>> \in Seq(LogLine) /\ Len(<<>>) = 0
  OBVIOUS
<1>2. FileTypes
  BY TestsAssumption DEF Init, FileTypes, Versions
<1>3. ToolTypes
  BY DEF Init, ToolTypes, Pc
<1>4. SpikeTypes
  BY <1>1, Counts DEF Init, SpikeInit, SpikeTypes, NoChild, Thens
<1>5. LinkTypes
  BY <1>1 DEF Init, LinkInit, LinkTypes
<1>6. Present
  BY DEF Init, Present, Links
<1> QED
  BY <1>2, <1>3, <1>4, <1>5, <1>6 DEF Typed

LEMMA StepTyped == Typed /\ IInv /\ [Next]_vars => Typed'
<1> SUFFICES ASSUME Typed, IInv, [Next]_vars PROVE Typed'
  OBVIOUS
<1>1. CASE Next
  BY <1>1, StartTyped, BuildTyped, SpikeTyped, LinkTyped, UserTyped DEF Next, Tool
<1>2. CASE UNCHANGED vars
  BY <1>2 DEF vars, fileVars, toolVars, spikeVars, linkVars, Typed, FileTypes, Versions,
              ToolTypes, SpikeTypes, LinkTypes, Present
<1> QED
  BY <1>1, <1>2

(* The files, the processes and the line keep their types; the pipe never   *)
(* holds more than its capacity, and the port is open only while a script   *)
(* sends and receives (two finally clauses).                               *)
THEOREM HostTypes == Spec => []TypeOK
BY InitTyped, InitIInv, StepTyped, StepIInv, TypedOK, PTL DEF Spec

-----------------------------------------------------------------------------
(* Reading what Spike logs.                                                *)

(* c[i] is what the first i lines of a log store to the UART address.       *)
Collects(c, log) ==
  /\ c \in [0 .. Len(log) -> Seq(Byte)] /\ c[0] = <<>>
  /\ \A i \in 1 .. Len(log) : c[i] = c[i - 1] \o Parsed(log[i])
(* Up to the breakpoint that is what the test is to leave behind.           *)
OfVersion(c, t, v) ==
  /\ Collects(c, Logs[t][v])
  /\ \A i \in 1 .. Len(Logs[t][v]) :
       Logs[t][v][i].kind = "trap_breakpoint" => c[i] = References[t][v]
(* The programs are right: a fact about each of them, without any process,  *)
(* pipe or deadline.                                                       *)
LogsExact ==
  \A t \in Tests : \A v \in DOMAIN t.sources :
    /\ \E c : OfVersion(c, t, v)
    /\ BytesToWords(References[t][v], Len(t.spec.what)) = WordsLeft[t][v]

Collected(t, v) == CHOOSE c : OfVersion(c, t, v)

(* Spike's output goes on after the log.                                   *)
Line(i, log) == IF i <= Len(log) THEN log[i] ELSE Other
Total(i, log, c) == IF i <= Len(log) THEN c[i] ELSE c[Len(log)]

(* The script has read n lines, and the rest is in the reader's buffer, in  *)
(* the pipe or still to come, in this order.                               *)
ReadTo(n, log, c) ==
  /\ \A i \in 1 .. Len(buf) : buf[i] = Line(n + i, log)
  /\ \A i \in 1 .. Len(pipe) : pipe[i] = Line(n + Len(buf) + i, log)
  /\ \A i \in 1 .. Len(child.todo) : child.todo[i] = Line(n + Len(buf) + Len(pipe) + i, log)
  /\ n + Len(buf) + Len(pipe) + Len(child.todo) >= Len(log)
  /\ out = Total(n, log, c)

Reading ==
  child.st # "none" =>
    /\ pc \in {"spike", "run"}
    /\ \E n \in Nat : ReadTo(n, Logs[test][elf], Collected(test, elf))
Exact == SpikeDone => out = Right(elf)

LEMMA OtherLine == Other \in LogLine /\ Parsed(Other) = <<>> /\ Other.kind # "trap_breakpoint"
  BY DEF Other, LogLine, Parsed

(* Spike writes.                                                           *)
LEMMA Writes ==
  ASSUME SpikeTypes, SpikeTypes', ChildStep, NEW n \in Nat, NEW log \in Seq(LogLine), NEW c,
         ReadTo(n, log, c)
  PROVE  ReadTo(n, log, c)'
<1>1. /\ buf \in Seq(LogLine) /\ pipe \in Seq(LogLine) /\ child.todo \in Seq(LogLine)
      /\ child \in [st : {"none", "runs", "exited"}, todo : Seq(LogLine), then : Thens]
  BY DEF SpikeTypes
<1>2. buf' = buf /\ out' = out
  BY DEF ChildStep
<1>3. /\ Len(buf) \in Nat /\ Len(pipe) \in Nat /\ Len(child.todo) \in Nat /\ Len(log) \in Nat
      /\ Len(buf') \in Nat /\ Len(pipe') \in Nat /\ Len(child'.todo) \in Nat
  BY <1>1 DEF SpikeTypes
<1>4. \A s \in Seq(LogLine), x \in LogLine :
        /\ Len(Append(s, x)) = Len(s) + 1 /\ Append(s, x)[Len(s) + 1] = x
        /\ \A i \in 1 .. Len(s) : Append(s, x)[i] = s[i]
  OBVIOUS
<1>5. CASE /\ child.todo # <<>> /\ pipe' = Append(pipe, Head(child.todo))
           /\ child'.todo = Tail(child.todo)
  <2>1. /\ Head(child.todo) \in LogLine /\ Head(child.todo) = child.todo[1]
        /\ Len(child.todo) >= 1
        /\ Len(Tail(child.todo)) = Len(child.todo) - 1
        /\ \A i \in 1 .. Len(Tail(child.todo)) : Tail(child.todo)[i] = child.todo[i + 1]
    BY <1>1, <1>5
  <2>2. /\ Len(pipe') = Len(pipe) + 1 /\ pipe'[Len(pipe) + 1] = child.todo[1]
        /\ \A i \in 1 .. Len(pipe) : pipe'[i] = pipe[i]
    BY <1>1, <1>4, <1>5, <2>1
  <2>3. child.todo[1] = Line(n + Len(buf) + Len(pipe) + 1, log)
    BY <1>3, <2>1 DEF ReadTo
  <2>4. ASSUME NEW i \in 1 .. Len(pipe') PROVE pipe'[i] = Line(n + Len(buf') + i, log)
    <3>1. CASE i \in 1 .. Len(pipe)
      BY <1>2, <2>2, <3>1 DEF ReadTo
    <3>2. CASE i = Len(pipe) + 1
      <4>1. n + Len(buf') + i = n + Len(buf) + Len(pipe) + 1
        BY <1>2, <1>3, <3>2
      <4> QED
        BY <2>2, <2>3, <3>2, <4>1
    <3> QED
      BY <1>3, <2>2, <3>1, <3>2
  <2>5. ASSUME NEW i \in 1 .. Len(child'.todo)
        PROVE  child'.todo[i] = Line(n + Len(buf') + Len(pipe') + i, log)
    <3>1. i + 1 \in 1 .. Len(child.todo) /\ child'.todo[i] = child.todo[i + 1]
      BY <1>3, <1>5, <2>1
    <3>2. n + Len(buf) + Len(pipe) + (i + 1) = n + Len(buf') + Len(pipe') + i
      BY <1>2, <1>3, <2>2
    <3>3. child.todo[i + 1] = Line(n + Len(buf) + Len(pipe) + (i + 1), log)
      BY <3>1 DEF ReadTo
    <3> QED
      BY <3>1, <3>2, <3>3
  <2>6. n + Len(buf') + Len(pipe') + Len(child'.todo) >= Len(log)
    <3>1. n + Len(buf) + Len(pipe) + Len(child.todo) >= Len(log)
      BY DEF ReadTo
    <3>2. Len(buf') = Len(buf) /\ Len(child'.todo) = Len(child.todo) - 1
      BY <1>2, <1>5, <2>1
    <3>3. Len(pipe') = Len(pipe) + 1
      BY <2>2
    <3>4. \A b, p, t, l \in Nat :
            n + b + p + t >= l /\ t - 1 \in Nat => n + b + (p + 1) + (t - 1) >= l
      OBVIOUS
    <3>5. Len(child.todo) - 1 \in Nat
      BY <1>3, <3>2
    <3>6. n + Len(buf) + (Len(pipe) + 1) + (Len(child.todo) - 1) >= Len(log)
      BY <1>3, <3>1, <3>4, <3>5
    <3> QED
      BY <3>2, <3>3, <3>6
  <2> QED
    BY <1>2, <2>4, <2>5, <2>6 DEF ReadTo
<1>6. CASE child.todo = <<>> /\ pipe' = Append(pipe, Other) /\ child' = child
  <2>1. Len(child.todo) = 0
    BY <1>6
  <2>2. /\ Len(pipe') = Len(pipe) + 1 /\ pipe'[Len(pipe) + 1] = Other
        /\ \A i \in 1 .. Len(pipe) : pipe'[i] = pipe[i]
    BY <1>1, <1>4, <1>6, OtherLine
  <2>3. n + Len(buf) + Len(pipe) + 1 > Len(log)
    BY <1>3, <2>1 DEF ReadTo
  <2>4. Line(n + Len(buf) + Len(pipe) + 1, log) = Other
    BY <1>3, <2>3 DEF Line
  <2>5. ASSUME NEW i \in 1 .. Len(pipe') PROVE pipe'[i] = Line(n + Len(buf') + i, log)
    <3>1. CASE i \in 1 .. Len(pipe)
      BY <1>2, <2>2, <3>1 DEF ReadTo
    <3>2. CASE i = Len(pipe) + 1
      <4>1. n + Len(buf') + i = n + Len(buf) + Len(pipe) + 1
        BY <1>2, <1>3, <3>2
      <4> QED
        BY <2>2, <2>4, <3>2, <4>1
    <3> QED
      BY <1>3, <2>2, <3>1, <3>2
  <2>6. Len(buf') = Len(buf) /\ child'.todo = child.todo /\ Len(child'.todo) = 0
    BY <1>2, <1>6, <2>1
  <2>7. n + Len(buf') + Len(pipe') + Len(child'.todo) >= Len(log)
    BY <1>3, <2>2, <2>3, <2>6
  <2>8. out' = Total(n, log, c)
    BY <1>2 DEF ReadTo
  <2>9. \A i \in 1 .. Len(buf') : buf'[i] = Line(n + i, log)
    BY <1>2 DEF ReadTo
  <2>10. \A i \in 1 .. Len(child'.todo) :
           child'.todo[i] = Line(n + Len(buf') + Len(pipe') + i, log)
    BY <2>6
  <2> QED
    BY <2>5, <2>7, <2>8, <2>9, <2>10 DEF ReadTo
<1>7. CASE pipe' = pipe /\ child'.todo = child.todo
  BY <1>2, <1>7 DEF ReadTo
<1> QED
  BY <1>1, <1>5, <1>6, <1>7 DEF ChildStep

(* The script reads a line: it is the next one, and counts once.            *)
LEMMA Reads ==
  ASSUME SpikeTypes, pipe \o buf # <<>>, NEW n \in Nat, NEW log \in Seq(LogLine), NEW c,
         Collects(c, log), ReadTo(n, log, c)
  PROVE  Next1 = Line(n + 1, log) /\ out \o Parsed(Next1) = Total(n + 1, log, c)
<1>1. buf \in Seq(LogLine) /\ pipe \in Seq(LogLine)
  BY DEF SpikeTypes
<1>2. Len(log) \in Nat
  OBVIOUS
<1>3. Next1 = Line(n + 1, log)
  <2>1. CASE buf # <<>>
    <3>1. 1 \in 1 .. Len(buf) /\ Head(buf) = buf[1]
      BY <1>1, <2>1
    <3> QED
      BY <2>1, <3>1 DEF Next1, ReadTo
  <2>2. CASE buf = <<>>
    <3>1. <<>> \o <<>> = <<>> /\ Len(buf) = 0
      BY <2>2
    <3>2. pipe # <<>>
      BY <2>2, <3>1
    <3>3. 1 \in 1 .. Len(pipe) /\ Head(pipe) = pipe[1]
      BY <1>1, <3>2
    <3>4. pipe[1] = Line(n + 0 + 1, log)
      BY <3>1, <3>3 DEF ReadTo
    <3> QED
      BY <2>2, <3>3, <3>4 DEF Next1
  <2> QED
    BY <2>1, <2>2
<1>4. out \o Parsed(Line(n + 1, log)) = Total(n + 1, log, c)
  <2>1. out = Total(n, log, c)
    BY DEF ReadTo
  <2>2. CASE n + 1 <= Len(log)
    <3>1. n + 1 \in 1 .. Len(log) /\ n <= Len(log) /\ (n + 1) - 1 = n
      BY <1>2, <2>2
    <3>2. c[n + 1] = c[n] \o Parsed(log[n + 1])
      BY <3>1 DEF Collects
    <3> QED
      BY <2>1, <2>2, <3>1, <3>2 DEF Line, Total
  <2>3. CASE ~(n + 1 <= Len(log))
    <3>1. Line(n + 1, log) = Other /\ Total(n + 1, log, c) = c[Len(log)]
      BY <2>3 DEF Line, Total
    <3>2. n = Len(log) \/ ~(n <= Len(log))
      BY <1>2, <2>3
    <3>3. out = c[Len(log)]
      BY <2>1, <3>2 DEF Total
    <3>4. c[Len(log)] \in Seq(Byte)
      BY <1>2 DEF Collects
    <3>5. \A s \in Seq(Byte) : s \o <<>> = s
      OBVIOUS
    <3> QED
      BY <3>1, <3>3, <3>4, <3>5, OtherLine
  <2> QED
    BY <2>2, <2>3
<1> QED
  BY <1>3, <1>4

LEMMA Takes ==
  ASSUME SpikeTypes, SpikeTypes', pipe \o buf # <<>>, TakeLine, child' = child,
         NEW n \in Nat, NEW log \in Seq(LogLine), NEW c, ReadTo(n, log, c),
         out' = Total(n + 1, log, c)
  PROVE  ReadTo(n + 1, log, c)'
<1>1. buf \in Seq(LogLine) /\ pipe \in Seq(LogLine) /\ child.todo \in Seq(LogLine)
  BY DEF SpikeTypes
<1>2. /\ Len(buf) \in Nat /\ Len(pipe) \in Nat /\ Len(child.todo) \in Nat /\ Len(log) \in Nat
      /\ Len(buf') \in Nat /\ Len(pipe') \in Nat
  BY <1>1 DEF SpikeTypes
<1>3. \A s \in Seq(LogLine) : s # <<>> =>
        /\ Len(s) >= 1 /\ Len(Tail(s)) = Len(s) - 1
        /\ \A i \in 1 .. Len(Tail(s)) : Tail(s)[i] = s[i + 1]
  OBVIOUS
<1>4. /\ Len(buf') + Len(pipe') + 1 = Len(buf) + Len(pipe)
      /\ \A i \in 1 .. Len(buf') : buf'[i] = Line((n + 1) + i, log)
      /\ \A i \in 1 .. Len(pipe') : pipe'[i] = Line((n + 1) + Len(buf') + i, log)
  <2>1. CASE buf # <<>>
    <3>1. buf' = Tail(buf) /\ pipe' = pipe
      BY <2>1 DEF TakeLine
    <3>2. Len(buf') = Len(buf) - 1 /\ \A i \in 1 .. Len(buf') : buf'[i] = buf[i + 1]
      BY <1>1, <1>3, <2>1, <3>1
    <3>0. Len(buf') = Len(buf) - 1 /\ Len(pipe') = Len(pipe)
      BY <3>1, <3>2
    <3>3. ASSUME NEW i \in 1 .. Len(buf') PROVE buf'[i] = Line((n + 1) + i, log)
      <4>1. i + 1 \in 1 .. Len(buf) /\ n + (i + 1) = (n + 1) + i
        BY <1>2, <3>0
      <4>2. buf[i + 1] = Line(n + (i + 1), log)
        BY <4>1 DEF ReadTo
      <4> QED
        BY <3>2, <4>1, <4>2
    <3>4. (n + 1) + Len(buf') = n + Len(buf)
      BY <1>2, <3>0
    <3>5. \A i \in 1 .. Len(pipe') : pipe'[i] = Line((n + 1) + Len(buf') + i, log)
      BY <3>1, <3>4 DEF ReadTo
    <3>6. Len(buf') + Len(pipe') + 1 = Len(buf) + Len(pipe)
      BY <1>2, <3>0
    <3> QED
      BY <3>3, <3>5, <3>6
  <2>2. CASE buf = <<>>
    <3>1. buf' = Tail(pipe) /\ pipe' = <<>> /\ Len(buf) = 0
      BY <2>2 DEF TakeLine
    <3>2. <<>> \o <<>> = <<>> /\ Len(<<>>) = 0
      OBVIOUS
    <3>3. pipe # <<>>
      BY <2>2, <3>2
    <3>4. Len(buf') = Len(pipe) - 1 /\ \A i \in 1 .. Len(buf') : buf'[i] = pipe[i + 1]
      BY <1>1, <1>3, <3>1, <3>3
    <3>5. ASSUME NEW i \in 1 .. Len(buf') PROVE buf'[i] = Line((n + 1) + i, log)
      <4>1. i + 1 \in 1 .. Len(pipe) /\ n + 0 + (i + 1) = (n + 1) + i
        BY <1>2, <3>4
      <4>2. pipe[i + 1] = Line(n + 0 + (i + 1), log)
        BY <3>1, <4>1 DEF ReadTo
      <4> QED
        BY <3>4, <4>1, <4>2
    <3>6. Len(pipe') = 0
      BY <3>1, <3>2
    <3>7. Len(buf') + Len(pipe') + 1 = Len(buf) + Len(pipe)
      BY <1>2, <3>1, <3>4, <3>6
    <3> QED
      BY <3>5, <3>6, <3>7
  <2> QED
    BY <2>1, <2>2
<1>5. (n + 1) + Len(buf') + Len(pipe') = n + Len(buf) + Len(pipe)
  <2>1. Len(buf') + Len(pipe') + 1 = Len(buf) + Len(pipe)
    BY <1>4
  <2> QED
    BY <1>2, <2>1
<1>6. \A i \in 1 .. Len(child'.todo) :
        child'.todo[i] = Line((n + 1) + Len(buf') + Len(pipe') + i, log)
  BY <1>5 DEF ReadTo
<1>7. (n + 1) + Len(buf') + Len(pipe') + Len(child'.todo) >= Len(log)
  BY <1>5 DEF ReadTo
<1> QED
  BY <1>4, <1>6, <1>7 DEF ReadTo

(* What LogsExact says of the program that is running.                     *)
LEMMA LogOf ==
  ASSUME LogsExact, FileTypes, elf # 0
  PROVE  /\ Logs[test][elf] \in Seq(LogLine)
         /\ OfVersion(Collected(test, elf), test, elf)
<1>1. test \in Tests /\ elf \in DOMAIN test.sources
  BY DEF FileTypes, Versions
<1>2. \E c : OfVersion(c, test, elf)
  BY <1>1 DEF LogsExact
<1> QED
  BY <1>1, <1>2, LogTypes DEF Collected

(* A step that leaves Spike and the ELF alone, where no Spike runs.         *)
LEMMA NoSpike ==
  ASSUME Reading, pc \notin {"spike", "run"}, child' = child
  PROVE  Reading'
BY DEF Reading

LEMMA SpikeGone ==
  ASSUME Reap PROVE Reading'
BY DEF Reap, NoChild, Reading

LEMMA Asleep ==
  ASSUME Reading, Exact, UNCHANGED <<test, elf, spikeVars, pc, tool, noSpike>>
  PROVE  Reading' /\ Exact'
<1>1. /\ UNCHANGED <<child, pipe, buf, out, test, elf, pc, tool, noSpike>>
  BY DEF spikeVars
<1>2. Exact'
  BY <1>1 DEF Exact, SpikeDone, Right
<1>3. Reading'
  BY <1>1 DEF Reading, ReadTo
<1> QED
  BY <1>2, <1>3

LEMMA SpikeStartReading ==
  ASSUME Typed, LogsExact, SpikeStart PROVE Reading' /\ Exact'
<1>1. /\ pc \in {"spike", "run"} /\ UNCHANGED <<test, elf, pc, tool>> /\ FileTypes /\ elf # 0
  BY DEF SpikeStart, fileVars, toolVars, Typed, Present
<1>2. PICK then \in Thens : Spawn(Logs[test][elf], then)
  BY DEF SpikeStart
<1>3. PICK log, c : log = Logs[test][elf] /\ c = Collected(test, elf)
  OBVIOUS
<1>4. log \in Seq(LogLine) /\ Collects(c, log)
  BY <1>1, <1>3, LogOf DEF OfVersion
<1>5. log = (Logs[test][elf])' /\ c = Collected(test, elf)'
  BY <1>1, <1>3
<1>6. Len(<<>>) = 0 /\ Len(log) \in Nat
  BY <1>4
<1>7. Total(0, log, c) = <<>>
  BY <1>4, <1>6 DEF Total, Collects
<1>8. \A i \in 1 .. Len(log) : log[i] = Line(0 + 0 + 0 + i, log)
  BY <1>6 DEF Line
<1>9. /\ child'.todo = log /\ buf' = <<>> /\ pipe' = <<>> /\ out' = <<>>
  BY <1>2, <1>3 DEF Spawn
<1>10. 0 + 0 + 0 + Len(log) >= Len(log)
  BY <1>6
<1>11. ReadTo(0, log, c)'
  BY <1>6, <1>7, <1>8, <1>9, <1>10 DEF ReadTo
<1>12. pc' \in {"spike", "run"}
  BY <1>1
<1>13. Reading'
  BY <1>5, <1>11, <1>12 DEF Reading
<1>14. Exact'
  BY <1>12 DEF Exact, SpikeDone, Links
<1> QED
  BY <1>13, <1>14

LEMMA SpikeRunsReading ==
  ASSUME Typed, Typed', LogsExact, Reading, SpikeRuns \/ SpikeReads PROVE Reading' /\ Exact'
<1>1. /\ pc \in {"spike", "run"} /\ child.st # "none" /\ UNCHANGED <<test, elf, tool>>
      /\ FileTypes /\ SpikeTypes /\ SpikeTypes' /\ elf # 0
  BY DEF SpikeRuns, SpikeReads, SpikeBusy, fileVars, toolVars, Typed, Present
<1>2. PICK log, c : log = Logs[test][elf] /\ c = Collected(test, elf)
  OBVIOUS
<1>3. /\ log \in Seq(LogLine) /\ Collects(c, log)
      /\ \A i \in 1 .. Len(log) : log[i].kind = "trap_breakpoint" => c[i] = Right(elf)
  BY <1>1, <1>2, LogOf DEF OfVersion, Right
<1>4. log = (Logs[test][elf])' /\ c = Collected(test, elf)' /\ Right(elf)' = Right(elf)
  BY <1>1, <1>2 DEF Right
<1>5. PICK n \in Nat : ReadTo(n, log, c)
  BY <1>1, <1>2 DEF Reading
<1>6. ASSUME NEW m \in Nat, ReadTo(m, log, c)', pc' = pc PROVE Reading' /\ Exact'
  <2>1. Reading'
    BY <1>1, <1>4, <1>6 DEF Reading
  <2>2. Exact'
    BY <1>1, <1>6 DEF Exact, SpikeDone, Links
  <2> QED
    BY <2>1, <2>2
<1>7. CASE SpikeRuns
  <2>1. pc' = pc
    BY <1>7 DEF SpikeRuns
  <2>2. CASE ChildStep
    BY <1>1, <1>3, <1>5, <1>6, <2>1, <2>2, Writes
  <2>3. CASE SpikeTick
    <3>1. ReadTo(n, log, c)'
      BY <1>5, <2>3 DEF SpikeTick, ReadTo
    <3> QED
      BY <1>6, <2>1, <3>1
  <2> QED
    BY <1>7, <2>2, <2>3 DEF SpikeRuns
<1>8. CASE ReadLine /\ UNCHANGED pc
  <2>1. /\ pipe \o buf # <<>> /\ TakeLine /\ child' = child /\ out' = out \o Parsed(Next1)
    BY <1>8 DEF ReadLine
  <2>2. out' = Total(n + 1, log, c)
    BY <1>1, <1>3, <1>5, <2>1, Reads
  <2>3. ReadTo(n + 1, log, c)'
    BY <1>1, <1>3, <1>5, <2>1, <2>2, Takes
  <2> QED
    BY <1>6, <1>8, <2>3
<1>9. CASE ReadBreak
  <2>1. /\ pipe \o buf # <<>> /\ Next1.kind = "trap_breakpoint" /\ Reap
        /\ out' = out \o Parsed(Next1)
    BY <1>9 DEF ReadBreak
  <2>2. Next1 = Line(n + 1, log) /\ out' = Total(n + 1, log, c)
    BY <1>1, <1>3, <1>5, <2>1, Reads
  <2>3. n + 1 <= Len(log) /\ n + 1 \in 1 .. Len(log)
    <3>1. n + 1 <= Len(log)
      BY <2>1, <2>2, OtherLine DEF Line
    <3>2. Len(log) \in Nat
      BY <1>3
    <3> QED
      BY <3>1, <3>2
  <2>4. log[n + 1].kind = "trap_breakpoint" /\ out' = c[n + 1]
    BY <2>1, <2>2, <2>3 DEF Line, Total
  <2>5. out' = Right(elf)'
    BY <1>3, <1>4, <2>3, <2>4
  <2> QED
    BY <2>1, <2>5, SpikeGone DEF Exact
<1>10. CASE (ReadEnd \/ TimeOut) /\ End("failed")
  <2>1. Reap /\ pc' = "idle"
    BY <1>10 DEF ReadEnd, TimeOut, End
  <2>2. Exact'
    BY <2>1 DEF Exact, SpikeDone, Links
  <2> QED
    BY <2>1, <2>2, SpikeGone
<1> QED
  BY <1>7, <1>8, <1>9, <1>10 DEF SpikeReads

LEMMA BuildReading ==
  ASSUME Reading, Exact,
         \/ Start \/ Decide \/ WriteInst \/ Gcc \/ Objcopy \/ WriteExpected \/ MetaOpen
         \/ MetaWrite \/ Load
  PROVE  Reading' /\ Exact'
<1>1. child' = child /\ pc \notin {"spike", "run"}
  BY DEF Start, Decide, WriteInst, Gcc, Objcopy, WriteExpected, MetaOpen, MetaWrite, Load,
         Quiet, spikeVars
<1>2. Reading'
  BY <1>1, NoSpike
<1>3. CASE WriteExpected \/ MetaOpen
  <2>1. UNCHANGED <<test, elf, out, tool, noSpike>> /\ pc \in {"expected", "meta"}
    BY <1>3 DEF WriteExpected, MetaOpen, Quiet, spikeVars, toolVars
  <2>2. pc' \in {"meta", "metaWrite"}
    BY <1>3 DEF WriteExpected, MetaOpen
  <2>3. SpikeDone' => SpikeDone
    BY <2>1, <2>2 DEF SpikeDone, Links
  <2>4. Right(elf)' = Right(elf)
    BY <2>1 DEF Right
  <2> QED
    BY <1>2, <2>1, <2>3, <2>4 DEF Exact
<1>4. CASE Objcopy
  <2>1. ~SpikeDone'
    BY <1>4 DEF Objcopy, SpikeDone, End, toolVars, Links
  <2> QED
    BY <1>2, <2>1 DEF Exact
<1>5. CASE Decide
  <2>1. ~SpikeDone'
    BY <1>5 DEF Decide, SpikeDone, End, toolVars, Links
  <2> QED
    BY <1>2, <2>1 DEF Exact
<1>6. CASE Start \/ WriteInst \/ Gcc \/ MetaWrite \/ Load
  <2>1. pc' \in {"start", "gcc", "objcopy", "idle", "load", "run"}
    BY <1>6 DEF Start, WriteInst, Gcc, MetaWrite, Load, End
  <2>2. ~SpikeDone'
    BY <2>1 DEF SpikeDone, Links
  <2> QED
    BY <1>2, <2>2 DEF Exact
<1> QED
  BY <1>3, <1>4, <1>5, <1>6

LEMMA LinkReading ==
  ASSUME Reading, Exact,
         \/ OpenLink \/ SendFrame \/ CompareReceives \/ SendReceives \/ LinkRuns
         \/ Interrupt \/ Edit
  PROVE  Reading' /\ Exact'
<1>1. CASE OpenLink \/ SendFrame \/ CompareReceives \/ SendReceives
  <2>1. /\ UNCHANGED <<test, elf, child, out, tool, noSpike>>
        /\ pc \in Links /\ (pc' \in Links \/ pc' = "idle")
    BY <1>1 DEF OpenLink, SendFrame, CompareReceives, SendReceives, End, Links,
                fileVars, toolVars, spikeVars
  <2>2. SpikeDone' => SpikeDone
    BY <2>1 DEF SpikeDone, Links
  <2>3. Right(elf)' = Right(elf)
    BY <2>1 DEF Right
  <2>4. Exact'
    BY <2>1, <2>2, <2>3 DEF Exact
  <2>5. pc \notin {"spike", "run"}
    BY <2>1 DEF Links
  <2> QED
    BY <2>1, <2>4, <2>5, NoSpike
<1>2. CASE LinkRuns \/ Edit
  <2>1. UNCHANGED <<test, elf, spikeVars, pc, tool, noSpike>>
    BY <1>2 DEF LinkRuns, Edit, fileVars, toolVars
  <2> QED
    BY <2>1, Asleep
<1>3. CASE Interrupt
  <2>1. Reap /\ pc' = "idle"
    BY <1>3 DEF Interrupt, End
  <2>2. Exact'
    BY <2>1 DEF Exact, SpikeDone, Links
  <2> QED
    BY <2>1, <2>2, SpikeGone
<1> QED
  BY <1>1, <1>2, <1>3

LEMMA InitReading == Init => Reading /\ Exact
  BY DEF Init, SpikeInit, NoChild, Reading, Exact, SpikeDone, Links

LEMMA StepReading ==
  ASSUME LogsExact
  PROVE  Typed /\ Typed' /\ Reading /\ Exact /\ [Next]_vars => Reading' /\ Exact'
<1> SUFFICES ASSUME Typed, Typed', Reading, Exact, [Next]_vars PROVE Reading' /\ Exact'
  OBVIOUS
<1>1. CASE Next
  BY <1>1, BuildReading, LinkReading, SpikeStartReading, SpikeRunsReading DEF Next, Tool
<1>2. CASE UNCHANGED vars
  <2>1. UNCHANGED <<test, elf, spikeVars, pc, tool, noSpike>>
    BY <1>2 DEF vars, fileVars, toolVars
  <2> QED
    BY <2>1, Asleep
<1> QED
  BY <1>1, <1>2

LEMMA ExactWords ==
  ASSUME LogsExact, Typed, Exact PROVE ReferenceExact
<1> SUFFICES ASSUME SpikeDone PROVE /\ out = Right(elf)
                                    /\ BytesToWords(out, Len(test.spec.what)) = WordsLeft[test][elf]
  BY DEF ReferenceExact
<1>1. out = Right(elf)
  BY DEF Exact
<1>2. elf # 0
  BY DEF SpikeDone, Typed, Present
<1>3. test \in Tests /\ elf \in DOMAIN test.sources
  BY <1>2 DEF Typed, FileTypes, Versions
<1>4. BytesToWords(References[test][elf], Len(test.spec.what)) = WordsLeft[test][elf]
  BY <1>3 DEF LogsExact
<1> QED
  BY <1>1, <1>4 DEF Right

(* Whatever Spike does after the log, however full the pipe and the reader's *)
(* buffer are when a line is taken, and wherever the deadline falls: where  *)
(* run_spike_expected returns, it has every byte the log stores to the UART *)
(* address up to the breakpoint, once and in order (build_bins.py:411-503). *)
THEOREM ReferenceCollected ==
  ASSUME LogsExact PROVE Spec => []ReferenceExact
BY InitTyped, InitIInv, InitReading, StepTyped, StepIInv, StepReading, ExactWords, PTL DEF Spec

-----------------------------------------------------------------------------
(* The answer of the board.                                                *)

(* What a board may send after the right output does not begin like the     *)
(* response that follows it.                                               *)
Unlike ==
  \A x \in Extras : x # <<>> =>
    \E i \in 1 .. 3 : (x \o Response(STATUS_OK))[i] # Response(STATUS_OK)[i]

(* Nothing of the answer to the frame is lost on the line, and nothing else *)
(* comes; while the bridge still sends, the silences are short.             *)
Flow ==
  /\ pc = "send" => open /\ busy = <<>> /\ wire = <<>> /\ rx = <<>> /\ mine = <<>>
  /\ pc = "recv" => /\ open /\ mine = (rx \o wire) \o busy
                    /\ mine \in Answers(bin) \cup {<<>>}
                    /\ (busy # <<>> => silence <= PauseMax)

LEMMA SendFlow ==
  ASSUME LinkTypes', Flow, SendFrame PROVE Flow'
<1>1. /\ pc' = "recv" /\ bin' = bin /\ test' = test /\ Send(Answers(bin))
      /\ open /\ busy = <<>> /\ wire = <<>> /\ rx = <<>>
  BY DEF SendFrame, Flow, fileVars
<1>2. PICK a \in Answers(bin) \cup {<<>>} : busy' = a /\ mine' = a
  BY <1>1 DEF Send
<1>3. open' /\ wire' = <<>> /\ rx' = <<>> /\ silence' = 0
  BY <1>1 DEF Send
<1>4. (<<>> \o <<>>) \o a = a
  <2>1. a \in Seq(Byte)
    BY <1>2 DEF LinkTypes
  <2>2. <<>> \o <<>> = <<>> /\ \A s \in Seq(Byte) : <<>> \o s = s
    OBVIOUS
  <2> QED
    BY <2>1, <2>2
<1>5. Answers(bin)' = Answers(bin)
  BY <1>1 DEF Answers, Right, Source
<1>6. 0 <= PauseMax
  BY Counts
<1> QED
  BY <1>1, <1>2, <1>3, <1>4, <1>5, <1>6 DEF Flow

LEMMA Grouped ==
  \A r, s, t \in Seq(Byte) : (r \o s) \o t = r \o (s \o t)
<1> TAKE r, s, t \in Seq(Byte)
<1> QED
  BY ConcatAssociative

LEMMA Taken ==
  ASSUME NEW r \in Seq(Byte), NEW w \in Seq(Byte), NEW n \in 0 .. Len(w)
  PROVE  (r \o SubSeq(w, 1, n)) \o SubSeq(w, n + 1, Len(w)) = r \o w
<1>1. SubSeq(w, 1, n) \in Seq(Byte) /\ SubSeq(w, n + 1, Len(w)) \in Seq(Byte)
  OBVIOUS
<1>2. 1 \in 1 .. Len(w) + 1 /\ n \in 1 - 1 .. Len(w) /\ Len(w) \in n .. Len(w)
  OBVIOUS
<1>3. SubSeq(w, 1, n) \o SubSeq(w, n + 1, Len(w)) = SubSeq(w, 1, Len(w))
  BY <1>2, ConcatAdjacentSubSeq
<1>4. SubSeq(w, 1, Len(w)) = w
  BY SubSeqFull
<1>5. (r \o SubSeq(w, 1, n)) \o SubSeq(w, n + 1, Len(w))
        = r \o (SubSeq(w, 1, n) \o SubSeq(w, n + 1, Len(w)))
  BY <1>1, Grouped, Zenon
<1> QED
  BY <1>3, <1>4, <1>5, Zenon

LEMMA HeadFirst ==
  ASSUME NEW r \in Seq(Byte), NEW w \in Seq(Byte), w # <<>>
  PROVE  Append(r, Head(w)) \o Tail(w) = r \o w
<1>1. 1 \in 0 .. Len(w) /\ Len(w) \in Nat /\ Len(w) >= 1
  OBVIOUS
<1>2. (r \o SubSeq(w, 1, 1)) \o SubSeq(w, 1 + 1, Len(w)) = r \o w
  BY <1>1, Taken
<1>3. SubSeq(w, 1, 1) = <<Head(w)>> /\ Head(w) \in Byte
  <2>1. SubSeq(w, 1, 1) = <<w[1]>>
    <3>1. SubSeq(w, 1, 1) = <<w[1]>> \o SubSeq(w, 1 + 1, 1)
      <4>1. 1 \in 1 .. Len(w) /\ 1 \in 1 .. Len(w)
        BY <1>1
      <4> QED
        BY <4>1, SubSeqRecursiveFirst
    <3>2. SubSeq(w, 1 + 1, 1) = <<>>
      BY SubSeqEmpty
    <3>3. w[1] \in Byte
      BY <1>1
    <3>4. \A x \in Byte : <<x>> \o <<>> = <<x>>
      OBVIOUS
    <3> QED
      BY <3>1, <3>2, <3>3, <3>4
  <2>2. Head(w) = w[1] /\ w[1] \in Byte
    BY <1>1
  <2> QED
    BY <2>1, <2>2
<1>4. SubSeq(w, 2, Len(w)) = Tail(w)
  BY TailIsSubSeq
<1>5. Append(r, Head(w)) = r \o <<Head(w)>>
  BY <1>3, AppendIsConcat
<1> QED
  BY <1>2, <1>3, <1>4, <1>5

(* The loops read, and the board sends.                                    *)
LEMMA ReceiveFlow ==
  ASSUME LinkTypes, Flow, pc = "recv", UNCHANGED <<test, bin, pc>>,
         \/ \E min \in Nat : Receive(min)
         \/ ReadByte \/ ReadNothing \/ BoardByte \/ LinkTick
  PROVE  Flow'
<1>1. /\ busy \in Seq(Byte) /\ wire \in Seq(Byte) /\ rx \in Seq(Byte) /\ silence \in Nat
      /\ open /\ mine = (rx \o wire) \o busy /\ mine \in Answers(bin) \cup {<<>>}
      /\ (busy # <<>> => silence <= PauseMax)
  BY DEF LinkTypes, Flow
<1>2. Answers(bin)' = Answers(bin) /\ pc' = "recv" /\ open' /\ mine' = mine
  BY <1>1 DEF Answers, Right, Source, Receive, ReadByte, ReadNothing, BoardByte, LinkTick
<1>3. mine = (rx' \o wire') \o busy'
  <2>1. CASE \E min \in Nat : Receive(min)
    <3>1. PICK min \in Nat : Receive(min)
      BY <2>1
    <3> DEFINE n == IF Len(wire) < ReadMax THEN Len(wire) ELSE ReadMax
    <3>2. n \in 0 .. Len(wire)
      BY <1>1, Counts
    <3>3. /\ rx' = rx \o SubSeq(wire, 1, n) /\ wire' = SubSeq(wire, n + 1, Len(wire))
          /\ busy' = busy
      BY <3>1 DEF Receive
    <3> HIDE DEF n
    <3>4. rx' \o wire' = rx \o wire
      BY <1>1, <3>2, <3>3, Taken
    <3> QED
      BY <1>1, <3>3, <3>4
  <2>2. CASE ReadByte
    BY <1>1, <2>2, HeadFirst DEF ReadByte
  <2>3. CASE ReadNothing
    BY <1>1, <2>3 DEF ReadNothing
  <2>4. CASE BoardByte
    <3>1. /\ busy # <<>> /\ busy' = Tail(busy) /\ wire' = Append(wire, Head(busy)) /\ rx' = rx
      BY <1>1, <2>4 DEF BoardByte
    <3>2. Head(busy) \in Byte /\ Tail(busy) \in Seq(Byte)
      BY <1>1, <3>1
    <3>3. Append(wire, Head(busy)) \in Seq(Byte)
      BY <1>1, <3>2
    <3>4. Append(wire, Head(busy)) \o Tail(busy) = wire \o busy
      BY <1>1, <3>1, HeadFirst
    <3>5. (rx \o Append(wire, Head(busy))) \o Tail(busy) = rx \o (wire \o busy)
      <4>1. (rx \o Append(wire, Head(busy))) \o Tail(busy)
            = rx \o (Append(wire, Head(busy)) \o Tail(busy))
        BY <1>1, <3>2, <3>3, Grouped, Zenon
      <4> QED
        BY <3>4, <4>1, Zenon
    <3>6. (rx \o wire) \o busy = rx \o (wire \o busy)
      BY <1>1, Grouped
    <3> QED
      BY <1>1, <3>1, <3>5, <3>6
  <2>5. CASE LinkTick
    BY <1>1, <2>5 DEF LinkTick
  <2> QED
    BY <2>1, <2>2, <2>3, <2>4, <2>5
<1>4. busy' # <<>> => silence' <= PauseMax
  <2>1. CASE (\E min \in Nat : Receive(min)) \/ LinkTick
    BY <1>1, <2>1 DEF Receive, LinkTick
  <2>2. CASE ReadByte
    BY <2>2, Counts DEF ReadByte
  <2>3. CASE ReadNothing
    <3>1. busy' = busy /\ (busy = <<>> \/ silence < PauseMax)
      BY <2>3 DEF ReadNothing
    <3>2. silence' = silence \/ silence' = silence + 1
      BY <2>3 DEF ReadNothing
    <3> QED
      BY <1>1, <3>1, <3>2, Counts
  <2>4. CASE BoardByte
    BY <1>1, <2>4 DEF BoardByte
  <2> QED
    BY <2>1, <2>2, <2>3, <2>4
<1> QED
  BY <1>1, <1>2, <1>3, <1>4 DEF Flow

(* A step of the two loops comes with the types of what they read.          *)
LEMMA LinkFlow ==
  ASSUME Typed, Typed', Flow, ~Impatient,
         OpenLink \/ SendFrame \/ CompareReceives \/ SendReceives \/ LinkRuns
  PROVE  Flow'
<1>1. SpikeTypes /\ LinkTypes /\ LinkTypes'
  BY DEF Typed
<1>2. CASE pc' \notin {"send", "recv"}
  BY <1>2 DEF Flow
<1>3. CASE OpenLink /\ pc' = "send"
  <2>1. OpenPort /\ busy = <<>>
    BY <1>3 DEF OpenLink, End
  <2> QED
    BY <1>3, <2>1 DEF OpenPort, Flow
<1>4. CASE OpenLink /\ pc' = "idle"
  BY <1>2, <1>4
<1>5. CASE SendFrame
  BY <1>1, <1>5, SendFlow
<1>6. CASE CompareReceives \/ SendReceives
  <2>1. pc = "recv" /\ UNCHANGED <<test, bin>> /\ (pc' = pc \/ pc' = "idle")
    BY <1>6 DEF CompareReceives, SendReceives, fileVars, End
  <2>2. Len(out) \in Nat
    BY <1>1 DEF SpikeTypes
  <2>3. pc' = pc => \/ \E min \in Nat : Receive(min)
                    \/ ReadByte \/ ReadNothing
    BY <1>6, <2>1, <2>2 DEF CompareReceives, SendReceives, End
  <2> QED
    BY <1>1, <1>2, <2>1, <2>3, ReceiveFlow
<1>7. CASE LinkRuns
  <2>1. UNCHANGED <<test, bin, pc>> /\ (BoardByte \/ LinkTick)
    BY <1>7 DEF LinkRuns, fileVars
  <2>2. CASE pc = "recv"
    BY <1>1, <2>1, <2>2, ReceiveFlow
  <2>3. CASE pc = "send"
    <3>1. busy = <<>> /\ wire = <<>> /\ rx = <<>> /\ mine = <<>> /\ open
      BY <2>3 DEF Flow
    <3>2. LinkTick
      BY <2>1, <3>1 DEF BoardByte
    <3> QED
      BY <2>1, <2>3, <3>1, <3>2 DEF LinkTick, Flow
  <2> QED
    BY <1>2, <2>1, <2>2, <2>3
<1> QED
  BY <1>3, <1>4, <1>5, <1>6, <1>7 DEF OpenLink, End

LEMMA InitFlow == Init => Flow
  BY DEF Init, Flow

LEMMA StepFlow ==
  ASSUME ~Impatient
  PROVE  Typed /\ Typed' /\ Flow /\ [Next]_vars => Flow'
<1> SUFFICES ASSUME Typed, Typed', Flow, [Next]_vars PROVE Flow'
  OBVIOUS
<1>1. CASE OpenLink \/ SendFrame \/ CompareReceives \/ SendReceives \/ LinkRuns
  BY <1>1, LinkFlow
<1>2. CASE \/ Start \/ Decide \/ WriteInst \/ Gcc \/ Objcopy \/ WriteExpected \/ MetaOpen
           \/ MetaWrite \/ Load \/ SpikeStart \/ SpikeReads \/ SpikeRuns \/ Interrupt
  <2>1. pc' \notin {"send", "recv"}
    BY <1>2 DEF Start, Decide, WriteInst, Gcc, Objcopy, WriteExpected, MetaOpen, MetaWrite,
       Load, SpikeStart, SpikeReads, SpikeRuns, SpikeBusy, Interrupt, End
  <2> QED
    BY <2>1 DEF Flow
<1>3. CASE Edit \/ UNCHANGED vars
  <2>1. UNCHANGED <<test, bin, pc, linkVars>>
    BY <1>3 DEF Edit, vars, fileVars
  <2> QED
    BY <2>1 DEF linkVars, Flow, Answers, Right, Source
<1> QED
  BY <1>1, <1>2, <1>3 DEF Next, Tool

(* A set of naturals has a least element, a bounded one a greatest.         *)
LEMMA LeastOf ==
  ASSUME NEW T \in SUBSET Nat, T # {}
  PROVE  \E x \in T : \A y \in T : x <= y
<1> DEFINE L == OpToRel(<, Nat)
<1>1. IsWellFoundedOn(L, Nat)
  BY NatLessThanWellFounded
<1>2. \A x, y \in Nat : <<y, x>> \in L <=> y < x
  BY DEF OpToRel
<1> HIDE DEF L
<1>3. PICK x \in T : \A y \in T : ~(<<y, x>> \in L)
  BY <1>1, WFMin
<1>4. \A y \in T : y \in Nat /\ ~(y < x)
  BY <1>2, <1>3
<1> QED
  BY <1>3, <1>4

(* find_response finds a response, after the expected bytes.               *)
LEMMA Found ==
  ASSUME NEW b \in Seq(Byte), NEW min \in Nat, FindResponse(b, min) # 0
  PROVE  FindResponse(b, min) \in Marks(b, min)
<1> DEFINE M == Marks(b, min)
           D == {Len(b) - k : k \in M}
<1>1. Len(b) \in Nat /\ \A k \in M : k \in 1 .. Len(b) - 2
  BY DEF Marks
<1>2. M # {} /\ FindResponse(b, min) = CHOOSE k \in M : \A j \in M : j <= k
  BY DEF FindResponse
<1> HIDE DEF M
<1>3. D \in SUBSET Nat /\ D # {}
  <2>1. \A k \in M : Len(b) - k \in Nat
    BY <1>1
  <2> QED
    BY <1>2, <2>1
<1>4. PICK d \in D : \A e \in D : d <= e
  BY <1>3, LeastOf
<1>5. PICK k \in M : d = Len(b) - k
  BY DEF D
<1>6. \A j \in M : Len(b) - k <= Len(b) - j
  BY <1>4, <1>5
<1>7. \A j \in M : j <= k
  BY <1>1, <1>6
<1>8. FindResponse(b, min) \in M
  BY <1>2, <1>7
<1> QED
  BY <1>8 DEF M

LEMMA Beginning ==
  ASSUME NEW r \in Seq(Byte), NEW w \in Seq(Byte), NEW b \in Seq(Byte)
  PROVE  /\ Len((r \o w) \o b) \in Nat /\ Len((r \o w) \o b) >= Len(r)
         /\ \A i \in 1 .. Len(r) : ((r \o w) \o b)[i] = r[i]
<1>1. r \o w \in Seq(Byte) /\ Len(r \o w) = Len(r) + Len(w)
  OBVIOUS
<1>2. \A i \in 1 .. Len(r) : (r \o w)[i] = r[i]
  BY ConcatProperties
<1>3. /\ Len((r \o w) \o b) = Len(r \o w) + Len(b)
      /\ \A i \in 1 .. Len(r \o w) : ((r \o w) \o b)[i] = (r \o w)[i]
  <2>1. \A s, t \in Seq(Byte) : /\ Len(s \o t) = Len(s) + Len(t)
                                /\ \A i \in 1 .. Len(s) : (s \o t)[i] = s[i]
    OBVIOUS
  <2> QED
    BY <1>1, <2>1
<1>4. Len(r) \in Nat /\ Len(w) \in Nat /\ Len(b) \in Nat
  OBVIOUS
<1>5. Len((r \o w) \o b) = Len(r) + Len(w) + Len(b)
  BY <1>1, <1>3
<1>6. \A i \in 1 .. Len(r) : i \in 1 .. Len(r \o w)
  BY <1>1, <1>4
<1> QED
  BY <1>2, <1>3, <1>4, <1>5, <1>6

(* What a verdict of pass or mismatch has seen.                            *)
LEMMA Seen ==
  ASSUME NEW b \in Seq(Byte), NEW e \in Seq(Byte), NEW k, k = FindResponse(b, Len(e)), k # 0
  PROVE  /\ k \in Nat /\ k > Len(e) /\ k <= Len(b) - 2
         /\ b[k] = RESP_CMD /\ b[k + 2] = Xor2(RESP_CMD, b[k + 1])
         /\ SubSeq(b, 1, k - 1) \in Seq(Byte) /\ Len(SubSeq(b, 1, k - 1)) = k - 1
         /\ \A i \in 1 .. k - 1 : SubSeq(b, 1, k - 1)[i] = b[i]
<1>1. Len(e) \in Nat /\ Len(b) \in Nat
  OBVIOUS
<1>2. k \in Marks(b, Len(e))
  BY <1>1, Found
<1>3. /\ k \in Nat /\ k > Len(e) /\ k <= Len(b) - 2
      /\ b[k] = RESP_CMD /\ b[k + 2] = Xor2(RESP_CMD, b[k + 1])
  BY <1>1, <1>2 DEF Marks
<1>4. \A n \in Nat : n <= Len(b) =>
        /\ SubSeq(b, 1, n) \in Seq(Byte) /\ Len(SubSeq(b, 1, n)) = n
        /\ \A i \in 1 .. n : SubSeq(b, 1, n)[i] = b[i]
  OBVIOUS
<1>5. k - 1 \in Nat /\ k - 1 <= Len(b)
  BY <1>1, <1>3
<1> QED
  BY <1>3, <1>4, <1>5

LEMMA Joined ==
  \A s, t \in Seq(Byte) :
    /\ s \o t \in Seq(Byte) /\ Len(s \o t) = Len(s) + Len(t)
    /\ \A i \in 1 .. Len(s) : (s \o t)[i] = s[i]
    /\ \A i \in 1 .. Len(t) : (s \o t)[Len(s) + i] = t[i]
OBVIOUS

LEMMA Cut ==
  ASSUME NEW s \in Seq(Byte), NEW n \in 0 .. Len(s)
  PROVE  SubSeq(s, 1, n) \in Seq(Byte) /\ Len(SubSeq(s, 1, n)) = n
OBVIOUS

(* Two sequences of bytes whose two parts have one length and agree.        *)
LEMMA SameParts ==
  ASSUME NEW a \in Seq(Byte), NEW s \in Seq(Byte), NEW t \in Seq(Byte),
         Len(a) = Len(s) + Len(t),
         \A i \in 1 .. Len(s) : a[i] = s[i],
         \A i \in 1 .. Len(t) : a[Len(s) + i] = t[i]
  PROVE  a = s \o t
<1>1. s \o t \in Seq(Byte) /\ Len(s \o t) = Len(a)
  BY Joined
<1>2. Len(s) \in Nat /\ Len(t) \in Nat
  OBVIOUS
<1>3. ASSUME NEW i \in 1 .. Len(a) PROVE a[i] = (s \o t)[i]
  <2>1. CASE i \in 1 .. Len(s)
    BY <2>1, Joined
  <2>2. CASE ~(i \in 1 .. Len(s))
    <3>1. i - Len(s) \in 1 .. Len(t) /\ Len(s) + (i - Len(s)) = i
      BY <1>2, <2>2
    <3>2. a[Len(s) + (i - Len(s))] = t[i - Len(s)]
      BY <3>1
    <3>3. (s \o t)[Len(s) + (i - Len(s))] = t[i - Len(s)]
      BY <3>1, Joined
    <3> QED
      BY <3>1, <3>2, <3>3
  <2> QED
    BY <2>1, <2>2
<1> QED
  BY <1>1, <1>3, SeqEqual

(* What begins with the expected bytes and a response is nothing more.      *)
LEMMA OnlyAnswer ==
  ASSUME FileTypes, bin # 0, Unlike,
         NEW o \in Seq(Byte), Len(o) = Len(Right(bin)),
         NEW a \in Answers(bin) \cup {<<>>}, a \in Seq(Byte),
         Len(a) >= Len(o) + 3,
         \A i \in 1 .. Len(o) : a[i] = o[i],
         \A i \in 1 .. 3 : a[Len(o) + i] = Response(STATUS_OK)[i]
  PROVE  a = o \o Response(STATUS_OK)
<1> DEFINE R == Response(STATUS_OK)
           W == Right(bin)
           F == Front(Right(bin))
<1>1. /\ W \in Seq(Byte) /\ Len(W) \in Nat /\ Len(W) >= 1
  <2>1. test \in Tests /\ bin \in DOMAIN test.sources
    BY DEF FileTypes, Versions
  <2>2. /\ W \in Seq(Byte) /\ Len(W) = 4 * Len(test.spec.what)
        /\ Len(test.spec.what) \in Nat \ {0}
    BY <2>1, TestsAssumption DEF Right
  <2> QED
    BY <2>2
<1>2. F \in Seq(Byte) /\ Len(F) = Len(W) - 1
  <2>2. Len(W) - 1 \in 0 .. Len(W)
    BY <1>1
  <2> QED
    BY <1>1, <2>2, Cut DEF Front
<1>3. \A n \in 0 .. 3 : Response(n) \in Seq(Byte) /\ Len(Response(n)) = 3
  BY ResponseType
<1>4. /\ R \in Seq(Byte) /\ Len(R) = 3
      /\ Response(1) \in Seq(Byte) /\ Len(Response(1)) = 3
      /\ Response(3) \in Seq(Byte) /\ Len(Response(3)) = 3
  <2>1. 0 \in 0 .. 3 /\ 1 \in 0 .. 3 /\ 3 \in 0 .. 3
    OBVIOUS
  <2> QED
    BY <1>3, <2>1 DEF STATUS_OK
<1>5. <<1>> \in Seq(Byte) /\ Len(<<1>>) = 1
  BY ResponseAssumption, RadixAssumption DEF Byte
<1>6. Len(o) = Len(W) /\ \A i \in 1 .. 3 : a[Len(o) + i] = R[i]
  OBVIOUS
<1> HIDE DEF R, W, F
<1>7. CASE \E x \in Extras \cup {<<>>} : a = (W \o x) \o R
  <2>1. PICK x \in Extras \cup {<<>>} : a = (W \o x) \o R
    BY <1>7
  <2>2. x \in Seq(Byte)
    <3>1. <<>> \in Seq(Byte)
      OBVIOUS
    <3> QED
      BY <3>1, ExtrasAssumption
  <2>3. a = W \o (x \o R) /\ x \o R \in Seq(Byte) /\ Len(x \o R) = Len(x) + 3
    <3>1. (W \o x) \o R = W \o (x \o R)
      <4>1. W \in Seq(Byte) /\ R \in Seq(Byte)
        BY <1>1, <1>4
      <4> QED
        BY <2>2, <4>1, Grouped, Zenon
    <3>2. x \o R \in Seq(Byte) /\ Len(x \o R) = Len(x) + Len(R)
      BY <1>4, <2>2, Joined, Zenon
    <3> QED
      BY <1>4, <2>1, <3>1, <3>2
  <2>4. Len(x) \in Nat
    BY <2>2
  <2>5. ASSUME NEW i \in 1 .. 3 PROVE (x \o R)[i] = R[i]
    <3>1. i \in 1 .. Len(x \o R)
      BY <2>3, <2>4
    <3>2. a[Len(W) + i] = (x \o R)[i]
      <4>1. W \in Seq(Byte) /\ x \o R \in Seq(Byte) /\ a = W \o (x \o R)
        BY <1>1, <2>3
      <4>2. \A j \in 1 .. Len(x \o R) : (W \o (x \o R))[Len(W) + j] = (x \o R)[j]
        BY <4>1, Joined, ZenonT(60)
      <4> QED
        BY <3>1, <4>1, <4>2, Zenon
    <3> QED
      BY <1>6, <3>2
  <2>6. x = <<>>
    BY <2>1, <2>5 DEF Unlike, R
  <2>7. x \o R = R /\ Len(x) = 0
    BY <1>4, <2>6
  <2>8. Len(a) = Len(o) + Len(R)
    <3>1. Len(W \o R) = Len(W) + Len(R)
      BY <1>1, <1>4, Joined, Zenon
    <3> QED
      BY <1>6, <2>3, <2>7, <3>1
  <2>9. \A i \in 1 .. Len(R) : a[Len(o) + i] = R[i]
    BY <1>4, <1>6
  <2> QED
    BY <1>4, <2>8, <2>9, SameParts DEF R
<1>8. CASE a = (F \o <<1>>) \o R
  <2>1. F \o <<1>> \in Seq(Byte) /\ Len(F \o <<1>>) = Len(F) + 1
    BY <1>2, <1>5, Joined
  <2>2. Len(a) = Len(F) + 1 + 3
    <3>1. Len((F \o <<1>>) \o R) = Len(F \o <<1>>) + Len(R)
      BY <1>4, <2>1, Joined, Zenon
    <3> QED
      BY <1>4, <1>8, <2>1, <3>1
  <2>3. Len(a) = Len(o) + Len(R)
    <3>1. Len(o) = Len(W) /\ Len(R) = 3
      BY <1>4, <1>6
    <3> QED
      BY <1>1, <1>2, <2>2, <3>1
  <2>4. \A i \in 1 .. Len(R) : a[Len(o) + i] = R[i]
    BY <1>4, <1>6
  <2> QED
    BY <1>4, <2>3, <2>4, SameParts DEF R
<1>9. CASE a = F \o R \/ a = F \o Response(1)
  <2>1. Len(a) = Len(F) + 3
    <3>1. Len(F \o R) = Len(F) + Len(R) /\ Len(F \o Response(1)) = Len(F) + Len(Response(1))
      BY <1>2, <1>4, Joined, Zenon
    <3> QED
      BY <1>4, <1>9, <3>1
  <2>2. Len(o) = Len(W)
    BY <1>6
  <2> QED
    BY <1>1, <1>2, <2>1, <2>2
<1>10. CASE a \in {Response(1), Response(3), <<>>}
  <2>1. Len(<<>>) = 0
    OBVIOUS
  <2>2. Len(a) = 3 \/ Len(a) = 0
    BY <1>4, <1>10, <2>1
  <2>3. Len(o) = Len(W)
    BY <1>6
  <2> QED
    BY <1>1, <2>2, <2>3
<1> QED
  BY <1>7, <1>8, <1>9, <1>10 DEF Answers, R, W, F

(* What main of compare makes of what it read.                             *)
LEMMA Judged ==
  ASSUME Typed, Exact, Flow, Unlike, pc = "recv", tool = "compare"
  PROVE  /\ Verdict(out) = "pass" => mine = out \o Response(STATUS_OK)
         /\ Verdict(out) = "mismatch" => mine # out \o Response(STATUS_OK)
<1>1. /\ FileTypes /\ bin # 0 /\ elf # 0
      /\ busy \in Seq(Byte) /\ wire \in Seq(Byte) /\ rx \in Seq(Byte) /\ mine \in Seq(Byte)
      /\ out \in Seq(Byte)
  BY DEF Typed, Present, LinkTypes, SpikeTypes, Links
<1>2. mine = (rx \o wire) \o busy /\ mine \in Answers(bin) \cup {<<>>}
  BY DEF Flow
<1>3. Len(out) = Len(Right(bin))
  <2>1. out = Right(elf)
    BY DEF Exact, SpikeDone, Links
  <2> QED
    BY <1>1, <2>1, TestsAssumption DEF FileTypes, Versions, Right
<1>4. /\ Len(mine) \in Nat /\ Len(mine) >= Len(rx)
      /\ \A i \in 1 .. Len(rx) : mine[i] = rx[i]
  BY <1>1, <1>2, Beginning
<1>5. Len(out) \in Nat /\ Len(rx) \in Nat
  BY <1>1
<1>6. PICK k : k = FindResponse(rx, Len(out))
  OBVIOUS
<1>7. Response(STATUS_OK) \in Seq(Byte) /\ Len(Response(STATUS_OK)) = 3
  <2>1. STATUS_OK \in 0 .. 3
    BY DEF STATUS_OK
  <2> QED
    BY <2>1, ResponseType
<1>8. ASSUME k # 0
      PROVE  /\ k \in Nat /\ k > Len(out) /\ k <= Len(rx) - 2
             /\ rx[k] = RESP_CMD /\ rx[k + 2] = Xor2(RESP_CMD, rx[k + 1])
             /\ SubSeq(rx, 1, k - 1) \in Seq(Byte) /\ Len(SubSeq(rx, 1, k - 1)) = k - 1
             /\ \A i \in 1 .. k - 1 : SubSeq(rx, 1, k - 1)[i] = rx[i]
  <2>1. rx \in Seq(Byte) /\ out \in Seq(Byte)
    BY <1>1
  <2> QED
    BY <1>6, <1>8, <2>1, Seen
<1>9. ASSUME Verdict(out) = "pass" PROVE mine = out \o Response(STATUS_OK)
  <2>1. k # 0 /\ rx[k + 1] = STATUS_OK /\ SubSeq(rx, 1, k - 1) = out
    BY <1>6, <1>9 DEF Verdict
  <2>2. k = Len(out) + 1 /\ k \in Nat
    BY <1>5, <1>8, <2>1
  <2>3. \A i \in 1 .. Len(out) : i \in 1 .. Len(rx) /\ out[i] = rx[i]
    BY <1>5, <1>8, <2>1, <2>2
  <2>4. \A i \in 1 .. Len(out) : mine[i] = out[i]
    BY <1>4, <2>3
  <2>5. k \in 1 .. Len(rx) /\ k + 1 \in 1 .. Len(rx) /\ k + 2 \in 1 .. Len(rx)
    BY <1>5, <1>8, <2>1, <2>2
  <2>6. mine[k] = RESP_CMD /\ mine[k + 1] = STATUS_OK /\ mine[k + 2] = Xor2(RESP_CMD, STATUS_OK)
    BY <1>4, <1>8, <2>1, <2>5
  <2>7. /\ Response(STATUS_OK)[1] = RESP_CMD /\ Response(STATUS_OK)[2] = STATUS_OK
        /\ Response(STATUS_OK)[3] = Xor2(RESP_CMD, STATUS_OK)
    BY DEF Response
  <2>8. Len(out) + 1 = k /\ Len(out) + 2 = k + 1 /\ Len(out) + 3 = k + 2
    BY <1>5, <2>2
  <2>9. \A i \in 1 .. 3 : mine[Len(out) + i] = Response(STATUS_OK)[i]
    <3>1. \A i \in 1 .. 3 : i = 1 \/ i = 2 \/ i = 3
      OBVIOUS
    <3> QED
      BY <2>6, <2>7, <2>8, <3>1
  <2>10. Len(mine) >= Len(out) + 3
    BY <1>4, <1>5, <2>5, <2>8
  <2> QED
    BY <1>1, <1>2, <1>3, <2>4, <2>9, <2>10, OnlyAnswer
<1>10. ASSUME Verdict(out) = "mismatch", mine = out \o Response(STATUS_OK) PROVE FALSE
  <2>1. k # 0 /\ SubSeq(rx, 1, k - 1) # out
    BY <1>6, <1>10 DEF Verdict
  <2>2. Len(mine) = Len(out) + 3 /\ \A i \in 1 .. Len(out) : mine[i] = out[i]
    <3>1. /\ Len(out \o Response(STATUS_OK)) = Len(out) + Len(Response(STATUS_OK))
          /\ \A i \in 1 .. Len(out) : (out \o Response(STATUS_OK))[i] = out[i]
      BY <1>1, <1>7, Joined, Zenon
    <3> QED
      BY <1>7, <1>10, <3>1
  <2>3. k = Len(out) + 1 /\ k - 1 = Len(out)
    BY <1>4, <1>5, <1>8, <2>1, <2>2
  <2>4. Len(rx) >= Len(out)
    BY <1>5, <1>8, <2>1, <2>3
  <2>5. SubSeq(rx, 1, k - 1) \in Seq(Byte) /\ Len(SubSeq(rx, 1, k - 1)) = Len(out)
    BY <1>8, <2>1, <2>3
  <2>6. \A i \in 1 .. Len(out) : SubSeq(rx, 1, k - 1)[i] = out[i]
    <3>1. \A i \in 1 .. Len(out) : i \in 1 .. k - 1 /\ i \in 1 .. Len(rx)
      BY <1>5, <2>3, <2>4
    <3> QED
      BY <1>4, <1>8, <2>1, <2>2, <3>1
  <2>7. SubSeq(rx, 1, k - 1) = out
    BY <1>1, <2>5, <2>6, SeqEqual
  <2> QED
    BY <2>1, <2>7
<1> QED
  BY <1>9, <1>10

(* The silence that ends send_frame.py outlasts the bridge.                 *)
LEMMA Shown ==
  ASSUME Typed, Flow, pc = "recv", SilenceOver, wire = <<>> PROVE rx = mine
<1>1. busy \in Seq(Byte) /\ rx \in Seq(Byte) /\ silence \in Nat
  BY DEF Typed, LinkTypes
<1>2. busy = <<>> /\ mine = (rx \o <<>>) \o busy
  BY <1>1, Counts, PauseAssumption DEF Flow, SilenceOver
<1>3. \A s \in Seq(Byte) : s \o <<>> = s
  OBVIOUS
<1> QED
  BY <1>1, <1>2, <1>3

LEMMA StepAnswer ==
  ASSUME Unlike
  PROVE  /\ Typed /\ IInv /\ IInv' /\ Exact /\ Flow /\ AnswerExact /\ [Next]_vars
         => AnswerExact'
<1> SUFFICES ASSUME Typed, IInv, IInv', Exact, Flow, AnswerExact, [Next]_vars
             PROVE  AnswerExact'
  OBVIOUS
<1>1. Over /\ Over'
  BY DEF IInv
<1>2. ASSUME verdict' \notin {"pass", "mismatch", "sent"} PROVE AnswerExact'
  BY <1>2 DEF AnswerExact
<1>3. CASE pc' # "idle"
  BY <1>1, <1>2, <1>3 DEF Over
<1>4. CASE CompareReceives /\ pc' = "idle"
  <2>1. /\ pc = "recv" /\ tool = "compare" /\ verdict' = Verdict(out) /\ UNCHANGED <<out, rx, mine>>
    BY <1>4 DEF CompareReceives, End, spikeVars, Receive
  <2>2. Verdict(out) # "sent"
    BY DEF Verdict
  <2> QED
    BY <2>1, <2>2, Judged DEF AnswerExact
<1>5. CASE SendReceives /\ pc' = "idle"
  <2>1. /\ pc = "recv" /\ verdict' = "sent" /\ SilenceOver /\ wire = <<>>
        /\ UNCHANGED <<rx, mine>>
    BY <1>5 DEF SendReceives, End
  <2> QED
    BY <2>1, Shown DEF AnswerExact
<1>6. CASE OpenLink /\ pc' = "idle"
  BY <1>2, <1>6 DEF OpenLink, End
<1>7. CASE /\ pc' = "idle"
           /\ \/ Start \/ Decide \/ WriteInst \/ Gcc \/ Objcopy \/ WriteExpected \/ MetaOpen
              \/ MetaWrite \/ Load \/ SpikeStart \/ SpikeReads \/ SpikeRuns \/ SendFrame
              \/ Interrupt
  <2>1. pc # "idle"
    BY <1>7 DEF Start, Decide, WriteInst, Gcc, Objcopy, WriteExpected, MetaOpen,
       MetaWrite, Load, SpikeStart, SpikeReads, SpikeRuns, SpikeBusy, SendFrame, Interrupt
  <2>2. verdict' \in {"error", "failed", "built", "interrupted", "none"}
    BY <1>1, <1>7, <2>1 DEF Over, Start, Decide, WriteInst, Gcc, Objcopy, WriteExpected, MetaOpen,
       MetaWrite, Load, SpikeStart, SpikeReads, SpikeRuns, SpikeBusy, SendFrame, Interrupt, End
  <2> QED
    BY <1>2, <2>2
<1>8. CASE LinkRuns \/ Edit \/ UNCHANGED vars
  <2>1. UNCHANGED <<verdict, out, mine, rx>>
    BY <1>8 DEF LinkRuns, Edit, BoardByte, LinkTick, vars, spikeVars, linkVars
  <2> QED
    BY <2>1 DEF AnswerExact
<1> QED
  BY <1>3, <1>4, <1>5, <1>6, <1>7, <1>8 DEF Next, Tool

LEMMA InitAnswer == Init => AnswerExact
  BY DEF Init, AnswerExact

(* One frame after another, each opened when the bridge has nothing more to *)
(* say: however the answer is cut into reads, whenever the deadline falls   *)
(* and whatever the board sends, [PASS] is the right answer, a mismatch is  *)
(* not, and send_frame.py shows everything (run_fpga_compare.py:112-263).  *)
(* MCHostExtra shows what an answer that is not Unlike does; a frame sent   *)
(* during an answer would be shown the rest of it.                         *)
THEOREM AnswerCorrect ==
  ASSUME LogsExact, Unlike, ~Impatient PROVE Spec => []AnswerExact
BY InitTyped, InitIInv, InitReading, InitFlow, InitAnswer,
   StepTyped, StepIInv, StepReading, StepFlow, StepAnswer, PTL DEF Spec
=============================================================================
