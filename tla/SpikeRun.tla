------------------------------ MODULE SpikeRun ------------------------------
(***************************************************************************)
(* run_spike_expected of scripts/build_bins.py: a Spike process writes its  *)
(* log into a pipe; the script waits for the pipe with a selector, reads a  *)
(* line through a buffered reader, collects the bytes stored to the UART    *)
(* address, and stops at the breakpoint trap, at the end of the log or when *)
(* its time is up.  Actions are told where they happen and what comes next  *)
(* by the module that runs them.                                           *)
(***************************************************************************)
EXTENDS Instrument

CONSTANTS
  PipeCap,      \* bound: lines the pipe holds
  SpikeTicks    \* timeout_s, in ticks

ASSUME SpikeAssumption == {PipeCap, SpikeTicks} \subseteq Nat

VARIABLES
  child,        \* the process: what it still writes, and what it does then
  pipe,         \* lines in the pipe
  buf,          \* lines proc.stdout has read ahead
  out,          \* output_bytes
  spikeLeft     \* ticks to the deadline

spikeVars == <<child, pipe, buf, out, spikeLeft>>

NoChild == [st |-> "none", todo |-> <<>>, then |-> "exit"]
Thens == {"exit", "loop", "stall"}

SpikeInit ==
  child = NoChild /\ pipe = <<>> /\ buf = <<>> /\ out = <<>> /\ spikeLeft = 0

(* subprocess.Popen *)
Spawn(log, then) ==
  /\ child' = [st |-> "runs", todo |-> log, then |-> then]
  /\ pipe' = <<>> /\ buf' = <<>> /\ out' = <<>> /\ spikeLeft' = SpikeTicks

(* After the log of the program Spike traps for ever, exits, or is stuck.   *)
ChildStep ==
  /\ child.st = "runs"
  /\ \/ /\ child.todo # <<>> /\ Len(pipe) < PipeCap
        /\ pipe' = Append(pipe, Head(child.todo))
        /\ child' = [child EXCEPT !.todo = Tail(@)]
     \/ /\ child.todo = <<>> /\ child.then = "loop" /\ Len(pipe) < PipeCap
        /\ pipe' = Append(pipe, Other) /\ child' = child
     \/ /\ child.todo = <<>> /\ child.then = "exit"
        /\ child' = [child EXCEPT !.st = "exited"] /\ pipe' = pipe
  /\ UNCHANGED <<buf, out, spikeLeft>>

SpikeTick ==
  /\ spikeLeft > 0 /\ spikeLeft' = spikeLeft - 1
  /\ UNCHANGED <<child, pipe, buf, out>>

(* mutation: a store to any address counts *)
ParsedAny(line) == IF line.kind = "mem" THEN <<line.val % Radix>> ELSE <<>>
(* parse_spike_mmio_line, as a sequence of at most one byte *)
Parsed(line) ==
  IF line.kind = "mem" /\ line.addr = UART_MMIO THEN <<line.val % Radix>> ELSE <<>>

(* The selector sees the pipe, or its end; never the reader's buffer.       *)
Readable == pipe # <<>> \/ child.st = "exited"
Next1 == IF buf # <<>> THEN Head(buf) ELSE Head(pipe)

(* readline: from the buffer if it can, else all there is in the pipe.      *)
TakeLine ==
  IF buf # <<>> THEN buf' = Tail(buf) /\ pipe' = pipe
                ELSE buf' = Tail(pipe) /\ pipe' = <<>>

(* finally: the process is killed if it still runs, and waited for.        *)
Reap == child' = NoChild /\ pipe' = <<>> /\ buf' = <<>> /\ spikeLeft' = 0

ReadLine ==
  /\ spikeLeft > 0 /\ Readable /\ pipe \o buf # <<>> /\ Next1.kind # "trap_breakpoint"
  /\ TakeLine
  /\ out' = out \o Parsed(Next1)
  /\ UNCHANGED <<child, spikeLeft>>

ReadBreak ==
  /\ spikeLeft > 0 /\ Readable /\ pipe \o buf # <<>> /\ Next1.kind = "trap_breakpoint"
  /\ out' = out \o Parsed(Next1)
  /\ Reap

(* The end of the log without a breakpoint: BuildError.                    *)
ReadEnd ==
  /\ spikeLeft > 0 /\ child.st = "exited" /\ pipe \o buf = <<>>
  /\ Reap /\ UNCHANGED out

(* mutation: the deadline is looked at only when there was nothing to read *)
TimeOutWhenSilent == spikeLeft = 0 /\ ~Readable /\ Reap /\ UNCHANGED out
(* "Spike timed out": BuildError.                                          *)
TimeOut == spikeLeft = 0 /\ Reap /\ UNCHANGED out
=============================================================================
