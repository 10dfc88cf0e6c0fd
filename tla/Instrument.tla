----------------------------- MODULE Instrument -----------------------------
(***************************************************************************)
(* What scripts/build_bins.py makes of a test: the rewritten source between *)
(* a prologue and an epilogue that writes the observed values to the UART   *)
(* address byte by byte, and what Spike logs when it runs the result.       *)
(*                                                                         *)
(* A line of assembly is an instruction [op, rd, rs, imm] and the syntax it *)
(* is written in: "gnu", imm(base), or "teaching", base, imm.  A word has   *)
(* four bytes of Radix values each (256 in the code).  Bit patterns of      *)
(* floating point registers are words like any other.                       *)
(***************************************************************************)
EXTENDS Integers, Sequences, SequencesExt

CONSTANT Radix
ASSUME RadixAssumption == Radix \in Nat /\ Radix > 1

Byte == 0 .. Radix - 1
UART_MMIO == Radix ^ 2
DATA_BASE == (Radix \div 2) * Radix ^ 3 + Radix ^ 2
BytesLE(w) == [k \in 1 .. 4 |-> (w \div Radix ^ (k - 1)) % Radix]
WordLE(b) == b[1] + Radix * b[2] + Radix ^ 2 * b[3] + Radix ^ 3 * b[4]

I(op, rd, rs, imm) == [op |-> op, rd |-> rd, rs |-> rs, imm |-> imm, form |-> "gnu"]

-----------------------------------------------------------------------------
(* make_instrumented_source.  A test t has a spec, and the base_inits of    *)
(* apply_test_specific_rewrites: instructions that make a pointer from x0.  *)

MemOps == {"load", "store"}

Normalised(l) == IF l.op \in MemOps THEN [l EXCEPT !.form = "gnu"] ELSE l

Specific(l, t) == IF l \in t.inits THEN [l EXCEPT !.rs = "x27"] ELSE l

(* The pattern for x0 as a base only knows the GNU syntax.                 *)
DirectX0(l) == l.op \in MemOps /\ l.form = "gnu" /\ l.rs = "x0"
Rebased(l) == IF DirectX0(l) THEN [l EXCEPT !.rs = "x27"] ELSE l

Rewritten(s, t) == [k \in DOMAIN s |-> Rebased(Specific(Normalised(s[k]), t))]

Prologue == <<I("li", "x27", "x0", DATA_BASE), I("addi", "x30", "x27", 1024)>>

Call == I("call", "x1", "x0", 0)

Observe(spec) ==
  FlattenSeq(
    [k \in DOMAIN spec.what |->
      CASE spec.kind = "int_regs" -> <<I("addi", "x25", spec.what[k], 0), Call>>
        [] spec.kind = "fp_regs" ->
             <<I("store", spec.what[k], "x27", 128 + 4 * (k - 1)),
               I("load", "x25", "x27", 128 + 4 * (k - 1)), Call>>
        [] spec.kind = "memory_words" -> <<I("load", "x25", "x27", spec.what[k]), Call>>])

Epilogue(spec) ==
  <<I("li", "x27", "x0", DATA_BASE)>> \o Observe(spec) \o <<I("ebreak", "x0", "x0", 0)>>

(* __approval_emit_word *)
EmitWord ==
  LET sb == I("sb", "x25", "x26", 0)
      srli == I("srl8", "x25", "x25", 0)
  IN  <<I("li", "x26", "x0", UART_MMIO), sb, srli, sb, srli, sb, srli, sb>>

Instrumented(s, t) == Prologue \o Rewritten(s, t) \o Epilogue(t.spec)

-----------------------------------------------------------------------------
(* The machine.  "low" says whether there is memory at address 0, as the    *)
(* tests assume and Spike, started with SPIKE_MEM, does not have.           *)

Registers == {"x0", "x1", "x2", "x5", "x8", "x9", "x25", "x26", "x27", "x30", "f0"}
Machine(low) == [reg |-> [r \in Registers |-> 0], mem |-> <<>>, log |-> <<>>,
                 low |-> low, halted |-> FALSE]

Mapped(m, a) == m.low \/ a = UART_MMIO \/ a >= DATA_BASE
Read(m, a) == IF a \in DOMAIN m.mem THEN m.mem[a] ELSE 0
Put(m, r, v) == IF r = "x0" THEN m ELSE [m EXCEPT !.reg[r] = v]
Commit(a, v) == [kind |-> "mem", addr |-> a, val |-> v]
Other == [kind |-> "other", addr |-> 0, val |-> 0]
Break == [kind |-> "trap_breakpoint", addr |-> 0, val |-> 0]
Halt(m, line) == [m EXCEPT !.halted = TRUE, !.log = Append(@, line)]

(* Of the log only lines with a store and the traps are kept.              *)
Store(m, a, v) ==
  [m EXCEPT !.mem = [x \in DOMAIN @ \cup {a} |-> IF x = a THEN v ELSE @[x]],
            !.log = Append(@, Commit(a, v))]

Execute(m, i) ==
  LET addr == m.reg[i.rs] + i.imm
  IN  CASE m.halted -> m
        [] ~m.halted /\ i.op = "li" -> Put(m, i.rd, i.imm)
        [] ~m.halted /\ i.op = "addi" -> Put(m, i.rd, addr)
        [] ~m.halted /\ i.op = "srl8" -> Put(m, i.rd, m.reg[i.rs] \div Radix)
        [] ~m.halted /\ i.op \in MemOps \cup {"sb"} /\ ~Mapped(m, addr) -> Halt(m, Other)
        [] ~m.halted /\ i.op = "load" /\ Mapped(m, addr) -> Put(m, i.rd, Read(m, addr))
        [] ~m.halted /\ i.op = "store" /\ Mapped(m, addr) -> Store(m, addr, m.reg[i.rd])
        [] ~m.halted /\ i.op = "sb" /\ Mapped(m, addr) -> Store(m, addr, m.reg[i.rd] % Radix)
        [] ~m.halted /\ i.op = "ebreak" -> Halt(m, Break)
        [] OTHER -> Halt(m, Other)            \* "spin": never gets further

Run(m, code) ==
  FoldLeft(LAMBDA n, i : IF i.op = "call" THEN FoldLeft(Execute, n, EmitWord)
                                          ELSE Execute(n, i), m, code)

SpikeLog(s, t) == Run(Machine(FALSE), Instrumented(s, t)).log

-----------------------------------------------------------------------------
(* What is to come out: the observed state of the original program, run     *)
(* where there is memory at 0, each word little end first.                  *)
Words(s, t) ==
  LET end == Run(Machine(TRUE), s)
  IN  [k \in DOMAIN t.spec.what |->
         IF t.spec.kind = "memory_words" THEN Read(end, t.spec.what[k])
                                         ELSE end.reg[t.spec.what[k]]]
Reference(s, t) == FlattenSeq([k \in DOMAIN t.spec.what |-> BytesLE(Words(s, t)[k])])
Ends(s) == \A k \in DOMAIN s : s[k].op # "spin"

(* bytes_to_words_le: a word for each whole group of four, as far as there  *)
(* are labels.                                                             *)
BytesToWords(data, labels) ==
  [k \in 1 .. IF Len(data) \div 4 < labels THEN Len(data) \div 4 ELSE labels |->
     WordLE(SubSeq(data, 4 * k - 3, 4 * k))]
=============================================================================
