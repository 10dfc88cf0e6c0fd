----------------------------- MODULE UartBridge -----------------------------
(***************************************************************************)
(* The way in and out of the FPGA (uart_bridge.sv with uart_rx.sv,         *)
(* uart_tx.sv and the programming, clearing and output ports of            *)
(* l1_mem_wrapper.sv): a frame arrives byte by byte and is written to      *)
(* memory as it comes, the core is released if the frame was good, what it *)
(* stores to the output address is queued and sent, and when it traps or   *)
(* runs out of time a response of three bytes follows.  Every action is    *)
(* one clock edge in one state of the bridge.                              *)
(*                                                                         *)
(* Abstractions.  The four bytes of the address arrive as one, so do those *)
(* of the length; addresses count words from IMEM_BASE.  Payload byte n    *)
(* has the value n.  Whether the checksum matches is chosen when it        *)
(* arrives.  The bytes of a UART frame are one countdown.  The core is its *)
(* stores and its trap: it is at most one access at a time (the issue      *)
(* queue sends one only from the head of the reorder buffer) and traps     *)
(* only when its last access has been answered.                            *)
(***************************************************************************)
EXTENDS Integers, Sequences

CONSTANTS
  DEPTH,      \* words of memory: 4096
  LANES,      \* bytes of a word: 4
  BYTE,       \* cycles from a start bit to rx_valid: 4104
  TX_TIME,    \* cycles tx_busy stays high: 4340
  GAP,        \* IDLE_GAP_THRESH: 25000
  RESP_IDLE,  \* silence before the response: 100000
  TIMEOUT,    \* TIMEOUT_CYCLES: 50000000
  FIFO,       \* TX_FIFO_DEPTH: 16
  MAX_OUT     \* bound on the bytes a program puts out

ASSUME SizesAssumption ==
  /\ {DEPTH, LANES, BYTE, TX_TIME, FIFO} \subseteq Nat \ {0}
  /\ {GAP, RESP_IDLE, TIMEOUT, MAX_OUT} \subseteq Nat
(* A sweep of the memory fits in the time of one byte.                     *)
ASSUME SweepAssumption == BYTE >= DEPTH
ASSUME GapAssumption == GAP > BYTE

MaxLen == DEPTH * LANES + 1
Outside == -1            \* an address below IMEM_BASE or not aligned
Blank == 0               \* a byte as the sweep leaves it
Dirty == -1              \* a byte stored by the program

VARIABLES
  st,        \* state_q: idle, rx, check, release, monitor, drain, resp
  gap,       \* idle_gap_cnt_q
  cnt,       \* frame_byte_cnt_q: 1 address, 2 length, then payload
  exec,      \* cmd_reg_q = CMD_WRITE_EXEC
  addr, len, \* frame_addr_q, frame_len_q
  sumOk,     \* chksum_calc_q = chksum_rx_q
  buf,       \* the word_byte_q youngest bytes of word_buf_q
  waddr,     \* wr_addr_q
  clr,       \* clear_addr_q
  tmo,       \* timeout_cnt_q
  ridle,     \* resp_idle_q while the phase is 0
  phase,     \* resp_phase_q; resp_data_q follows it
  req,       \* resp_tx_req_q
  status,    \* resp_status_q
  fifo,      \* the output bytes between the fifo pointers
  txLeft,    \* cycles until uart_tx is idle again
  mem,       \* the data memory; the instruction memory is written alike
  st1, st2,  \* an output store captured (d_req_valid_q), on the port
             \* (cpu_uart_tx_start): its number, or 0
  hbyte,     \* the sender's byte on the line: cycles to rx_valid, 0 for none
  stored,    \* history: output stores the core was told are accepted
  sent       \* history: what uart_tx was given since the frame began

bridgeVars == <<st, cnt, exec, addr, len, sumOk, buf, waddr, clr, tmo, ridle, phase, req, status>>
vars == <<bridgeVars, gap, fifo, txLeft, mem, st1, st2, hbyte, stored, sent>>
frameVars == <<cnt, exec, addr, len, sumOk, buf, waddr>>
runVars == <<tmo, ridle, phase, req, status>>

-----------------------------------------------------------------------------
Word == 0 .. DEPTH - 1
Lane == 1 .. LANES

Rx == hbyte = 1
IdleReset == gap >= GAP
FrameStart == IdleReset /\ Rx

Words(n) == (n + LANES - 1) \div LANES
RangeBad ==
  \/ addr = Outside
  \/ len = 0 \/ len > DEPTH * LANES
  \/ addr > DEPTH
  \/ addr + Words(len) > DEPTH
PayloadWrite == exec /\ ~RangeBad

TxBusy == txLeft > 0
CpuTx == st \in {"monitor", "drain"}
Pop == CpuTx /\ ~TxBusy /\ fifo # <<>>
(* Mutation: ready whatever the queue holds.                               *)
ReadyAlways == CpuTx
Ready == CpuTx /\ (Len(fifo) < FIFO \/ Pop)
Push == st2 # 0 /\ Ready
TxStart == IF st = "resp" THEN req ELSE Pop
TxByte == IF st = "resp" THEN <<"resp", phase>> ELSE Head(fifo)

-----------------------------------------------------------------------------
(* What runs beside the state machine in every cycle.  fresh says that a   *)
(* frame begins.                                                           *)

(* The sender follows the protocol: a frame begins after silence and when  *)
(* the last one was answered or given up; inside a frame it pauses less    *)
(* than the gap, or for ever.                                              *)
MayStart == \/ st = "idle" /\ IdleReset
            \/ st = "rx" /\ gap + BYTE < GAP

Line == /\ gap' = IF Rx THEN 0 ELSE IF gap < GAP THEN gap + 1 ELSE gap
        /\ \/ hbyte > 0 /\ hbyte' = hbyte - 1
           \/ hbyte = 0 /\ hbyte' = 0
           \/ hbyte = 0 /\ MayStart /\ hbyte' = BYTE

Output(fresh) ==
  /\ fifo' = IF fresh THEN <<>>
             ELSE (IF Pop THEN Tail(fifo) ELSE fifo)
                    \o (IF Push THEN <<<<"cpu", st2>>>> ELSE <<>>)
  /\ txLeft' = IF TxBusy THEN txLeft - 1 ELSE IF TxStart THEN TX_TIME ELSE 0
  /\ sent' = IF fresh THEN <<>>
             ELSE IF TxStart /\ ~TxBusy THEN Append(sent, TxByte) ELSE sent

(* The core and the store port are held in reset.                          *)
Held == st1' = 0 /\ st2' = 0 /\ UNCHANGED stored

(* Put(m, w, bytes): the word w with its first lanes replaced.             *)
Put(m, w, bytes) ==
  [m EXCEPT ![w] = [n \in Lane |-> IF n <= Len(bytes) THEN bytes[n] ELSE @[n]]]

(* Mutation: only word 0 is ever cleared.                                  *)
SweptFirst == IF clr = 0 THEN [mem EXCEPT ![clr] = [n \in Lane |-> Blank]] ELSE mem
Swept == [mem EXCEPT ![clr] = [n \in Lane |-> Blank]]

-----------------------------------------------------------------------------
Init ==
  /\ st = "idle" /\ gap = 0 /\ cnt = 0 /\ exec = FALSE /\ addr = 0 /\ len = 0
  /\ sumOk = TRUE /\ buf = <<>> /\ waddr = 0 /\ clr = 0 /\ tmo = 0
  /\ ridle = 0 /\ phase = 0 /\ req = FALSE /\ status = "ok"
  /\ fifo = <<>> /\ txLeft = 0
  /\ mem = [w \in Word |-> [n \in Lane |-> Blank]]
  /\ st1 = 0 /\ st2 = 0 /\ hbyte = 0 /\ stored = 0 /\ sent = <<>>

(* F_IDLE: sweep the memory until a frame begins.                          *)
Idle ==
  /\ st = "idle"
  /\ buf' = <<>> /\ waddr' = 0 /\ tmo' = 0 /\ phase' = 0 /\ ridle' = 0
  /\ status' = "ok" /\ UNCHANGED <<req, sumOk>>
  /\ IF Rx THEN UNCHANGED mem ELSE mem' = Swept
  /\ IF FrameStart
     THEN /\ exec' \in BOOLEAN /\ addr' = 0 /\ len' = 0 /\ cnt' = 1 /\ clr' = 0
          /\ st' = "rx"
          /\ st1' = 0 /\ st2' = 0 /\ stored' = 0
     ELSE /\ cnt' = 0
          /\ clr' = IF Rx THEN clr ELSE (clr + 1) % DEPTH
          /\ Held /\ UNCHANGED <<st, exec, addr, len>>
  /\ Line /\ Output(FrameStart)

(* The byte that arrives in F_RX_FRAME.                                    *)
Address ==
  /\ cnt = 1
  /\ addr' \in {Outside} \cup 0 .. DEPTH
  /\ UNCHANGED <<len, waddr, buf, mem, sumOk>>
Length ==
  /\ cnt = 2
  /\ len' \in 0 .. MaxLen
  /\ waddr' = (IF addr = Outside THEN 0 ELSE addr) % DEPTH
  /\ buf' = <<>>
  /\ UNCHANGED <<addr, mem, sumOk>>
Payload ==
  /\ cnt > 2 /\ cnt - 3 < len
  /\ IF Len(buf) = LANES - 1
     THEN /\ mem' = IF PayloadWrite THEN Put(mem, waddr, Append(buf, cnt - 2)) ELSE mem
          /\ waddr' = (waddr + 1) % DEPTH
          /\ buf' = <<>>
     ELSE /\ buf' = Append(buf, cnt - 2)
          /\ UNCHANGED <<mem, waddr>>
  /\ UNCHANGED <<addr, len, sumOk>>
Checksum ==
  /\ cnt > 2 /\ cnt - 3 = len
  /\ sumOk' \in BOOLEAN
  /\ UNCHANGED <<addr, len, waddr, buf, mem>>

(* Mutation: an abandoned frame is waited for.                             *)
ReceiveForEver ==
  /\ st = "rx" /\ ~Rx
  /\ UNCHANGED <<frameVars, mem, st>>
  /\ UNCHANGED <<clr, runVars>> /\ Held /\ Line /\ Output(FALSE)
(* No byte in this cycle; a long silence ends the frame.                   *)
Pause ==
  /\ st = "rx" /\ ~Rx
  /\ st' = IF IdleReset THEN "idle" ELSE "rx"
  /\ UNCHANGED <<frameVars, mem>>
  /\ UNCHANGED <<clr, runVars>> /\ Held /\ Line /\ Output(FALSE)

(* F_RX_FRAME with a byte.                                                 *)
Receive ==
  /\ st = "rx" /\ Rx
  /\ Address \/ Length \/ Payload \/ Checksum
  /\ cnt' = cnt + 1
  /\ st' = IF IdleReset THEN "idle"
           ELSE IF cnt > 2 /\ cnt - 3 = len THEN "check" ELSE "rx"
  /\ UNCHANGED <<exec, clr, runVars>> /\ Held /\ Line /\ Output(FALSE)

(* F_CHKSUM_CHECK: reject the frame or write what is left of its last word.*)
Check ==
  /\ st = "check"
  /\ phase' = 0 /\ ridle' = 0 /\ req' = FALSE
  /\ IF sumOk /\ exec /\ ~RangeBad
     THEN /\ mem' = IF buf # <<>> THEN Put(mem, waddr, buf) ELSE mem
          /\ st' = "release" /\ UNCHANGED status
     ELSE /\ status' = IF ~sumOk THEN "chksum" ELSE IF ~exec THEN "cmd" ELSE "range"
          /\ st' = "resp" /\ UNCHANGED mem
  /\ UNCHANGED <<frameVars, clr, tmo>> /\ Held /\ Line /\ Output(FALSE)

(* F_RELEASE_CPU.                                                          *)
Release ==
  /\ st = "release" /\ st' = "monitor" /\ tmo' = 0
  /\ UNCHANGED <<frameVars, clr, ridle, phase, req, status, mem>>
  /\ Held /\ Line /\ Output(FALSE)

(* What the core does in a cycle of F_MONITOR: nothing to be seen here, a  *)
(* store to memory, or a store to the output address, which waits until    *)
(* the queue is ready.                                                     *)
Busy == st1 # 0 \/ st2 # 0
Compute == st1' = 0 /\ UNCHANGED <<mem, stored>>
Store == /\ ~Busy /\ \E w \in Word : mem' = Put(mem, w, [n \in Lane |-> Dirty])
         /\ st1' = 0 /\ UNCHANGED stored
Emit == /\ ~Busy /\ Ready /\ stored < MAX_OUT
          /\ st1' = stored + 1 /\ stored' = stored + 1
          /\ UNCHANGED mem

(* F_MONITOR: a trap ends the run, else the timeout does.                  *)
Monitor(trap) ==
  /\ st = "monitor"
  /\ trap => ~Busy /\ Compute
  /\ Compute \/ Store \/ Emit
  /\ st2' = st1
  /\ tmo' = tmo + 1
  /\ IF trap \/ tmo >= TIMEOUT
     THEN /\ status' = IF trap THEN "ok" ELSE "timeout"
          /\ phase' = 0 /\ ridle' = 0 /\ req' = FALSE
          /\ st' = "drain"
     ELSE UNCHANGED <<status, phase, ridle, req, st>>
  /\ UNCHANGED <<frameVars, clr>> /\ Line /\ Output(FALSE)

(* Mutation: the queue is not waited for.                                  *)
DrainedTx == ~TxBusy
Drained == fifo = <<>> /\ ~TxBusy
(* F_DRAIN_TX: the core is in reset, what it put out is sent.              *)
Drain ==
  /\ st = "drain"
  /\ IF Drained THEN st' = "resp" /\ phase' = 0 /\ ridle' = 0 /\ req' = FALSE
     ELSE UNCHANGED <<st, phase, ridle, req>>
  /\ UNCHANGED <<frameVars, clr, tmo, status, mem>>
  /\ Held /\ Line /\ Output(FALSE)

(* F_SEND_RESP: silence, then a byte per phase, each requested until the   *)
(* transmitter has taken it.  Mutation: the next byte does not wait for it.*)
RespondUntaken ==
  /\ st = "resp"
  /\ ridle' = IF phase = 0 /\ ridle < RESP_IDLE THEN ridle + 1 ELSE 0
  /\ IF (phase = 0 /\ ridle >= RESP_IDLE) \/ (phase \in 1 .. 2 /\ ~TxBusy)
     THEN phase' = phase + 1 /\ req' = TRUE /\ UNCHANGED st
     ELSE /\ req' = (req /\ ~TxBusy)
          /\ st' = IF phase = 3 /\ ~TxBusy /\ ~req THEN "idle" ELSE "resp"
          /\ UNCHANGED phase
  /\ UNCHANGED <<frameVars, clr, tmo, status, mem>>
  /\ Held /\ Line /\ Output(FALSE)
Respond ==
  /\ st = "resp"
  /\ ridle' = IF phase = 0 /\ ridle < RESP_IDLE THEN ridle + 1 ELSE 0
  /\ IF (phase = 0 /\ ridle >= RESP_IDLE) \/ (phase \in 1 .. 2 /\ ~TxBusy /\ ~req)
     THEN phase' = phase + 1 /\ req' = TRUE /\ UNCHANGED st
     ELSE /\ req' = (req /\ ~TxBusy)
          /\ st' = IF phase = 3 /\ ~TxBusy /\ ~req THEN "idle" ELSE "resp"
          /\ UNCHANGED phase
  /\ UNCHANGED <<frameVars, clr, tmo, status, mem>>
  /\ Held /\ Line /\ Output(FALSE)

Next == \/ Idle \/ Pause \/ Receive \/ Check \/ Release
        \/ \E trap \in BOOLEAN : Monitor(trap)
        \/ Drain \/ Respond

Spec == Init /\ [][Next]_vars
(* The clock runs.                                                         *)
FairSpec == Spec /\ WF_vars(Next)

-----------------------------------------------------------------------------
(* Properties.                                                             *)

Byte == {Dirty, Blank} \cup 1 .. MaxLen
Item == {"cpu", "resp"} \X (1 .. (MAX_OUT + 3))
TypeOK ==
  /\ st \in {"idle", "rx", "check", "release", "monitor", "drain", "resp"}
  /\ gap \in 0 .. GAP /\ cnt \in 0 .. MaxLen + 4
  /\ {exec, sumOk, req} \subseteq BOOLEAN
  /\ addr \in {Outside} \cup 0 .. DEPTH /\ len \in 0 .. MaxLen
  /\ buf \in Seq(Byte) /\ Len(buf) < LANES
  /\ waddr \in Word /\ clr \in Word
  /\ tmo \in 0 .. TIMEOUT + 1 /\ ridle \in 0 .. RESP_IDLE /\ phase \in 0 .. 3
  /\ status \in {"ok", "timeout", "range", "cmd", "chksum"}
  /\ fifo \in Seq(Item) /\ Len(fifo) <= FIFO
  /\ txLeft \in 0 .. TX_TIME /\ hbyte \in 0 .. BYTE
  /\ mem \in [Word -> [Lane -> Byte]]
  /\ st1 \in 0 .. MAX_OUT /\ st2 \in 0 .. MAX_OUT /\ stored \in 0 .. MAX_OUT
  /\ sent \in Seq(Item)

(* The program that runs is the frame that was sent: when the core is      *)
(* released, every byte of memory is the frame's or blank.  What earlier   *)
(* programs stored, and what rejected or abandoned frames wrote before     *)
(* they failed, is gone (uart_bridge.sv:226).                              *)
Image == [w \in Word |-> [n \in Lane |->
            LET k == (w - addr) * LANES + n
            IN IF k \in 1 .. len THEN k ELSE Blank]]
ImageExact == st = "release" => mem = Image

(* The receiver of the line sees the program's output, complete and in     *)
(* order, and only then the response; a run cut off by the timeout may     *)
(* lose the end of its output (uart_bridge.sv:336, 351).                   *)
Stream(n, m) == [i \in 1 .. n + m |-> IF i <= n THEN <<"cpu", i>> ELSE <<"resp", i - n>>]
OutputThenResponse ==
  \E n \in 0 .. stored :
    /\ n <= Len(sent) /\ sent = Stream(n, Len(sent) - n)
    /\ st = "resp" /\ status = "ok" => n = stored
    /\ Len(sent) > n => ~CpuTx

(* Every complete frame is answered by one response of three bytes.        *)
Response == SelectSeq(sent, LAMBDA s : s[1] = "resp")
FrameAnswered == st = "check" ~> (st = "idle" /\ Len(Response) = 3)

(* Whatever the sender does, the bridge listens for a frame again.         *)
BackToIdle == []<>(st = "idle")
=============================================================================
