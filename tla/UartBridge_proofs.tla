-------------------------- MODULE UartBridge_proofs --------------------------
(***************************************************************************)
(* For all sizes and times: the line carries the program's output, without *)
(* gap and in order, and then the response (OutputThenResponse), and the   *)
(* program that runs is the frame that was sent (ImageExact).              *)
(*                                                                         *)
(* The first invariant follows the bytes that go out (Flow).  The first n  *)
(* stores of the run have been sent, the next k are in the queue, at most  *)
(* one more is on its way from the core; m bytes of the response have been *)
(* sent.  A store that is under way has a place in the queue, because the  *)
(* core was told "ready" when there was one and nothing else can fill it.  *)
(* The transmitter is idle whenever a frame is received, so that the first *)
(* byte of the response, too, is requested before it is taken.             *)
(*                                                                         *)
(* The second follows the memory (Imaged).  When the bridge becomes idle   *)
(* the sweep starts at word 0, and no byte is on the line; a frame's first *)
(* byte takes at least as long as a sweep, so that the memory is blank     *)
(* when the frame begins (Erasing).  From then on the memory holds the     *)
(* payload as far as it is written, the buffer what has come since         *)
(* (Loaded), up to the word that the check completes.  The gap outlasts a  *)
(* byte, so no pause within a frame ends it (Paced).                       *)
(***************************************************************************)
EXTENDS UartBridge, SequenceTheorems, TLAPS

Cpus(n, k) == [i \in 1 .. k |-> <<"cpu", n + i>>]

(* What the states before the run have in common.                          *)
Before == {"rx", "check", "release"}

Sending(n, k, m) ==
  /\ sent = Stream(n, m) /\ fifo = Cpus(n, k)
  /\ stored \in Nat /\ n + k <= stored
  /\ st \in Before => n = 0 /\ k = 0 /\ m = 0 /\ stored = 0
  /\ CpuTx => m = 0

OnTheWay(n, k) ==
  /\ ~CpuTx => ~Busy
  /\ st1 # 0 => st1 = n + k + 1 /\ st2 = 0
  /\ st2 # 0 => st2 = n + k + 1
  /\ k <= FIFO
  /\ Busy => k < FIFO /\ n + k < stored
  /\ st = "monitor" /\ Busy => stored = n + k + 1
  /\ st = "monitor" /\ ~Busy => stored = n + k

Ended(n, k) ==
  /\ st \in {"drain", "resp"} /\ status = "ok" => n + k = stored /\ ~Busy
  /\ st = "resp" /\ status = "ok" => k = 0

Responding(m) ==
  /\ txLeft \in Nat
  /\ ~CpuTx /\ st # "resp" => ~TxBusy
  /\ st = "resp" => /\ req /\ ~TxBusy => phase = m + 1
                    /\ ~req \/ TxBusy => phase = m
                    /\ phase = 0 => ~TxBusy

Flow(n, k, m) == Sending(n, k, m) /\ OnTheWay(n, k) /\ Ended(n, k) /\ Responding(m)
States == {"idle", "rx", "check", "release", "monitor", "drain", "resp"}
IInv == st \in States /\ \E n, k, m \in Nat : Flow(n, k, m)

-----------------------------------------------------------------------------
(* The sequences.                                                          *)

LEMMA CpusSeq ==
  ASSUME NEW n \in Nat, NEW k \in Nat
  PROVE  /\ Cpus(n, k) \in Seq({"cpu"} \X Nat) /\ Len(Cpus(n, k)) = k
         /\ Cpus(n, k) = <<>> <=> k = 0
         /\ Cpus(n, k) \o <<<<"cpu", n + k + 1>>>> = Cpus(n, k + 1)
         /\ Cpus(n, k) \o <<>> = Cpus(n, k)
         /\ k > 0 => /\ Head(Cpus(n, k)) = <<"cpu", n + 1>>
                     /\ Tail(Cpus(n, k)) = Cpus(n + 1, k - 1)
<1>1. Cpus(n, k) \in Seq({"cpu"} \X Nat) /\ Len(Cpus(n, k)) = k
  BY DEF Cpus
<1>2. Cpus(n, k) = <<>> <=> k = 0
  BY DEF Cpus
<1>3. Cpus(n, k) \o <<<<"cpu", n + k + 1>>>> = Cpus(n, k + 1)
  <2> DEFINE s == Cpus(n, k) \o <<<<"cpu", n + k + 1>>>>
             t == Cpus(n, k + 1)
  <2>1. <<<<"cpu", n + k + 1>>>> \in Seq({"cpu"} \X Nat)
    OBVIOUS
  <2>2. s \in Seq({"cpu"} \X Nat) /\ Len(s) = k + 1
    BY <1>1, <2>1, ConcatProperties
  <2>3. t \in Seq({"cpu"} \X Nat) /\ Len(t) = k + 1
    BY DEF Cpus
  <2>4. \A i \in 1 .. k + 1 : s[i] = t[i]
    BY <1>1, <2>1, ConcatProperties DEF Cpus
  <2> HIDE DEF s, t
  <2> QED
    BY <2>2, <2>3, <2>4, SeqEqual DEF s, t
<1>4. Cpus(n, k) \o <<>> = Cpus(n, k)
  BY <1>1
<1>5. k > 0 => /\ Head(Cpus(n, k)) = <<"cpu", n + 1>>
               /\ Tail(Cpus(n, k)) = Cpus(n + 1, k - 1)
  <2> SUFFICES ASSUME k > 0
               PROVE  /\ Head(Cpus(n, k)) = <<"cpu", n + 1>>
                      /\ Tail(Cpus(n, k)) = Cpus(n + 1, k - 1)
    OBVIOUS
  <2> DEFINE s == Tail(Cpus(n, k))
             t == Cpus(n + 1, k - 1)
  <2>1. Head(Cpus(n, k)) = <<"cpu", n + 1>>
    BY DEF Cpus
  <2>2. s \in Seq({"cpu"} \X Nat) /\ Len(s) = k - 1
    BY <1>1, <1>2, HeadTailProperties
  <2>3. t \in Seq({"cpu"} \X Nat) /\ Len(t) = k - 1
    BY DEF Cpus
  <2>4. \A i \in 1 .. k - 1 : s[i] = t[i]
    BY <1>1, <1>2, HeadTailProperties DEF Cpus
  <2> HIDE DEF s, t
  <2>5. s = t
    BY <2>2, <2>3, <2>4, SeqEqual
  <2> QED
    BY <2>1, <2>5 DEF s, t
<1> QED
  BY <1>1, <1>2, <1>3, <1>4, <1>5

LEMMA StreamSeq ==
  ASSUME NEW n \in Nat, NEW m \in Nat
  PROVE  /\ Len(Stream(n, m)) = n + m
         /\ Append(Stream(n, 0), <<"cpu", n + 1>>) = Stream(n + 1, 0)
         /\ Append(Stream(n, m), <<"resp", m + 1>>) = Stream(n, m + 1)
<1>1. Len(Stream(n, m)) = n + m
  BY DEF Stream
<1>2. Append(Stream(n, 0), <<"cpu", n + 1>>) = Stream(n + 1, 0)
  BY DEF Stream
<1>3. Append(Stream(n, m), <<"resp", m + 1>>) = Stream(n, m + 1)
  BY DEF Stream
<1> QED
  BY <1>1, <1>2, <1>3

LEMMA NothingSent ==
  Stream(0, 0) = <<>> /\ Cpus(0, 0) = <<>>
BY DEF Stream, Cpus

-----------------------------------------------------------------------------
(* The output block.                                                       *)

(* While the queue is not served, and nothing asked of the transmitter,    *)
(* nothing moves.                                                          *)
LEMMA OutputRests ==
  ASSUME NEW n \in Nat, NEW k \in Nat, NEW m \in Nat, Sending(n, k, m),
         Output(FALSE), ~CpuTx, st = "resp" => ~(req /\ ~TxBusy)
  PROVE  fifo' = fifo /\ sent' = sent
<1>1. ~Pop /\ ~Push /\ ~(TxStart /\ ~TxBusy)
  BY DEF Pop, Push, Ready, TxStart
<1> QED
  BY <1>1, CpusSeq DEF Output, Sending

(* The transmitter counts down, or takes a byte.                           *)
LEMMA Transmitter ==
  ASSUME txLeft \in Nat, NEW fresh \in BOOLEAN, Output(fresh)
  PROVE  /\ txLeft' \in Nat
         /\ ~TxBusy /\ ~TxStart => ~TxBusy'
         /\ ~TxBusy /\ TxStart => TxBusy'
BY SizesAssumption DEF Output, TxBusy

(* While it is served: the oldest byte leaves when the transmitter is free, *)
(* and the one on the port enters.                                         *)
LEMMA OutputServes ==
  ASSUME NEW n \in Nat, NEW k \in Nat, NEW m \in Nat, Sending(n, k, m), OnTheWay(n, k),
         Output(FALSE), CpuTx, txLeft \in Nat
  PROVE  \E pop \in 0 .. 1, push \in 0 .. 1 :
           /\ pop = 1 <=> Pop
           /\ push = 1 <=> st2 # 0
           /\ pop <= k
           /\ sent' = Stream(n + pop, 0)
           /\ fifo' = Cpus(n + pop, (k - pop) + push)
<1>1. /\ m = 0 /\ sent = Stream(n, 0) /\ fifo = Cpus(n, k)
      /\ Len(fifo) = k /\ (fifo = <<>> <=> k = 0)
  BY CpusSeq DEF Sending
<1>2. Push <=> st2 # 0
  <2>1. st2 # 0 => k < FIFO
    BY DEF OnTheWay, Busy
  <2> QED
    BY <1>1, <2>1 DEF Push, Ready
<1>3. st2 # 0 => st2 = n + k + 1
  BY DEF OnTheWay
<1>4. TxStart <=> Pop
  BY DEF TxStart, CpuTx
<1>5. Pop => /\ ~TxBusy /\ k > 0 /\ TxByte = <<"cpu", n + 1>>
             /\ Tail(fifo) = Cpus(n + 1, k - 1)
  <2>1. Pop => ~TxBusy /\ k # 0
    BY <1>1 DEF Pop
  <2>2. k > 0 => Head(fifo) = <<"cpu", n + 1>> /\ Tail(fifo) = Cpus(n + 1, k - 1)
    BY <1>1, CpusSeq
  <2>3. TxByte = Head(fifo)
    BY DEF TxByte, CpuTx
  <2> QED
    BY <2>1, <2>2, <2>3
<1>6. CASE Pop
  <2>1. sent' = Stream(n + 1, 0)
    BY <1>1, <1>4, <1>5, <1>6, StreamSeq DEF Output
  <2>2. Tail(fifo) = Cpus(n + 1, k - 1) /\ k - 1 \in Nat /\ n + 1 \in Nat
    BY <1>5, <1>6
  <2>3. CASE st2 # 0
    <3>1. fifo' = Cpus(n + 1, k - 1) \o <<<<"cpu", (n + 1) + (k - 1) + 1>>>>
      <4>1. st2 = (n + 1) + (k - 1) + 1
        BY <1>3, <2>3
      <4> QED
        BY <1>2, <1>6, <2>2, <2>3, <4>1 DEF Output
    <3>2. fifo' = Cpus(n + 1, (k - 1) + 1)
      BY <2>2, <3>1, CpusSeq
    <3> QED
      BY <1>5, <1>6, <2>1, <2>3, <3>2
  <2>4. CASE st2 = 0
    <3>1. fifo' = Cpus(n + 1, k - 1)
      BY <1>2, <1>6, <2>2, <2>4, CpusSeq DEF Output
    <3>2. (k - 1) + 0 = k - 1
      BY <2>2
    <3> QED
      BY <1>5, <1>6, <2>1, <2>4, <3>1, <3>2
  <2> QED
    BY <2>3, <2>4
<1>7. CASE ~Pop
  <2>1. sent' = Stream(n + 0, 0)
    BY <1>1, <1>4, <1>7 DEF Output
  <2>2. CASE st2 # 0
    <3>1. fifo' = Cpus(n, k) \o <<<<"cpu", n + k + 1>>>>
      BY <1>1, <1>2, <1>3, <1>7, <2>2 DEF Output
    <3>2. fifo' = Cpus(n + 0, (k - 0) + 1)
      BY <3>1, CpusSeq
    <3> QED
      BY <1>7, <2>1, <2>2, <3>2
  <2>3. CASE st2 = 0
    <3>1. fifo' = Cpus(n + 0, (k - 0) + 0)
      BY <1>1, <1>2, <1>7, <2>3, CpusSeq DEF Output
    <3> QED
      BY <1>7, <2>1, <2>3, <3>1
  <2> QED
    BY <2>2, <2>3
<1> QED
  BY <1>6, <1>7

-----------------------------------------------------------------------------
(* The states.                                                             *)

LEMMA IdleFlow ==
  ASSUME NEW n \in Nat, NEW k \in Nat, NEW m \in Nat, Flow(n, k, m), Idle
  PROVE  IInv'
<1>1. st = "idle" /\ ~CpuTx /\ ~TxBusy /\ ~TxStart /\ txLeft \in Nat /\ stored \in Nat /\ ~Busy
  BY DEF Idle, CpuTx, Flow, Responding, TxStart, Pop, Sending, OnTheWay
<1>2. Output(FrameStart) /\ FrameStart \in BOOLEAN
  BY DEF Idle, FrameStart
<1>3. txLeft' \in Nat /\ ~TxBusy'
  BY <1>1, <1>2, Transmitter
<1>4. CASE FrameStart
  <2>1. /\ st' = "rx" /\ st1' = 0 /\ st2' = 0 /\ stored' = 0
        /\ fifo' = Cpus(0, 0) /\ sent' = Stream(0, 0)
    BY <1>2, <1>4, NothingSent DEF Idle, Output
  <2>2. Flow(0, 0, 0)'
    BY <1>3, <2>1, SizesAssumption
       DEF Flow, Sending, OnTheWay, Ended, Responding, CpuTx, Busy, Before
  <2> QED
    BY <2>1, <2>2 DEF IInv, States
<1>5. CASE ~FrameStart
  <2>1. /\ st' = "idle" /\ st1' = 0 /\ st2' = 0 /\ stored' = stored
        /\ Output(FALSE)
    <3>1. FrameStart = FALSE
      BY <1>2, <1>5
    <3> QED
      BY <1>1, <1>2, <3>1 DEF Idle, Held
  <2>2. fifo' = fifo /\ sent' = sent
    BY <1>1, <2>1, OutputRests DEF Flow
  <2>3. Flow(n, k, m)'
    BY <1>1, <1>3, <2>1, <2>2
       DEF Flow, Sending, OnTheWay, Ended, Responding, CpuTx, Busy, Before
  <2> QED
    BY <2>1, <2>3 DEF IInv, States
<1> QED
  BY <1>4, <1>5

(* The states that receive, judge and release change nothing of this.      *)
LEMMA BeforeFlow ==
  ASSUME NEW n \in Nat, NEW k \in Nat, NEW m \in Nat, Flow(n, k, m),
         Pause \/ Receive \/ Check \/ Release
  PROVE  IInv'
<1>1. st \in Before /\ ~CpuTx /\ ~TxBusy /\ ~TxStart /\ txLeft \in Nat /\ ~Busy /\ st # "resp"
  BY DEF Pause, Receive, Check, Release, Before, CpuTx, Flow, Responding, TxStart, Pop, OnTheWay
<1>2. Output(FALSE) /\ st1' = 0 /\ st2' = 0 /\ stored' = stored
  BY DEF Pause, Receive, Check, Release, Held
<1>3. fifo' = fifo /\ sent' = sent /\ txLeft' \in Nat /\ ~TxBusy'
  BY <1>1, <1>2, OutputRests, Transmitter DEF Flow
<1>4. n = 0 /\ k = 0 /\ m = 0 /\ stored = 0
  BY <1>1 DEF Flow, Sending
<1>5. st' \in {"idle", "monitor"} \cup Before \/
        (st' = "resp" /\ phase' = 0 /\ req' = FALSE /\ status' # "ok")
  BY <1>1 DEF Pause, Receive, Check, Release, Before
<1>6. sent' = Stream(0, 0) /\ fifo' = Cpus(0, 0)
  BY <1>3, <1>4 DEF Flow, Sending
<1>7. Sending(0, 0, 0)' /\ OnTheWay(0, 0)'
  BY <1>2, <1>4, <1>5, <1>6, SizesAssumption DEF Sending, OnTheWay, Busy
<1>8. Ended(0, 0)'
  BY <1>5 DEF Ended, Before
<1>9. Responding(0)'
  BY <1>3, <1>5 DEF Responding, Before
<1> QED
  BY <1>5, <1>7, <1>8, <1>9 DEF IInv, States, Flow, Before

(* A cycle of the run.  What is on the port enters the queue, what the     *)
(* core stored goes to the port, and it stores only when neither is taken  *)
(* and the queue has room.                                                 *)
LEMMA MonitorFlow ==
  ASSUME NEW n \in Nat, NEW k \in Nat, NEW m \in Nat, Flow(n, k, m),
         NEW trap \in BOOLEAN, Monitor(trap)
  PROVE  IInv'
<1>1. /\ st = "monitor" /\ CpuTx /\ txLeft \in Nat /\ st2' = st1 /\ Output(FALSE)
      /\ m = 0 /\ stored \in Nat
      /\ Busy => stored = n + k + 1
      /\ ~Busy => stored = n + k
      /\ st1 # 0 => st1 = n + k + 1 /\ st2 = 0
      /\ st2 # 0 => st2 = n + k + 1
      /\ k <= FIFO
      /\ Busy => k < FIFO
  BY DEF Monitor, CpuTx, Flow, Responding, Sending, OnTheWay
<1>2. PICK pop \in 0 .. 1, push \in 0 .. 1 :
         /\ pop = 1 <=> Pop
         /\ push = 1 <=> st2 # 0
         /\ pop <= k
         /\ sent' = Stream(n + pop, 0)
         /\ fifo' = Cpus(n + pop, (k - pop) + push)
  BY <1>1, OutputServes DEF Flow
<1> DEFINE n1 == n + pop
           k1 == (k - pop) + push
<1>3. n1 \in Nat /\ k1 \in Nat /\ n1 + k1 = (n + k) + push
  BY <1>2
<1>4. txLeft' \in Nat
  BY <1>1, Transmitter
<1>5. ASSUME Emit
      PROVE  /\ ~Busy /\ push = 0 /\ st1' = stored + 1 /\ stored' = stored + 1
             /\ k - pop < FIFO
  <2>1. ~Busy /\ push = 0 /\ st1' = stored + 1 /\ stored' = stored + 1
    BY <1>2, <1>5 DEF Emit, Busy
  <2>2. Len(fifo) = k
    BY CpusSeq DEF Flow, Sending
  <2>3. k < FIFO \/ (pop = 1 /\ k <= FIFO)
    BY <1>1, <1>2, <1>5, <2>2 DEF Emit, Ready
  <2> QED
    BY <1>2, <2>1, <2>3, SizesAssumption
<1>6. /\ stored' \in Nat /\ k1 <= FIFO /\ n1 + k1 <= stored'
      /\ st1' # 0 => st1' = n1 + k1 + 1 /\ st2' = 0
      /\ st2' # 0 => st2' = n1 + k1 + 1
      /\ Busy' => k1 < FIFO /\ n1 + k1 < stored'
      /\ Busy' => stored' = n1 + k1 + 1
      /\ ~Busy' => stored' = n1 + k1
  <2>1. CASE Emit
    <3>1. st1 = 0 /\ st2 = 0 /\ st2' = 0 /\ Busy'
      BY <1>1, <1>5, <2>1 DEF Busy
    <3> QED
      BY <1>1, <1>2, <1>3, <1>5, <2>1, <3>1, SizesAssumption
  <2>2. CASE ~Emit
    <3>1. st1' = 0 /\ stored' = stored /\ (Busy' <=> st1 # 0)
      BY <1>1, <2>2 DEF Monitor, Compute, Store, Busy
    <3>2. CASE st1 # 0
      <4>1. Busy /\ st2 = 0 /\ push = 0 /\ st2' = n + k + 1
        BY <1>1, <1>2, <3>2 DEF Busy
      <4> QED
        BY <1>1, <1>2, <1>3, <3>1, <3>2, <4>1, SizesAssumption
    <3>3. CASE st1 = 0
      <4>1. (Busy <=> push = 1) /\ st2' = 0
        BY <1>1, <1>2, <3>3 DEF Busy
      <4> QED
        BY <1>1, <1>2, <1>3, <3>1, <3>3, <4>1, SizesAssumption
    <3> QED
      BY <3>2, <3>3
  <2> QED
    BY <2>1, <2>2
<1>7. \/ st' = "monitor"
      \/ st' = "drain" /\ (status' = "ok" => trap)
  BY <1>1 DEF Monitor
<1>8. trap => ~Busy'
  BY <1>1 DEF Monitor, Compute, Busy
<1>9. Sending(n1, k1, 0)'
  BY <1>2, <1>6, <1>7 DEF Sending, Before
<1>10. OnTheWay(n1, k1)'
  BY <1>6, <1>7 DEF OnTheWay, CpuTx
<1>11. Ended(n1, k1)'
  BY <1>3, <1>6, <1>7, <1>8 DEF Ended
<1>12. Responding(0)'
  BY <1>4, <1>7 DEF Responding, CpuTx
<1>13. Flow(n1, k1, 0)'
  BY <1>9, <1>10, <1>11, <1>12 DEF Flow
<1> HIDE DEF n1, k1
<1> QED
  BY <1>3, <1>7, <1>13 DEF IInv, States

(* A cycle of the drain.  A store captured when the time ran out is lost,  *)
(* one on the port still enters the queue; after a trap there is neither,  *)
(* so that an empty queue is everything sent.                              *)
LEMMA DrainFlow ==
  ASSUME NEW n \in Nat, NEW k \in Nat, NEW m \in Nat, Flow(n, k, m), Drain
  PROVE  IInv'
<1>1. /\ st = "drain" /\ CpuTx /\ txLeft \in Nat /\ Output(FALSE)
      /\ st1' = 0 /\ st2' = 0 /\ stored' = stored /\ status' = status
      /\ m = 0 /\ stored \in Nat /\ n + k <= stored /\ k <= FIFO
      /\ Busy => k < FIFO /\ n + k < stored
      /\ status = "ok" => n + k = stored /\ ~Busy
  BY DEF Drain, Held, CpuTx, Flow, Responding, Sending, OnTheWay, Ended
<1>2. PICK pop \in 0 .. 1, push \in 0 .. 1 :
         /\ pop = 1 <=> Pop
         /\ push = 1 <=> st2 # 0
         /\ pop <= k
         /\ sent' = Stream(n + pop, 0)
         /\ fifo' = Cpus(n + pop, (k - pop) + push)
  BY <1>1, OutputServes DEF Flow
<1> DEFINE n1 == n + pop
           k1 == (k - pop) + push
<1>3. /\ n1 \in Nat /\ k1 \in Nat /\ n1 + k1 = (n + k) + push
      /\ push = 1 => Busy
  BY <1>2 DEF Busy
<1>4. n1 + k1 <= stored /\ k1 <= FIFO /\ (status = "ok" => n1 + k1 = stored)
  BY <1>1, <1>2, <1>3, SizesAssumption
<1>5. txLeft' \in Nat
  BY <1>1, Transmitter
<1>6. \/ st' = "drain"
      \/ /\ st' = "resp" /\ phase' = 0 /\ req' = FALSE /\ ~TxBusy'
         /\ status = "ok" => k1 = 0
  <2>1. CASE Drained
    <3>1. st' = "resp" /\ phase' = 0 /\ req' = FALSE
      BY <2>1 DEF Drain
    <3>2. ~Pop /\ ~TxStart /\ ~TxBusy
      BY <1>1, <2>1 DEF Drained, Pop, TxStart
    <3>3. ~TxBusy'
      BY <1>1, <3>2, Transmitter
    <3>4. k = 0
      <4>1. fifo = <<>> /\ fifo = Cpus(n, k)
        BY <2>1 DEF Drained, Flow, Sending
      <4>2. Cpus(n, k) = <<>> <=> k = 0
        BY CpusSeq
      <4> QED
        BY <4>1, <4>2
    <3>5. status = "ok" => k1 = 0
      BY <1>1, <1>2, <1>3, <3>2, <3>4
    <3> QED
      BY <3>1, <3>3, <3>5
  <2>2. CASE ~Drained
    BY <1>1, <2>2 DEF Drain
  <2> QED
    BY <2>1, <2>2
<1>7. Sending(n1, k1, 0)'
  BY <1>1, <1>2, <1>4, <1>6 DEF Sending, Before
<1>8. OnTheWay(n1, k1)'
  BY <1>1, <1>4, <1>6 DEF OnTheWay, Busy
<1>9. Ended(n1, k1)'
  BY <1>1, <1>4, <1>6 DEF Ended, Busy
<1>10. Responding(0)'
  BY <1>5, <1>6 DEF Responding, CpuTx
<1>11. Flow(n1, k1, 0)'
  BY <1>7, <1>8, <1>9, <1>10 DEF Flow
<1> HIDE DEF n1, k1
<1> QED
  BY <1>3, <1>6, <1>11 DEF IInv, States

(* A cycle of the response.  A byte is requested only while the            *)
(* transmitter is idle and stays requested for the one cycle in which it   *)
(* is taken.                                                               *)
LEMMA RespondFlow ==
  ASSUME NEW n \in Nat, NEW k \in Nat, NEW m \in Nat, Flow(n, k, m), Respond
  PROVE  IInv'
<1>1. /\ st = "resp" /\ ~CpuTx /\ txLeft \in Nat /\ Output(FALSE) /\ ~Busy
      /\ req /\ ~TxBusy => phase = m + 1
      /\ ~req \/ TxBusy => phase = m
      /\ phase = 0 => ~TxBusy
      /\ st1' = 0 /\ st2' = 0 /\ stored' = stored /\ status' = status
      /\ TxStart = req
  BY DEF Respond, Held, CpuTx, Flow, Responding, OnTheWay, TxStart
<1>2. st' \in {"resp", "idle"}
  BY <1>1 DEF Respond
<1>3. txLeft' \in Nat
  BY <1>1, Transmitter
<1>4. CASE req /\ ~TxBusy
  <2>1. fifo' = fifo /\ sent' = Append(sent, <<"resp", m + 1>>)
    <3>1. ~Pop /\ ~Push /\ TxStart /\ TxByte = <<"resp", m + 1>>
      BY <1>1, <1>4 DEF Pop, Push, Ready, TxByte
    <3>2. fifo \o <<>> = fifo
      BY CpusSeq DEF Flow, Sending
    <3> QED
      BY <1>1, <1>4, <3>1, <3>2 DEF Output
  <2>2. sent' = Stream(n, m + 1) /\ fifo' = Cpus(n, k)
    BY <2>1, StreamSeq DEF Flow, Sending
  <2>3. TxBusy'
    BY <1>1, <1>4, Transmitter
  <2>4. st' = "resp" /\ phase' = phase /\ phase = m + 1
    BY <1>1, <1>4 DEF Respond
  <2>5. Flow(n, k, m + 1)'
    BY <1>1, <1>3, <2>2, <2>3, <2>4
       DEF Flow, Sending, OnTheWay, Ended, Responding, CpuTx, Busy, Before
  <2> QED
    BY <2>4, <2>5 DEF IInv, States
<1>5. CASE ~(req /\ ~TxBusy)
  <2>1. fifo' = fifo /\ sent' = sent
    BY <1>1, <1>5, OutputRests DEF Flow
  <2>2. phase = m
    BY <1>1, <1>5
  <2>3. ~TxBusy => ~TxBusy'
    BY <1>1, <1>5, Transmitter
  <2>4. \/ /\ st' = "resp" /\ phase' = phase + 1 /\ req' = TRUE /\ ~TxBusy
        \/ /\ st' = "resp" /\ phase' = phase /\ req' = FALSE
        \/ /\ st' = "idle" /\ ~TxBusy
    BY <1>1, <1>5 DEF Respond
  <2>5. Responding(m)'
    BY <1>1, <1>3, <2>2, <2>3, <2>4 DEF Responding, CpuTx
  <2>6. Sending(n, k, m)' /\ OnTheWay(n, k)' /\ Ended(n, k)'
    BY <1>1, <1>2, <2>1 DEF Flow, Sending, OnTheWay, Ended, CpuTx, Busy, Before
  <2> QED
    BY <1>2, <2>5, <2>6 DEF IInv, States, Flow
<1> QED
  BY <1>4, <1>5

-----------------------------------------------------------------------------
LEMMA InitFlow ==
  Init => IInv
<1> SUFFICES ASSUME Init PROVE IInv
  OBVIOUS
<1>1. Flow(0, 0, 0)
  BY NothingSent, SizesAssumption
     DEF Init, Flow, Sending, OnTheWay, Ended, Responding, CpuTx, Busy, TxBusy, Before
<1> QED
  BY <1>1 DEF IInv, Init, States

LEMMA NextFlow ==
  IInv /\ [Next]_vars => IInv'
<1> SUFFICES ASSUME IInv, [Next]_vars PROVE IInv'
  OBVIOUS
<1> PICK n \in Nat, k \in Nat, m \in Nat : Flow(n, k, m)
  BY DEF IInv
<1>1. CASE Idle
  BY <1>1, IdleFlow
<1>2. CASE Pause \/ Receive \/ Check \/ Release
  BY <1>2, BeforeFlow
<1>3. CASE \E trap \in BOOLEAN : Monitor(trap)
  BY <1>3, MonitorFlow
<1>4. CASE Drain
  BY <1>4, DrainFlow
<1>5. CASE Respond
  BY <1>5, RespondFlow
<1>6. CASE UNCHANGED vars
  <2>1. Flow(n, k, m)'
    BY <1>6 DEF vars, bridgeVars, Flow, Sending, OnTheWay, Ended, Responding,
                CpuTx, Busy, TxBusy, Before
  <2> QED
    BY <1>6, <2>1 DEF vars, bridgeVars, IInv
<1> QED
  BY <1>1, <1>2, <1>3, <1>4, <1>5, <1>6 DEF Next

LEMMA FlowOutput ==
  IInv => OutputThenResponse
<1> SUFFICES ASSUME IInv PROVE OutputThenResponse
  OBVIOUS
<1> PICK n \in Nat, k \in Nat, m \in Nat : Flow(n, k, m)
  BY DEF IInv
<1>1. n \in 0 .. stored /\ sent = Stream(n, m) /\ Len(sent) = n + m
  <2>1. sent = Stream(n, m) /\ stored \in Nat /\ n + k <= stored
    BY DEF Flow, Sending
  <2>2. Len(Stream(n, m)) = n + m
    BY StreamSeq
  <2> QED
    BY <2>1, <2>2
<1>2. Len(sent) - n = m
  BY <1>1
<1>3. st = "resp" /\ status = "ok" => n = stored
  BY <1>1 DEF Flow, Ended
<1>4. Len(sent) > n => ~CpuTx
  BY <1>1 DEF Flow, Sending
<1>5. n <= Len(sent) /\ sent = Stream(n, Len(sent) - n)
  BY <1>1, <1>2
<1> QED
  BY <1>1, <1>3, <1>4, <1>5 DEF OutputThenResponse

(* The receiver of the line sees the program's output, complete and in     *)
(* order, and only then the response, whatever the sizes of memory and     *)
(* queue, the speed of the line, the gap, the timeout, and whenever the    *)
(* core stores, traps or is stopped (uart_bridge.sv:336, 351, 366).        *)
THEOREM OutputCorrect ==
  Spec => []OutputThenResponse
BY InitFlow, NextFlow, FlowOutput, PTL DEF Spec

-----------------------------------------------------------------------------
(* Types.                                                                  *)

(* What the types rest on: where the counters are in each state.           *)
Counted ==
  /\ st = "rx" => cnt >= 1 /\ (cnt > 2 => cnt - 3 <= len)
  /\ st = "check" => cnt = len + 4
  /\ st = "monitor" => tmo <= TIMEOUT
  /\ st = "resp" /\ req => phase >= 1
LEMMA Sizes ==
  /\ DEPTH \in Nat /\ DEPTH > 0 /\ LANES \in Nat /\ LANES > 0
  /\ BYTE \in Nat /\ BYTE > 0 /\ TX_TIME \in Nat /\ TX_TIME > 0 /\ FIFO \in Nat /\ FIFO > 0
  /\ GAP \in Nat /\ RESP_IDLE \in Nat /\ TIMEOUT \in Nat /\ MAX_OUT \in Nat
BY SizesAssumption

(* The types of the state, in groups that are used together.               *)
FrameTypes ==
  /\ cnt \in 0 .. MaxLen + 4 /\ exec \in BOOLEAN /\ sumOk \in BOOLEAN
  /\ addr \in {Outside} \cup 0 .. DEPTH /\ len \in 0 .. MaxLen
  /\ buf \in Seq(Byte) /\ Len(buf) < LANES /\ Len(buf) \in Nat
  /\ waddr \in Word /\ clr \in Word
RunTypes ==
  /\ tmo \in 0 .. TIMEOUT + 1 /\ ridle \in 0 .. RESP_IDLE /\ phase \in 0 .. 3
  /\ req \in BOOLEAN /\ status \in {"ok", "timeout", "range", "cmd", "chksum"}
  /\ st1 \in 0 .. MAX_OUT /\ st2 \in 0 .. MAX_OUT /\ stored \in 0 .. MAX_OUT
LineTypes ==
  /\ gap \in 0 .. GAP /\ hbyte \in 0 .. BYTE
  /\ fifo \in Seq(Item) /\ Len(fifo) <= FIFO /\ Len(fifo) \in Nat
  /\ txLeft \in 0 .. TX_TIME /\ sent \in Seq(Item)
StateTypes ==
  st \in {"idle", "rx", "check", "release", "monitor", "drain", "resp"}
MemType == mem \in [Word -> [Lane -> Byte]]

Typed ==
  FrameTypes /\ RunTypes /\ LineTypes /\ StateTypes /\ MemType /\ Counted

LEMMA Fields ==
  FrameTypes /\ RunTypes /\ LineTypes /\ StateTypes /\ MemType => TypeOK
<1>1. FrameTypes /\ RunTypes => {exec, sumOk, req} \subseteq BOOLEAN
  BY DEF FrameTypes, RunTypes
<1> QED
  BY <1>1 DEF TypeOK, FrameTypes, RunTypes, LineTypes, StateTypes, MemType

LEMMA Remainder ==
  ASSUME NEW a \in Nat
  PROVE  a % DEPTH \in Word
<1>1. DEPTH \in Nat /\ DEPTH > 0
  BY SizesAssumption
<1>2. \A d \in Nat : d > 0 => a % d \in 0 .. d - 1
  OBVIOUS
<1> QED
  BY <1>1, <1>2 DEF Word

LEMMA Products == DEPTH * LANES \in Nat /\ MaxLen \in Nat /\ MaxLen >= 1
<1>1. \A a, b \in Nat : a * b \in Nat
  OBVIOUS
<1>2. DEPTH * LANES \in Nat
  BY <1>1, Sizes
<1> QED
  BY <1>2 DEF MaxLen

LEMMA PutType ==
  ASSUME NEW m \in [Word -> [Lane -> Byte]], NEW w \in Word,
         NEW bytes \in Seq(Byte), Len(bytes) <= LANES
  PROVE  Put(m, w, bytes) \in [Word -> [Lane -> Byte]]
<1>1. \A n \in 1 .. Len(bytes) : bytes[n] \in Byte
  OBVIOUS
<1>2. ASSUME NEW n \in Lane
      PROVE  (IF n <= Len(bytes) THEN bytes[n] ELSE m[w][n]) \in Byte
  <2>1. m[w][n] \in Byte
    OBVIOUS
  <2>2. n \in Nat /\ n >= 1 /\ Len(bytes) \in Nat
    BY Sizes DEF Lane
  <2>3. n <= Len(bytes) => bytes[n] \in Byte
    BY <1>1, <2>2
  <2> QED
    BY <2>1, <2>3
<1> DEFINE new == [n \in Lane |-> IF n <= Len(bytes) THEN bytes[n] ELSE m[w][n]]
<1>3. new \in [Lane -> Byte]
  BY <1>2
<1>4. Put(m, w, bytes) = [m EXCEPT ![w] = new]
  BY DEF Put
<1> HIDE DEF new
<1> QED
  BY <1>3, <1>4

LEMMA WordTypes ==
  [n \in Lane |-> Blank] \in [Lane -> Byte] /\ [n \in Lane |-> Dirty] \in [Lane -> Byte]
BY DEF Byte, Blank, Dirty

LEMMA SweptType ==
  ASSUME MemType, clr \in Word
  PROVE  Swept \in [Word -> [Lane -> Byte]]
BY WordTypes DEF Swept, MemType

(* The output block, with what the core and the response may hand to it.   *)
LEMMA OutputType ==
  ASSUME RunTypes, LineTypes, Counted, NEW fresh \in BOOLEAN, Output(fresh), Line
  PROVE  LineTypes'
<1>1. /\ fifo \in Seq(Item) /\ Len(fifo) <= FIFO /\ Len(fifo) \in Nat /\ sent \in Seq(Item)
      /\ st2 \in 0 .. MAX_OUT /\ phase \in 0 .. 3 /\ txLeft \in 0 .. TX_TIME
      /\ req \in BOOLEAN
  BY DEF RunTypes, LineTypes
<1>2. txLeft' \in 0 .. TX_TIME
  BY <1>1, Sizes DEF Output, TxBusy
<1>3. st2 # 0 => <<"cpu", st2>> \in Item
  BY <1>1, Sizes DEF Item
<1>4. Pop => /\ fifo # <<>> /\ Head(fifo) \in Item /\ Tail(fifo) \in Seq(Item)
             /\ Len(Tail(fifo)) = Len(fifo) - 1 /\ Len(fifo) >= 1
  <2>1. \A q \in Seq(Item) : q # <<>> =>
           /\ Head(q) \in Item /\ Tail(q) \in Seq(Item)
           /\ Len(Tail(q)) = Len(q) - 1 /\ Len(q) >= 1
    OBVIOUS
  <2> QED
    BY <1>1, <2>1 DEF Pop
<1>5. TxStart => TxByte \in Item
  <2>1. CASE st = "resp"
    <3>1. req => phase \in 1 .. 3
      BY <1>1, <2>1 DEF Counted
    <3>2. req => <<"resp", phase>> \in Item
      BY <3>1, Sizes DEF Item
    <3> QED
      BY <2>1, <3>2 DEF TxStart, TxByte
  <2>2. CASE st # "resp"
    BY <1>4, <2>2 DEF TxStart, TxByte
  <2> QED
    BY <2>1, <2>2
<1>6. sent' \in Seq(Item)
  <2>1. CASE fresh
    BY <2>1 DEF Output
  <2>2. CASE ~fresh /\ TxStart /\ ~TxBusy
    BY <1>1, <1>5, <2>2 DEF Output
  <2>3. CASE ~fresh /\ ~(TxStart /\ ~TxBusy)
    BY <1>1, <2>3 DEF Output
  <2> QED
    BY <2>1, <2>2, <2>3
<1> DEFINE left == IF Pop THEN Tail(fifo) ELSE fifo
           added == IF Push THEN <<<<"cpu", st2>>>> ELSE <<>>
<1>7. left \in Seq(Item) /\ Len(left) \in Nat
      /\ Len(left) = Len(fifo) - (IF Pop THEN 1 ELSE 0)
  BY <1>1, <1>4
<1>8. added \in Seq(Item) /\ Len(added) = (IF Push THEN 1 ELSE 0)
  <2>1. <<>> \in Seq(Item) /\ Len(<<>>) = 0
    OBVIOUS
  <2>2. \A x \in Item : <<x>> \in Seq(Item) /\ Len(<<x>>) = 1
    OBVIOUS
  <2> QED
    BY <1>3, <2>1, <2>2 DEF Push
<1> HIDE DEF left, added
<1>9. left \o added \in Seq(Item) /\ Len(left \o added) = Len(left) + Len(added)
  <2>1. \A p, q \in Seq(Item) : p \o q \in Seq(Item) /\ Len(p \o q) = Len(p) + Len(q)
    OBVIOUS
  <2> QED
    BY <1>7, <1>8, <2>1
<1>10. Push => Len(fifo) < FIFO \/ Pop
  BY DEF Push, Ready
<1>11. Len(left) + Len(added) <= FIFO
  BY <1>1, <1>4, <1>7, <1>8, <1>10, Sizes
<1>12. fifo' = IF fresh THEN <<>> ELSE left \o added
  BY DEF Output, left, added
<1>13. <<>> \in Seq(Item) /\ Len(<<>>) = 0
  OBVIOUS
<1>14. fifo' \in Seq(Item) /\ Len(fifo') <= FIFO /\ Len(fifo') \in Nat
  BY <1>7, <1>8, <1>9, <1>11, <1>12, <1>13, Sizes
<1>15. gap' \in 0 .. GAP /\ hbyte' \in 0 .. BYTE
  <2>1. gap \in 0 .. GAP /\ hbyte \in 0 .. BYTE
    BY DEF LineTypes
  <2>2. gap' \in 0 .. GAP
    BY <2>1, Sizes DEF Line
  <2>3. hbyte' \in 0 .. BYTE
    BY <2>1, Sizes DEF Line
  <2> QED
    BY <2>2, <2>3
<1> QED
  BY <1>2, <1>6, <1>14, <1>15 DEF LineTypes

(* The core in reset.                                                      *)
LEMMA HeldTypes ==
  ASSUME RunTypes, Held
  PROVE  st1' \in 0 .. MAX_OUT /\ st2' \in 0 .. MAX_OUT /\ stored' \in 0 .. MAX_OUT
BY Sizes DEF RunTypes, Held

-----------------------------------------------------------------------------
LEMMA IdleTyped ==
  ASSUME Typed, Idle PROVE Typed'
<1>1. FrameTypes /\ RunTypes /\ LineTypes /\ StateTypes /\ MemType /\ Counted
  BY DEF Typed
<1>2. LineTypes'
  <2>1. Line /\ Output(FrameStart) /\ FrameStart \in BOOLEAN
    BY DEF Idle, FrameStart
  <2> QED
    BY <1>1, <2>1, OutputType
<1>3. MemType'
  BY <1>1, SweptType DEF Idle, MemType, FrameTypes
<1>4. st' \in {"idle", "rx"} /\ cnt' \in 0 .. 1 /\ (st' = "rx" => cnt' = 1)
  BY DEF Idle
<1>5. FrameTypes'
  <2>1. clr' \in Word
    <3>1. clr \in Word /\ clr \in Nat /\ clr + 1 \in Nat /\ 0 \in Word
      BY <1>1, Sizes DEF FrameTypes, Word
    <3>2. (clr + 1) % DEPTH \in Word
      BY <3>1, Remainder
    <3> QED
      BY <3>1, <3>2 DEF Idle
  <2>2. buf' \in Seq(Byte) /\ Len(buf') < LANES /\ Len(buf') \in Nat
    <3>1. <<>> \in Seq(Byte) /\ Len(<<>>) = 0
      OBVIOUS
    <3> QED
      BY <3>1, Sizes DEF Idle
  <2>3. exec' \in BOOLEAN /\ sumOk' \in BOOLEAN
    BY <1>1 DEF Idle, FrameTypes
  <2>4. addr' \in {Outside} \cup 0 .. DEPTH
    <3>1. addr' = addr \/ addr' = 0
      BY DEF Idle
    <3> QED
      BY <1>1, <3>1, Sizes DEF FrameTypes
  <2>5. len' \in 0 .. MaxLen
    <3>1. len' = len \/ len' = 0
      BY DEF Idle
    <3> QED
      BY <1>1, <3>1, Products DEF FrameTypes
  <2>6. waddr' \in Word
    BY Sizes DEF Idle, Word
  <2>7. cnt' \in 0 .. MaxLen + 4
    BY <1>4, Products
  <2> QED
    BY <2>1, <2>2, <2>3, <2>4, <2>5, <2>6, <2>7 DEF FrameTypes
<1>6. RunTypes'
  <2>1. st1' = 0 /\ st2' = 0 /\ (stored' = stored \/ stored' = 0)
    BY DEF Idle, Held
  <2>2. tmo' = 0 /\ ridle' = 0 /\ phase' = 0 /\ status' = "ok" /\ req' = req
    BY DEF Idle
  <2> QED
    BY <1>1, <2>1, <2>2, Sizes DEF RunTypes
<1>7. Counted' /\ StateTypes'
  BY <1>4 DEF Counted, StateTypes
<1> QED
  BY <1>2, <1>3, <1>5, <1>6, <1>7 DEF Typed

LEMMA ReceiveTyped ==
  ASSUME Typed, Receive PROVE Typed'
<1>1. /\ FrameTypes /\ RunTypes /\ LineTypes /\ StateTypes /\ MemType /\ Counted
      /\ st = "rx"
  BY DEF Typed, Receive
<1>2. LineTypes'
  <2>1. Line /\ Output(FALSE) /\ FALSE \in BOOLEAN
    BY DEF Receive
  <2> QED
    BY <1>1, <2>1, OutputType
<1>3. /\ cnt \in Nat /\ cnt >= 1 /\ len \in 0 .. MaxLen
      /\ cnt > 2 => cnt - 3 <= len
      /\ MaxLen \in Nat /\ MaxLen >= 1
  <2>1. cnt \in 0 .. MaxLen + 4 /\ len \in 0 .. MaxLen
    BY <1>1 DEF FrameTypes
  <2> QED
    BY <1>1, <2>1, Products DEF Counted
<1>4. cnt' = cnt + 1
  BY DEF Receive
<1>5. /\ addr' \in {Outside} \cup 0 .. DEPTH /\ len' \in 0 .. MaxLen
      /\ cnt > 2 => len' = len
  <2>1. addr \in {Outside} \cup 0 .. DEPTH /\ len \in 0 .. MaxLen
    BY <1>1 DEF FrameTypes
  <2>2. CASE Address
    BY <2>1, <2>2 DEF Address
  <2>3. CASE Length
    BY <2>1, <2>3 DEF Length
  <2>4. CASE Payload \/ Checksum
    BY <2>1, <2>4 DEF Payload, Checksum
  <2> QED
    BY <2>2, <2>3, <2>4 DEF Receive
<1>6. /\ st' \in {"idle", "rx", "check"}
      /\ st' = "rx" => ~(cnt > 2 /\ cnt - 3 = len)
      /\ st' = "check" => cnt > 2 /\ cnt - 3 = len
  BY DEF Receive
<1>7. cnt' \in 0 .. MaxLen + 4
  BY <1>3, <1>4
<1>8. Counted' /\ StateTypes'
  <2>1. st' = "rx" => cnt' >= 1 /\ (cnt' > 2 => cnt' - 3 <= len')
    BY <1>3, <1>4, <1>5, <1>6
  <2>2. st' = "check" => cnt' = len' + 4
    BY <1>3, <1>4, <1>5, <1>6
  <2> QED
    BY <1>6, <2>1, <2>2 DEF Counted, StateTypes
<1>9. waddr' \in Word
  <2>1. waddr \in Word /\ waddr + 1 \in Nat
    BY <1>1, Sizes DEF FrameTypes, Word
  <2>2. (IF addr = Outside THEN 0 ELSE addr) \in Nat
    BY <1>1, Sizes DEF FrameTypes
  <2>3. (waddr + 1) % DEPTH \in Word /\ (IF addr = Outside THEN 0 ELSE addr) % DEPTH \in Word
    BY <2>1, <2>2, Remainder
  <2>4. waddr' \in {waddr, (waddr + 1) % DEPTH, (IF addr = Outside THEN 0 ELSE addr) % DEPTH}
    BY DEF Receive, Address, Length, Payload, Checksum
  <2> QED
    BY <2>1, <2>3, <2>4
<1>10. Payload => /\ Append(buf, cnt - 2) \in Seq(Byte)
                  /\ Len(Append(buf, cnt - 2)) = Len(buf) + 1
  <2>1. Payload => cnt - 2 \in 1 .. MaxLen
    BY <1>3 DEF Payload
  <2>2. Payload => cnt - 2 \in Byte
    BY <2>1 DEF Byte
  <2>3. buf \in Seq(Byte)
    BY <1>1 DEF FrameTypes
  <2>4. \A q \in Seq(Byte), x \in Byte :
          Append(q, x) \in Seq(Byte) /\ Len(Append(q, x)) = Len(q) + 1
    OBVIOUS
  <2> QED
    BY <2>2, <2>3, <2>4
<1>11. buf \in Seq(Byte) /\ Len(buf) < LANES /\ Len(buf) \in Nat
  BY <1>1 DEF FrameTypes
<1>12. buf' \in Seq(Byte) /\ Len(buf') < LANES /\ Len(buf') \in Nat
  <2>1. <<>> \in Seq(Byte) /\ Len(<<>>) = 0
    OBVIOUS
  <2>2. \/ buf' = <<>> \/ buf' = buf
        \/ Payload /\ Len(buf) # LANES - 1 /\ buf' = Append(buf, cnt - 2)
    BY DEF Receive, Address, Length, Payload, Checksum
  <2>3. ASSUME Payload, Len(buf) # LANES - 1, buf' = Append(buf, cnt - 2)
        PROVE  buf' \in Seq(Byte) /\ Len(buf') < LANES /\ Len(buf') \in Nat
    <3>1. buf' \in Seq(Byte) /\ Len(buf') = Len(buf) + 1
      BY <1>10, <2>3
    <3> QED
      BY <1>11, <2>3, <3>1, Sizes
  <2> QED
    BY <1>11, <2>1, <2>2, <2>3, Sizes
<1>13. MemType'
  <2>1. mem \in [Word -> [Lane -> Byte]] /\ waddr \in Word
    BY <1>1 DEF FrameTypes, MemType
  <2>2. ASSUME Payload, Len(buf) = LANES - 1
        PROVE  Put(mem, waddr, Append(buf, cnt - 2)) \in [Word -> [Lane -> Byte]]
    <3> DEFINE bytes == Append(buf, cnt - 2)
    <3>1. bytes \in Seq(Byte) /\ Len(bytes) <= LANES
      BY <1>10, <1>11, <2>2, Sizes
    <3> HIDE DEF bytes
    <3>2. Put(mem, waddr, bytes) \in [Word -> [Lane -> Byte]]
      BY <2>1, <3>1, PutType
    <3> QED
      BY <3>2 DEF bytes
  <2>3. \/ mem' = mem
        \/ Payload /\ Len(buf) = LANES - 1 /\ mem' = Put(mem, waddr, Append(buf, cnt - 2))
    BY DEF Receive, Address, Length, Payload, Checksum
  <2> QED
    BY <2>1, <2>2, <2>3 DEF MemType
<1>14. exec' \in BOOLEAN /\ sumOk' \in BOOLEAN /\ clr' \in Word
  <2>1. exec' = exec /\ clr' = clr
    BY DEF Receive
  <2>2. sumOk' = sumOk \/ sumOk' \in BOOLEAN
    BY DEF Receive, Address, Length, Payload, Checksum
  <2> QED
    BY <1>1, <2>1, <2>2 DEF FrameTypes
<1>15. RunTypes'
  <2>1. UNCHANGED runVars /\ Held
    BY DEF Receive
  <2> QED
    BY <1>1, <2>1, HeldTypes DEF RunTypes, runVars
<1>16. FrameTypes'
  BY <1>5, <1>7, <1>9, <1>12, <1>14 DEF FrameTypes
<1> QED
  BY <1>2, <1>8, <1>13, <1>15, <1>16 DEF Typed

(* The states in which neither the frame nor the sweep moves.              *)
LEMMA FrameKept ==
  ASSUME FrameTypes, UNCHANGED <<frameVars, clr>>
  PROVE  FrameTypes'
BY DEF FrameTypes, frameVars

LEMMA PauseTyped ==
  ASSUME Typed, Pause PROVE Typed'
<1>1. FrameTypes /\ RunTypes /\ LineTypes /\ StateTypes /\ MemType /\ Counted
  BY DEF Typed
<1>2. /\ UNCHANGED <<frameVars, clr, mem, runVars>> /\ Held /\ Line /\ Output(FALSE)
      /\ FALSE \in BOOLEAN /\ st = "rx" /\ st' \in {"idle", "rx"}
  BY DEF Pause
<1>3. FrameTypes'
  BY <1>1, <1>2, FrameKept
<1>4. LineTypes'
  BY <1>1, <1>2, OutputType
<1>5. RunTypes'
  BY <1>1, <1>2, HeldTypes DEF RunTypes, runVars
<1>6. MemType' /\ StateTypes' /\ Counted'
  BY <1>1, <1>2 DEF MemType, StateTypes, Counted, frameVars
<1> QED
  BY <1>3, <1>4, <1>5, <1>6 DEF Typed

LEMMA JudgeTyped ==
  ASSUME Typed, Check \/ Release \/ Drain PROVE Typed'
<1>1. FrameTypes /\ RunTypes /\ LineTypes /\ StateTypes /\ MemType /\ Counted
  BY DEF Typed
<1>2. /\ UNCHANGED <<frameVars, clr>> /\ Held /\ Line /\ Output(FALSE) /\ FALSE \in BOOLEAN
  BY DEF Check, Release, Drain
<1>3. FrameTypes'
  BY <1>1, <1>2, FrameKept
<1>4. LineTypes'
  BY <1>1, <1>2, OutputType
<1>5. /\ phase' = phase \/ phase' = 0
      /\ ridle' = ridle \/ ridle' = 0
      /\ req' = req \/ req' = FALSE
      /\ status' \in {status, "chksum", "cmd", "range"}
      /\ tmo' = tmo \/ tmo' = 0
      /\ st' = "monitor" => tmo' = 0
      /\ st' \in {"release", "monitor", "drain", "resp"}
      /\ st' = "resp" => req' = FALSE
  <2>1. CASE Check
    BY <2>1 DEF Check
  <2>2. CASE Release
    BY <2>2 DEF Release
  <2>3. CASE Drain
    BY <2>3 DEF Drain
  <2> QED
    BY <2>1, <2>2, <2>3
<1>6. RunTypes'
  <2>1. ridle' \in 0 .. RESP_IDLE /\ phase' \in 0 .. 3 /\ tmo' \in 0 .. TIMEOUT + 1
    BY <1>1, <1>5, Sizes DEF RunTypes
  <2>2. req' \in BOOLEAN /\ status' \in {"ok", "timeout", "range", "cmd", "chksum"}
    BY <1>1, <1>5 DEF RunTypes
  <2> QED
    BY <1>1, <1>2, <2>1, <2>2, HeldTypes DEF RunTypes
<1>7. StateTypes' /\ Counted'
  BY <1>5, Sizes DEF StateTypes, Counted
<1>8. MemType'
  <2>1. /\ mem \in [Word -> [Lane -> Byte]] /\ waddr \in Word /\ buf \in Seq(Byte)
        /\ Len(buf) <= LANES
    BY <1>1, Sizes DEF FrameTypes, MemType
  <2>2. Put(mem, waddr, buf) \in [Word -> [Lane -> Byte]]
    BY <2>1, PutType
  <2>3. mem' = mem \/ mem' = Put(mem, waddr, buf)
    BY DEF Check, Release, Drain
  <2> QED
    BY <2>1, <2>2, <2>3 DEF MemType
<1> QED
  BY <1>3, <1>4, <1>6, <1>7, <1>8 DEF Typed

LEMMA RespondTyped ==
  ASSUME Typed, Respond PROVE Typed'
<1>1. FrameTypes /\ RunTypes /\ LineTypes /\ StateTypes /\ MemType /\ Counted
  BY DEF Typed
<1>2. /\ UNCHANGED <<frameVars, clr, tmo, status, mem>> /\ Held /\ Line /\ Output(FALSE)
      /\ FALSE \in BOOLEAN /\ st = "resp" /\ st' \in {"idle", "resp"}
  BY DEF Respond
<1>3. FrameTypes'
  BY <1>1, <1>2, FrameKept
<1>4. LineTypes'
  BY <1>1, <1>2, OutputType
<1>5. ridle \in 0 .. RESP_IDLE /\ phase \in 0 .. 3 /\ req \in BOOLEAN
      /\ (req => phase >= 1)
  BY <1>1, <1>2 DEF RunTypes, Counted
<1>6. ridle' \in 0 .. RESP_IDLE
  BY <1>5, Sizes DEF Respond
<1>7. \/ phase' = phase + 1 /\ phase \in 0 .. 2 /\ req' = TRUE
      \/ phase' = phase /\ req' = (req /\ ~TxBusy)
  BY DEF Respond
<1>8. phase' \in 0 .. 3 /\ req' \in BOOLEAN /\ (req' => phase' >= 1)
  <2>1. CASE phase' = phase + 1 /\ phase \in 0 .. 2 /\ req' = TRUE
    BY <2>1
  <2>2. CASE phase' = phase /\ req' = (req /\ ~TxBusy)
    BY <1>5, <2>2
  <2> QED
    BY <1>7, <2>1, <2>2
<1>9. RunTypes'
  BY <1>1, <1>2, <1>6, <1>8, HeldTypes DEF RunTypes
<1>10. MemType' /\ StateTypes' /\ Counted'
  BY <1>1, <1>2, <1>8 DEF MemType, StateTypes, Counted
<1> QED
  BY <1>3, <1>4, <1>9, <1>10 DEF Typed

LEMMA MonitorTyped ==
  ASSUME Typed, NEW trap \in BOOLEAN, Monitor(trap) PROVE Typed'
<1>1. FrameTypes /\ RunTypes /\ LineTypes /\ StateTypes /\ MemType /\ Counted
  BY DEF Typed
<1>2. /\ UNCHANGED <<frameVars, clr>> /\ Line /\ Output(FALSE)
      /\ FALSE \in BOOLEAN /\ st = "monitor" /\ st' \in {"monitor", "drain"}
      /\ tmo' = tmo + 1 /\ (tmo >= TIMEOUT => st' = "drain")
  BY DEF Monitor
<1>3. FrameTypes'
  BY <1>1, <1>2, FrameKept
<1>4. LineTypes'
  BY <1>1, <1>2, OutputType
<1>5. st1' \in 0 .. MAX_OUT /\ st2' \in 0 .. MAX_OUT /\ stored' \in 0 .. MAX_OUT
  <2>1. stored \in 0 .. MAX_OUT /\ MAX_OUT \in Nat /\ st1 \in 0 .. MAX_OUT
    BY <1>1, Sizes DEF RunTypes
  <2>2. /\ st2' = st1
        /\ \/ st1' = 0 /\ stored' = stored
           \/ stored < MAX_OUT /\ st1' = stored + 1 /\ stored' = stored + 1
    BY DEF Monitor, Compute, Store, Emit
  <2> QED
    BY <2>1, <2>2
<1>6. tmo \in 0 .. TIMEOUT
  BY <1>1, <1>2, Sizes DEF RunTypes, Counted
<1>7. tmo' \in 0 .. TIMEOUT + 1 /\ (st' = "monitor" => tmo' <= TIMEOUT)
  BY <1>2, <1>6, Sizes
<1>8. /\ ridle' = ridle \/ ridle' = 0
      /\ phase' = phase \/ phase' = 0
      /\ req' = req \/ req' = FALSE
      /\ status' \in {status, "ok", "timeout"}
  BY DEF Monitor
<1>9. RunTypes'
  <2>1. ridle' \in 0 .. RESP_IDLE /\ phase' \in 0 .. 3
    BY <1>1, <1>8, Sizes DEF RunTypes
  <2>2. req' \in BOOLEAN /\ status' \in {"ok", "timeout", "range", "cmd", "chksum"}
    BY <1>1, <1>8 DEF RunTypes
  <2> QED
    BY <1>5, <1>7, <2>1, <2>2 DEF RunTypes
<1>10. StateTypes' /\ Counted'
  BY <1>2, <1>7 DEF StateTypes, Counted
<1>11. MemType'
  <2>1. mem \in [Word -> [Lane -> Byte]]
    BY <1>1 DEF MemType
  <2> DEFINE dirt == [n \in Lane |-> Dirty]
  <2>2. dirt \in Seq(Byte) /\ Len(dirt) = LANES
    BY Sizes DEF Lane, Byte, Dirty
  <2>3. ASSUME NEW w \in Word PROVE Put(mem, w, dirt) \in [Word -> [Lane -> Byte]]
    <3> HIDE DEF dirt
    <3>1. Len(dirt) <= LANES
      BY <2>2, Sizes
    <3> QED
      BY <2>1, <2>2, <3>1, PutType
  <2>4. mem' = mem \/ \E w \in Word : mem' = Put(mem, w, dirt)
    BY DEF Monitor, Compute, Store, Emit
  <2> HIDE DEF dirt
  <2> QED
    BY <2>1, <2>3, <2>4 DEF MemType
<1> QED
  BY <1>3, <1>4, <1>9, <1>10, <1>11 DEF Typed

LEMMA InitTyped == Init => Typed
<1> SUFFICES ASSUME Init PROVE Typed
  OBVIOUS
<1>1. <<>> \in Seq(Byte) /\ <<>> \in Seq(Item) /\ Len(<<>>) = 0
  OBVIOUS
<1>2. MemType
  BY WordTypes DEF Init, MemType
<1>3. 0 \in Word
  BY Sizes DEF Word
<1>4. FrameTypes
  BY <1>1, <1>3, Products, Sizes DEF Init, FrameTypes
<1>5. RunTypes
  <2>1. 0 \in 0 .. TIMEOUT + 1 /\ 0 \in 0 .. RESP_IDLE /\ 0 \in 0 .. 3 /\ 0 \in 0 .. MAX_OUT
    BY Sizes
  <2> QED
    BY <2>1 DEF Init, RunTypes
<1>6. LineTypes
  BY <1>1, Sizes DEF Init, LineTypes
<1>7. StateTypes /\ Counted
  BY DEF Init, StateTypes, Counted
<1> QED
  BY <1>2, <1>4, <1>5, <1>6, <1>7 DEF Typed

LEMMA NextTyped == Typed /\ [Next]_vars => Typed'
<1> SUFFICES ASSUME Typed, [Next]_vars PROVE Typed'
  OBVIOUS
<1>1. CASE Next
  BY <1>1, IdleTyped, PauseTyped, ReceiveTyped, JudgeTyped, RespondTyped, MonitorTyped
     DEF Next
<1>2. CASE UNCHANGED vars
  <2>1. UNCHANGED <<st, gap, hbyte, fifo, txLeft, sent, mem, frameVars, clr, runVars,
                    st1, st2, stored>>
    BY <1>2 DEF vars, bridgeVars, frameVars, runVars
  <2>2. FrameTypes' /\ RunTypes'
    BY <2>1, FrameKept DEF Typed, RunTypes, runVars
  <2>3. LineTypes' /\ StateTypes' /\ MemType' /\ Counted'
    BY <2>1 DEF Typed, LineTypes, StateTypes, MemType, Counted, frameVars, runVars
  <2> QED
    BY <2>2, <2>3 DEF Typed
<1> QED
  BY <1>1, <1>2

(* Every register of the bridge keeps its width and the memory its shape,  *)
(* for all sizes and times; the output queue never outgrows its capacity    *)
(* (uart_bridge.sv:150).                                                   *)
THEOREM BridgeTypes == Spec => []TypeOK
<1>1. Typed => TypeOK
  BY Fields DEF Typed
<1> QED
  BY InitTyped, NextTyped, <1>1, PTL DEF Spec

-----------------------------------------------------------------------------
(* The memory image.                                                       *)

BlankWord == [n \in Lane |-> Blank]
Erased == \A w \in Word : mem[w] = BlankWord

(* A byte on the line never runs into the gap.                             *)
Paced ==
  /\ hbyte # 0 => st \in {"idle", "rx"}
  /\ st = "idle" /\ hbyte # 0 => gap = GAP
  /\ st = "rx" /\ hbyte # 0 => gap + hbyte <= GAP

(* The sweep starts at word 0 whenever the bridge becomes idle; while the  *)
(* first byte of a frame is on the line it has been round once.            *)
Erasing ==
  /\ st # "idle" => clr = 0
  /\ st = "idle" => \/ Erased
                    \/ /\ \A w \in Word : w < clr => mem[w] = BlankWord
                       /\ hbyte # 0 => clr + hbyte > BYTE

(* The memory after r payload bytes.                                       *)
Position(w, n) == (w - addr) * LANES + n
Received(r) ==
  [w \in Word |-> [n \in Lane |-> IF Position(w, n) \in 1 .. r THEN Position(w, n) ELSE Blank]]

Bytes(q, b) == [i \in 1 .. b |-> LANES * q + i]
(* q words have been written, the rest of r bytes waits in the buffer.     *)
Loaded(q, r) ==
  /\ r = LANES * q + Len(buf)
  /\ buf = Bytes(q, Len(buf))
  /\ waddr = (addr + q) % DEPTH
  /\ mem = Received(LANES * q)
LoadedSome(r) == \E q \in Nat : Loaded(q, r)
Loading ==
  /\ st = "rx" /\ cnt <= 2 => Erased
  /\ st = "rx" /\ cnt > 2 /\ PayloadWrite => LoadedSome(cnt - 3)
  /\ st = "check" /\ PayloadWrite => LoadedSome(len)

Imaged == Paced /\ Erasing /\ Loading /\ ImageExact

-----------------------------------------------------------------------------
(* Arithmetic.                                                             *)

LEMMA Multiples ==
  ASSUME NEW d \in Int, NEW q \in Int, NEW c \in Nat, d < q
  PROVE  d * c + c <= q * c /\ c * q = q * c /\ d * c \in Int /\ q * c \in Int
<1>1. \A e \in Nat, x \in Nat : e * x \in Nat
  OBVIOUS
<1>2. q - d - 1 \in Nat
  OBVIOUS
<1>3. (q - d - 1) * c \in Nat
  BY <1>1, <1>2
<1>4. (q - d - 1) * c = q * c - d * c - c
  OBVIOUS
<1>5. d * c \in Int /\ q * c \in Int /\ c * q = q * c
  OBVIOUS
<1> QED
  BY <1>3, <1>4, <1>5

LEMMA RemainderLow ==
  ASSUME NEW a \in Nat, a < DEPTH
  PROVE  a % DEPTH = a
<1>1. DEPTH \in Nat /\ DEPTH > 0
  BY Sizes
<1>2. \A d \in Nat : d > 0 /\ a < d => a % d = a
  OBVIOUS
<1> QED
  BY <1>1, <1>2

LEMMA Quotient ==
  ASSUME NEW a \in Nat, NEW e \in Nat, LANES * e <= a
  PROVE  e <= a \div LANES /\ a \div LANES \in Nat
<1>1. LANES \in Nat /\ LANES > 0
  BY Sizes
<1>2. /\ a = LANES * (a \div LANES) + (a % LANES)
      /\ a \div LANES \in Nat /\ a % LANES \in 0 .. LANES - 1
  <2>1. \A c \in Nat : c > 0 => /\ a = c * (a \div c) + (a % c)
                                /\ a \div c \in Nat /\ a % c \in 0 .. c - 1
    OBVIOUS
  <2> QED
    BY <1>1, <2>1
<1>3. CASE a \div LANES < e
  <2>1. (a \div LANES) * LANES + LANES <= e * LANES /\ LANES * e = e * LANES
    BY <1>1, <1>2, <1>3, Multiples
  <2>2. LANES * (a \div LANES) = (a \div LANES) * LANES
    BY <1>1, <1>2
  <2> DEFINE f == a \div LANES
             p == f * LANES
             g == e * LANES
             m == a % LANES
  <2>3. p \in Nat /\ g \in Nat /\ m \in 0 .. LANES - 1 /\ a = p + m /\ p + LANES <= g /\ g <= a
    BY <1>1, <1>2, <2>1, <2>2
  <2> HIDE DEF f, p, g, m
  <2> QED
    BY <1>1, <2>3
<1> QED
  BY <1>1, <1>2, <1>3

(* A word that still has a byte to come lies inside the memory.            *)
LEMMA WordInside ==
  ASSUME FrameTypes, PayloadWrite, NEW q \in Nat, LANES * q < len
  PROVE  /\ addr \in Nat /\ addr + q < DEPTH /\ addr + q \in Word
         /\ (addr + q) % DEPTH = addr + q
<1>1. addr \in {Outside} \cup 0 .. DEPTH /\ len \in Nat
  BY Products DEF FrameTypes
<1>2. addr # Outside /\ addr + Words(len) <= DEPTH
  <2>1. addr # Outside /\ ~(addr + Words(len) > DEPTH)
    BY DEF PayloadWrite, RangeBad
  <2>2. Words(len) \in Nat
    <3>1. len + LANES - 1 \in Nat /\ LANES * 0 = 0 /\ 0 <= len + LANES - 1
      BY <1>1, Sizes
    <3> QED
      BY <3>1, Quotient DEF Words
  <2> QED
    BY <1>1, <2>1, <2>2, Sizes
<1>3. addr \in Nat
  BY <1>1, <1>2, Sizes
<1>4. q + 1 <= Words(len) /\ Words(len) \in Nat
  <2>1. LANES * (q + 1) = LANES * q + LANES /\ LANES * q \in Nat
    BY Sizes
  <2>2. LANES * (q + 1) <= len + LANES - 1 /\ len + LANES - 1 \in Nat /\ q + 1 \in Nat
    BY <1>1, <2>1, Sizes
  <2> QED
    BY <2>2, Quotient DEF Words
<1>5. addr + q < DEPTH /\ addr + q \in Nat
  BY <1>2, <1>3, <1>4, Sizes
<1>6. addr + q \in Word
  BY <1>5, Sizes DEF Word
<1> QED
  BY <1>3, <1>5, <1>6, RemainderLow

LEMMA AppendByte ==
  ASSUME NEW q \in Nat, NEW b \in Nat
  PROVE  Append(Bytes(q, b), LANES * q + b + 1) = Bytes(q, b + 1)
<1>1. LANES * q \in Nat
  BY Sizes
<1> DEFINE c == LANES * q
<1>2. c \in Nat
  BY <1>1
<1> HIDE DEF c
<1>3. Append([i \in 1 .. b |-> c + i], c + b + 1) = [i \in 1 .. b + 1 |-> c + i]
  BY <1>2
<1> QED
  BY <1>3 DEF Bytes, c

(* Writing the buffer is receiving its bytes.                              *)
LEMMA PutReceived ==
  ASSUME NEW q \in Nat, NEW b \in 0 .. LANES, addr \in Nat, addr + q \in Word
  PROVE  Put(Received(LANES * q), addr + q, Bytes(q, b)) = Received(LANES * q + b)
<1> DEFINE old == Received(LANES * q)
           new == Received(LANES * q + b)
<1>1. LANES \in Nat /\ LANES > 0 /\ DEPTH \in Nat /\ b \in Nat /\ b <= LANES
  BY Sizes
<1>2. LANES * q \in Nat /\ LANES * q = q * LANES
  BY <1>1
<1>3. Len(Bytes(q, b)) = b /\ \A i \in 1 .. b : Bytes(q, b)[i] = LANES * q + i
  BY <1>1 DEF Bytes
<1>4. ASSUME NEW n \in Lane
      PROVE  (IF n <= b THEN Bytes(q, b)[n] ELSE old[addr + q][n]) = new[addr + q][n]
  <2>1. n \in Nat /\ n >= 1 /\ n <= LANES
    BY <1>1 DEF Lane
  <2>2. Position(addr + q, n) = LANES * q + n
    <3>1. (addr + q) - addr = q
      OBVIOUS
    <3> QED
      BY <1>2, <3>1 DEF Position
  <2>3. old[addr + q][n] = IF LANES * q + n \in 1 .. LANES * q THEN LANES * q + n ELSE Blank
    BY <2>2 DEF Received
  <2>4. new[addr + q][n] = IF LANES * q + n \in 1 .. LANES * q + b THEN LANES * q + n ELSE Blank
    BY <2>2 DEF Received
  <2> HIDE DEF old, new
  <2>5. CASE n <= b
    <3>1. LANES * q + n \in 1 .. LANES * q + b
      BY <1>1, <1>2, <2>1, <2>5
    <3>2. Bytes(q, b)[n] = LANES * q + n
      BY <1>1, <1>3, <2>1, <2>5
    <3> QED
      BY <2>4, <2>5, <3>1, <3>2
  <2>6. CASE ~(n <= b)
    <3>1. LANES * q + n \notin 1 .. LANES * q + b /\ LANES * q + n \notin 1 .. LANES * q
      BY <1>1, <1>2, <2>1, <2>6
    <3> QED
      BY <2>3, <2>4, <2>6, <3>1
  <2> QED
    BY <2>5, <2>6
<1>5. ASSUME NEW w \in Word, w # addr + q
      PROVE  old[w] = new[w]
  <2>1. ASSUME NEW n \in Lane
        PROVE  Position(w, n) \in 1 .. LANES * q <=> Position(w, n) \in 1 .. LANES * q + b
    <3>1. n \in Nat /\ n >= 1 /\ n <= LANES /\ w \in Nat
      BY <1>1 DEF Lane, Word
    <3> DEFINE d == w - addr
               p == d * LANES
               g == LANES * q
    <3>2. d \in Int /\ d # q /\ q \in Int
      BY <1>5, <3>1
    <3>3. p \in Int /\ g \in Nat /\ g = q * LANES
      BY <1>1, <1>2, <3>2
    <3>4. d < q => p + LANES <= g
      BY <1>1, <3>2, <3>3, Multiples
    <3>5. q < d => g + LANES <= p
      BY <1>1, <3>2, <3>3, Multiples
    <3>6. Position(w, n) = p + n
      BY DEF Position
    <3>7. d < q \/ q < d
      BY <3>2
    <3> HIDE DEF d, p
    <3>8. g = LANES * q
      OBVIOUS
    <3> HIDE DEF g
    <3>9. p + n \in 1 .. g <=> p + n \in 1 .. g + b
      BY <1>1, <3>1, <3>3, <3>4, <3>5, <3>7
    <3> QED
      BY <3>6, <3>8, <3>9
  <2> QED
    BY <2>1 DEF Received
<1> DEFINE line == [n \in Lane |-> IF n <= b THEN Bytes(q, b)[n] ELSE old[addr + q][n]]
<1>6. Put(old, addr + q, Bytes(q, b)) = [old EXCEPT ![addr + q] = line]
  BY <1>3 DEF Put
<1>7. line = new[addr + q]
  <2>1. new[addr + q] = [n \in Lane |-> new[addr + q][n]]
    BY DEF Received
  <2> HIDE DEF old, new
  <2> QED
    BY <1>4, <2>1
<1>8. old = [w \in Word |-> old[w]] /\ new = [w \in Word |-> new[w]]
  BY DEF Received
<1> HIDE DEF old, new, line
<1>9. [old EXCEPT ![addr + q] = line] = new
  BY <1>5, <1>7, <1>8
<1> QED
  BY <1>6, <1>9 DEF old, new

LEMMA NothingReceived ==
  ASSUME MemType, Erased
  PROVE  mem = Received(0)
<1>1. \A w \in Word : Received(0)[w] = BlankWord
  BY DEF Received, BlankWord
<1>2. Received(0) = [w \in Word |-> Received(0)[w]] /\ mem = [w \in Word |-> mem[w]]
  BY DEF Received, MemType
<1> QED
  BY <1>1, <1>2 DEF Erased

LEMMA AllReceived == Image = Received(len)
BY DEF Image, Received, Position

-----------------------------------------------------------------------------
(* The states.                                                             *)

(* A cycle of the line.                                                    *)
LEMMA LineStep ==
  ASSUME LineTypes, Line
  PROVE  /\ hbyte \in Nat /\ gap \in 0 .. GAP /\ hbyte' \in Nat /\ gap' \in 0 .. GAP
         /\ Rx => hbyte' = 0
         /\ hbyte' # 0 => \/ hbyte > 1 /\ hbyte' = hbyte - 1
                          \/ hbyte = 0 /\ hbyte' = BYTE /\ MayStart
         /\ ~Rx => gap' = IF gap < GAP THEN gap + 1 ELSE gap
         /\ ~Rx /\ IdleReset => gap = GAP /\ gap' = GAP
<1>1. hbyte \in 0 .. BYTE /\ gap \in 0 .. GAP
  BY DEF LineTypes
<1>2. \/ hbyte > 0 /\ hbyte' = hbyte - 1
      \/ hbyte = 0 /\ hbyte' = 0
      \/ hbyte = 0 /\ MayStart /\ hbyte' = BYTE
  BY DEF Line
<1>3. gap' = IF Rx THEN 0 ELSE IF gap < GAP THEN gap + 1 ELSE gap
  BY DEF Line
<1>4. hbyte' \in Nat /\ (Rx => hbyte' = 0)
  BY <1>1, <1>2, Sizes DEF Rx
<1>5. hbyte' # 0 => \/ hbyte > 1 /\ hbyte' = hbyte - 1
                    \/ hbyte = 0 /\ hbyte' = BYTE /\ MayStart
  BY <1>1, <1>2, Sizes
<1>6. gap' \in 0 .. GAP
  BY <1>1, <1>3, Sizes
<1>7. IdleReset => gap = GAP
  BY <1>1, Sizes DEF IdleReset
<1> QED
  BY <1>1, <1>3, <1>4, <1>5, <1>6, <1>7, Sizes

(* Outside of idle and rx no byte is on the line, and none begins.         *)
LEMMA SilentStep ==
  ASSUME LineTypes, Line, Paced, st \notin {"idle", "rx"}
  PROVE  hbyte = 0 /\ hbyte' = 0
<1>1. hbyte = 0
  BY DEF Paced
<1>2. ~MayStart
  BY DEF MayStart
<1> QED
  BY <1>1, <1>2, LineStep

(* In rx a byte that is on the line arrives before the gap is over.        *)
LEMMA FrameStep ==
  ASSUME LineTypes, Line, Paced, st = "rx"
  PROVE  /\ Rx => ~IdleReset /\ hbyte' = 0
         /\ IdleReset => hbyte' = 0
         /\ hbyte' # 0 => gap' + hbyte' <= GAP
<1>1. /\ hbyte \in Nat /\ gap \in 0 .. GAP /\ gap \in Nat
      /\ hbyte # 0 => gap + hbyte <= GAP
  BY LineStep, Sizes DEF Paced
<1>2. Rx => gap < GAP /\ hbyte' = 0
  BY <1>1, LineStep, Sizes DEF Rx
<1>3. MayStart => gap + BYTE < GAP
  BY DEF MayStart
<1>4. IdleReset => gap = GAP
  BY <1>1, Sizes DEF IdleReset
<1>5. IdleReset => hbyte' = 0
  <2> SUFFICES ASSUME IdleReset, hbyte' # 0 PROVE FALSE
    OBVIOUS
  <2>1. gap = GAP
    BY <1>4
  <2>2. hbyte > 1 \/ MayStart
    BY LineStep
  <2> QED
    BY <1>1, <1>3, <2>1, <2>2, Sizes
<1>6. ASSUME hbyte' # 0 PROVE gap' + hbyte' <= GAP
  <2>1. ~Rx
    BY <1>6, LineStep
  <2>2. gap' = IF gap < GAP THEN gap + 1 ELSE gap
    BY <2>1, LineStep
  <2>3. CASE hbyte > 1 /\ hbyte' = hbyte - 1
    BY <1>1, <2>2, <2>3, Sizes
  <2>4. CASE hbyte = 0 /\ hbyte' = BYTE /\ MayStart
    BY <1>1, <1>3, <2>2, <2>4, Sizes
  <2> QED
    BY <1>6, <2>3, <2>4, LineStep
<1> QED
  BY <1>2, <1>4, <1>5, <1>6, Sizes

LEMMA IdleImaged ==
  ASSUME Typed, Imaged, Idle PROVE Imaged'
<1>1. /\ FrameTypes /\ LineTypes /\ MemType /\ st = "idle" /\ Line
      /\ Paced /\ Erasing /\ clr \in Word
  BY DEF Typed, Imaged, Idle, FrameTypes
<1>2. /\ hbyte \in Nat /\ gap \in 0 .. GAP /\ gap \in Nat
      /\ hbyte # 0 => gap = GAP
  BY <1>1, LineStep, Sizes DEF Paced
<1>3. FrameStart <=> Rx
  BY <1>2, Sizes DEF FrameStart, IdleReset, Rx
<1>4. clr \in Nat /\ clr < DEPTH
  BY <1>1, Sizes DEF Word
<1>5. CASE Rx
  <2>1. Erased
    <3>1. hbyte = 1 /\ BYTE >= DEPTH
      BY <1>5, SweepAssumption DEF Rx
    <3>2. ~(clr + hbyte > BYTE)
      BY <1>4, <3>1, Sizes
    <3> QED
      BY <1>1, <3>1, <3>2 DEF Erasing
  <2>2. st' = "rx" /\ cnt' = 1 /\ clr' = 0 /\ mem' = mem
    BY <1>3, <1>5 DEF Idle
  <2>3. hbyte' = 0
    BY <1>1, <1>5, LineStep
  <2>4. Paced'
    BY <2>3 DEF Paced
  <2>5. Erasing'
    BY <2>2 DEF Erasing
  <2>6. Loading'
    BY <2>1, <2>2 DEF Loading, Erased, BlankWord
  <2>7. ImageExact'
    BY <2>2 DEF ImageExact
  <2> QED
    BY <2>4, <2>5, <2>6, <2>7 DEF Imaged
<1>6. CASE ~Rx
  <2>1. st' = "idle" /\ clr' = (clr + 1) % DEPTH /\ mem' = Swept
    BY <1>1, <1>3, <1>6 DEF Idle
  <2>2. hbyte' # 0 => gap' = GAP
    <3>1. MayStart => IdleReset
      BY <1>1 DEF MayStart
    <3>2. hbyte' # 0 => gap = GAP
      <4>1. IdleReset => gap = GAP
        BY <1>2, Sizes DEF IdleReset
      <4> QED
        BY <1>1, <1>2, <3>1, <4>1, LineStep
    <3> QED
      BY <1>1, <1>6, <3>2, LineStep
  <2>3. Paced'
    BY <2>1, <2>2 DEF Paced
  <2>4. \A w \in Word : mem'[w] = IF w = clr THEN BlankWord ELSE mem[w]
    BY <1>1, <2>1 DEF MemType, Swept, BlankWord
  <2>5. Erasing'
    <3>1. Erased => Erased'
      BY <2>4 DEF Erased, BlankWord
    <3>2. ASSUME ~Erased
          PROVE  /\ \A w \in Word : w < clr => mem[w] = BlankWord
                 /\ hbyte # 0 => clr + hbyte > BYTE
      BY <1>1, <3>2 DEF Erasing
    <3>3. ASSUME ~Erased, clr + 1 < DEPTH
          PROVE  /\ \A w \in Word : w < clr' => mem'[w] = BlankWord
                 /\ hbyte' # 0 => clr' + hbyte' > BYTE
      <4>1. clr' = clr + 1
        BY <1>4, <2>1, <3>3, RemainderLow
      <4>2. ASSUME NEW w \in Word, w < clr' PROVE mem'[w] = BlankWord
        <5>1. w \in Nat
          BY Sizes DEF Word
        <5>2. w = clr \/ w < clr
          BY <1>4, <4>1, <4>2, <5>1
        <5> QED
          BY <2>4, <3>2, <3>3, <5>2
      <4>3. hbyte' # 0 => clr' + hbyte' > BYTE
        <5>1. hbyte' # 0 => \/ hbyte > 1 /\ hbyte' = hbyte - 1
                            \/ hbyte' = BYTE
          BY <1>1, LineStep
        <5>2. hbyte # 0 => clr + hbyte > BYTE
          BY <3>2, <3>3
        <5> QED
          BY <1>2, <1>4, <4>1, <5>1, <5>2, Sizes
      <4> QED
        BY <4>2, <4>3
    <3>4. ASSUME ~Erased, ~(clr + 1 < DEPTH) PROVE Erased'
      <4>1. ASSUME NEW w \in Word PROVE mem'[w] = BlankWord
        <5>1. w \in Nat /\ w < DEPTH
          BY Sizes DEF Word
        <5>2. w = clr \/ w < clr
          BY <1>4, <3>4, <5>1, Sizes
        <5> QED
          BY <2>4, <3>2, <3>4, <5>2
      <4> QED
        BY <4>1 DEF Erased, BlankWord
    <3>5. BlankWord' = BlankWord
      BY DEF BlankWord
    <3> QED
      BY <2>1, <3>1, <3>3, <3>4, <3>5 DEF Erasing
  <2>6. Loading' /\ ImageExact'
    BY <2>1 DEF Loading, ImageExact
  <2> QED
    BY <2>3, <2>5, <2>6 DEF Imaged
<1> QED
  BY <1>5, <1>6

LEMMA PauseImaged ==
  ASSUME Typed, Imaged, Pause PROVE Imaged'
<1>1. /\ LineTypes /\ st = "rx" /\ Line /\ Paced /\ Erasing /\ Loading
  BY DEF Typed, Imaged, Pause
<1>2. /\ UNCHANGED <<frameVars, mem, clr>>
      /\ \/ st' = "rx"
         \/ st' = "idle" /\ IdleReset
  BY DEF Pause
<1>3. UNCHANGED <<cnt, exec, addr, len, buf, waddr, mem, clr>>
  BY <1>2 DEF frameVars
<1>4. Paced'
  BY <1>1, <1>2, FrameStep DEF Paced
<1>5. Erasing'
  <2>1. clr' = 0
    BY <1>1, <1>2 DEF Erasing
  <2>2. st' = "idle" => hbyte' = 0
    BY <1>1, <1>2, FrameStep
  <2>3. \A w \in Word : ~(w < 0)
    BY Sizes DEF Word
  <2> QED
    BY <2>1, <2>2, <2>3 DEF Erasing
<1>6. Loading'
  <2>1. Erased' <=> Erased
    BY <1>3 DEF Erased, BlankWord
  <2>2. PayloadWrite' <=> PayloadWrite
    BY <1>3 DEF PayloadWrite, RangeBad, Words
  <2>3. LoadedSome(cnt - 3)' <=> LoadedSome(cnt - 3)
    BY <1>3 DEF LoadedSome, Loaded, Received, Position, Bytes
  <2> QED
    BY <1>1, <1>2, <1>3, <2>1, <2>2, <2>3 DEF Loading
<1>7. ImageExact'
  BY <1>2 DEF ImageExact
<1> QED
  BY <1>4, <1>5, <1>6, <1>7 DEF Imaged

LEMMA LengthLoaded ==
  ASSUME Typed, Loading, Length, cnt' = cnt + 1, exec' = exec, st = "rx", PayloadWrite'
  PROVE  LoadedSome(cnt - 3)'
<1>1. /\ FrameTypes /\ MemType /\ cnt = 2 /\ buf' = <<>> /\ mem' = mem /\ addr' = addr
      /\ waddr' = (IF addr = Outside THEN 0 ELSE addr) % DEPTH
  BY DEF Typed, Length
<1>2. Erased
  BY <1>1 DEF Loading
<1>3. addr # Outside
  BY <1>1 DEF PayloadWrite, RangeBad
<1>4. addr \in Nat
  BY <1>1, <1>3, Sizes DEF FrameTypes
<1>5. mem = Received(0)
  BY <1>1, <1>2, NothingReceived
<1>6. Received(0)' = Received(0)
  BY <1>1 DEF Received, Position
<1>7. LANES * 0 = 0 /\ Len(<<>>) = 0
  BY Sizes
<1>8. Bytes(0, 0) = <<>>
  BY DEF Bytes
<1>9. Loaded(0, 0)'
  <2>1. 0 = LANES * 0 + Len(buf')
    BY <1>1, <1>7
  <2>2. buf' = Bytes(0, Len(buf'))
    BY <1>1, <1>7, <1>8
  <2>3. addr + 0 = addr
    BY <1>4
  <2>4. waddr' = (addr' + 0) % DEPTH
    BY <1>1, <1>3, <2>3
  <2>5. mem' = Received(LANES * 0)'
    <3>1. Received(LANES * 0)' = Received(0)'
      BY <1>7 DEF Received
    <3> QED
      BY <1>1, <1>5, <1>6, <3>1
  <2> QED
    BY <2>1, <2>2, <2>4, <2>5 DEF Loaded, Bytes
<1>10. cnt' - 3 = 0
  BY <1>1
<1> QED
  BY <1>9, <1>10 DEF LoadedSome

LEMMA PayloadLoaded ==
  ASSUME Typed, Loading, Payload, cnt' = cnt + 1, exec' = exec, st = "rx", PayloadWrite
  PROVE  LoadedSome(cnt - 3)'
<1>1. /\ FrameTypes /\ cnt > 2 /\ cnt - 3 < len /\ addr' = addr
      /\ cnt \in Nat /\ len \in Nat
  BY Products DEF Typed, Payload, FrameTypes
<1>2. PICK q \in Nat : Loaded(q, cnt - 3)
  BY <1>1 DEF Loading, LoadedSome
<1> DEFINE b == Len(buf)
<1>3. /\ cnt - 3 = LANES * q + b /\ buf = Bytes(q, b) /\ waddr = (addr + q) % DEPTH
      /\ mem = Received(LANES * q)
  BY <1>2 DEF Loaded
<1>4. b \in Nat /\ b < LANES /\ LANES \in Nat /\ LANES > 0
  BY <1>1, Sizes DEF FrameTypes
<1>5. LANES * q \in Nat /\ LANES * (q + 1) = LANES * q + LANES
  BY <1>4
<1>6. LANES * q < len
  BY <1>1, <1>3, <1>4, <1>5
<1>7. /\ addr \in Nat /\ addr + q < DEPTH /\ addr + q \in Word
      /\ (addr + q) % DEPTH = addr + q
  BY <1>1, <1>6, WordInside
<1>8. Append(buf, cnt - 2) = Bytes(q, b + 1)
  <2>1. cnt - 2 = LANES * q + b + 1
    BY <1>1, <1>3, <1>4, <1>5
  <2> QED
    BY <1>3, <1>4, <2>1, AppendByte
<1>9. CASE b = LANES - 1
  <2>1. mem' = Put(mem, waddr, Append(buf, cnt - 2)) /\ waddr' = (waddr + 1) % DEPTH
        /\ buf' = <<>>
    BY <1>9 DEF Payload
  <2>2. b + 1 = LANES /\ b + 1 \in 0 .. LANES
    BY <1>4, <1>9
  <2>3. mem' = Put(Received(LANES * q), addr + q, Bytes(q, b + 1))
    BY <1>3, <1>7, <1>8, <2>1
  <2>4. mem' = Received(LANES * q + (b + 1))
    BY <1>7, <2>2, <2>3, PutReceived
  <2>5. mem' = Received(LANES * (q + 1))
    BY <1>5, <2>2, <2>4
  <2>6. Received(LANES * (q + 1))' = Received(LANES * (q + 1))
    BY <1>1 DEF Received, Position
  <2>7. waddr' = (addr' + (q + 1)) % DEPTH
    <3>1. waddr + 1 = addr' + (q + 1)
      BY <1>1, <1>3, <1>7
    <3> QED
      BY <2>1, <3>1
  <2>8. Len(<<>>) = 0
    OBVIOUS
  <2>9. Bytes(q + 1, 0) = <<>>
    BY DEF Bytes
  <2>10. buf' = Bytes(q + 1, Len(buf'))
    BY <2>1, <2>8, <2>9
  <2>11. cnt' - 3 = LANES * (q + 1) + Len(buf')
    <3> DEFINE p == LANES * q
    <3>1. p \in Nat /\ LANES * (q + 1) = p + LANES /\ cnt - 3 = p + b
      BY <1>3, <1>5
    <3>2. Len(buf') = 0 /\ cnt' - 3 = (cnt - 3) + 1
      BY <1>1, <2>1, <2>8
    <3> HIDE DEF p
    <3> QED
      BY <1>4, <2>2, <3>1, <3>2
  <2>12. Loaded(q + 1, cnt - 3)'
    BY <2>5, <2>6, <2>7, <2>10, <2>11 DEF Loaded, Bytes
  <2>13. q + 1 \in Nat
    OBVIOUS
  <2> QED
    BY <2>12, <2>13 DEF LoadedSome
<1>10. CASE b # LANES - 1
  <2>1. mem' = mem /\ waddr' = waddr /\ buf' = Bytes(q, b + 1)
    BY <1>8, <1>10 DEF Payload
  <2>2. Len(buf') = b + 1
    BY <1>4, <2>1 DEF Bytes
  <2>3. Received(LANES * q)' = Received(LANES * q)
    BY <1>1 DEF Received, Position
  <2>4. cnt' - 3 = LANES * q + Len(buf')
    BY <1>1, <1>3, <1>4, <1>5, <2>2
  <2>5. Loaded(q, cnt - 3)'
    <3>1. waddr' = (addr' + q) % DEPTH /\ mem' = Received(LANES * q)'
      BY <1>1, <1>3, <2>1, <2>3
    <3>2. buf' = Bytes(q, Len(buf'))
      BY <2>1, <2>2
    <3> QED
      BY <2>4, <3>1, <3>2 DEF Loaded, Bytes
  <2> QED
    BY <2>5 DEF LoadedSome
<1> QED
  BY <1>9, <1>10

LEMMA ReceiveImaged ==
  ASSUME Typed, Imaged, Receive PROVE Imaged'
<1>1. /\ FrameTypes /\ LineTypes /\ MemType /\ st = "rx" /\ Rx /\ Line
      /\ Paced /\ Erasing /\ Loading /\ cnt \in Nat /\ len \in Nat
      /\ cnt >= 1 /\ (cnt > 2 => cnt - 3 <= len)
  BY Products DEF Typed, Imaged, Receive, FrameTypes, Counted
<1>2. hbyte' = 0 /\ ~IdleReset
  BY <1>1, FrameStep
<1>3. cnt' = cnt + 1 /\ exec' = exec /\ clr' = clr
  BY DEF Receive
<1>4. st' = IF cnt > 2 /\ cnt - 3 = len THEN "check" ELSE "rx"
  BY <1>2 DEF Receive
<1>5. Paced'
  BY <1>2 DEF Paced
<1>6. Erasing'
  BY <1>1, <1>3, <1>4 DEF Erasing
<1>7. Loading'
  <2>1. CASE Address
    <3>1. cnt = 1 /\ mem' = mem
      BY <2>1 DEF Address
    <3>2. st' = "rx" /\ cnt' = 2 /\ Erased
      BY <1>1, <1>3, <1>4, <3>1 DEF Loading
    <3> QED
      BY <3>1, <3>2 DEF Loading, Erased, BlankWord
  <2>2. CASE Length
    <3>1. st' = "rx" /\ cnt' = 3
      BY <1>3, <1>4, <2>2 DEF Length
    <3>2. PayloadWrite' => LoadedSome(cnt - 3)'
      BY <1>1, <1>3, <2>2, LengthLoaded
    <3> QED
      BY <3>1, <3>2 DEF Loading
  <2>3. CASE Payload
    <3>1. cnt > 2 /\ cnt - 3 < len /\ addr' = addr /\ len' = len
      BY <2>3 DEF Payload
    <3>2. st' = "rx" /\ ~(cnt' <= 2)
      BY <1>1, <1>3, <1>4, <3>1
    <3>3. PayloadWrite' <=> PayloadWrite
      BY <1>3, <3>1 DEF PayloadWrite, RangeBad, Words
    <3>4. PayloadWrite => LoadedSome(cnt - 3)'
      BY <1>1, <1>3, <2>3, PayloadLoaded
    <3> QED
      BY <3>2, <3>3, <3>4 DEF Loading
  <2>4. CASE Checksum
    <3>1. cnt > 2 /\ cnt - 3 = len /\ UNCHANGED <<addr, len, waddr, buf, mem>>
      BY <2>4 DEF Checksum
    <3>2. st' = "check"
      BY <1>4, <3>1
    <3>3. PayloadWrite' <=> PayloadWrite
      BY <1>3, <3>1 DEF PayloadWrite, RangeBad, Words
    <3>4. PayloadWrite => LoadedSome(len)
      BY <1>1, <3>1 DEF Loading
    <3>5. LoadedSome(len)' <=> LoadedSome(len)
      BY <3>1 DEF LoadedSome, Loaded, Received, Position, Bytes
    <3> QED
      BY <3>2, <3>3, <3>4, <3>5 DEF Loading
  <2> QED
    BY <2>1, <2>2, <2>3, <2>4 DEF Receive
<1>8. ImageExact'
  BY <1>4 DEF ImageExact
<1> QED
  BY <1>5, <1>6, <1>7, <1>8 DEF Imaged

(* The frame is good: what is left in the buffer completes the image.      *)
LEMMA CheckImage ==
  ASSUME Typed, Loading, Check, st' = "release" PROVE mem' = Image
<1>1. /\ FrameTypes /\ st = "check" /\ PayloadWrite
      /\ mem' = IF buf # <<>> THEN Put(mem, waddr, buf) ELSE mem
  <2>1. sumOk /\ exec /\ ~RangeBad
    BY DEF Check
  <2> QED
    BY <2>1 DEF Typed, Check, PayloadWrite
<1>2. PICK q \in Nat : Loaded(q, len)
  BY <1>1 DEF Loading, LoadedSome
<1> DEFINE b == Len(buf)
<1>3. /\ len = LANES * q + b /\ buf = Bytes(q, b) /\ waddr = (addr + q) % DEPTH
      /\ mem = Received(LANES * q)
  BY <1>2 DEF Loaded
<1>4. b \in Nat /\ b < LANES /\ LANES \in Nat /\ LANES > 0 /\ LANES * q \in Nat
  BY <1>1, Sizes DEF FrameTypes
<1>5. CASE buf = <<>>
  <2>1. b = 0
    BY <1>5
  <2>2. len = LANES * q
    BY <1>3, <1>4, <2>1
  <2> QED
    BY <1>1, <1>3, <1>5, <2>2, AllReceived
<1>6. CASE buf # <<>>
  <2>1. b # 0
    <3>1. buf \in Seq(Byte)
      BY <1>1 DEF FrameTypes
    <3> QED
      BY <1>6, <3>1
  <2>2. LANES * q < len
    BY <1>3, <1>4, <2>1
  <2>3. addr \in Nat /\ addr + q \in Word /\ waddr = addr + q
    BY <1>1, <1>3, <2>2, WordInside
  <2>4. mem' = Put(Received(LANES * q), addr + q, Bytes(q, b))
    BY <1>1, <1>3, <1>6, <2>3
  <2>5. b \in 0 .. LANES
    BY <1>4
  <2>6. mem' = Received(LANES * q + b)
    BY <2>3, <2>4, <2>5, PutReceived
  <2> QED
    BY <1>3, <2>6, AllReceived
<1> QED
  BY <1>5, <1>6

LEMMA RestImaged ==
  ASSUME Typed, Imaged,
         Check \/ Release \/ Drain \/ Respond \/ \E trap \in BOOLEAN : Monitor(trap)
  PROVE  Imaged'
<1>1. /\ LineTypes /\ Paced /\ Erasing /\ Loading
  BY DEF Typed, Imaged
<1>2. /\ st \notin {"idle", "rx"} /\ Line /\ clr' = clr
      /\ st' \in {"release", "monitor", "drain", "resp", "idle"}
      /\ st' = "release" => Check
  <2>1. CASE Check
    BY <2>1 DEF Check
  <2>2. CASE Release
    BY <2>2 DEF Release
  <2>3. CASE Drain
    BY <2>3 DEF Drain
  <2>4. CASE Respond
    BY <2>4 DEF Respond
  <2>5. CASE \E trap \in BOOLEAN : Monitor(trap)
    BY <2>5 DEF Monitor
  <2> QED
    BY <2>1, <2>2, <2>3, <2>4, <2>5
<1>3. hbyte' = 0
  BY <1>1, <1>2, SilentStep
<1>4. clr' = 0 /\ \A w \in Word : ~(w < 0)
  BY <1>1, <1>2, Sizes DEF Erasing, Word
<1>5. Paced' /\ Erasing'
  BY <1>3, <1>4 DEF Paced, Erasing
<1>6. Loading'
  BY <1>2 DEF Loading
<1>7. ImageExact'
  <2> SUFFICES ASSUME st' = "release" PROVE mem' = Image'
    BY DEF ImageExact
  <2>1. Check
    BY <1>2
  <2>2. Image' = Image
    BY <2>1 DEF Check, Image, frameVars
  <2> QED
    BY <1>1, <2>1, <2>2, CheckImage
<1> QED
  BY <1>5, <1>6, <1>7 DEF Imaged

LEMMA InitImaged == Init => Imaged
<1> SUFFICES ASSUME Init PROVE Imaged
  OBVIOUS
<1>1. Erased
  BY DEF Init, Erased, BlankWord
<1> QED
  BY <1>1 DEF Init, Imaged, Paced, Erasing, Loading, ImageExact

LEMMA NextImaged == Typed /\ Imaged /\ [Next]_vars => Imaged'
<1> SUFFICES ASSUME Typed, Imaged, [Next]_vars PROVE Imaged'
  OBVIOUS
<1>1. CASE Next
  BY <1>1, IdleImaged, PauseImaged, ReceiveImaged, RestImaged DEF Next
<1>2. CASE UNCHANGED vars
  <2>1. UNCHANGED <<st, gap, hbyte, mem, cnt, exec, addr, len, buf, waddr, clr>>
    BY <1>2 DEF vars, bridgeVars
  <2>2. Paced' /\ Erasing'
    BY <2>1 DEF Imaged, Paced, Erasing, Erased, BlankWord
  <2>3. Loading' /\ ImageExact'
    <3>1. Erased' <=> Erased
      BY <2>1 DEF Erased, BlankWord
    <3>2. PayloadWrite' <=> PayloadWrite
      BY <2>1 DEF PayloadWrite, RangeBad, Words
    <3>3. /\ LoadedSome(cnt - 3)' <=> LoadedSome(cnt - 3)
          /\ LoadedSome(len)' <=> LoadedSome(len)
      BY <2>1 DEF LoadedSome, Loaded, Received, Position, Bytes
    <3>4. Image' = Image
      BY <2>1 DEF Image
    <3> QED
      BY <2>1, <3>1, <3>2, <3>3, <3>4 DEF Imaged, Loading, ImageExact
  <2> QED
    BY <2>2, <2>3 DEF Imaged
<1> QED
  BY <1>1, <1>2

(* When the core is released, every byte of memory is the frame's or blank, *)
(* for every size of the memory and of a word, every place and length of    *)
(* the payload, and whatever ran, failed or was abandoned before: the sweep *)
(* has been round before the first byte, because a byte takes as long as a  *)
(* sweep (uart_bridge.sv:226).                                              *)
THEOREM ImageCorrect == Spec => []ImageExact
<1>1. Typed /\ Imaged => ImageExact
  BY DEF Imaged
<1>2. Init => Typed /\ Imaged
  BY InitTyped, InitImaged
<1>3. (Typed /\ Imaged) /\ [Next]_vars => (Typed /\ Imaged)'
  BY NextTyped, NextImaged
<1> QED
  BY <1>1, <1>2, <1>3, PTL DEF Spec
=============================================================================
