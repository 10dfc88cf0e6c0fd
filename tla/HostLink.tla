------------------------------ MODULE HostLink ------------------------------
(***************************************************************************)
(* The serial line between a script and the board: run_fpga_compare.py and  *)
(* send_frame.py send one frame and read what comes back.  The bridge is    *)
(* reduced to what the host can tell: it takes a frame only when it is      *)
(* idle, answers with the bytes of one run, its output and the response     *)
(* frame, and ignores the line meanwhile (UartBridge has the details).      *)
(***************************************************************************)
EXTENDS Integers, Sequences

CONSTANTS
  ReadMax,     \* bound: bytes one ser.read returns (256)
  LinkTicks,   \* --timeout, in ticks
  SilenceMax,  \* silent reads after which send_frame may stop (50)
  PauseMax     \* silent reads within one answer: the bridge ends a run after 1 s

(* Five seconds of silence outlast every pause of the board.               *)
ASSUME PauseAssumption == PauseMax < SilenceMax
ASSUME TicksAssumption == {ReadMax, LinkTicks, SilenceMax, PauseMax} \subseteq Nat

VARIABLES
  busy,        \* bytes the bridge still has to send
  open,        \* the port is open
  wire,        \* bytes received by the port and not yet read
  rx,          \* what the script has read
  linkLeft,    \* ticks to the deadline
  silence,     \* silence_count; of compare, nothing
  mine         \* history: the answer to the frame of this run of the script

linkVars == <<busy, open, wire, rx, linkLeft, silence, mine>>

RESP_CMD == 2
STATUS_OK == 0
Xor1(a, b) == (a + b) % 2
Xor2(a, b) == Xor1(a % 2, b % 2) + 2 * Xor1((a \div 2) % 2, (b \div 2) % 2)
Response(status) == <<RESP_CMD, status, Xor2(RESP_CMD, status)>>

LinkInit ==
  /\ busy = <<>> /\ open = FALSE /\ wire = <<>> /\ rx = <<>>
  /\ linkLeft = 0 /\ silence = 0 /\ mine = <<>>

(* A byte from the board.  With the port closed it is lost.                *)
BoardByte ==
  /\ busy # <<>> /\ busy' = Tail(busy)
  /\ wire' = IF open THEN Append(wire, Head(busy)) ELSE wire
  /\ UNCHANGED <<open, rx, linkLeft, silence, mine>>

(* serial.Serial, reset_input_buffer *)
OpenPort ==
  /\ open' = TRUE /\ wire' = <<>> /\ rx' = <<>> /\ mine' = <<>>
  /\ UNCHANGED <<busy, linkLeft, silence>>

(* ser.write(frame), and the frame at the bridge: it is taken if the bridge *)
(* listens, and answered (not at all if it was garbled at the start).       *)
Send(answers) ==
  /\ \/ /\ busy = <<>>
        /\ \E a \in answers \cup {<<>>} : busy' = a /\ mine' = a
     \/ busy # <<>> /\ UNCHANGED <<busy, mine>>
  /\ linkLeft' = LinkTicks /\ silence' = 0
  /\ UNCHANGED <<open, wire, rx>>

LinkTick ==
  /\ linkLeft > 0 /\ linkLeft' = linkLeft - 1
  /\ UNCHANGED <<busy, open, wire, rx, silence, mine>>

(* mutation: the port stays open when the loop is left *)
ClosePortNot == wire' = <<>> /\ linkLeft' = 0 /\ silence' = 0 /\ UNCHANGED open
ClosePort == open' = FALSE /\ wire' = <<>> /\ linkLeft' = 0 /\ silence' = 0

-----------------------------------------------------------------------------
(* run_fpga_compare.py *)

(* The places where three bytes look like a response, and the last of them. *)
Marks(b, min) ==
  {k \in 1 .. Len(b) - 2 : k > min /\ b[k] = RESP_CMD /\ b[k + 2] = Xor2(RESP_CMD, b[k + 1])}
(* mutation: the expected length is not used *)
FindAnywhere(b, min) ==
  IF Marks(b, 0) = {} THEN 0 ELSE CHOOSE k \in Marks(b, 0) : \A j \in Marks(b, 0) : j <= k
FindResponse(b, min) ==
  IF Marks(b, min) = {} THEN 0
  ELSE CHOOSE k \in Marks(b, min) : \A j \in Marks(b, min) : j <= k

(* One turn of the receive loop that does not end it.                      *)
Receive(min) ==
  /\ linkLeft > 0 /\ wire # <<>> /\ FindResponse(rx, min) = 0
  /\ LET n == IF Len(wire) < ReadMax THEN Len(wire) ELSE ReadMax
     IN  rx' = rx \o SubSeq(wire, 1, n) /\ wire' = SubSeq(wire, n + 1, Len(wire))
  /\ UNCHANGED <<busy, open, linkLeft, silence, mine>>

ReceiveEnds(min) == linkLeft = 0 \/ FindResponse(rx, min) # 0

(* After the loop: what main makes of it.                                  *)
Verdict(expected) ==
  LET k == FindResponse(rx, Len(expected))
  IN  CASE k = 0 -> "noresponse"
        [] k # 0 /\ rx[k + 1] # STATUS_OK -> "status"
        [] k # 0 /\ rx[k + 1] = STATUS_OK /\ SubSeq(rx, 1, k - 1) # expected -> "mismatch"
        [] OTHER -> "pass"

-----------------------------------------------------------------------------
(* send_frame.py: a byte at a time, until long silence after the timeout.   *)

ReadByte ==
  /\ wire # <<>> /\ rx' = Append(rx, Head(wire)) /\ wire' = Tail(wire)
  /\ silence' = 0
  /\ UNCHANGED <<busy, open, linkLeft, mine>>

SilenceOver == silence > SilenceMax /\ linkLeft = 0

ReadNothing ==
  /\ wire = <<>> /\ ~SilenceOver
  /\ busy = <<>> \/ silence < PauseMax
  /\ silence' = IF silence > SilenceMax THEN silence ELSE silence + 1
  /\ linkLeft' = IF linkLeft > 0 THEN linkLeft - 1 ELSE 0
  /\ UNCHANGED <<busy, open, wire, rx, mine>>
=============================================================================
