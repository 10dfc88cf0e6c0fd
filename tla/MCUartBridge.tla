---------------------------- MODULE MCUartBridge ----------------------------
(* UartBridge with three words of two bytes.  The times keep the order  *)
(* they have on the board: sweep <= byte < gap, byte < transmission.       *)
EXTENDS UartBridge
=============================================================================
