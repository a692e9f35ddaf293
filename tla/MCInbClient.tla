---------------------------- MODULE MCInbClient ----------------------------
(* Model checking of InbClient.                                           *)
EXTENDS InbClient

(* Twice the ring: what the mailbox holds and stale entries differ.       *)
MCBuf == 1 .. 2 * N + 1
=============================================================================
