---------------------------- MODULE MCRelayClient ----------------------------
(* One computer's transport with one stored message and one payload to send. *)
EXTENDS RelayClient

CONSTANTS m1, snapshot
=============================================================================
