------------------------- MODULE MCMonitorLeadership -------------------------
(* One computer: the installed monitor, which starts late, and the servers  *)
(* of two chats.                                                            *)
EXTENDS MonitorLeadership, TLC

CONSTANTS main, chat, other

PidOf == (main :> 0) @@ (chat :> 1) @@ (other :> 2)
=============================================================================
