---------------------------- MODULE MCTaskTransfer ----------------------------
(* Three instances of TaskTransfer: two transfers of one chat, t1 before t2; two  *)
(* monitors at the destination, and something fails; one monitor, the grant is    *)
(* changed and something fails.                                                   *)
EXTENDS TaskTransfer

CONSTANTS t1, t2, r1, r2

InOrder == [t \in Transfers |-> IF t = t1 THEN 1 ELSE 2]

Of(ts, rs, revisions, failed) ==
  [transfers |-> ts, receivers |-> rs, revisions |-> revisions, failures |-> failed]

Three == {Of({t1, t2}, {r1}, 0, 0), Of({t1}, {r1, r2}, 0, 1), Of({t1}, {r1}, 1, 1)}
=============================================================================
