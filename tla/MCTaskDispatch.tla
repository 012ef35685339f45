---------------------------- MODULE MCTaskDispatch ----------------------------
(* Instances of TaskDispatch: one or two jobs of one conversation, created  *)
(* in the order j1, j2, on a computer with one or two monitor processes.      *)
EXTENDS TaskDispatch

CONSTANTS j1, j2, w1, w2

OneConversation == [j \in Jobs |-> j1]
InOrder == [j \in Jobs |-> IF j = j1 THEN 1 ELSE 2]
=============================================================================
