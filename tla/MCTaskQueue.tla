------------------------------ MODULE MCTaskQueue ------------------------------
(* One queued message, the application that queued it and the monitor that runs it. *)
EXTENDS TaskQueue

CONSTANTS j1, w1

Alone == [j \in Jobs |-> j]
First == [j \in Jobs |-> 1]
=============================================================================
