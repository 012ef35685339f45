----------------------------- MODULE MCStoreLock -----------------------------
(* Three processes contend for the lock of one store file. *)
EXTENDS StoreLock

CONSTANTS p1, p2, p3
=============================================================================
