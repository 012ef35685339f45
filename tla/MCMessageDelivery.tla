-------------------------- MODULE MCMessageDelivery --------------------------
(* Two monitors, two messages of one chat, one of them sent twice. *)
EXTENDS MessageDelivery, TLC

CONSTANTS w1, w2, m1, m2, a1, a2, b1

MessageOf == (a1 :> m1) @@ (a2 :> m1) @@ (b1 :> m2)
=============================================================================
