-------------------------- MODULE MCApprovalRegistry --------------------------
(* Instances of ApprovalRegistry for TLC. *)
EXTENDS ApprovalRegistry, TLC
CONSTANTS w1, w2, a, safe, risky

\* Two hooks use one request id, for one tool call or for two.
SameRequest == [w \in Waiters |-> a]

\* The hooks of one id are interchangeable.
Symmetry == Permutations(Waiters)
=============================================================================
