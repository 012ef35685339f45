----------------------------- MODULE MCMeshClaims -----------------------------
(* Instances of MeshClaims for TLC. *)
EXTENDS MeshClaims, TLC
CONSTANTS monitor, server, c1, c2, alice, bob, login

\* Two agents claim one file; Observed says whose claim the monitor derived.
ClaimOwner == c1 :> alice @@ c2 :> bob
ClaimFile == [x \in Claims |-> login]

\* The first claim may be renewed.
Leases == c1 :> {1, 2} @@ c2 :> {2}
=============================================================================
