------------------------ MODULE MCPermissionQueue ------------------------
(* Instances of PermissionQueue for TLC. *)
EXTENDS PermissionQueue, TLC
CONSTANTS r1, r2, c1, c2
MCRequests == {r1, r2}
MCClients == {c1, c2}
MCPlans == {r1}
None == {}
=============================================================================
