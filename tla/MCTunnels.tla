----------------------------- MODULE MCTunnels -----------------------------
(* Instances of Tunnels for TLC.                                           *)
EXTENDS Tunnels
CONSTANTS t1, r1, r2, r3
MCPorts == {t1}
MCRequests == {r1, r2, r3}
=============================================================================
