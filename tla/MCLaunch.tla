------------------------------ MODULE MCLaunch ------------------------------
(* Instances of Launch for TLC.                                            *)
EXTENDS Launch
CONSTANTS n1, c1, c2
OneName == {n1}
MCPids == {11, 12}
MCCallers == {c1, c2}
=============================================================================
