--------------------------- MODULE MCChatSession ---------------------------
(* Instances of ChatSession for TLC. *)
EXTENDS ChatSession, TLC
CONSTANTS s1, s2
MCSenders == {s1, s2}
=============================================================================
