--------------------------- MODULE MCChatSession ---------------------------
(* Instances of module ChatSession for TLC.                                *)
EXTENDS ChatSession, TLC

CONSTANTS q1, c1, s1
=============================================================================
