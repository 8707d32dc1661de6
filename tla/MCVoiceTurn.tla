------------------------------ MODULE MCVoiceTurn ------------------------------
(* A small instance of VoiceTurn for TLC.                                  *)
EXTENDS VoiceTurn

CONSTANTS serve, voice, vo, m1, m2

VoiceOnly == [m \in Messages |-> vo]
===============================================================================
