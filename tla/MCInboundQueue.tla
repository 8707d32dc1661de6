---------------------------- MODULE MCInboundQueue ----------------------------
(* Small instances of InboundQueue for TLC.                                *)
EXTENDS InboundQueue, TLC

CONSTANTS serve, voice, tg1, tg2, vo, m1, m2, m3

OneSession  == [m \in Messages |-> tg1]
TwoSessions == [m \in Messages |-> IF m = m3 THEN tg2 ELSE tg1]
VoiceOnly   == [m \in Messages |-> vo]

Interchangeable == Permutations(Messages)
===============================================================================
