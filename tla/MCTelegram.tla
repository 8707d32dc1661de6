----------------------------- MODULE MCTelegram -----------------------------
(* Instances of module Telegram for TLC.                                   *)
EXTENDS Telegram, TLC

CONSTANTS u1, u2, o1

\* The second user gets at time 0 the code that the first gets at time 1.
MCUserId == [u \in Users |-> IF u = u1 THEN 0 ELSE 1]

\* Both users send text; the updates that are not text come from one of them.
MCArrivals == [user: Users, kind: {"text"}] \cup [user: {u1}, kind: {"media", "group", "other", "place"}]
===============================================================================
