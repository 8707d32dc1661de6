---------------------------- MODULE MCScheduler ----------------------------
(* Instances of module Scheduler for TLC.                                  *)
EXTENDS Scheduler, TLC

CONSTANTS serve, c1, f1, f2

MCAction == [n \in Names |->
  CASE n = "docs" -> "index" [] n = "rank" -> "task prioritize" [] n = "list" -> "task add"
    [] n = "sh" -> "shell" [] OTHER -> "other"]

\* "rank" is due at every pass, as the job of the test in scheduler.rs is.
MCEvery == [n \in Names |-> IF n = "rank" THEN 0 ELSE 1]

MCScheduled == <<"rank", "torn", "docs", "list", "sh">>
=============================================================================
