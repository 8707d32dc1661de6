---------------------------- MODULE MCOnboarding ----------------------------
(* Instances of module Onboarding for TLC.                                 *)
EXTENDS Onboarding, TLC

CONSTANTS u1, u2

TwoStages == <<"assistant_name", "user_role">>

ThreeStages == <<"assistant_name", "user_role", "preferences">>

\* Everything from one user, the straight way through from the other.
MCSends == [u \in Users |-> IF u = u1 THEN Kinds ELSE {"/onboard", "answer"}]

Completing == [u \in Users |-> {"/onboard", "/skip", "who"}]
===============================================================================
