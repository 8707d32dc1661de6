----------------------------- MODULE InboxPromise -----------------------------
(***************************************************************************)
(* What the inbound queue promises to those who write to the assistant,    *)
(* one message at a time: a message that is accepted waits until it is     *)
(* claimed in a batch of its session; one batch is worked on at a time; a  *)
(* batch is settled whole and once; what a stopped process leaves behind   *)
(* waits again; a message is given up only when a later one of its session *)
(* stays to carry its summary.                                             *)
(***************************************************************************)
CONSTANTS Messages, SessionOf

VARIABLES
  phase,   \* where each message is
  batch    \* the messages being worked on

vars == <<phase, batch>>

Phases == {"new", "waiting", "claimed", "settled", "summarised"}

In(ph) == {m \in Messages : phase[m] = ph}

Move(S, ph) == phase' = [m \in Messages |-> IF m \in S THEN ph ELSE phase[m]]

OfOneSession(S) == \A m, n \in S : SessionOf[m] = SessionOf[n]

Init ==
  /\ phase = [m \in Messages |-> "new"]
  /\ batch = {}

Accept(m) ==
  /\ phase[m] = "new"
  /\ phase' = [phase EXCEPT ![m] = "waiting"]
  /\ UNCHANGED batch

Claim ==
  /\ batch = {}
  /\ batch' # {} /\ OfOneSession(batch')
  /\ batch' \subseteq In("waiting")
  /\ Move(batch', "claimed")

Settle ==
  /\ batch # {}
  /\ batch' = {}
  /\ Move(batch, "settled")

Abandon ==
  /\ batch # {}
  /\ batch' = {}
  /\ UNCHANGED phase

Return ==
  /\ UNCHANGED batch
  /\ \E S \in (SUBSET (In("claimed") \ batch)) \ {{}} :
       OfOneSession(S) /\ Move(S, "waiting")

Summarise ==
  /\ UNCHANGED batch
  /\ \E heir \in In("waiting") : \E S \in (SUBSET (In("waiting") \ {heir})) \ {{}} :
       OfOneSession(S \cup {heir}) /\ Move(S, "summarised")

Next == (\E m \in Messages : Accept(m)) \/ Claim \/ Settle \/ Abandon \/ Return \/ Summarise

Spec == Init /\ [][Next]_vars
===============================================================================
