----------------------------- MODULE InferenceApi -----------------------------
(***************************************************************************)
(* The HTTP inference service (rust_api/src/inference.rs and main.rs).     *)
(*                                                                         *)
(* A request takes a permit of the semaphore or is answered 429, starts    *)
(* llama-cli as a child process, and collects its output or forwards it as *)
(* server-sent events through a bounded channel.  An action is what a      *)
(* handler or a stream task does from one await to the next.  A client may *)
(* leave at any time: the server then drops the body of a stream, whose    *)
(* task notices at its next send, and the handler of a plain request where *)
(* it stands, with the permit it holds.                                    *)
(***************************************************************************)
EXTENDS Integers, Sequences, FiniteSets

CONSTANTS
  Requests,
  Streaming,       \* the requests with "stream": true
  MaxConcurrency,  \* max_concurrency
  Capacity,        \* SSE_CHANNEL_CAPACITY
  MaxPieces        \* bound of the model: pieces of output a child prints

ASSUME ServiceAssumption ==
  /\ Streaming \subseteq Requests
  /\ IsFiniteSet(Requests)
  /\ MaxConcurrency \in Nat \ {0}
  /\ Capacity \in Nat \ {0}
  /\ MaxPieces \in Nat

VARIABLES
  permits,   \* available permits of the semaphore
  at,        \* where the handler or the stream task of a request stands
  child,     \* its llama-cli process
  printed,   \* how many pieces of output the process has written
  taken,     \* how many of them the task has read
  channel,   \* the events sent and not yet written to the client
  client,    \* whether the client is still there
  received,  \* history: the events the client has got
  answer     \* the status the client has got

vars == <<permits, at, child, printed, taken, channel, client, received, answer>>

-------------------------------------------------------------------------------

\* Where a request holds a permit: on the way to the process, as a stream, as a
\* plain request.
StreamPlaces == {"role", "read", "send", "kill", "error", "last", "done", "quit"}
PlainPlaces  == {"collect", "reap"}
Holding      == {"spawn"} \cup StreamPlaces \cup PlainPlaces
Places       == {"new", "ended"} \cup Holding

Events == {"role", "content", "stop", "error", "DONE"}

Here(r) == client[r] = "here"

Goto(r, place) == at' = [at EXCEPT ![r] = place]

EndTwice(r) == Goto(r, "ended") /\ permits' = permits + 2  \* mutant

\* The handler or the task ends and its permit goes back to the semaphore.
End(r) == Goto(r, "ended") /\ permits' = permits + 1

Answer(r, status) == answer' = [answer EXCEPT ![r] = status]

\* A send waits for room in the channel; it fails when the receiver is gone.
Send(r, event) == /\ Here(r)
                  /\ Len(channel[r]) < Capacity
                  /\ channel' = [channel EXCEPT ![r] = Append(@, event)]

SendFails(r) == ~Here(r) /\ UNCHANGED channel

\* A send whose failure nobody looks at.
SendIfRoom(r, event) ==  \* mutant
  \/ Send(r, event) \/ SendFails(r)
  \/ Len(channel[r]) = Capacity /\ UNCHANGED channel

TrySend(r, event) == Send(r, event) \/ SendFails(r)

\* SIGKILL, and waiting for the process: a process that has ended is left as it is.
Killed(r) == child' = [child EXCEPT ![r] = IF @ = "running" THEN "killed" ELSE @]

Init ==
  /\ permits = MaxConcurrency
  /\ at = [r \in Requests |-> "new"]
  /\ child = [r \in Requests |-> "none"]
  /\ printed = [r \in Requests |-> 0]
  /\ taken = [r \in Requests |-> 0]
  /\ channel = [r \in Requests |-> <<>>]
  /\ client = [r \in Requests |-> "here"]
  /\ received = [r \in Requests |-> <<>>]
  /\ answer = [r \in Requests |-> "none"]

process == <<child, printed, taken>>
stream  == <<channel, client, received>>

-------------------------------------------------------------------------------
(* prepare_inference and the start of the process.                         *)

\* validate or validate_runtime says no.
Refuse(r) ==
  /\ at[r] = "new"
  /\ \E status \in {"400", "500"} : Answer(r, status)
  /\ Goto(r, "ended")
  /\ UNCHANGED <<permits, process, stream>>

\* try_acquire_owned never waits.
Acquire(r) ==
  /\ at[r] = "new"
  /\ IF permits > 0
     THEN permits' = permits - 1 /\ Goto(r, "spawn") /\ UNCHANGED answer
     ELSE Answer(r, "429") /\ Goto(r, "ended") /\ UNCHANGED permits
  /\ UNCHANGED <<process, stream>>

SpawnWithoutPermit(r) ==  \* mutant
  /\ at[r] = "spawn"
  /\ child' = [child EXCEPT ![r] = "running"]
  /\ permits' = permits + 1
  /\ Goto(r, IF r \in Streaming THEN "role" ELSE "collect")
  /\ UNCHANGED <<printed, taken, stream, answer>>

Spawn(r) ==
  /\ at[r] = "spawn"
  /\ child' = [child EXCEPT ![r] = "running"]
  /\ IF r \in Streaming
     THEN Goto(r, "role") /\ Answer(r, "200")
     ELSE Goto(r, "collect") /\ UNCHANGED answer
  /\ UNCHANGED <<permits, printed, taken, stream>>

SpawnFails(r) ==
  /\ at[r] = "spawn"
  /\ Answer(r, "500")
  /\ End(r)
  /\ UNCHANGED <<process, stream>>

-------------------------------------------------------------------------------
(* The stream task of start_streaming_inference.                           *)

SendRole(r) ==
  /\ at[r] = "role"
  /\ \/ Send(r, "role") /\ Goto(r, "read")
     \/ SendFails(r) /\ Goto(r, "quit")
  /\ UNCHANGED <<permits, process, client, received, answer>>

QuitWithoutKill(r) ==  \* mutant
  /\ at[r] = "quit"
  /\ End(r)
  /\ UNCHANGED <<process, stream, answer>>

\* The client left before the first event.
Quit(r) ==
  /\ at[r] = "quit"
  /\ Killed(r)
  /\ End(r)
  /\ UNCHANGED <<printed, taken, stream, answer>>

\* stream_stdout: read a piece, send it, until the end of the output.
Read(r) ==
  /\ at[r] = "read"
  /\ taken[r] < printed[r]
  /\ taken' = [taken EXCEPT ![r] = @ + 1]
  /\ Goto(r, "send")
  /\ UNCHANGED <<permits, child, printed, stream, answer>>

SendContent(r) ==
  /\ at[r] = "send"
  /\ \/ Send(r, "content") /\ Goto(r, "read")
     \/ SendFails(r) /\ Goto(r, "kill")
  /\ UNCHANGED <<permits, process, client, received, answer>>

ReadEnd(r) ==
  /\ at[r] = "read"
  /\ taken[r] = printed[r]
  /\ child[r] # "running"
  /\ Goto(r, "last")
  /\ UNCHANGED <<permits, process, stream, answer>>

ReadFailsAloud(r) ==  \* mutant
  /\ at[r] = "read"
  /\ TrySend(r, "error")
  /\ Goto(r, "kill")
  /\ UNCHANGED <<permits, process, client, received, answer>>

ReadFails(r) ==
  /\ at[r] = "read"
  /\ Goto(r, "kill")
  /\ UNCHANGED <<permits, process, stream, answer>>

\* What tokio::time::timeout covers in a stream.
TimedOnSend == {"send"}  \* mutant

Timed == {"read", "send"}

TimeOutStream(r) ==
  /\ at[r] \in Timed
  /\ Goto(r, "kill")
  /\ UNCHANGED <<permits, process, stream, answer>>

KillAsEnd(r) ==  \* mutant
  /\ at[r] = "kill"
  /\ Killed(r)
  /\ Goto(r, "last")
  /\ UNCHANGED <<permits, printed, taken, stream, answer>>

Kill(r) ==
  /\ at[r] = "kill"
  /\ Killed(r)
  /\ Goto(r, "error")
  /\ UNCHANGED <<permits, printed, taken, stream, answer>>

SendError(r) ==
  /\ at[r] = "error"
  /\ TrySend(r, "error")
  /\ Goto(r, "done")
  /\ UNCHANGED <<permits, process, client, received, answer>>

\* After the end of the output: an exit code or an empty output is an error.
LastEvent(r) == IF child[r] = "failed" \/ taken[r] = 0 THEN "error" ELSE "stop"

SendLast(r) ==
  /\ at[r] = "last"
  /\ TrySend(r, LastEvent(r))
  /\ Goto(r, "done")
  /\ UNCHANGED <<permits, process, client, received, answer>>

SendDone(r) ==
  /\ at[r] = "done"
  /\ TrySend(r, "DONE")
  /\ End(r)
  /\ UNCHANGED <<process, client, received, answer>>

-------------------------------------------------------------------------------
(* run_inference_command and collect_inference.                            *)

\* The output of a process that ended well may still hold no answer.
Collect(r) ==
  /\ at[r] = "collect"
  /\ child[r] # "running"
  /\ \/ child[r] = "succeeded" /\ printed[r] > 0 /\ Answer(r, "200")
     \/ Answer(r, "500")
  /\ End(r)
  /\ UNCHANGED <<process, stream>>

TimeOutPlain(r) ==
  /\ at[r] = "collect"
  /\ Killed(r)
  /\ Goto(r, "reap")
  /\ UNCHANGED <<permits, printed, taken, stream, answer>>

Reap(r) ==
  /\ at[r] = "reap"
  /\ Answer(r, "500")
  /\ End(r)
  /\ UNCHANGED <<process, stream>>

-------------------------------------------------------------------------------
(* The client and the process.                                             *)

Receive(r) ==
  /\ Here(r)
  /\ channel[r] # <<>>
  /\ received' = [received EXCEPT ![r] = Append(@, Head(channel[r]))]
  /\ channel' = [channel EXCEPT ![r] = Tail(@)]
  /\ UNCHANGED <<permits, at, process, client, answer>>

\* The receiver of a stream is dropped, or the handler of a plain request; the
\* latter gives its permit back and leaves the process alone (there is no
\* kill_on_drop).
Leave(r) ==
  /\ Here(r)
  /\ at[r] \in StreamPlaces \cup PlainPlaces
  /\ client' = [client EXCEPT ![r] = "gone"]
  /\ channel' = [channel EXCEPT ![r] = <<>>]
  /\ IF at[r] \in PlainPlaces THEN End(r) ELSE UNCHANGED <<permits, at>>
  /\ UNCHANGED <<process, received, answer>>

WritePiece(r) ==
  /\ child[r] = "running"
  /\ printed[r] < MaxPieces
  /\ printed' = [printed EXCEPT ![r] = @ + 1]
  /\ UNCHANGED <<permits, at, child, taken, stream, answer>>

Exit(r) ==
  /\ child[r] = "running"
  /\ \E how \in {"succeeded", "failed"} : child' = [child EXCEPT ![r] = how]
  /\ UNCHANGED <<permits, at, printed, taken, stream, answer>>

-------------------------------------------------------------------------------

Handle(r) == Refuse(r) \/ Acquire(r) \/ Spawn(r) \/ SpawnFails(r)

Stream(r) ==
  \/ SendRole(r) \/ Quit(r) \/ Read(r) \/ SendContent(r) \/ ReadEnd(r)
  \/ Kill(r) \/ SendError(r) \/ SendLast(r) \/ SendDone(r)

Plain(r) == Collect(r) \/ Reap(r)

Serve(r) == Handle(r) \/ Stream(r) \/ Plain(r)

TimeOut(r) == TimeOutStream(r) \/ TimeOutPlain(r)

Environment(r) == ReadFails(r) \/ Receive(r) \/ Leave(r) \/ WritePiece(r) \/ Exit(r)

Next == \E r \in Requests : Serve(r) \/ TimeOut(r) \/ Environment(r)

Spec == Init /\ [][Next]_vars

\* The runtime polls what can go on, timers fire, and a client that stays reads
\* what it is sent.  Nothing is asked of the process, and a read need not fail.
Fairness ==
  \A r \in Requests : WF_vars(Serve(r)) /\ WF_vars(TimeOut(r)) /\ WF_vars(Receive(r))

FairSpec == Spec /\ Fairness

-------------------------------------------------------------------------------
(* Properties.                                                             *)

Sent(r) == received[r] \o channel[r]

Count(s, event) == Cardinality({k \in DOMAIN s : s[k] = event})

TypeOK ==
  /\ permits \in 0..MaxConcurrency
  /\ at \in [Requests -> Places]
  /\ child \in [Requests -> {"none", "running", "succeeded", "failed", "killed"}]
  /\ printed \in [Requests -> 0..MaxPieces]
  /\ taken \in [Requests -> 0..MaxPieces]
  /\ channel \in [Requests -> Seq(Events)]
  /\ client \in [Requests -> {"here", "gone"}]
  /\ received \in [Requests -> Seq(Events)]
  /\ answer \in [Requests -> {"none", "200", "400", "429", "500"}]

\* No path through a handler or a stream task, early returns, timeouts and
\* departed clients included, leaks a permit or gives one back twice.
PermitsConserved ==
  permits + Cardinality({r \in Requests : at[r] \in Holding}) = MaxConcurrency

\* The llama-cli process of a stream runs only while the stream task holds its
\* permit, so streams never run more processes than max_concurrency.
StreamsHoldPermits ==
  \A r \in Streaming : child[r] = "running" => at[r] \in Holding

\* The same for all requests: the processes that run are capped
\* (rust_api/README.md: "capped to ... a single in-flight inference by default").
InFlightCapped ==
  Cardinality({r \in Requests : child[r] = "running"}) <= MaxConcurrency

\* What a client that stays gets is the role, then content, then one error or
\* one finish_reason, then [DONE], and nothing after it.
WellFormedStream ==
  \A r \in Streaming : Here(r) =>
    LET s == Sent(r)
        n == Len(s)
    IN /\ n > 0 => s[1] = "role"
       /\ \A k \in 1..n : s[k] = "role" => k = 1
       /\ \A k \in 1..n : s[k] \in {"stop", "error"} => \A j \in (k + 1)..n : s[j] = "DONE"
       /\ \A k \in 1..n : s[k] = "DONE" => k = n /\ s[k - 1] \in {"stop", "error"}
       /\ at[r] = "ended" /\ answer[r] = "200" => n > 0 /\ s[n] = "DONE"

\* finish_reason "stop" is only said of a complete answer: the process ended well
\* and every piece it printed was sent before.
StopMeansComplete ==
  \A r \in Streaming :
    Here(r) /\ Count(Sent(r), "stop") > 0
    => child[r] = "succeeded" /\ Count(Sent(r), "content") = printed[r]

\* Whatever the process does, a stream ends for a client that stays with [DONE]
\* (rust_api/README.md: "ends with data: [DONE]").
StreamEnds ==
  \A r \in Streaming :
    at[r] = "role" ~> (~Here(r) \/ Count(received[r], "DONE") > 0)

\* Whatever the process and the client do, the device becomes free again, as long
\* as a client that stays goes on reading.
PermitComesBack == \A r \in Requests : at[r] \in Holding ~> at[r] = "ended"
===============================================================================
