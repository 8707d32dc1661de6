-------------------------- MODULE InferenceApi_proofs --------------------------
(***************************************************************************)
(* Theorems about InferenceApi, for all requests, concurrency limits,      *)
(* channel capacities and numbers of pieces.                               *)
(***************************************************************************)
EXTENDS InferenceApi, FiniteSetTheorems, TLAPS

-------------------------------------------------------------------------------
(* The requests that hold a permit.                                        *)

Holders == {r \in Requests : at[r] \in Holding}

\* The places that the actions name, sorted by whether they hold a permit.
LEMMA HoldingNames ==
  /\ Holding = {"spawn", "role", "read", "send", "kill", "error", "last", "done", "quit",
                "collect", "reap"}
  /\ Places = {"new", "ended"} \cup Holding
  BY DEF Holding, Places, StreamPlaces, PlainPlaces

\* A handler or task that ends gives back one permit, its own.
LEMMA EndConserves ==
  ASSUME at \in [Requests -> Places], permits \in Nat, PermitsConserved,
         NEW r \in Requests, at[r] \in Holding, End(r)
  PROVE  at' \in [Requests -> Places] /\ permits' \in Nat /\ PermitsConserved'
<1>1. IsFiniteSet(Holders)
  BY FS_Subset, ServiceAssumption DEF Holders
<1>2. r \in Holders /\ Holders' = Holders \ {r}
  BY HoldingNames DEF Holders, End, Goto
<1>3. Cardinality(Holders') = Cardinality(Holders) - 1 /\ Cardinality(Holders) \in Nat
  BY <1>1, <1>2, FS_RemoveElement, FS_CardinalityType
<1>4. permits + Cardinality(Holders) = MaxConcurrency
  BY DEF PermitsConserved, Holders
<1>5. permits' + Cardinality(Holders') = MaxConcurrency
  BY <1>3, <1>4 DEF End
<1>. QED BY <1>5, HoldingNames DEF PermitsConserved, Holders, End, Goto

\* A step from one holding place to another keeps the permit.
LEMMA GotoConserves ==
  ASSUME at \in [Requests -> Places], permits \in Nat, PermitsConserved,
         NEW r \in Requests, NEW place \in Places, Goto(r, place), permits' = permits,
         at[r] \in Holding <=> place \in Holding
  PROVE  at' \in [Requests -> Places] /\ permits' \in Nat /\ PermitsConserved'
<1>1. Holders' = Holders
  BY HoldingNames DEF Holders, Goto
<1>. QED BY <1>1 DEF PermitsConserved, Holders, Goto

\* try_acquire_owned takes a permit only when there is one.
LEMMA AcquireConserves ==
  ASSUME at \in [Requests -> Places], permits \in Nat, PermitsConserved,
         NEW r \in Requests, at[r] = "new", permits > 0,
         permits' = permits - 1, Goto(r, "spawn")
  PROVE  at' \in [Requests -> Places] /\ permits' \in Nat /\ PermitsConserved'
<1>1. IsFiniteSet(Holders)
  BY FS_Subset, ServiceAssumption DEF Holders
<1>2. r \notin Holders /\ Holders' = Holders \cup {r}
  BY HoldingNames DEF Holders, Goto
<1>3. Cardinality(Holders') = Cardinality(Holders) + 1 /\ Cardinality(Holders) \in Nat
  BY <1>1, <1>2, FS_AddElement, FS_CardinalityType
<1>4. permits + Cardinality(Holders) = MaxConcurrency
  BY DEF PermitsConserved, Holders
<1>5. permits' + Cardinality(Holders') = MaxConcurrency
  BY <1>3, <1>4
<1>. QED BY <1>5, HoldingNames DEF PermitsConserved, Holders, Goto

-------------------------------------------------------------------------------
(* The inductive invariant.                                                *)

\* Where a stream may stand while its process runs: before the places at which
\* it has seen the process end or has killed it.
RunningPlaces == {"role", "read", "send", "kill", "quit"}

Statuses == {"none", "200", "400", "429", "500"}
Children == {"none", "running", "succeeded", "failed", "killed"}

PermitInv ==
  /\ permits \in Nat
  /\ at \in [Requests -> Places]
  /\ PermitsConserved

ProcessInv ==
  /\ child \in [Requests -> Children]
  /\ printed \in [Requests -> 0..MaxPieces]
  /\ taken \in [Requests -> 0..MaxPieces]
  /\ \A r \in Streaming : child[r] = "running" => at[r] \in RunningPlaces

ClientInv ==
  /\ channel \in [Requests -> Seq(Events)]
  /\ client \in [Requests -> {"here", "gone"}]
  /\ received \in [Requests -> Seq(Events)]
  /\ answer \in [Requests -> Statuses]

IInv == PermitInv /\ ProcessInv /\ ClientInv

\* When the service starts, all permits are free and no process runs.
LEMMA InitIInv == Init => IInv
<1>. SUFFICES ASSUME Init PROVE IInv
  OBVIOUS
<1>1. {r \in Requests : at[r] \in Holding} = {}
  BY HoldingNames DEF Init
<1>2. PermitsConserved
  <2>1. Cardinality({r \in Requests : at[r] \in Holding}) = 0
    BY <1>1, FS_EmptySet
  <2>. QED BY <2>1, ServiceAssumption DEF Init, PermitsConserved
<1>. QED
  BY <1>2, ServiceAssumption, HoldingNames
  DEF Init, IInv, PermitInv, ProcessInv, ClientInv, Children, Statuses, Events

\* Every step of a handler, a stream task, a timer, a client or a process takes
\* at most the permit that is there and gives back at most the one it holds.
LEMMA PermitStep == IInv /\ [Next]_vars => PermitInv'
<1>. SUFFICES ASSUME IInv, [Next]_vars PROVE PermitInv'
  OBVIOUS
<1>. USE DEF PermitInv, process, stream
<1>0. permits \in Nat /\ at \in [Requests -> Places] /\ PermitsConserved
  BY DEF IInv
<1>s. ASSUME UNCHANGED <<permits, at>> PROVE PermitInv'
  BY <1>0, <1>s DEF PermitsConserved
<1>1. ASSUME NEW r \in Requests, Handle(r) PROVE PermitInv'
  <2>1. CASE Refuse(r)
    BY <1>0, <2>1, GotoConserves, HoldingNames DEF Refuse
  <2>2. CASE Acquire(r)
    BY <1>0, <2>2, GotoConserves, AcquireConserves, HoldingNames DEF Acquire
  <2>3. CASE Spawn(r)
    BY <1>0, <2>3, GotoConserves, HoldingNames DEF Spawn
  <2>4. CASE SpawnFails(r)
    BY <1>0, <2>4, EndConserves, HoldingNames DEF SpawnFails
  <2>. QED BY <1>1, <2>1, <2>2, <2>3, <2>4 DEF Handle
<1>2. ASSUME NEW r \in Requests, Stream(r) PROVE PermitInv'
  <2>1. CASE SendRole(r)
    BY <1>0, <2>1, GotoConserves, HoldingNames DEF SendRole
  <2>2. CASE Quit(r)
    BY <1>0, <2>2, EndConserves, HoldingNames DEF Quit
  <2>3. CASE Read(r)
    BY <1>0, <2>3, GotoConserves, HoldingNames DEF Read
  <2>4. CASE SendContent(r)
    BY <1>0, <2>4, GotoConserves, HoldingNames DEF SendContent
  <2>5. CASE ReadEnd(r)
    BY <1>0, <2>5, GotoConserves, HoldingNames DEF ReadEnd
  <2>6. CASE Kill(r)
    BY <1>0, <2>6, GotoConserves, HoldingNames DEF Kill
  <2>7. CASE SendError(r)
    BY <1>0, <2>7, GotoConserves, HoldingNames DEF SendError
  <2>8. CASE SendLast(r)
    BY <1>0, <2>8, GotoConserves, HoldingNames DEF SendLast
  <2>9. CASE SendDone(r)
    BY <1>0, <2>9, EndConserves, HoldingNames DEF SendDone
  <2>. QED BY <1>2, <2>1, <2>2, <2>3, <2>4, <2>5, <2>6, <2>7, <2>8, <2>9 DEF Stream
<1>3. ASSUME NEW r \in Requests, Plain(r) PROVE PermitInv'
  BY <1>0, <1>3, EndConserves, HoldingNames DEF Plain, Collect, Reap
<1>4. ASSUME NEW r \in Requests, TimeOut(r) PROVE PermitInv'
  BY <1>0, <1>4, GotoConserves, HoldingNames DEF TimeOut, TimeOutStream, TimeOutPlain, Timed
<1>5. ASSUME NEW r \in Requests, Environment(r) PROVE PermitInv'
  <2>1. CASE ReadFails(r)
    BY <1>0, <2>1, GotoConserves, HoldingNames DEF ReadFails
  <2>2. CASE Leave(r)
    BY <1>0, <1>s, <2>2, EndConserves, HoldingNames DEF Leave, PlainPlaces
  <2>3. CASE Receive(r) \/ WritePiece(r) \/ Exit(r)
    BY <1>s, <2>3 DEF Receive, WritePiece, Exit
  <2>. QED BY <1>5, <2>1, <2>2, <2>3 DEF Environment
<1>6. CASE UNCHANGED vars
  BY <1>s, <1>6 DEF vars
<1>. QED BY <1>1, <1>2, <1>3, <1>4, <1>5, <1>6 DEF Next, Serve

\* No step lets a stream pass the places where its process has ended or has been
\* killed while the process still runs.
LEMMA ProcessStep == IInv /\ [Next]_vars => ProcessInv'
<1>. SUFFICES ASSUME IInv, [Next]_vars PROVE ProcessInv'
  OBVIOUS
<1>. USE DEF ProcessInv, process, stream, Goto
<1>0. at \in [Requests -> Places] /\ ProcessInv /\ Streaming \subseteq Requests /\ MaxPieces \in Nat
  BY ServiceAssumption DEF IInv, PermitInv
<1>1. ASSUME NEW r \in Requests, Handle(r) PROVE ProcessInv'
  <2>1. CASE Refuse(r)
    BY <1>0, <2>1 DEF Refuse, RunningPlaces
  <2>2. CASE Acquire(r)
    BY <1>0, <2>2 DEF Acquire, RunningPlaces
  <2>3. CASE Spawn(r)
    BY <1>0, <2>3 DEF Spawn, RunningPlaces, Children
  <2>4. CASE SpawnFails(r)
    BY <1>0, <2>4 DEF SpawnFails, End, RunningPlaces
  <2>. QED BY <1>1, <2>1, <2>2, <2>3, <2>4 DEF Handle
<1>2. ASSUME NEW r \in Requests, Stream(r) PROVE ProcessInv'
  <2>1. CASE SendRole(r)
    BY <1>0, <2>1 DEF SendRole, RunningPlaces
  <2>2. CASE Quit(r)
    BY <1>0, <2>2 DEF Quit, Killed, End, RunningPlaces, Children
  <2>3. CASE Read(r)
    BY <1>0, <2>3 DEF Read, RunningPlaces
  <2>4. CASE SendContent(r)
    BY <1>0, <2>4 DEF SendContent, RunningPlaces
  <2>5. CASE ReadEnd(r)
    BY <1>0, <2>5 DEF ReadEnd, RunningPlaces
  <2>6. CASE Kill(r)
    BY <1>0, <2>6 DEF Kill, Killed, RunningPlaces, Children
  <2>7. CASE SendError(r) \/ SendLast(r) \/ SendDone(r)
    BY <1>0, <2>7 DEF SendError, SendLast, SendDone, End, RunningPlaces
  <2>. QED BY <1>2, <2>1, <2>2, <2>3, <2>4, <2>5, <2>6, <2>7 DEF Stream
<1>3. ASSUME NEW r \in Requests, Plain(r) PROVE ProcessInv'
  BY <1>0, <1>3 DEF Plain, Collect, Reap, End, RunningPlaces
<1>4. ASSUME NEW r \in Requests, TimeOut(r) PROVE ProcessInv'
  BY <1>0, <1>4 DEF TimeOut, TimeOutStream, TimeOutPlain, Timed, Killed, RunningPlaces, Children
<1>5. ASSUME NEW r \in Requests, Environment(r) PROVE ProcessInv'
  <2>1. CASE ReadFails(r)
    BY <1>0, <2>1 DEF ReadFails, RunningPlaces
  <2>2. CASE Leave(r)
    BY <1>0, <2>2 DEF Leave, End, PlainPlaces, RunningPlaces
  <2>3. CASE Receive(r)
    BY <1>0, <2>3 DEF Receive
  <2>4. CASE WritePiece(r)
    BY <1>0, <2>4 DEF WritePiece
  <2>5. CASE Exit(r)
    BY <1>0, <2>5 DEF Exit, Children
  <2>. QED BY <1>5, <2>1, <2>2, <2>3, <2>4, <2>5 DEF Environment
<1>6. CASE UNCHANGED vars
  BY <1>0, <1>6 DEF vars
<1>. QED BY <1>1, <1>2, <1>3, <1>4, <1>5, <1>6 DEF Next, Serve

\* The channel carries events and the client gets events, whatever is sent,
\* received or dropped with the receiver.
LEMMA ClientStep == IInv /\ [Next]_vars => ClientInv'
<1>. SUFFICES ASSUME IInv, [Next]_vars PROVE ClientInv'
  OBVIOUS
<1>. USE DEF ClientInv, process, stream
<1>0. ClientInv
  BY DEF IInv
<1>1. ASSUME NEW r \in Requests, NEW e \in Events,
             Send(r, e) \/ SendFails(r), UNCHANGED <<client, received, answer>>
      PROVE  ClientInv'
  <2>1. CASE Send(r, e)
    <3>1. Append(channel[r], e) \in Seq(Events)
      BY <1>0
    <3>2. channel' \in [Requests -> Seq(Events)]
      BY <1>0, <2>1, <3>1 DEF Send
    <3>. QED BY <1>0, <1>1, <3>2
  <2>2. CASE SendFails(r)
    BY <1>0, <1>1, <2>2 DEF SendFails
  <2>. QED BY <1>1, <2>1, <2>2
<1>2. ASSUME NEW r \in Requests, NEW s \in Statuses,
             Answer(r, s) \/ UNCHANGED answer, UNCHANGED stream
      PROVE  ClientInv'
  BY <1>0, <1>2 DEF Answer
<1>3. CASE UNCHANGED <<channel, client, received, answer>>
  BY <1>0, <1>3
<1>4. ASSUME NEW r \in Requests, Handle(r) PROVE ClientInv'
  BY <1>2, <1>3, <1>4 DEF Handle, Refuse, Acquire, Spawn, SpawnFails, Statuses
<1>5. ASSUME NEW r \in Requests, Stream(r) PROVE ClientInv'
  <2>1. CASE SendRole(r)
    BY <1>1, <2>1 DEF SendRole, Events
  <2>2. CASE SendContent(r)
    BY <1>1, <2>2 DEF SendContent, Events
  <2>3. CASE SendError(r)
    BY <1>1, <2>3 DEF SendError, TrySend, Events
  <2>4. CASE SendLast(r)
    BY <1>1, <2>4 DEF SendLast, TrySend, LastEvent, Events
  <2>5. CASE SendDone(r)
    BY <1>1, <2>5 DEF SendDone, TrySend, Events
  <2>6. CASE Quit(r) \/ Read(r) \/ ReadEnd(r) \/ Kill(r)
    BY <1>3, <2>6 DEF Quit, Read, ReadEnd, Kill
  <2>. QED BY <1>5, <2>1, <2>2, <2>3, <2>4, <2>5, <2>6 DEF Stream
<1>6. ASSUME NEW r \in Requests, Plain(r) PROVE ClientInv'
  BY <1>2, <1>6 DEF Plain, Collect, Reap, Statuses
<1>7. ASSUME NEW r \in Requests, TimeOut(r) PROVE ClientInv'
  BY <1>3, <1>7 DEF TimeOut, TimeOutStream, TimeOutPlain
<1>8. ASSUME NEW r \in Requests, Environment(r) PROVE ClientInv'
  <2>1. CASE Receive(r)
    <3>1. Head(channel[r]) \in Events /\ Tail(channel[r]) \in Seq(Events)
      BY <1>0, <2>1 DEF Receive
    <3>2. Append(received[r], Head(channel[r])) \in Seq(Events)
      BY <1>0, <3>1
    <3>. QED BY <1>0, <2>1, <3>1, <3>2 DEF Receive
  <2>2. CASE Leave(r)
    BY <1>0, <2>2 DEF Leave
  <2>3. CASE ReadFails(r) \/ WritePiece(r) \/ Exit(r)
    BY <1>3, <2>3 DEF ReadFails, WritePiece, Exit
  <2>. QED BY <1>8, <2>1, <2>2, <2>3 DEF Environment
<1>9. CASE UNCHANGED vars
  BY <1>3, <1>9 DEF vars
<1>. QED BY <1>4, <1>5, <1>6, <1>7, <1>8, <1>9 DEF Next, Serve

\* The invariant holds from the start and in every step.
LEMMA Invariant == Spec => []IInv
<1>1. IInv /\ [Next]_vars => IInv'
  BY PermitStep, ProcessStep, ClientStep DEF IInv
<1>. QED BY InitIInv, <1>1, PTL DEF Spec

-------------------------------------------------------------------------------
(* The theorems.                                                           *)

\* The state of the service is well typed; in particular the semaphore never holds
\* more permits than max_concurrency.
THEOREM TypeCorrect == Spec => []TypeOK
<1>1. ASSUME IInv PROVE permits \in 0..MaxConcurrency
  <2>1. Cardinality(Holders) \in Nat
    BY FS_Subset, FS_CardinalityType, ServiceAssumption DEF Holders
  <2>2. permits + Cardinality(Holders) = MaxConcurrency /\ permits \in Nat
    BY <1>1 DEF IInv, PermitInv, PermitsConserved, Holders
  <2>. QED BY <2>1, <2>2, ServiceAssumption
<1>2. IInv => TypeOK
  BY <1>1 DEF IInv, PermitInv, ProcessInv, ClientInv, TypeOK, Children, Statuses
<1>. QED BY Invariant, <1>2, PTL

\* Whatever requests arrive, fail, time out or are left by their clients, every
\* permit is either in the semaphore or held by exactly one request.
THEOREM PermitsAreConserved == Spec => []PermitsConserved
<1>1. IInv => PermitsConserved
  BY DEF IInv, PermitInv
<1>. QED BY Invariant, <1>1, PTL

\* A stream's llama-cli runs only while its task holds a permit: every way out of
\* start_streaming_inference has seen the process end or has killed it.
THEOREM StreamProcessesHavePermits == Spec => []StreamsHoldPermits
<1>1. IInv => StreamsHoldPermits
  BY HoldingNames DEF IInv, ProcessInv, StreamsHoldPermits, RunningPlaces
<1>. QED BY Invariant, <1>1, PTL

\* So streams alone never run more processes than max_concurrency.
THEOREM StreamsCapped ==
  Spec => [](Cardinality({r \in Streaming : child[r] = "running"}) <= MaxConcurrency)
<1>1. ASSUME IInv
      PROVE  Cardinality({r \in Streaming : child[r] = "running"}) <= MaxConcurrency
  <2>. DEFINE Running == {r \in Streaming : child[r] = "running"}
  <2>1. Running \subseteq Holders
    BY <1>1, HoldingNames, ServiceAssumption DEF IInv, ProcessInv, RunningPlaces, Holders
  <2>2. IsFiniteSet(Holders) /\ Cardinality(Holders) \in Nat
    BY FS_Subset, FS_CardinalityType, ServiceAssumption DEF Holders
  <2>3. Cardinality(Running) <= Cardinality(Holders) /\ Cardinality(Running) \in Nat
    BY <2>1, <2>2, FS_Subset, FS_CardinalityType
  <2>4. permits + Cardinality(Holders) = MaxConcurrency /\ permits \in Nat
    BY <1>1 DEF IInv, PermitInv, PermitsConserved, Holders
  <2>. HIDE DEF Running
  <2>5. Cardinality(Running) <= MaxConcurrency
    BY <2>2, <2>3, <2>4, ServiceAssumption
  <2>. QED BY <2>5 DEF Running
<1>. QED BY Invariant, <1>1, PTL

-------------------------------------------------------------------------------
(* What a stream says.                                                     *)

\* The role and content so far.
Opened(s) == s # <<>> /\ s[1] = "role" /\ \A k \in 2..Len(s) : s[k] = "content"

\* Then an error, or "stop" when the process ended well and each piece is there.
Closed(s, ended, pieces) ==
  \E body \in Seq(Events), last \in {"stop", "error"} :
    /\ s = Append(body, last)
    /\ Opened(body)
    /\ last = "stop" => ended = "succeeded" /\ Len(body) = 1 + pieces

\* Then [DONE].
Complete(s, ended, pieces) ==
  \E closed \in Seq(Events) : s = Append(closed, "DONE") /\ Closed(closed, ended, pieces)

\* What the task of a stream has sent, wherever it stands.
OfStream(r) ==
  /\ at[r] \notin PlainPlaces
  /\ Here(r) =>
       /\ at[r] # "quit"
       /\ at[r] \in {"new", "spawn", "role"} => Sent(r) = <<>> /\ taken[r] = 0
       /\ at[r] \in {"role", "read", "send"} => child[r] \in {"running", "succeeded", "failed"}
       /\ at[r] \in {"read", "send", "kill", "error", "last"} => Opened(Sent(r))
       /\ at[r] \in {"read", "last"} => Len(Sent(r)) = 1 + taken[r]
       /\ at[r] = "send" => Len(Sent(r)) = taken[r]
       /\ at[r] = "last" => taken[r] = printed[r] /\ child[r] \in {"succeeded", "failed"}
       /\ at[r] = "done" => Closed(Sent(r), child[r], printed[r])
       /\ at[r] = "ended" => \/ Sent(r) = <<>> /\ answer[r] # "200"
                            \/ Complete(Sent(r), child[r], printed[r])

StreamInv == \A r \in Streaming : OfStream(r)

\* An event that is sent comes last of all; one that the client reads was sent before.
LEMMA SentStep ==
  ASSUME IInv, NEW r \in Requests
  PROVE  /\ Sent(r) \in Seq(Events)
         /\ \A e \in Events : Send(r, e) /\ received' = received => Sent(r)' = Append(Sent(r), e)
         /\ Receive(r) => Sent(r)' = Sent(r)
<1>0. channel[r] \in Seq(Events) /\ received[r] \in Seq(Events) /\ ClientInv
  BY DEF IInv, ClientInv
<1>1. Sent(r) \in Seq(Events)
  BY <1>0 DEF Sent
<1>2. ASSUME NEW e \in Events, Send(r, e), received' = received
      PROVE  Sent(r)' = Append(Sent(r), e)
  <2>1. channel'[r] = Append(channel[r], e)
    BY <1>0, <1>2 DEF Send, ClientInv
  <2>2. \A s, t \in Seq(Events) : s \o Append(t, e) = Append(s \o t, e)
    OBVIOUS
  <2>3. received[r] \o Append(channel[r], e) = Append(received[r] \o channel[r], e)
    BY <1>0, <2>2
  <2>. QED BY <1>2, <2>1, <2>3 DEF Sent
<1>3. ASSUME Receive(r) PROVE Sent(r)' = Sent(r)
  <2>1. /\ channel[r] # <<>> /\ channel'[r] = Tail(channel[r])
        /\ received'[r] = Append(received[r], Head(channel[r]))
    BY <1>0, <1>3 DEF Receive, ClientInv
  <2>2. \A s, t \in Seq(Events) : t # <<>> => Append(s, Head(t)) \o Tail(t) = s \o t
    OBVIOUS
  <2>3. Append(received[r], Head(channel[r])) \o Tail(channel[r]) = received[r] \o channel[r]
    BY <1>0, <2>1, <2>2
  <2>. QED BY <2>1, <2>3 DEF Sent
<1>. QED BY <1>1, <1>2, <1>3

\* What a stream may say next.
LEMMA SayNext ==
  ASSUME NEW s \in Seq(Events), NEW ended, NEW pieces
  PROVE  /\ Opened(<<"role">>) /\ Len(<<"role">>) = 1 /\ Append(<<>>, "role") = <<"role">>
         /\ Opened(s) => Opened(Append(s, "content")) /\ Len(Append(s, "content")) = Len(s) + 1
         /\ Opened(s) => Closed(Append(s, "error"), ended, pieces)
         /\ Opened(s) /\ ended = "succeeded" /\ Len(s) = 1 + pieces
              => Closed(Append(s, "stop"), ended, pieces)
         /\ Closed(s, ended, pieces) => Complete(Append(s, "DONE"), ended, pieces)
<1>1. Opened(<<"role">>) /\ Len(<<"role">>) = 1 /\ Append(<<>>, "role") = <<"role">>
  BY DEF Opened
<1>2. Opened(s) => Opened(Append(s, "content")) /\ Len(Append(s, "content")) = Len(s) + 1
  BY DEF Opened
<1>3. Opened(s) => Closed(Append(s, "error"), ended, pieces)
  BY DEF Closed
<1>4. Opened(s) /\ ended = "succeeded" /\ Len(s) = 1 + pieces => Closed(Append(s, "stop"), ended, pieces)
  BY DEF Closed
<1>5. Closed(s, ended, pieces) => Complete(Append(s, "DONE"), ended, pieces)
  BY DEF Complete
<1>. QED BY <1>1, <1>2, <1>3, <1>4, <1>5

\* What was said of a process that had ended well stays true, and nothing was said of
\* the output of another.
LEMMA SaidStays ==
  ASSUME NEW s, NEW ended, NEW pieces, NEW endedNow, NEW piecesNow,
         ended = "succeeded" => endedNow = ended /\ piecesNow = pieces
  PROVE  /\ Closed(s, ended, pieces) => Closed(s, endedNow, piecesNow)
         /\ Complete(s, ended, pieces) => Complete(s, endedNow, piecesNow)
<1>1. ASSUME NEW t, Closed(t, ended, pieces) PROVE Closed(t, endedNow, piecesNow)
  BY <1>1 DEF Closed
<1>. QED BY <1>1 DEF Complete

\* The steps of a request leave the streams of the others alone.
LEMMA OtherStreams ==
  ASSUME IInv, NEW q \in Requests, NEW r \in Requests \ {q},
         Serve(r) \/ TimeOut(r) \/ Environment(r)
  PROVE  /\ at'[q] = at[q] /\ child'[q] = child[q] /\ printed'[q] = printed[q]
         /\ taken'[q] = taken[q] /\ channel'[q] = channel[q] /\ client'[q] = client[q]
         /\ received'[q] = received[q] /\ answer'[q] = answer[q]
<1>. USE DEF process, stream, Goto, End, Answer, Killed, Send, SendFails, TrySend
<1>0. q # r /\ IInv
  OBVIOUS
<1>. USE DEF IInv, PermitInv, ProcessInv, ClientInv
<1>1. CASE Handle(r)
  BY <1>0, <1>1 DEF Handle, Refuse, Acquire, Spawn, SpawnFails
<1>2. CASE SendRole(r) \/ Quit(r) \/ Read(r) \/ SendContent(r) \/ ReadEnd(r)
  BY <1>0, <1>2 DEF SendRole, Quit, Read, SendContent, ReadEnd
<1>3. CASE Kill(r) \/ SendError(r) \/ SendLast(r) \/ SendDone(r)
  BY <1>0, <1>3 DEF Kill, SendError, SendLast, SendDone
<1>4. CASE Plain(r) \/ TimeOut(r)
  BY <1>0, <1>4 DEF Plain, Collect, Reap, TimeOut, TimeOutStream, TimeOutPlain
<1>5. CASE Environment(r)
  BY <1>0, <1>5 DEF Environment, ReadFails, Receive, Leave, WritePiece, Exit
<1>. QED BY <1>1, <1>2, <1>3, <1>4, <1>5 DEF Serve, Stream

\* A stream goes on to the next place and says what belongs there.
LEMMA SpeakerStep ==
  ASSUME IInv, NEW r \in Streaming, OfStream(r), Stream(r)
  PROVE  OfStream(r)'
<1>. USE DEF process, stream, Goto, End
<1>0. /\ r \in Requests /\ at \in [Requests -> Places] /\ ProcessInv /\ ClientInv
      /\ child[r] # "running" \/ at[r] \in RunningPlaces
      /\ Sent(r) \in Seq(Events) /\ taken[r] \in Nat /\ printed[r] \in Nat
  BY ServiceAssumption, SentStep DEF IInv, PermitInv, ProcessInv
<1>1. ASSUME ~Here(r), client' = client, at'[r] \notin PlainPlaces PROVE OfStream(r)'
  BY <1>1 DEF OfStream, Here
<1>2. ASSUME UNCHANGED <<received, channel>> PROVE Sent(r)' = Sent(r)
  BY <1>2 DEF Sent
<1>3. CASE SendRole(r)
  <2>1. CASE Send(r, "role")
    <3>1. Here(r) /\ at[r] = "role" /\ at'[r] = "read" /\ Sent(r)' = Append(Sent(r), "role")
      BY <1>0, <1>3, <2>1, SentStep DEF SendRole, Send, Events, SendFails
    <3>2. Sent(r)' = <<"role">> /\ taken[r] = 0 /\ child[r] \in {"running", "succeeded", "failed"}
      BY <3>1, <1>0, SayNext DEF OfStream
    <3>3. taken'[r] = 0 /\ child'[r] \in {"running", "succeeded", "failed"}
      BY <3>2, <1>3 DEF SendRole
    <3>4. Opened(<<"role">>) /\ Len(<<"role">>) = 1
      BY <1>0, SayNext
    <3>5. Opened(Sent(r)') /\ Len(Sent(r)') = 1 + taken'[r]
      BY <3>2, <3>3, <3>4
    <3>. QED BY <3>1, <3>3, <3>5 DEF OfStream, PlainPlaces
  <2>2. CASE ~Send(r, "role")
    BY <1>0, <1>1, <1>3, <2>2 DEF SendRole, SendFails, PlainPlaces
  <2>. QED BY <2>1, <2>2
<1>4. CASE Quit(r)
  BY <1>0, <1>1, <1>4 DEF Quit, OfStream, PlainPlaces
<1>5. CASE Read(r)
  <2>1. /\ at[r] = "read" /\ at'[r] = "send" /\ taken'[r] = taken[r] + 1
        /\ child'[r] = child[r] /\ Here(r)' = Here(r) /\ Sent(r)' = Sent(r)
    BY <1>0, <1>2, <1>5 DEF Read, Here, ProcessInv
  <2>. QED BY <1>0, <2>1 DEF OfStream, PlainPlaces
<1>6. CASE SendContent(r)
  <2>1. CASE Send(r, "content")
    <3>1. /\ Here(r) /\ at[r] = "send" /\ at'[r] = "read"
          /\ Sent(r)' = Append(Sent(r), "content")
          /\ taken' = taken /\ child' = child
      BY <1>0, <1>6, <2>1, SentStep DEF SendContent, Send, Events, SendFails
    <3>2. Opened(Sent(r)) /\ Len(Sent(r)) = taken[r] /\ child[r] \in {"running", "succeeded", "failed"}
      BY <3>1 DEF OfStream
    <3>3. Opened(Sent(r)') /\ Len(Sent(r)') = 1 + taken[r]
      BY <1>0, <3>1, <3>2, SayNext, SMTT(30)
    <3>. QED BY <1>0, <3>1, <3>2, <3>3 DEF OfStream, PlainPlaces
  <2>2. CASE ~Send(r, "content")
    BY <1>0, <1>1, <1>6, <2>2 DEF SendContent, SendFails, PlainPlaces
  <2>. QED BY <2>1, <2>2
<1>7. CASE ReadEnd(r)
  <2>1. /\ at[r] = "read" /\ at'[r] = "last" /\ taken[r] = printed[r] /\ child[r] # "running"
        /\ UNCHANGED <<taken, printed, child>> /\ Here(r)' = Here(r) /\ Sent(r)' = Sent(r)
    BY <1>0, <1>2, <1>7 DEF ReadEnd, Here
  <2>. QED BY <1>0, <2>1 DEF OfStream, PlainPlaces
<1>8. CASE Kill(r)
  <2>1. at[r] = "kill" /\ at'[r] = "error" /\ Here(r)' = Here(r) /\ Sent(r)' = Sent(r)
    BY <1>0, <1>2, <1>8 DEF Kill, Here
  <2>. QED BY <1>0, <2>1 DEF OfStream, PlainPlaces
<1>9. CASE SendError(r)
  <2>1. CASE Send(r, "error")
    <3>1. /\ Here(r) /\ at[r] = "error" /\ at'[r] = "done"
          /\ Sent(r)' = Append(Sent(r), "error")
          /\ Opened(Sent(r))
      BY <1>0, <1>9, <2>1, SentStep DEF SendError, Send, Events, OfStream
    <3>2. Closed(Sent(r)', child'[r], printed'[r])
      BY <1>0, <3>1, SayNext
    <3>. QED BY <3>1, <3>2 DEF OfStream, PlainPlaces
  <2>2. CASE SendFails(r)
    BY <1>0, <1>1, <1>9, <2>2 DEF SendError, SendFails, PlainPlaces
  <2>. QED BY <1>9, <2>1, <2>2 DEF SendError, TrySend
<1>10. CASE SendLast(r)
  <2>1. CASE Send(r, LastEvent(r))
    <3>1. /\ Here(r) /\ at[r] = "last" /\ at'[r] = "done"
          /\ Sent(r)' = Append(Sent(r), LastEvent(r))
          /\ child' = child /\ printed' = printed
      BY <1>0, <1>10, <2>1, SentStep DEF SendLast, Send, LastEvent, Events
    <3>2. /\ Opened(Sent(r)) /\ Len(Sent(r)) = 1 + printed[r]
          /\ LastEvent(r) = "stop" => child[r] = "succeeded"
          /\ LastEvent(r) \in {"stop", "error"}
      BY <3>1 DEF OfStream, LastEvent
    <3>3. Closed(Sent(r)', child'[r], printed'[r])
      BY <1>0, <3>1, <3>2, SayNext
    <3>. QED BY <3>1, <3>3 DEF OfStream, PlainPlaces
  <2>2. CASE SendFails(r)
    BY <1>0, <1>1, <1>10, <2>2 DEF SendLast, SendFails, PlainPlaces
  <2>. QED BY <1>10, <2>1, <2>2 DEF SendLast, TrySend
<1>11. CASE SendDone(r)
  <2>1. CASE Send(r, "DONE")
    <3>1. /\ Here(r) /\ at[r] = "done" /\ at'[r] = "ended"
          /\ Sent(r)' = Append(Sent(r), "DONE")
          /\ child' = child /\ printed' = printed
      BY <1>0, <1>11, <2>1, SentStep DEF SendDone, Send, Events
    <3>2. Complete(Sent(r)', child'[r], printed'[r])
      BY <1>0, <3>1, SayNext DEF OfStream
    <3>. QED BY <3>1, <3>2 DEF OfStream, PlainPlaces
  <2>2. CASE SendFails(r)
    BY <1>0, <1>1, <1>11, <2>2 DEF SendDone, SendFails, PlainPlaces
  <2>. QED BY <1>11, <2>1, <2>2 DEF SendDone, TrySend
<1>. QED BY <1>3, <1>4, <1>5, <1>6, <1>7, <1>8, <1>9, <1>10, <1>11 DEF Stream

\* A request that is refused says nothing, and so does one before its process runs.
LEMMA HandlerSilent ==
  ASSUME IInv, NEW r \in Streaming, OfStream(r), Handle(r)
  PROVE  OfStream(r)'
<1>. USE DEF process, stream, Goto, End, Answer
<1>0. /\ r \in Requests /\ at \in [Requests -> Places] /\ child \in [Requests -> Children]
      /\ answer \in [Requests -> Statuses]
  BY ServiceAssumption DEF IInv, PermitInv, ProcessInv, ClientInv
<1>1. /\ at[r] \in {"new", "spawn"} /\ UNCHANGED <<taken, client>> /\ Sent(r)' = Sent(r)
      /\ \/ at'[r] \in {"new", "spawn"}
         \/ at'[r] = "role" /\ child'[r] = "running"
         \/ at'[r] = "ended" /\ answer'[r] # "200"
  BY <1>0 DEF Handle, Refuse, Acquire, Spawn, SpawnFails, Sent
<1>2. Here(r)' = Here(r)
  BY <1>1 DEF Here
<1>3. Here(r) => Sent(r) = <<>> /\ taken[r] = 0
  BY <1>1 DEF OfStream
<1>. QED BY <1>1, <1>2, <1>3 DEF OfStream, PlainPlaces

\* Timeouts, failed reads, the client and the process leave what was said as it was.
LEMMA SurroundingsSilent ==
  ASSUME IInv, NEW r \in Streaming, OfStream(r),
         TimeOut(r) \/ Environment(r)
  PROVE  OfStream(r)'
<1>. USE DEF process, stream, Goto
<1>0. /\ r \in Requests /\ at \in [Requests -> Places] /\ ProcessInv
      /\ client \in [Requests -> {"here", "gone"}]
      /\ child[r] = "running" => at[r] \in RunningPlaces
      /\ at[r] \notin PlainPlaces
  BY ServiceAssumption DEF IInv, PermitInv, ProcessInv, ClientInv, OfStream
<1>1. CASE TimeOut(r) \/ ReadFails(r)
  <2>1. /\ at[r] \in {"read", "send"} /\ at'[r] = "kill"
        /\ UNCHANGED client /\ Sent(r)' = Sent(r)
    BY <1>0, <1>1 DEF TimeOut, TimeOutStream, TimeOutPlain, ReadFails, Timed, PlainPlaces, Sent
  <2>2. Here(r)' = Here(r)
    BY <2>1 DEF Here
  <2>. QED BY <2>1, <2>2 DEF OfStream, PlainPlaces
<1>2. CASE Leave(r)
  BY <1>0, <1>2 DEF Leave, OfStream, Here
<1>3. CASE Receive(r)
  <2>1. Sent(r)' = Sent(r) /\ UNCHANGED <<at, child, printed, taken, client, answer>>
    BY <1>0, <1>3, SentStep DEF Receive
  <2>2. Here(r)' = Here(r)
    BY <2>1 DEF Here
  <2>. QED BY <2>1, <2>2 DEF OfStream
<1>4. CASE WritePiece(r) \/ Exit(r)
  <2>1. /\ child[r] = "running" /\ child'[r] \in {"running", "succeeded", "failed"}
        /\ UNCHANGED <<at, taken, client, answer>> /\ Sent(r)' = Sent(r)
    BY <1>0, <1>4 DEF WritePiece, Exit, ProcessInv, Sent
  <2>2. Here(r)' = Here(r) /\ at[r] \in RunningPlaces
    BY <1>0, <2>1 DEF Here
  <2>. QED BY <2>1, <2>2 DEF OfStream, RunningPlaces
<1>. QED BY <1>1, <1>2, <1>3, <1>4 DEF Environment

\* What streams have said stays well formed in every step.
LEMMA StreamStep == IInv /\ StreamInv /\ [Next]_vars => StreamInv'
<1>. SUFFICES ASSUME IInv, StreamInv, [Next]_vars, NEW q \in Streaming PROVE OfStream(q)'
  BY DEF StreamInv
<1>0. OfStream(q) /\ q \in Requests
  BY ServiceAssumption DEF StreamInv
<1>1. ASSUME /\ at'[q] = at[q] /\ child'[q] = child[q] /\ printed'[q] = printed[q]
             /\ taken'[q] = taken[q] /\ channel'[q] = channel[q] /\ client'[q] = client[q]
             /\ received'[q] = received[q] /\ answer'[q] = answer[q]
      PROVE  OfStream(q)'
  BY <1>0, <1>1 DEF OfStream, Here, Sent
<1>2. ASSUME NEW r \in Requests, r # q, Serve(r) \/ TimeOut(r) \/ Environment(r)
      PROVE  OfStream(q)'
  BY <1>0, <1>1, <1>2, OtherStreams
<1>3. ASSUME Serve(q) \/ TimeOut(q) \/ Environment(q) PROVE OfStream(q)'
  <2>1. CASE Plain(q)
    BY <1>0, <2>1 DEF Plain, Collect, Reap, OfStream, PlainPlaces
  <2>. QED BY <1>0, <1>3, <2>1, SpeakerStep, HandlerSilent, SurroundingsSilent DEF Serve
<1>4. CASE UNCHANGED vars
  BY <1>1, <1>4 DEF vars
<1>. QED BY <1>2, <1>3, <1>4 DEF Next

\* At the start no stream has said anything.
LEMMA StreamInit == Init => StreamInv
<1>. SUFFICES ASSUME Init, NEW r \in Streaming PROVE OfStream(r)
  BY DEF StreamInv
<1>1. r \in Requests
  BY ServiceAssumption
<1>2. at[r] = "new" /\ taken[r] = 0 /\ Sent(r) = <<>>
  BY <1>1 DEF Init, Sent
<1>. QED BY <1>2 DEF OfStream, PlainPlaces

\* Both invariants hold from the start and in every step.
LEMMA StreamInvariant == Spec => [](IInv /\ StreamInv)
<1>1. IInv /\ [Next]_vars => IInv'
  BY PermitStep, ProcessStep, ClientStep DEF IInv
<1>. QED BY InitIInv, StreamInit, StreamStep, <1>1, PTL DEF Spec

\* What WellFormedStream says of the events, whatever the place.
WellFormed(s) ==
  /\ Len(s) > 0 => s[1] = "role"
  /\ \A k \in 1..Len(s) : s[k] = "role" => k = 1
  /\ \A k \in 1..Len(s) : s[k] \in {"stop", "error"} => \A j \in (k + 1)..Len(s) : s[j] = "DONE"
  /\ \A k \in 1..Len(s) : s[k] = "DONE" => k = Len(s) /\ s[k - 1] \in {"stop", "error"}

\* What streams say is well formed at each stage, and completed with [DONE].
LEMMA StagesWellFormed ==
  ASSUME NEW s \in Seq(Events), NEW ended, NEW pieces
  PROVE  /\ s = <<>> \/ Opened(s) => WellFormed(s)
         /\ Closed(s, ended, pieces) => WellFormed(s)
         /\ Complete(s, ended, pieces) => WellFormed(s) /\ Len(s) > 0 /\ s[Len(s)] = "DONE"
<1>1. s = <<>> \/ Opened(s) => WellFormed(s)
  BY DEF Opened, WellFormed
<1>2. ASSUME Closed(s, ended, pieces) PROVE WellFormed(s)
  <2>1. PICK body \in Seq(Events), last \in {"stop", "error"} : s = Append(body, last) /\ Opened(body)
    BY <1>2 DEF Closed
  <2>2. /\ Len(s) = Len(body) + 1 /\ s[Len(s)] = last /\ Len(body) >= 1 /\ s[1] = "role"
        /\ \A k \in 2..Len(body) : s[k] = "content"
    BY <2>1 DEF Opened
  <2>. QED BY <2>2 DEF WellFormed
<1>3. ASSUME Complete(s, ended, pieces) PROVE WellFormed(s) /\ Len(s) > 0 /\ s[Len(s)] = "DONE"
  <2>1. PICK closed \in Seq(Events) : s = Append(closed, "DONE") /\ Closed(closed, ended, pieces)
    BY <1>3 DEF Complete
  <2>2. PICK body \in Seq(Events), last \in {"stop", "error"} :
           closed = Append(body, last) /\ Opened(body)
    BY <2>1 DEF Closed
  <2>3. /\ Len(closed) = Len(body) + 1 /\ closed[Len(closed)] = last
        /\ Len(body) >= 1 /\ closed[1] = "role"
        /\ \A k \in 2..Len(body) : closed[k] = "content"
    BY <2>2 DEF Opened
  <2>4. /\ Len(s) = Len(body) + 2 /\ s[Len(s)] = "DONE" /\ s[Len(s) - 1] = last
        /\ Len(body) >= 1 /\ s[1] = "role"
        /\ \A k \in 2..Len(body) : s[k] = "content"
    BY <2>1, <2>3
  <2>5. \A k \in 1..Len(s) : \/ k = 1 /\ s[k] = "role"
                             \/ k \in 2..Len(body) /\ s[k] = "content"
                             \/ k = Len(s) - 1 /\ s[k] = last
                             \/ k = Len(s) /\ s[k] = "DONE"
    BY <2>4
  <2>6. \A k \in 1..Len(s) : s[k] \in {"stop", "error"} => \A j \in (k + 1)..Len(s) : s[j] = "DONE"
    BY <2>4, <2>5
  <2>7. \A k \in 1..Len(s) : s[k] = "DONE" => k = Len(s) /\ s[k - 1] \in {"stop", "error"}
    BY <2>4, <2>5
  <2>. QED BY <2>4, <2>5, <2>6, <2>7 DEF WellFormed
<1>. QED BY <1>1, <1>2, <1>3

\* "stop" is not said before the end, and then all pieces have been said.
LEMMA StagesComplete ==
  ASSUME NEW s \in Seq(Events), NEW ended, NEW pieces \in Nat, Count(s, "stop") > 0
  PROVE  /\ s # <<>> /\ ~Opened(s)
         /\ Closed(s, ended, pieces) \/ Complete(s, ended, pieces)
              => ended = "succeeded" /\ Count(s, "content") = pieces
<1>1. PICK k \in DOMAIN s : s[k] = "stop"
  <2>. SUFFICES ASSUME \A k \in DOMAIN s : s[k] # "stop" PROVE FALSE
    OBVIOUS
  <2>1. {k \in DOMAIN s : s[k] = "stop"} = {}
    OBVIOUS
  <2>2. Count(s, "stop") = 0
    BY <2>1, FS_EmptySet DEF Count
  <2>. QED BY <2>2
<1>2. s # <<>> /\ ~Opened(s)
  BY <1>1 DEF Opened
<1>3. ASSUME NEW body \in Seq(Events), NEW last, Opened(body),
             last = "stop" => ended = "succeeded" /\ Len(body) = 1 + pieces,
             last \in {"stop", "error"},
             s = Append(body, last) \/ s = Append(Append(body, last), "DONE")
      PROVE  ended = "succeeded" /\ Count(s, "content") = pieces
  <2>1. /\ Len(s) \in {Len(body) + 1, Len(body) + 2} /\ s[Len(body) + 1] = last
        /\ Len(s) = Len(body) + 2 => s[Len(s)] = "DONE"
        /\ Len(body) >= 1 /\ s[1] = "role"
        /\ \A j \in 2..Len(body) : s[j] = "content"
        /\ DOMAIN s = 1..Len(s)
    <3>1. /\ Len(body) >= 1 /\ body[1] = "role"
          /\ \A j \in 2..Len(body) : body[j] = "content"
      BY <1>3 DEF Opened
    <3>2. CASE s = Append(body, last)
      BY <3>1, <3>2
    <3>3. CASE s = Append(Append(body, last), "DONE")
      BY <3>1, <3>3
    <3>. QED BY <1>3, <3>2, <3>3
  <2>n. Len(body) \in Nat /\ Len(s) \in Nat
    OBVIOUS
  <2>a. \A j \in DOMAIN s :
          \/ j = 1 /\ s[j] = "role"
          \/ j \in 2..Len(body) /\ s[j] = "content"
          \/ j = Len(body) + 1 /\ s[j] = last
          \/ s[j] = "DONE"
    <3>. SUFFICES ASSUME NEW j \in DOMAIN s
                  PROVE  \/ j = 1 /\ s[j] = "role"
                         \/ j \in 2..Len(body) /\ s[j] = "content"
                         \/ j = Len(body) + 1 /\ s[j] = last
                         \/ s[j] = "DONE"
      OBVIOUS
    <3>1. j \in 1..Len(s) /\ (Len(s) = Len(body) + 1 \/ Len(s) = Len(body) + 2)
      BY <2>1
    <3>a. ASSUME NEW n \in Nat, NEW m \in Nat, m = n + 1 \/ m = n + 2, NEW i \in 1..m
          PROVE  i = 1 \/ i \in 2..n \/ i = n + 1 \/ (m = n + 2 /\ i = m)
      BY <3>a
    <3>2. j = 1 \/ j \in 2..Len(body) \/ j = Len(body) + 1 \/ (Len(s) = Len(body) + 2 /\ j = Len(s))
      BY <2>n, <3>1, <3>a
    <3>. QED BY <2>1, <3>2
  <2>2. last = "stop"
    BY <1>1, <2>a
  <2>3. {j \in DOMAIN s : s[j] = "content"} = 2..Len(body)
    <3>1. \A j \in DOMAIN s : s[j] = "content" => j \in 2..Len(body)
      BY <2>a, <2>2
    <3>2. 2..Len(body) \subseteq 1..Len(s)
      <4>1. Len(s) = Len(body) + 1 \/ Len(s) = Len(body) + 2
        BY <2>1
      <4>. QED BY <2>n, <4>1
    <3>. QED BY <2>1, <3>1, <3>2
  <2>4. Cardinality(2..Len(body)) = pieces
    <3>1. Len(body) = 1 + pieces
      BY <1>3, <2>2
    <3>. QED BY <3>1, FS_Interval
  <2>. QED BY <1>3, <2>2, <2>3, <2>4 DEF Count
<1>4. Closed(s, ended, pieces) \/ Complete(s, ended, pieces)
        => ended = "succeeded" /\ Count(s, "content") = pieces
  BY <1>3 DEF Closed, Complete
<1>. QED BY <1>2, <1>4

\* A client that stays gets the role, content, one outcome and [DONE], in that order
\* and nothing else (start_streaming_inference): for every output, timeout and failure.
THEOREM StreamsAreWellFormed == Spec => []WellFormedStream
<1>1. ASSUME IInv, StreamInv, NEW r \in Streaming, Here(r)
      PROVE  /\ WellFormed(Sent(r))
             /\ at[r] = "ended" /\ answer[r] = "200"
                  => Len(Sent(r)) > 0 /\ Sent(r)[Len(Sent(r))] = "DONE"
  <2>1. OfStream(r) /\ Sent(r) \in Seq(Events) /\ at[r] \in Places \ PlainPlaces
    BY <1>1, SentStep, ServiceAssumption DEF StreamInv, OfStream, IInv, PermitInv
  <2>2. /\ at[r] # "ended" =>
             Sent(r) = <<>> \/ Opened(Sent(r)) \/ Closed(Sent(r), child[r], printed[r])
        /\ at[r] = "ended" => \/ Sent(r) = <<>> /\ answer[r] # "200"
                              \/ Complete(Sent(r), child[r], printed[r])
    BY <1>1, <2>1, HoldingNames DEF OfStream, PlainPlaces
  <2>. QED BY <2>1, <2>2, StagesWellFormed
<1>2. IInv /\ StreamInv => WellFormedStream
  BY <1>1 DEF WellFormedStream, WellFormed
<1>. QED BY StreamInvariant, <1>2, PTL

\* "stop" is said of complete answers only: the process ended well, and the client was
\* sent every piece that it printed (the wait for the exit after the end of the output).
THEOREM StopIsComplete == Spec => []StopMeansComplete
<1>1. ASSUME IInv, StreamInv, NEW r \in Streaming, Here(r), Count(Sent(r), "stop") > 0
      PROVE  child[r] = "succeeded" /\ Count(Sent(r), "content") = printed[r]
  <2>1. /\ OfStream(r) /\ Sent(r) \in Seq(Events) /\ at[r] \in Places \ PlainPlaces
        /\ printed[r] \in Nat
    BY <1>1, SentStep, ServiceAssumption DEF StreamInv, OfStream, IInv, PermitInv, ProcessInv
  <2>2. \/ Sent(r) = <<>> \/ Opened(Sent(r))
        \/ Closed(Sent(r), child[r], printed[r]) \/ Complete(Sent(r), child[r], printed[r])
    BY <1>1, <2>1, HoldingNames DEF OfStream, PlainPlaces
  <2>. QED BY <1>1, <2>1, <2>2, StagesComplete
<1>2. IInv /\ StreamInv => StopMeansComplete
  BY <1>1 DEF StopMeansComplete
<1>. QED BY StreamInvariant, <1>2, PTL
===============================================================================
