--------------------------- MODULE VoiceTurn_proofs ----------------------------
(***************************************************************************)
(* A turn by voice does nothing with the inbound queue that the queue does *)
(* not allow, so what is proved of the queue holds under voice turns; and  *)
(* the answer it speaks comes from a run on its own message.               *)
(*                                                                         *)
(* The second part goes in three steps.  Each statement is brought to what *)
(* it does to the tables and to the local variables (Does), which all that *)
(* follows is proved from.  SharedInv is what holds however many processes *)
(* there are.  HearsInv adds what one voice process and one other process  *)
(* keep as long as none stops: whose row it is that is read back and that  *)
(* is waited for.                                                          *)
(***************************************************************************)
EXTENDS VoiceTurn, InboundQueue_proofs

\* Every step of a turn is a step of the queue or leaves it alone.
LEMMA VoiceStep == [VoiceNext]_voiceVars => [Next]_vars
<1> SUFFICES ASSUME [VoiceNext]_voiceVars
             PROVE  [Next]_vars
  OBVIOUS
<1>1. CASE UNCHANGED voiceVars
  BY <1>1 DEF voiceVars
<1>2. CASE Tick /\ UNCHANGED turn
  BY <1>2 DEF Next
<1>3. CASE \E p \in Procs \ Waiters : BeginEnqueue(p) \/ Step(p) \/ Crash(p)
  BY <1>3 DEF Next
<1>4. ASSUME NEW p \in Waiters, Turn(p)
      PROVE  [Next]_vars
  <2>1. p \in Procs
    BY ConstantsAssumption DEF ConstantsAssumption
  <2>2. CASE Listen(p) \/ Speak(p)
    BY <2>2 DEF Listen, Speak
  <2>3. CASE Say(p) \/ Respond(p) \/ CutShort(p)
    BY <2>1, <2>3 DEF Say, Respond, CutShort, Next
  <2> QED
    BY <1>4, <2>2, <2>3 DEF Turn
<1> QED
  BY <1>1, <1>2, <1>3, <1>4 DEF VoiceNext

\* The composition of queue and voice turns implements the queue: run_voice_turn
\* uses it through enqueue_request and wait_for_response only.
THEOREM VoiceKeepsQueue == VoiceSpec => Spec
<1>1. VoiceInit => Init
  BY DEF VoiceInit
<1> QED
  BY <1>1, VoiceStep, PTL DEF VoiceSpec, Spec

\* A step keeps the turns well typed.
LEMMA VoiceTypeStep ==
  ASSUME VoiceTypeOK, TypeOK', [VoiceNext]_voiceVars
  PROVE  VoiceTypeOK'
<1> USE DEF VoiceTypeOK, Stages, Replies
<1>1. CASE UNCHANGED turn
  BY <1>1
<1>2. ASSUME NEW p \in Waiters, NEW t \in [at : Stages, msg : Messages \cup {"none"}, reply : Replies],
             Turns(p, t)
      PROVE  VoiceTypeOK'
  BY <1>2 DEF Turns
<1>3. ASSUME NEW p \in Waiters, Turn(p)
      PROVE  VoiceTypeOK'
  <2>1. Quiet \in [at : Stages, msg : Messages \cup {"none"}, reply : Replies]
    BY DEF Quiet
  <2>2. turn[p] \in [at : Stages, msg : Messages \cup {"none"}, reply : Replies]
    BY <1>3
  <2>3. \A reply \in Replies :
          Speaking(p, reply) \in [at : Stages, msg : Messages \cup {"none"}, reply : Replies]
    BY <2>2 DEF Speaking
  <2>4. CASE Listen(p)
    <3>1. [turn[p] EXCEPT !.at = "respond"]
            \in [at : Stages, msg : Messages \cup {"none"}, reply : Replies]
      BY <2>2
    <3> QED
      BY <2>4, <3>1, <2>1, <1>2 DEF Listen
  <2>5. CASE Say(p)
    <3>1. p \in Procs
      BY ConstantsAssumption DEF ConstantsAssumption
    <3>2. job'[p].msg \in Messages \cup {"none"}
      BY <3>1 DEF TypeOK, Job
    <3>3. [turn[p] EXCEPT !.msg = job'[p].msg]
            \in [at : Stages, msg : Messages \cup {"none"}, reply : Replies]
      BY <2>2, <3>2
    <3> QED
      BY <2>5, <3>3, <1>2 DEF Say
  <2>6. CASE Respond(p)
    <3>1. ReplyOf(p) \in Replies
      BY DEF ReplyOf
    <3> QED
      BY <2>6, <3>1, <2>3, <1>1, <1>2 DEF Respond
  <2>7. CASE CutShort(p)
    BY <2>7, <2>1, <2>3, <1>2 DEF CutShort
  <2>8. CASE Speak(p)
    BY <2>8, <2>1, <1>2 DEF Speak
  <2> QED
    BY <1>3, <2>4, <2>5, <2>6, <2>7, <2>8 DEF Turn
<1> QED
  BY <1>1, <1>3 DEF VoiceNext, voiceVars

\* Queue and turns keep their types, for any number of voice processes.
THEOREM VoiceTypeCorrect == VoiceSpec => [](TypeOK /\ VoiceTypeOK)
<1>1. VoiceInit => VoiceTypeOK
  BY DEF VoiceInit, VoiceTypeOK, Quiet, Stages, Replies
<1>2. VoiceTypeOK /\ TypeOK' /\ [VoiceNext]_voiceVars => VoiceTypeOK'
  BY VoiceTypeStep
<1>3. VoiceSpec => []TypeOK
  BY VoiceKeepsQueue, TypeCorrect, PTL
<1> QED
  BY <1>1, <1>2, <1>3, PTL DEF VoiceSpec

-------------------------------------------------------------------------------
(* What each statement does to the tables and to the local variables.      *)

Others(p) == \A q \in Procs \ {p} : job'[q] = job[q]

RowsKept(S) == \A i \in Ids \ S : rows'[i] = rows[i]

NoWrite == UNCHANGED <<clock, rows, nextId, accepted, unsent, prompted, crashes>>

Same(p) ==
  /\ job'[p].msg = job[p].msg /\ job'[p].row = job[p].row /\ job'[p].ids = job[p].ids
  /\ job'[p].now = job[p].now /\ job'[p].text = job[p].text
  /\ job'[p].window = job[p].window /\ job'[p].wait = job[p].wait

Moves(p, from, to) == job[p].at = from /\ job'[p].at = to

\* A row keeps what it says and whether it can be read.
SameWords(i) ==
  /\ rows'[i].text = rows[i].text /\ rows'[i].session = rows[i].session
  /\ rows'[i].created = rows[i].created

SameReading(i) ==
  /\ SameWords(i) /\ rows'[i].summary = rows[i].summary
  /\ rows'[i].brokenError = rows[i].brokenError

Claimants == {"claimed", "running", "complete"}

\* Back at rest, or in the wait for the row it waited for.
Returned(p) ==
  /\ job'[p].row = 0 /\ job'[p].ids = {} /\ job'[p].now = 0
  /\ \/ job'[p].at = "idle" /\ job'[p].wait = 0
     \/ /\ job'[p].at = "wait" /\ job'[p].wait = job[p].wait /\ job[p].wait # 0
        /\ job'[p].msg = job[p].msg

QueuedRows(p) == QueuedOf(SessionOf[job[p].msg])

\* Nothing but time passes.
Passes ==
  /\ UNCHANGED <<rows, nextId, job, accepted, unsent, prompted, crashes>>
  /\ clock' \in Nat /\ clock <= clock'

\* The process goes on with the local variables it has.
Walks(p) ==
  /\ Others(p) /\ NoWrite /\ Same(p)
  /\ \/ Moves(p, "find", "count") \/ Moves(p, "wait", "again")
     \/ Moves(p, "unlease", "requeue") \/ Moves(p, "unlease", "limit")
     \/ Moves(p, "limit", "pick") \/ Moves(p, "lease", "claim")
     \/ Moves(p, "running", "complete") \/ Moves(p, "release", "reply")

\* It returns, or it has stopped.
Returns(p) ==
  /\ Others(p) /\ Returned(p)
  /\ UNCHANGED <<clock, rows, nextId, accepted, unsent, prompted>>
  /\ crashes' = crashes + 1 \/ (crashes' = crashes /\ job[p].at \notin Claimants)

Begins(p) ==
  /\ Others(p) /\ Moves(p, "idle", "find")
  /\ \E m \in unsent : /\ SessionOf[m] \in VoiceSessions <=> p \in Waiters
                       /\ unsent' = unsent \ {m}
                       /\ job'[p].msg = m
  /\ job'[p].now = clock /\ job'[p].row = 0 /\ job'[p].ids = {} /\ job'[p].wait = 0
  /\ UNCHANGED <<clock, rows, nextId, accepted, prompted, crashes>>

Finds(p) ==
  /\ Others(p) /\ NoWrite /\ Moves(p, "find", "merge")
  /\ \E i \in QueuedRows(p) : job'[p].row = i /\ job'[p].text = rows[i].text
  /\ job'[p].msg = job[p].msg /\ job'[p].ids = job[p].ids
  /\ job'[p].now = job[p].now /\ job'[p].wait = job[p].wait

Merges(p) ==
  /\ Others(p) /\ Moves(p, "merge", "cap")
  /\ job[p].row \in Ids
  /\ LET r == rows'[job[p].row]
     IN /\ r.text = job[p].text \cup {job[p].msg}
        /\ r.status = rows[job[p].row].status /\ r.session = rows[job[p].row].session
        /\ r.created = job[p].now /\ r.available = job[p].now + AtLeastOne(Debounce)
  /\ RowsKept({job[p].row})
  /\ accepted' = accepted \cup {job[p].msg}
  /\ job'[p].msg = job[p].msg /\ job'[p].row = job[p].row /\ job'[p].ids = job[p].ids
  /\ job'[p].now = job[p].now
  /\ job'[p].wait = WaitedRow(p, job[p].row)
  /\ UNCHANGED <<clock, nextId, unsent, prompted, crashes>>

Counts(p) ==
  /\ Others(p) /\ NoWrite /\ Same(p) /\ Moves(p, "count", "insert")
  /\ job'[p].ok = ~Busy(SessionOf[job[p].msg])

Inserts(p) ==
  /\ Others(p) /\ Same(p) /\ Moves(p, "insert", "readid")
  /\ nextId \in Ids
  /\ rows'[nextId].session = SessionOf[job[p].msg] /\ rows'[nextId].text = {job[p].msg}
  /\ rows'[nextId].status = "queued" /\ rows'[nextId].created = job[p].now
  /\ rows'[nextId].available = FirstAvailable(p)
  /\ RowsKept({nextId})
  /\ nextId' = nextId + 1
  /\ accepted' = accepted \cup {job[p].msg}
  /\ UNCHANGED <<clock, unsent, prompted, crashes>>

ReadsBack(p) ==
  /\ Others(p) /\ NoWrite /\ Moves(p, "readid", "cap")
  /\ \E i \in Newest(QueuedRows(p)) : /\ \A j \in Newest(QueuedRows(p)) : j <= i
                                      /\ job'[p].wait = WaitedRow(p, i)
  /\ job'[p].msg = job[p].msg /\ job'[p].row = job[p].row /\ job'[p].ids = job[p].ids
  /\ job'[p].now = job[p].now

Overflows(p) ==
  /\ Others(p) /\ NoWrite /\ Moves(p, "cap", "anchor")
  /\ job'[p].ids \subseteq ReadableIn(QueuedRows(p))
  /\ job'[p].row \in ReadableIn(QueuedRows(p)) \ job'[p].ids
  /\ job'[p].msg = job[p].msg /\ job'[p].now = job[p].now /\ job'[p].wait = job[p].wait

Anchors(p) ==
  /\ Others(p) /\ Same(p) /\ Moves(p, "anchor", "drop")
  /\ \A i \in Ids : /\ SameWords(i)
                    /\ rows'[i].status = rows[i].status /\ rows'[i].available = rows[i].available
  /\ RowsKept({job[p].row})
  /\ UNCHANGED <<clock, nextId, accepted, unsent, prompted, crashes>>

Drops(p) ==
  /\ Others(p) /\ job[p].at = "drop"
  /\ \E i \in job[p].ids :
       /\ i \in Ids /\ SameWords(i) /\ rows'[i].status = "dropped"
       /\ RowsKept({i})
       /\ \/ Returned(p)
          \/ /\ job'[p].at = "drop" /\ job'[p].ids = job[p].ids \ {i}
             /\ job'[p].msg = job[p].msg /\ job'[p].row = job[p].row
             /\ job'[p].now = job[p].now /\ job'[p].wait = job[p].wait
  /\ UNCHANGED <<clock, nextId, accepted, unsent, prompted, crashes>>

Expires(p) ==
  /\ Others(p) /\ NoWrite
  /\ (job[p].at = "idle" /\ p \notin Waiters) \/ job[p].at = "again"
  /\ job'[p].at = "stale" /\ job'[p].now = clock /\ job'[p].row = 0 /\ job'[p].ids = {}
  /\ job'[p].wait = job[p].wait
  /\ job[p].wait # 0 => job'[p].msg = job[p].msg

Scans(p) ==
  /\ Others(p) /\ NoWrite /\ job[p].at = "stale"
  /\ \A i \in job'[p].ids : i \in Ids /\ rows[i].status = "running"
  /\ job'[p].at = IF job'[p].ids = {} THEN "limit" ELSE "requeue"
  /\ job'[p].msg = job[p].msg /\ job'[p].row = job[p].row
  /\ job'[p].now = job[p].now /\ job'[p].wait = job[p].wait

Requeues(p) ==
  /\ Others(p) /\ Moves(p, "requeue", "unlease")
  /\ \E i \in job[p].ids :
       /\ i \in Ids /\ SameReading(i)
       /\ rows'[i].status = "queued" /\ rows'[i].available = job[p].now
       /\ RowsKept({i})
       /\ job'[p].row = i /\ job'[p].ids = job[p].ids \ {i}
  /\ job'[p].msg = job[p].msg /\ job'[p].now = job[p].now /\ job'[p].wait = job[p].wait
  /\ UNCHANGED <<clock, nextId, accepted, unsent, prompted, crashes>>

Picks(p) ==
  /\ Others(p) /\ NoWrite /\ Moves(p, "pick", "group")
  /\ \E i \in Oldest(Due) :
       /\ Readable(rows[i])
       /\ job'[p].row = i /\ job'[p].text = rows[i].text /\ job'[p].window = rows[i].available
  /\ job'[p].msg = job[p].msg /\ job'[p].ids = job[p].ids
  /\ job'[p].now = clock /\ job'[p].wait = job[p].wait

Groups(p) ==
  /\ Others(p) /\ NoWrite /\ Moves(p, "group", "lease")
  /\ LET burst == Burst(job[p].row, job[p].now, job[p].window)
     IN /\ job'[p].ids = burst \cup {job[p].row}
        /\ job'[p].text = job[p].text \cup TextOf(burst)
  /\ job'[p].msg = job[p].msg /\ job'[p].row = job[p].row
  /\ job'[p].now = job[p].now /\ job'[p].wait = job[p].wait

TakesBatch(p) ==
  /\ Others(p) /\ Same(p) /\ Moves(p, "claim", "claimed")
  /\ \A i \in Ids : SameReading(i) /\ rows'[i].available = rows[i].available
  /\ \A i \in job[p].ids : rows'[i].status = "running"
  /\ RowsKept(job[p].ids)
  /\ UNCHANGED <<clock, nextId, accepted, unsent, prompted, crashes>>

Prompts(p) ==
  /\ Others(p) /\ Same(p) /\ Moves(p, "claimed", "running")
  /\ prompted \cup job[p].text \subseteq prompted'
  /\ UNCHANGED <<clock, rows, nextId, accepted, unsent, crashes>>

Settles(p) ==
  /\ Others(p) /\ Same(p) /\ Moves(p, "complete", "release")
  /\ \A i \in Ids : SameWords(i) /\ rows'[i].available = rows[i].available
  /\ \A i \in job[p].ids : rows'[i].status \in {"done", "failed"}
  /\ RowsKept(job[p].ids)
  /\ UNCHANGED <<clock, nextId, accepted, unsent, prompted, crashes>>

Does(p) ==
  \/ Walks(p) \/ Returns(p) \/ Finds(p) \/ Merges(p) \/ Counts(p) \/ Inserts(p)
  \/ ReadsBack(p) \/ Overflows(p) \/ Anchors(p) \/ Drops(p)
  \/ Expires(p) \/ Scans(p) \/ Requeues(p) \/ Picks(p) \/ Groups(p)
  \/ TakesBatch(p) \/ Prompts(p) \/ Settles(p)

\* What becomes of the local variables of the process that moves, and of the others.
LEMMA Became ==
  ASSUME TypeInv, NEW p \in Procs, NEW j, Becomes(p, j)
  PROVE  job'[p] = j /\ Others(p)
  BY DEF TypeInv, TypeOK, Becomes, Others

\* A step that changes the place only.
LEMMA WentOn ==
  ASSUME TypeInv, NEW p \in Procs, NEW place \in Places, Goto(p, place)
  PROVE  job'[p].at = place /\ Same(p) /\ Others(p)
<1>. DEFINE j == [job[p] EXCEPT !.at = place]
<1>1. /\ j.at = place /\ j.msg = job[p].msg /\ j.row = job[p].row /\ j.ids = job[p].ids
      /\ j.now = job[p].now /\ j.text = job[p].text /\ j.window = job[p].window
      /\ j.wait = job[p].wait
  BY DEF TypeInv, TypeOK, Job
<1>2. job'[p] = j /\ Others(p)
  BY Became DEF Goto
<1>. HIDE DEF j
<1>. QED BY <1>1, <1>2 DEF Same

\* The three ways in which a process returns.
LEMMA CameBack ==
  ASSUME TypeInv, NEW p \in Procs,
         Becomes(p, Resting) \/ Finish(p) \/ EndEnqueue(p)
  PROVE  Returned(p) /\ Others(p)
<1>1. CASE Becomes(p, Resting)
  BY <1>1, Became DEF Resting, Returned
<1>2. CASE Finish(p)
  <2>1. job'[p] = Back(p) /\ Others(p)
    BY <1>2, Became DEF Finish
  <2>. QED BY <2>1 DEF Back, Resting, Returned
<1>3. CASE EndEnqueue(p) /\ job[p].wait # 0
  <2>1. job'[p] = [Back(p) EXCEPT !.deadline = clock + WaitTimeout] /\ Others(p)
    BY <1>3, Became DEF EndEnqueue
  <2>. QED BY <1>3, <2>1 DEF Back, Resting, Returned
<1>4. CASE EndEnqueue(p) /\ job[p].wait = 0
  BY <1>1, <1>4 DEF EndEnqueue
<1>. QED BY <1>1, <1>2, <1>3, <1>4

\* The statements of enqueue_request.
LEMMA EnqueueDoes ==
  ASSUME TypeInv, NEW p \in Procs, Enqueue(p)
  PROVE  Does(p)
<1>. USE PlaceNames DEF tables, history, Does
<1>0. job[p] \in Job /\ rows \in [Ids -> Row] /\ Ready(job[p])
  BY DEF TypeInv, TypeOK
<1>1. CASE FindMergeCandidate(p)
  <2>1. CASE Goto(p, "count")
    BY <1>1, <2>1, WentOn DEF FindMergeCandidate, At, Walks, NoWrite, Moves
  <2>2. CASE ~Goto(p, "count")
    <3>. DEFINE Found(i) == [job[p] EXCEPT !.at = "merge", !.row = i, !.text = rows[i].text]
    <3>1. PICK i \in QueuedRows(p) : Becomes(p, Found(i))
      BY <1>1, <2>2 DEF FindMergeCandidate, Newest, QueuedRows
    <3>2. /\ Found(i).at = "merge" /\ Found(i).row = i /\ Found(i).text = rows[i].text
          /\ Found(i).msg = job[p].msg /\ Found(i).ids = job[p].ids
          /\ Found(i).now = job[p].now /\ Found(i).wait = job[p].wait
      BY <1>0 DEF Job
    <3>3. job'[p] = Found(i) /\ Others(p)
      BY <3>1, Became
    <3>. HIDE DEF Found
    <3>4. Finds(p)
      BY <1>1, <3>2, <3>3 DEF Finds, FindMergeCandidate, At, Moves, NoWrite
    <3>. QED BY <3>4
  <2>. QED BY <2>1, <2>2
<1>2. CASE MergeMessage(p)
  <2>. DEFINE j == [job[p] EXCEPT !.at = "cap", !.wait = WaitedRow(p, job[p].row)]
  <2>1. /\ j.at = "cap" /\ j.wait = WaitedRow(p, job[p].row) /\ j.msg = job[p].msg
        /\ j.row = job[p].row /\ j.ids = job[p].ids /\ j.now = job[p].now
    BY <1>0 DEF Job
  <2>2. job'[p] = j /\ Others(p)
    BY <1>2, Became DEF MergeMessage
  <2>. HIDE DEF j
  <2>3. job[p].row \in Ids
    BY <1>0, <1>2 DEF MergeMessage, At, Ready
  <2>4. RowsKept({job[p].row})
    BY <1>0, <1>2, <2>3 DEF MergeMessage, Update, RowsKept
  <2>5. rows'[job[p].row] = [rows[job[p].row] EXCEPT
                               !.text = MergedText(p),
                               !.available = job[p].now + AtLeastOne(Debounce),
                               !.created = job[p].now]
    BY <1>0, <1>2, <2>3 DEF MergeMessage, Update
  <2>6. /\ rows'[job[p].row].text = job[p].text \cup {job[p].msg}
        /\ rows'[job[p].row].status = rows[job[p].row].status
        /\ rows'[job[p].row].session = rows[job[p].row].session
        /\ rows'[job[p].row].created = job[p].now
        /\ rows'[job[p].row].available = job[p].now + AtLeastOne(Debounce)
    BY <1>0, <2>3, <2>5 DEF Row, MergedText
  <2>7. Merges(p)
    BY <1>2, <2>1, <2>2, <2>3, <2>4, <2>6 DEF Merges, MergeMessage, At, Moves
  <2>. QED BY <2>7
<1>3. CASE CountActivity(p)
  <2>. DEFINE j == [job[p] EXCEPT !.at = "insert", !.ok = ~Busy(SessionOf[job[p].msg])]
  <2>1. /\ j.at = "insert" /\ j.ok = ~Busy(SessionOf[job[p].msg])
        /\ j.msg = job[p].msg /\ j.row = job[p].row /\ j.ids = job[p].ids
        /\ j.now = job[p].now /\ j.text = job[p].text /\ j.window = job[p].window
        /\ j.wait = job[p].wait
    BY <1>0 DEF Job
  <2>2. job'[p] = j /\ Others(p)
    BY <1>3, Became DEF CountActivity
  <2>. HIDE DEF j
  <2>3. Counts(p)
    BY <1>3, <2>1, <2>2 DEF Counts, CountActivity, At, Moves, Same, NoWrite
  <2>. QED BY <2>3
<1>4. CASE InsertRow(p)
  <2>1. job'[p].at = "readid" /\ Same(p) /\ Others(p)
    BY <1>4, WentOn DEF InsertRow
  <2>2. RowsKept({nextId})
    BY <1>0, <1>4 DEF InsertRow, Update, RowsKept
  <2>3. rows'[nextId] = [AbsentRow EXCEPT !.session = SessionOf[job[p].msg],
                                          !.text = {job[p].msg},
                                          !.status = "queued",
                                          !.created = job[p].now,
                                          !.available = FirstAvailable(p)]
    BY <1>0, <1>4 DEF InsertRow, Update
  <2>4. /\ rows'[nextId].session = SessionOf[job[p].msg] /\ rows'[nextId].text = {job[p].msg}
        /\ rows'[nextId].status = "queued" /\ rows'[nextId].created = job[p].now
        /\ rows'[nextId].available = FirstAvailable(p)
    BY <2>3, AbsentRowType DEF Row
  <2>5. Inserts(p)
    BY <1>4, <2>1, <2>2, <2>4 DEF Inserts, InsertRow, At, Moves
  <2>. QED BY <2>5
<1>5. CASE ReadRowId(p)
  <2>1. CASE Becomes(p, Resting)
    BY <1>5, <2>1, CameBack DEF ReadRowId, At, Returns, Claimants
  <2>2. CASE ~Becomes(p, Resting)
    <3>. DEFINE newest == Newest(QueuedRows(p))
                Waiting(i) == [job[p] EXCEPT !.at = "cap", !.wait = WaitedRow(p, i)]
    <3>1. PICK i \in newest : (\A j \in newest : j <= i) /\ Becomes(p, Waiting(i))
      BY <1>5, <2>2 DEF ReadRowId, QueuedRows
    <3>2. /\ Waiting(i).at = "cap" /\ Waiting(i).wait = WaitedRow(p, i)
          /\ Waiting(i).msg = job[p].msg /\ Waiting(i).row = job[p].row
          /\ Waiting(i).ids = job[p].ids /\ Waiting(i).now = job[p].now
      BY <1>0 DEF Job
    <3>3. job'[p] = Waiting(i) /\ Others(p)
      BY <3>1, Became
    <3>. HIDE DEF Waiting
    <3>4. ReadsBack(p)
      BY <1>5, <3>1, <3>2, <3>3 DEF ReadsBack, ReadRowId, At, Moves, NoWrite
    <3>. QED BY <3>4
  <2>. QED BY <2>1, <2>2
<1>6. CASE EnforceCap(p)
  <2>1. CASE EndEnqueue(p)
    BY <1>6, <2>1, CameBack DEF EnforceCap, At, Returns, Claimants
  <2>2. CASE ~EndEnqueue(p)
    <3>. DEFINE Saved(drop, anchor) == [job[p] EXCEPT
                      !.at = "anchor", !.row = anchor, !.ids = drop,
                      !.text = SummaryOf(drop),
                      !.lines = Append(rows[anchor].summary, SummaryOf(drop))]
    <3>1. \E drop, anchor : /\ drop \subseteq ReadableIn(QueuedRows(p))
                            /\ anchor \in ReadableIn(QueuedRows(p)) \ drop
                            /\ Becomes(p, Saved(drop, anchor))
      BY <1>6, <2>2 DEF EnforceCap, Excess, Oldest, QueuedRows
    <3>2. PICK drop, anchor : /\ drop \subseteq ReadableIn(QueuedRows(p))
                              /\ anchor \in ReadableIn(QueuedRows(p)) \ drop
                              /\ Becomes(p, Saved(drop, anchor))
      BY <3>1
    <3>3. /\ Saved(drop, anchor).at = "anchor" /\ Saved(drop, anchor).row = anchor
          /\ Saved(drop, anchor).ids = drop /\ Saved(drop, anchor).msg = job[p].msg
          /\ Saved(drop, anchor).now = job[p].now /\ Saved(drop, anchor).wait = job[p].wait
      BY <1>0 DEF Job
    <3>4. job'[p] = Saved(drop, anchor) /\ Others(p)
      BY <3>2, Became
    <3>. HIDE DEF Saved
    <3>5. Overflows(p)
      BY <1>6, <3>2, <3>3, <3>4 DEF Overflows, EnforceCap, At, Moves, NoWrite
    <3>. QED BY <3>5
  <2>. QED BY <2>1, <2>2
<1>7. CASE WriteAnchor(p)
  <2>1. job'[p].at = "drop" /\ Same(p) /\ Others(p)
    BY <1>7, WentOn DEF WriteAnchor
  <2>2. RowsKept({job[p].row})
    BY <1>0, <1>7 DEF WriteAnchor, Update, RowsKept
  <2>3. \A i \in Ids : /\ SameWords(i)
                       /\ rows'[i].status = rows[i].status
                       /\ rows'[i].available = rows[i].available
    BY <1>0, <1>7 DEF WriteAnchor, Update, SameWords, Row
  <2>4. Anchors(p)
    BY <1>7, <2>1, <2>2, <2>3 DEF Anchors, WriteAnchor, At, Moves
  <2>. QED BY <2>4
<1>8. CASE DropRow(p)
  <2>1. PICK i \in job[p].ids : DropRow(p)!2!(i)
    BY <1>8 DEF DropRow, Oldest
  <2>2. i \in Ids
    BY <1>0 DEF Job
  <2>3. RowsKept({i}) /\ SameWords(i) /\ rows'[i].status = "dropped"
    BY <1>0, <2>1, <2>2 DEF Update, RowsKept, SameWords, Row
  <2>4. CASE EndEnqueue(p)
    <3>1. Drops(p)
      BY <1>8, <2>2, <2>3, <2>4, CameBack DEF Drops, DropRow, At
    <3>. QED BY <3>1
  <2>5. CASE Becomes(p, [job[p] EXCEPT !.ids = @ \ {i}])
    <3>. DEFINE j == [job[p] EXCEPT !.ids = @ \ {i}]
    <3>1. /\ j.at = "drop" /\ j.ids = job[p].ids \ {i} /\ j.msg = job[p].msg
          /\ j.row = job[p].row /\ j.now = job[p].now /\ j.wait = job[p].wait
      BY <1>0, <1>8 DEF DropRow, At, Job
    <3>2. job'[p] = j /\ Others(p)
      BY <2>5, Became
    <3>. HIDE DEF j
    <3>3. Drops(p)
      BY <1>8, <2>2, <2>3, <3>1, <3>2 DEF Drops, DropRow, At
    <3>. QED BY <3>3
  <2>. QED BY <2>1, <2>4, <2>5
<1>. QED BY <1>1, <1>2, <1>3, <1>4, <1>5, <1>6, <1>7, <1>8 DEF Enqueue

\* Those of dispatch_due_once.
LEMMA DispatchDoes ==
  ASSUME TypeInv, NEW p \in Procs, Dispatch(p)
  PROVE  Does(p)
<1>. USE PlaceNames DEF tables, history, Does
<1>0. job[p] \in Job /\ rows \in [Ids -> Row] /\ Ready(job[p]) /\ job[p].ids \in SUBSET Ids
  BY DEF TypeInv, TypeOK, Job
<1>1. CASE ExpireLeases(p)
  <2>. DEFINE j == [Back(p) EXCEPT !.at = "stale", !.now = clock]
  <2>1. job'[p] = j /\ Others(p)
    BY <1>1, Became DEF ExpireLeases
  <2>2. /\ j.at = "stale" /\ j.now = clock /\ j.row = 0 /\ j.ids = {}
        /\ j.wait = job[p].wait
        /\ job[p].wait # 0 => j.msg = job[p].msg
    BY DEF Back, Resting
  <2>. HIDE DEF j
  <2>3. Expires(p)
    BY <1>1, <2>1, <2>2 DEF Expires, ExpireLeases, At, NoWrite
  <2>. QED BY <2>3
<1>2. CASE ScanStale(p)
  <2>. DEFINE stale == ReadableIn(Stale(job[p].now))
              place == IF stale = {} THEN "limit" ELSE "requeue"
              j == [job[p] EXCEPT !.ids = stale, !.at = place]
  <2>1. job'[p] = j /\ Others(p)
    BY <1>2, Became DEF ScanStale
  <2>2. /\ j.at = place /\ j.ids = stale /\ j.msg = job[p].msg /\ j.row = job[p].row
        /\ j.now = job[p].now /\ j.wait = job[p].wait
    BY <1>0 DEF Job
  <2>3. \A i \in stale : i \in Ids /\ rows[i].status = "running"
    BY DEF ReadableIn, Stale
  <2>. HIDE DEF j, stale
  <2>4. Scans(p)
    BY <1>2, <2>1, <2>2, <2>3 DEF Scans, ScanStale, At, NoWrite
  <2>. QED BY <2>4
<1>3. CASE RequeueStale(p)
  <2>1. PICK i \in job[p].ids : RequeueStale(p)!2!(i)
    BY <1>3 DEF RequeueStale
  <2>. DEFINE j == [job[p] EXCEPT !.at = "unlease", !.row = i, !.ids = @ \ {i}]
  <2>2. job'[p] = j /\ Others(p)
    BY <2>1, Became
  <2>3. /\ j.at = "unlease" /\ j.row = i /\ j.ids = job[p].ids \ {i} /\ j.msg = job[p].msg
        /\ j.now = job[p].now /\ j.wait = job[p].wait
    BY <1>0 DEF Job
  <2>4. /\ i \in Ids /\ RowsKept({i}) /\ SameReading(i)
        /\ rows'[i].status = "queued" /\ rows'[i].available = job[p].now
    BY <1>0, <2>1 DEF Update, RowsKept, SameReading, SameWords, Row
  <2>. HIDE DEF j
  <2>5. Requeues(p)
    BY <1>3, <2>2, <2>3, <2>4 DEF Requeues, RequeueStale, At, Moves
  <2>. QED BY <2>5
<1>4. CASE ReleaseStale(p)
  BY <1>4, WentOn DEF ReleaseStale, At, Walks, NoWrite, Moves
<1>5. CASE CheckLimit(p)
  BY <1>5, WentOn, CameBack DEF CheckLimit, At, Walks, Returns, NoWrite, Moves, Claimants
<1>6. CASE PickPrimary(p)
  <2>1. CASE Finish(p)
    BY <1>6, <2>1, CameBack DEF PickPrimary, At, Returns, Claimants
  <2>2. CASE ~Finish(p)
    <3>. DEFINE Picked(i) == [job[p] EXCEPT !.at = "group", !.row = i, !.now = clock,
                                            !.text = rows[i].text, !.lines = rows[i].summary,
                                            !.window = rows[i].available]
    <3>1. PICK i \in Oldest(Due) : Readable(rows[i]) /\ Becomes(p, Picked(i))
      BY <1>6, <2>2 DEF PickPrimary
    <3>2. /\ Picked(i).at = "group" /\ Picked(i).row = i /\ Picked(i).text = rows[i].text
          /\ Picked(i).window = rows[i].available /\ Picked(i).msg = job[p].msg
          /\ Picked(i).ids = job[p].ids /\ Picked(i).now = clock
          /\ Picked(i).wait = job[p].wait
      BY <1>0 DEF Job
    <3>3. job'[p] = Picked(i) /\ Others(p)
      BY <3>1, Became
    <3>. HIDE DEF Picked
    <3>4. Picks(p)
      BY <1>6, <3>1, <3>2, <3>3 DEF Picks, PickPrimary, At, Moves, NoWrite
    <3>. QED BY <3>4
  <2>. QED BY <2>1, <2>2
<1>7. CASE GroupBatch(p)
  <2>. DEFINE burst == Burst(job[p].row, job[p].now, job[p].window)
              j == [job[p] EXCEPT !.at = "lease", !.ids = burst \cup {job[p].row},
                                  !.text = @ \cup TextOf(burst),
                                  !.lines = <<Quoted(@) \cup QuotedIn(burst)>>]
  <2>1. job'[p] = j /\ Others(p)
    BY <1>7, Became DEF GroupBatch
  <2>2. /\ j.at = "lease" /\ j.ids = burst \cup {job[p].row}
        /\ j.text = job[p].text \cup TextOf(burst) /\ j.msg = job[p].msg
        /\ j.row = job[p].row /\ j.now = job[p].now /\ j.wait = job[p].wait
    BY <1>0 DEF Job
  <2>. HIDE DEF j, burst
  <2>3. Groups(p)
    BY <1>7, <2>1, <2>2 DEF Groups, GroupBatch, At, Moves, NoWrite, burst
  <2>. QED BY <2>3
<1>8. CASE AcquireLeases(p)
  BY <1>8, WentOn DEF AcquireLeases, At, Walks, NoWrite, Moves
<1>9. CASE ClaimBatch(p)
  <2>1. job'[p].at = "claimed" /\ Same(p) /\ Others(p)
    BY <1>9, WentOn DEF ClaimBatch
  <2>2. \A i \in Ids : rows'[i] = IF i \in job[p].ids
                                  THEN [rows[i] EXCEPT !.status = "running", !.started = clock]
                                  ELSE rows[i]
    BY <1>9 DEF ClaimBatch, Claimed
  <2>3. /\ RowsKept(job[p].ids)
        /\ \A i \in job[p].ids : rows'[i].status = "running"
        /\ \A i \in Ids : SameReading(i) /\ rows'[i].available = rows[i].available
    BY <1>0, <2>2 DEF RowsKept, SameReading, SameWords, Row
  <2>4. TakesBatch(p)
    BY <1>9, <2>1, <2>3 DEF TakesBatch, ClaimBatch, At, Moves
  <2>. QED BY <2>4
<1>10. CASE StartRun(p)
  <2>1. job'[p].at = "running" /\ Same(p) /\ Others(p)
    BY <1>10, WentOn DEF StartRun
  <2>2. Prompts(p)
    BY <1>10, <2>1 DEF Prompts, StartRun, At, Moves
  <2>. QED BY <2>2
<1>11. CASE EndRun(p)
  <2>1. PICK ok \in BOOLEAN : Becomes(p, [job[p] EXCEPT !.at = "complete", !.ok = ok])
    BY <1>11 DEF EndRun
  <2>. DEFINE j == [job[p] EXCEPT !.at = "complete", !.ok = ok]
  <2>2. /\ j.at = "complete" /\ j.msg = job[p].msg /\ j.row = job[p].row
        /\ j.ids = job[p].ids /\ j.now = job[p].now /\ j.text = job[p].text
        /\ j.window = job[p].window /\ j.wait = job[p].wait
    BY <1>0 DEF Job
  <2>3. job'[p] = j /\ Others(p)
    BY <2>1, Became
  <2>. HIDE DEF j
  <2>4. Walks(p)
    BY <1>11, <2>2, <2>3 DEF Walks, EndRun, At, Moves, Same, NoWrite
  <2>. QED BY <2>4
<1>12. CASE CompleteBatch(p)
  <2>1. job'[p].at = "release" /\ Same(p) /\ Others(p)
    BY <1>12, WentOn DEF CompleteBatch
  <2>2. PICK broken \in BOOLEAN : rows' = Completed(job[p].ids, job[p].ok, broken)
    BY <1>12 DEF CompleteBatch
  <2>. DEFINE outcome == IF job[p].ok THEN "done" ELSE "failed"
  <2>3. \A i \in Ids : rows'[i] = IF i \in job[p].ids
                                  THEN [rows[i] EXCEPT !.status = outcome, !.brokenError = broken]
                                  ELSE rows[i]
    BY <2>2 DEF Completed
  <2>4. outcome \in {"done", "failed"}
    OBVIOUS
  <2>. HIDE DEF outcome
  <2>5. /\ RowsKept(job[p].ids)
        /\ \A i \in job[p].ids : rows'[i].status \in {"done", "failed"}
        /\ \A i \in Ids : SameWords(i) /\ rows'[i].available = rows[i].available
    BY <1>0, <2>3, <2>4 DEF RowsKept, SameWords, Row
  <2>6. Settles(p)
    BY <1>12, <2>1, <2>5 DEF Settles, CompleteBatch, At, Moves
  <2>. QED BY <2>6
<1>13. CASE ReleaseBatch(p)
  BY <1>13, WentOn, CameBack DEF ReleaseBatch, At, Walks, Returns, NoWrite, Moves, Claimants
<1>14. CASE SendReply(p)
  BY <1>14, CameBack DEF SendReply, At, Returns, Claimants
<1>. QED BY <1>1, <1>2, <1>3, <1>4, <1>5, <1>6, <1>7, <1>8, <1>9, <1>10, <1>11, <1>12,
            <1>13, <1>14 DEF Dispatch

\* Those of wait_for_response, which reads only.
LEMMA StepDoes ==
  ASSUME TypeInv, NEW p \in Procs, Step(p)
  PROVE  Does(p)
<1>1. CASE CheckResponse(p)
  <2>1. Walks(p) \/ Returns(p)
    BY <1>1, WentOn, CameBack, PlaceNames
    DEF CheckResponse, At, Walks, Returns, NoWrite, Moves, Claimants, tables
  <2>. QED BY <2>1 DEF Does
<1>. QED BY <1>1, EnqueueDoes, DispatchDoes DEF Step

\* Everything that can happen.
LEMMA NextDoes ==
  ASSUME TypeInv, [Next]_vars
  PROVE  Passes \/ \E p \in Procs : Begins(p) \/ Does(p)
<1>. USE DEF tables, history
<1>1. CASE Tick \/ UNCHANGED vars
  BY <1>1 DEF Tick, vars, Passes, TypeInv, TypeOK
<1>2. ASSUME NEW p \in Procs, BeginEnqueue(p)
      PROVE  Begins(p)
  <2>1. PICK m \in unsent : BeginEnqueue(p)!3!(m)
    BY <1>2 DEF BeginEnqueue
  <2>. DEFINE j == [Resting EXCEPT !.at = "find", !.msg = m, !.now = clock]
  <2>2. job'[p] = j /\ Others(p)
    BY <2>1, Became
  <2>3. j.at = "find" /\ j.msg = m /\ j.now = clock /\ j.row = 0 /\ j.ids = {} /\ j.wait = 0
    BY DEF Resting
  <2>. HIDE DEF j
  <2>. QED BY <1>2, <2>1, <2>2, <2>3 DEF BeginEnqueue, At, Begins, Moves
<1>3. ASSUME NEW p \in Procs, Step(p)
      PROVE  Does(p)
  BY <1>3, StepDoes
<1>4. ASSUME NEW p \in Procs, Crash(p)
      PROVE  Does(p)
  BY <1>4, CameBack DEF Crash, Returns, Does
<1>. QED BY <1>1, <1>2, <1>3, <1>4 DEF Next

-------------------------------------------------------------------------------
(* What the processes carry, however many there are.                       *)

\* A process in enqueue_request: its row is not stored yet; its row is stored
\* and its id not read back yet; it enforces the cap.
Storing == {"find", "merge", "count", "insert"}
Capping == {"cap", "anchor", "drop"}

\* From the group to the outcome.
Holding == {"lease", "claim"} \cup Claimants

\* A voice process enqueues messages of voice sessions, the others those of the
\* other sessions.  Whatever a voice process does after it has enqueued a message,
\* it waits for the row whose id it has; the others wait for none.
Roles(p) ==
  /\ p \notin Waiters => job[p].wait = 0
  /\ job[p].at \in Storing \cup Capping \cup {"readid"} =>
       job[p].msg \in Messages /\ (SessionOf[job[p].msg] \in VoiceSessions <=> p \in Waiters)
  /\ p \in Waiters /\ job[p].at \notin Storing \cup {"idle", "readid"} => job[p].wait # 0

\* The rows that a process names are in the table.
Known(p) ==
  \A i \in job[p].ids \cup {job[p].row, job[p].wait} : i # 0 => rows[i].status # "absent"

\* enqueue_request works on rows of the session of its message.
OwnSession(p) ==
  /\ job[p].at \in {"merge", "anchor"} =>
       job[p].row # 0 /\ rows[job[p].row].session = SessionOf[job[p].msg]
  /\ job[p].at \in {"anchor", "drop"} =>
       \A i \in job[p].ids : rows[i].session = SessionOf[job[p].msg]

\* A message arrives once: as long as its row is not stored, no row holds it, and no
\* text that was read to be merged with it.
Arrivals ==
  /\ accepted \cap unsent = {}
  /\ \A i \in Ids : /\ rows[i].text \subseteq accepted
                    /\ rows[i].status # "absent" => rows[i].text # {}
  /\ \A p \in Procs :
       /\ job[p].at \in Storing =>
            /\ job[p].msg \notin accepted \cup unsent
            /\ \A q \in Procs \ {p} : job[q].at \in Storing => job[p].msg # job[q].msg
       /\ job[p].at = "merge" => job[p].text # {} /\ job[p].text \subseteq accepted

\* A row of one message.
Holds(i, m) == rows[i].text = {m}

\* Such a message gets into the prompt of every run of its row: it is in the text
\* that the process has read, then in the prompt.
Promptings ==
  /\ \A p \in Procs, m \in Messages :
       /\ job[p].at = "group" /\ Holds(job[p].row, m) => m \in job[p].text
       /\ \A i \in job[p].ids :
            Holds(i, m) => /\ job[p].at \in {"lease", "claim", "claimed"} => m \in job[p].text
                           /\ job[p].at \in {"running", "complete"} => m \in prompted
  /\ \A i \in Ids, m \in Messages : rows[i].status = "done" /\ Holds(i, m) => m \in prompted

\* As long as no process has stopped, a running row is one that a process works on.
RunsOwned ==
  \A i \in Ids : rows[i].status = "running" =>
    \E p \in Procs : job[p].at \in Claimants /\ i \in job[p].ids

\* No time that was captured lies ahead, and no row waits for longer than a window.
Times ==
  /\ \A p \in Procs : job[p].now <= clock
  /\ \A i \in Ids :
       /\ rows[i].created <= clock
       /\ rows[i].status = "queued" => rows[i].available <= clock + AtLeastOne(Debounce)

SharedInv ==
  /\ TypeInv
  /\ FreshIds(rows, nextId)
  /\ \A p \in Procs : Roles(p) /\ Known(p) /\ OwnSession(p)
  /\ Arrivals
  /\ Promptings
  /\ Times
  /\ crashes = 0 => RunsOwned

\* A step of a process, as seen from the tables.
Moved == Passes \/ \E p \in Procs : Begins(p) \/ Does(p)

\* A process that waits is a voice process, and keeps waiting for its row.
LEMMA RolesStep ==
  ASSUME TypeInv, \A p \in Procs : Roles(p), Moved
  PROVE  \A p \in Procs : Roles(p)'
<1>. USE DEF Roles, Storing, Capping, Moves, Same, Others, Returned
<1>1. CASE Passes
  BY <1>1 DEF Passes
<1>2. ASSUME NEW p \in Procs, Begins(p) \/ Does(p)
      PROVE  Roles(p)'
  <2>1. CASE Begins(p)
    BY <2>1 DEF Begins, TypeInv, TypeOK
  <2>2. CASE Walks(p) \/ Returns(p) \/ Finds(p) \/ Counts(p) \/ Inserts(p)
    BY <2>2 DEF Walks, Returns, Finds, Counts, Inserts
  <2>3. CASE Merges(p) \/ ReadsBack(p)
    BY <2>3 DEF Merges, ReadsBack, WaitedRow, Ids, Newest, QueuedRows, QueuedOf
  <2>4. CASE Overflows(p) \/ Anchors(p) \/ Drops(p) \/ Expires(p) \/ Scans(p)
    BY <2>4 DEF Overflows, Anchors, Drops, Expires, Scans
  <2>5. CASE Requeues(p) \/ Picks(p) \/ Groups(p) \/ TakesBatch(p) \/ Prompts(p) \/ Settles(p)
    BY <2>5 DEF Requeues, Picks, Groups, TakesBatch, Prompts, Settles
  <2>. QED BY <1>2, <2>1, <2>2, <2>3, <2>4, <2>5 DEF Does
<1>3. ASSUME NEW p \in Procs, Begins(p) \/ Does(p), NEW q \in Procs \ {p}
      PROVE  Roles(q)'
  <2>1. job'[q] = job[q]
    BY <1>3 DEF Does, Begins, Walks, Returns, Finds, Counts, Inserts, Merges, ReadsBack, Overflows,
               Anchors, Drops, Expires, Scans, Requeues, Picks, Groups, TakesBatch, Prompts,
               Settles
  <2>. QED BY <2>1
<1>. QED BY <1>1, <1>2, <1>3 DEF Moved

\* No process but the one that moves has other local variables than before.
LEMMA OthersStay ==
  ASSUME NEW p \in Procs, Begins(p) \/ Does(p)
  PROVE  Others(p)
  BY DEF Does, Begins, Walks, Returns, Finds, Counts, Inserts, Merges, ReadsBack, Overflows,
         Anchors, Drops, Expires, Scans, Requeues, Picks, Groups, TakesBatch, Prompts, Settles

\* A row that is in the table stays there, in its session; ids are given out once.
RowsStay ==
  \A i \in Ids : rows[i].status # "absent" =>
    rows'[i].status # "absent" /\ rows'[i].session = rows[i].session

\* No step takes a row out of the table or moves it to another session.
LEMMA TableStep ==
  ASSUME TypeInv, FreshIds(rows, nextId), \A p \in Procs : Known(p), Moved
  PROVE  RowsStay /\ FreshIds(rows', nextId')
<1>. USE DEF RowsStay, FreshIds
<1>0. nextId \in Nat /\ \A i \in Ids : i \in Nat
  BY Parameters DEF TypeInv, TypeOK, Ids
<1>1. CASE UNCHANGED <<rows, nextId>>
  BY <1>1
<1>2. ASSUME NEW p \in Procs, Begins(p) \/ Does(p), ~UNCHANGED <<rows, nextId>>
      PROVE  RowsStay /\ FreshIds(rows', nextId')
  <2>1. \A i \in job[p].ids : i \in Ids /\ rows[i].status # "absent"
    BY DEF Known, TypeInv, TypeOK, Job, Ids
  <2>2. job[p].row \in Ids => rows[job[p].row].status # "absent"
    BY DEF Known, Ids
  <2>3. CASE Merges(p)
    BY <2>2, <2>3 DEF Merges, RowsKept
  <2>4. CASE Inserts(p)
    <3>1. rows[nextId].status = "absent" /\ rows'[nextId].status = "queued"
      BY <1>0, <2>4 DEF Inserts
    <3>2. nextId' = nextId + 1 /\ \A i \in Ids : i # nextId => rows'[i] = rows[i]
      BY <2>4 DEF Inserts, RowsKept
    <3>3. RowsStay
      BY <3>1, <3>2
    <3>4. FreshIds(rows', nextId')
      BY <1>0, <3>2
    <3>. QED BY <3>3, <3>4
  <2>5. CASE Anchors(p)
    BY <2>5 DEF Anchors, SameWords
  <2>6. CASE Drops(p)
    BY <2>1, <2>6 DEF Drops, RowsKept, SameWords
  <2>7. CASE Requeues(p)
    BY <2>1, <2>7 DEF Requeues, RowsKept, SameReading, SameWords
  <2>8. CASE TakesBatch(p)
    BY <2>1, <2>8 DEF TakesBatch, RowsKept, SameReading, SameWords
  <2>9. CASE Settles(p)
    BY <2>1, <2>9 DEF Settles, RowsKept, SameWords
  <2>10. ~(Begins(p) \/ Walks(p) \/ Returns(p) \/ Finds(p) \/ Counts(p) \/ ReadsBack(p)
             \/ Overflows(p) \/ Expires(p) \/ Scans(p) \/ Picks(p) \/ Groups(p) \/ Prompts(p))
    BY <1>2 DEF Begins, Walks, Returns, Finds, Counts, ReadsBack, Overflows, Expires, Scans,
                Picks, Groups, Prompts, NoWrite
  <2>. QED BY <1>2, <2>3, <2>4, <2>5, <2>6, <2>7, <2>8, <2>9, <2>10 DEF Does
<1>. QED BY <1>1, <1>2 DEF Moved, Passes

\* The rows that a process names stay in the table.
LEMMA KnownStep ==
  ASSUME TypeInv, FreshIds(rows, nextId), \A p \in Procs : Known(p), Moved
  PROVE  \A p \in Procs : Known(p)'
<1>. USE DEF Known
<1>0. RowsStay
  BY TableStep
<1>1. \A p \in Procs : \A i \in job[p].ids \cup {job[p].row, job[p].wait} :
         i # 0 => i \in Ids /\ rows'[i].status # "absent"
  BY <1>0 DEF RowsStay, TypeInv, TypeOK, Job
<1>2. CASE Passes
  BY <1>1, <1>2 DEF Passes
<1>3. ASSUME NEW p \in Procs, Begins(p) \/ Does(p)
      PROVE  Known(p)'
  <2>1. \A i \in job'[p].ids \cup {job'[p].row, job'[p].wait} :
          \/ i \in job[p].ids \cup {job[p].row, job[p].wait, 0}
          \/ i \in Ids /\ rows[i].status # "absent"
    <3>. USE DEF Same, Returned, QueuedRows, QueuedOf, ReadableIn
    <3>1. CASE Begins(p) \/ Walks(p) \/ Returns(p) \/ Finds(p) \/ Counts(p)
      BY <3>1 DEF Begins, Walks, Returns, Finds, Counts
    <3>2. CASE Inserts(p) \/ Anchors(p) \/ TakesBatch(p) \/ Prompts(p) \/ Settles(p)
      BY <3>2 DEF Inserts, Anchors, TakesBatch, Prompts, Settles
    <3>3. CASE Merges(p) \/ ReadsBack(p)
      BY <3>3 DEF Merges, ReadsBack, WaitedRow, Newest
    <3>4. CASE Overflows(p) \/ Drops(p) \/ Expires(p)
      BY <3>4 DEF Overflows, Drops, Expires
    <3>5. CASE Scans(p) \/ Requeues(p) \/ Picks(p)
      BY <3>5 DEF Scans, Requeues, Picks, Oldest, Due
    <3>6. CASE Groups(p)
      BY <3>6 DEF Groups, Burst
    <3>. QED BY <1>3, <3>1, <3>2, <3>3, <3>4, <3>5, <3>6 DEF Does
  <2>. QED BY <1>0, <1>1, <2>1 DEF RowsStay
<1>4. ASSUME NEW p \in Procs, Begins(p) \/ Does(p), NEW q \in Procs \ {p}
      PROVE  Known(q)'
  BY <1>1, <1>4, OthersStay DEF Others
<1>. QED BY <1>2, <1>3, <1>4 DEF Moved

\* enqueue_request stays within the session of its message.
LEMMA OwnSessionStep ==
  ASSUME TypeInv, FreshIds(rows, nextId), Moved,
         \A p \in Procs : Known(p) /\ OwnSession(p)
  PROVE  \A p \in Procs : OwnSession(p)'
<1>. USE DEF OwnSession
<1>0. RowsStay
  BY TableStep
<1>1. \A p \in Procs : \A i \in job[p].ids \cup {job[p].row} :
         i # 0 => i \in Ids /\ rows'[i].session = rows[i].session
  BY <1>0 DEF RowsStay, Known, TypeInv, TypeOK, Job
<1>2. \A p \in Procs : 0 \notin job[p].ids
  BY DEF TypeInv, TypeOK, Job, Ids
<1>3. CASE Passes
  BY <1>3 DEF Passes
<1>4. ASSUME NEW p \in Procs, Begins(p) \/ Does(p)
      PROVE  OwnSession(p)'
  <2>1. CASE job'[p].at \notin {"merge", "anchor", "drop"}
    BY <2>1
  <2>2. CASE Finds(p)
    BY <2>2 DEF Finds, Moves, NoWrite, QueuedRows, QueuedOf, Ids
  <2>3. CASE Overflows(p)
    BY <2>3 DEF Overflows, Moves, NoWrite, QueuedRows, QueuedOf, ReadableIn, Ids
  <2>4. CASE Anchors(p)
    BY <1>1, <1>2, <2>4 DEF Anchors, Moves, Same
  <2>5. CASE Drops(p)
    BY <1>1, <1>2, <2>5 DEF Drops, Returned
  <2>6. job'[p].at \in {"merge", "anchor", "drop"} => Finds(p) \/ Overflows(p) \/ Anchors(p) \/ Drops(p)
    BY <1>4 DEF Moves, Does, Begins, Walks, Returns, Returned, Counts, Inserts, Merges, ReadsBack,
                Expires, Scans, Requeues, Picks, Groups, TakesBatch, Prompts, Settles
  <2>. QED BY <2>1, <2>2, <2>3, <2>4, <2>5, <2>6
<1>5. ASSUME NEW p \in Procs, Begins(p) \/ Does(p), NEW q \in Procs \ {p}
      PROVE  OwnSession(q)'
  BY <1>1, <1>2, <1>5, OthersStay DEF Others
<1>. QED BY <1>3, <1>4, <1>5 DEF Moved

\* Only the merge and the insert store a text; only an arriving message leaves unsent.
LEMMA TextsStay ==
  ASSUME NEW p \in Procs, Begins(p) \/ Does(p), ~Merges(p), ~Inserts(p)
  PROVE  /\ accepted' = accepted
         /\ \A i \in Ids : SameWords(i)
         /\ ~Begins(p) => unsent' = unsent
<1>. USE DEF SameWords
<1>1. CASE UNCHANGED <<rows, accepted>>
  BY <1>1 DEF Does, Begins, Walks, Returns, Finds, Counts, ReadsBack, Overflows,
         Anchors, Drops, Expires, Scans, Requeues, Picks, Groups, TakesBatch, Prompts, Settles,
         NoWrite
<1>2. CASE Anchors(p) \/ TakesBatch(p) \/ Settles(p)
  BY <1>2 DEF Anchors, TakesBatch, Settles, SameReading
<1>3. CASE Drops(p) \/ Requeues(p)
  BY <1>3 DEF Drops, Requeues, SameReading, RowsKept
<1>. QED BY <1>1, <1>2, <1>3 DEF Does, Begins, Walks, Returns, Finds, Counts, ReadsBack,
            Overflows, Expires, Scans, Picks, Groups, Prompts, NoWrite

\* A process that stores a message has been at it since the message arrived.
LEMMA StoringStep ==
  ASSUME NEW p \in Procs, Does(p), job'[p].at \in Storing
  PROVE  /\ job[p].at \in Storing /\ job'[p].msg = job[p].msg /\ ~Merges(p) /\ ~Inserts(p)
         /\ job'[p].now = job[p].now
         /\ job'[p].at = "merge" => Finds(p)
  BY DEF Storing, Moves, Same, Does, Walks, Returns, Returned, Finds, Counts, Inserts, Merges,
         ReadsBack, Overflows, Anchors, Drops, Expires, Scans, Requeues, Picks, Groups,
         TakesBatch, Prompts, Settles

\* A message arrives once.
LEMMA ArrivalsStep ==
  ASSUME TypeInv, FreshIds(rows, nextId), \A p \in Procs : Known(p), Arrivals, Moved
  PROVE  Arrivals'
<1>. USE DEF Arrivals
<1>0. TypeInv => /\ \A p \in Procs : job[p].at = "insert" \/ job[p].at = "merge" => job[p].msg \in Messages
                 /\ nextId \in Nat
  BY DEF TypeInv, TypeOK, Ready
<1>1. CASE Passes
  BY <1>1 DEF Passes
<1>2. ASSUME NEW p \in Procs, Begins(p)
      PROVE  Arrivals'
  <2>1. /\ Others(p) /\ rows' = rows /\ accepted' = accepted
        /\ job'[p].msg \in unsent /\ unsent' = unsent \ {job'[p].msg}
        /\ job'[p].at = "find"
    BY <1>2 DEF Begins, Moves
  <2>2. (accepted \cap unsent = {})'
    BY <2>1
  <2>3. \A q \in Procs \ {p} : job'[q] = job[q]
    BY <2>1 DEF Others
  <2>. QED BY <2>1, <2>2, <2>3 DEF Storing
<1>3. ASSUME NEW p \in Procs, Merges(p) \/ Inserts(p)
      PROVE  Arrivals'
  <2>. DEFINE m == job[p].msg
  <2>1. /\ accepted' = accepted \cup {m} /\ unsent' = unsent
        /\ job'[p].at \notin Storing /\ job'[p].at # "merge" /\ Others(p)
        /\ job[p].at \in Storing
    BY <1>3 DEF Merges, Inserts, Moves, Storing
  <2>2. m \notin accepted \cup unsent
    BY <2>1
  <2>3. \A i \in Ids : \/ rows'[i] = rows[i]
                       \/ m \in rows'[i].text /\ rows'[i].text \subseteq accepted \cup {m}
    <3>1. CASE Merges(p)
      BY <3>1 DEF Merges, RowsKept, Moves
    <3>2. CASE Inserts(p)
      BY <3>2 DEF Inserts, RowsKept
    <3>. QED BY <1>3, <3>1, <3>2
  <2>4. \A q \in Procs \ {p} : job'[q] = job[q]
    BY <2>1 DEF Others
  <2>. QED BY <2>1, <2>2, <2>3, <2>4
<1>4. ASSUME NEW p \in Procs, Does(p), ~Merges(p), ~Inserts(p), ~Begins(p)
      PROVE  Arrivals'
  <2>1. accepted' = accepted /\ unsent' = unsent /\ \A i \in Ids : rows'[i].text = rows[i].text
    BY <1>4, TextsStay DEF SameWords
  <2>2. \A i \in Ids : rows'[i].status # "absent" => rows[i].status # "absent"
    <3>1. CASE Drops(p) \/ Requeues(p)
      <4>1. \A i \in job[p].ids : i # 0 => rows[i].status # "absent"
        BY DEF Known
      <4>. QED BY <3>1, <4>1 DEF Drops, Requeues, RowsKept, Ids
    <3>2. CASE TakesBatch(p) \/ Settles(p)
      <4>1. \A i \in Ids : i \in job[p].ids => rows[i].status # "absent"
        BY DEF Known, Ids
      <4>. QED BY <3>2, <4>1 DEF TakesBatch, Settles, RowsKept
    <3>3. CASE Anchors(p)
      BY <3>3 DEF Anchors
    <3>. QED BY <1>4, <3>1, <3>2, <3>3 DEF Does, Walks, Returns, Finds, Counts, ReadsBack,
                Overflows, Expires, Scans, Picks, Groups, Prompts, NoWrite
  <2>3. job'[p].at \in Storing =>
          job[p].at \in Storing /\ job'[p].msg = job[p].msg
    BY <1>4, StoringStep
  <2>4. job'[p].at = "merge" => job'[p].text # {} /\ job'[p].text \subseteq accepted
    <3>1. job'[p].at = "merge" => Finds(p)
      BY <1>4, StoringStep DEF Storing
    <3>2. Finds(p) => \E i \in Ids : job'[p].text = rows[i].text /\ rows[i].status = "queued"
      BY DEF Finds, QueuedRows, QueuedOf
    <3>. QED BY <3>1, <3>2
  <2>5. \A q \in Procs \ {p} : job'[q] = job[q]
    BY <1>4, OthersStay DEF Others
  <2>. QED BY <2>1, <2>2, <2>3, <2>4, <2>5
<1>. QED BY <1>1, <1>2, <1>3, <1>4 DEF Moved

\* A row that was merged into holds two messages, for ever.
LEMMA MergedIsPlural ==
  ASSUME Arrivals, NEW p \in Procs, Merges(p), NEW m
  PROVE  rows'[job[p].row].text # {m}
<1>1. job[p].text # {} /\ job[p].text \subseteq accepted /\ job[p].msg \notin accepted
  BY DEF Arrivals, Merges, Moves, Storing
<1>2. rows'[job[p].row].text = job[p].text \cup {job[p].msg}
  BY DEF Merges
<1>. QED BY <1>1, <1>2

\* A row of one message that was in the table before the step was such a row then.
LEMMA HoldsStep ==
  ASSUME Arrivals, FreshIds(rows, nextId), Moved, TypeInv,
         NEW i \in Ids, NEW m, rows[i].status # "absent", Holds(i, m)'
  PROVE  Holds(i, m)
<1>. USE DEF Holds
<1>1. CASE Passes
  BY <1>1 DEF Passes
<1>2. ASSUME NEW p \in Procs, Merges(p)
      PROVE  Holds(i, m)
  BY <1>2, MergedIsPlural DEF Merges, RowsKept
<1>3. ASSUME NEW p \in Procs, Inserts(p)
      PROVE  Holds(i, m)
  BY <1>3 DEF Inserts, RowsKept, FreshIds, TypeInv, TypeOK
<1>4. ASSUME NEW p \in Procs, Begins(p) \/ Does(p), ~Merges(p), ~Inserts(p)
      PROVE  Holds(i, m)
  BY <1>4, TextsStay DEF SameWords
<1>. QED BY <1>1, <1>2, <1>3, <1>4 DEF Moved

\* A message that is alone in a row is in the prompt of every run of the row.
LEMMA PromptingsStep ==
  ASSUME TypeInv, FreshIds(rows, nextId), \A p \in Procs : Known(p), Arrivals, Promptings, Moved
  PROVE  Promptings'
<1>. DEFINE Carried(p, m) ==
       /\ job[p].at = "group" /\ Holds(job[p].row, m) => m \in job[p].text
       /\ \A i \in job[p].ids :
            Holds(i, m) => /\ job[p].at \in {"lease", "claim", "claimed"} => m \in job[p].text
                           /\ job[p].at \in {"running", "complete"} => m \in prompted
            Answered(i, m) == rows[i].status = "done" /\ Holds(i, m) => m \in prompted
<1>0. /\ \A p \in Procs, m \in Messages : Carried(p, m)
      /\ \A i \in Ids, m \in Messages : Answered(i, m)
  BY DEF Promptings
<1>1. \A p \in Procs : /\ \A i \in job[p].ids : i \in Ids /\ rows[i].status # "absent"
                       /\ job[p].at = "group" => job[p].row \in Ids /\ rows[job[p].row].status # "absent"
  BY DEF Known, TypeInv, TypeOK, Job, Ids, Ready
<1>2. \A i \in Ids, m \in Messages : rows[i].status # "absent" /\ Holds(i, m)' => Holds(i, m)
  BY HoldsStep
<1>3. prompted \subseteq prompted'
  <2>1. ASSUME NEW p \in Procs, Begins(p) \/ Does(p) PROVE prompted \subseteq prompted'
    BY <2>1 DEF Does, Begins, Walks, Returns, Finds, Counts, Inserts, Merges, ReadsBack, Overflows,
         Anchors, Drops, Expires, Scans, Requeues, Picks, Groups, TakesBatch, Prompts, Settles,
         NoWrite
  <2>. QED BY <2>1 DEF Moved, Passes
<1>4. ASSUME NEW p \in Procs, job'[p] = job[p], NEW m \in Messages
      PROVE  Carried(p, m)'
  BY <1>0, <1>1, <1>2, <1>3, <1>4 DEF Holds
<1>5. ASSUME NEW p \in Procs, Begins(p) \/ Does(p), NEW m \in Messages
      PROVE  Carried(p, m)'
  <2>1. CASE job'[p].at \notin {"group"} \cup Holding
    BY <2>1 DEF Holding, Claimants
  <2>2. CASE Picks(p)
    BY <2>2 DEF Picks, Moves, NoWrite, Holds
  <2>3. CASE Groups(p)
    <3>. DEFINE burst == Burst(job[p].row, job[p].now, job[p].window)
    <3>1. /\ job'[p].at = "lease" /\ job'[p].ids = burst \cup {job[p].row}
          /\ job'[p].text = job[p].text \cup TextOf(burst) /\ rows' = rows
      BY <2>3 DEF Groups, Moves, NoWrite
    <3>2. ASSUME NEW i \in burst, rows[i].text = {m} PROVE m \in TextOf(burst)
      BY <3>2 DEF TextOf
    <3>3. rows[job[p].row].text = {m} => m \in job[p].text
      BY <1>0, <2>3 DEF Groups, Moves, Holds
    <3>. HIDE DEF burst
    <3>. QED BY <3>1, <3>2, <3>3 DEF Holds
  <2>4. CASE Walks(p) /\ job[p].at \in {"lease", "running"}
    BY <1>0, <2>4 DEF Walks, Same, Moves, NoWrite, Holds
  <2>5. CASE TakesBatch(p)
    BY <1>0, <1>1, <1>2, <2>5 DEF TakesBatch, Same, Moves, Holds
  <2>6. CASE Prompts(p)
    BY <1>0, <2>6 DEF Prompts, Same, Moves, Holds
  <2>7. job'[p].at \in {"group"} \cup Holding =>
          \/ Picks(p) \/ Groups(p) \/ TakesBatch(p) \/ Prompts(p)
          \/ Walks(p) /\ job[p].at \in {"lease", "running"}
    BY <1>5 DEF Holding, Claimants, Moves, Does, Begins, Walks, Returns, Returned, Finds, Counts,
                Inserts, Merges, ReadsBack, Overflows, Anchors, Drops, Expires, Scans, Requeues,
                Settles
  <2>. QED BY <2>1, <2>2, <2>3, <2>4, <2>5, <2>6, <2>7
<1>6. ASSUME NEW i \in Ids, NEW m \in Messages
      PROVE  Answered(i, m)'
  <2>1. CASE rows[i].status = "done"
    BY <1>0, <1>2, <1>3, <2>1
  <2>2. ASSUME NEW p \in Procs, Settles(p), i \in job[p].ids
        PROVE  Answered(i, m)'
    <3>1. Holds(i, m)' => m \in prompted
      BY <1>0, <1>1, <1>2, <2>2 DEF Settles, Moves
    <3>. QED BY <1>3, <3>1
  <2>3. ASSUME rows[i].status # "done", rows'[i].status = "done"
        PROVE  \E p \in Procs : Settles(p) /\ i \in job[p].ids
    <3>1. ~Passes
      BY <2>3 DEF Passes
    <3>2. PICK p \in Procs : Begins(p) \/ Does(p)
      BY <3>1 DEF Moved
    <3>3. ~(Merges(p) \/ Inserts(p) \/ Anchors(p) \/ Drops(p) \/ Requeues(p) \/ TakesBatch(p))
      BY <2>3 DEF Merges, Inserts, Anchors, Drops, Requeues, TakesBatch, RowsKept
    <3>4. Settles(p)
      BY <2>3, <3>2, <3>3 DEF Does, Begins, Walks, Returns, Finds, Counts, ReadsBack, Overflows,
                              Expires, Scans, Picks, Groups, Prompts, NoWrite
    <3>. QED BY <2>3, <3>4 DEF Settles, RowsKept
  <2>. QED BY <2>1, <2>2, <2>3
<1>7. \A p \in Procs, m \in Messages : Carried(p, m)'
  BY <1>4, <1>5, OthersStay DEF Moved, Passes, Others
<1>. QED BY <1>6, <1>7 DEF Promptings

\* Times that were captured lie behind.
LEMMA TimesStep ==
  ASSUME TypeInv, TypeInv', FreshIds(rows, nextId), \A p \in Procs : Known(p), Times, Moved
  PROVE  Times'
<1>. USE DEF Times
<1>. DEFINE d == AtLeastOne(Debounce)
<1>0. /\ clock \in Nat /\ clock' \in Nat /\ d \in Nat
      /\ \A p \in Procs : job[p].now \in Nat /\ job'[p].now \in Nat
      /\ \A i \in Ids : /\ rows[i].created \in Nat /\ rows'[i].created \in Nat
                        /\ rows[i].available \in Nat /\ rows'[i].available \in Nat
  BY Parameters DEF TypeInv, TypeOK, Job, Row
<1>. HIDE DEF d
<1>1. CASE Passes
  <2>1. clock <= clock' /\ rows' = rows /\ job' = job
    BY <1>1 DEF Passes
  <2>. QED BY <1>0, <2>1 DEF d
<1>2. ASSUME NEW p \in Procs, Begins(p) \/ Does(p)
      PROVE  Times'
  <2>1. clock' = clock
    BY <1>2 DEF Does, Begins, Walks, Returns, Finds, Counts, Inserts, Merges, ReadsBack, Overflows,
         Anchors, Drops, Expires, Scans, Requeues, Picks, Groups, TakesBatch, Prompts, Settles,
         NoWrite
  <2>2. job'[p].now <= clock
    <3>1. job'[p].now \in {0, clock, job[p].now}
      BY <1>2 DEF Same, Returned, Does, Begins, Walks, Returns, Finds, Counts, Inserts, Merges,
         ReadsBack, Overflows, Anchors, Drops, Expires, Scans, Requeues, Picks, Groups, TakesBatch,
         Prompts, Settles
    <3>. QED BY <1>0, <3>1
  <2>3. \A q \in Procs : job'[q].now <= clock
    BY <1>2, <2>2, OthersStay DEF Others
  <2>4. \A i \in Ids :
          /\ rows'[i].created = rows[i].created \/ rows'[i].created = job[p].now
          /\ rows'[i].status = "queued" =>
               \/ rows[i].status = "queued" /\ rows'[i].available = rows[i].available
               \/ rows'[i].available = job[p].now + d
               \/ rows'[i].available = job[p].now
    <3>1. CASE UNCHANGED rows
      BY <3>1
    <3>2. CASE Merges(p)
      BY <3>2 DEF Merges, RowsKept, d
    <3>3. CASE Inserts(p)
      <4>1. FirstAvailable(p) \in {job[p].now, job[p].now + d}
        BY <1>0 DEF FirstAvailable, d
      <4>. QED BY <3>3, <4>1 DEF Inserts, RowsKept
    <3>4. CASE Anchors(p)
      BY <3>4 DEF Anchors, SameWords
    <3>5. CASE Drops(p)
      BY <3>5 DEF Drops, RowsKept, SameWords
    <3>6. CASE Requeues(p)
      BY <3>6 DEF Requeues, RowsKept, SameReading, SameWords
    <3>7. CASE TakesBatch(p)
      BY <3>7 DEF TakesBatch, RowsKept, SameReading, SameWords
    <3>8. CASE Settles(p)
      BY <3>8 DEF Settles, RowsKept, SameWords
    <3>. QED BY <1>2, <3>1, <3>2, <3>3, <3>4, <3>5, <3>6, <3>7, <3>8
         DEF Does, Begins, Walks, Returns, Finds, Counts, ReadsBack, Overflows, Expires, Scans,
             Picks, Groups, Prompts, NoWrite
  <2>5. job[p].now <= clock
    OBVIOUS
  <2>6. ASSUME NEW i \in Ids
        PROVE  /\ rows'[i].created <= clock
               /\ rows'[i].status = "queued" => rows'[i].available <= clock + d
    <3>1. rows[i].created <= clock /\ (rows[i].status = "queued" => rows[i].available <= clock + d)
      BY DEF d
    <3>. QED BY <1>0, <2>4, <2>5, <3>1
  <2>. QED BY <2>1, <2>3, <2>6 DEF d
<1>. QED BY <1>1, <1>2 DEF Moved

\* As long as no process has stopped, every running row is worked on.
LEMMA RunsStep ==
  ASSUME TypeInv, RunsOwned, Moved, crashes' = crashes
  PROVE  RunsOwned'
<1>. USE DEF RunsOwned, Claimants
<1>1. CASE Passes
  BY <1>1 DEF Passes
<1>2. ASSUME NEW p \in Procs, Begins(p) \/ Does(p)
      PROVE  RunsOwned'
  <2>1. \A q \in Procs \ {p} : job'[q] = job[q]
    BY <1>2, OthersStay DEF Others
  <2>2. CASE TakesBatch(p)
    BY <2>1, <2>2 DEF TakesBatch, Same, Moves, RowsKept
  <2>3. CASE Settles(p)
    BY <2>1, <2>3 DEF Settles, Same, Moves, RowsKept
  <2>4. CASE ~TakesBatch(p) /\ ~Settles(p)
    <3>1. \A i \in Ids : rows'[i].status = "running" => rows[i].status = "running"
      BY <1>2, <2>4 DEF Does, Begins, Walks, Returns, Finds, Counts, Inserts, Merges, ReadsBack,
         Overflows, Anchors, Drops, Expires, Scans, Requeues, Picks, Groups, Prompts, NoWrite,
         RowsKept
    <3>2. job[p].at \in Claimants => job'[p].at \in Claimants /\ job'[p].ids = job[p].ids
      <4>1. ~(Returns(p) /\ job[p].at \in Claimants)
        BY DEF Returns, TypeInv, TypeOK
      <4>. QED BY <1>2, <2>4, <4>1 DEF Moves, Same, Does, Begins, Walks, Finds, Counts, Inserts,
          Merges, ReadsBack, Overflows, Anchors, Drops, Expires, Scans, Requeues, Picks,
         Groups, Prompts
    <3>. QED BY <2>1, <3>1, <3>2
  <2>. QED BY <2>2, <2>3, <2>4
<1>. QED BY <1>1, <1>2 DEF Moved

\* Crashes are counted.
LEMMA CrashStep ==
  ASSUME TypeInv, Moved
  PROVE  crashes' \in {crashes, crashes + 1} /\ (crashes' = 0 => crashes = 0)
<1>1. ASSUME NEW p \in Procs, Begins(p) \/ Does(p)
      PROVE  crashes' \in {crashes, crashes + 1}
  <2>1. CASE Returns(p)
    BY <2>1 DEF Returns
  <2>2. CASE ~Returns(p)
    <3>1. crashes' = crashes
      BY <1>1, <2>2 DEF Does, Begins, Walks, Finds, Counts, Inserts, Merges, ReadsBack,
         Overflows, Anchors, Drops, Expires, Scans, Requeues, Picks, Groups, TakesBatch, Prompts,
         Settles, NoWrite
    <3>. QED BY <3>1
  <2>. QED BY <2>1, <2>2
<1>2. crashes' \in {crashes, crashes + 1}
  BY <1>1 DEF Moved, Passes
<1>. QED BY <1>2 DEF TypeInv, TypeOK

\* The empty database and processes at rest.
LEMMA SharedInit == Init => SharedInv
<1>. SUFFICES ASSUME Init PROVE SharedInv
  OBVIOUS
<1>1. /\ \A i \in Ids : rows[i].status = "absent" /\ rows[i].text = {} /\ rows[i].created = 0
      /\ \A p \in Procs : job[p] = Resting
      /\ clock = 0 /\ accepted = {} /\ crashes = 0
  <2>1. AbsentRow.status = "absent" /\ AbsentRow.text = {} /\ AbsentRow.created = 0
    BY DEF AbsentRow
  <2>. QED BY <2>1 DEF Init
<1>2. FreshIds(rows, nextId)
  BY <1>1 DEF FreshIds
<1>3. \A p \in Procs : Roles(p) /\ Known(p) /\ OwnSession(p)
  BY <1>1 DEF Roles, Known, OwnSession, Resting, Storing, Capping
<1>4. Arrivals
  BY <1>1 DEF Arrivals, Resting, Storing
<1>5. Promptings
  BY <1>1 DEF Promptings, Resting
<1>6. Times
  BY <1>1 DEF Times, Resting
<1>7. RunsOwned
  BY <1>1 DEF RunsOwned
<1>. QED BY <1>2, <1>3, <1>4, <1>5, <1>6, <1>7, TypeInit DEF SharedInv

\* The parts together.
LEMMA SharedStep ==
  ASSUME SharedInv, [Next]_vars
  PROVE  SharedInv' /\ Moved
<1>. USE DEF SharedInv
<1>1. Moved /\ TypeInv'
  BY NextDoes, TypeStep DEF Moved
<1>2. FreshIds(rows, nextId)' /\ \A p \in Procs : Roles(p)' /\ Known(p)' /\ OwnSession(p)'
  BY <1>1, TableStep, RolesStep, KnownStep, OwnSessionStep
<1>3. Arrivals' /\ Promptings' /\ Times'
  BY <1>1, ArrivalsStep, PromptingsStep, TimesStep
<1>4. (crashes = 0 => RunsOwned)'
  BY <1>1, RunsStep, CrashStep
<1>. QED BY <1>1, <1>2, <1>3, <1>4

\* However many processes use the queue and however often they stop, merge and put
\* rows back: a message that is alone in a row that is done was in a prompt
\* (enqueue_request and complete_batch in core/inbound_queue.rs).
THEOREM SoleMessageIsPrompted ==
  Spec => [](\A i \in Ids, m \in Messages :
               rows[i].status = "done" /\ Holds(i, m) => m \in prompted)
<1>1. SharedInv /\ [Next]_vars => SharedInv'
  BY SharedStep
<1>2. SharedInv => \A i \in Ids, m \in Messages :
                     rows[i].status = "done" /\ Holds(i, m) => m \in prompted
  BY DEF SharedInv, Promptings
<1>. QED BY SharedInit, <1>1, <1>2, PTL DEF Spec

-------------------------------------------------------------------------------
(* The row whose id is read back.                                          *)

SessionRows(p) == {i \in Ids : rows[i].status # "absent" /\ rows[i].session = SessionOf[job[p].msg]}

\* The loop of recover_stale_leases.
Requeuing == {"requeue", "unlease"}

\* One `serve`, and one voice process beside it.
OneServe ==
  /\ \A p, q \in Waiters : p = q
  /\ \A p, q \in Procs \ Waiters : p = q

\* While a voice process stores its message, no row of its session is newer, and
\* none becomes due later than the row it is about to insert.
NothingNewer(p) ==
  /\ job[p].at \in Storing \cup {"readid"} =>
       /\ \A q \in Procs : job[q].at \in Requeuing => job[q].now <= job[p].now
       /\ \A i \in SessionRows(p) : rows[i].created <= job[p].now
  /\ job[p].at \in Storing =>
       \A i \in QueuedRows(p) : rows[i].available <= job[p].now + AtLeastOne(Debounce)
  /\ job[p].at = "insert" /\ job[p].ok =>
       \A i \in QueuedRows(p) : rows[i].available <= job[p].now

\* k is the row that p has inserted: the last of its session in every order that the
\* queue knows.
Inserted(p, k) ==
  /\ k \in SessionRows(p) /\ Holds(k, job[p].msg)
  /\ rows[k].created = job[p].now
  /\ rows[k].available >= job[p].now
  /\ \A i \in SessionRows(p) : i <= k
  /\ \A i \in QueuedRows(p) : rows[i].available <= rows[k].available
  /\ \A q \in Procs : job[q].at \in Requeuing => k \notin job[q].ids

\* A process that is about to claim k claims with it every row of the session that
\* can be read.
ClaimsAll(p, q, k) ==
  /\ job[q].at = "group" /\ job[q].row = k =>
       /\ rows[k].created <= job[q].window
       /\ \A i \in ReadableIn(QueuedRows(p)) :
            rows[k].created <= rows[i].created /\ rows[i].available <= job[q].now
  /\ job[q].at \in {"lease", "claim"} /\ k \in job[q].ids =>
       ReadableIn(QueuedRows(p)) \subseteq job[q].ids

\* Until the id is read back, k is still there to be found, or no row is there that
\* could be answered, or the message is in a prompt already.
InReach(p, k) ==
  \/ job[p].msg \in prompted
  \/ rows[k].status = "queued" /\ \A q \in Procs : ClaimsAll(p, q, k)
  \/ \E q \in Procs : /\ job[q].at = "claimed" /\ k \in job[q].ids
                      /\ \A i \in QueuedRows(p) : i \notin job[q].ids /\ ~Readable(rows[i])

ReadBackInv(p) ==
  /\ NothingNewer(p)
  /\ job[p].at = "readid" => \E k \in Ids : Inserted(p, k) /\ InReach(p, k)

\* A row that will never be done and readable: it holds two messages, or it cannot be
\* read and nothing is about to be done to it.
Plural(i) == \E a, b \in rows[i].text : a # b

Untouched(i) ==
  \A p \in Procs : /\ job[p].at \in Holding \cup {"anchor", "drop"} => i \notin job[p].ids
                   /\ job[p].at \in {"group", "anchor"} => i # job[p].row

Hopeless(i) == Plural(i) \/ (~Readable(rows[i]) /\ Untouched(i))

\* The row that a process waits for holds its message alone or will not be answered.
RightRow(p) ==
  job[p].wait # 0 =>
    \/ job[p].msg \in prompted
    \/ Holds(job[p].wait, job[p].msg)
    \/ Hopeless(job[p].wait)

\* What the other process does to a row of the session in which a voice process
\* stores its message: it puts it back, claims it or settles it, and leaves what the
\* row says as it is.
LEMMA SessionStep ==
  ASSUME SharedInv, NEW v \in Waiters, NEW r \in Procs \ Waiters, Begins(r) \/ Does(r),
         job[v].at \in Storing \cup {"readid"},
         NEW i \in Ids, rows'[i].status # "absent",
         rows'[i].session = SessionOf[job[v].msg]
  PROVE  /\ i \in SessionRows(v) /\ SameWords(i)
         /\ ~Settles(r) => SameReading(i)
         /\ \/ rows'[i] = rows[i]
            \/ Requeues(r) /\ i \in job[r].ids /\ rows'[i].available = job[r].now
            \/ /\ TakesBatch(r) /\ i \in job[r].ids /\ rows'[i].status = "running"
               /\ rows'[i].available = rows[i].available
            \/ /\ Settles(r) /\ i \in job[r].ids /\ rows'[i].status \in {"done", "failed"}
               /\ rows'[i].available = rows[i].available
<1>0. /\ v \in Procs
      /\ SessionOf[job[v].msg] \in VoiceSessions
      /\ job[r].at \in Storing \cup Capping => SessionOf[job[r].msg] \notin VoiceSessions
  BY ConstantsAssumption DEF ConstantsAssumption, SharedInv, Roles
<1>1. OwnSession(r) /\ Known(r) /\ TypeInv
  BY DEF SharedInv
<1>2. /\ \A j \in job[r].ids : rows[j].status # "absent"
      /\ 0 \notin job[r].ids
  BY <1>1 DEF Known, TypeInv, TypeOK, Job, Ids
<1>3. CASE rows'[i] = rows[i]
  BY <1>3 DEF SessionRows, SameWords, SameReading
<1>4. CASE Merges(r)
  <2>1. /\ rows'[job[r].row].session = SessionOf[job[r].msg]
        /\ SessionOf[job[r].msg] \notin VoiceSessions
    BY <1>0, <1>1, <1>4 DEF Merges, Moves, OwnSession, Storing
  <2>. QED BY <1>0, <1>3, <1>4, <2>1 DEF Merges, RowsKept
<1>5. CASE Inserts(r)
  <2>1. /\ rows'[nextId].session = SessionOf[job[r].msg]
        /\ SessionOf[job[r].msg] \notin VoiceSessions
    BY <1>0, <1>5 DEF Inserts, Moves, Storing
  <2>. QED BY <1>0, <1>3, <1>5, <2>1 DEF Inserts, RowsKept
<1>6. CASE Anchors(r)
  <2>1. /\ rows'[i].session = rows[i].session
        /\ rows[job[r].row].session \notin VoiceSessions
    BY <1>0, <1>1, <1>6 DEF Anchors, SameWords, Moves, OwnSession, Capping
  <2>. QED BY <1>0, <1>3, <1>6, <2>1 DEF Anchors, RowsKept
<1>7. CASE Drops(r)
  <2>1. \A j \in job[r].ids : rows[j].session \notin VoiceSessions
    BY <1>0, <1>1, <1>7 DEF Drops, OwnSession, Capping
  <2>. QED BY <1>0, <1>3, <1>7, <2>1 DEF Drops, RowsKept, SameWords
<1>8. CASE Requeues(r)
  <2>1. rows'[i] = rows[i] \/
          (i \in job[r].ids /\ SameReading(i) /\ rows'[i].available = job[r].now)
    BY <1>8 DEF Requeues, RowsKept
  <2>. QED BY <1>2, <1>3, <1>8, <2>1 DEF SameReading, SameWords, SessionRows
<1>9. CASE TakesBatch(r)
  <2>1. \/ rows'[i] = rows[i]
        \/ /\ i \in job[r].ids /\ SameReading(i) /\ rows'[i].status = "running"
           /\ rows'[i].available = rows[i].available
    BY <1>9 DEF TakesBatch, RowsKept
  <2>. QED BY <1>2, <1>3, <1>9, <2>1 DEF SameReading, SameWords, SessionRows
<1>10. CASE Settles(r)
  <2>1. \/ rows'[i] = rows[i]
        \/ /\ i \in job[r].ids /\ SameWords(i) /\ rows'[i].status \in {"done", "failed"}
           /\ rows'[i].available = rows[i].available
    BY <1>10 DEF Settles, RowsKept
  <2>. QED BY <1>2, <1>3, <1>10, <2>1 DEF SameWords, SessionRows
<1>. QED BY <1>3, <1>4, <1>5, <1>6, <1>7, <1>8, <1>9, <1>10
     DEF Does, Begins, Walks, Returns, Finds, Counts, ReadsBack, Overflows, Expires, Scans,
         Picks, Groups, Prompts, NoWrite

\* While the voice process stores its message nobody works on a batch, so the other
\* process finds nothing to put back.
LEMMA NothingToPutBack ==
  ASSUME OneServe, SharedInv, crashes = 0, NEW v \in Waiters, NEW r \in Procs \ {v},
         Begins(r) \/ Does(r), job[v].at \in Storing \cup {"readid"},
         job'[r].at \in Requeuing
  PROVE  /\ job[r].at \in Requeuing /\ job'[r].now = job[r].now
         /\ job'[r].ids \subseteq job[r].ids
<1>1. ~Scans(r) \/ job'[r].at = "limit"
  <2>1. SUFFICES ASSUME Scans(r), NEW i \in job'[r].ids PROVE FALSE
    BY DEF Scans
  <2>2. i \in Ids /\ rows[i].status = "running" /\ job[r].at = "stale"
    BY <2>1 DEF Scans
  <2>3. PICK q \in Procs : job[q].at \in Claimants
    BY <2>2 DEF SharedInv, RunsOwned
  <2>4. q = v \/ q = r
    BY ConstantsAssumption DEF ConstantsAssumption, OneServe
  <2>. QED BY <2>2, <2>3, <2>4 DEF Claimants, Storing
<1>. QED BY <1>1 DEF Requeuing, Moves, Same, Does, Begins, Walks, Returns, Returned, Finds, Counts,
     Inserts, Merges, ReadsBack, Overflows, Anchors, Drops, Expires, Scans, Requeues, Picks,
     Groups, TakesBatch, Prompts, Settles

\* The other process is no voice process, and there are no others.
LEMMA TwoProcesses ==
  ASSUME OneServe, NEW v \in Waiters
  PROVE  /\ v \in Procs
         /\ \A r \in Procs \ {v} : r \in Procs \ Waiters
         /\ \A r \in Procs \ {v}, q \in Procs : q = v \/ q = r
  BY ConstantsAssumption DEF ConstantsAssumption, OneServe

\* The voice process that stores its message is ahead of everything in its session.
LEMMA NothingNewerStep ==
  ASSUME OneServe, SharedInv, SharedInv', Moved, crashes = 0, crashes' = 0,
         NEW v \in Waiters, NothingNewer(v)
  PROVE  NothingNewer(v)'
<1>. DEFINE d == AtLeastOne(Debounce)
<1>0. /\ v \in Procs
      /\ \A r \in Procs \ {v} : r \in Procs \ Waiters
      /\ \A r \in Procs \ {v}, q \in Procs : q = v \/ q = r
  BY TwoProcesses
<1>1. /\ clock \in Nat /\ d \in Nat \ {0}
      /\ \A p \in Procs : job[p].now \in Nat
      /\ \A i \in Ids : /\ rows[i].created \in Nat /\ rows[i].available \in Nat
                        /\ rows'[i].created \in Nat /\ rows'[i].available \in Nat
  <2>1. d \in Nat \ {0}
    BY Parameters DEF AtLeastOne
  <2>. QED BY <2>1 DEF SharedInv, TypeInv, TypeOK, Job, Row
<1>2. Times /\ FreshIds(rows, nextId)
  BY DEF SharedInv
<1>. HIDE DEF d
<1>3. CASE Passes
  BY <1>3 DEF Passes, NothingNewer, SessionRows, QueuedRows, QueuedOf
<1>4. CASE Begins(v)
  <2>1. /\ rows' = rows /\ job'[v].at = "find" /\ job'[v].now = clock
        /\ \A q \in Procs \ {v} : job'[q] = job[q]
    BY <1>4 DEF Begins, Moves, Others
  <2>2. \A q \in Procs : job'[q].at \in Requeuing => job'[q].now <= clock
    BY <1>2, <2>1 DEF Times, Requeuing
  <2>3. \A i \in Ids : rows[i].status = "queued" => rows[i].available <= clock + d
    BY <1>2 DEF Times, d
  <2>. QED BY <1>2, <2>1, <2>2, <2>3 DEF NothingNewer, SessionRows, QueuedRows, QueuedOf, Times, d
<1>5. CASE Does(v) /\ job'[v].at \in Storing
  <2>1. /\ job[v].at \in Storing /\ job'[v].msg = job[v].msg /\ job'[v].now = job[v].now
        /\ ~Merges(v) /\ ~Inserts(v)
    BY <1>0, <1>5, StoringStep
  <2>2. Finds(v) \/ Walks(v) \/ Counts(v)
    BY <1>5, <2>1 DEF Does, Storing, Moves, Returns, Returned, ReadsBack, Overflows, Anchors, Drops, Expires,
                      Scans, Requeues, Picks, Groups, TakesBatch, Prompts, Settles
  <2>3. rows' = rows /\ \A q \in Procs \ {v} : job'[q] = job[q]
    BY <2>2 DEF Finds, Walks, Counts, NoWrite, Others
  <2>4. \A q \in Procs : job'[q].at \in Requeuing => job'[q].now <= job[v].now
    BY <1>5, <2>1, <2>3 DEF NothingNewer, Storing, Requeuing
  <2>5. job'[v].at = "insert" /\ job'[v].ok => QueuedRows(v) = {}
    BY <2>1, <2>2 DEF Counts, Walks, Finds, Moves, Busy, QueuedRows, QueuedOf
  <2>6. QueuedRows(v)' = QueuedRows(v) /\ SessionRows(v)' = SessionRows(v)
    BY <2>1, <2>3 DEF QueuedRows, QueuedOf, SessionRows
  <2>. QED BY <2>1, <2>3, <2>4, <2>5, <2>6 DEF NothingNewer
<1>6. CASE Inserts(v)
  <2>1. /\ job'[v].at = "readid" /\ job'[v].msg = job[v].msg /\ job'[v].now = job[v].now
        /\ job[v].at \in Storing
        /\ \A q \in Procs \ {v} : job'[q] = job[q]
    BY <1>6 DEF Inserts, Moves, Same, Others, Storing
  <2>2. \A q \in Procs : job'[q].at \in Requeuing => job'[q].now <= job[v].now
    BY <2>1 DEF NothingNewer, Requeuing
  <2>3. \A i \in SessionRows(v)' : rows'[i].created <= job[v].now
    <3>1. \A i \in Ids : rows'[i] = rows[i] \/ rows'[i].created = job[v].now
      BY <1>6 DEF Inserts, RowsKept
    <3>. QED BY <1>0, <1>1, <2>1, <3>1 DEF NothingNewer, SessionRows
  <2>. QED BY <2>1, <2>2, <2>3 DEF NothingNewer, Storing
<1>7. CASE Does(v) /\ job'[v].at \notin Storing /\ ~Inserts(v)
  <2>1. job'[v].at # "readid"
    BY <1>7 DEF Does, Moves, Returned, Walks, Returns, Finds, Counts,
     Merges, ReadsBack, Overflows, Anchors, Drops, Expires, Scans, Requeues, Picks,
     Groups, TakesBatch, Prompts, Settles
  <2>. QED BY <1>7, <2>1 DEF NothingNewer, Storing
<1>8. ASSUME NEW r \in Procs \ {v}, Begins(r) \/ Does(r), job[v].at \in Storing \cup {"readid"}
      PROVE  NothingNewer(v)'
  <2>1. r \in Procs \ Waiters /\ job'[v] = job[v]
    BY <1>0, <1>8, OthersStay DEF Others
  <2>2. \A q \in Procs : job'[q].at \in Requeuing => job'[q].now <= job[v].now
    <3>1. \A q \in Procs \ {r} : job'[q] = job[q]
      BY <1>8, OthersStay DEF Others
    <3>. QED BY <1>8, <3>1, NothingToPutBack DEF NothingNewer
  <2>3. \A i \in SessionRows(v)' :
          /\ i \in SessionRows(v) /\ rows'[i].created = rows[i].created
          /\ \/ rows'[i].available = rows[i].available /\ rows'[i].status = rows[i].status
             \/ rows'[i].status # "queued"
             \/ rows'[i].available = job[r].now /\ job[r].at \in Requeuing
    BY <1>8, <2>1, SessionStep DEF SessionRows, SameWords, Requeues, Moves, Requeuing
  <2>4. \A i \in SessionRows(v)' : rows'[i].created <= job[v].now
    BY <1>8, <2>3 DEF NothingNewer
  <2>5. job[r].at \in Requeuing => job[r].now <= job[v].now
    BY <1>8 DEF NothingNewer
  <2>6. \A i \in QueuedRows(v)' :
          \/ i \in QueuedRows(v) /\ rows'[i].available = rows[i].available
          \/ rows'[i].available <= job[v].now
    BY <2>3, <2>5 DEF QueuedRows, QueuedOf, SessionRows
  <2>7. \A i \in QueuedRows(v)' :
          /\ job[v].at \in Storing => rows'[i].available <= job[v].now + d
          /\ job[v].at = "insert" /\ job[v].ok => rows'[i].available <= job[v].now
    <3>1. QueuedRows(v)' \subseteq Ids
      BY DEF QueuedRows, QueuedOf
    <3>2. ASSUME NEW i \in QueuedRows(v)', rows'[i].available <= job[v].now
          PROVE  rows'[i].available <= job[v].now + d
      BY <1>0, <1>1, <3>1, <3>2
    <3>3. ASSUME NEW i \in QueuedRows(v)
          PROVE  /\ job[v].at \in Storing => rows[i].available <= job[v].now + d
                 /\ job[v].at = "insert" /\ job[v].ok => rows[i].available <= job[v].now
      BY DEF NothingNewer, d
    <3>. QED BY <2>6, <3>2, <3>3
  <2>. QED BY <2>1, <2>2, <2>4, <2>7 DEF NothingNewer, d
<1>9. ASSUME NEW r \in Procs \ {v}, Begins(r) \/ Does(r), job[v].at \notin Storing \cup {"readid"}
      PROVE  NothingNewer(v)'
  <2>1. job'[v] = job[v]
    BY <1>0, <1>9, OthersStay DEF Others
  <2>. QED BY <1>9, <2>1 DEF NothingNewer, Storing
<1>. QED BY <1>3, <1>4, <1>5, <1>6, <1>7, <1>8, <1>9 DEF Moved

\* The row that was just inserted is the one to be read back.
LEMMA ReachesInserted ==
  ASSUME OneServe, SharedInv, NEW v \in Waiters, Inserts(v), NothingNewer(v),
         NEW k, k = nextId
  PROVE  k \in Ids /\ Inserted(v, k)' /\ InReach(v, k)'
<1>. DEFINE d == AtLeastOne(Debounce)
<1>0. v \in Procs
  BY TwoProcesses
<1>1. /\ k \in Ids /\ k \in Nat /\ d \in Nat
      /\ \A i \in Ids : i \in Nat /\ rows[i].available \in Nat
      /\ job[v].now \in Nat
  <2>1. Ids \subseteq Nat /\ d \in Nat
    BY Parameters DEF Ids
  <2>. QED BY <1>0, <2>1 DEF Inserts, SharedInv, TypeInv, TypeOK, Row, Job
<1>2. /\ job'[v].at = "readid" /\ job'[v].msg = job[v].msg /\ job'[v].now = job[v].now
      /\ job[v].at = "insert" /\ job[v].at \in Storing
      /\ \A q \in Procs \ {v} : job'[q] = job[q]
      /\ rows'[k].session = SessionOf[job[v].msg] /\ rows'[k].text = {job[v].msg}
      /\ rows'[k].status = "queued" /\ rows'[k].created = job[v].now
      /\ rows'[k].available = FirstAvailable(v)
      /\ \A i \in Ids \ {k} : rows'[i] = rows[i]
  BY DEF Inserts, Moves, Same, Others, RowsKept, Storing
<1>3. \A i \in Ids : i >= k => rows[i].status = "absent"
  BY DEF SharedInv, FreshIds
<1>4. \A q \in Procs : k \notin job[q].ids /\ k # job[q].row
  <2>1. k # 0 /\ rows[k].status = "absent"
    BY <1>1, <1>3 DEF Ids
  <2>. QED BY <2>1 DEF SharedInv, Known
<1>. HIDE DEF d
<1>5. /\ FirstAvailable(v) = IF job[v].ok THEN job[v].now ELSE job[v].now + d
      /\ FirstAvailable(v) \in Nat /\ FirstAvailable(v) >= job[v].now
  BY <1>1 DEF FirstAvailable, d
<1>6. \A i \in QueuedRows(v)' : rows'[i].available <= rows'[k].available
  <2>1. QueuedRows(v)' \subseteq QueuedRows(v) \cup {k}
    BY <1>0, <1>2 DEF QueuedRows, QueuedOf
  <2>2. \A i \in QueuedRows(v) : rows[i].available <= FirstAvailable(v)
    <3>1. CASE job[v].ok
      BY <1>2, <1>5, <3>1 DEF NothingNewer
    <3>2. CASE ~job[v].ok
      BY <1>2, <1>5, <3>2 DEF NothingNewer, d
    <3>. QED BY <3>1, <3>2
  <2>3. QueuedRows(v) \subseteq Ids \ {k}
    BY <1>1, <1>3 DEF QueuedRows, QueuedOf
  <2>. QED BY <1>2, <1>5, <2>1, <2>2, <2>3
<1>7. k \in SessionRows(v)' /\ \A i \in SessionRows(v)' : i <= k
  <2>1. k \in SessionRows(v)'
    BY <1>1, <1>2 DEF SessionRows
  <2>2. ASSUME NEW i \in Ids, ~(i <= k)
        PROVE  rows'[i].status = "absent"
    BY <1>1, <1>2, <1>3, <2>2
  <2>. QED BY <2>1, <2>2 DEF SessionRows
<1>8. Inserted(v, k)'
  <2>1. \A q \in Procs : job'[q].at \in Requeuing => k \notin job'[q].ids
    BY <1>2, <1>4 DEF Requeuing
  <2>2. rows'[k].text = {job'[v].msg} /\ rows'[k].created = job'[v].now
    BY <1>2
  <2>3. rows'[k].available >= job'[v].now
    BY <1>2, <1>5
  <2>. QED BY <1>6, <1>7, <2>1, <2>2, <2>3 DEF Inserted, Holds
<1>9. \A q \in Procs : ClaimsAll(v, q, k)'
  <2>1. \A q \in Procs :
          /\ job'[q].at = "group" => job'[q].row # k
          /\ job'[q].at \in {"lease", "claim"} => k \notin job'[q].ids
    BY <1>2, <1>4
  <2>. QED BY <2>1 DEF ClaimsAll
<1>10. InReach(v, k)'
  BY <1>2, <1>9 DEF InReach
<1>. QED BY <1>1, <1>8, <1>10

\* The other process leaves it the last row of its session.
LEMMA InsertedStep ==
  ASSUME OneServe, SharedInv, SharedInv', crashes = 0, NEW v \in Waiters, job[v].at = "readid",
         NothingNewer(v), NEW r \in Procs \ {v}, Begins(r) \/ Does(r), Moved,
         NEW k \in Ids, Inserted(v, k)
  PROVE  Inserted(v, k)'
<1>1. /\ r \in Procs \ Waiters /\ job'[v] = job[v] /\ v \in Procs
      /\ \A q \in Procs \ {r} : job'[q] = job[q]
  BY TwoProcesses, OthersStay DEF Others
<1>2. /\ job[v].now \in Nat
      /\ \A i \in Ids : /\ i \in Nat /\ rows[i].available \in Nat /\ rows'[i].available \in Nat
      /\ job[r].now \in Nat
  <2>1. Ids \subseteq Nat
    BY Parameters DEF Ids
  <2>. QED BY <1>1, <2>1 DEF SharedInv, TypeInv, TypeOK, Row, Job
<1>3. \A q \in Procs : job'[q].at \in Requeuing => k \notin job'[q].ids
  BY <1>1, NothingToPutBack DEF Inserted
<1>4. k \in SessionRows(v)'
  BY <1>1, TableStep DEF RowsStay, SharedInv, Inserted, SessionRows
<1>5. \A i \in SessionRows(v)' :
        /\ i \in SessionRows(v) /\ SameWords(i)
        /\ \/ rows'[i].available = rows[i].available /\ rows'[i].status = rows[i].status
           \/ rows'[i].available = rows[i].available /\ rows'[i].status # "queued"
           \/ Requeues(r) /\ i \in job[r].ids /\ rows'[i].available = job[r].now
  BY <1>1, SessionStep DEF SessionRows
<1>6. Requeues(r) => job[r].at \in Requeuing
  BY DEF Requeues, Moves, Requeuing
<1>7. /\ rows'[k].available = rows[k].available
      /\ rows'[k].created = rows[k].created /\ rows'[k].text = rows[k].text
  <2>1. ~(Requeues(r) /\ k \in job[r].ids)
    BY <1>6 DEF Inserted
  <2>. QED BY <1>4, <1>5, <2>1 DEF SameWords
<1>8. \A i \in QueuedRows(v)' : rows'[i].available <= rows'[k].available
  <2>1. SUFFICES ASSUME NEW i \in QueuedRows(v)'
                 PROVE  rows'[i].available <= rows[k].available
    BY <1>7
  <2>2. i \in SessionRows(v)' /\ rows'[i].status = "queued" /\ i \in Ids
    BY DEF QueuedRows, QueuedOf, SessionRows
  <2>3. CASE rows'[i].available = rows[i].available /\ rows'[i].status = rows[i].status
    BY <1>5, <2>2, <2>3 DEF Inserted, QueuedRows, QueuedOf, SessionRows
  <2>4. CASE Requeues(r) /\ rows'[i].available = job[r].now
    <3>1. job[r].now <= job[v].now
      BY <1>1, <1>6, <2>4 DEF NothingNewer
    <3>2. job[v].now <= rows[k].available
      BY <1>2 DEF Inserted
    <3>. QED BY <1>2, <2>2, <2>4, <3>1, <3>2
  <2>. QED BY <1>5, <2>2, <2>3, <2>4
<1>. QED BY <1>1, <1>3, <1>4, <1>5, <1>7, <1>8 DEF Inserted, Holds

\* prompted only grows.
LEMMA PromptedGrows ==
  ASSUME Moved
  PROVE  prompted \subseteq prompted'
<1>1. ASSUME NEW p \in Procs, Begins(p) \/ Does(p)
      PROVE  prompted \subseteq prompted'
  BY <1>1 DEF Does, Begins, Walks, Returns, Finds, Counts, Inserts, Merges, ReadsBack, Overflows,
         Anchors, Drops, Expires, Scans, Requeues, Picks, Groups, TakesBatch, Prompts, Settles,
         NoWrite
<1>. QED BY <1>1 DEF Moved, Passes

\* A burst that holds the last row of the session, or starts with it, holds every
\* row of the session that can be read.
LEMMA BurstHoldsAll ==
  ASSUME SharedInv, NEW v \in Waiters, job[v].at = "readid", NothingNewer(v),
         NEW r \in Procs, Groups(r), NEW k \in Ids, Inserted(v, k), k \in job'[r].ids,
         rows[k].status = "queued", ClaimsAll(v, r, k)
  PROVE  ReadableIn(QueuedRows(v)) \subseteq job'[r].ids
<1>. DEFINE row == job[r].row
            now == job[r].now
            window == job[r].window
            due == {i \in ReadableIn(QueuedOf(rows[row].session)) \ {row} :
                      rows[i].available <= now}
            InWindow(i) == \/ rows[i].created <= window
                           \/ \E j \in due : /\ rows[j].created < rows[i].created
                                             /\ rows[i].created <= rows[j].available
<1>0. v \in Procs
  BY ConstantsAssumption DEF ConstantsAssumption
<1>1. /\ job[r].at = "group" /\ job'[r].ids = Burst(row, now, window) \cup {row}
      /\ Burst(row, now, window) =
           {i \in due : \A j \in due : rows[j].created <= rows[i].created => InWindow(j)}
  BY DEF Groups, Moves, Burst
<1>2. /\ now \in Nat /\ window \in Nat
      /\ \A i \in Ids : rows[i].created \in Nat /\ rows[i].available \in Nat
  BY DEF SharedInv, TypeInv, TypeOK, Row, Job
<1>3. /\ rows[k].session = SessionOf[job[v].msg] /\ rows[k].created = job[v].now
      /\ \A i \in QueuedRows(v) : rows[i].available <= rows[k].available
      /\ \A i \in QueuedRows(v) : i \in Ids /\ rows[i].created <= rows[k].created
  BY <1>0 DEF Inserted, NothingNewer, SessionRows, QueuedRows, QueuedOf
<1>4. rows[row].session = rows[k].session /\ due \subseteq QueuedRows(v)
  <2>1. rows[row].session = rows[k].session
    BY <1>1 DEF ReadableIn, QueuedOf
  <2>. QED BY <1>3, <2>1 DEF ReadableIn, QueuedRows
<1>5. \A j \in ReadableIn(QueuedRows(v)) \ {row} : rows[j].available <= now => j \in due
  BY <1>3, <1>4 DEF QueuedRows
<1>. HIDE DEF due
<1>6. CASE row = k
  <2>1. rows[k].created <= window /\ \A j \in ReadableIn(QueuedRows(v)) : rows[j].available <= now
    BY <1>1, <1>6 DEF ClaimsAll
  <2>2. \A j \in due : InWindow(j)
    BY <1>2, <1>3, <1>4, <2>1
  <2>. QED BY <1>1, <1>5, <2>1, <2>2
<1>7. CASE row # k
  <2>1. k \in due /\ rows[k].available <= now
    BY <1>1, <1>7 DEF due
  <2>2. \A j \in due : InWindow(j)
    BY <1>1, <1>3, <1>4, <1>7
  <2>3. \A j \in ReadableIn(QueuedRows(v)) : j \in Ids /\ rows[j].available <= rows[k].available
    BY <1>3 DEF ReadableIn
  <2>4. \A j \in ReadableIn(QueuedRows(v)) : rows[j].available <= now
    BY <1>2, <2>1, <2>3
  <2>. QED BY <1>1, <1>5, <2>2, <2>4
<1>. QED BY <1>6, <1>7

\* A primary that is picked although the last row of its session can be picked too is
\* no younger than that row, and every row of the session is due.
LEMMA PickedIsOldest ==
  ASSUME SharedInv, NEW v \in Waiters, job[v].at = "readid",
         NEW r \in Procs, Picks(r), NEW k \in Ids, Inserted(v, k), job'[r].row = k
  PROVE  /\ rows[k].created <= job'[r].window
         /\ \A i \in ReadableIn(QueuedRows(v)) :
              rows[k].created <= rows[i].created /\ rows[i].available <= job'[r].now
<1>0. v \in Procs
  BY ConstantsAssumption DEF ConstantsAssumption
<1>1. /\ k \in Oldest(Due) /\ job'[r].window = rows[k].available /\ job'[r].now = clock
  BY DEF Picks
<1>2. /\ clock \in Nat /\ job[v].now \in Nat
      /\ \A i \in Ids : rows[i].created \in Nat /\ rows[i].available \in Nat
  BY <1>0 DEF SharedInv, TypeInv, TypeOK, Row, Job
<1>3. /\ rows[k].session = SessionOf[job[v].msg] /\ rows[k].available <= clock
      /\ ~Leased(rows[k].session)
  BY <1>1 DEF Oldest, Due, Inserted, SessionRows
<1>4. ASSUME NEW i \in ReadableIn(QueuedRows(v))
      PROVE  i \in Due
  <2>1. /\ i \in Ids /\ i \in QueuedRows(v) /\ rows[i].status = "queued"
        /\ rows[i].session = SessionOf[job[v].msg]
    BY DEF ReadableIn, QueuedRows, QueuedOf
  <2>2. rows[i].available <= rows[k].available
    BY <2>1 DEF Inserted
  <2>. QED BY <1>2, <1>3, <2>1, <2>2 DEF Due
<1>. QED BY <1>1, <1>4 DEF Oldest, Due, Inserted

\* Whatever the other process does, the inserted row can be found, or no row can be
\* that would be answered, or its message gets into the prompt.
LEMMA InReachStep ==
  ASSUME OneServe, SharedInv, SharedInv', crashes = 0, crashes' = 0,
         NEW v \in Waiters, job[v].at = "readid", NothingNewer(v),
         NEW r \in Procs \ {v}, Begins(r) \/ Does(r), Moved,
         NEW k \in Ids, Inserted(v, k), Inserted(v, k)', InReach(v, k)
  PROVE  InReach(v, k)'
<1>1. /\ r \in Procs \ Waiters /\ job'[v] = job[v] /\ v \in Procs
      /\ \A q \in Procs : q = v \/ q = r
  BY TwoProcesses, OthersStay DEF Others
<1>2. job[v].msg \in Messages
  BY <1>1 DEF SharedInv, Roles
<1>3. CASE job[v].msg \in prompted
  BY <1>1, <1>3, PromptedGrows DEF InReach
<1>4. ASSUME job'[v] = job[v], job[v].msg \in prompted'
      PROVE  InReach(v, k)'
  BY <1>4 DEF InReach
<1>5. /\ SameWords(k)
      /\ \/ rows'[k].status = rows[k].status
         \/ Requeues(r)
         \/ TakesBatch(r) /\ k \in job[r].ids
         \/ Settles(r) /\ k \in job[r].ids
  BY <1>1, SessionStep DEF Inserted, SessionRows
<1>6. CASE rows[k].status = "queued" /\ \A q \in Procs : ClaimsAll(v, q, k)
  <2>1. CASE Settles(r) /\ k \in job[r].ids
    <3>1. job[v].msg \in prompted
      BY <1>2, <2>1 DEF Settles, Moves, SharedInv, Promptings, Inserted
    <3>. QED BY <1>3, <3>1
  <2>2. CASE TakesBatch(r) /\ k \in job[r].ids
    <3>1. /\ job[r].at = "claim" /\ job'[r].at = "claimed" /\ job'[r].ids = job[r].ids
          /\ \A i \in Ids \ job[r].ids : rows'[i] = rows[i]
          /\ \A i \in job[r].ids : rows'[i].status = "running"
      BY <2>2 DEF TakesBatch, Moves, Same, RowsKept
    <3>2. ReadableIn(QueuedRows(v)) \subseteq job[r].ids
      BY <1>6, <2>2, <3>1 DEF ClaimsAll
    <3>3. ASSUME NEW i \in QueuedRows(v)'
          PROVE  i \notin job[r].ids /\ ~Readable(rows'[i])
      <4>1. i \in Ids /\ rows'[i].status = "queued" /\ rows'[i].session = SessionOf[job[v].msg]
        BY <1>1 DEF QueuedRows, QueuedOf
      <4>2. i \notin job[r].ids /\ rows'[i] = rows[i]
        BY <3>1, <4>1
      <4>. QED BY <3>2, <4>1, <4>2 DEF ReadableIn, QueuedRows, QueuedOf
    <3>. QED BY <2>2, <3>1, <3>3 DEF InReach
  <2>3. CASE ~(k \in job[r].ids /\ (Settles(r) \/ TakesBatch(r)))
    <3>1. rows'[k].status = "queued"
      BY <1>5, <1>6, <2>3 DEF Requeues, RowsKept
    <3>2. ClaimsAll(v, v, k)'
      BY <1>1 DEF ClaimsAll
    <3>3. ClaimsAll(v, r, k)'
      <4>1. CASE Picks(r)
        <5>1. rows' = rows /\ job'[r].at = "group"
          BY <4>1 DEF Picks, Moves, NoWrite
        <5>2. ReadableIn(QueuedRows(v))' = ReadableIn(QueuedRows(v))
          BY <1>1, <5>1 DEF ReadableIn, QueuedRows, QueuedOf
        <5>. QED BY <4>1, <5>1, <5>2, PickedIsOldest DEF ClaimsAll
      <4>2. CASE Groups(r)
        <5>1. rows' = rows /\ job'[r].at = "lease"
          BY <4>2 DEF Groups, Moves, NoWrite
        <5>2. ReadableIn(QueuedRows(v))' = ReadableIn(QueuedRows(v))
          BY <1>1, <5>1 DEF ReadableIn, QueuedRows, QueuedOf
        <5>3. k \in job'[r].ids => ReadableIn(QueuedRows(v)) \subseteq job'[r].ids
          BY <1>6, <4>2, BurstHoldsAll
        <5>. QED BY <5>1, <5>2, <5>3 DEF ClaimsAll
      <4>3. CASE Walks(r) /\ job[r].at = "lease"
        <5>1. rows' = rows /\ job'[r].at = "claim" /\ job'[r].ids = job[r].ids
          BY <4>3 DEF Walks, Moves, NoWrite, Same
        <5>2. ReadableIn(QueuedRows(v))' = ReadableIn(QueuedRows(v))
          BY <1>1, <5>1 DEF ReadableIn, QueuedRows, QueuedOf
        <5>. QED BY <1>6, <4>3, <5>1, <5>2 DEF ClaimsAll
      <4>4. CASE job'[r].at \notin {"group", "lease", "claim"}
        BY <4>4 DEF ClaimsAll
      <4>5. job'[r].at \in {"group", "lease", "claim"} =>
              Picks(r) \/ Groups(r) \/ (Walks(r) /\ job[r].at = "lease")
        BY DEF Does, Begins, Moves, Returned, Walks, Returns, Finds, Counts, Inserts,
               Merges, ReadsBack, Overflows, Anchors, Drops, Expires, Scans, Requeues, Picks,
               Groups, TakesBatch, Prompts, Settles
      <4>. QED BY <4>1, <4>2, <4>3, <4>4, <4>5
    <3>. QED BY <1>1, <3>1, <3>2, <3>3 DEF InReach
  <2>. QED BY <2>1, <2>2, <2>3
<1>7. ASSUME NEW q \in Procs, job[q].at = "claimed", k \in job[q].ids
      PROVE  InReach(v, k)'
  <2>1. q = r
    BY <1>1, <1>7
  <2>2. Prompts(r)
    <3>1. ~Returns(r)
      BY <1>7, <2>1 DEF Returns, Claimants, SharedInv, TypeInv, TypeOK
    <3>. QED BY <1>7, <2>1, <3>1 DEF Does, Begins, Moves, Walks, Finds, Counts, Inserts,
               Merges, ReadsBack, Overflows, Anchors, Drops, Expires, Scans, Requeues, Picks,
               Groups, TakesBatch, Settles, Claimants
  <2>3. job[v].msg \in job[r].text
    BY <1>2, <1>7, <2>1 DEF SharedInv, Promptings, Inserted
  <2>. QED BY <1>1, <1>4, <2>2, <2>3 DEF Prompts
<1>. QED BY <1>3, <1>6, <1>7 DEF InReach

\* The row that a voice process has inserted can be read back by its age alone.
LEMMA ReadBackStep ==
  ASSUME OneServe, SharedInv, SharedInv', Moved, crashes = 0, crashes' = 0,
         NEW v \in Waiters, ReadBackInv(v)
  PROVE  ReadBackInv(v)'
<1>0. v \in Procs
  BY ConstantsAssumption DEF ConstantsAssumption
<1>1. NothingNewer(v) /\ NothingNewer(v)'
  BY NothingNewerStep DEF ReadBackInv
<1>2. SUFFICES ASSUME job'[v].at = "readid"
               PROVE  \E k \in Ids : Inserted(v, k)' /\ InReach(v, k)'
  BY <1>1 DEF ReadBackInv
<1>3. CASE Passes
  <2>1. /\ rows' = rows /\ job' = job /\ prompted' = prompted
    BY <1>3 DEF Passes
  <2>2. PICK k \in Ids : Inserted(v, k) /\ InReach(v, k)
    BY <1>2, <2>1 DEF ReadBackInv
  <2>3. Inserted(v, k)' /\ InReach(v, k)'
    BY <2>1, <2>2 DEF Inserted, InReach, SessionRows, QueuedRows, QueuedOf, ReadableIn, Holds, ClaimsAll
  <2>. QED BY <2>3
<1>4. CASE Begins(v) \/ Does(v)
  <2>1. Inserts(v)
    BY <1>2, <1>4 DEF Does, Begins, Moves, Returned, Walks, Returns, Finds, Counts,
               Merges, ReadsBack, Overflows, Anchors, Drops, Expires, Scans, Requeues, Picks,
               Groups, TakesBatch, Prompts, Settles
  <2>. QED BY <1>1, <2>1, ReachesInserted
<1>5. ASSUME NEW r \in Procs \ {v}, Begins(r) \/ Does(r)
      PROVE  \E k \in Ids : Inserted(v, k)' /\ InReach(v, k)'
  <2>1. job[v].at = "readid"
    BY <1>0, <1>2, <1>5, OthersStay DEF Others
  <2>2. PICK k \in Ids : Inserted(v, k) /\ InReach(v, k)
    BY <2>1 DEF ReadBackInv
  <2>3. Inserted(v, k)'
    BY <1>1, <1>5, <2>1, <2>2, InsertedStep
  <2>. QED BY <1>1, <1>5, <2>1, <2>2, <2>3, InReachStep
<1>. QED BY <1>3, <1>4, <1>5 DEF Moved

\* A row that will not be answered stays so.
LEMMA HopelessStep ==
  ASSUME SharedInv, NEW p \in Procs, Begins(p) \/ Does(p),
         NEW i \in Ids, rows[i].status # "absent", Hopeless(i)
  PROVE  Hopeless(i)'
<1>0. /\ \A q \in Procs \ {p} : job'[q] = job[q]
      /\ i # nextId
  BY OthersStay DEF Others, SharedInv, FreshIds, TypeInv, TypeOK
<1>1. CASE Merges(p) /\ job[p].row = i
  <2>1. /\ rows'[i].text = job[p].text \cup {job[p].msg}
        /\ job[p].text # {} /\ job[p].text \subseteq accepted /\ job[p].msg \notin accepted
    BY <1>1 DEF Merges, Moves, SharedInv, Arrivals, Storing
  <2>. QED BY <2>1 DEF Hopeless, Plural
<1>2. CASE ~(Merges(p) /\ job[p].row = i)
  <2>1. SameWords(i)
    BY <1>0, <1>2, TextsStay DEF Merges, Inserts, RowsKept, SameWords
  <2>2. CASE Plural(i)
    BY <2>1, <2>2 DEF Hopeless, Plural, SameWords
  <2>3. CASE ~Readable(rows[i]) /\ Untouched(i)
    <3>1. ~Readable(rows'[i])
      <4>1. CASE rows'[i] = rows[i]
        BY <2>3, <4>1
      <4>2. CASE SameReading(i)
        BY <2>3, <4>2 DEF SameReading, SameWords, Readable
      <4>3. Anchors(p) \/ Drops(p) \/ Settles(p) => rows'[i] = rows[i]
        BY <2>3 DEF Anchors, Drops, Settles, Moves, RowsKept, Untouched, Holding, Claimants
      <4>4. Requeues(p) \/ TakesBatch(p) => rows'[i] = rows[i] \/ SameReading(i)
        BY DEF Requeues, TakesBatch, RowsKept
      <4>5. Merges(p) \/ Inserts(p) => rows'[i] = rows[i]
        BY <1>0, <1>2 DEF Merges, Inserts, RowsKept
      <4>. QED BY <4>1, <4>2, <4>3, <4>4, <4>5 DEF Does, Begins, Walks, Returns, Finds, Counts,
               ReadsBack, Overflows, Expires, Scans, Picks, Groups, Prompts, NoWrite
    <3>2. /\ job'[p].at \in Holding \cup {"anchor", "drop"} => i \notin job'[p].ids
          /\ job'[p].at \in {"group", "anchor"} => i # job'[p].row
      <4>. USE <2>3 DEF Untouched, Holding, Claimants, Moves, Same
      <4>1. CASE Overflows(p)
        BY <4>1 DEF Overflows, ReadableIn
      <4>2. CASE Anchors(p)
        BY <4>2 DEF Anchors
      <4>3. CASE Drops(p)
        BY <4>3 DEF Drops, Returned
      <4>4. CASE Picks(p)
        BY <4>4 DEF Picks
      <4>5. CASE Groups(p)
        BY <4>5 DEF Groups, Burst, ReadableIn
      <4>6. CASE Walks(p) \/ TakesBatch(p) \/ Prompts(p)
        BY <4>6 DEF Walks, TakesBatch, Prompts
      <4>. QED BY <4>1, <4>2, <4>3, <4>4, <4>5, <4>6 DEF Does, Begins, Returns, Returned, Finds,
               Counts, Inserts, Merges, ReadsBack, Expires, Scans, Requeues, Settles
    <3>3. Untouched(i)'
      BY <1>0, <2>3, <3>2 DEF Untouched
    <3>. QED BY <3>1, <3>3 DEF Hopeless
  <2>. QED BY <2>2, <2>3 DEF Hopeless
<1>. QED BY <1>1, <1>2

\* What the query for the id returns is the inserted row, or a row without an answer.
LEMMA ReadsRightRow ==
  ASSUME OneServe, SharedInv, NEW v \in Waiters, ReadBackInv(v), ReadsBack(v), Moved
  PROVE  RightRow(v)'
<1>1. /\ v \in Procs
      /\ \A r \in Procs \ {v}, q \in Procs : q = v \/ q = r
  BY TwoProcesses
<1>2. /\ rows' = rows /\ job'[v].msg = job[v].msg /\ job'[v].at = "cap"
      /\ job[v].at = "readid" /\ prompted' = prompted
      /\ \A q \in Procs \ {v} : job'[q] = job[q]
  BY DEF ReadsBack, Moves, NoWrite, Others
<1>3. PICK i \in Newest(QueuedRows(v)) :
             /\ \A j \in Newest(QueuedRows(v)) : j <= i
             /\ job'[v].wait = i
  BY DEF ReadsBack, WaitedRow
<1>4. PICK k \in Ids : Inserted(v, k) /\ InReach(v, k)
  BY <1>2 DEF ReadBackInv
<1>5. i \in Ids /\ i \in QueuedRows(v) /\ i \in SessionRows(v)
  BY DEF Newest, QueuedRows, QueuedOf, SessionRows
<1>6. CASE job[v].msg \in prompted
  BY <1>2, <1>6 DEF RightRow
<1>7. CASE rows[k].status = "queued"
  <2>1. k \in Newest(QueuedRows(v))
    BY <1>2, <1>4, <1>7 DEF Newest, QueuedRows, QueuedOf, Inserted, SessionRows, ReadBackInv,
                            NothingNewer
  <2>2. k <= i /\ i <= k
    BY <1>3, <1>4, <1>5, <2>1 DEF Inserted
  <2>3. Ids \subseteq Nat
    BY DEF Ids
  <2>4. i = k
    BY <1>4, <1>5, <2>2, <2>3
  <2>. QED BY <1>2, <1>3, <1>4, <2>4 DEF RightRow, Holds, Inserted
<1>8. ASSUME NEW q \in Procs, job[q].at = "claimed",
             \A j \in QueuedRows(v) : j \notin job[q].ids /\ ~Readable(rows[j])
      PROVE  RightRow(v)'
  <2>1. \A r \in Procs : r = v \/ r = q
    BY <1>1, <1>2, <1>8
  <2>2. Untouched(i)' /\ ~Readable(rows'[i])
    BY <1>2, <1>5, <1>8, <2>1 DEF Untouched, Holding, Claimants
  <2>. QED BY <1>3, <2>2 DEF RightRow, Hopeless
<1>. QED BY <1>4, <1>6, <1>7, <1>8 DEF InReach

\* The row that a voice process waits for is about its message or not answered.
LEMMA RightRowStep ==
  ASSUME OneServe, SharedInv, Moved, crashes = 0, NEW v \in Waiters,
         ReadBackInv(v), RightRow(v)
  PROVE  RightRow(v)'
<1>0. v \in Procs
  BY ConstantsAssumption DEF ConstantsAssumption
<1>1. CASE Passes
  BY <1>1 DEF Passes, RightRow, Holds, Hopeless, Plural, Untouched
<1>2. CASE ReadsBack(v)
  BY <1>2, ReadsRightRow
<1>3. CASE Merges(v)
  <2>1. /\ rows'[job[v].row].text = job[v].text \cup {job[v].msg} /\ job'[v].wait = job[v].row
        /\ job[v].text # {} /\ job[v].text \subseteq accepted /\ job[v].msg \notin accepted
    BY <1>0, <1>3 DEF Merges, WaitedRow, Moves, SharedInv, Arrivals, Storing
  <2>. QED BY <2>1 DEF RightRow, Hopeless, Plural
<1>4. ASSUME NEW p \in Procs, Begins(p) \/ Does(p),
             job'[v].wait = job[v].wait, job'[v].msg = job[v].msg, job[v].wait # 0
      PROVE  RightRow(v)'
  <2>. DEFINE i == job[v].wait
              m == job[v].msg
  <2>1. i \in Ids /\ rows[i].status # "absent"
    BY <1>0, <1>4 DEF SharedInv, Known, TypeInv, TypeOK, Job
  <2>2. CASE m \in prompted
    BY <1>4, <2>2, PromptedGrows DEF RightRow
  <2>3. CASE Hopeless(i)
    <3>1. ASSUME NEW j \in Ids, j = i
          PROVE  Hopeless(j)'
      BY <1>4, <2>1, <2>3, <3>1, HopelessStep
    <3>. QED BY <1>4, <2>1, <3>1 DEF RightRow
  <2>4. CASE rows[i].text = {m}
    <3>1. CASE Merges(p) /\ job[p].row = i
      <4>1. /\ rows'[i].text = job[p].text \cup {job[p].msg}
            /\ job[p].text # {} /\ job[p].text \subseteq accepted /\ job[p].msg \notin accepted
        BY <3>1 DEF Merges, Moves, SharedInv, Arrivals, Storing
      <4>. QED BY <1>4, <4>1 DEF RightRow, Hopeless, Plural
    <3>2. CASE ~(Merges(p) /\ job[p].row = i)
      <4>1. i # nextId
        BY <2>1 DEF SharedInv, FreshIds, TypeInv, TypeOK
      <4>2. rows'[i].text = rows[i].text
        BY <1>4, <2>1, <3>2, <4>1, TextsStay DEF Merges, Inserts, RowsKept, SameWords
      <4>. QED BY <1>4, <2>4, <4>2 DEF RightRow, Holds
    <3>. QED BY <3>1, <3>2
  <2>. QED BY <1>4, <2>2, <2>3, <2>4 DEF RightRow, Holds
<1>5. CASE (Begins(v) \/ Does(v)) /\ ~Merges(v) /\ ~ReadsBack(v) /\ job'[v].wait # 0
  <2>1. job'[v].wait = job[v].wait /\ job'[v].msg = job[v].msg
    BY <1>5 DEF Does, Begins, Moves, Same, Returned, Walks, Returns, Finds, Counts, Inserts,
               Overflows, Anchors, Drops, Expires, Scans, Requeues, Picks,
               Groups, TakesBatch, Prompts, Settles
  <2>. QED BY <1>0, <1>4, <1>5, <2>1
<1>6. CASE job'[v].wait = 0
  BY <1>6 DEF RightRow
<1>7. ASSUME NEW p \in Procs \ {v}, Begins(p) \/ Does(p), job'[v].wait # 0
      PROVE  RightRow(v)'
  <2>1. job'[v] = job[v]
    BY <1>0, <1>7, OthersStay DEF Others
  <2>. QED BY <1>4, <1>7, <2>1
<1>. QED BY <1>1, <1>2, <1>3, <1>5, <1>6, <1>7 DEF Moved

-------------------------------------------------------------------------------
(* The turn.                                                               *)

\* The turn is about the message that is in the queue, and has no reply before it
\* is over.
TurnInv(p) ==
  /\ turn[p].at = "rest" => turn[p] = Quiet
  /\ turn[p].at # "speak" => turn[p].reply = "none"
  /\ turn[p].at # "respond" => At(p, "idle")
  /\ ~At(p, "idle") => turn[p].msg = job[p].msg

Hears(p) == turn[p].reply = "answer" => turn[p].msg \in prompted

HearsInv ==
  /\ \A p \in Waiters : TurnInv(p)
  /\ crashes = 0 => \A p \in Waiters : ReadBackInv(p) /\ RightRow(p) /\ Hears(p)

\* What a step does to a turn: nothing, or what one of the actions of its process says.
LEMMA TurnMoves ==
  ASSUME TypeInv, VoiceTypeOK, [VoiceNext]_voiceVars, NEW p \in Waiters
  PROVE  \/ turn'[p] = turn[p] /\ job'[p] = job[p]
         \/ /\ Listen(p) /\ job' = job
            /\ turn'[p] = Quiet \/ turn'[p] = [turn[p] EXCEPT !.at = "respond"]
         \/ Say(p) /\ Begins(p) /\ turn'[p] = [turn[p] EXCEPT !.msg = job'[p].msg]
         \/ Respond(p) /\ Does(p) /\ job'[p].at # "idle" /\ turn'[p] = turn[p]
         \/ Respond(p) /\ job'[p].at = "idle" /\ turn'[p] = Speaking(p, ReplyOf(p))
         \/ /\ CutShort(p) /\ job'[p].at = "idle"
            /\ turn'[p] = Speaking(p, "notice") \/ turn'[p] = Quiet
         \/ Speak(p) /\ job' = job /\ turn'[p] = Quiet
<1>0. /\ p \in Procs
      /\ \A t : \A q \in Waiters : Turns(q, t) => turn'[q] = t /\ (q # p => turn'[p] = turn[p])
  BY ConstantsAssumption DEF ConstantsAssumption, VoiceTypeOK, Turns
<1>1. ASSUME NEW q \in Procs, BeginEnqueue(q)
      PROVE  Begins(q)
  <2>1. PICK m \in unsent : BeginEnqueue(q)!3!(m)
    BY <1>1 DEF BeginEnqueue
  <2>. DEFINE j == [Resting EXCEPT !.at = "find", !.msg = m, !.now = clock]
  <2>2. job'[q] = j /\ Others(q)
    BY <2>1, Became
  <2>3. j.at = "find" /\ j.msg = m /\ j.now = clock /\ j.row = 0 /\ j.ids = {} /\ j.wait = 0
    BY DEF Resting
  <2>. HIDE DEF j
  <2>. QED BY <1>1, <2>1, <2>2, <2>3 DEF BeginEnqueue, At, Begins, Moves, tables, history
<1>2. ASSUME NEW q \in Procs, Crash(q)
      PROVE  Others(q) /\ job'[q].at = "idle"
  <2>1. job'[q] = Resting /\ Others(q)
    BY <1>2, Became DEF Crash
  <2>. QED BY <2>1 DEF Resting
<1>3. ASSUME NEW q \in Procs, BeginEnqueue(q) \/ Step(q) \/ Crash(q), q # p
      PROVE  job'[p] = job[p]
  BY <1>0, <1>1, <1>2, <1>3, StepDoes, OthersStay DEF Others
<1>4. CASE UNCHANGED voiceVars \/ (Tick /\ UNCHANGED turn)
  BY <1>4 DEF voiceVars, vars, Tick
<1>5. ASSUME NEW q \in Procs \ Waiters, BeginEnqueue(q) \/ Step(q) \/ Crash(q), UNCHANGED turn
      PROVE  turn'[p] = turn[p] /\ job'[p] = job[p]
  BY <1>3, <1>5
<1>6. ASSUME NEW q \in Waiters, Turn(q), q # p
      PROVE  turn'[p] = turn[p] /\ job'[p] = job[p]
  <2>1. q \in Procs
    BY ConstantsAssumption DEF ConstantsAssumption
  <2>2. turn'[p] = turn[p]
    BY <1>0, <1>6 DEF Turn, Listen, Say, Respond, CutShort, Speak
  <2>3. job'[p] = job[p]
    BY <1>3, <1>6, <2>1 DEF Turn, Listen, Say, Respond, CutShort, Speak, vars
  <2>. QED BY <2>2, <2>3
<1>7. CASE Listen(p)
  BY <1>0, <1>7 DEF Listen, vars
<1>8. CASE Say(p)
  BY <1>0, <1>1, <1>8 DEF Say
<1>9. CASE Respond(p)
  BY <1>0, <1>9, StepDoes DEF Respond
<1>10. CASE CutShort(p)
  BY <1>0, <1>2, <1>10 DEF CutShort
<1>11. CASE Speak(p)
  BY <1>0, <1>11 DEF Speak, vars
<1>. QED BY <1>4, <1>5, <1>6, <1>7, <1>8, <1>9, <1>10, <1>11 DEF VoiceNext, Turn

\* A turn stays with its message, and is silent until it is over.
LEMMA TurnStep ==
  ASSUME SharedInv, VoiceTypeOK, [VoiceNext]_voiceVars, NEW p \in Waiters, TurnInv(p)
  PROVE  TurnInv(p)'
<1>0. /\ turn[p] \in [at : Stages, msg : Messages \cup {"none"}, reply : Replies]
      /\ Quiet.at = "rest" /\ Quiet.reply = "none"
  BY DEF VoiceTypeOK, Quiet
<1>1. CASE turn'[p] = turn[p] /\ job'[p] = job[p]
  BY <1>1 DEF TurnInv, At
<1>2. CASE Listen(p) /\ job' = job /\ (turn'[p] = Quiet \/ turn'[p] = [turn[p] EXCEPT !.at = "respond"])
  <2>1. turn[p] = Quiet /\ job'[p].at = "idle"
    BY <1>2 DEF Listen, InStage, TurnInv, At
  <2>2. CASE turn'[p] = Quiet
    BY <1>0, <2>1, <2>2 DEF TurnInv, At
  <2>3. CASE turn'[p] = [turn[p] EXCEPT !.at = "respond"]
    <3>1. turn'[p].at = "respond" /\ turn'[p].reply = "none"
      BY <1>0, <2>1, <2>3
    <3>. QED BY <2>1, <3>1 DEF TurnInv, At
  <2>. QED BY <1>2, <2>2, <2>3
<1>3. CASE Say(p) /\ Begins(p) /\ turn'[p] = [turn[p] EXCEPT !.msg = job'[p].msg]
  <2>1. turn'[p].at = "respond" /\ turn'[p].reply = turn[p].reply /\ turn'[p].msg = job'[p].msg
    BY <1>0, <1>3 DEF Say, InStage
  <2>. QED BY <1>3, <2>1 DEF TurnInv, At, Say, InStage
<1>4. CASE Respond(p) /\ Does(p) /\ job'[p].at # "idle" /\ turn'[p] = turn[p]
  <2>1. /\ job[p].at # "idle" /\ job'[p].msg = job[p].msg
    <3>1. job[p].at = "again" => job[p].wait # 0
      BY ConstantsAssumption DEF ConstantsAssumption, SharedInv, Roles, Storing
    <3>2. job[p].at # "idle"
      BY <1>4 DEF Respond, Step, Enqueue, Dispatch, FindMergeCandidate, MergeMessage, CountActivity,
             InsertRow, ReadRowId, EnforceCap, WriteAnchor, DropRow, ExpireLeases, ScanStale,
             RequeueStale, ReleaseStale, CheckLimit, PickPrimary, GroupBatch, AcquireLeases,
             ClaimBatch, StartRun, EndRun, CompleteBatch, ReleaseBatch, SendReply, CheckResponse, At
    <3>. QED BY <1>4, <3>1, <3>2 DEF Does, Moves, Same, Returned, Walks, Returns, Finds, Counts, Inserts,
               Merges, ReadsBack, Overflows, Anchors, Drops, Expires, Scans, Requeues, Picks,
               Groups, TakesBatch, Prompts, Settles
  <2>. QED BY <1>4, <2>1 DEF TurnInv, At, Respond, InStage
<1>5. ASSUME NEW reply \in Replies, turn'[p] = Speaking(p, reply), job'[p].at = "idle"
      PROVE  TurnInv(p)'
  <2>1. turn'[p].at = "speak"
    BY <1>0, <1>5 DEF Speaking
  <2>. QED BY <1>5, <2>1 DEF TurnInv, At
<1>6. ReplyOf(p) \in Replies /\ "notice" \in Replies
  BY DEF ReplyOf, Replies
<1>7. CASE turn'[p] = Quiet /\ job'[p].at = "idle"
  BY <1>0, <1>7 DEF TurnInv, At
<1>8. Speak(p) => job[p].at = "idle"
  BY DEF Speak, InStage, TurnInv, At
<1>9. TypeInv
  BY DEF SharedInv
<1>. QED BY <1>1, <1>2, <1>3, <1>4, <1>5, <1>6, <1>7, <1>8, <1>9, TurnMoves

\* The answer that the turn takes from its row came from a run on its message.
LEMMA HearsStep ==
  ASSUME SharedInv, VoiceTypeOK, [VoiceNext]_voiceVars, Moved,
         NEW p \in Waiters, TurnInv(p), RightRow(p), Hears(p)
  PROVE  Hears(p)'
<1>0. /\ turn[p] \in [at : Stages, msg : Messages \cup {"none"}, reply : Replies]
      /\ Quiet.reply = "none"
      /\ prompted \subseteq prompted'
  BY PromptedGrows DEF VoiceTypeOK, Quiet
<1>1. CASE turn'[p] = turn[p]
  BY <1>0, <1>1 DEF Hears
<1>2. CASE turn'[p].reply \in {"none", "notice"}
  BY <1>2 DEF Hears
<1>3. CASE Listen(p) /\ turn'[p] = [turn[p] EXCEPT !.at = "respond"]
  <2>1. turn'[p].reply = "none"
    BY <1>0, <1>3 DEF Listen, InStage, TurnInv
  <2>. QED BY <1>2, <2>1
<1>4. CASE Say(p) /\ turn'[p] = [turn[p] EXCEPT !.msg = job'[p].msg]
  <2>1. turn'[p].reply = "none"
    BY <1>0, <1>4 DEF Say, InStage, TurnInv
  <2>. QED BY <1>2, <2>1
<1>5. CASE Respond(p) /\ turn'[p] = Speaking(p, ReplyOf(p))
  <2>1. turn'[p].reply = ReplyOf(p) /\ turn'[p].msg = turn[p].msg
    BY <1>0, <1>5 DEF Speaking
  <2>2. CASE ReplyOf(p) = "answer"
    <3>. DEFINE i == job[p].wait
                m == job[p].msg
    <3>1. At(p, "wait") /\ Readable(rows[i]) /\ rows[i].status = "done"
      BY <2>2 DEF ReplyOf
    <3>2. turn[p].msg = m
      BY <3>1 DEF TurnInv, At
    <3>3. p \in Procs /\ i # 0 /\ i \in Ids
      <4>1. p \in Procs
        BY ConstantsAssumption DEF ConstantsAssumption
      <4>2. i # 0
        BY <3>1, <4>1 DEF SharedInv, Roles, At, Storing
      <4>. QED BY <4>1, <4>2 DEF SharedInv, TypeInv, TypeOK, Job
    <3>4. m \in Messages \/ m = "none"
      BY <3>3 DEF SharedInv, TypeInv, TypeOK, Job
    <3>5. ~Hopeless(i)
      BY <3>1 DEF Hopeless, Plural, Readable
    <3>6. m \in prompted
      <4>1. CASE Holds(i, m)
        <5>1. m \in Messages
          BY <3>3, <4>1 DEF Holds, SharedInv, TypeInv, TypeOK, Row
        <5>. QED BY <3>1, <3>3, <4>1, <5>1 DEF SharedInv, Promptings
      <4>. QED BY <3>3, <3>5, <4>1 DEF RightRow
    <3>. QED BY <1>0, <2>1, <3>2, <3>6 DEF Hears
  <2>3. CASE ReplyOf(p) = "notice"
    BY <1>2, <2>1, <2>3
  <2>. QED BY <2>2, <2>3 DEF ReplyOf
<1>6. CASE turn'[p] = Speaking(p, "notice")
  BY <1>0, <1>2, <1>6 DEF Speaking
<1>7. CASE turn'[p] = Quiet
  BY <1>0, <1>2, <1>7
<1>8. TypeInv
  BY DEF SharedInv
<1>. QED BY <1>1, <1>3, <1>4, <1>5, <1>6, <1>7, <1>8, TurnMoves

\* Nothing is said and no one waits when the processes start.
LEMMA HearsInit == VoiceInit => SharedInv /\ HearsInv
<1>. SUFFICES ASSUME VoiceInit PROVE SharedInv /\ HearsInv
  OBVIOUS
<1>1. SharedInv
  BY SharedInit DEF VoiceInit
<1>2. ASSUME NEW p \in Waiters
      PROVE  TurnInv(p) /\ ReadBackInv(p) /\ RightRow(p) /\ Hears(p)
  <2>1. job[p] = Resting /\ turn[p] = Quiet
    BY ConstantsAssumption DEF ConstantsAssumption, VoiceInit, Init
  <2>2. job[p].at = "idle" /\ job[p].wait = 0 /\ turn[p].at = "rest" /\ turn[p].reply = "none"
    BY <2>1 DEF Resting, Quiet
  <2>. QED BY <2>1, <2>2 DEF TurnInv, At, ReadBackInv, NothingNewer, Storing, RightRow, Hears
<1>. QED BY <1>1, <1>2 DEF HearsInv

\* The parts together.
LEMMA HearsInvStep ==
  ASSUME OneServe, SharedInv, VoiceTypeOK, HearsInv, [VoiceNext]_voiceVars
  PROVE  SharedInv' /\ HearsInv'
<1>1. SharedInv' /\ Moved
  BY VoiceStep, SharedStep
<1>2. \A p \in Waiters : TurnInv(p)'
  BY TurnStep DEF HearsInv
<1>3. ASSUME crashes' = 0, NEW p \in Waiters
      PROVE  ReadBackInv(p)' /\ RightRow(p)' /\ Hears(p)'
  <2>1. crashes = 0
    BY <1>1, <1>3, CrashStep DEF SharedInv
  <2>2. TurnInv(p) /\ ReadBackInv(p) /\ RightRow(p) /\ Hears(p)
    BY <2>1 DEF HearsInv
  <2>. QED BY <1>1, <1>3, <2>1, <2>2, ReadBackStep, RightRowStep, HearsStep
<1>. QED BY <1>1, <1>2, <1>3 DEF HearsInv

\* With one voice process beside one `serve` that never stop, the answer that is
\* spoken comes from a run whose prompt held the words of the turn (run_voice_turn in
\* core/voice.rs, enqueue_request and wait_for_response in core/inbound_queue.rs):
\* the row that the query by age returns after the INSERT is the inserted one
\* unless it is one that cannot be read, whatever the other process does in between.
THEOREM VoiceHearsItsAnswer ==
  ASSUME OneServe
  PROVE  VoiceSpec => []HearsItsAnswer
<1>1. VoiceInit => SharedInv /\ HearsInv
  BY HearsInit
<1>2. SharedInv /\ HearsInv /\ VoiceTypeOK /\ [VoiceNext]_voiceVars => SharedInv' /\ HearsInv'
  BY HearsInvStep, OneServe
<1>3. HearsInv => HearsItsAnswer
  BY DEF HearsInv, Hears, HearsItsAnswer
<1>4. VoiceSpec => []VoiceTypeOK
  BY VoiceTypeCorrect, PTL
<1>. QED BY <1>1, <1>2, <1>3, <1>4, PTL DEF VoiceSpec
===============================================================================
