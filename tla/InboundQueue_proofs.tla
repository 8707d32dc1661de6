-------------------------- MODULE InboundQueue_proofs --------------------------
(***************************************************************************)
(* Theorems about InboundQueue, for all values of its constants.           *)
(***************************************************************************)
EXTENDS InboundQueue, TLAPS

-------------------------------------------------------------------------------
(* Facts about the constants and the helpers.                              *)

\* The parameters of the queue are natural numbers.
LEMMA Parameters ==
  /\ Debounce \in Nat /\ Cap \in Nat /\ GlobalMax \in Nat
  /\ LeaseTimeout \in Nat /\ WaitTimeout \in Nat /\ MaxRows \in Nat
  /\ MaxTime \in Nat /\ MaxCrashes \in Nat
  /\ AtLeastOne(Debounce) \in Nat /\ AtLeastOne(LeaseTimeout) \in Nat
  BY ConstantsAssumption DEF AtLeastOne

\* The row of an id that was never inserted is a row.
LEMMA AbsentRowType == AbsentRow \in Row
  BY ConstantsAssumption DEF AbsentRow, Row, Statuses, Terminal

\* A process at rest has a well-typed state.
LEMMA RestingType == Resting \in Job
  BY DEF Resting, Job, Places

\* What a summary quotes are messages.
LEMMA QuotedType ==
  ASSUME NEW lines \in Seq(SUBSET Messages)
  PROVE  Quoted(lines) \subseteq Messages
  BY DEF Quoted

\* The messages that rows hold or quote are messages.
LEMMA RowsHoldMessages ==
  ASSUME rows \in [Ids -> Row], NEW S \in SUBSET Ids
  PROVE  TextOf(S) \subseteq Messages /\ QuotedIn(S) \subseteq Messages
<1>1. TextOf(S) \subseteq Messages
  BY DEF TextOf, Row
<1>2. \A i \in S : Quoted(rows[i].summary) \subseteq Messages
  BY QuotedType DEF Row
<1>3. QuotedIn(S) \subseteq Messages
  BY <1>2 DEF QuotedIn
<1>. QED BY <1>1, <1>3

\* The places and the statuses that the actions name.
LEMMA PlaceNames ==
  /\ "idle" \in Places /\ "find" \in Places /\ "merge" \in Places
  /\ "count" \in Places /\ "insert" \in Places /\ "readid" \in Places
  /\ "cap" \in Places /\ "anchor" \in Places /\ "drop" \in Places
  /\ "wait" \in Places /\ "again" \in Places /\ "stale" \in Places
  /\ "requeue" \in Places /\ "unlease" \in Places /\ "limit" \in Places
  /\ "pick" \in Places /\ "group" \in Places /\ "lease" \in Places
  /\ "claim" \in Places /\ "claimed" \in Places /\ "running" \in Places
  /\ "complete" \in Places /\ "release" \in Places /\ "reply" \in Places
  BY DEF Places

\* The values that the status column takes.
LEMMA StatusNames ==
  /\ "absent" \in Statuses /\ "queued" \in Statuses /\ "running" \in Statuses
  /\ "done" \in Statuses /\ "failed" \in Statuses /\ "dropped" \in Statuses
  BY DEF Statuses, Terminal

-------------------------------------------------------------------------------
(* Type correctness.                                                       *)

\* The local variables that a place relies on have been set: the message until
\* its row is stored, and the row that an UPDATE or a lease names.
Ready(j) ==
  /\ j.at \in {"find", "merge", "count", "insert"} => j.msg \in Messages
  /\ j.at \in {"merge", "group", "lease"} => j.row \in Ids

TypeInv == TypeOK /\ \A p \in Procs : Ready(job[p])

\* A step that leaves its process ready, with well-typed local variables, leaves
\* all processes so.
LEMMA JobStep ==
  ASSUME TypeInv, NEW p \in Procs, NEW j \in Job, Ready(j), Becomes(p, j)
  PROVE  job' \in [Procs -> Job] /\ \A q \in Procs : Ready(job'[q])
  BY DEF TypeInv, TypeOK, Becomes

\* A step to a place that relies on nothing new keeps the types.
LEMMA GotoStep ==
  ASSUME TypeInv, NEW p \in Procs, NEW place \in Places, Goto(p, place),
         place \notin {"find", "merge", "count", "insert", "group", "lease"}
  PROVE  job' \in [Procs -> Job] /\ \A q \in Procs : Ready(job'[q])
<1>. DEFINE j == [job[p] EXCEPT !.at = place]
<1>1. j \in Job
  BY ZenonT(60) DEF TypeInv, TypeOK, Job
<1>2. Ready(j)
  BY DEF Ready, TypeInv, TypeOK, Job
<1>. QED BY <1>1, <1>2, JobStep DEF Goto

\* So does going back to rest or to waiting.
LEMMA BackType ==
  ASSUME TypeInv, NEW p \in Procs
  PROVE  /\ Back(p) \in Job /\ Ready(Back(p))
         /\ \A d \in Nat : LET j == [Back(p) EXCEPT !.deadline = d]
                           IN j \in Job /\ Ready(j)
  BY PlaceNames, RestingType, ZenonT(60) DEF Back, TypeInv, TypeOK, Job, Resting, Ready

\* A process at rest relies on no row and on no message.
LEMMA RestingReady == Resting \in Job /\ Ready(Resting)
  BY RestingType DEF Resting, Ready

\* enqueue_request returns to rest, or to a wait with a deadline that is a time.
LEMMA EndEnqueueStep ==
  ASSUME TypeInv, NEW p \in Procs, EndEnqueue(p)
  PROVE  job' \in [Procs -> Job] /\ \A q \in Procs : Ready(job'[q])
<1>1. clock + WaitTimeout \in Nat
  BY Parameters DEF TypeInv, TypeOK
<1>. QED BY <1>1, BackType, RestingReady, JobStep DEF EndEnqueue

\* An UPDATE of one row keeps the table well typed.
LEMMA RowStep ==
  ASSUME rows \in [Ids -> Row], NEW i \in Ids, NEW r \in Row, Update(i, r)
  PROVE  rows' \in [Ids -> Row]
  BY DEF Update

\* The empty database and processes at rest are well typed.
LEMMA TypeInit == Init => TypeInv
<1>. SUFFICES ASSUME Init PROVE TypeInv
  OBVIOUS
<1>1. rows \in [Ids -> Row]
  BY AbsentRowType DEF Init
<1>2. job \in [Procs -> Job] /\ \A p \in Procs : Ready(job[p])
  BY RestingReady DEF Init
<1>. QED BY <1>1, <1>2 DEF Init, TypeInv, TypeOK

\* Every statement of enqueue_request writes values of the columns' types: merged
\* texts and joined summaries still consist of messages.
LEMMA EnqueueTypes ==
  ASSUME TypeInv, NEW p \in Procs, BeginEnqueue(p) \/ Enqueue(p)
  PROVE  TypeInv'
<1>. USE PlaceNames DEF tables, history
<1>1. CASE BeginEnqueue(p)
  <2>1. PICK m \in unsent : BeginEnqueue(p)!3!(m)
    BY <1>1 DEF BeginEnqueue
  <2>. DEFINE j == [Resting EXCEPT !.at = "find", !.msg = m, !.now = clock]
  <2>2. j \in Job /\ Ready(j)
    BY RestingType DEF TypeInv, TypeOK, Job, Resting, Ready
  <2>. QED BY <2>1, <2>2, JobStep, <1>1 DEF BeginEnqueue, TypeInv, TypeOK
<1>2. CASE FindMergeCandidate(p)
  <2>1. CASE Goto(p, "count")
    <3>. DEFINE j == [job[p] EXCEPT !.at = "count"]
    <3>1. j \in Job /\ Ready(j)
      BY <1>2, ZenonT(60) DEF FindMergeCandidate, At, TypeInv, TypeOK, Job, Ready
    <3>. QED BY <2>1, <3>1, JobStep, <1>2 DEF Goto, FindMergeCandidate, TypeInv, TypeOK
  <2>2. CASE \E i \in Ids : Becomes(p, [job[p] EXCEPT !.at = "merge", !.row = i, !.text = rows[i].text])
    <3>1. PICK i \in Ids : Becomes(p, [job[p] EXCEPT !.at = "merge", !.row = i, !.text = rows[i].text])
      BY <2>2
    <3>. DEFINE j == [job[p] EXCEPT !.at = "merge", !.row = i, !.text = rows[i].text]
    <3>2. rows[i].text \in SUBSET Messages
      BY DEF TypeInv, TypeOK, Row
    <3>3. job[p] \in Job /\ job[p].msg \in Messages
      BY <1>2 DEF FindMergeCandidate, At, TypeInv, TypeOK, Ready
    <3>4. j \in Job /\ Ready(j)
      BY <3>2, <3>3 DEF Job, Ready
    <3>. QED BY <3>1, <3>4, JobStep, <1>2 DEF FindMergeCandidate, TypeInv, TypeOK
  <2>. QED BY <2>1, <2>2, <1>2 DEF FindMergeCandidate, Newest, QueuedOf
<1>3. CASE MergeMessage(p)
  <2>. DEFINE i == job[p].row
              r == [rows[i] EXCEPT !.text = MergedText(p),
                                   !.available = job[p].now + AtLeastOne(Debounce),
                                   !.created = job[p].now]
              j == [job[p] EXCEPT !.at = "cap", !.wait = WaitedRow(p, i)]
  <2>1. i \in Ids /\ job[p].msg \in Messages /\ job[p] \in Job /\ rows[i] \in Row
    BY <1>3 DEF MergeMessage, At, TypeInv, TypeOK, Ready
  <2>2. job[p].text \in SUBSET Messages /\ job[p].now \in Nat
    BY <2>1 DEF Job
  <2>3. r \in Row
    <3>1. MergedText(p) \in SUBSET Messages
      BY <2>1, <2>2 DEF MergedText
    <3>2. job[p].now + AtLeastOne(Debounce) \in Nat
      BY <2>2, Parameters
    <3>. HIDE DEF i
    <3>. QED BY <2>1, <2>2, <3>1, <3>2 DEF Row
  <2>4. rows' \in [Ids -> Row]
    BY <2>1, <2>3, RowStep, <1>3 DEF MergeMessage, TypeInv, TypeOK
  <2>5. j \in Job /\ Ready(j)
    BY <2>1 DEF WaitedRow, Job, Ready
  <2>6. accepted' \subseteq Messages
    BY <2>1, <1>3 DEF MergeMessage, TypeInv, TypeOK
  <2>. QED BY <2>4, <2>5, <2>6, JobStep, <1>3 DEF MergeMessage, TypeInv, TypeOK
<1>4. CASE CountActivity(p)
  <2>. DEFINE j == [job[p] EXCEPT !.at = "insert", !.ok = ~Busy(SessionOf[job[p].msg])]
  <2>1. job[p] \in Job /\ job[p].msg \in Messages
    BY <1>4 DEF CountActivity, At, TypeInv, TypeOK, Ready
  <2>2. Busy(SessionOf[job[p].msg]) \in BOOLEAN
    BY DEF Busy
  <2>3. j \in Job /\ Ready(j)
    BY <2>1, <2>2 DEF Job, Ready
  <2>. QED BY <2>3, JobStep, <1>4 DEF CountActivity, TypeInv, TypeOK
<1>5. CASE InsertRow(p)
  <2>. DEFINE r == [AbsentRow EXCEPT !.session = SessionOf[job[p].msg],
                                     !.text = {job[p].msg},
                                     !.status = "queued",
                                     !.created = job[p].now,
                                     !.available = FirstAvailable(p)]
  <2>1. job[p].msg \in Messages /\ job[p] \in Job
    BY <1>5 DEF InsertRow, At, TypeInv, TypeOK, Ready
  <2>2. job[p].now \in Nat
    BY <2>1 DEF Job
  <2>3. FirstAvailable(p) \in Nat
    BY <2>2, Parameters DEF FirstAvailable
  <2>4. SessionOf[job[p].msg] \in Sessions
    BY <2>1, ConstantsAssumption
  <2>5. r \in Row
    BY <2>1, <2>2, <2>3, <2>4, AbsentRowType, StatusNames DEF Row
  <2>6. rows' \in [Ids -> Row]
    BY <2>5, RowStep, <1>5 DEF InsertRow, TypeInv, TypeOK
  <2>7. accepted' \subseteq Messages /\ nextId' \in Nat \ {0}
    BY <2>1, <1>5 DEF InsertRow, TypeInv, TypeOK
  <2>8. job' \in [Procs -> Job] /\ \A q \in Procs : Ready(job'[q])
    BY <1>5, GotoStep DEF InsertRow
  <2>. QED BY <2>6, <2>7, <2>8, <1>5 DEF InsertRow, TypeInv, TypeOK
<1>6. CASE ReadRowId(p)
  <2>1. CASE Becomes(p, Resting)
    BY <2>1, RestingReady, JobStep, <1>6 DEF ReadRowId, TypeInv, TypeOK
  <2>2. CASE \E i \in Ids : Becomes(p, [job[p] EXCEPT !.at = "cap", !.wait = WaitedRow(p, i)])
    <3>1. PICK i \in Ids : Becomes(p, [job[p] EXCEPT !.at = "cap", !.wait = WaitedRow(p, i)])
      BY <2>2
    <3>. DEFINE j == [job[p] EXCEPT !.at = "cap", !.wait = WaitedRow(p, i)]
    <3>2. job[p] \in Job
      BY DEF TypeInv, TypeOK
    <3>3. j \in Job /\ Ready(j)
      BY <3>2 DEF WaitedRow, Job, Ready
    <3>. QED BY <3>1, <3>3, JobStep, <1>6 DEF ReadRowId, TypeInv, TypeOK
  <2>. QED BY <2>1, <2>2, <1>6 DEF ReadRowId, Newest, QueuedOf
<1>7. CASE EnforceCap(p)
  <2>1. CASE EndEnqueue(p)
    BY <2>1, EndEnqueueStep, <1>7 DEF EnforceCap, TypeInv, TypeOK
  <2>2. CASE ~EndEnqueue(p)
    <3>. DEFINE s == SessionOf[job[p].msg]
                Saved(drop, anchor) == [job[p] EXCEPT
                      !.at = "anchor", !.row = anchor, !.ids = drop,
                      !.text = SummaryOf(drop),
                      !.lines = Append(rows[anchor].summary, SummaryOf(drop))]
    <3>1. \E drop \in SUBSET Ids, anchor \in Ids : Becomes(p, Saved(drop, anchor))
      BY <2>2, <1>7 DEF EnforceCap, QueuedOf, Oldest, ReadableIn
    <3>2. PICK drop \in SUBSET Ids, anchor \in Ids : Becomes(p, Saved(drop, anchor))
      BY <3>1
    <3>3. SummaryOf(drop) \in SUBSET Messages
      BY RowsHoldMessages DEF SummaryOf, TypeInv, TypeOK
    <3>4. rows[anchor].summary \in Seq(SUBSET Messages)
      BY DEF TypeInv, TypeOK, Row
    <3>5. Append(rows[anchor].summary, SummaryOf(drop)) \in Seq(SUBSET Messages)
      BY <3>3, <3>4
    <3>6. job[p] \in Job
      BY DEF TypeInv, TypeOK
    <3>7. Saved(drop, anchor) \in Job /\ Ready(Saved(drop, anchor))
      BY <3>3, <3>5, <3>6 DEF Job, Ready
    <3>. QED BY <3>2, <3>7, JobStep, <1>7 DEF EnforceCap, TypeInv, TypeOK
  <2>. QED BY <2>1, <2>2
<1>8. CASE WriteAnchor(p)
  <2>1. job[p].lines \in Seq(SUBSET Messages)
    BY DEF TypeInv, TypeOK, Job
  <2>2. \A i \in Ids : [rows[i] EXCEPT !.summary = job[p].lines] \in Row
    BY <2>1 DEF TypeInv, TypeOK, Row
  <2>3. rows' \in [Ids -> Row]
    BY <2>2, <1>8 DEF WriteAnchor, Update, TypeInv, TypeOK
  <2>4. job' \in [Procs -> Job] /\ \A q \in Procs : Ready(job'[q])
    BY <1>8, GotoStep DEF WriteAnchor
  <2>. QED BY <2>3, <2>4, <1>8 DEF WriteAnchor, TypeInv, TypeOK
<1>9. CASE DropRow(p)
  <2>1. job[p] \in Job
    BY DEF TypeInv, TypeOK
  <2>2. job[p].ids \in SUBSET Ids /\ job[p].text \in SUBSET Messages
    BY <2>1 DEF Job
  <2>3. PICK i \in Ids : DropRow(p)!2!(i)
    BY <2>2, <1>9 DEF DropRow, Oldest
  <2>4. [rows[i] EXCEPT !.status = "dropped", !.summary = <<job[p].text>>] \in Row
    <3>1. <<job[p].text>> \in Seq(SUBSET Messages)
      BY <2>2
    <3>. QED BY <3>1, StatusNames DEF TypeInv, TypeOK, Row
  <2>5. rows' \in [Ids -> Row]
    BY <2>3, <2>4, RowStep DEF TypeInv, TypeOK
  <2>6. CASE EndEnqueue(p)
    BY <2>5, <2>6, EndEnqueueStep, <1>9 DEF DropRow, TypeInv, TypeOK
  <2>7. CASE Becomes(p, [job[p] EXCEPT !.ids = @ \ {i}])
    <3>. DEFINE j == [job[p] EXCEPT !.ids = @ \ {i}]
    <3>1. j \in Job /\ Ready(j)
      BY <2>1, <1>9 DEF DropRow, At, Job, Ready
    <3>. QED BY <2>5, <2>7, <3>1, JobStep, <1>9 DEF DropRow, TypeInv, TypeOK
  <2>. QED BY <2>3, <2>6, <2>7
<1>. QED BY <1>1, <1>2, <1>3, <1>4, <1>5, <1>6, <1>7, <1>8, <1>9 DEF Enqueue

\* So does every statement of dispatch_due_once, from the expiry of the leases to
\* the reply.
LEMMA DispatchTypes ==
  ASSUME TypeInv, NEW p \in Procs, Dispatch(p)
  PROVE  TypeInv'
<1>. USE PlaceNames DEF tables, history
<1>0. job[p] \in Job
  BY DEF TypeInv, TypeOK
<1>1. CASE ExpireLeases(p)
  <2>. DEFINE j == [Back(p) EXCEPT !.at = "stale", !.now = clock]
  <2>1. j \in Job /\ Ready(j)
    BY BackType, ZenonT(60) DEF TypeInv, TypeOK, Job, Ready
  <2>. QED BY <2>1, JobStep, <1>1 DEF ExpireLeases, Expired, TypeInv, TypeOK
<1>2. CASE ScanStale(p)
  <2>. DEFINE stale == ReadableIn(Stale(job[p].now))
              place == IF stale = {} THEN "limit" ELSE "requeue"
              j == [job[p] EXCEPT !.ids = stale, !.at = place]
  <2>1. stale \subseteq Ids
    BY DEF ReadableIn, Stale
  <2>2. j \in Job /\ Ready(j)
    BY <1>0, <2>1 DEF Job, Ready
  <2>. QED BY <2>2, JobStep, <1>2 DEF ScanStale, TypeInv, TypeOK
<1>3. CASE RequeueStale(p)
  <2>1. job[p].now \in Nat /\ job[p].ids \in SUBSET Ids
    BY <1>0 DEF Job
  <2>2. PICK i \in job[p].ids : RequeueStale(p)!2!(i)
    BY <1>3 DEF RequeueStale
  <2>3. [rows[i] EXCEPT !.status = "queued", !.started = 0, !.available = job[p].now] \in Row
    BY <2>1, StatusNames, ZenonT(60) DEF TypeInv, TypeOK, Row
  <2>4. rows' \in [Ids -> Row]
    BY <2>1, <2>2, <2>3, RowStep DEF TypeInv, TypeOK
  <2>. DEFINE j == [job[p] EXCEPT !.at = "unlease", !.row = i, !.ids = @ \ {i}]
  <2>5. j \in Job /\ Ready(j)
    BY <1>0, <2>1 DEF Job, Ready
  <2>. QED BY <2>2, <2>4, <2>5, JobStep, <1>3 DEF RequeueStale, TypeInv, TypeOK
<1>4. CASE ReleaseStale(p)
  <2>1. job' \in [Procs -> Job] /\ \A q \in Procs : Ready(job'[q])
    BY <1>4, GotoStep DEF ReleaseStale
  <2>. QED BY <2>1, <1>4 DEF ReleaseStale, WithoutKeys, TypeInv, TypeOK
<1>5. CASE CheckLimit(p)
  <2>1. job' \in [Procs -> Job] /\ \A q \in Procs : Ready(job'[q])
    BY <1>5, GotoStep, BackType, JobStep DEF CheckLimit, Finish
  <2>. QED BY <2>1, <1>5 DEF CheckLimit, TypeInv, TypeOK
<1>6. CASE PickPrimary(p)
  <2>1. CASE Finish(p)
    BY <2>1, BackType, JobStep, <1>6 DEF Finish, PickPrimary, TypeInv, TypeOK
  <2>2. CASE ~Finish(p)
    <3>. DEFINE Picked(i) == [job[p] EXCEPT !.at = "group", !.row = i, !.now = clock,
                                            !.text = rows[i].text, !.lines = rows[i].summary,
                                            !.window = rows[i].available]
    <3>1. PICK i \in Ids : Becomes(p, Picked(i))
      BY <2>2, <1>6 DEF PickPrimary, Oldest, Due
    <3>2. /\ rows[i].text \in SUBSET Messages
          /\ rows[i].summary \in Seq(SUBSET Messages)
          /\ rows[i].available \in Nat
          /\ clock \in Nat
      BY DEF TypeInv, TypeOK, Row
    <3>3. Picked(i) \in Job /\ Ready(Picked(i))
      BY <1>0, <3>2 DEF Job, Ready
    <3>. QED BY <3>1, <3>3, JobStep, <1>6 DEF PickPrimary, TypeInv, TypeOK
  <2>. QED BY <2>1, <2>2
<1>7. CASE GroupBatch(p)
  <2>. DEFINE burst == Burst(job[p].row, job[p].now, job[p].window)
              text == job[p].text \cup TextOf(burst)
              quoted == Quoted(job[p].lines) \cup QuotedIn(burst)
              lines == <<quoted>>
              ids == burst \cup {job[p].row}
              j == [job[p] EXCEPT !.at = "lease", !.ids = ids, !.text = text, !.lines = lines]
  <2>1. burst \in SUBSET Ids
    BY DEF Burst, ReadableIn, QueuedOf
  <2>2. /\ job[p].text \in SUBSET Messages
        /\ job[p].lines \in Seq(SUBSET Messages)
        /\ job[p].row \in Ids
    BY <1>0, <1>7 DEF Job, GroupBatch, At, TypeInv, Ready
  <2>3. text \in SUBSET Messages
    BY <2>1, <2>2, RowsHoldMessages DEF TypeInv, TypeOK
  <2>4. lines \in Seq(SUBSET Messages)
    <3>1. Quoted(job[p].lines) \subseteq Messages
      BY <2>2, QuotedType
    <3>2. QuotedIn(burst) \subseteq Messages
      BY <2>1, RowsHoldMessages DEF TypeInv, TypeOK
    <3>3. quoted \in SUBSET Messages
      BY <3>1, <3>2
    <3>. HIDE DEF quoted
    <3>. QED BY <3>3
  <2>5. ids \in SUBSET Ids
    BY <2>1, <2>2
  <2>6. Becomes(p, j)
    BY <1>7 DEF GroupBatch
  <2>7. j \in Job /\ Ready(j)
    <3>. HIDE DEF text, lines, ids
    <3>. QED BY <1>0, <2>2, <2>3, <2>4, <2>5 DEF Job, Ready
  <2>. HIDE DEF j
  <2>. QED BY <2>6, <2>7, JobStep, <1>7 DEF GroupBatch, TypeInv, TypeOK
<1>8. CASE AcquireLeases(p)
  <2>. DEFINE i == job[p].row
              NewLease(scope) == [scope |-> scope, item |-> i, session |-> rows[i].session,
                                  expires |-> clock + AtLeastOne(LeaseTimeout)]
  <2>1. i \in Ids
    BY <1>8 DEF AcquireLeases, At, TypeInv, Ready
  <2>2. rows[i].session \in Sessions /\ clock + AtLeastOne(LeaseTimeout) \in Nat
    BY <2>1, Parameters DEF TypeInv, TypeOK, Row
  <2>3. NewLease("global") \in Lease /\ NewLease("session") \in Lease
    BY <2>1, <2>2 DEF Lease
  <2>4. leases' \subseteq Lease
    BY <2>3, <1>8 DEF AcquireLeases, WithoutKeys, TypeInv, TypeOK
  <2>5. job' \in [Procs -> Job] /\ \A q \in Procs : Ready(job'[q])
    BY <1>8, GotoStep DEF AcquireLeases
  <2>. QED BY <2>4, <2>5, <1>8 DEF AcquireLeases, TypeInv, TypeOK
<1>9. CASE ClaimBatch(p)
  <2>1. \A i \in Ids : [rows[i] EXCEPT !.status = "running", !.started = clock] \in Row
    BY StatusNames DEF TypeInv, TypeOK, Row
  <2>2. rows' \in [Ids -> Row]
    BY <2>1, <1>9 DEF ClaimBatch, Claimed, TypeInv, TypeOK
  <2>3. claims' \in [Messages -> Nat]
    BY <1>9 DEF ClaimBatch, TypeInv, TypeOK
  <2>4. job' \in [Procs -> Job] /\ \A q \in Procs : Ready(job'[q])
    BY <1>9, GotoStep DEF ClaimBatch
  <2>. QED BY <2>2, <2>3, <2>4, <1>9 DEF ClaimBatch, TypeInv, TypeOK
<1>10. CASE StartRun(p)
  <2>1. job[p].text \subseteq Messages /\ Quoted(job[p].lines) \subseteq Messages
    BY <1>0, QuotedType DEF Job
  <2>2. job' \in [Procs -> Job] /\ \A q \in Procs : Ready(job'[q])
    BY <1>10, GotoStep DEF StartRun
  <2>. QED BY <2>1, <2>2, <1>10 DEF StartRun, TypeInv, TypeOK
<1>11. CASE EndRun(p)
  <2>1. PICK ok \in BOOLEAN : Becomes(p, [job[p] EXCEPT !.at = "complete", !.ok = ok])
    BY <1>11 DEF EndRun
  <2>. DEFINE j == [job[p] EXCEPT !.at = "complete", !.ok = ok]
  <2>2. j \in Job /\ Ready(j)
    BY <1>0 DEF Job, Ready
  <2>. QED BY <2>1, <2>2, JobStep, <1>11 DEF EndRun, TypeInv, TypeOK
<1>12. CASE CompleteBatch(p)
  <2>1. PICK broken \in BOOLEAN : rows' = Completed(job[p].ids, job[p].ok, broken)
    BY <1>12 DEF CompleteBatch
  <2>. DEFINE status == IF job[p].ok THEN "done" ELSE "failed"
  <2>2. status \in Statuses
    BY StatusNames
  <2>3. \A i \in Ids : [rows[i] EXCEPT !.status = status, !.brokenError = broken] \in Row
    <3>. HIDE DEF status
    <3>. QED BY <2>2 DEF TypeInv, TypeOK, Row
  <2>4. rows' \in [Ids -> Row]
    <3>1. rows' = [i \in Ids |-> IF i \in job[p].ids
                                 THEN [rows[i] EXCEPT !.status = status, !.brokenError = broken]
                                 ELSE rows[i]]
      BY <2>1 DEF Completed
    <3>. HIDE DEF status
    <3>. QED BY <2>3, <3>1 DEF TypeInv, TypeOK
  <2>5. job' \in [Procs -> Job] /\ \A q \in Procs : Ready(job'[q])
    BY <1>12, GotoStep DEF CompleteBatch
  <2>. QED BY <2>4, <2>5, <1>12 DEF CompleteBatch, TypeInv, TypeOK
<1>13. CASE ReleaseBatch(p)
  <2>1. job' \in [Procs -> Job] /\ \A q \in Procs : Ready(job'[q])
    BY <1>13, GotoStep, BackType, JobStep DEF ReleaseBatch, Finish
  <2>. QED BY <2>1, <1>13 DEF ReleaseBatch, WithoutKeys, TypeInv, TypeOK
<1>14. CASE SendReply(p)
  <2>1. replies' \in [Messages -> Nat]
    BY <1>14 DEF SendReply, Replied, TypeInv, TypeOK
  <2>. QED BY <2>1, BackType, JobStep, <1>14 DEF SendReply, Finish, TypeInv, TypeOK
<1>. QED BY <1>1, <1>2, <1>3, <1>4, <1>5, <1>6, <1>7, <1>8, <1>9, <1>10, <1>11, <1>12,
            <1>13, <1>14 DEF Dispatch

\* Every step of every process, crashes and the clock included, keeps the types.
LEMMA TypeStep == TypeInv /\ [Next]_vars => TypeInv'
<1>. SUFFICES ASSUME TypeInv, [Next]_vars PROVE TypeInv'
  OBVIOUS
<1>1. ASSUME NEW p \in Procs, BeginEnqueue(p) \/ Enqueue(p) PROVE TypeInv'
  BY <1>1, EnqueueTypes
<1>2. ASSUME NEW p \in Procs, Dispatch(p) PROVE TypeInv'
  BY <1>2, DispatchTypes
<1>3. ASSUME NEW p \in Procs, CheckResponse(p) PROVE TypeInv'
  <2>1. job' \in [Procs -> Job] /\ \A q \in Procs : Ready(job'[q])
    BY <1>3, RestingReady, JobStep, GotoStep, PlaceNames DEF CheckResponse
  <2>2. replies' \in [Messages -> Nat]
    BY <1>3 DEF CheckResponse, Replied, TypeInv, TypeOK
  <2>. QED BY <2>1, <2>2, <1>3 DEF CheckResponse, TypeInv, TypeOK, tables
<1>4. ASSUME NEW p \in Procs, Crash(p) PROVE TypeInv'
  BY <1>4, RestingReady, JobStep DEF Crash, TypeInv, TypeOK, tables, history
<1>5. CASE Tick
  BY <1>5 DEF Tick, TypeInv, TypeOK, tables, history
<1>6. CASE UNCHANGED vars
  BY <1>6 DEF vars, TypeInv, TypeOK, tables, history
<1>. QED BY <1>1, <1>2, <1>3, <1>4, <1>5, <1>6 DEF Next, Step

\* The tables and the local variables of enqueue_request, dispatch_due_once and
\* wait_for_response always hold values of their types, for any number of processes,
\* rows and messages and all debounce windows, caps, limits and timeouts.
THEOREM TypeCorrect == Spec => []TypeOK
<1>1. TypeInv => TypeOK
  BY DEF TypeInv
<1>. QED BY TypeInit, TypeStep, <1>1, PTL DEF Spec

-------------------------------------------------------------------------------
(* With one process, an outcome is final.                                  *)

\* Only one process uses the database: `serve` without `voice run` beside it.
OneProcess == \A p, q \in Procs : p = q

\* The rows all have this status in the table.
RowsAre(ids, status, table) == \A i \in ids : table[i].status = status

\* What a process read about the rows it is about to change is still so.
Snapshot(j, table) ==
  /\ j.at \in {"anchor", "drop", "lease", "claim"} => RowsAre(j.ids, "queued", table)
  /\ j.at \in {"requeue", "unlease", "claimed", "running", "complete"}
     => RowsAre(j.ids, "running", table)
  /\ j.at = "group" => table[j.row].status = "queued"

\* AUTOINCREMENT: no row has an id that is still to be given out.
FreshIds(table, next) == \A i \in Ids : i >= next => table[i].status = "absent"

\* The inductive invariant: the row ids that the process carries from one statement
\* to the next still have the status under which it read them.
FinalInv ==
  /\ TypeInv
  /\ FreshIds(rows, nextId)
  /\ \A p \in Procs : Snapshot(job[p], rows)

\* The step changes no status.
StatusesKept == \A i \in Ids : rows'[i].status = rows[i].status

\* The step changes no status that is an outcome.
TerminalKept == \A i \in Ids : rows[i].status \in Terminal => rows'[i].status = rows[i].status

\* What a step has to show.
FinalStep ==
  /\ FreshIds(rows', nextId')
  /\ \A q \in Procs : Snapshot(job'[q], rows')
  /\ TerminalKept

\* Places that rely on no row.
Free == Places \ {"anchor", "drop", "lease", "claim", "requeue", "unlease", "claimed",
                  "running", "complete", "group"}

\* With one process, the process that moves is the only one there is.
LEMMA OnlyJob ==
  ASSUME OneProcess, TypeInv, NEW p \in Procs, NEW j, Becomes(p, j)
  PROVE  \A q \in Procs : job'[q] = j
  BY DEF OneProcess, TypeInv, TypeOK, Becomes

\* A step to a place that relies on no row leaves nothing to go stale.
LEMMA FreeJob ==
  ASSUME OneProcess, TypeInv, NEW p \in Procs, NEW j, Becomes(p, j), j.at \in Free
  PROVE  \A q \in Procs : Snapshot(job'[q], rows')
<1>1. Snapshot(j, rows')
  BY DEF Free, Snapshot
<1>. QED BY <1>1, OnlyJob

\* The same when only the place changes.
LEMMA FreeGoto ==
  ASSUME OneProcess, TypeInv, NEW p \in Procs, NEW place \in Free, Goto(p, place)
  PROVE  \A q \in Procs : Snapshot(job'[q], rows')
<1>1. [job[p] EXCEPT !.at = place].at = place
  BY DEF TypeInv, TypeOK, Job
<1>. QED BY <1>1, FreeJob DEF Goto

\* A step to another place that works on the same rows, all statuses kept.
LEMMA SameRowsGoto ==
  ASSUME OneProcess, FinalInv, NEW p \in Procs, NEW place \in Places, Goto(p, place),
         StatusesKept,
         \/ job[p].at \in {"anchor", "lease"} /\ place \in {"drop", "claim"}
         \/ job[p].at \in {"unlease", "claimed"} /\ place \in {"requeue", "running"}
  PROVE  \A q \in Procs : Snapshot(job'[q], rows')
<1>. DEFINE j == [job[p] EXCEPT !.at = place]
<1>1. j.at = place /\ j.ids = job[p].ids /\ job[p].ids \in SUBSET Ids
  BY DEF FinalInv, TypeInv, TypeOK, Job
<1>2. Snapshot(job[p], rows)
  BY DEF FinalInv
<1>. HIDE DEF j
<1>3. Snapshot(j, rows')
  BY <1>1, <1>2 DEF Snapshot, RowsAre, StatusesKept
<1>. QED BY <1>3, OnlyJob DEF Goto, FinalInv, j

\* A process that has returned, to rest or to its wait, relies on no row.
LEMMA BackFree == ASSUME TypeInv, NEW p \in Procs
                  PROVE  Back(p).at \in Free /\ Resting.at \in Free /\ Back(p) \in Job
  BY PlaceNames, BackType DEF Back, Resting, Free

\* Nor does one that has left enqueue_request.
LEMMA EndEnqueueFree ==
  ASSUME OneProcess, TypeInv, NEW p \in Procs, EndEnqueue(p)
  PROVE  \A q \in Procs : Snapshot(job'[q], rows')
<1>. DEFINE j == IF job[p].wait = 0 THEN Resting ELSE [Back(p) EXCEPT !.deadline = clock + WaitTimeout]
<1>1. j.at \in Free
  BY BackFree DEF Job
<1>. HIDE DEF j
<1>. QED BY <1>1, FreeJob DEF EndEnqueue, j

\* No statement of enqueue_request (the merge, the insert, the anchor's summary, the
\* drops) changes the status of a settled row.
LEMMA EnqueueFinal ==
  ASSUME OneProcess, FinalInv, NEW p \in Procs, BeginEnqueue(p) \/ Enqueue(p)
  PROVE  FinalStep
<1>. USE PlaceNames DEF tables, history
<1>0. TypeInv /\ job[p] \in Job /\ Snapshot(job[p], rows) /\ FreshIds(rows, nextId)
  BY DEF FinalInv, TypeInv, TypeOK
<1>a. ASSUME UNCHANGED <<rows, nextId>> PROVE FreshIds(rows', nextId') /\ TerminalKept
  BY <1>0, <1>a DEF TerminalKept
<1>1. CASE BeginEnqueue(p)
  <2>1. PICK m \in unsent : BeginEnqueue(p)!3!(m)
    BY <1>1 DEF BeginEnqueue
  <2>2. [Resting EXCEPT !.at = "find", !.msg = m, !.now = clock].at \in Free
    BY DEF Resting, Free
  <2>. QED BY <1>0, <1>a, <1>1, <2>1, <2>2, FreeJob DEF FinalStep, BeginEnqueue
<1>2. CASE FindMergeCandidate(p)
  <2>1. \A i \in Ids : [job[p] EXCEPT !.at = "merge", !.row = i, !.text = rows[i].text].at \in Free
    BY <1>0 DEF Job, Free
  <2>2. "count" \in Free
    BY DEF Free
  <2>3. \A q \in Procs : Snapshot(job'[q], rows')
    BY <1>0, <1>2, <2>1, <2>2, FreeJob, FreeGoto DEF FindMergeCandidate, Newest, QueuedOf
  <2>. QED BY <1>a, <1>2, <2>3 DEF FinalStep, FindMergeCandidate
<1>3. CASE MergeMessage(p)
  <2>1. StatusesKept /\ nextId' = nextId
    BY <1>0, <1>3 DEF MergeMessage, Update, StatusesKept, TypeInv, TypeOK, Row
  <2>2. [job[p] EXCEPT !.at = "cap", !.wait = WaitedRow(p, job[p].row)].at \in Free
    BY <1>0 DEF Job, Free
  <2>3. \A q \in Procs : Snapshot(job'[q], rows')
    BY <1>0, <1>3, <2>2, FreeJob DEF MergeMessage
  <2>. QED BY <1>0, <2>1, <2>3 DEF FinalStep, FreshIds, TerminalKept, StatusesKept
<1>4. CASE CountActivity(p)
  <2>1. [job[p] EXCEPT !.at = "insert", !.ok = ~Busy(SessionOf[job[p].msg])].at \in Free
    BY <1>0 DEF Job, Free
  <2>. QED BY <1>0, <1>a, <1>4, <2>1, FreeJob DEF FinalStep, CountActivity
<1>5. CASE InsertRow(p)
  <2>1. rows[nextId].status = "absent" /\ nextId \in Nat
    BY <1>0, <1>5 DEF InsertRow, FreshIds, TypeInv, TypeOK, Ids
  <2>2. \A i \in Ids : i # nextId => rows'[i] = rows[i]
    BY <1>0, <1>5 DEF InsertRow, Update, TypeInv, TypeOK
  <2>3. TerminalKept
    BY <2>1, <2>2 DEF TerminalKept, Terminal
  <2>4. FreshIds(rows', nextId')
    BY <1>0, <1>5, <2>1, <2>2, Parameters DEF InsertRow, FreshIds, Ids
  <2>5. \A q \in Procs : Snapshot(job'[q], rows')
    BY <1>0, <1>5, FreeGoto DEF InsertRow, Free
  <2>. QED BY <2>3, <2>4, <2>5 DEF FinalStep
<1>6. CASE ReadRowId(p)
  <2>1. \A i \in Ids : [job[p] EXCEPT !.at = "cap", !.wait = WaitedRow(p, i)].at \in Free
    BY <1>0 DEF Job, Free
  <2>2. \A q \in Procs : Snapshot(job'[q], rows')
    BY <1>0, <1>6, <2>1, FreeJob, BackFree DEF ReadRowId, Newest, QueuedOf
  <2>. QED BY <1>a, <1>6, <2>2 DEF FinalStep, ReadRowId
<1>7. CASE EnforceCap(p)
  <2>1. CASE EndEnqueue(p)
    BY <1>0, <1>a, <1>7, <2>1, EndEnqueueFree DEF FinalStep, EnforceCap
  <2>2. CASE ~EndEnqueue(p)
    <3>. DEFINE s == SessionOf[job[p].msg]
                Saved(drop, anchor) == [job[p] EXCEPT
                      !.at = "anchor", !.row = anchor, !.ids = drop,
                      !.text = SummaryOf(drop),
                      !.lines = Append(rows[anchor].summary, SummaryOf(drop))]
    <3>1. \E drop \in SUBSET QueuedOf(s), anchor \in Ids : Becomes(p, Saved(drop, anchor))
      BY <2>2, <1>7 DEF EnforceCap, QueuedOf, Oldest, ReadableIn
    <3>2. PICK drop \in SUBSET QueuedOf(s), anchor \in Ids : Becomes(p, Saved(drop, anchor))
      BY <3>1
    <3>3. Saved(drop, anchor).at = "anchor" /\ Saved(drop, anchor).ids = drop
      BY <1>0 DEF Job
    <3>4. rows' = rows
      BY <1>7 DEF EnforceCap
    <3>5. \A q \in Procs : job'[q] = Saved(drop, anchor)
      BY <1>0, <3>2, OnlyJob
    <3>. HIDE DEF Saved
    <3>6. Snapshot(Saved(drop, anchor), rows')
      BY <3>3, <3>4 DEF Snapshot, RowsAre, QueuedOf
    <3>. QED BY <1>a, <1>7, <3>5, <3>6 DEF FinalStep, EnforceCap
  <2>. QED BY <2>1, <2>2
<1>8. CASE WriteAnchor(p)
  <2>1. StatusesKept /\ nextId' = nextId
    BY <1>0, <1>8 DEF WriteAnchor, Update, StatusesKept, TypeInv, TypeOK, Row
  <2>2. \A q \in Procs : Snapshot(job'[q], rows')
    BY <1>8, <2>1, SameRowsGoto DEF WriteAnchor, At
  <2>. QED BY <1>0, <2>1, <2>2 DEF FinalStep, FreshIds, TerminalKept, StatusesKept
<1>9. CASE DropRow(p)
  <2>1. job[p].ids \in SUBSET Ids
    BY <1>0 DEF Job
  <2>2. PICK i \in job[p].ids : DropRow(p)!2!(i)
    BY <1>9 DEF DropRow, Oldest
  <2>3. \A k \in job[p].ids : rows[k].status = "queued"
    BY <1>0, <1>9 DEF DropRow, At, Snapshot, RowsAre
  <2>4. /\ \A k \in Ids : k # i => rows'[k] = rows[k]
        /\ nextId' = nextId
    BY <1>0, <1>9, <2>2 DEF Update, DropRow, TypeInv, TypeOK
  <2>5. TerminalKept
    BY <2>2, <2>3, <2>4 DEF TerminalKept, Terminal
  <2>6. FreshIds(rows', nextId')
    BY <1>0, <2>1, <2>2, <2>3, <2>4 DEF FreshIds
  <2>7. \A q \in Procs : Snapshot(job'[q], rows')
    <3>1. CASE EndEnqueue(p)
      BY <1>0, <3>1, EndEnqueueFree
    <3>2. CASE Becomes(p, [job[p] EXCEPT !.ids = @ \ {i}])
      <4>. DEFINE j == [job[p] EXCEPT !.ids = @ \ {i}]
      <4>1. j.at = "drop" /\ j.ids = job[p].ids \ {i}
        BY <1>0, <1>9 DEF Job, DropRow, At
      <4>2. \A q \in Procs : job'[q] = j
        BY <1>0, <3>2, OnlyJob
      <4>. HIDE DEF j
      <4>3. Snapshot(j, rows')
        BY <2>1, <2>3, <2>4, <4>1 DEF Snapshot, RowsAre
      <4>. QED BY <4>2, <4>3
    <3>. QED BY <2>2, <3>1, <3>2
  <2>. QED BY <2>5, <2>6, <2>7 DEF FinalStep
<1>. QED BY <1>1, <1>2, <1>3, <1>4, <1>5, <1>6, <1>7, <1>8, <1>9 DEF Enqueue

\* Nor does any statement of dispatch_due_once (the requeue of stale rows, the
\* claim, the outcome).
LEMMA DispatchFinal ==
  ASSUME OneProcess, FinalInv, NEW p \in Procs, Dispatch(p)
  PROVE  FinalStep
<1>. USE PlaceNames DEF tables, history
<1>0. TypeInv /\ job[p] \in Job /\ Snapshot(job[p], rows) /\ FreshIds(rows, nextId)
  BY DEF FinalInv, TypeInv, TypeOK
<1>a. ASSUME UNCHANGED <<rows, nextId>> PROVE FreshIds(rows', nextId') /\ TerminalKept /\ StatusesKept
  BY <1>0, <1>a DEF TerminalKept, StatusesKept
<1>1. CASE ExpireLeases(p)
  <2>1. [Back(p) EXCEPT !.at = "stale", !.now = clock].at \in Free
    BY <1>0, BackFree DEF Job, Free
  <2>. QED BY <1>0, <1>a, <1>1, <2>1, FreeJob DEF FinalStep, ExpireLeases
<1>2. CASE ScanStale(p)
  <2>. DEFINE stale == ReadableIn(Stale(job[p].now))
              place == IF stale = {} THEN "limit" ELSE "requeue"
              j == [job[p] EXCEPT !.ids = stale, !.at = place]
  <2>1. RowsAre(stale, "running", rows)
    BY DEF RowsAre, ReadableIn, Stale
  <2>2. j.at = place /\ j.ids = stale
    BY <1>0 DEF Job
  <2>3. \A q \in Procs : job'[q] = j
    BY <1>0, <1>2, OnlyJob DEF ScanStale
  <2>4. place \in {"limit", "requeue"} /\ rows' = rows
    BY <1>2 DEF ScanStale
  <2>. HIDE DEF j, place, stale
  <2>5. Snapshot(j, rows')
    BY <2>1, <2>2, <2>4 DEF Snapshot
  <2>. QED BY <1>a, <1>2, <2>3, <2>5 DEF FinalStep, ScanStale
<1>3. CASE RequeueStale(p)
  <2>. DEFINE ids == job[p].ids
  <2>1. ids \in SUBSET Ids
    BY <1>0 DEF Job
  <2>2. PICK i \in ids : RequeueStale(p)!2!(i)
    BY <1>3 DEF RequeueStale
  <2>3. \A k \in ids : rows[k].status = "running"
    BY <1>0, <1>3 DEF RequeueStale, At, Snapshot, RowsAre
  <2>4. /\ \A k \in Ids : k # i => rows'[k] = rows[k]
        /\ nextId' = nextId
    BY <1>0, <1>3, <2>2 DEF Update, RequeueStale, TypeInv, TypeOK
  <2>5. TerminalKept
    BY <2>2, <2>3, <2>4 DEF TerminalKept, Terminal
  <2>6. FreshIds(rows', nextId')
    BY <1>0, <2>1, <2>2, <2>3, <2>4 DEF FreshIds
  <2>. DEFINE j == [job[p] EXCEPT !.at = "unlease", !.row = i, !.ids = @ \ {i}]
  <2>7. j.at = "unlease" /\ j.ids = ids \ {i}
    BY <1>0 DEF Job
  <2>8. \A q \in Procs : job'[q] = j
    BY <1>0, <2>2, OnlyJob
  <2>. HIDE DEF j, ids
  <2>9. Snapshot(j, rows')
    BY <2>1, <2>3, <2>4, <2>7 DEF Snapshot, RowsAre
  <2>. QED BY <2>5, <2>6, <2>8, <2>9 DEF FinalStep
<1>4. CASE ReleaseStale(p)
  <2>1. rows' = rows /\ nextId' = nextId
    BY <1>4 DEF ReleaseStale
  <2>2. \A q \in Procs : Snapshot(job'[q], rows')
    BY <1>0, <1>4, <1>a, <2>1, SameRowsGoto, FreeGoto DEF ReleaseStale, At, Free
  <2>. QED BY <1>a, <2>1, <2>2 DEF FinalStep
<1>5. CASE CheckLimit(p)
  <2>1. \A q \in Procs : Snapshot(job'[q], rows')
    BY <1>0, <1>5, BackFree, FreeJob, FreeGoto DEF CheckLimit, Finish, Free
  <2>. QED BY <1>a, <1>5, <2>1 DEF FinalStep, CheckLimit
<1>6. CASE PickPrimary(p)
  <2>1. CASE Finish(p)
    BY <1>0, <1>a, <1>6, <2>1, BackFree, FreeJob DEF FinalStep, Finish, PickPrimary
  <2>2. CASE ~Finish(p)
    <3>. DEFINE Picked(i) == [job[p] EXCEPT !.at = "group", !.row = i, !.now = clock,
                                            !.text = rows[i].text, !.lines = rows[i].summary,
                                            !.window = rows[i].available]
    <3>1. PICK i \in Due : Becomes(p, Picked(i))
      BY <2>2, <1>6 DEF PickPrimary, Oldest
    <3>2. Picked(i).at = "group" /\ Picked(i).row = i
      BY <1>0 DEF Job
    <3>3. rows[i].status = "queued" /\ rows' = rows
      BY <1>6 DEF Due, PickPrimary
    <3>4. \A q \in Procs : job'[q] = Picked(i)
      BY <1>0, <3>1, OnlyJob
    <3>. HIDE DEF Picked
    <3>5. Snapshot(Picked(i), rows')
      BY <3>2, <3>3 DEF Snapshot
    <3>. QED BY <1>a, <1>6, <3>4, <3>5 DEF FinalStep, PickPrimary
  <2>. QED BY <2>1, <2>2
<1>7. CASE GroupBatch(p)
  <2>. DEFINE burst == Burst(job[p].row, job[p].now, job[p].window)
              ids == burst \cup {job[p].row}
              j == [job[p] EXCEPT !.at = "lease", !.ids = ids,
                                  !.text = @ \cup TextOf(burst),
                                  !.lines = <<Quoted(@) \cup QuotedIn(burst)>>]
  <2>1. RowsAre(burst, "queued", rows)
    BY DEF RowsAre, Burst, ReadableIn, QueuedOf
  <2>2. rows[job[p].row].status = "queued"
    BY <1>0, <1>7 DEF GroupBatch, At, Snapshot
  <2>3. j.at = "lease" /\ j.ids = ids
    BY <1>0 DEF Job
  <2>4. Becomes(p, j) /\ rows' = rows
    BY <1>7 DEF GroupBatch
  <2>. HIDE DEF j, burst
  <2>5. \A q \in Procs : job'[q] = j
    BY <1>0, <2>4, OnlyJob
  <2>6. Snapshot(j, rows')
    BY <2>1, <2>2, <2>3, <2>4 DEF Snapshot, RowsAre
  <2>. QED BY <1>a, <1>7, <2>5, <2>6 DEF FinalStep, GroupBatch
<1>8. CASE AcquireLeases(p)
  <2>1. rows' = rows /\ nextId' = nextId
    BY <1>8 DEF AcquireLeases
  <2>2. \A q \in Procs : Snapshot(job'[q], rows')
    BY <1>8, <1>a, <2>1, SameRowsGoto DEF AcquireLeases, At
  <2>. QED BY <1>a, <2>1, <2>2 DEF FinalStep
<1>9. CASE ClaimBatch(p)
  <2>1. RowsAre(job[p].ids, "queued", rows) /\ job[p].ids \in SUBSET Ids
    BY <1>0, <1>9 DEF ClaimBatch, At, Snapshot, Job
  <2>2. /\ \A i \in Ids \ job[p].ids : rows'[i] = rows[i]
        /\ \A i \in job[p].ids : rows'[i].status = "running"
        /\ nextId' = nextId
    BY <1>0, <1>9, <2>1 DEF ClaimBatch, Claimed, TypeInv, TypeOK, Row
  <2>3. TerminalKept /\ FreshIds(rows', nextId')
    BY <1>0, <2>1, <2>2 DEF TerminalKept, Terminal, FreshIds, RowsAre
  <2>. DEFINE j == [job[p] EXCEPT !.at = "claimed"]
  <2>4. j.at = "claimed" /\ j.ids = job[p].ids
    BY <1>0 DEF Job
  <2>5. \A q \in Procs : job'[q] = j
    BY <1>0, <1>9, OnlyJob DEF ClaimBatch, Goto
  <2>. HIDE DEF j
  <2>6. Snapshot(j, rows')
    BY <2>2, <2>4 DEF Snapshot, RowsAre
  <2>. QED BY <2>3, <2>5, <2>6 DEF FinalStep
<1>10. CASE StartRun(p)
  <2>1. rows' = rows /\ nextId' = nextId
    BY <1>10 DEF StartRun
  <2>2. \A q \in Procs : Snapshot(job'[q], rows')
    BY <1>10, <1>a, <2>1, SameRowsGoto DEF StartRun, At
  <2>. QED BY <1>a, <2>1, <2>2 DEF FinalStep
<1>11. CASE EndRun(p)
  <2>1. PICK ok \in BOOLEAN : Becomes(p, [job[p] EXCEPT !.at = "complete", !.ok = ok])
    BY <1>11 DEF EndRun
  <2>. DEFINE j == [job[p] EXCEPT !.at = "complete", !.ok = ok]
  <2>2. j.at = "complete" /\ j.ids = job[p].ids
    BY <1>0 DEF Job
  <2>3. RowsAre(job[p].ids, "running", rows) /\ rows' = rows
    BY <1>0, <1>11 DEF EndRun, At, Snapshot
  <2>4. \A q \in Procs : job'[q] = j
    BY <1>0, <2>1, OnlyJob
  <2>. HIDE DEF j
  <2>5. Snapshot(j, rows')
    BY <2>2, <2>3 DEF Snapshot
  <2>. QED BY <1>a, <1>11, <2>4, <2>5 DEF FinalStep, EndRun
<1>12. CASE CompleteBatch(p)
  <2>1. RowsAre(job[p].ids, "running", rows) /\ job[p].ids \in SUBSET Ids
    BY <1>0, <1>12 DEF CompleteBatch, At, Snapshot, Job
  <2>2. /\ \A i \in Ids \ job[p].ids : rows'[i] = rows[i]
        /\ nextId' = nextId
    BY <1>0, <1>12, <2>1 DEF CompleteBatch, Completed, TypeInv, TypeOK
  <2>3. TerminalKept /\ FreshIds(rows', nextId')
    BY <1>0, <2>1, <2>2 DEF TerminalKept, Terminal, FreshIds, RowsAre
  <2>4. \A q \in Procs : Snapshot(job'[q], rows')
    BY <1>0, <1>12, FreeGoto DEF CompleteBatch, Free
  <2>. QED BY <2>3, <2>4 DEF FinalStep
<1>13. CASE ReleaseBatch(p)
  <2>1. \A q \in Procs : Snapshot(job'[q], rows')
    BY <1>0, <1>13, BackFree, FreeJob, FreeGoto DEF ReleaseBatch, Finish, Free
  <2>. QED BY <1>a, <1>13, <2>1 DEF FinalStep, ReleaseBatch
<1>14. CASE SendReply(p)
  <2>1. \A q \in Procs : Snapshot(job'[q], rows')
    BY <1>0, <1>14, BackFree, FreeJob DEF SendReply, Finish
  <2>. QED BY <1>a, <1>14, <2>1 DEF FinalStep, SendReply
<1>. QED BY <1>1, <1>2, <1>3, <1>4, <1>5, <1>6, <1>7, <1>8, <1>9, <1>10, <1>11, <1>12,
            <1>13, <1>14 DEF Dispatch

\* No step of the process, crashes and the clock included, unsettles a row or makes
\* what it has read stale.
LEMMA StepFinal ==
  ASSUME OneProcess, FinalInv, [Next]_vars
  PROVE  FinalStep
<1>. USE DEF tables, history
<1>0. TypeInv /\ FreshIds(rows, nextId)
  BY DEF FinalInv
<1>1. ASSUME NEW p \in Procs, BeginEnqueue(p) \/ Enqueue(p) PROVE FinalStep
  BY <1>1, EnqueueFinal
<1>2. ASSUME NEW p \in Procs, Dispatch(p) PROVE FinalStep
  BY <1>2, DispatchFinal
<1>3. ASSUME NEW p \in Procs, CheckResponse(p) \/ Crash(p) PROVE FinalStep
  <2>1. \A q \in Procs : Snapshot(job'[q], rows')
    BY <1>0, <1>3, BackFree, FreeJob, FreeGoto, PlaceNames DEF CheckResponse, Crash, Free
  <2>2. UNCHANGED <<rows, nextId>>
    BY <1>3 DEF CheckResponse, Crash
  <2>. QED BY <1>0, <2>1, <2>2 DEF FinalStep, TerminalKept
<1>4. CASE Tick \/ UNCHANGED vars
  <2>1. UNCHANGED <<rows, nextId, job>>
    BY <1>4 DEF Tick, vars
  <2>2. \A q \in Procs : Snapshot(job'[q], rows')
    BY <2>1 DEF FinalInv
  <2>. QED BY <1>0, <2>1, <2>2 DEF FinalStep, TerminalKept
<1>. QED BY <1>1, <1>2, <1>3, <1>4 DEF Next, Step

\* In an empty database no row is settled or carried.
LEMMA FinalInit == Init => FinalInv
<1>. SUFFICES ASSUME Init PROVE FinalInv
  OBVIOUS
<1>1. FreshIds(rows, nextId)
  BY DEF Init, FreshIds, AbsentRow
<1>2. \A p \in Procs : Snapshot(job[p], rows)
  BY DEF Init, Resting, Snapshot
<1>. QED BY <1>1, <1>2, TypeInit DEF FinalInv

\* While one process uses the database, a row that is done, failed or dropped stays
\* so, although the UPDATEs of merge, drop, requeue, claim and complete name rows by
\* id only: for any number of rows, messages, sessions and crashes and all parameters.
THEOREM OutcomesAreFinal ==
  ASSUME OneProcess
  PROVE  Spec => TerminalIsFinal
<1>1. Init => FinalInv
  BY FinalInit
<1>2. FinalInv /\ [Next]_vars => FinalInv'
  BY StepFinal, TypeStep DEF FinalInv, FinalStep
<1>3. FinalInv /\ [Next]_vars
      => [\A i \in Ids : rows[i].status \in Terminal => rows'[i].status = rows[i].status]_vars
  BY StepFinal DEF FinalStep, TerminalKept
<1>. QED BY <1>1, <1>2, <1>3, PTL DEF Spec, TerminalIsFinal
===============================================================================
