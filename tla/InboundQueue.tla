----------------------------- MODULE InboundQueue -----------------------------
(***************************************************************************)
(* The persistent inbound queue (ai_assistant/src/core/inbound_queue.rs).  *)
(*                                                                         *)
(* Every access to the database is one run of the sqlite3 program          *)
(* (adapters/storage.rs, exec and query), so one SQL statement is one      *)
(* atomic step, and whatever other operating-system processes do may come  *)
(* between two statements: `serve`, `voice run` and the other commands     *)
(* share one database file.  Each action below is one statement together   *)
(* with the local computation that builds it.  A process may stop between  *)
(* any two of its steps (Crash), be it killed or ended by a failing        *)
(* statement, and is started again by systemd.                             *)
(*                                                                         *)
(* The column sessions.state, which the queue writes and never reads, is   *)
(* left out.  A text is the set of the messages it is made of.             *)
(***************************************************************************)
EXTENDS Integers, Sequences, FiniteSets

CONSTANTS
  Procs,          \* processes that use the queue
  Waiters,        \* the processes of `voice run`, which wait for their reply
  Sessions,
  Messages,       \* the messages that may arrive, each at most once
  SessionOf,      \* the session a message belongs to
  Broken,         \* messages whose own text holds a line break or a tab
  Debounce,       \* telegram_debounce_ms and voice_debounce_ms
  Cap,            \* per_session_cap
  Summarize,      \* drop_policy = "summarize"
  GlobalMax,      \* global_max_concurrency
  LeaseTimeout,   \* lease_timeout_ms
  WaitTimeout,    \* the timeout_ms of wait_for_response
  VoiceSessions,  \* the sessions with surface "voice"; the others are "telegram"
  \* Bounds of the model: rows, clock, last arrival, crashes, last crash.
  MaxRows, MaxTime, LastArrival, MaxCrashes, LastCrash

ASSUME ConstantsAssumption ==
  /\ Waiters \subseteq Procs
  /\ Sessions # {}
  /\ SessionOf \in [Messages -> Sessions]
  /\ Broken \subseteq Messages
  /\ VoiceSessions \subseteq Sessions
  /\ {Debounce, Cap, GlobalMax, LeaseTimeout, WaitTimeout} \subseteq Nat
  /\ Summarize \in BOOLEAN
  /\ {MaxRows, MaxTime, LastArrival, MaxCrashes, LastCrash} \subseteq Nat

VARIABLES
  clock,      \* now_epoch_ms()
  rows,       \* table inbound_queue
  nextId,     \* its AUTOINCREMENT counter
  leases,     \* table inbound_queue_leases
  job,        \* what each process is doing, with its local variables
  unsent,     \* messages that have not arrived yet
  \* History: the messages stored; those that were put into a prompt; how often
  \* each was claimed for a run, and replied to; the crashes.
  accepted, prompted, claims, replies, crashes

tables  == <<rows, nextId, leases>>
history == <<accepted, prompted, claims, replies>>
vars    == <<clock, tables, job, unsent, history, crashes>>

-------------------------------------------------------------------------------
(* The tables and the local variables.                                     *)

Ids      == 1..MaxRows
Terminal == {"done", "failed", "dropped"}
Statuses == {"absent", "queued", "running"} \cup Terminal

\* created, available and started are times, 0 for NULL.  A summary is a
\* sequence of lines, each the set of messages it quotes; brokenError says
\* that error_text holds a line break.
Row == [session: Sessions, text: SUBSET Messages, status: Statuses,
        created: Nat, available: Nat, started: Nat,
        summary: Seq(SUBSET Messages), brokenError: BOOLEAN]

Lease == [scope: {"global", "session"}, item: Ids, session: Sessions, expires: Nat]

Places == {"idle", "find", "merge", "count", "insert", "readid",
           "cap", "anchor", "drop", "wait", "again",
           "stale", "requeue", "unlease", "limit", "pick", "group",
           "lease", "claim", "claimed", "running", "complete", "release", "reply"}

\* at: the next step.  row and ids: the rows the process works on.  now: the
\* time it captured.  text: a text it has read, or the summary it made.  lines:
\* a summary_text it has read or is about to write.  window: the primary's
\* available_at.  ok: the answer of a yes-or-no statement, or how the run ended.
\* wait and deadline: the row whose reply a waiter wants (0 for none), and until
\* when.
Job == [at: Places, msg: Messages \cup {"none"}, row: Ids \cup {0}, ids: SUBSET Ids,
        now: Nat, text: SUBSET Messages, lines: Seq(SUBSET Messages),
        window: Nat, ok: BOOLEAN, wait: Ids \cup {0}, deadline: Nat]

Resting == [at |-> "idle", msg |-> "none", row |-> 0, ids |-> {}, now |-> 0,
            text |-> {}, lines |-> <<>>, window |-> 0, ok |-> TRUE, wait |-> 0, deadline |-> 0]

AbsentRow == [session |-> CHOOSE s \in Sessions : TRUE, text |-> {}, status |-> "absent",
              created |-> 0, available |-> 0, started |-> 0,
              summary |-> <<>>, brokenError |-> FALSE]

AtLeastOne(n) == IF n = 0 THEN 1 ELSE n

\* query() splits what sqlite3 prints on line breaks and tabs, so a row with a
\* line break in a column before the last comes back in pieces and parse_item
\* takes none of them.  Merged texts and joined summaries hold line breaks.
Readable(r) ==
  /\ \A a, b \in r.text : a = b
  /\ r.text \cap Broken = {}
  /\ Len(r.summary) <= 1
  /\ ~r.brokenError

QueuedOfAnySession(s) == {i \in Ids : rows[i].status = "queued"}  \* mutant

QueuedOf(s) == {i \in Ids : rows[i].status = "queued" /\ rows[i].session = s}

ReadableIn(S) == {i \in S : Readable(rows[i])}

\* ORDER BY created_at DESC (ASC) LIMIT 1; ties come in any order.
NewestAscending(S) == {i \in S : \A j \in S : rows[i].created <= rows[j].created}  \* mutant
Newest(S) == {i \in S : \A j \in S : rows[j].created <= rows[i].created}
Oldest(S) == {i \in S : \A j \in S : rows[i].created <= rows[j].created}

TextOf(S) == UNION {rows[i].text : i \in S}

\* The messages that a summary quotes.
Quoted(lines) == UNION {lines[k] : k \in DOMAIN lines}

QuotedIn(S) == UNION {Quoted(rows[i].summary) : i \in S}

Key(l) == IF l.scope = "global" THEN <<"global", l.item>> ELSE <<"session", l.session>>

KeysOf(i, s) == {<<"global", i>>, <<"session", s>>}

Leased(s) == \E l \in leases : l.scope = "session" /\ l.session = s

At(p, place) == job[p].at = place

\* The process goes on with the local variables j.
Becomes(p, j) == job' = [job EXCEPT ![p] = j]

Goto(p, place) == Becomes(p, [job[p] EXCEPT !.at = place])

\* UPDATE inbound_queue ... WHERE id = i
Update(i, r) == rows' = [rows EXCEPT ![i] = r]

\* Where a process is when enqueue_request or dispatch_due_once has returned.
Back(p) == IF job[p].wait = 0
           THEN Resting
           ELSE [Resting EXCEPT !.at = "wait", !.msg = job[p].msg, !.wait = job[p].wait,
                                !.deadline = job[p].deadline]

Finish(p) == Becomes(p, Back(p))

Init ==
  /\ clock = 0
  /\ rows = [i \in Ids |-> AbsentRow]
  /\ nextId = 1
  /\ leases = {}
  /\ job = [p \in Procs |-> Resting]
  /\ unsent = Messages
  /\ accepted = {}
  /\ prompted = {}
  /\ claims = [m \in Messages |-> 0]
  /\ replies = [m \in Messages |-> 0]
  /\ crashes = 0

-------------------------------------------------------------------------------
(* enqueue_request.  A message that trims to nothing is refused before any *)
(* statement and changes nothing.                                          *)

BeginEnqueue(p) ==
  /\ At(p, "idle")
  /\ clock <= LastArrival
  /\ \E m \in unsent :
       /\ SessionOf[m] \in VoiceSessions <=> p \in Waiters
       /\ unsent' = unsent \ {m}
       /\ Becomes(p, [Resting EXCEPT !.at = "find", !.msg = m, !.now = clock])
  /\ UNCHANGED <<clock, tables, history, crashes>>

\* find_merge_candidate: the newest queued row of the session, if it can be
\* read and its debounce window is open.
Mergeable(i, now) == Readable(rows[i]) /\ now <= rows[i].created + AtLeastOne(Debounce)

FindMergeCandidate(p) ==
  /\ At(p, "find")
  /\ LET newest == Newest(QueuedOf(SessionOf[job[p].msg]))
     IN \/ \E i \in newest :
             /\ Mergeable(i, job[p].now)
             /\ Becomes(p, [job[p] EXCEPT !.at = "merge", !.row = i, !.text = rows[i].text])
        \/ /\ newest = {} \/ \E i \in newest : ~Mergeable(i, job[p].now)
           /\ Goto(p, "count")
  /\ UNCHANGED <<clock, tables, unsent, history, crashes>>

\* run_voice_turn waits for the row that enqueue_request returns.
WaitedRow(p, i) == IF p \in Waiters THEN i ELSE 0

MergedText(p) == job[p].text \cup {job[p].msg}

\* The UPDATE names the row by its id only: it does not ask for status queued.
MergeMessage(p) ==
  /\ At(p, "merge")
  /\ Update(job[p].row, [rows[job[p].row] EXCEPT
                            !.text = MergedText(p),
                            !.available = job[p].now + AtLeastOne(Debounce),
                            !.created = job[p].now])
  /\ Becomes(p, [job[p] EXCEPT !.at = "cap", !.wait = WaitedRow(p, job[p].row)])
  /\ accepted' = accepted \cup {job[p].msg}
  /\ UNCHANGED <<clock, nextId, leases, unsent, prompted, claims, replies, crashes>>

\* A session with queued or running rows makes the new row wait out the window;
\* otherwise it can be claimed at once.
Busy(s) == \E i \in Ids : rows[i].session = s /\ rows[i].status \in {"queued", "running"}

CountActivity(p) ==
  /\ At(p, "count")
  /\ Becomes(p, [job[p] EXCEPT !.at = "insert", !.ok = ~Busy(SessionOf[job[p].msg])])
  /\ UNCHANGED <<clock, tables, unsent, history, crashes>>

FirstAvailableEarly(p) == job[p].now - (IF job[p].ok THEN 0 ELSE AtLeastOne(Debounce))  \* mutant

FirstAvailable(p) == job[p].now + (IF job[p].ok THEN 0 ELSE AtLeastOne(Debounce))

InsertRow(p) ==
  /\ At(p, "insert")
  /\ nextId \in Ids
  /\ Update(nextId, [AbsentRow EXCEPT !.session = SessionOf[job[p].msg],
                                      !.text = {job[p].msg},
                                      !.status = "queued",
                                      !.created = job[p].now,
                                      !.available = FirstAvailable(p)])
  /\ nextId' = nextId + 1
  /\ accepted' = accepted \cup {job[p].msg}
  /\ Goto(p, "readid")
  /\ UNCHANGED <<clock, leases, unsent, prompted, claims, replies, crashes>>

\* SELECT id ... ORDER BY created_at DESC, id DESC LIMIT 1: no row is an error.
ReadRowId(p) ==
  /\ At(p, "readid")
  /\ LET newest == Newest(QueuedOf(SessionOf[job[p].msg]))
     IN IF newest = {}
        THEN Becomes(p, Resting)
        ELSE \E i \in newest :
               /\ \A j \in newest : j <= i
               /\ Becomes(p, [job[p] EXCEPT !.at = "cap", !.wait = WaitedRow(p, i)])
  /\ UNCHANGED <<clock, tables, unsent, history, crashes>>

\* The queued rows of the session that enforce_session_cap gives up: the oldest
\* of those it can read, as many as exceed the cap.
Excess(s, drop) ==
  LET queued == ReadableIn(QueuedOf(s))
  IN /\ drop \subseteq queued
     /\ Cardinality(queued) - Cardinality(drop) = AtLeastOne(Cap)
     /\ \A i \in drop, j \in queued \ drop : rows[i].created <= rows[j].created

OverCap(s) == Cardinality(ReadableIn(QueuedOf(s))) > AtLeastOne(Cap)

EndEnqueue(p) == Becomes(p, IF job[p].wait = 0
                            THEN Resting
                            ELSE [Back(p) EXCEPT !.deadline = clock + WaitTimeout])

\* summarize_items quotes the dropped texts and the summaries they carried.
SummaryOfTexts(drop) == TextOf(drop)  \* mutant

SummaryOf(drop) == TextOf(drop) \cup QuotedIn(drop)

\* join_summary adds it as a line to the summary of the oldest kept row.
EnforceCap(p) ==
  /\ At(p, "cap")
  /\ LET s == SessionOf[job[p].msg]
     IN IF OverCap(s) /\ Summarize
        THEN \E drop \in SUBSET QueuedOf(s) :
               /\ Excess(s, drop)
               /\ \E anchor \in Oldest(ReadableIn(QueuedOf(s)) \ drop) :
                    Becomes(p, [job[p] EXCEPT
                      !.at = "anchor", !.row = anchor, !.ids = drop,
                      !.text = SummaryOf(drop),
                      !.lines = Append(rows[anchor].summary, SummaryOf(drop))])
        ELSE EndEnqueue(p)
  /\ UNCHANGED <<clock, tables, unsent, history, crashes>>

WriteAnchor(p) ==
  /\ At(p, "anchor")
  /\ Update(job[p].row, [rows[job[p].row] EXCEPT !.summary = job[p].lines])
  /\ Goto(p, "drop")
  /\ UNCHANGED <<clock, nextId, leases, unsent, history, crashes>>

\* One UPDATE for each dropped row, by id only.
DropRow(p) ==
  /\ At(p, "drop")
  /\ \E i \in Oldest(job[p].ids) :
       /\ Update(i, [rows[i] EXCEPT !.status = "dropped", !.summary = <<job[p].text>>])
       /\ IF job[p].ids = {i}
          THEN EndEnqueue(p)
          ELSE Becomes(p, [job[p] EXCEPT !.ids = @ \ {i}])
  /\ UNCHANGED <<clock, nextId, leases, unsent, history, crashes>>

-------------------------------------------------------------------------------
(* dispatch_due_once: recover what stopped processes left, claim a batch,  *)
(* run it, store its outcome, reply.                                       *)

ExpiredGlobal(now) == {l \in leases : l.scope = "global" /\ l.expires <= now}  \* mutant

Expired(now) == {l \in leases : l.expires <= now}

\* `serve` dispatches again and again; a waiter only while it waits.
ExpireLeases(p) ==
  /\ \/ At(p, "idle") /\ p \notin Waiters
     \/ At(p, "again")
  /\ leases' = leases \ Expired(clock)
  /\ Becomes(p, [Back(p) EXCEPT !.at = "stale", !.now = clock])
  /\ UNCHANGED <<clock, rows, nextId, unsent, history, crashes>>

\* list_running_items
StaleInAnyStatus(now) == {i \in Ids : /\ rows[i].status # "absent"  \* mutant
                                      /\ rows[i].started + LeaseTimeout <= now}

Stale(now) == {i \in Ids : /\ rows[i].status = "running"
                           /\ rows[i].started + LeaseTimeout <= now}

ScanStale(p) ==
  /\ At(p, "stale")
  /\ LET stale == ReadableIn(Stale(job[p].now))
     IN Becomes(p, [job[p] EXCEPT !.ids = stale,
                                  !.at = IF stale = {} THEN "limit" ELSE "requeue"])
  /\ UNCHANGED <<clock, tables, unsent, history, crashes>>

RequeueStale(p) ==
  /\ At(p, "requeue")
  /\ \E i \in job[p].ids :
       /\ Update(i, [rows[i] EXCEPT !.status = "queued", !.started = 0,
                                    !.available = job[p].now])
       /\ Becomes(p, [job[p] EXCEPT !.at = "unlease", !.row = i, !.ids = @ \ {i}])
  /\ UNCHANGED <<clock, nextId, leases, unsent, history, crashes>>

WithoutKeys(i) == {l \in leases : Key(l) \notin KeysOf(i, rows[i].session)}

ReleaseStale(p) ==
  /\ At(p, "unlease")
  /\ leases' = WithoutKeys(job[p].row)
  /\ Goto(p, IF job[p].ids = {} THEN "limit" ELSE "requeue")
  /\ UNCHANGED <<clock, rows, nextId, unsent, history, crashes>>

GlobalLeases == {l \in leases : l.scope = "global"}

AtLimitPlusOne == Cardinality(GlobalLeases) > AtLeastOne(GlobalMax)  \* mutant

AtLimit == Cardinality(GlobalLeases) >= AtLeastOne(GlobalMax)

CheckLimit(p) ==
  /\ At(p, "limit")
  /\ IF AtLimit
     THEN Finish(p)
     ELSE Goto(p, "pick")
  /\ UNCHANGED <<clock, tables, unsent, history, crashes>>

\* The oldest due row of a session without a lease.  When that one row cannot
\* be read there is no batch, whatever else is queued.
DueInAnyStatus == {i \in Ids : /\ rows[i].status # "absent"  \* mutant
                               /\ rows[i].available <= clock
                               /\ ~Leased(rows[i].session)}

Due == {i \in Ids : /\ rows[i].status = "queued"
                    /\ rows[i].available <= clock
                    /\ ~Leased(rows[i].session)}

PickPrimary(p) ==
  /\ At(p, "pick")
  /\ \/ \E i \in Oldest(Due) :
          /\ Readable(rows[i])
          /\ Becomes(p, [job[p] EXCEPT !.at = "group", !.row = i, !.now = clock,
                                       !.text = rows[i].text, !.lines = rows[i].summary,
                                       !.window = rows[i].available])
     \/ /\ Due = {} \/ \E i \in Oldest(Due) : ~Readable(rows[i])
        /\ Finish(p)
  /\ UNCHANGED <<clock, tables, unsent, history, crashes>>

\* The other due rows of the session, oldest first, as long as each was created
\* in the window that the rows before it leave open.
Burst(primary, now, window) ==
  LET due == {i \in ReadableIn(QueuedOf(rows[primary].session)) \ {primary} :
                rows[i].available <= now}
      InWindow(i) == \/ rows[i].created <= window
                     \/ \E j \in due : /\ rows[j].created < rows[i].created
                                       /\ rows[i].created <= rows[j].available
  IN {i \in due : \A j \in due : rows[j].created <= rows[i].created => InWindow(j)}

GroupBatch(p) ==
  /\ At(p, "group")
  /\ LET burst == Burst(job[p].row, job[p].now, job[p].window)
     IN Becomes(p, [job[p] EXCEPT !.at = "lease",
                                  !.ids = burst \cup {job[p].row},
                                  !.text = @ \cup TextOf(burst),
                                  !.lines = <<Quoted(@) \cup QuotedIn(burst)>>])
  /\ UNCHANGED <<clock, tables, unsent, history, crashes>>

\* INSERT OR REPLACE: leases that another process holds are not looked at.
AcquireLeases(p) ==
  /\ At(p, "lease")
  /\ LET i == job[p].row
         NewLease(scope) == [scope |-> scope, item |-> i, session |-> rows[i].session,
                             expires |-> clock + AtLeastOne(LeaseTimeout)]
     IN leases' = WithoutKeys(i) \cup {NewLease("global"), NewLease("session")}
  /\ Goto(p, "claim")
  /\ UNCHANGED <<clock, rows, nextId, unsent, history, crashes>>

\* The UPDATE names the rows by id only.
Claimed(ids) == [i \in Ids |-> IF i \in ids
                               THEN [rows[i] EXCEPT !.status = "running", !.started = clock]
                               ELSE rows[i]]

ClaimPrimary(p) ==  \* mutant
  /\ At(p, "claim")
  /\ rows' = Claimed({job[p].row})
  /\ Goto(p, "claimed")
  /\ UNCHANGED <<clock, nextId, leases, unsent, history, crashes>>

ClaimBatch(p) ==
  /\ At(p, "claim")
  /\ rows' = Claimed(job[p].ids)
  /\ claims' = [m \in Messages |-> IF m \in TextOf(job[p].ids) THEN claims[m] + 1 ELSE claims[m]]
  /\ Goto(p, "claimed")
  /\ UNCHANGED <<clock, nextId, leases, unsent, accepted, prompted, replies, crashes>>

\* The prompt quotes the texts and the summaries.  The run takes as long as
\* the model does.
StartRun(p) ==
  /\ At(p, "claimed")
  /\ prompted' = prompted \cup job[p].text \cup Quoted(job[p].lines)
  /\ Goto(p, "running")
  /\ UNCHANGED <<clock, tables, unsent, accepted, claims, replies, crashes>>

EndRun(p) ==
  /\ At(p, "running")
  /\ \E ok \in BOOLEAN : Becomes(p, [job[p] EXCEPT !.at = "complete", !.ok = ok])
  /\ UNCHANGED <<clock, tables, unsent, history, crashes>>

\* complete_batch.  The UPDATE names the rows by id only; the text of an error
\* may hold line breaks.
Completed(ids, ok, broken) ==
  [i \in Ids |-> IF i \in ids
                 THEN [rows[i] EXCEPT !.status = IF ok THEN "done" ELSE "failed",
                                      !.brokenError = broken]
                 ELSE rows[i]]

CompletePrimary(p) ==  \* mutant
  /\ At(p, "complete")
  /\ rows' = Completed({job[p].row}, job[p].ok, FALSE)
  /\ Goto(p, "release")
  /\ UNCHANGED <<clock, nextId, leases, unsent, history, crashes>>

CompleteBatch(p) ==
  /\ At(p, "complete")
  /\ \E broken \in BOOLEAN :
       /\ job[p].ok => ~broken
       /\ rows' = Completed(job[p].ids, job[p].ok, broken)
  /\ Goto(p, "release")
  /\ UNCHANGED <<clock, nextId, leases, unsent, history, crashes>>

ReleaseBatch(p) ==
  /\ At(p, "release")
  /\ leases' = WithoutKeys(job[p].row)
  /\ IF rows[job[p].row].session \in VoiceSessions THEN Finish(p) ELSE Goto(p, "reply")
  /\ UNCHANGED <<clock, rows, nextId, unsent, history, crashes>>

Replied(text) == [m \in Messages |-> IF m \in text THEN replies[m] + 1 ELSE replies[m]]

\* send_reply, or the error notice; a failed delivery is logged and forgotten.
SendReply(p) ==
  /\ At(p, "reply")
  /\ replies' \in {Replied(job[p].text), replies}
  /\ Finish(p)
  /\ UNCHANGED <<clock, tables, unsent, accepted, prompted, claims, crashes>>

-------------------------------------------------------------------------------
(* wait_for_response: look at the row, stop at an outcome or at the        *)
(* deadline, otherwise dispatch whatever is due and look again.            *)

TimedOutAnew(p) == clock >= clock + WaitTimeout  \* mutant

TimedOut(p) == clock >= job[p].deadline

CheckResponse(p) ==
  /\ At(p, "wait")
  /\ LET r == rows[job[p].wait]
     IN \/ /\ Readable(r) /\ r.status \in Terminal
           /\ replies' = IF r.status = "dropped" THEN replies ELSE Replied(r.text)
           /\ Becomes(p, Resting)
        \/ /\ ~(Readable(r) /\ r.status \in Terminal)
           /\ IF TimedOut(p) THEN Becomes(p, Resting) ELSE Goto(p, "again")
           /\ UNCHANGED replies
  /\ UNCHANGED <<clock, tables, unsent, accepted, prompted, claims, crashes>>

-------------------------------------------------------------------------------
\* A process is killed, or ends because a statement failed; it starts again.
Crash(p) ==
  /\ crashes < MaxCrashes
  /\ clock <= LastCrash
  /\ ~At(p, "idle")
  /\ Becomes(p, Resting)
  /\ crashes' = crashes + 1
  /\ UNCHANGED <<clock, tables, unsent, history>>

Tick ==
  /\ clock < MaxTime
  /\ clock' = clock + 1
  /\ UNCHANGED <<tables, job, unsent, history, crashes>>

Enqueue(p) ==
  \/ FindMergeCandidate(p) \/ MergeMessage(p) \/ CountActivity(p) \/ InsertRow(p)
  \/ ReadRowId(p) \/ EnforceCap(p) \/ WriteAnchor(p) \/ DropRow(p)

Dispatch(p) ==
  \/ ExpireLeases(p) \/ ScanStale(p) \/ RequeueStale(p) \/ ReleaseStale(p)
  \/ CheckLimit(p) \/ PickPrimary(p) \/ GroupBatch(p) \/ AcquireLeases(p)
  \/ ClaimBatch(p) \/ StartRun(p) \/ EndRun(p) \/ CompleteBatch(p)
  \/ ReleaseBatch(p) \/ SendReply(p)

Step(p) == Enqueue(p) \/ Dispatch(p) \/ CheckResponse(p)

Next == Tick \/ \E p \in Procs : BeginEnqueue(p) \/ Step(p) \/ Crash(p)

Spec == Init /\ [][Next]_vars

\* A process that is up goes on, a run ends, and time passes.
Fairness == WF_vars(Tick) /\ \A p \in Procs : WF_vars(Step(p))

FairSpec == Spec /\ Fairness

-------------------------------------------------------------------------------
(* Properties.                                                             *)

\* The tables and the local variables hold values of their columns and types.
TypeOK ==
  /\ clock \in Nat
  /\ rows \in [Ids -> Row]
  /\ nextId \in Nat \ {0}
  /\ leases \subseteq Lease
  /\ job \in [Procs -> Job]
  /\ unsent \subseteq Messages
  /\ accepted \subseteq Messages
  /\ prompted \subseteq Messages
  /\ claims \in [Messages -> Nat]
  /\ replies \in [Messages -> Nat]
  /\ crashes \in Nat

Live == {i \in Ids : rows[i].status \in {"queued", "running"}}

\* A message that enqueue_request has stored is not lost: it has been put into a
\* prompt, or it waits in a queued or running row, in its own words or quoted by
\* the summary that enforce_session_cap wrote.  Merging, overflow, recovery and
\* a crash between any two statements keep it so.
NothingLost ==
  \A m \in accepted : m \in prompted \cup TextOf(Live) \cup QuotedIn(Live)

\* However often the process stops, nobody is answered twice: the outcome is
\* stored before the reply is sent.
AtMostOneReply == \A m \in Messages : replies[m] <= 1

\* A message is run again only because a run of it was cut short by a crash:
\* recover_stale_leases never hands out a row that a living run works on or
\* that has been completed.
RunsBoundedByCrashes == \A m \in Messages : claims[m] <= 1 + crashes

\* The leases that count towards global_max_concurrency, those of stopped
\* processes included, never exceed it.
LeaseLimit == Cardinality(GlobalLeases) <= AtLeastOne(GlobalMax)

\* A row that is done, failed or dropped stays what it is: no UPDATE by id alone
\* hits a row that was settled since the id was read.
TerminalIsFinal ==
  [][\A i \in Ids : rows[i].status \in Terminal => rows'[i].status = rows[i].status]_vars

\* The processes that work on a batch.
AtWork == {p \in Procs : job[p].at \in {"claimed", "running", "complete"}}

\* global_max_concurrency bounds the runs themselves, whatever the number of
\* processes (queue_drain_respects_single_global_and_session_run).
RunLimit == Cardinality(AtWork) <= AtLeastOne(GlobalMax)

\* The queue keeps the promise of InboxPromise.  The batch is what a process
\* works on between the claim and the outcome.
Phase(m) ==
  LET statuses == {rows[i].status : i \in {j \in Ids : m \in rows[j].text}}
  IN CASE statuses \cap {"done", "failed"} # {} -> "settled"
       [] "running" \in statuses -> "claimed"
       [] "queued" \in statuses -> "waiting"
       [] "dropped" \in statuses -> "summarised"
       [] OTHER -> "new"

PhaseMap == [m \in Messages |-> Phase(m)]

Batch == UNION {TextOf(job[p].ids) : p \in AtWork}

Promise == INSTANCE InboxPromise WITH phase <- PhaseMap, batch <- Batch

KeepsPromise == Promise!Spec

-------------------------------------------------------------------------------
(* Progress.                                                               *)

\* A message that was accepted gets into a prompt, whatever its text.
BurstIsAnswered == \A m \in Messages : (m \in accepted) ~> (m \in prompted)
===============================================================================
