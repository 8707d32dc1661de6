-------------------------- MODULE InboxPromise_proofs --------------------------
(***************************************************************************)
(* What the inbound queue does to each message (modules InboundQueue and   *)
(* InboxPromise), when one process uses the database: for any number of    *)
(* messages, sessions, rows and crashes and all parameters.                *)
(***************************************************************************)
EXTENDS InboundQueue_proofs, FiniteSetTheorems

-------------------------------------------------------------------------------
(* What the process carries from one statement to the next.                *)

\* What some rows of a table hold, and what their summaries quote.
TextIn(ids, table) == UNION {table[i].text : i \in ids}

QuotedBy(ids, table) == UNION {Quoted(table[i].summary) : i \in ids}

OfSession(ids, s, table) == \A i \in ids : table[i].session = s

\* Where it works on a batch: before its outcome is stored, and after.
Batched == {"lease", "claim", "claimed", "running", "complete"}

Settled == {"release", "reply"}

\* Where it gives rows up.
Dropping == {"anchor", "drop"}

\* The texts, summaries and row ids in the local variables agree with the table.
Carries(j, table) ==
  /\ j.at = "merge" =>
       /\ table[j.row].status = "queued"
       /\ table[j.row].session = SessionOf[j.msg]
       /\ j.text = table[j.row].text
  /\ j.at = "group" => j.text = table[j.row].text /\ j.lines = table[j.row].summary
  /\ j.at \in Batched \cup Settled =>
       /\ j.row \in j.ids
       /\ j.text = TextIn(j.ids, table)
       /\ OfSession(j.ids, table[j.row].session, table)
  /\ j.at \in Batched => Quoted(j.lines) = QuotedBy(j.ids, table)
  /\ j.at \in Settled => \A i \in j.ids : table[i].status \in {"done", "failed"}
  /\ j.at \in Dropping =>
       /\ j.row \in Ids \ j.ids
       /\ table[j.row].status = "queued"
       /\ OfSession(j.ids, table[j.row].session, table)
       /\ TextIn(j.ids, table) \cup QuotedBy(j.ids, table) \subseteq j.text
  /\ j.at = "anchor" => Quoted(table[j.row].summary) \cup j.text \subseteq Quoted(j.lines)
  /\ j.at = "drop" => j.text \subseteq Quoted(table[j.row].summary)

CarryInv == FinalInv /\ \A p \in Procs : Carries(job[p], rows)

\* Places where nothing of this matters.
Loose == Places \ (Batched \cup Settled \cup Dropping \cup {"merge", "group"})

\* The statement changes no text, session or summary.
ContentKept ==
  \A i \in Ids : /\ rows'[i].text = rows[i].text
                 /\ rows'[i].session = rows[i].session
                 /\ rows'[i].summary = rows[i].summary

\* A summary with one line more quotes that much more.
LEMMA QuotedAppend ==
  ASSUME NEW s \in Seq(SUBSET Messages), NEW x \in SUBSET Messages
  PROVE  Quoted(Append(s, x)) = Quoted(s) \cup x
<1>1. DOMAIN Append(s, x) = DOMAIN s \cup {Len(s) + 1} /\ Append(s, x)[Len(s) + 1] = x
  OBVIOUS
<1>2. \A k \in DOMAIN s : Append(s, x)[k] = s[k]
  OBVIOUS
<1>3. ASSUME NEW m PROVE m \in Quoted(Append(s, x)) <=> m \in Quoted(s) \cup x
  BY <1>1, <1>2 DEF Quoted
<1>. QED BY <1>3

\* A summary of one line quotes that line.
LEMMA QuotedOne ==
  ASSUME NEW x
  PROVE  Quoted(<<x>>) = x
<1>1. DOMAIN <<x>> = {1} /\ <<x>>[1] = x
  OBVIOUS
<1>2. ASSUME NEW m PROVE m \in Quoted(<<x>>) <=> m \in x
  BY <1>1 DEF Quoted
<1>. QED BY <1>2

\* A statement that changes no text or summary leaves what rows hold and quote.
LEMMA ContentIn ==
  ASSUME ContentKept, NEW S \in SUBSET Ids
  PROVE  TextIn(S, rows') = TextIn(S, rows) /\ QuotedBy(S, rows') = QuotedBy(S, rows)
<1>1. \A i \in S : rows'[i].text = rows[i].text /\ rows'[i].summary = rows[i].summary
  BY DEF ContentKept
<1>2. \A m : m \in TextIn(S, rows') <=> m \in TextIn(S, rows)
  BY <1>1 DEF TextIn
<1>3. \A m : m \in QuotedBy(S, rows') <=> m \in QuotedBy(S, rows)
  BY <1>1 DEF QuotedBy
<1>. QED BY <1>2, <1>3

\* The places where the process carries nothing that could go stale.
LEMMA CarryLoose ==
  ASSUME NEW j, NEW table, j.at \in Loose
  PROVE  Carries(j, table)
  BY DEF Loose, Batched, Settled, Dropping, Carries

LEMMA LoosePlaces ==
  /\ {"idle", "find", "count", "insert", "readid", "cap", "wait", "again", "stale",
      "requeue", "unlease", "limit", "pick"} \subseteq Loose
  /\ \A p \in Procs : TypeInv => Back(p).at \in {"idle", "wait"} /\ Resting.at = "idle"
<1>1. \A p \in Procs : TypeInv => Back(p).at \in {"idle", "wait"} /\ Resting.at = "idle"
  BY DEF Back, Resting
<1>. QED BY <1>1 DEF Loose, Places, Batched, Settled, Dropping

\* A step within a batch goes on with the same rows.
LEMMA SameBatch ==
  ASSUME NEW i, NEW j, i.ids \in SUBSET Ids, Carries(i, rows), ContentKept,
         i.at \in Batched \cup Settled, j.at \in Batched \cup Settled,
         j.at \in Batched => i.at \in Batched,
         j.row = i.row, j.ids = i.ids, j.text = i.text, j.lines = i.lines,
         j.at \in Settled => \A k \in j.ids : rows'[k].status \in {"done", "failed"}
  PROVE  Carries(j, rows')
<1>1. /\ j.row \in j.ids /\ j.ids \in SUBSET Ids
      /\ j.text = TextIn(j.ids, rows)
      /\ OfSession(j.ids, rows[j.row].session, rows)
  BY DEF Carries
<1>2. j.at \in Batched => Quoted(j.lines) = QuotedBy(j.ids, rows)
  BY DEF Carries
<1>3. TextIn(j.ids, rows') = TextIn(j.ids, rows) /\ QuotedBy(j.ids, rows') = QuotedBy(j.ids, rows)
  BY <1>1, ContentIn
<1>4. OfSession(j.ids, rows'[j.row].session, rows')
  BY <1>1 DEF OfSession, ContentKept
<1>5. j.at \notin Dropping \cup {"merge", "group", "anchor", "drop"}
  BY DEF Batched, Settled, Dropping
<1>. QED BY <1>1, <1>2, <1>3, <1>4, <1>5 DEF Carries

\* What the process that moves has become.
LEMMA Moved ==
  ASSUME TypeInv, NEW p \in Procs, NEW j, Becomes(p, j)
  PROVE  job'[p] = j
  BY DEF TypeInv, TypeOK, Becomes

\* What it has become when only its place changes.
LEMMA Went ==
  ASSUME TypeInv, NEW p \in Procs, NEW place \in Places, Goto(p, place)
  PROVE  /\ job'[p].at = place
         /\ job'[p].msg = job[p].msg /\ job'[p].row = job[p].row /\ job'[p].ids = job[p].ids
         /\ job'[p].text = job[p].text /\ job'[p].lines = job[p].lines
         /\ job'[p].wait = job[p].wait
<1>. DEFINE j == [job[p] EXCEPT !.at = place]
<1>1. /\ j.at = place /\ j.msg = job[p].msg /\ j.row = job[p].row /\ j.ids = job[p].ids
      /\ j.text = job[p].text /\ j.lines = job[p].lines /\ j.wait = job[p].wait
  BY DEF TypeInv, TypeOK, Job
<1>2. job'[p] = j
  BY Moved DEF Goto
<1>. QED BY <1>1, <1>2

\* Back at rest or in its wait, the process carries nothing.
LEMMA ReturnedLoose ==
  ASSUME TypeInv, NEW p \in Procs,
         Becomes(p, Resting) \/ Finish(p) \/ EndEnqueue(p)
  PROVE  job'[p].at \in Loose
<1>1. ASSUME NEW j, Becomes(p, j), j.at \in {"idle", "wait"} PROVE job'[p].at \in Loose
  BY <1>1, Moved, LoosePlaces
<1>2. CASE Becomes(p, Resting)
  BY <1>1, <1>2, LoosePlaces
<1>3. CASE Finish(p)
  BY <1>1, <1>3, LoosePlaces DEF Finish
<1>4. CASE EndEnqueue(p)
  <2>1. [Back(p) EXCEPT !.deadline = clock + WaitTimeout].at = Back(p).at
    BY BackType DEF Job
  <2>. QED BY <1>1, <1>4, <2>1, LoosePlaces DEF EndEnqueue
<1>. QED BY <1>2, <1>3, <1>4

\* enqueue_request: the candidate that was found is still as it was read when its
\* text is overwritten; the summary that is written quotes what is dropped.
LEMMA EnqueueCarries ==
  ASSUME CarryInv, NEW p \in Procs, BeginEnqueue(p) \/ Enqueue(p)
  PROVE  Carries(job'[p], rows')
<1>. USE PlaceNames DEF tables, history
<1>0. /\ TypeInv /\ job[p] \in Job /\ Snapshot(job[p], rows) /\ Carries(job[p], rows)
      /\ rows \in [Ids -> Row]
  BY DEF CarryInv, FinalInv, TypeInv, TypeOK
<1>a. ASSUME job'[p].at \in Loose PROVE Carries(job'[p], rows')
  BY <1>a, CarryLoose
<1>b. ASSUME NEW j, Becomes(p, j), j.at \in Loose PROVE Carries(job'[p], rows')
  BY <1>0, <1>a, <1>b, Moved
<1>1. CASE BeginEnqueue(p)
  <2>1. PICK m \in unsent : BeginEnqueue(p)!3!(m)
    BY <1>1 DEF BeginEnqueue
  <2>2. [Resting EXCEPT !.at = "find", !.msg = m, !.now = clock].at \in Loose
    BY LoosePlaces DEF Resting
  <2>. QED BY <1>b, <2>1, <2>2
<1>2. CASE FindMergeCandidate(p)
  <2>1. CASE Goto(p, "count")
    BY <1>0, <1>a, <2>1, Went, LoosePlaces
  <2>2. CASE ~Goto(p, "count")
    <3>. DEFINE Found(i) == [job[p] EXCEPT !.at = "merge", !.row = i, !.text = rows[i].text]
    <3>1. PICK i \in QueuedOf(SessionOf[job[p].msg]) : Becomes(p, Found(i))
      BY <1>2, <2>2 DEF FindMergeCandidate, Newest
    <3>2. /\ Found(i).at = "merge" /\ Found(i).row = i /\ Found(i).text = rows[i].text
          /\ Found(i).msg = job[p].msg
      BY <1>0 DEF Job
    <3>3. rows[i].status = "queued" /\ rows[i].session = SessionOf[job[p].msg] /\ rows' = rows
      BY <1>2 DEF QueuedOf, FindMergeCandidate
    <3>4. job'[p] = Found(i)
      BY <1>0, <3>1, Moved
    <3>. HIDE DEF Found
    <3>. QED BY <3>2, <3>3, <3>4 DEF Carries, Batched, Settled, Dropping
  <2>. QED BY <2>1, <2>2
<1>3. CASE MergeMessage(p)
  <2>1. [job[p] EXCEPT !.at = "cap", !.wait = WaitedRow(p, job[p].row)].at \in Loose
    BY <1>0, LoosePlaces DEF Job
  <2>. QED BY <1>3, <1>b, <2>1 DEF MergeMessage
<1>4. CASE CountActivity(p)
  <2>1. [job[p] EXCEPT !.at = "insert", !.ok = ~Busy(SessionOf[job[p].msg])].at \in Loose
    BY <1>0, LoosePlaces DEF Job
  <2>. QED BY <1>4, <1>b, <2>1 DEF CountActivity
<1>5. CASE InsertRow(p)
  BY <1>0, <1>5, <1>a, Went, LoosePlaces DEF InsertRow
<1>6. CASE ReadRowId(p)
  <2>1. \A i \in Ids : [job[p] EXCEPT !.at = "cap", !.wait = WaitedRow(p, i)].at \in Loose
    BY <1>0, LoosePlaces DEF Job
  <2>. QED BY <1>0, <1>6, <1>a, <1>b, <2>1, ReturnedLoose DEF ReadRowId, Newest, QueuedOf
<1>7. CASE EnforceCap(p)
  <2>1. CASE EndEnqueue(p)
    BY <1>0, <1>a, <2>1, ReturnedLoose
  <2>2. CASE ~EndEnqueue(p)
    <3>. DEFINE s == SessionOf[job[p].msg]
                Saved(drop, anchor) == [job[p] EXCEPT
                      !.at = "anchor", !.row = anchor, !.ids = drop,
                      !.text = SummaryOf(drop),
                      !.lines = Append(rows[anchor].summary, SummaryOf(drop))]
    <3>1. \E drop \in SUBSET QueuedOf(s), anchor \in QueuedOf(s) :
            anchor \notin drop /\ Becomes(p, Saved(drop, anchor))
      BY <2>2, <1>7 DEF EnforceCap, Oldest, ReadableIn
    <3>2. PICK drop \in SUBSET QueuedOf(s), anchor \in QueuedOf(s) :
            anchor \notin drop /\ Becomes(p, Saved(drop, anchor))
      BY <3>1
    <3>3. /\ Saved(drop, anchor).at = "anchor"
          /\ Saved(drop, anchor).row = anchor
          /\ Saved(drop, anchor).ids = drop
          /\ Saved(drop, anchor).text = SummaryOf(drop)
          /\ Saved(drop, anchor).lines = Append(rows[anchor].summary, SummaryOf(drop))
      BY <1>0 DEF Job
    <3>4. rows' = rows
      BY <1>7 DEF EnforceCap
    <3>5. job'[p] = Saved(drop, anchor)
      BY <1>0, <3>2, Moved
    <3>. HIDE DEF Saved, s
    <3>6. SummaryOf(drop) = TextIn(drop, rows) \cup QuotedBy(drop, rows)
      BY DEF SummaryOf, TextOf, QuotedIn, TextIn, QuotedBy
    <3>7. drop \in SUBSET Ids /\ anchor \in Ids
      BY DEF QueuedOf
    <3>8. SummaryOf(drop) \in SUBSET Messages /\ rows[anchor].summary \in Seq(SUBSET Messages)
      BY <1>0, <3>7, RowsHoldMessages DEF SummaryOf, Row
    <3>9. Quoted(Append(rows[anchor].summary, SummaryOf(drop)))
            = Quoted(rows[anchor].summary) \cup SummaryOf(drop)
      BY <3>8, QuotedAppend
    <3>10. rows[anchor].status = "queued" /\ OfSession(drop, rows[anchor].session, rows)
      BY DEF QueuedOf, OfSession
    <3>. QED BY <3>2, <3>3, <3>4, <3>5, <3>6, <3>7, <3>9, <3>10
         DEF Carries, Batched, Settled, Dropping
  <2>. QED BY <2>1, <2>2
<1>8. CASE WriteAnchor(p)
  <2>1. /\ job'[p].at = "drop" /\ job'[p].row = job[p].row /\ job'[p].ids = job[p].ids
        /\ job'[p].text = job[p].text
    BY <1>0, <1>8, Went DEF WriteAnchor
  <2>2. job[p].row \in Ids \ job[p].ids /\ job[p].ids \in SUBSET Ids
    BY <1>0, <1>8 DEF WriteAnchor, At, Carries, Dropping, Job
  <2>3. \A i \in job[p].ids : rows'[i] = rows[i]
    BY <1>0, <1>8, <2>2 DEF WriteAnchor, Update
  <2>4. /\ rows'[job[p].row].summary = job[p].lines
        /\ rows'[job[p].row].status = rows[job[p].row].status
        /\ rows'[job[p].row].session = rows[job[p].row].session
    BY <1>0, <1>8, <2>2 DEF WriteAnchor, Update, Row
  <2>5. /\ TextIn(job[p].ids, rows') = TextIn(job[p].ids, rows)
        /\ QuotedBy(job[p].ids, rows') = QuotedBy(job[p].ids, rows)
    BY <2>3 DEF TextIn, QuotedBy
  <2>6. /\ rows[job[p].row].status = "queued"
        /\ OfSession(job[p].ids, rows[job[p].row].session, rows)
        /\ TextIn(job[p].ids, rows) \cup QuotedBy(job[p].ids, rows) \subseteq job[p].text
        /\ job[p].text \subseteq Quoted(job[p].lines)
    BY <1>0, <1>8 DEF WriteAnchor, At, Carries, Dropping
  <2>7. OfSession(job[p].ids, rows'[job[p].row].session, rows')
    BY <2>3, <2>4, <2>6 DEF OfSession
  <2>. QED BY <2>1, <2>2, <2>4, <2>5, <2>6, <2>7 DEF Carries, Batched, Settled, Dropping
<1>9. CASE DropRow(p)
  <2>1. job[p].ids \in SUBSET Ids
    BY <1>0 DEF Job
  <2>2. PICK i \in job[p].ids : DropRow(p)!2!(i)
    BY <1>9 DEF DropRow, Oldest
  <2>3. CASE EndEnqueue(p)
    BY <1>0, <1>a, <2>3, ReturnedLoose
  <2>4. CASE Becomes(p, [job[p] EXCEPT !.ids = @ \ {i}])
    <3>. DEFINE j == [job[p] EXCEPT !.ids = @ \ {i}]
                ids == job[p].ids \ {i}
    <3>1. j.at = "drop" /\ j.row = job[p].row /\ j.ids = ids /\ j.text = job[p].text
      BY <1>0, <1>9 DEF DropRow, At, Job
    <3>2. job'[p] = j
      BY <1>0, <2>4, Moved
    <3>. HIDE DEF j
    <3>3. /\ job[p].row \in Ids \ job[p].ids
          /\ rows[job[p].row].status = "queued"
          /\ OfSession(job[p].ids, rows[job[p].row].session, rows)
          /\ TextIn(job[p].ids, rows) \cup QuotedBy(job[p].ids, rows) \subseteq job[p].text
          /\ job[p].text \subseteq Quoted(rows[job[p].row].summary)
      BY <1>0, <1>9 DEF DropRow, At, Carries, Dropping
    <3>4. rows'[job[p].row] = rows[job[p].row] /\ \A k \in ids : rows'[k] = rows[k]
      BY <1>0, <2>1, <2>2, <3>3 DEF Update
    <3>5. TextIn(ids, rows') \cup QuotedBy(ids, rows') \subseteq job[p].text
      <4>1. ASSUME NEW m \in TextIn(ids, rows') \cup QuotedBy(ids, rows')
            PROVE  m \in TextIn(job[p].ids, rows) \cup QuotedBy(job[p].ids, rows)
        BY <3>4 DEF TextIn, QuotedBy
      <4>. QED BY <3>3, <4>1
    <3>6. OfSession(ids, rows'[job[p].row].session, rows')
      BY <3>3, <3>4 DEF OfSession
    <3>. QED BY <3>1, <3>2, <3>3, <3>4, <3>5, <3>6 DEF Carries, Batched, Settled, Dropping
  <2>. QED BY <2>2, <2>3, <2>4
<1>. QED BY <1>1, <1>2, <1>3, <1>4, <1>5, <1>6, <1>7, <1>8, <1>9 DEF Enqueue

\* dispatch_due_once: from the pick to the reply, the prompt and the reply are made
\* of the texts and summaries of exactly the rows of the batch.
LEMMA DispatchCarries ==
  ASSUME CarryInv, NEW p \in Procs, Dispatch(p)
  PROVE  Carries(job'[p], rows')
<1>. USE PlaceNames DEF tables, history
<1>0. /\ TypeInv /\ job[p] \in Job /\ Snapshot(job[p], rows) /\ Carries(job[p], rows)
      /\ rows \in [Ids -> Row] /\ job[p].ids \in SUBSET Ids
  BY DEF CarryInv, FinalInv, TypeInv, TypeOK, Job
<1>a. ASSUME job'[p].at \in Loose PROVE Carries(job'[p], rows')
  BY <1>a, CarryLoose
<1>b. ASSUME NEW j, Becomes(p, j), j.at \in Loose PROVE Carries(job'[p], rows')
  BY <1>0, <1>a, <1>b, Moved
<1>c. ASSUME UNCHANGED rows PROVE ContentKept
  BY <1>c DEF ContentKept
<1>1. CASE ExpireLeases(p)
  <2>1. [Back(p) EXCEPT !.at = "stale", !.now = clock].at \in Loose
    BY <1>0, BackType, LoosePlaces DEF Job
  <2>. QED BY <1>1, <1>b, <2>1 DEF ExpireLeases
<1>2. CASE ScanStale(p)
  <2>. DEFINE stale == ReadableIn(Stale(job[p].now))
              place == IF stale = {} THEN "limit" ELSE "requeue"
  <2>1. [job[p] EXCEPT !.ids = stale, !.at = place].at = place
    BY <1>0 DEF Job
  <2>2. place \in Loose
    BY LoosePlaces
  <2>. QED BY <1>2, <1>b, <2>1, <2>2 DEF ScanStale
<1>3. CASE RequeueStale(p)
  <2>1. \A i \in job[p].ids :
          [job[p] EXCEPT !.at = "unlease", !.row = i, !.ids = @ \ {i}].at \in Loose
    BY <1>0, LoosePlaces DEF Job
  <2>. QED BY <1>3, <1>b, <2>1 DEF RequeueStale
<1>4. CASE ReleaseStale(p)
  BY <1>0, <1>4, <1>a, Went, LoosePlaces DEF ReleaseStale
<1>5. CASE CheckLimit(p)
  BY <1>0, <1>5, <1>a, Went, ReturnedLoose, LoosePlaces DEF CheckLimit
<1>6. CASE PickPrimary(p)
  <2>1. CASE Finish(p)
    BY <1>0, <1>a, <2>1, ReturnedLoose
  <2>2. CASE ~Finish(p)
    <3>. DEFINE Picked(i) == [job[p] EXCEPT !.at = "group", !.row = i, !.now = clock,
                                            !.text = rows[i].text, !.lines = rows[i].summary,
                                            !.window = rows[i].available]
    <3>1. PICK i \in Due : Becomes(p, Picked(i))
      BY <2>2, <1>6 DEF PickPrimary, Oldest
    <3>2. /\ Picked(i).at = "group" /\ Picked(i).row = i
          /\ Picked(i).text = rows[i].text /\ Picked(i).lines = rows[i].summary
      BY <1>0 DEF Job
    <3>3. rows' = rows
      BY <1>6 DEF PickPrimary
    <3>4. job'[p] = Picked(i)
      BY <1>0, <3>1, Moved
    <3>. HIDE DEF Picked
    <3>. QED BY <3>2, <3>3, <3>4 DEF Carries, Batched, Settled, Dropping
  <2>. QED BY <2>1, <2>2
<1>7. CASE GroupBatch(p)
  <2>. DEFINE burst == Burst(job[p].row, job[p].now, job[p].window)
              ids == burst \cup {job[p].row}
              text == job[p].text \cup TextOf(burst)
              quoted == Quoted(job[p].lines) \cup QuotedIn(burst)
              j == [job[p] EXCEPT !.at = "lease", !.ids = ids, !.text = text, !.lines = <<quoted>>]
  <2>1. j.at = "lease" /\ j.row = job[p].row /\ j.ids = ids /\ j.text = text /\ j.lines = <<quoted>>
    BY <1>0 DEF Job
  <2>2. job'[p] = j /\ rows' = rows
    <3>1. Becomes(p, j)
      BY <1>7 DEF GroupBatch
    <3>. HIDE DEF j
    <3>. QED BY <1>0, <1>7, <3>1, Moved DEF GroupBatch
  <2>3. job[p].text = rows[job[p].row].text /\ job[p].lines = rows[job[p].row].summary
    BY <1>0, <1>7 DEF GroupBatch, At, Carries
  <2>4. OfSession(ids, rows[job[p].row].session, rows)
    BY DEF OfSession, Burst, ReadableIn, QueuedOf
  <2>. HIDE DEF j, burst
  <2>5. text = TextIn(ids, rows)
    <3>1. \A m : m \in text <=> m \in TextIn(ids, rows)
      BY <2>3 DEF TextIn, TextOf
    <3>. QED BY <3>1
  <2>6. quoted = QuotedBy(ids, rows)
    <3>1. \A m : m \in quoted <=> m \in QuotedBy(ids, rows)
      BY <2>3 DEF QuotedBy, QuotedIn
    <3>. QED BY <3>1
  <2>7. Quoted(<<quoted>>) = quoted
    BY QuotedOne
  <2>8. job[p].row \in ids
    OBVIOUS
  <2>. HIDE DEF ids, text, quoted
  <2>. QED BY <2>1, <2>2, <2>4, <2>5, <2>6, <2>7, <2>8 DEF Carries, Batched, Settled, Dropping
<1>8. CASE AcquireLeases(p)
  <2>1. rows' = rows /\ Goto(p, "claim") /\ job[p].at = "lease"
    BY <1>8 DEF AcquireLeases, At
  <2>. QED BY <1>0, <1>c, <2>1, Went, SameBatch DEF Batched, Settled
<1>9. CASE ClaimBatch(p)
  <2>1. ContentKept
    BY <1>0, <1>9 DEF ClaimBatch, Claimed, ContentKept, Row
  <2>2. Goto(p, "claimed") /\ job[p].at = "claim"
    BY <1>9 DEF ClaimBatch, At
  <2>. QED BY <1>0, <2>1, <2>2, Went, SameBatch DEF Batched, Settled
<1>10. CASE StartRun(p)
  <2>1. rows' = rows /\ Goto(p, "running") /\ job[p].at = "claimed"
    BY <1>10 DEF StartRun, At
  <2>. QED BY <1>0, <1>c, <2>1, Went, SameBatch DEF Batched, Settled
<1>11. CASE EndRun(p)
  <2>1. PICK ok \in BOOLEAN : Becomes(p, [job[p] EXCEPT !.at = "complete", !.ok = ok])
    BY <1>11 DEF EndRun
  <2>. DEFINE j == [job[p] EXCEPT !.at = "complete", !.ok = ok]
  <2>2. /\ j.at = "complete" /\ j.row = job[p].row /\ j.ids = job[p].ids
        /\ j.text = job[p].text /\ j.lines = job[p].lines
    BY <1>0 DEF Job
  <2>3. job'[p] = j
    BY <1>0, <2>1, Moved
  <2>4. rows' = rows /\ job[p].at = "running"
    BY <1>11 DEF EndRun, At
  <2>. HIDE DEF j
  <2>. QED BY <1>0, <1>c, <2>2, <2>3, <2>4, SameBatch DEF Batched, Settled
<1>12. CASE CompleteBatch(p)
  <2>1. PICK broken \in BOOLEAN : rows' = Completed(job[p].ids, job[p].ok, broken)
    BY <1>12 DEF CompleteBatch
  <2>2. ContentKept
    BY <1>0, <2>1 DEF Completed, ContentKept, Row
  <2>3. \A i \in job[p].ids : rows'[i].status \in {"done", "failed"}
    BY <1>0, <2>1 DEF Completed, Row
  <2>4. Goto(p, "release") /\ job[p].at = "complete"
    BY <1>12 DEF CompleteBatch, At
  <2>. QED BY <1>0, <2>2, <2>3, <2>4, Went, SameBatch DEF Batched, Settled
<1>13. CASE ReleaseBatch(p)
  <2>1. CASE Finish(p)
    BY <1>0, <1>a, <2>1, ReturnedLoose
  <2>2. CASE Goto(p, "reply")
    <3>1. rows' = rows /\ job[p].at = "release"
      BY <1>13 DEF ReleaseBatch, At
    <3>2. \A i \in job[p].ids : rows'[i].status \in {"done", "failed"}
      BY <1>0, <3>1 DEF Carries, Settled
    <3>. QED BY <1>0, <1>c, <2>2, <3>1, <3>2, Went, SameBatch DEF Batched, Settled
  <2>. QED BY <1>13, <2>1, <2>2 DEF ReleaseBatch
<1>14. CASE SendReply(p)
  BY <1>0, <1>14, <1>a, ReturnedLoose DEF SendReply
<1>. QED BY <1>1, <1>2, <1>3, <1>4, <1>5, <1>6, <1>7, <1>8, <1>9, <1>10, <1>11, <1>12,
            <1>13, <1>14 DEF Dispatch

\* No step of the process makes what it carries stale.
LEMMA CarryStep ==
  ASSUME OneProcess
  PROVE  CarryInv /\ [Next]_vars => CarryInv'
<1>. SUFFICES ASSUME CarryInv, [Next]_vars PROVE CarryInv'
  OBVIOUS
<1>. USE DEF tables, history
<1>0. TypeInv /\ FinalInv
  BY DEF CarryInv, FinalInv
<1>1. FinalInv'
  BY <1>0, StepFinal, TypeStep DEF FinalInv, FinalStep
<1>2. ASSUME NEW p \in Procs, Carries(job'[p], rows') PROVE CarryInv'
  BY <1>1, <1>2 DEF CarryInv, OneProcess
<1>3. ASSUME NEW p \in Procs, BeginEnqueue(p) \/ Enqueue(p) PROVE CarryInv'
  BY <1>2, <1>3, EnqueueCarries
<1>4. ASSUME NEW p \in Procs, Dispatch(p) PROVE CarryInv'
  BY <1>2, <1>4, DispatchCarries
<1>5. ASSUME NEW p \in Procs, CheckResponse(p) \/ Crash(p) PROVE CarryInv'
  <2>1. job'[p].at \in Loose
    BY <1>0, <1>5, Went, ReturnedLoose, LoosePlaces, PlaceNames DEF CheckResponse, Crash
  <2>. QED BY <1>2, <2>1, CarryLoose
<1>6. CASE Tick \/ UNCHANGED vars
  <2>1. UNCHANGED <<rows, job>>
    BY <1>6 DEF Tick, vars
  <2>. QED BY <1>1, <2>1 DEF CarryInv
<1>. QED BY <1>3, <1>4, <1>5, <1>6 DEF Next, Step

LEMMA CarryInit == Init => CarryInv
<1>. SUFFICES ASSUME Init PROVE CarryInv
  OBVIOUS
<1>1. \A p \in Procs : job[p].at \in Loose
  BY LoosePlaces DEF Init, Resting
<1>. QED BY <1>1, FinalInit, CarryLoose DEF CarryInv

-------------------------------------------------------------------------------
(* Nothing that was accepted is lost.                                      *)

\* From the start of the run on, the batch has been in a prompt.
Said == \A p \in Procs : job[p].at \in {"running", "complete"}
                         => job[p].text \cup Quoted(job[p].lines) \subseteq prompted

LossInv == CarryInv /\ Said /\ NothingLost

\* What waits or runs, in its own words or quoted.
Kept == TextOf(Live) \cup QuotedIn(Live)

\* A statement that adds nothing to accepted loses nothing if what was kept is kept
\* or has been in a prompt.
LEMMA KeptStep ==
  ASSUME NothingLost, accepted' = accepted, prompted \subseteq prompted', Kept \subseteq Kept' \cup prompted'
  PROVE  NothingLost'
  BY DEF NothingLost, Kept

\* Rows that stay live and hold and quote what they did keep it.
LEMMA SameKept ==
  ASSUME \A i \in Live : /\ i \in Live'
                         /\ rows[i].text \subseteq rows'[i].text
                         /\ Quoted(rows[i].summary) \subseteq Quoted(rows'[i].summary)
  PROVE  Kept \subseteq Kept'
<1>1. ASSUME NEW m \in TextOf(Live) PROVE m \in TextOf(Live)'
  BY DEF TextOf
<1>2. ASSUME NEW m \in QuotedIn(Live) PROVE m \in QuotedIn(Live)'
  BY DEF QuotedIn
<1>. QED BY <1>1, <1>2 DEF Kept

\* Where the process is after a statement of enqueue_request.
LEMMA EnqueueFlow ==
  ASSUME TypeInv, NEW p \in Procs
  PROVE  /\ BeginEnqueue(p) => job'[p].at = "find"
         /\ FindMergeCandidate(p) => job'[p].at \in {"merge", "count"}
         /\ MergeMessage(p) => job'[p].at = "cap"
         /\ CountActivity(p) => job'[p].at = "insert"
         /\ InsertRow(p) => job'[p].at = "readid"
         /\ ReadRowId(p) => job'[p].at \in {"cap", "idle"}
         /\ EnforceCap(p) => job'[p].at \in {"anchor", "idle", "wait"}
         /\ WriteAnchor(p) => job'[p].at = "drop"
         /\ DropRow(p) => job'[p].at \in {"drop", "idle", "wait"}
         /\ EndEnqueue(p) => job'[p].at \in {"idle", "wait"}
         /\ Finish(p) => job'[p].at \in {"idle", "wait"}
         /\ Becomes(p, Resting) => job'[p].at = "idle"
<1>. USE PlaceNames
<1>0. job[p] \in Job /\ job \in [Procs -> Job]
  BY DEF TypeInv, TypeOK
<1>1. BeginEnqueue(p) => job'[p].at = "find"
  BY <1>0 DEF BeginEnqueue, Becomes, Resting
<1>2. FindMergeCandidate(p) => job'[p].at \in {"merge", "count"}
  <2>. SUFFICES ASSUME FindMergeCandidate(p) PROVE job'[p].at \in {"merge", "count"}
    OBVIOUS
  <2>. DEFINE Found(i) == [job[p] EXCEPT !.at = "merge", !.row = i, !.text = rows[i].text]
  <2>1. \A i : Found(i).at = "merge"
    BY <1>0 DEF Job
  <2>2. Goto(p, "count") \/ \E i : Becomes(p, Found(i))
    BY DEF FindMergeCandidate
  <2>. HIDE DEF Found
  <2>. QED BY <2>1, <2>2, Moved, Went
<1>3. MergeMessage(p) => job'[p].at = "cap"
  BY <1>0 DEF MergeMessage, Becomes, Job
<1>4. CountActivity(p) => job'[p].at = "insert"
  BY <1>0 DEF CountActivity, Becomes, Job
<1>5. InsertRow(p) => job'[p].at = "readid"
  BY Went DEF InsertRow
<1>6. Becomes(p, Resting) => job'[p].at = "idle"
  BY <1>0 DEF Becomes, Resting
<1>7. ReadRowId(p) => job'[p].at \in {"cap", "idle"}
  <2>. SUFFICES ASSUME ReadRowId(p) PROVE job'[p].at \in {"cap", "idle"}
    OBVIOUS
  <2>1. \/ Becomes(p, Resting)
        \/ \E i \in Ids : Becomes(p, [job[p] EXCEPT !.at = "cap", !.wait = WaitedRow(p, i)])
    BY DEF ReadRowId, Newest, QueuedOf
  <2>. QED BY <1>0, <1>6, <2>1, ZenonT(60) DEF Becomes, Job
<1>8. Finish(p) => job'[p].at \in {"idle", "wait"}
  BY Moved, LoosePlaces DEF Finish
<1>9. EndEnqueue(p) => job'[p].at \in {"idle", "wait"}
  <2>1. [Back(p) EXCEPT !.deadline = clock + WaitTimeout].at = Back(p).at
    BY BackType DEF Job
  <2>. QED BY <2>1, Moved, LoosePlaces DEF EndEnqueue
<1>10. EnforceCap(p) => job'[p].at \in {"anchor", "idle", "wait"}
  <2>. DEFINE Saved(drop, anchor) == [job[p] EXCEPT
                      !.at = "anchor", !.row = anchor, !.ids = drop,
                      !.text = SummaryOf(drop),
                      !.lines = Append(rows[anchor].summary, SummaryOf(drop))]
  <2>1. \A drop, anchor : Saved(drop, anchor).at = "anchor"
    BY <1>0 DEF Job
  <2>2. EnforceCap(p) => EndEnqueue(p) \/ \E drop, anchor : Becomes(p, Saved(drop, anchor))
    BY DEF EnforceCap
  <2>. HIDE DEF Saved
  <2>. QED BY <1>9, <2>1, <2>2, Moved
<1>11. WriteAnchor(p) => job'[p].at = "drop"
  BY Went DEF WriteAnchor
<1>12. DropRow(p) => job'[p].at \in {"drop", "idle", "wait"}
  <2>1. DropRow(p) => EndEnqueue(p) \/ \E i : Becomes(p, [job[p] EXCEPT !.ids = @ \ {i}])
    BY DEF DropRow
  <2>2. DropRow(p) => \A i : [job[p] EXCEPT !.ids = @ \ {i}].at = "drop"
    BY <1>0 DEF DropRow, At, Job
  <2>. QED BY <1>9, <2>1, <2>2, Moved
<1>. QED BY <1>1, <1>2, <1>3, <1>4, <1>5, <1>6, <1>7, <1>8, <1>9, <1>10, <1>11, <1>12

\* Where it is after a statement of dispatch_due_once.
LEMMA DispatchFlow ==
  ASSUME TypeInv, NEW p \in Procs
  PROVE  /\ ExpireLeases(p) => job'[p].at = "stale"
         /\ ScanStale(p) => job'[p].at \in {"limit", "requeue"}
         /\ RequeueStale(p) => job'[p].at = "unlease"
         /\ ReleaseStale(p) => job'[p].at \in {"limit", "requeue"}
         /\ CheckLimit(p) => job'[p].at \in {"pick", "idle", "wait"}
         /\ PickPrimary(p) => job'[p].at \in {"group", "idle", "wait"}
         /\ GroupBatch(p) => job'[p].at = "lease"
         /\ AcquireLeases(p) => job'[p].at = "claim"
         /\ ClaimBatch(p) => job'[p].at = "claimed"
         /\ StartRun(p) => job'[p].at = "running"
         /\ EndRun(p) => job'[p].at = "complete"
         /\ CompleteBatch(p) => job'[p].at = "release"
         /\ ReleaseBatch(p) => job'[p].at \in {"reply", "idle", "wait"}
         /\ SendReply(p) => job'[p].at \in {"idle", "wait"}
         /\ CheckResponse(p) => job'[p].at \in {"again", "idle"}
         /\ Crash(p) => job'[p].at = "idle"
<1>. USE PlaceNames
<1>0. job[p] \in Job /\ job \in [Procs -> Job]
  BY DEF TypeInv, TypeOK
<1>1. ExpireLeases(p) => job'[p].at = "stale"
  <2>1. [Back(p) EXCEPT !.at = "stale", !.now = clock].at = "stale"
    BY BackType DEF Job
  <2>. QED BY <2>1, Moved DEF ExpireLeases
<1>2. ScanStale(p) => job'[p].at \in {"limit", "requeue"}
  BY <1>0 DEF ScanStale, Becomes, Job
<1>3. RequeueStale(p) => job'[p].at = "unlease"
  BY <1>0 DEF RequeueStale, Becomes, Job
<1>4. ReleaseStale(p) => job'[p].at \in {"limit", "requeue"}
  BY Went DEF ReleaseStale
<1>5. CheckLimit(p) => job'[p].at \in {"pick", "idle", "wait"}
  BY Went, EnqueueFlow DEF CheckLimit
<1>6. PickPrimary(p) => job'[p].at \in {"group", "idle", "wait"}
  <2>. DEFINE Picked(i) == [job[p] EXCEPT !.at = "group", !.row = i, !.now = clock,
                                          !.text = rows[i].text, !.lines = rows[i].summary,
                                          !.window = rows[i].available]
  <2>1. \A i : Picked(i).at = "group"
    BY <1>0 DEF Job
  <2>2. PickPrimary(p) => Finish(p) \/ \E i : Becomes(p, Picked(i))
    BY DEF PickPrimary
  <2>. HIDE DEF Picked
  <2>. QED BY <2>1, <2>2, Moved, EnqueueFlow
<1>7. GroupBatch(p) => job'[p].at = "lease"
  <2>. DEFINE Grouped(ids, text, lines) ==
                [job[p] EXCEPT !.at = "lease", !.ids = ids, !.text = text, !.lines = lines]
  <2>1. \A ids, text, lines : Grouped(ids, text, lines).at = "lease"
    BY <1>0 DEF Job
  <2>2. GroupBatch(p) => \E ids, text, lines : Becomes(p, Grouped(ids, text, lines))
    BY DEF GroupBatch
  <2>. HIDE DEF Grouped
  <2>. QED BY <2>1, <2>2, Moved
<1>8. /\ AcquireLeases(p) => job'[p].at = "claim"
      /\ ClaimBatch(p) => job'[p].at = "claimed"
      /\ StartRun(p) => job'[p].at = "running"
      /\ CompleteBatch(p) => job'[p].at = "release"
  BY Went DEF AcquireLeases, ClaimBatch, StartRun, CompleteBatch
<1>9. EndRun(p) => job'[p].at = "complete"
  BY <1>0 DEF EndRun, Becomes, Job
<1>10. /\ ReleaseBatch(p) => job'[p].at \in {"reply", "idle", "wait"}
       /\ SendReply(p) => job'[p].at \in {"idle", "wait"}
       /\ CheckResponse(p) => job'[p].at \in {"again", "idle"}
       /\ Crash(p) => job'[p].at = "idle"
  BY Went, EnqueueFlow DEF ReleaseBatch, SendReply, CheckResponse, Crash
<1>. QED BY <1>1, <1>2, <1>3, <1>4, <1>5, <1>6, <1>7, <1>8, <1>9, <1>10

\* What stays the same in a statement that writes no row and reads no message.
LEMMA SameRowsKept ==
  ASSUME NothingLost, rows' = rows, accepted' = accepted, prompted \subseteq prompted'
  PROVE  NothingLost'
<1>1. Kept' = Kept
  BY DEF Kept, TextOf, QuotedIn, Live
<1>. QED BY <1>1, KeptStep

\* The UPDATEs and INSERTs of enqueue_request keep every message that was accepted.
LEMMA EnqueueLosesNothing ==
  ASSUME LossInv, NEW p \in Procs, BeginEnqueue(p) \/ Enqueue(p)
  PROVE  NothingLost'
<1>. USE DEF tables, history
<1>0. /\ TypeInv /\ job[p] \in Job /\ Carries(job[p], rows) /\ Ready(job[p])
      /\ rows \in [Ids -> Row] /\ job[p].ids \in SUBSET Ids
      /\ Snapshot(job[p], rows) /\ FreshIds(rows, nextId) /\ NothingLost
  BY DEF LossInv, CarryInv, FinalInv, TypeInv, TypeOK, Job
<1>1. CASE \/ BeginEnqueue(p) \/ FindMergeCandidate(p) \/ CountActivity(p)
           \/ ReadRowId(p) \/ EnforceCap(p)
  <2>1. rows' = rows /\ accepted' = accepted /\ prompted' = prompted
    BY <1>1 DEF BeginEnqueue, FindMergeCandidate, CountActivity, ReadRowId, EnforceCap
  <2>. QED BY <1>0, <2>1, SameRowsKept
<1>2. CASE MergeMessage(p)
  <2>. DEFINE r == job[p].row
  <2>1. r \in Ids /\ rows[r].status = "queued" /\ job[p].text = rows[r].text
    BY <1>0, <1>2 DEF MergeMessage, At, Carries, Ready
  <2>2. /\ \A i \in Ids \ {r} : rows'[i] = rows[i]
        /\ rows'[r].text = rows[r].text \cup {job[p].msg}
        /\ rows'[r].status = "queued" /\ rows'[r].summary = rows[r].summary
    BY <1>0, <1>2, <2>1 DEF MergeMessage, Update, MergedText, Row
  <2>. HIDE DEF r
  <2>3. Kept \subseteq Kept'
    BY <2>1, <2>2, SameKept DEF Live
  <2>4. job[p].msg \in Kept'
    BY <2>1, <2>2 DEF Kept, TextOf, Live
  <2>5. accepted' = accepted \cup {job[p].msg} /\ prompted' = prompted
    BY <1>2 DEF MergeMessage
  <2>. QED BY <1>0, <2>3, <2>4, <2>5 DEF NothingLost, Kept
<1>3. CASE InsertRow(p)
  <2>1. nextId \in Ids /\ rows[nextId].status = "absent" /\ nextId >= nextId
    BY <1>0, <1>3 DEF InsertRow, FreshIds, Ids, TypeInv, TypeOK
  <2>2. /\ \A i \in Ids \ {nextId} : rows'[i] = rows[i]
        /\ rows'[nextId].text = {job[p].msg}
        /\ rows'[nextId].status = "queued"
    BY <1>0, <1>3, <2>1 DEF InsertRow, Update, AbsentRow
  <2>3. Kept \subseteq Kept'
    BY <2>1, <2>2, SameKept DEF Live
  <2>4. job[p].msg \in Kept'
    BY <2>1, <2>2 DEF Kept, TextOf, Live
  <2>5. accepted' = accepted \cup {job[p].msg} /\ prompted' = prompted
    BY <1>3 DEF InsertRow
  <2>. QED BY <1>0, <2>3, <2>4, <2>5 DEF NothingLost, Kept
<1>4. CASE WriteAnchor(p)
  <2>. DEFINE r == job[p].row
  <2>1. r \in Ids /\ Quoted(rows[r].summary) \subseteq Quoted(job[p].lines)
    BY <1>0, <1>4 DEF WriteAnchor, At, Carries, Dropping
  <2>2. /\ \A i \in Ids \ {r} : rows'[i] = rows[i]
        /\ rows'[r].text = rows[r].text /\ rows'[r].status = rows[r].status
        /\ rows'[r].summary = job[p].lines
    BY <1>0, <1>4, <2>1 DEF WriteAnchor, Update, Row
  <2>. HIDE DEF r
  <2>3. Kept \subseteq Kept'
    BY <2>1, <2>2, SameKept DEF Live
  <2>. QED BY <1>0, <1>4, <2>3, KeptStep DEF WriteAnchor
<1>5. CASE DropRow(p)
  <2>. DEFINE r == job[p].row
  <2>1. PICK i \in job[p].ids : DropRow(p)!2!(i)
    BY <1>5 DEF DropRow, Oldest
  <2>2. /\ r \in Ids \ job[p].ids /\ rows[r].status = "queued"
        /\ TextIn(job[p].ids, rows) \cup QuotedBy(job[p].ids, rows) \subseteq job[p].text
        /\ job[p].text \subseteq Quoted(rows[r].summary)
    BY <1>0, <1>5 DEF DropRow, At, Carries, Dropping
  <2>3. \A k \in Ids \ {i} : rows'[k] = rows[k]
    BY <1>0, <2>1 DEF Update
  <2>. HIDE DEF r
  <2>4. i \in Ids /\ r # i /\ r \in Live'
    BY <1>0, <2>2, <2>3 DEF Live
  <2>5. job[p].text \subseteq Kept'
    BY <2>2, <2>3, <2>4 DEF Kept, QuotedIn
  <2>6. rows[i].text \cup Quoted(rows[i].summary) \subseteq job[p].text
    BY <2>2 DEF TextIn, QuotedBy
  <2>7. ASSUME NEW k \in Live, k # i PROVE rows[k].text \cup Quoted(rows[k].summary) \subseteq Kept'
    <3>1. k \in Live' /\ rows'[k] = rows[k]
      BY <2>3, <2>7 DEF Live
    <3>. QED BY <3>1 DEF Kept, TextOf, QuotedIn
  <2>8. Kept \subseteq Kept'
    <3>1. \A k \in Live : rows[k].text \cup Quoted(rows[k].summary) \subseteq Kept'
      BY <2>5, <2>6, <2>7
    <3>. QED BY <3>1 DEF Kept, TextOf, QuotedIn
  <2>. QED BY <1>0, <1>5, <2>8, KeptStep DEF DropRow
<1>. QED BY <1>1, <1>2, <1>3, <1>4, <1>5 DEF Enqueue

\* So do the statements of dispatch_due_once: a row is settled after its text and
\* its summary were in a prompt, and only those.
LEMMA DispatchLosesNothing ==
  ASSUME LossInv, NEW p \in Procs, Dispatch(p)
  PROVE  NothingLost'
<1>. USE DEF tables, history
<1>0. /\ TypeInv /\ job[p] \in Job /\ Carries(job[p], rows)
      /\ rows \in [Ids -> Row] /\ job[p].ids \in SUBSET Ids
      /\ Snapshot(job[p], rows) /\ NothingLost
  BY DEF LossInv, CarryInv, FinalInv, TypeInv, TypeOK, Job
<1>1. CASE rows' = rows
  <2>1. accepted' = accepted /\ prompted \subseteq prompted'
    BY DEF Dispatch, ExpireLeases, ScanStale, RequeueStale, ReleaseStale, CheckLimit, PickPrimary,
           GroupBatch, AcquireLeases, ClaimBatch, StartRun, EndRun, CompleteBatch, ReleaseBatch,
           SendReply
  <2>. QED BY <1>0, <1>1, <2>1, SameRowsKept
<1>2. CASE RequeueStale(p)
  <2>1. PICK i \in job[p].ids : RequeueStale(p)!2!(i)
    BY <1>2 DEF RequeueStale
  <2>2. /\ \A k \in Ids \ {i} : rows'[k] = rows[k]
        /\ rows'[i].text = rows[i].text /\ rows'[i].summary = rows[i].summary
        /\ rows'[i].status = "queued"
    BY <1>0, <2>1 DEF Update, Row
  <2>3. Kept \subseteq Kept'
    BY <1>0, <2>2, SameKept DEF Live
  <2>. QED BY <1>0, <1>2, <2>3, KeptStep DEF RequeueStale
<1>3. CASE ClaimBatch(p)
  <2>1. \A i \in Ids : /\ rows'[i].text = rows[i].text /\ rows'[i].summary = rows[i].summary
                       /\ rows'[i].status \in {rows[i].status, "running"}
    BY <1>0, <1>3 DEF ClaimBatch, Claimed, Row
  <2>2. Kept \subseteq Kept'
    BY <2>1, SameKept DEF Live
  <2>. QED BY <1>0, <1>3, <2>2, KeptStep DEF ClaimBatch
<1>4. CASE CompleteBatch(p)
  <2>1. /\ \A i \in Ids \ job[p].ids : rows'[i] = rows[i]
        /\ accepted' = accepted /\ prompted' = prompted
    BY <1>0, <1>4 DEF CompleteBatch, Completed
  <2>2. /\ TextIn(job[p].ids, rows) \subseteq prompted
        /\ QuotedBy(job[p].ids, rows) \subseteq prompted
    BY <1>0, <1>4 DEF CompleteBatch, At, Carries, Batched, LossInv, Said
  <2>3. ASSUME NEW k \in Live
        PROVE  rows[k].text \cup Quoted(rows[k].summary) \subseteq Kept' \cup prompted'
    <3>1. CASE k \in job[p].ids
      BY <2>1, <2>2, <3>1 DEF TextIn, QuotedBy
    <3>2. CASE k \notin job[p].ids
      <4>1. k \in Live' /\ rows'[k] = rows[k]
        BY <2>1, <3>2 DEF Live
      <4>. QED BY <4>1 DEF Kept, TextOf, QuotedIn
    <3>. QED BY <3>1, <3>2
  <2>4. Kept \subseteq Kept' \cup prompted'
    BY <2>3 DEF Kept, TextOf, QuotedIn
  <2>. QED BY <1>0, <2>1, <2>4, KeptStep
<1>5. \/ rows' = rows \/ RequeueStale(p) \/ ClaimBatch(p) \/ CompleteBatch(p)
  BY DEF Dispatch, ExpireLeases, ScanStale, ReleaseStale, CheckLimit, PickPrimary,
         GroupBatch, AcquireLeases, StartRun, EndRun, ReleaseBatch, SendReply
<1>. QED BY <1>1, <1>2, <1>3, <1>4, <1>5

\* The prompt that a run works on has been built from its batch.
LEMMA SaidStep ==
  ASSUME OneProcess, LossInv, NEW p \in Procs,
         BeginEnqueue(p) \/ Enqueue(p) \/ Dispatch(p) \/ CheckResponse(p) \/ Crash(p)
  PROVE  Said'
<1>. USE PlaceNames DEF tables, history
<1>0. TypeInv /\ job[p] \in Job
  BY DEF LossInv, CarryInv, FinalInv, TypeInv, TypeOK
<1>1. ASSUME job'[p].at \notin {"running", "complete"} PROVE Said'
  BY <1>1 DEF Said, OneProcess
<1>2. CASE StartRun(p)
  <2>1. job'[p].text = job[p].text /\ job'[p].lines = job[p].lines
    BY <1>0, <1>2, Went DEF StartRun
  <2>. QED BY <1>2, <2>1 DEF StartRun, Said, OneProcess
<1>3. CASE EndRun(p)
  <2>1. PICK ok \in BOOLEAN : Becomes(p, [job[p] EXCEPT !.at = "complete", !.ok = ok])
    BY <1>3 DEF EndRun
  <2>2. /\ [job[p] EXCEPT !.at = "complete", !.ok = ok].text = job[p].text
        /\ [job[p] EXCEPT !.at = "complete", !.ok = ok].lines = job[p].lines
    BY <1>0 DEF Job
  <2>3. job'[p].text = job[p].text /\ job'[p].lines = job[p].lines
    BY <1>0, <2>1, <2>2, Moved
  <2>4. job[p].text \cup Quoted(job[p].lines) \subseteq prompted /\ prompted' = prompted
    BY <1>3 DEF EndRun, At, LossInv, Said
  <2>. QED BY <2>3, <2>4 DEF Said, OneProcess
<1>4. CASE ~StartRun(p) /\ ~EndRun(p)
  <2>1. job'[p].at \notin {"running", "complete"}
    BY <1>0, <1>4, EnqueueFlow, DispatchFlow DEF Enqueue, Dispatch
  <2>. QED BY <1>1, <2>1
<1>. QED BY <1>2, <1>3, <1>4

LEMMA LossStep ==
  ASSUME OneProcess
  PROVE  LossInv /\ [Next]_vars => LossInv'
<1>. SUFFICES ASSUME LossInv, [Next]_vars PROVE LossInv'
  OBVIOUS
<1>. USE DEF tables, history
<1>1. CarryInv'
  BY CarryStep DEF LossInv
<1>2. NothingLost
  BY DEF LossInv
<1>3. ASSUME NEW p \in Procs, BeginEnqueue(p) \/ Enqueue(p) PROVE Said' /\ NothingLost'
  BY <1>3, EnqueueLosesNothing, SaidStep
<1>4. ASSUME NEW p \in Procs, Dispatch(p) PROVE Said' /\ NothingLost'
  BY <1>4, DispatchLosesNothing, SaidStep
<1>5. ASSUME NEW p \in Procs, CheckResponse(p) \/ Crash(p) PROVE Said' /\ NothingLost'
  <2>1. rows' = rows /\ accepted' = accepted /\ prompted' = prompted
    BY <1>5 DEF CheckResponse, Crash
  <2>. QED BY <1>2, <1>5, <2>1, SameRowsKept, SaidStep
<1>6. CASE Tick \/ UNCHANGED vars
  <2>1. rows' = rows /\ accepted' = accepted /\ prompted' = prompted /\ job' = job
    BY <1>6 DEF Tick, vars
  <2>2. Said'
    BY <2>1 DEF Said, LossInv
  <2>. QED BY <1>1, <1>2, <2>1, <2>2, SameRowsKept DEF LossInv
<1>. QED BY <1>1, <1>3, <1>4, <1>5, <1>6 DEF Next, Step, LossInv

\* While one process uses the database, no message that enqueue_request has stored
\* is lost: it waits or runs, in its own words or quoted by the summary of a row that
\* waits or runs, until it has been put into a prompt.
THEOREM AcceptedIsKept ==
  ASSUME OneProcess
  PROVE  Spec => []NothingLost
<1>1. Init => LossInv
  <2>1. Init => Said /\ NothingLost
    BY DEF Init, Resting, Said, NothingLost
  <2>. QED BY <2>1, CarryInit DEF LossInv
<1>2. LossInv => NothingLost
  BY DEF LossInv
<1>. QED BY <1>1, <1>2, LossStep, PTL DEF Spec

-------------------------------------------------------------------------------
(* What a statement does to the table, row by row.                         *)

\* The statement changes neither what any row holds nor whether it is there.
ShapeKept ==
  \A i \in Ids : /\ rows'[i].text = rows[i].text
                 /\ rows'[i].session = rows[i].session
                 /\ rows'[i].status = "absent" <=> rows[i].status = "absent"

\* It changes row i only, or the rows of ids only.
OnlyRow(i) == \A k \in Ids \ {i} : rows'[k] = rows[k]

OnlyRows(ids) == \A k \in Ids \ ids : rows'[k] = rows[k]

\* A message arrives in a queued row of its session that holds what it held, or
\* in a new one.
ArrivesIn(i, m) ==
  /\ i \in Ids /\ m \in Messages
  /\ OnlyRow(i)
  /\ rows'[i].text = rows[i].text \cup {m}
  /\ rows'[i].status = "queued" /\ rows'[i].session = SessionOf[m]
  /\ \/ rows[i].status = "queued" /\ rows[i].session = SessionOf[m]
     \/ i = nextId /\ rows[i].status = "absent"

\* What no row that is not there holds.
AbsentRowsEmpty == \A i \in Ids : rows[i].status = "absent" => rows[i].text = {}

\* The merge and the insert.
LEMMA Arrivals ==
  ASSUME CarryInv, AbsentRowsEmpty, NEW p \in Procs, MergeMessage(p) \/ InsertRow(p)
  PROVE  \E i \in Ids : ArrivesIn(i, job[p].msg) /\ (MergeMessage(p) => i = job[p].row)
<1>0. /\ TypeInv /\ job[p] \in Job /\ Carries(job[p], rows) /\ Ready(job[p])
      /\ rows \in [Ids -> Row] /\ FreshIds(rows, nextId)
  BY DEF CarryInv, FinalInv, TypeInv, TypeOK
<1>1. CASE MergeMessage(p)
  <2>. DEFINE r == job[p].row
  <2>1. /\ r \in Ids /\ rows[r].status = "queued" /\ rows[r].session = SessionOf[job[p].msg]
        /\ job[p].text = rows[r].text /\ job[p].msg \in Messages
    BY <1>0, <1>1 DEF MergeMessage, At, Carries, Ready
  <2>2. /\ OnlyRow(r)
        /\ rows'[r].text = rows[r].text \cup {job[p].msg}
        /\ rows'[r].status = rows[r].status /\ rows'[r].session = rows[r].session
    BY <1>0, <1>1, <2>1 DEF MergeMessage, Update, MergedText, Row, OnlyRow
  <2>. QED BY <2>1, <2>2 DEF ArrivesIn
<1>2. CASE ~MergeMessage(p)
  <2>0. nextId \in Ids /\ job[p].msg \in Messages /\ nextId >= nextId
    BY <1>0, <1>2 DEF InsertRow, At, Ready, TypeInv, TypeOK
  <2>1. rows[nextId].status = "absent" /\ rows[nextId].text = {}
    BY <1>0, <2>0 DEF FreshIds, AbsentRowsEmpty
  <2>2. /\ OnlyRow(nextId)
        /\ rows'[nextId].text = {job[p].msg}
        /\ rows'[nextId].status = "queued" /\ rows'[nextId].session = SessionOf[job[p].msg]
    <3>. DEFINE r == [AbsentRow EXCEPT !.session = SessionOf[job[p].msg],
                                       !.text = {job[p].msg},
                                       !.status = "queued",
                                       !.created = job[p].now,
                                       !.available = FirstAvailable(p)]
    <3>1. r.text = {job[p].msg} /\ r.status = "queued" /\ r.session = SessionOf[job[p].msg]
      BY DEF AbsentRow
    <3>2. rows' = [rows EXCEPT ![nextId] = r]
      BY <1>2 DEF InsertRow, Update
    <3>. HIDE DEF r
    <3>. QED BY <1>0, <2>0, <3>1, <3>2 DEF OnlyRow
  <2>3. rows'[nextId].text = rows[nextId].text \cup {job[p].msg}
    BY <2>1, <2>2
  <2>. QED BY <1>2, <2>0, <2>1, <2>2, <2>3 DEF ArrivesIn
<1>. QED BY <1>1, <1>2

\* The other statements: one row is given up or put back, the rows of the batch are
\* claimed or settled, or all statuses stay.
LEMMA Effects ==
  ASSUME CarryInv, NEW p \in Procs
  PROVE  /\ DropRow(p) => \E i \in job[p].ids :
              /\ i \in Ids /\ OnlyRow(i) /\ ShapeKept
              /\ rows[i].status = "queued" /\ rows'[i].status = "dropped"
         /\ RequeueStale(p) => \E i \in job[p].ids :
              /\ i \in Ids /\ OnlyRow(i) /\ ShapeKept
              /\ rows[i].status = "running" /\ rows'[i].status = "queued"
         /\ ClaimBatch(p) =>
              /\ OnlyRows(job[p].ids) /\ ShapeKept
              /\ RowsAre(job[p].ids, "queued", rows) /\ RowsAre(job[p].ids, "running", rows')
         /\ CompleteBatch(p) =>
              /\ OnlyRows(job[p].ids) /\ ShapeKept
              /\ RowsAre(job[p].ids, "running", rows)
              /\ \A i \in job[p].ids : rows'[i].status \in {"done", "failed"}
         /\ WriteAnchor(p) => ShapeKept /\ StatusesKept
<1>0. /\ TypeInv /\ job[p] \in Job /\ Carries(job[p], rows) /\ Snapshot(job[p], rows)
      /\ rows \in [Ids -> Row] /\ job[p].ids \in SUBSET Ids
  BY DEF CarryInv, FinalInv, TypeInv, TypeOK, Job
<1>1. ASSUME DropRow(p)
      PROVE  \E i \in job[p].ids :
               /\ i \in Ids /\ OnlyRow(i) /\ ShapeKept
               /\ rows[i].status = "queued" /\ rows'[i].status = "dropped"
  <2>1. PICK i \in job[p].ids : DropRow(p)!2!(i)
    BY <1>1 DEF DropRow, Oldest
  <2>2. rows[i].status = "queued"
    BY <1>0, <1>1 DEF DropRow, At, Snapshot, RowsAre
  <2>3. /\ OnlyRow(i)
        /\ rows'[i].status = "dropped" /\ rows'[i].text = rows[i].text
        /\ rows'[i].session = rows[i].session
    BY <1>0, <2>1 DEF Update, OnlyRow, Row
  <2>. QED BY <1>0, <2>2, <2>3 DEF ShapeKept, OnlyRow
<1>2. ASSUME RequeueStale(p)
      PROVE  \E i \in job[p].ids :
               /\ i \in Ids /\ OnlyRow(i) /\ ShapeKept
               /\ rows[i].status = "running" /\ rows'[i].status = "queued"
  <2>1. PICK i \in job[p].ids : RequeueStale(p)!2!(i)
    BY <1>2 DEF RequeueStale
  <2>2. rows[i].status = "running"
    BY <1>0, <1>2 DEF RequeueStale, At, Snapshot, RowsAre
  <2>3. /\ OnlyRow(i)
        /\ rows'[i].status = "queued" /\ rows'[i].text = rows[i].text
        /\ rows'[i].session = rows[i].session
    BY <1>0, <2>1 DEF Update, OnlyRow, Row
  <2>. QED BY <1>0, <2>2, <2>3 DEF ShapeKept, OnlyRow
<1>3. ASSUME ClaimBatch(p)
      PROVE  /\ OnlyRows(job[p].ids) /\ ShapeKept
             /\ RowsAre(job[p].ids, "queued", rows) /\ RowsAre(job[p].ids, "running", rows')
  <2>1. RowsAre(job[p].ids, "queued", rows)
    BY <1>0, <1>3 DEF ClaimBatch, At, Snapshot
  <2>2. OnlyRows(job[p].ids)
    BY <1>0, <1>3 DEF ClaimBatch, Claimed, OnlyRows
  <2>3. \A i \in job[p].ids : /\ rows'[i].status = "running" /\ rows'[i].text = rows[i].text
                              /\ rows'[i].session = rows[i].session
    BY <1>0, <1>3 DEF ClaimBatch, Claimed, Row
  <2>. QED BY <2>1, <2>2, <2>3 DEF RowsAre, ShapeKept, OnlyRows
<1>4. ASSUME CompleteBatch(p)
      PROVE  /\ OnlyRows(job[p].ids) /\ ShapeKept
             /\ RowsAre(job[p].ids, "running", rows)
             /\ \A i \in job[p].ids : rows'[i].status \in {"done", "failed"}
  <2>1. RowsAre(job[p].ids, "running", rows)
    BY <1>0, <1>4 DEF CompleteBatch, At, Snapshot
  <2>2. OnlyRows(job[p].ids)
    BY <1>0, <1>4 DEF CompleteBatch, Completed, OnlyRows
  <2>3. \A i \in job[p].ids : /\ rows'[i].status \in {"done", "failed"}
                              /\ rows'[i].text = rows[i].text
                              /\ rows'[i].session = rows[i].session
    <3>1. PICK broken \in BOOLEAN : rows' = Completed(job[p].ids, job[p].ok, broken)
      BY <1>4 DEF CompleteBatch
    <3>. DEFINE status == IF job[p].ok THEN "done" ELSE "failed"
    <3>2. status \in {"done", "failed"}
      OBVIOUS
    <3>3. \A i \in job[p].ids : rows'[i] = [rows[i] EXCEPT !.status = status, !.brokenError = broken]
      BY <1>0, <3>1 DEF Completed
    <3>. HIDE DEF status
    <3>4. \A r \in Row : LET s == [r EXCEPT !.status = status, !.brokenError = broken]
                         IN s.status = status /\ s.text = r.text /\ s.session = r.session
      BY DEF Row
    <3>. QED BY <1>0, <3>2, <3>3, <3>4, ZenonT(60)
  <2>. QED BY <2>1, <2>2, <2>3 DEF RowsAre, ShapeKept, OnlyRows
<1>5. ASSUME WriteAnchor(p) PROVE ShapeKept /\ StatusesKept
  <2>1. ASSUME NEW i \in Ids
        PROVE  /\ rows'[i].text = rows[i].text /\ rows'[i].session = rows[i].session
               /\ rows'[i].status = rows[i].status
    BY <1>0, <1>5 DEF WriteAnchor, Update, Row
  <2>. QED BY <2>1 DEF ShapeKept, StatusesKept
<1>. QED BY <1>1, <1>2, <1>3, <1>4, <1>5

\* The statements that write rows of the table.
Writes(p) ==
  \/ MergeMessage(p) \/ InsertRow(p) \/ WriteAnchor(p) \/ DropRow(p)
  \/ RequeueStale(p) \/ ClaimBatch(p) \/ CompleteBatch(p)

\* The others leave the table, the arrivals and the claims as they are.
LEMMA Reads ==
  ASSUME NEW p \in Procs, ~Writes(p),
         BeginEnqueue(p) \/ Enqueue(p) \/ Dispatch(p) \/ CheckResponse(p) \/ Crash(p)
  PROVE  rows' = rows /\ claims' = claims /\ accepted' = accepted /\ nextId' = nextId
BY DEF Writes, BeginEnqueue, Enqueue, Dispatch, CheckResponse, Crash, FindMergeCandidate,
       CountActivity, ReadRowId, EnforceCap, ExpireLeases, ScanStale, ReleaseStale, CheckLimit,
       PickPrimary, GroupBatch, AcquireLeases, StartRun, EndRun, ReleaseBatch, SendReply,
       tables, history

-------------------------------------------------------------------------------
(* A message is in one row at most, and in a row of its session.           *)

\* No row holds the message.
Nowhere(m) == \A i \in Ids : m \notin rows[i].text

OneRowEach == \A i, k \in Ids : \A m \in rows[i].text : m \in rows[k].text => i = k

RowsOfMessages ==
  \A i \in Ids : /\ rows[i].text = {} <=> rows[i].status = "absent"
                 /\ \A m \in rows[i].text : SessionOf[m] = rows[i].session

\* Where enqueue_request has a message in its hands.
Arriving == {"find", "merge", "count", "insert"}

NotArrived ==
  /\ \A m \in unsent : Nowhere(m)
  /\ \A p \in Procs : job[p].at \in Arriving => Nowhere(job[p].msg) /\ job[p].msg \notin unsent

MessageInv == CarryInv /\ OneRowEach /\ RowsOfMessages /\ NotArrived

\* A statement that leaves the shape of the table leaves messages where they are.
LEMMA ShapeStep ==
  ASSUME OneRowEach, RowsOfMessages, ShapeKept
  PROVE  OneRowEach' /\ RowsOfMessages' /\ \A m : Nowhere(m) <=> Nowhere(m)'
<1>1. OneRowEach'
  BY DEF OneRowEach, ShapeKept
<1>2. RowsOfMessages'
  BY DEF RowsOfMessages, ShapeKept
<1>3. \A m : Nowhere(m) <=> Nowhere(m)'
  BY DEF Nowhere, ShapeKept
<1>. QED BY <1>1, <1>2, <1>3

\* A message that was nowhere is where it arrives and nowhere else.
LEMMA ArriveStep ==
  ASSUME OneRowEach, RowsOfMessages, NEW i, NEW m, ArrivesIn(i, m), Nowhere(m)
  PROVE  OneRowEach' /\ RowsOfMessages' /\ \A n : n # m => (Nowhere(n) <=> Nowhere(n)')
<1>1. /\ i \in Ids
      /\ \A k \in Ids \ {i} : rows'[k] = rows[k]
      /\ rows'[i].text = rows[i].text \cup {m}
      /\ rows'[i].status = "queued" /\ rows'[i].session = SessionOf[m]
      /\ rows[i].text # {} => rows[i].session = SessionOf[m]
  BY DEF ArrivesIn, OnlyRow, RowsOfMessages
<1>2. OneRowEach'
  BY <1>1 DEF OneRowEach, Nowhere
<1>3. RowsOfMessages'
  BY <1>1 DEF RowsOfMessages
<1>4. \A n : n # m => (Nowhere(n) <=> Nowhere(n)')
  BY <1>1 DEF Nowhere
<1>. QED BY <1>2, <1>3, <1>4

\* The search for a candidate and the count keep the message.
LEMMA StillArriving ==
  ASSUME TypeInv, NEW p \in Procs, FindMergeCandidate(p) \/ CountActivity(p)
  PROVE  /\ job[p].at \in Arriving
         /\ job'[p].msg = job[p].msg /\ job'[p].wait = job[p].wait
         /\ unsent' = unsent
<1>0. job[p] \in Job
  BY DEF TypeInv, TypeOK
<1>1. job[p].at \in Arriving /\ unsent' = unsent
  BY DEF FindMergeCandidate, CountActivity, At, Arriving
<1>2. CASE Goto(p, "count")
  BY <1>1, <1>2, Went, PlaceNames
<1>3. ASSUME NEW i, Becomes(p, [job[p] EXCEPT !.at = "merge", !.row = i, !.text = rows[i].text])
      PROVE  job'[p].msg = job[p].msg /\ job'[p].wait = job[p].wait
  <2>. DEFINE Found == [job[p] EXCEPT !.at = "merge", !.row = i, !.text = rows[i].text]
  <2>1. Found.msg = job[p].msg /\ Found.wait = job[p].wait
    BY <1>0 DEF Job
  <2>2. job'[p] = Found
    BY <1>3, Moved
  <2>. QED BY <2>1, <2>2
<1>4. CASE CountActivity(p)
  <2>. DEFINE Counted(ok) == [job[p] EXCEPT !.at = "insert", !.ok = ok]
  <2>1. \A ok : Counted(ok).msg = job[p].msg /\ Counted(ok).wait = job[p].wait
    BY <1>0 DEF Job
  <2>2. job'[p] = Counted(~Busy(SessionOf[job[p].msg]))
    BY <1>4, Moved DEF CountActivity
  <2>. QED BY <1>1, <2>1, <2>2
<1>. QED BY <1>1, <1>2, <1>3, <1>4 DEF FindMergeCandidate

\* BeginEnqueue takes a message that has not arrived yet.
LEMMA Begun ==
  ASSUME TypeInv, NEW p \in Procs, BeginEnqueue(p)
  PROVE  /\ job'[p].msg \in unsent /\ unsent' = unsent \ {job'[p].msg}
         /\ SessionOf[job'[p].msg] \in VoiceSessions <=> p \in Waiters
         /\ job'[p].wait = 0
<1>1. PICK m \in unsent : BeginEnqueue(p)!3!(m)
  BY DEF BeginEnqueue
<1>. DEFINE j == [Resting EXCEPT !.at = "find", !.msg = m, !.now = clock]
<1>2. j.msg = m /\ j.wait = 0
  BY DEF Resting
<1>3. job'[p] = j
  BY <1>1, Moved
<1>. QED BY <1>1, <1>2, <1>3

\* No step puts a message into a second row, or into a row of another session.
LEMMA MessageStep ==
  ASSUME OneProcess
  PROVE  MessageInv /\ [Next]_vars => MessageInv'
<1>. SUFFICES ASSUME MessageInv, [Next]_vars PROVE MessageInv'
  OBVIOUS
<1>. USE DEF tables, history
<1>0. CarryInv /\ TypeInv /\ OneRowEach /\ RowsOfMessages /\ NotArrived /\ AbsentRowsEmpty
  BY DEF MessageInv, CarryInv, FinalInv, RowsOfMessages, AbsentRowsEmpty
<1>1. CarryInv'
  BY <1>0, CarryStep
<1>2. ASSUME ShapeKept, unsent' = unsent,
             \A p \in Procs : job'[p].at \in Arriving
               => job[p].at \in Arriving /\ job'[p].msg = job[p].msg
      PROVE  MessageInv'
  <2>1. OneRowEach' /\ RowsOfMessages' /\ \A m : Nowhere(m) <=> Nowhere(m)'
    BY <1>0, <1>2, ShapeStep
  <2>2. NotArrived'
    BY <1>0, <1>2, <2>1 DEF NotArrived
  <2>. QED BY <1>1, <2>1, <2>2 DEF MessageInv
<1>3. ASSUME rows' = rows PROVE ShapeKept
  BY <1>3 DEF ShapeKept
<1>4. ASSUME NEW p \in Procs, BeginEnqueue(p) PROVE MessageInv'
  <2>1. ShapeKept
    BY <1>3, <1>4 DEF BeginEnqueue
  <2>2. OneRowEach' /\ RowsOfMessages' /\ \A m : Nowhere(m) <=> Nowhere(m)'
    BY <1>0, <2>1, ShapeStep
  <2>3. job'[p].msg \in unsent /\ unsent' = unsent \ {job'[p].msg}
    BY <1>0, <1>4, Begun
  <2>4. NotArrived'
    BY <1>0, <2>2, <2>3 DEF NotArrived, OneProcess
  <2>. QED BY <1>1, <2>2, <2>4 DEF MessageInv
<1>5. ASSUME NEW p \in Procs, MergeMessage(p) \/ InsertRow(p) PROVE MessageInv'
  <2>1. PICK i \in Ids : ArrivesIn(i, job[p].msg)
    BY <1>0, <1>5, Arrivals
  <2>2. Nowhere(job[p].msg) /\ job[p].msg \notin unsent
    BY <1>0, <1>5 DEF NotArrived, MergeMessage, InsertRow, At, Arriving
  <2>3. OneRowEach' /\ RowsOfMessages' /\ \A n : n # job[p].msg => (Nowhere(n) <=> Nowhere(n)')
    BY <1>0, <2>1, <2>2, ArriveStep
  <2>4. unsent' = unsent /\ job'[p].at \notin Arriving
    BY <1>0, <1>5, EnqueueFlow DEF MergeMessage, InsertRow, Arriving
  <2>5. NotArrived'
    BY <1>0, <2>2, <2>3, <2>4 DEF NotArrived, OneProcess
  <2>. QED BY <1>1, <2>3, <2>5 DEF MessageInv
<1>6. ASSUME NEW p \in Procs, FindMergeCandidate(p) \/ CountActivity(p) PROVE MessageInv'
  <2>1. ShapeKept
    BY <1>3, <1>6 DEF FindMergeCandidate, CountActivity
  <2>. QED BY <1>0, <1>2, <1>6, <2>1, StillArriving DEF OneProcess
<1>7. ASSUME NEW p \in Procs,
             Enqueue(p) \/ Dispatch(p) \/ CheckResponse(p) \/ Crash(p),
             ~MergeMessage(p), ~InsertRow(p), ~FindMergeCandidate(p), ~CountActivity(p)
      PROVE  MessageInv'
  <2>1. job'[p].at \notin Arriving
    BY <1>0, <1>7, EnqueueFlow, DispatchFlow DEF Enqueue, Dispatch, Arriving
  <2>2. unsent' = unsent
    BY <1>7 DEF Enqueue, ReadRowId, EnforceCap, WriteAnchor, DropRow,
         Dispatch, ExpireLeases, ScanStale, RequeueStale, ReleaseStale, CheckLimit, PickPrimary,
         GroupBatch, AcquireLeases, ClaimBatch, StartRun, EndRun, CompleteBatch, ReleaseBatch,
         SendReply, CheckResponse, Crash
  <2>3. ShapeKept
    BY <1>0, <1>3, <1>7, Effects, Reads DEF Writes
  <2>. QED BY <1>2, <2>1, <2>2, <2>3 DEF OneProcess
<1>8. CASE Tick \/ UNCHANGED vars
  <2>1. rows' = rows /\ unsent' = unsent /\ job' = job
    BY <1>8 DEF Tick, vars
  <2>. QED BY <1>2, <1>3, <2>1
<1>. QED BY <1>4, <1>5, <1>6, <1>7, <1>8 DEF Next, Step

\* In an empty database every message is still to come.
LEMMA MessageInit == Init => MessageInv
<1>. SUFFICES ASSUME Init PROVE MessageInv
  OBVIOUS
<1>1. OneRowEach /\ RowsOfMessages /\ \A m : Nowhere(m)
  BY DEF Init, AbsentRow, OneRowEach, RowsOfMessages, Nowhere
<1>2. NotArrived
  BY <1>1 DEF Init, NotArrived, Resting, Arriving
<1>. QED BY <1>1, <1>2, CarryInit DEF MessageInv

-------------------------------------------------------------------------------
(* A message is run again only because a run of it was cut short.          *)

\* From the claim until the outcome is stored, a row is in the hands of the process.
InHand(i) == \E p \in Procs : job[p].at \in {"claimed", "running", "complete"} /\ i \in job[p].ids

\* Every claim of a message but the one that led to its outcome, or that the process
\* is just working off, was ended by a crash.
ClaimsCovered ==
  /\ \A m \in Messages : Nowhere(m) => claims[m] = 0
  /\ \A i \in Ids : \A m \in rows[i].text :
       /\ claims[m] <= 1 + crashes
       /\ rows[i].status = "queued" => claims[m] <= crashes
       /\ rows[i].status = "running" /\ ~InHand(i) => claims[m] <= crashes

ClaimInv == MessageInv /\ ClaimsCovered

\* A statement that claims nothing and makes no row wait that did not.
LEMMA CoveredStill ==
  ASSUME ClaimInv, ShapeKept, claims' = claims, crashes' = crashes,
         \A i \in Ids : \/ rows'[i].status \notin {"queued", "running"}
                        \/ rows'[i].status = rows[i].status /\ (InHand(i) => InHand(i)')
                        \/ rows[i].status = "running" /\ ~InHand(i)
  PROVE  ClaimsCovered'
<1>1. \A m : Nowhere(m) <=> Nowhere(m)'
  BY ShapeStep DEF ClaimInv, MessageInv
<1>2. ClaimsCovered
  BY DEF ClaimInv
<1>3. ASSUME NEW i \in Ids, NEW m \in rows'[i].text
      PROVE  /\ claims[m] <= 1 + crashes
             /\ rows'[i].status = "queued" => claims[m] <= crashes
             /\ rows'[i].status = "running" /\ ~InHand(i)' => claims[m] <= crashes
  <2>1. m \in rows[i].text
    BY <1>3 DEF ShapeKept
  <2>2. /\ claims[m] <= 1 + crashes
        /\ rows[i].status = "queued" => claims[m] <= crashes
        /\ rows[i].status = "running" /\ ~InHand(i) => claims[m] <= crashes
    BY <1>2, <2>1 DEF ClaimsCovered
  <2>. QED BY <2>2
<1>. QED BY <1>1, <1>2, <1>3 DEF ClaimsCovered

\* A message that arrives was never claimed, and while it arrives nothing is worked on.
LEMMA ArrivalsCovered ==
  ASSUME OneProcess, ClaimInv, NEW p \in Procs, MergeMessage(p) \/ InsertRow(p)
  PROVE  ClaimsCovered'
<1>0. /\ CarryInv /\ TypeInv /\ OneRowEach /\ RowsOfMessages /\ NotArrived /\ AbsentRowsEmpty
      /\ ClaimsCovered /\ crashes \in Nat
  BY DEF ClaimInv, MessageInv, CarryInv, FinalInv, RowsOfMessages, AbsentRowsEmpty, TypeInv, TypeOK
<1>1. PICK n \in Messages, i \in Ids : n = job[p].msg /\ ArrivesIn(i, n)
  BY <1>0, Arrivals DEF ArrivesIn
<1>2. Nowhere(n) /\ claims[n] = 0
  BY <1>0, <1>1 DEF NotArrived, MergeMessage, InsertRow, At, Arriving, ArrivesIn, ClaimsCovered
<1>3. \A m : m # n => (Nowhere(m) <=> Nowhere(m)')
  BY <1>0, <1>1, <1>2, ArriveStep
<1>4. claims' = claims /\ crashes' = crashes
  BY DEF MergeMessage, InsertRow
<1>5. \A k : ~InHand(k)
  BY DEF InHand, OneProcess, MergeMessage, InsertRow, At
<1>6. ~Nowhere(n)'
  BY <1>1 DEF Nowhere, ArrivesIn
<1>7. /\ \A k \in Ids \ {i} : rows'[k] = rows[k]
      /\ rows'[i].text = rows[i].text \cup {n}
      /\ rows'[i].status = "queued"
      /\ rows[i].status \in {"queued", "absent"}
  BY <1>1 DEF ArrivesIn, OnlyRow
<1>8. ASSUME NEW k \in Ids, NEW m \in rows'[k].text
      PROVE  claims[m] <= 1 + crashes /\ (rows'[k].status \in {"queued", "running"} => claims[m] <= crashes)
  <2>1. CASE k # i
    BY <1>0, <1>5, <1>7, <1>8, <2>1 DEF ClaimsCovered
  <2>2. CASE m = n
    BY <1>0, <1>2, <2>2
  <2>3. CASE k = i /\ m # n
    BY <1>0, <1>7, <1>8, <2>3 DEF ClaimsCovered, RowsOfMessages
  <2>. QED BY <2>1, <2>2, <2>3
<1>9. \A m \in Messages : Nowhere(m)' => claims[m] = 0
  BY <1>0, <1>3, <1>6 DEF ClaimsCovered
<1>. QED BY <1>4, <1>8, <1>9 DEF ClaimsCovered

\* A claim takes rows that wait, so it is one more than the crashes at most.
LEMMA ClaimCovered ==
  ASSUME OneProcess, ClaimInv, NEW p \in Procs, ClaimBatch(p)
  PROVE  ClaimsCovered'
<1>0. /\ CarryInv /\ TypeInv /\ OneRowEach /\ RowsOfMessages /\ ClaimsCovered
      /\ crashes \in Nat /\ claims \in [Messages -> Nat] /\ rows \in [Ids -> Row]
  BY DEF ClaimInv, MessageInv, CarryInv, FinalInv, TypeInv, TypeOK
<1>. DEFINE ids == job[p].ids
<1>1. /\ OnlyRows(ids) /\ ShapeKept
      /\ RowsAre(ids, "queued", rows) /\ RowsAre(ids, "running", rows')
      /\ ids \in SUBSET Ids
  BY <1>0, Effects DEF TypeInv, TypeOK, Job
<1>2. /\ claims' = [m \in Messages |-> IF m \in TextOf(ids) THEN claims[m] + 1 ELSE claims[m]]
      /\ crashes' = crashes
  BY DEF ClaimBatch
<1>3. \A k : ~InHand(k)
  BY DEF InHand, OneProcess, ClaimBatch, At
<1>4. \A k \in ids : InHand(k)'
  <2>1. job'[p].at = "claimed" /\ job'[p].ids = ids
    BY <1>0, Went, PlaceNames DEF ClaimBatch
  <2>. HIDE DEF ids
  <2>. QED BY <2>1 DEF InHand
<1>. HIDE DEF ids
<1>5. \A m : Nowhere(m) <=> Nowhere(m)'
  BY <1>0, <1>1, ShapeStep
<1>6. \A m \in Messages : Nowhere(m) => claims'[m] = claims[m]
  BY <1>1, <1>2 DEF Nowhere, TextOf
<1>7. ASSUME NEW k \in Ids, NEW m \in rows'[k].text
      PROVE  /\ claims'[m] <= 1 + crashes
             /\ rows'[k].status = "queued" => claims'[m] <= crashes
             /\ rows'[k].status = "running" /\ ~InHand(k)' => claims'[m] <= crashes
  <2>1. m \in rows[k].text /\ m \in Messages
    BY <1>0, <1>1, <1>7 DEF ShapeKept, Row
  <2>2. CASE k \in ids
    <3>1. rows[k].status = "queued" /\ rows'[k].status = "running"
      BY <1>1, <2>2 DEF RowsAre
    <3>2. claims[m] <= crashes /\ claims[m] \in Nat
      BY <1>0, <2>1, <3>1 DEF ClaimsCovered
    <3>3. claims'[m] <= claims[m] + 1
      BY <1>2, <2>1, <3>2
    <3>4. claims'[m] \in Nat
      BY <1>2, <2>1, <3>2
    <3>. QED BY <1>0, <1>4, <2>2, <3>1, <3>2, <3>3, <3>4
  <2>3. CASE k \notin ids
    <3>1. m \notin TextOf(ids)
      BY <1>0, <1>1, <2>1, <2>3 DEF OneRowEach, TextOf
    <3>2. claims'[m] = claims[m] /\ rows'[k] = rows[k]
      BY <1>1, <1>2, <2>1, <2>3, <3>1 DEF OnlyRows
    <3>. QED BY <1>0, <1>3, <2>1, <3>2 DEF ClaimsCovered
  <2>. QED BY <2>2, <2>3
<1>. QED BY <1>0, <1>2, <1>5, <1>6, <1>7 DEF ClaimsCovered

\* No step makes a message wait again whose claims no crash explains.
LEMMA ClaimStep ==
  ASSUME OneProcess
  PROVE  ClaimInv /\ [Next]_vars => ClaimInv'
<1>. SUFFICES ASSUME ClaimInv, [Next]_vars PROVE ClaimsCovered'
  BY MessageStep DEF ClaimInv
<1>. USE DEF tables, history
<1>0. /\ CarryInv /\ TypeInv /\ ClaimsCovered /\ OneRowEach /\ RowsOfMessages
      /\ crashes \in Nat /\ claims \in [Messages -> Nat] /\ rows \in [Ids -> Row]
  BY DEF ClaimInv, MessageInv, CarryInv, FinalInv, TypeInv, TypeOK
<1>1. ASSUME NEW p \in Procs, MergeMessage(p) \/ InsertRow(p) PROVE ClaimsCovered'
  BY <1>1, ArrivalsCovered
<1>2. ASSUME NEW p \in Procs, ClaimBatch(p) PROVE ClaimsCovered'
  BY <1>2, ClaimCovered
<1>3. ASSUME NEW p \in Procs, Crash(p) PROVE ClaimsCovered'
  <2>1. rows' = rows /\ claims' = claims /\ crashes' = crashes + 1
    BY <1>3 DEF Crash
  <2>2. \A m : Nowhere(m) <=> Nowhere(m)'
    BY <2>1 DEF Nowhere
  <2>3. \A i \in Ids : \A m \in rows[i].text : claims[m] \in Nat
    BY <1>0 DEF Row
  <2>. QED BY <1>0, <2>1, <2>2, <2>3 DEF ClaimsCovered
<1>4. ASSUME NEW p \in Procs, CompleteBatch(p) PROVE ClaimsCovered'
  <2>1. /\ OnlyRows(job[p].ids) /\ ShapeKept
        /\ \A i \in job[p].ids : rows'[i].status \in {"done", "failed"}
    BY <1>0, <1>4, Effects
  <2>2. \A i : InHand(i) => i \in job[p].ids
    BY DEF InHand, OneProcess
  <2>3. claims' = claims /\ crashes' = crashes
    BY <1>4 DEF CompleteBatch
  <2>. QED BY <2>1, <2>2, <2>3, CoveredStill DEF OnlyRows
<1>5. ASSUME NEW p \in Procs, DropRow(p) \/ RequeueStale(p) PROVE ClaimsCovered'
  <2>1. \A i : ~InHand(i)
    BY <1>5 DEF InHand, OneProcess, DropRow, RequeueStale, At
  <2>2. claims' = claims /\ crashes' = crashes
    BY <1>5 DEF DropRow, RequeueStale
  <2>3. PICK i \in Ids : /\ OnlyRow(i) /\ ShapeKept
                         /\ rows'[i].status = "dropped" \/ rows[i].status = "running"
    BY <1>0, <1>5, Effects
  <2>. QED BY <2>1, <2>2, <2>3, CoveredStill DEF OnlyRow
<1>6. ASSUME NEW p \in Procs, StartRun(p) \/ EndRun(p) PROVE ClaimsCovered'
  <2>1. job'[p].at \in {"running", "complete"} /\ job'[p].ids = job[p].ids
    <3>1. CASE StartRun(p)
      BY <1>0, <3>1, Went, PlaceNames DEF StartRun
    <3>2. CASE EndRun(p)
      <4>1. PICK ok \in BOOLEAN : Becomes(p, [job[p] EXCEPT !.at = "complete", !.ok = ok])
        BY <3>2 DEF EndRun
      <4>2. /\ [job[p] EXCEPT !.at = "complete", !.ok = ok].at = "complete"
            /\ [job[p] EXCEPT !.at = "complete", !.ok = ok].ids = job[p].ids
        BY <1>0 DEF TypeInv, TypeOK, Job
      <4>. QED BY <1>0, <4>1, <4>2, Moved
    <3>. QED BY <1>6, <3>1, <3>2
  <2>2. \A i : InHand(i) => InHand(i)'
    BY <2>1 DEF InHand, OneProcess
  <2>3. rows' = rows /\ claims' = claims /\ crashes' = crashes
    BY <1>6 DEF StartRun, EndRun
  <2>. QED BY <2>2, <2>3, CoveredStill DEF ShapeKept
<1>7. ASSUME NEW p \in Procs,
             BeginEnqueue(p) \/ Enqueue(p) \/ Dispatch(p) \/ CheckResponse(p),
             WriteAnchor(p) \/ ~Writes(p), ~StartRun(p), ~EndRun(p)
      PROVE  ClaimsCovered'
  <2>1. \A i : ~InHand(i)
    BY <1>7 DEF InHand, OneProcess, Writes, At, BeginEnqueue, Enqueue, Dispatch, CheckResponse,
         FindMergeCandidate, CountActivity, ReadRowId, EnforceCap, WriteAnchor, ExpireLeases,
         ScanStale, ReleaseStale, CheckLimit, PickPrimary, GroupBatch, AcquireLeases, ReleaseBatch,
         SendReply
  <2>2. ShapeKept /\ StatusesKept /\ claims' = claims
    <3>1. CASE WriteAnchor(p)
      BY <1>0, <3>1, Effects DEF WriteAnchor
    <3>2. CASE ~Writes(p)
      BY <1>7, <3>2, Reads DEF ShapeKept, StatusesKept
    <3>. QED BY <1>7, <3>1, <3>2
  <2>3. crashes' = crashes
    BY <1>7 DEF Writes, BeginEnqueue, Enqueue, Dispatch, CheckResponse,
         FindMergeCandidate, CountActivity, ReadRowId, EnforceCap, WriteAnchor, ExpireLeases,
         ScanStale, ReleaseStale, CheckLimit, PickPrimary, GroupBatch, AcquireLeases, ReleaseBatch,
         SendReply
  <2>. QED BY <2>1, <2>2, <2>3, CoveredStill DEF StatusesKept
<1>8. CASE Tick \/ UNCHANGED vars
  <2>1. rows' = rows /\ claims' = claims /\ crashes' = crashes /\ job' = job
    BY <1>8 DEF Tick, vars
  <2>2. \A i : InHand(i) => InHand(i)'
    BY <2>1 DEF InHand
  <2>. QED BY <2>1, <2>2, CoveredStill DEF ShapeKept
<1>. QED BY <1>1, <1>2, <1>3, <1>4, <1>5, <1>6, <1>7, <1>8 DEF Next, Step, Writes

\* While one process uses the database, a message is claimed for a run once, and once
\* more for each crash at most: recover_stale_leases hands out no row again that a
\* living run works on or that has its outcome.
THEOREM ReclaimsNeedCrashes ==
  ASSUME OneProcess
  PROVE  Spec => []RunsBoundedByCrashes
<1>1. Init => ClaimInv
  <2>1. Init => ClaimsCovered
    BY DEF Init, AbsentRow, ClaimsCovered
  <2>. QED BY <2>1, MessageInit DEF ClaimInv
<1>2. ClaimInv => RunsBoundedByCrashes
  <2>. SUFFICES ASSUME ClaimInv, NEW m \in Messages PROVE claims[m] <= 1 + crashes
    BY DEF RunsBoundedByCrashes
  <2>1. ClaimsCovered /\ crashes \in Nat
    BY DEF ClaimInv, MessageInv, CarryInv, FinalInv, TypeInv, TypeOK
  <2>. QED BY <2>1 DEF ClaimsCovered, Nowhere
<1>. QED BY <1>1, <1>2, ClaimStep, PTL DEF Spec

-------------------------------------------------------------------------------
(* Nobody is answered twice.                                               *)

Unanswered(text) == \A m \in text : replies[m] = 0

\* Only what a settled row holds has been answered.
AnswersSettled ==
  \A m \in Messages : replies[m] # 0
    => \E i \in Ids : m \in rows[i].text /\ rows[i].status \in Terminal

\* A waiter writes into the sessions with surface "voice", and nobody else does.
OwnSessions ==
  \A p \in Procs, i \in Ids : rows[i].status # "absent"
    => (rows[i].session \in VoiceSessions <=> p \in Waiters)

\* What the process is about to answer, or waits for, has not been answered; and a
\* waiter answers only what it waits for.
Asks(p) ==
  /\ job[p].at \in Settled => Unanswered(job[p].text)
  /\ job[p].at \in Arriving => (SessionOf[job[p].msg] \in VoiceSessions <=> p \in Waiters)
  /\ job[p].at \in Arriving \cup {"readid"} => job[p].wait = 0
  /\ job[p].at = "reply" => p \notin Waiters
  /\ job[p].at = "wait" => job[p].wait # 0
  /\ job[p].wait # 0 => p \in Waiters /\ Unanswered(rows[job[p].wait].text)

ReplyInv ==
  /\ MessageInv
  /\ AtMostOneReply
  /\ AnswersSettled
  /\ OwnSessions
  /\ \A p \in Procs : Asks(p)

\* What waits or runs has not been answered.
LEMMA LiveUnanswered ==
  ASSUME OneRowEach, AnswersSettled, rows \in [Ids -> Row],
         NEW i \in Ids, rows[i].status \notin Terminal
  PROVE  Unanswered(rows[i].text)
<1>1. rows[i].text \subseteq Messages
  BY DEF Row
<1>. QED BY <1>1 DEF OneRowEach, AnswersSettled, Unanswered

\* Back from enqueue_request or dispatch_due_once, a waiter waits for what it did.
LEMMA BackWait ==
  ASSUME TypeInv, NEW p \in Procs, Finish(p) \/ EndEnqueue(p) \/ Becomes(p, Resting)
  PROVE  /\ job'[p].wait \in {job[p].wait, 0}
         /\ job'[p].at = "wait" => job'[p].wait # 0
<1>1. /\ Back(p).wait = job[p].wait
      /\ Back(p).at = "wait" => Back(p).wait # 0
      /\ Resting.wait = 0 /\ Resting.at # "wait"
  BY DEF Back, Resting
<1>2. LET j == [Back(p) EXCEPT !.deadline = clock + WaitTimeout]
      IN j.wait = Back(p).wait /\ j.at = Back(p).at
  BY BackType DEF Job
<1>. QED BY <1>1, <1>2, Moved DEF Finish, EndEnqueue

\* Only the merge and ReadRowId set the row that is waited for.
LEMMA WaitFlow ==
  ASSUME TypeInv, NEW p \in Procs,
         BeginEnqueue(p) \/ Enqueue(p) \/ Dispatch(p) \/ CheckResponse(p) \/ Crash(p)
  PROVE  /\ ~MergeMessage(p) /\ ~ReadRowId(p) => job'[p].wait \in {job[p].wait, 0}
         /\ job'[p].at = "wait" => job'[p].wait # 0
         /\ MergeMessage(p) => job'[p].wait \in {job[p].row, 0} /\ (job'[p].wait # 0 => p \in Waiters)
         /\ ReadRowId(p) => \/ job'[p].wait = 0
                            \/ /\ p \in Waiters
                               /\ job'[p].wait \in QueuedOf(SessionOf[job[p].msg])
<1>. USE PlaceNames
<1>0. job[p] \in Job
  BY DEF TypeInv, TypeOK
<1>a. ASSUME NEW j, Becomes(p, j), j.wait = job[p].wait, j.at # "wait"
      PROVE  job'[p].wait = job[p].wait /\ job'[p].at # "wait"
  BY <1>a, Moved
<1>b. ASSUME NEW place \in Places \ {"wait"}, Goto(p, place)
      PROVE  job'[p].wait = job[p].wait /\ job'[p].at # "wait"
  BY <1>b, Went
<1>1. CASE BeginEnqueue(p)
  BY <1>1, Begun, EnqueueFlow DEF BeginEnqueue, MergeMessage, ReadRowId, At
<1>2. CASE FindMergeCandidate(p) \/ CountActivity(p)
  BY <1>2, StillArriving, EnqueueFlow DEF FindMergeCandidate, CountActivity, MergeMessage, ReadRowId, At
<1>3. CASE MergeMessage(p)
  <2>. DEFINE j == [job[p] EXCEPT !.at = "cap", !.wait = WaitedRow(p, job[p].row)]
  <2>1. j.wait = WaitedRow(p, job[p].row) /\ j.at # "wait"
    BY <1>0 DEF Job
  <2>2. job'[p] = j
    BY <1>3, Moved DEF MergeMessage
  <2>. HIDE DEF j
  <2>. QED BY <1>3, <2>1, <2>2 DEF WaitedRow, MergeMessage, ReadRowId, At
<1>4. CASE ReadRowId(p)
  <2>. DEFINE Read(i) == [job[p] EXCEPT !.at = "cap", !.wait = WaitedRow(p, i)]
  <2>1. \/ Becomes(p, Resting)
        \/ \E i \in QueuedOf(SessionOf[job[p].msg]) : Becomes(p, Read(i))
    BY <1>4 DEF ReadRowId, Newest
  <2>2. \A i : Read(i).wait = WaitedRow(p, i) /\ Read(i).at # "wait"
    BY <1>0 DEF Job
  <2>. HIDE DEF Read
  <2>a. ~MergeMessage(p)
    BY <1>4 DEF MergeMessage, ReadRowId, At
  <2>3. CASE Becomes(p, Resting)
    <3>1. job'[p].wait = 0 /\ job'[p].at = "idle"
      BY <2>3, Moved DEF Resting
    <3>. QED BY <1>4, <2>a, <3>1
  <2>4. CASE \E i \in QueuedOf(SessionOf[job[p].msg]) : Becomes(p, Read(i))
    BY <1>4, <2>a, <2>2, <2>4, Moved DEF WaitedRow
  <2>. QED BY <2>1, <2>3, <2>4
<1>5. ASSUME ~MergeMessage(p), ~ReadRowId(p), ~BeginEnqueue(p),
             ~FindMergeCandidate(p), ~CountActivity(p)
      PROVE  /\ job'[p].wait \in {job[p].wait, 0}
             /\ job'[p].at = "wait" => job'[p].wait # 0
  <2>1. CASE \/ InsertRow(p) \/ WriteAnchor(p) \/ ReleaseStale(p) \/ AcquireLeases(p)
             \/ ClaimBatch(p) \/ StartRun(p) \/ CompleteBatch(p)
    BY <1>b, <2>1 DEF InsertRow, WriteAnchor, ReleaseStale, AcquireLeases, ClaimBatch, StartRun,
         CompleteBatch
  <2>2. CASE CheckLimit(p) \/ ReleaseBatch(p) \/ SendReply(p) \/ CheckResponse(p) \/ Crash(p)
    BY <1>b, <2>2, BackWait DEF CheckLimit, ReleaseBatch, SendReply, CheckResponse, Crash
  <2>3. CASE EnforceCap(p)
    <3>. DEFINE Saved(drop, anchor) == [job[p] EXCEPT
                      !.at = "anchor", !.row = anchor, !.ids = drop,
                      !.text = SummaryOf(drop),
                      !.lines = Append(rows[anchor].summary, SummaryOf(drop))]
    <3>1. \A drop, anchor : Saved(drop, anchor).wait = job[p].wait /\ Saved(drop, anchor).at # "wait"
      BY <1>0 DEF Job
    <3>2. EndEnqueue(p) \/ \E drop, anchor : Becomes(p, Saved(drop, anchor))
      BY <2>3 DEF EnforceCap
    <3>. HIDE DEF Saved
    <3>. QED BY <1>a, <3>1, <3>2, BackWait
  <2>4. CASE DropRow(p)
    <3>1. EndEnqueue(p) \/ \E i : Becomes(p, [job[p] EXCEPT !.ids = @ \ {i}])
      BY <2>4 DEF DropRow
    <3>2. \A i : LET j == [job[p] EXCEPT !.ids = @ \ {i}] IN j.wait = job[p].wait /\ j.at # "wait"
      BY <1>0, <2>4 DEF DropRow, At, Job
    <3>. QED BY <1>a, <3>1, <3>2, BackWait
  <2>5. CASE ExpireLeases(p)
    <3>. DEFINE j == [Back(p) EXCEPT !.at = "stale", !.now = clock]
    <3>1. j.wait = Back(p).wait /\ j.at # "wait"
      BY BackType DEF Job
    <3>2. Back(p).wait = job[p].wait
      BY DEF Back, Resting
    <3>3. Becomes(p, j)
      BY <2>5 DEF ExpireLeases
    <3>. HIDE DEF j
    <3>. QED BY <1>a, <3>1, <3>2, <3>3
  <2>6. CASE ScanStale(p)
    <3>. DEFINE j(ids, place) == [job[p] EXCEPT !.ids = ids, !.at = place]
    <3>1. \A ids, place : j(ids, place).wait = job[p].wait /\ j(ids, place).at = place
      BY <1>0 DEF Job
    <3>2. \E ids, place : place \in {"limit", "requeue"} /\ Becomes(p, j(ids, place))
      <4>. DEFINE stale == ReadableIn(Stale(job[p].now))
                  next == IF stale = {} THEN "limit" ELSE "requeue"
      <4>1. Becomes(p, j(stale, next))
        BY <2>6 DEF ScanStale
      <4>2. next \in {"limit", "requeue"}
        OBVIOUS
      <4>. HIDE DEF stale, next, j
      <4>. QED BY <4>1, <4>2
    <3>. HIDE DEF j
    <3>. QED BY <1>a, <3>1, <3>2
  <2>7. CASE RequeueStale(p)
    <3>1. \A i : LET j == [job[p] EXCEPT !.at = "unlease", !.row = i, !.ids = @ \ {i}]
                 IN j.wait = job[p].wait /\ j.at # "wait"
      BY <1>0 DEF Job
    <3>. QED BY <1>a, <2>7, <3>1 DEF RequeueStale
  <2>8. CASE PickPrimary(p)
    <3>. DEFINE Picked(i) == [job[p] EXCEPT !.at = "group", !.row = i, !.now = clock,
                                            !.text = rows[i].text, !.lines = rows[i].summary,
                                            !.window = rows[i].available]
    <3>1. \A i : Picked(i).wait = job[p].wait /\ Picked(i).at # "wait"
      BY <1>0 DEF Job
    <3>2. Finish(p) \/ \E i : Becomes(p, Picked(i))
      BY <2>8 DEF PickPrimary
    <3>. HIDE DEF Picked
    <3>. QED BY <1>a, <3>1, <3>2, BackWait
  <2>9. CASE GroupBatch(p)
    <3>. DEFINE Grouped(ids, text, lines) ==
                  [job[p] EXCEPT !.at = "lease", !.ids = ids, !.text = text, !.lines = lines]
    <3>1. \A ids, text, lines : /\ Grouped(ids, text, lines).wait = job[p].wait
                                /\ Grouped(ids, text, lines).at # "wait"
      BY <1>0 DEF Job
    <3>2. \E ids, text, lines : Becomes(p, Grouped(ids, text, lines))
      BY <2>9 DEF GroupBatch
    <3>. HIDE DEF Grouped
    <3>. QED BY <1>a, <3>1, <3>2
  <2>10. CASE EndRun(p)
    <3>1. \A ok : LET j == [job[p] EXCEPT !.at = "complete", !.ok = ok]
                  IN j.wait = job[p].wait /\ j.at # "wait"
      BY <1>0 DEF Job
    <3>. QED BY <1>a, <2>10, <3>1 DEF EndRun
  <2>. QED BY <1>5, <2>1, <2>2, <2>3, <2>4, <2>5, <2>6, <2>7, <2>8, <2>9, <2>10
       DEF Enqueue, Dispatch
<1>. QED BY <1>1, <1>2, <1>3, <1>4, <1>5

\* A statement that answers nobody and moves no message leaves a waiter's row
\* unanswered.
LEMMA AsksStill ==
  ASSUME ReplyInv, NEW p \in Procs, ShapeKept, replies' = replies,
         job'[p].wait \in {job[p].wait, 0},
         job'[p].at = "wait" => job'[p].wait # 0,
         job'[p].at \notin Arriving \cup {"readid"},
         job'[p].at \in Settled => Unanswered(job'[p].text),
         job'[p].at = "reply" => p \notin Waiters
  PROVE  Asks(p)'
<1>1. job[p].wait \in Ids \cup {0}
  BY DEF ReplyInv, MessageInv, CarryInv, FinalInv, TypeInv, TypeOK, Job
<1>2. job'[p].wait # 0 => p \in Waiters /\ Unanswered(rows[job'[p].wait].text)
  BY DEF ReplyInv, Asks
<1>3. job'[p].wait # 0 => rows'[job'[p].wait].text = rows[job'[p].wait].text
  BY <1>1 DEF ShapeKept
<1>. QED BY <1>2, <1>3 DEF Asks, Unanswered

\* No message that arrives has been answered.
LEMMA ArrivalAsks ==
  ASSUME OneProcess, ReplyInv, NEW p \in Procs, MergeMessage(p) \/ InsertRow(p)
  PROVE  Asks(p)' /\ OwnSessions'
<1>0. /\ CarryInv /\ TypeInv /\ OneRowEach /\ RowsOfMessages /\ NotArrived /\ AbsentRowsEmpty
      /\ AnswersSettled /\ OwnSessions /\ Asks(p) /\ rows \in [Ids -> Row]
  BY DEF ReplyInv, MessageInv, CarryInv, FinalInv, RowsOfMessages, AbsentRowsEmpty, TypeInv, TypeOK
<1>1. PICK n \in Messages, i \in Ids :
        n = job[p].msg /\ ArrivesIn(i, n) /\ (MergeMessage(p) => i = job[p].row)
  BY <1>0, Arrivals DEF ArrivesIn
<1>2. job[p].at \in Arriving
  BY DEF MergeMessage, InsertRow, At, Arriving
<1>3. Nowhere(n) /\ job[p].wait = 0 /\ (SessionOf[n] \in VoiceSessions <=> p \in Waiters)
  BY <1>0, <1>1, <1>2 DEF NotArrived, Asks
<1>4. replies[n] = 0
  BY <1>0, <1>3 DEF AnswersSettled, Nowhere
<1>5. Unanswered(rows[i].text)
  BY <1>0, <1>1, LiveUnanswered DEF ArrivesIn, Terminal
<1>6. replies' = replies
  BY DEF MergeMessage, InsertRow
<1>7. \A m \in rows'[i].text : replies'[m] = 0
  BY <1>1, <1>4, <1>5, <1>6 DEF ArrivesIn, Unanswered
<1>8. job'[p].at \in {"cap", "readid"}
  BY <1>0, EnqueueFlow
<1>9. /\ job'[p].at = "cap" => job'[p].wait \in {i, 0} /\ (job'[p].wait # 0 => p \in Waiters)
      /\ job'[p].at = "readid" => job'[p].wait = 0
  <2>1. CASE MergeMessage(p)
    BY <1>0, <1>1, <2>1, EnqueueFlow, WaitFlow DEF Enqueue
  <2>2. CASE InsertRow(p)
    <3>1. ~MergeMessage(p) /\ ~ReadRowId(p)
      BY <2>2 DEF InsertRow, MergeMessage, ReadRowId, At
    <3>. QED BY <1>0, <1>3, <2>2, <3>1, EnqueueFlow, WaitFlow DEF Enqueue
  <2>. QED BY <2>1, <2>2
<1>10. Asks(p)'
  BY <1>7, <1>8, <1>9 DEF Asks, Unanswered, Settled, Arriving
<1>11. OwnSessions'
  <2>1. /\ \A k \in Ids \ {i} : rows'[k] = rows[k]
        /\ rows'[i].session = SessionOf[n]
        /\ \/ rows[i].status = "queued" /\ rows[i].session = SessionOf[n]
           \/ rows[i].status = "absent"
    BY <1>1 DEF ArrivesIn, OnlyRow
  <2>2. ASSUME NEW q \in Procs, NEW k \in Ids, rows'[k].status # "absent"
        PROVE  rows'[k].session \in VoiceSessions <=> q \in Waiters
    BY <1>0, <1>3, <2>1, <2>2 DEF OwnSessions, OneProcess
  <2>. QED BY <2>2 DEF OwnSessions
<1>. QED BY <1>10, <1>11

\* Answering for the first time what settled rows hold.
LEMMA FirstAnswer ==
  ASSUME ReplyInv, rows' = rows, NEW text \in SUBSET Messages, Unanswered(text),
         replies' \in {Replied(text), replies},
         \A m \in text : \E i \in Ids : m \in rows[i].text /\ rows[i].status \in Terminal
  PROVE  AtMostOneReply' /\ AnswersSettled'
<1>0. AtMostOneReply /\ AnswersSettled /\ replies \in [Messages -> Nat]
  BY DEF ReplyInv, MessageInv, CarryInv, FinalInv, TypeInv, TypeOK
<1>1. \A m \in Messages : \/ replies'[m] = replies[m]
                          \/ m \in text /\ replies'[m] = 1
  <2>1. CASE replies' = replies
    BY <2>1
  <2>2. CASE replies' = Replied(text)
    BY <1>0, <2>2 DEF Replied, Unanswered
  <2>. QED BY <2>1, <2>2
<1>2. AtMostOneReply'
  BY <1>0, <1>1 DEF AtMostOneReply
<1>3. AnswersSettled'
  BY <1>0, <1>1 DEF AnswersSettled
<1>. QED BY <1>2, <1>3

\* The reply to a batch whose outcome is stored, and the answer that a waiter finds.
LEMMA AnswerStep ==
  ASSUME OneProcess, ReplyInv, NEW p \in Procs, SendReply(p) \/ CheckResponse(p)
  PROVE  AtMostOneReply' /\ AnswersSettled' /\ Asks(p)'
<1>. USE DEF tables, history
<1>0. /\ CarryInv /\ TypeInv /\ job[p] \in Job /\ Carries(job[p], rows) /\ Asks(p)
      /\ rows \in [Ids -> Row] /\ job[p].ids \in SUBSET Ids
      /\ AtMostOneReply /\ AnswersSettled
  BY DEF ReplyInv, MessageInv, CarryInv, FinalInv, TypeInv, TypeOK, Job
<1>1. rows' = rows
  BY DEF SendReply, CheckResponse
<1>2. /\ job'[p].wait \in {job[p].wait, 0}
      /\ job'[p].at = "wait" => job'[p].wait # 0
  BY <1>0, WaitFlow DEF Dispatch, SendReply, CheckResponse, MergeMessage, ReadRowId, At
<1>3. CASE SendReply(p)
  <2>1. /\ job[p].at = "reply" /\ p \notin Waiters /\ Unanswered(job[p].text)
        /\ job[p].wait = 0
    BY <1>0, <1>3 DEF SendReply, At, Asks, Settled
  <2>2. \A m \in job[p].text : \E i \in Ids : m \in rows[i].text /\ rows[i].status \in Terminal
    BY <1>0, <2>1 DEF Carries, Settled, TextIn, Terminal
  <2>3. replies' \in {Replied(job[p].text), replies} /\ job[p].text \in SUBSET Messages
    BY <1>0, <1>3 DEF SendReply, Job
  <2>4. job'[p].wait = 0 /\ job'[p].at = "idle"
    BY <1>0, <1>2, <1>3, <2>1, DispatchFlow
  <2>. QED BY <1>1, <2>1, <2>2, <2>3, <2>4, FirstAnswer DEF Asks, Settled, Arriving
<1>4. CASE CheckResponse(p)
  <2>. DEFINE r == rows[job[p].wait]
  <2>1. /\ job[p].wait \in Ids /\ Unanswered(r.text) /\ p \in Waiters
    BY <1>0, <1>4 DEF CheckResponse, At, Asks, Job
  <2>2. r.text \in SUBSET Messages
    BY <1>0, <2>1 DEF Row
  <2>3. CASE replies' = replies
    <3>1. AtMostOneReply' /\ AnswersSettled'
      BY <1>0, <1>1, <2>3 DEF AtMostOneReply, AnswersSettled
    <3>2. job'[p].at \in {"again", "idle"}
      BY <1>0, <1>4, DispatchFlow
    <3>3. ShapeKept
      BY <1>1 DEF ShapeKept
    <3>. QED BY <1>2, <2>3, <3>1, <3>2, <3>3, AsksStill DEF Settled, Arriving
  <2>4. CASE replies' # replies
    <3>1. r.status \in Terminal /\ replies' = Replied(r.text) /\ Becomes(p, Resting)
      BY <1>4, <2>4 DEF CheckResponse
    <3>2. job'[p].wait = 0 /\ job'[p].at = "idle"
      BY <1>0, <3>1, Moved DEF Resting
    <3>. HIDE DEF r
    <3>3. AtMostOneReply' /\ AnswersSettled'
      <4>1. \A m \in r.text : \E i \in Ids : m \in rows[i].text /\ rows[i].status \in Terminal
        BY <2>1, <3>1 DEF r
      <4>. QED BY <1>1, <2>1, <2>2, <3>1, <4>1, FirstAnswer
    <3>. QED BY <3>2, <3>3 DEF Asks, Settled, Arriving
  <2>. QED BY <2>3, <2>4
<1>. QED BY <1>3, <1>4

\* A batch is on its way to its reply only if nothing of it was answered, and only if
\* nobody waits for it.
LEMMA SettledAsks ==
  ASSUME OneProcess, ReplyInv, NEW p \in Procs, CompleteBatch(p) \/ ReleaseBatch(p)
  PROVE  /\ job'[p].at \in Settled => Unanswered(job'[p].text)
         /\ job'[p].at = "reply" => p \notin Waiters
<1>0. /\ CarryInv /\ TypeInv /\ Carries(job[p], rows) /\ Asks(p)
      /\ rows \in [Ids -> Row] /\ job[p].ids \in SUBSET Ids
      /\ AnswersSettled /\ OneRowEach /\ OwnSessions
  BY DEF ReplyInv, MessageInv, CarryInv, FinalInv, TypeInv, TypeOK, Job
<1>1. CASE CompleteBatch(p)
  <2>1. job'[p].at = "release" /\ job'[p].text = job[p].text
    BY <1>0, <1>1, Went, PlaceNames DEF CompleteBatch
  <2>2. job[p].text = TextIn(job[p].ids, rows)
    BY <1>0, <1>1 DEF CompleteBatch, At, Carries, Batched
  <2>3. RowsAre(job[p].ids, "running", rows)
    BY <1>0, <1>1, Effects
  <2>4. \A i \in job[p].ids : Unanswered(rows[i].text)
    BY <1>0, <2>3, LiveUnanswered DEF RowsAre, Terminal
  <2>. QED BY <2>1, <2>2, <2>4 DEF Unanswered, TextIn
<1>2. CASE ReleaseBatch(p)
  <2>1. CASE Finish(p)
    BY <1>0, <2>1, EnqueueFlow DEF Settled
  <2>2. CASE ~Finish(p)
    <3>1. Goto(p, "reply") /\ rows[job[p].row].session \notin VoiceSessions /\ job[p].at = "release"
      BY <1>2, <2>2 DEF ReleaseBatch, At
    <3>2. job'[p].text = job[p].text
      BY <1>0, <3>1, Went, PlaceNames
    <3>3. job[p].row \in Ids /\ rows[job[p].row].status # "absent" /\ Unanswered(job[p].text)
      BY <1>0, <3>1 DEF Carries, Settled, Asks
    <3>4. p \notin Waiters
      BY <1>0, <3>1, <3>3 DEF OwnSessions
    <3>. QED BY <3>2, <3>3, <3>4
  <2>. QED BY <2>1, <2>2
<1>. QED BY <1>1, <1>2

\* No step answers again, or takes back an outcome that was answered.
LEMMA ReplyStep ==
  ASSUME OneProcess
  PROVE  ReplyInv /\ [Next]_vars => ReplyInv'
<1>. SUFFICES ASSUME ReplyInv, [Next]_vars PROVE ReplyInv'
  OBVIOUS
<1>. USE DEF tables, history
<1>0. /\ CarryInv /\ TypeInv /\ FinalInv /\ OneRowEach /\ RowsOfMessages /\ NotArrived
      /\ AbsentRowsEmpty /\ AtMostOneReply /\ AnswersSettled /\ OwnSessions
      /\ rows \in [Ids -> Row]
  BY DEF ReplyInv, MessageInv, CarryInv, FinalInv, RowsOfMessages, AbsentRowsEmpty, TypeInv, TypeOK
<1>1. MessageInv'
  BY MessageStep DEF ReplyInv
<1>2. TerminalKept
  BY <1>0, StepFinal DEF FinalStep
<1>3. ASSUME replies' = replies, \A i \in Ids : rows[i].text \subseteq rows'[i].text
      PROVE  AtMostOneReply' /\ AnswersSettled'
  BY <1>0, <1>2, <1>3 DEF AtMostOneReply, AnswersSettled, TerminalKept
<1>4. ASSUME NEW p \in Procs, Asks(p)', AtMostOneReply', AnswersSettled', OwnSessions'
      PROVE  ReplyInv'
  <2>1. \A q \in Procs : q = p
    BY DEF OneProcess
  <2>2. \A q \in Procs : Asks(q)'
    BY <1>4, <2>1
  <2>. QED BY <1>1, <1>4, <2>2 DEF ReplyInv
<1>5. ASSUME ShapeKept PROVE OwnSessions' /\ \A i \in Ids : rows[i].text \subseteq rows'[i].text
  BY <1>0, <1>5 DEF OwnSessions, ShapeKept
<1>6. ASSUME rows' = rows PROVE ShapeKept
  BY <1>6 DEF ShapeKept
<1>7. ASSUME NEW p \in Procs, BeginEnqueue(p) PROVE ReplyInv'
  <2>1. rows' = rows /\ replies' = replies
    BY <1>7 DEF BeginEnqueue
  <2>2. Asks(p)'
    BY <1>0, <1>7, Begun, EnqueueFlow DEF Asks, Settled, Arriving
  <2>. QED BY <1>3, <1>4, <1>5, <1>6, <2>1, <2>2
<1>8. ASSUME NEW p \in Procs, FindMergeCandidate(p) \/ CountActivity(p) PROVE ReplyInv'
  <2>1. rows' = rows /\ replies' = replies
    BY <1>8 DEF FindMergeCandidate, CountActivity
  <2>2. job'[p].at \in {"merge", "count", "insert"}
    BY <1>0, <1>8, EnqueueFlow
  <2>3. Asks(p)
    BY DEF ReplyInv
  <2>4. Asks(p)'
    BY <1>0, <1>8, <2>2, <2>3, StillArriving DEF Asks, Settled, Arriving
  <2>. QED BY <1>3, <1>4, <1>5, <1>6, <2>1, <2>4
<1>9. ASSUME NEW p \in Procs, MergeMessage(p) \/ InsertRow(p) PROVE ReplyInv'
  <2>1. Asks(p)' /\ OwnSessions'
    BY <1>9, ArrivalAsks
  <2>2. \A i \in Ids : rows[i].text \subseteq rows'[i].text
    <3>1. PICK i \in Ids : ArrivesIn(i, job[p].msg)
      BY <1>0, <1>9, Arrivals
    <3>. QED BY <3>1 DEF ArrivesIn, OnlyRow
  <2>3. replies' = replies
    BY <1>9 DEF MergeMessage, InsertRow
  <2>. QED BY <1>3, <1>4, <2>1, <2>2, <2>3
<1>10. ASSUME NEW p \in Procs, ReadRowId(p) PROVE ReplyInv'
  <2>1. rows' = rows /\ replies' = replies
    BY <1>10 DEF ReadRowId
  <2>2. \/ job'[p].wait = 0
        \/ p \in Waiters /\ job'[p].wait \in QueuedOf(SessionOf[job[p].msg])
    BY <1>0, <1>10, WaitFlow DEF Enqueue
  <2>3. \A i \in QueuedOf(SessionOf[job[p].msg]) : Unanswered(rows[i].text)
    BY <1>0, LiveUnanswered DEF QueuedOf, Terminal
  <2>4. job'[p].at \in {"cap", "idle"}
    BY <1>0, <1>10, EnqueueFlow
  <2>5. Asks(p)'
    BY <2>1, <2>2, <2>3, <2>4 DEF Asks, Unanswered, Settled, Arriving
  <2>. QED BY <1>3, <1>4, <1>5, <1>6, <2>1, <2>5
<1>11. ASSUME NEW p \in Procs, SendReply(p) \/ CheckResponse(p) PROVE ReplyInv'
  <2>1. rows' = rows
    BY <1>11 DEF SendReply, CheckResponse
  <2>. QED BY <1>4, <1>5, <1>6, <1>11, <2>1, AnswerStep
<1>12. ASSUME NEW p \in Procs, Enqueue(p) \/ Dispatch(p) \/ Crash(p),
              ~FindMergeCandidate(p), ~CountActivity(p), ~MergeMessage(p), ~InsertRow(p),
              ~ReadRowId(p), ~SendReply(p)
       PROVE  ReplyInv'
  <2>1. ShapeKept
    BY <1>0, <1>6, <1>12, Effects, Reads DEF Writes
  <2>2. replies' = replies
    BY <1>12 DEF Enqueue, EnforceCap, WriteAnchor, DropRow, Crash,
         Dispatch, ExpireLeases, ScanStale, RequeueStale, ReleaseStale, CheckLimit, PickPrimary,
         GroupBatch, AcquireLeases, ClaimBatch, StartRun, EndRun, CompleteBatch, ReleaseBatch
  <2>3. /\ job'[p].wait \in {job[p].wait, 0}
        /\ job'[p].at = "wait" => job'[p].wait # 0
    BY <1>0, <1>12, WaitFlow
  <2>4. job'[p].at \notin Arriving \cup {"readid"}
    BY <1>0, <1>12, EnqueueFlow, DispatchFlow DEF Enqueue, Dispatch, Arriving
  <2>5. /\ job'[p].at \in Settled => Unanswered(job'[p].text)
        /\ job'[p].at = "reply" => p \notin Waiters
    <3>1. CASE CompleteBatch(p) \/ ReleaseBatch(p)
      BY <3>1, SettledAsks
    <3>2. CASE ~CompleteBatch(p) /\ ~ReleaseBatch(p)
      BY <1>0, <1>12, <3>2, EnqueueFlow, DispatchFlow DEF Enqueue, Dispatch, Settled
    <3>. QED BY <3>1, <3>2
  <2>6. Asks(p)'
    BY <2>1, <2>2, <2>3, <2>4, <2>5, AsksStill
  <2>. QED BY <1>3, <1>4, <1>5, <2>1, <2>2, <2>6
<1>13. CASE Tick \/ UNCHANGED vars
  <2>1. rows' = rows /\ replies' = replies /\ job' = job
    BY <1>13 DEF Tick, vars
  <2>2. \A p \in Procs : Asks(p)'
    BY <2>1 DEF ReplyInv, Asks, Unanswered
  <2>3. AtMostOneReply' /\ AnswersSettled' /\ OwnSessions'
    BY <1>3, <1>5, <1>6, <2>1
  <2>. QED BY <1>1, <2>2, <2>3 DEF ReplyInv
<1>. QED BY <1>7, <1>8, <1>9, <1>10, <1>11, <1>12, <1>13 DEF Next, Step, Enqueue, Dispatch

\* While one process uses the database, nobody is answered twice, however often the
\* process stops: complete_batch stores the outcome before the reply is sent, and a row
\* with an outcome is never run again.
THEOREM NobodyIsAnsweredTwice ==
  ASSUME OneProcess
  PROVE  Spec => []AtMostOneReply
<1>1. Init => ReplyInv
  <2>. SUFFICES ASSUME Init PROVE ReplyInv
    OBVIOUS
  <2>1. AtMostOneReply /\ AnswersSettled /\ OwnSessions
    BY DEF Init, AbsentRow, AtMostOneReply, AnswersSettled, OwnSessions
  <2>2. \A p \in Procs : Asks(p)
    BY DEF Init, Resting, Asks, Settled, Arriving
  <2>. QED BY <2>1, <2>2, MessageInit DEF ReplyInv
<1>2. ReplyInv => AtMostOneReply
  BY DEF ReplyInv
<1>. QED BY <1>1, <1>2, ReplyStep, PTL DEF Spec

-------------------------------------------------------------------------------
(* The leases respect the global limit.                                    *)

\* Between CheckLimit and the lease there is room for one more.
RoomForOne ==
  \A p \in Procs : job[p].at \in {"pick", "group", "lease"}
    => Cardinality(GlobalLeases) < AtLeastOne(GlobalMax)

LeaseInv == TypeInv /\ IsFiniteSet(leases) /\ LeaseLimit /\ RoomForOne

\* Leases that go away leave at most as many.
LEMMA FewerLeases ==
  ASSUME IsFiniteSet(leases), leases' \subseteq leases
  PROVE  /\ IsFiniteSet(leases')
         /\ Cardinality(GlobalLeases) \in Nat /\ Cardinality(GlobalLeases)' \in Nat
         /\ Cardinality(GlobalLeases)' <= Cardinality(GlobalLeases)
<1>1. /\ IsFiniteSet(leases')
      /\ GlobalLeases \subseteq leases /\ GlobalLeases' \subseteq GlobalLeases
  BY FS_Subset DEF GlobalLeases
<1>2. IsFiniteSet(GlobalLeases)
  BY <1>1, FS_Subset
<1>. QED BY <1>1, <1>2, FS_Subset, FS_CardinalityType

\* AcquireLeases adds one global lease at most.
LEMMA OneLeaseMore ==
  ASSUME IsFiniteSet(leases), NEW p \in Procs, AcquireLeases(p)
  PROVE  /\ IsFiniteSet(leases')
         /\ Cardinality(GlobalLeases) \in Nat
         /\ Cardinality(GlobalLeases)' <= Cardinality(GlobalLeases) + 1
<1>. DEFINE i == job[p].row
            New(scope) == [scope |-> scope, item |-> i, session |-> rows[i].session,
                           expires |-> clock + AtLeastOne(LeaseTimeout)]
<1>1. leases' = WithoutKeys(i) \cup {New("global"), New("session")}
  BY DEF AcquireLeases
<1>2. New("global").scope = "global" /\ New("session").scope = "session"
  OBVIOUS
<1>. HIDE DEF New
<1>3. WithoutKeys(i) \subseteq leases
  BY DEF WithoutKeys
<1>4. IsFiniteSet(leases')
  <2>1. IsFiniteSet(WithoutKeys(i))
    BY <1>3, FS_Subset
  <2>2. IsFiniteSet(WithoutKeys(i) \cup {New("global")})
    BY <2>1, FS_AddElement
  <2>3. leases' = (WithoutKeys(i) \cup {New("global")}) \cup {New("session")}
    BY <1>1
  <2>. QED BY <2>2, <2>3, FS_AddElement
<1>5. GlobalLeases' \subseteq GlobalLeases \cup {New("global")}
  BY <1>1, <1>2, <1>3 DEF GlobalLeases
<1>6. IsFiniteSet(GlobalLeases)
  BY FS_Subset DEF GlobalLeases
<1>7. /\ Cardinality(GlobalLeases) \in Nat
      /\ IsFiniteSet(GlobalLeases \cup {New("global")})
      /\ Cardinality(GlobalLeases \cup {New("global")}) <= Cardinality(GlobalLeases) + 1
  <2>. DEFINE G == GlobalLeases
  <2>1. Cardinality(G) \in Nat
    BY <1>6, FS_CardinalityType
  <2>2. ASSUME NEW l
        PROVE  IsFiniteSet(G \cup {l}) /\ Cardinality(G \cup {l}) <= Cardinality(G) + 1
    <3>. HIDE DEF G
    <3>1. /\ IsFiniteSet(G \cup {l})
          /\ Cardinality(G \cup {l}) = IF l \in G THEN Cardinality(G) ELSE Cardinality(G) + 1
      BY <1>6, FS_AddElement DEF G
    <3>. QED BY <2>1, <3>1
  <2>. QED BY <2>1, <2>2
<1>8. /\ IsFiniteSet(GlobalLeases')
      /\ Cardinality(GlobalLeases') <= Cardinality(GlobalLeases \cup {New("global")})
  BY <1>5, <1>7, FS_Subset
<1>9. /\ Cardinality(GlobalLeases') \in Nat
      /\ Cardinality(GlobalLeases \cup {New("global")}) \in Nat
  BY <1>7, <1>8, FS_CardinalityType
<1>. QED BY <1>4, <1>7, <1>8, <1>9

\* A lease is taken only where there is room for it, and room that was found is not
\* taken by anybody else.
LEMMA LeaseStep ==
  ASSUME OneProcess
  PROVE  LeaseInv /\ [Next]_vars => LeaseInv'
<1>. SUFFICES ASSUME LeaseInv, [Next]_vars PROVE LeaseInv'
  OBVIOUS
<1>. USE DEF tables, history
<1>0. TypeInv /\ IsFiniteSet(leases) /\ LeaseLimit /\ RoomForOne /\ AtLeastOne(GlobalMax) \in Nat
  BY Parameters DEF LeaseInv, AtLeastOne
<1>1. TypeInv'
  BY <1>0, TypeStep
<1>2. ASSUME leases' \subseteq leases, RoomForOne' PROVE LeaseInv'
  BY <1>0, <1>1, <1>2, FewerLeases DEF LeaseInv, LeaseLimit
<1>3. ASSUME NEW p \in Procs, leases' \subseteq leases,
             job'[p].at \in {"pick", "group", "lease"}
               => Cardinality(GlobalLeases) < AtLeastOne(GlobalMax)
      PROVE  LeaseInv'
  <2>1. /\ Cardinality(GlobalLeases)' \in Nat /\ Cardinality(GlobalLeases) \in Nat
        /\ Cardinality(GlobalLeases)' <= Cardinality(GlobalLeases)
    BY <1>0, <1>3, FewerLeases
  <2>2. RoomForOne'
    BY <1>0, <1>3, <2>1 DEF RoomForOne, OneProcess
  <2>. QED BY <1>2, <1>3, <2>2
<1>4. ASSUME NEW p \in Procs, AcquireLeases(p) PROVE LeaseInv'
  <2>1. Cardinality(GlobalLeases) < AtLeastOne(GlobalMax)
    BY <1>0, <1>4 DEF RoomForOne, AcquireLeases, At
  <2>2. /\ IsFiniteSet(leases')
        /\ Cardinality(GlobalLeases) \in Nat
        /\ Cardinality(GlobalLeases)' <= Cardinality(GlobalLeases) + 1
    BY <1>0, <1>4, OneLeaseMore
  <2>3. Cardinality(GlobalLeases)' \in Nat
    <3>1. IsFiniteSet(GlobalLeases)'
      BY <2>2, FS_Subset DEF GlobalLeases
    <3>. QED BY <3>1, FS_CardinalityType
  <2>4. LeaseLimit'
    BY <1>0, <2>1, <2>2, <2>3 DEF LeaseLimit
  <2>5. job'[p].at = "claim"
    BY <1>0, <1>4, DispatchFlow
  <2>6. RoomForOne'
    BY <2>5 DEF RoomForOne, OneProcess
  <2>. QED BY <1>1, <2>2, <2>4, <2>6 DEF LeaseInv
<1>5. ASSUME NEW p \in Procs, CheckLimit(p) PROVE LeaseInv'
  <2>1. leases' \subseteq leases
    BY <1>5 DEF CheckLimit
  <2>2. IsFiniteSet(GlobalLeases)
    BY <1>0, FS_Subset DEF GlobalLeases
  <2>3. Cardinality(GlobalLeases) \in Nat
    BY <2>2, FS_CardinalityType
  <2>4. CASE AtLimit
    <3>1. job'[p].at \in {"idle", "wait"}
      BY <1>0, <1>5, <2>4, EnqueueFlow DEF CheckLimit
    <3>. QED BY <1>3, <2>1, <3>1
  <2>5. CASE ~AtLimit
    BY <1>0, <1>3, <2>1, <2>3, <2>5 DEF AtLimit
  <2>. QED BY <2>4, <2>5
<1>6. ASSUME NEW p \in Procs, PickPrimary(p) \/ GroupBatch(p) PROVE LeaseInv'
  <2>1. leases' \subseteq leases
    BY <1>6 DEF PickPrimary, GroupBatch
  <2>2. Cardinality(GlobalLeases) < AtLeastOne(GlobalMax)
    BY <1>0, <1>6 DEF RoomForOne, PickPrimary, GroupBatch, At
  <2>. QED BY <1>3, <2>1, <2>2
<1>7. ASSUME NEW p \in Procs,
             BeginEnqueue(p) \/ Enqueue(p) \/ Dispatch(p) \/ CheckResponse(p) \/ Crash(p),
             ~AcquireLeases(p), ~CheckLimit(p), ~PickPrimary(p), ~GroupBatch(p)
      PROVE  LeaseInv'
  <2>1. leases' \subseteq leases
    BY <1>7 DEF BeginEnqueue, Enqueue, FindMergeCandidate, MergeMessage, CountActivity, InsertRow,
         ReadRowId, EnforceCap, WriteAnchor, DropRow, CheckResponse, Crash,
         Dispatch, ExpireLeases, ScanStale, RequeueStale, ReleaseStale, WithoutKeys,
         ClaimBatch, StartRun, EndRun, CompleteBatch, ReleaseBatch, SendReply
  <2>2. job'[p].at \notin {"pick", "group", "lease"}
    BY <1>0, <1>7, EnqueueFlow, DispatchFlow DEF Enqueue, Dispatch
  <2>. QED BY <1>3, <2>1, <2>2
<1>8. CASE Tick \/ UNCHANGED vars
  <2>1. leases' = leases /\ job' = job
    BY <1>8 DEF Tick, vars
  <2>2. RoomForOne'
    BY <1>0, <2>1 DEF RoomForOne, GlobalLeases
  <2>. QED BY <1>2, <2>1, <2>2
<1>. QED BY <1>4, <1>5, <1>6, <1>7, <1>8 DEF Next, Step, Dispatch

\* While one process uses the database, the global leases never exceed
\* global_max_concurrency, those that stopped processes left behind included: what
\* global_running_count counted is still so when AcquireLeases inserts.
THEOREM LeasesAreLimited ==
  ASSUME OneProcess
  PROVE  Spec => []LeaseLimit
<1>1. Init => LeaseInv
  <2>. SUFFICES ASSUME Init PROVE LeaseInv
    OBVIOUS
  <2>1. leases = {} /\ GlobalLeases = {}
    BY DEF Init, GlobalLeases
  <2>2. IsFiniteSet(leases) /\ LeaseLimit
    BY <2>1, FS_EmptySet, Parameters DEF LeaseLimit, AtLeastOne
  <2>3. RoomForOne
    BY DEF Init, Resting, RoomForOne
  <2>. QED BY <2>2, <2>3, TypeInit DEF LeaseInv
<1>2. LeaseInv => LeaseLimit
  BY DEF LeaseInv
<1>. QED BY <1>1, <1>2, LeaseStep, PTL DEF Spec

-------------------------------------------------------------------------------
(* The queue keeps its promise.                                            *)

\* The phase of a message in a row of that status.
PhaseOf(status) ==
  CASE status \in {"done", "failed"} -> "settled"
    [] status = "running" -> "claimed"
    [] status = "queued" -> "waiting"
    [] status = "dropped" -> "summarised"
    [] OTHER -> "new"

\* The phase of a message in a table.
PhaseIn(m, table) ==
  LET statuses == {table[i].status : i \in {j \in Ids : m \in table[j].text}}
  IN CASE statuses \cap {"done", "failed"} # {} -> "settled"
       [] "running" \in statuses -> "claimed"
       [] "queued" \in statuses -> "waiting"
       [] "dropped" \in statuses -> "summarised"
       [] OTHER -> "new"

\* The one row that holds a message says its phase.
LEMMA PhaseHeld ==
  ASSUME NEW table, NEW m, NEW i \in Ids, m \in table[i].text,
         \A k \in Ids : m \in table[k].text => k = i
  PROVE  PhaseIn(m, table) = PhaseOf(table[i].status)
<1>. DEFINE statuses == {table[k].status : k \in {j \in Ids : m \in table[j].text}}
<1>1. statuses = {table[i].status}
  OBVIOUS
<1>2. PhaseIn(m, table) = CASE statuses \cap {"done", "failed"} # {} -> "settled"
                            [] "running" \in statuses -> "claimed"
                            [] "queued" \in statuses -> "waiting"
                            [] "dropped" \in statuses -> "summarised"
                            [] OTHER -> "new"
  BY DEF PhaseIn
<1>. HIDE DEF statuses
<1>3. /\ statuses \cap {"done", "failed"} # {} <=> table[i].status \in {"done", "failed"}
      /\ \A s : s \in statuses <=> table[i].status = s
  BY <1>1
<1>. QED BY <1>2, <1>3 DEF PhaseOf

\* A message that no row holds is new.
LEMMA PhaseNowhere ==
  ASSUME NEW table, NEW m, \A i \in Ids : m \notin table[i].text
  PROVE  PhaseIn(m, table) = "new"
<1>1. {table[i].status : i \in {j \in Ids : m \in table[j].text}} = {}
  OBVIOUS
<1>. QED BY <1>1 DEF PhaseIn

\* Before and after a step the phases are those in the table.
LEMMA PhaseTables ==
  /\ \A m : Phase(m) = PhaseIn(m, rows)
  /\ \A m : Phase(m)' = PhaseIn(m, rows')
BY DEF Phase, PhaseIn

\* The batch is that of the process, if it is at work.
LEMMA BatchOfOne ==
  ASSUME OneProcess, NEW p \in Procs
  PROVE  /\ job[p].at \in {"claimed", "running", "complete"} => Batch = TextOf(job[p].ids)
         /\ job[p].at \notin {"claimed", "running", "complete"} => Batch = {}
         /\ job'[p].at \in {"claimed", "running", "complete"} => Batch' = TextIn(job'[p].ids, rows')
         /\ job'[p].at \notin {"claimed", "running", "complete"} => Batch' = {}
<1>1. \A q \in Procs : q = p
  BY DEF OneProcess
<1>2. /\ job[p].at \in {"claimed", "running", "complete"} => AtWork = {p}
      /\ job[p].at \notin {"claimed", "running", "complete"} => AtWork = {}
      /\ job'[p].at \in {"claimed", "running", "complete"} => AtWork' = {p}
      /\ job'[p].at \notin {"claimed", "running", "complete"} => AtWork' = {}
  BY <1>1 DEF AtWork
<1>3. Batch' = UNION {TextIn(job'[q].ids, rows') : q \in AtWork'}
  BY DEF Batch, TextOf, TextIn
<1>. QED BY <1>2, <1>3 DEF Batch

-------------------------------------------------------------------------------

\* A new message that begins to wait: Accept, seen from the queue.
LEMMA Accepts ==
  ASSUME NEW m \in Messages, Phase(m) = "new", Phase(m)' = "waiting",
         \A n \in Messages : n # m => Phase(n)' = Phase(n), Batch' = Batch
  PROVE  Promise!Next
<1>1. [n \in Messages |-> Phase(n)]' = [[n \in Messages |-> Phase(n)] EXCEPT ![m] = "waiting"]
  OBVIOUS
<1>2. Promise!Accept(m)
  BY <1>1 DEF Promise!Accept, PhaseMap
<1>. QED BY <1>2 DEF Promise!Next

\* All messages of a set move on, and no other.
Moves(S, ph) == \A n \in Messages : Phase(n)' = IF n \in S THEN ph ELSE Phase(n)

\* Waiting messages of one session that become the batch: Claim.
LEMMA Claims ==
  ASSUME Batch = {}, Batch' # {}, Batch' \subseteq Messages,
         \A m, n \in Batch' : SessionOf[m] = SessionOf[n],
         \A m \in Batch' : Phase(m) = "waiting", Moves(Batch', "claimed")
  PROVE  Promise!Next
<1>1. Promise!Claim
  <2>1. Promise!OfOneSession(Batch')
    BY DEF Promise!OfOneSession
  <2>2. Batch' \subseteq Promise!In("waiting")
    BY DEF Promise!In, PhaseMap
  <2>3. Promise!Move(Batch', "claimed")
    BY DEF Promise!Move, PhaseMap, Moves
  <2>. QED BY <2>1, <2>2, <2>3 DEF Promise!Claim
<1>. QED BY <1>1 DEF Promise!Next

\* The whole batch that gets its outcome: Settle.
LEMMA Settles ==
  ASSUME Batch # {}, Batch' = {}, Moves(Batch, "settled")
  PROVE  Promise!Next
<1>1. Promise!Move(Batch, "settled")
  BY DEF Promise!Move, PhaseMap, Moves
<1>2. Promise!Settle
  BY <1>1 DEF Promise!Settle
<1>. QED BY <1>2 DEF Promise!Next

\* A batch that nobody works on any more: Abandon.
LEMMA Abandons ==
  ASSUME Batch # {}, Batch' = {}, \A n \in Messages : Phase(n)' = Phase(n)
  PROVE  Promise!Next
<1>1. Promise!Abandon
  BY DEF Promise!Abandon, PhaseMap
<1>. QED BY <1>1 DEF Promise!Next

\* Claimed messages of one session, not in the batch, that wait again: Return.
LEMMA Returns ==
  ASSUME NEW S \in SUBSET Messages, S # {}, \A m, n \in S : SessionOf[m] = SessionOf[n],
         \A m \in S : Phase(m) = "claimed", S \cap Batch = {}, Moves(S, "waiting"), Batch' = Batch
  PROVE  Promise!Next
<1>1. S \in (SUBSET (Promise!In("claimed") \ Batch)) \ {{}}
  BY DEF Promise!In, PhaseMap
<1>2. Promise!OfOneSession(S)
  BY DEF Promise!OfOneSession
<1>3. Promise!Move(S, "waiting")
  BY DEF Promise!Move, PhaseMap, Moves
<1>4. Promise!Return
  BY <1>1, <1>2, <1>3 DEF Promise!Return
<1>. QED BY <1>4 DEF Promise!Next

\* Waiting messages that are given up beside one of their session that waits on:
\* Summarise.
LEMMA Summarises ==
  ASSUME NEW S \in SUBSET Messages, S # {}, NEW heir \in Messages \ S,
         \A m, n \in S \cup {heir} : SessionOf[m] = SessionOf[n],
         Phase(heir) = "waiting", \A m \in S : Phase(m) = "waiting",
         Moves(S, "summarised"), Batch' = Batch
  PROVE  Promise!Next
<1>1. heir \in Promise!In("waiting") /\ S \in (SUBSET (Promise!In("waiting") \ {heir})) \ {{}}
  BY DEF Promise!In, PhaseMap
<1>2. Promise!OfOneSession(S \cup {heir})
  BY DEF Promise!OfOneSession
<1>3. Promise!Move(S, "summarised")
  BY DEF Promise!Move, PhaseMap, Moves
<1>4. Promise!Summarise
  BY <1>1, <1>2, <1>3 DEF Promise!Summarise
<1>. QED BY <1>4 DEF Promise!Next

\* Nothing that InboxPromise sees.
LEMMA Stutters ==
  ASSUME \A n \in Messages : Phase(n)' = Phase(n), Batch' = Batch
  PROVE  UNCHANGED Promise!vars
BY DEF Promise!vars, PhaseMap

-------------------------------------------------------------------------------

\* The row that holds a message says its phase, before a step and after it.
LEMMA PhaseOfRow ==
  ASSUME NEW m, NEW i \in Ids
  PROVE  /\ OneRowEach /\ m \in rows[i].text => Phase(m) = PhaseOf(rows[i].status)
         /\ OneRowEach' /\ m \in rows'[i].text => Phase(m)' = PhaseOf(rows'[i].status)
<1>1. ASSUME OneRowEach, m \in rows[i].text PROVE Phase(m) = PhaseOf(rows[i].status)
  <2>1. \A k \in Ids : m \in rows[k].text => k = i
    BY <1>1 DEF OneRowEach
  <2>. QED BY <1>1, <2>1, PhaseHeld, PhaseTables
<1>2. ASSUME OneRowEach', m \in rows'[i].text PROVE Phase(m)' = PhaseOf(rows'[i].status)
  <2>1. \A k \in Ids : m \in rows'[k].text => k = i
    BY <1>2 DEF OneRowEach
  <2>2. PhaseIn(m, rows') = PhaseOf(rows'[i].status)
    BY <1>2, <2>1, PhaseHeld
  <2>. QED BY <2>2, PhaseTables
<1>. QED BY <1>1, <1>2

\* A message whose rows keep their status keeps its phase.
LEMMA PhaseStays ==
  ASSUME NEW m, \A i \in Ids : /\ m \in rows'[i].text <=> m \in rows[i].text
                               /\ m \in rows[i].text => rows'[i].status = rows[i].status
  PROVE  Phase(m)' = Phase(m)
<1>1. {rows'[i].status : i \in {j \in Ids : m \in rows'[j].text}}
        = {rows[i].status : i \in {j \in Ids : m \in rows[j].text}}
  OBVIOUS
<1>. QED BY <1>1 DEF Phase

\* When only the rows of ids get another status, only their messages move on.
LEMMA RowsMove ==
  ASSUME OneRowEach', ShapeKept, NEW ids \in SUBSET Ids, OnlyRows(ids), NEW phase,
         \A i \in ids : PhaseOf(rows'[i].status) = phase
  PROVE  Moves(TextOf(ids), phase)
<1>1. ASSUME NEW n \in TextOf(ids) PROVE Phase(n)' = phase
  <2>1. PICK i \in ids : n \in rows[i].text
    BY DEF TextOf
  <2>2. n \in rows'[i].text
    BY <2>1 DEF ShapeKept
  <2>. QED BY <2>1, <2>2, PhaseOfRow
<1>2. ASSUME NEW n, n \notin TextOf(ids) PROVE Phase(n)' = Phase(n)
  <2>1. \A i \in Ids : n \in rows[i].text => rows'[i].status = rows[i].status
    BY <1>2 DEF TextOf, OnlyRows
  <2>. QED BY <2>1, PhaseStays DEF ShapeKept
<1>. QED BY <1>1, <1>2 DEF Moves

\* The names of the phases that rows give to messages.
LEMMA PhaseNames ==
  /\ PhaseOf("queued") = "waiting" /\ PhaseOf("running") = "claimed"
  /\ PhaseOf("dropped") = "summarised"
  /\ \A status \in {"done", "failed"} : PhaseOf(status) = "settled"
BY DEF PhaseOf

\* The rows a process is about to claim or works on hold messages, of one session.
LEMMA BatchHeld ==
  ASSUME MessageInv, NEW p \in Procs, job[p].at \in Batched
  PROVE  /\ job[p].ids \in SUBSET Ids
         /\ TextOf(job[p].ids) \in (SUBSET Messages) \ {{}}
         /\ \A m, n \in TextOf(job[p].ids) : SessionOf[m] = SessionOf[n]
<1>1. /\ rows \in [Ids -> Row] /\ job[p].ids \in SUBSET Ids
      /\ Carries(job[p], rows) /\ Snapshot(job[p], rows) /\ RowsOfMessages
  BY DEF MessageInv, CarryInv, FinalInv, TypeInv, TypeOK, Job
<1>2. /\ job[p].row \in job[p].ids
      /\ \A i \in job[p].ids : rows[i].session = rows[job[p].row].session
  BY <1>1 DEF Carries, OfSession
<1>3. rows[job[p].row].status \in {"queued", "running"}
  BY <1>1, <1>2 DEF Batched, Snapshot, RowsAre
<1>4. rows[job[p].row].text # {}
  BY <1>1, <1>2, <1>3 DEF RowsOfMessages
<1>5. TextOf(job[p].ids) \subseteq Messages
  BY <1>1 DEF TextOf, Row
<1>6. TextOf(job[p].ids) # {}
  BY <1>2, <1>4 DEF TextOf
<1>7. \A m \in TextOf(job[p].ids) : SessionOf[m] = rows[job[p].row].session
  BY <1>1, <1>2 DEF TextOf, RowsOfMessages
<1>. QED BY <1>1, <1>5, <1>6, <1>7

\* Where a process works on its batch.
Working == {"claimed", "running", "complete"}

\* Every step of the queue is a step of the promise, or none: a merge and an insert
\* accept, a claim claims, an outcome settles, a crash during the run abandons,
\* recovery returns one row, and the cap summarises one row beside the one that it
\* anchors the summary to.
LEMMA PromiseStep ==
  ASSUME OneProcess, MessageInv, [Next]_vars
  PROVE  Promise!Next \/ UNCHANGED Promise!vars
<1>. USE DEF tables, history
<1>0. /\ CarryInv /\ TypeInv /\ OneRowEach /\ RowsOfMessages /\ NotArrived /\ AbsentRowsEmpty
      /\ rows \in [Ids -> Row] /\ OneRowEach'
  BY MessageStep DEF MessageInv, CarryInv, FinalInv, RowsOfMessages, AbsentRowsEmpty, TypeInv, TypeOK
<1>1. ASSUME rows' = rows PROVE \A n \in Messages : Phase(n)' = Phase(n)
  BY <1>1, PhaseStays
<1>2. ASSUME NEW p \in Procs, job[p].at \notin Working, job'[p].at \notin Working
      PROVE  Batch = {} /\ Batch' = {}
  BY <1>2, BatchOfOne DEF Working
<1>3. ASSUME NEW p \in Procs, MergeMessage(p) \/ InsertRow(p) PROVE Promise!Next
  <2>1. PICK i \in Ids : ArrivesIn(i, job[p].msg)
    BY <1>0, <1>3, Arrivals
  <2>2. PICK m \in Messages : m = job[p].msg /\ ArrivesIn(i, m) /\ Nowhere(m)
    BY <1>0, <1>3, <2>1 DEF ArrivesIn, NotArrived, MergeMessage, InsertRow, At, Arriving
  <2>3. Phase(m) = "new"
    BY <2>2, PhaseNowhere, PhaseTables DEF Nowhere
  <2>4. Phase(m)' = "waiting"
    BY <1>0, <2>2, PhaseOfRow, PhaseNames DEF ArrivesIn
  <2>5. ASSUME NEW n \in Messages, n # m PROVE Phase(n)' = Phase(n)
    <3>1. \A k \in Ids : n \in rows'[k].text <=> n \in rows[k].text
      BY <2>2, <2>5 DEF ArrivesIn, OnlyRow
    <3>2. \A k \in Ids : n \in rows[k].text => rows'[k].status = rows[k].status
      BY <1>0, <2>2 DEF ArrivesIn, OnlyRow, AbsentRowsEmpty
    <3>. QED BY <3>1, <3>2, PhaseStays
  <2>6. Batch = {} /\ Batch' = {}
    BY <1>0, <1>2, <1>3, EnqueueFlow DEF MergeMessage, InsertRow, At, Working
  <2>. QED BY <2>2, <2>3, <2>4, <2>5, <2>6, Accepts
<1>4. ASSUME NEW p \in Procs, ClaimBatch(p) PROVE Promise!Next
  <2>. DEFINE ids == job[p].ids
  <2>1. job[p].at = "claim" /\ job'[p].at = "claimed" /\ job'[p].ids = ids
    BY <1>0, <1>4, Went, DispatchFlow, PlaceNames DEF ClaimBatch, At
  <2>2. /\ ids \in SUBSET Ids /\ TextOf(ids) \in (SUBSET Messages) \ {{}}
        /\ \A m, n \in TextOf(ids) : SessionOf[m] = SessionOf[n]
    BY <2>1, BatchHeld DEF Batched
  <2>3. /\ OnlyRows(ids) /\ ShapeKept
        /\ RowsAre(ids, "queued", rows) /\ RowsAre(ids, "running", rows')
    BY <1>0, <1>4, Effects
  <2>4. Batch = {} /\ Batch' = TextIn(job'[p].ids, rows')
    BY <2>1, BatchOfOne
  <2>. HIDE DEF ids
  <2>5. TextIn(job'[p].ids, rows') = TextOf(ids)
    BY <2>1, <2>2, <2>3 DEF TextIn, TextOf, ShapeKept
  <2>6. ASSUME NEW m \in TextOf(ids) PROVE Phase(m) = "waiting"
    <3>1. PICK i \in ids : m \in rows[i].text
      BY DEF TextOf
    <3>. QED BY <1>0, <2>2, <2>3, <3>1, PhaseOfRow, PhaseNames DEF RowsAre
  <2>7. Moves(TextOf(ids), "claimed")
    <3>1. \A i \in ids : PhaseOf(rows'[i].status) = "claimed"
      BY <2>3, PhaseNames DEF RowsAre
    <3>. QED BY <1>0, <2>2, <2>3, <3>1, RowsMove
  <2>8. Batch' = TextOf(ids)
    BY <2>4, <2>5
  <2>9. Moves(Batch', "claimed")
    BY <2>7, <2>8 DEF Moves
  <2>. QED BY <2>2, <2>4, <2>6, <2>8, <2>9, Claims
<1>5. ASSUME NEW p \in Procs, CompleteBatch(p) PROVE Promise!Next
  <2>. DEFINE ids == job[p].ids
  <2>1. job[p].at = "complete" /\ job'[p].at = "release"
    BY <1>0, <1>5, DispatchFlow DEF CompleteBatch, At
  <2>2. ids \in SUBSET Ids /\ TextOf(ids) # {}
    BY <2>1, BatchHeld DEF Batched
  <2>3. Batch = TextOf(ids) /\ Batch' = {}
    BY <2>1, BatchOfOne
  <2>4. Moves(TextOf(ids), "settled")
    <3>1. OnlyRows(ids) /\ ShapeKept /\ \A i \in ids : PhaseOf(rows'[i].status) = "settled"
      BY <1>0, <1>5, Effects, PhaseNames
    <3>. HIDE DEF ids
    <3>. QED BY <1>0, <2>2, <3>1, RowsMove
  <2>5. Moves(Batch, "settled")
    BY <2>3, <2>4 DEF Moves
  <2>. QED BY <2>2, <2>3, <2>5, Settles
<1>6. ASSUME NEW p \in Procs, Crash(p) PROVE Promise!Next \/ UNCHANGED Promise!vars
  <2>1. job'[p].at = "idle" /\ rows' = rows
    BY <1>0, <1>6, DispatchFlow DEF Crash
  <2>2. CASE job[p].at \in Working
    <3>1. Batch = TextOf(job[p].ids) /\ Batch' = {} /\ TextOf(job[p].ids) # {}
      BY <2>1, <2>2, BatchOfOne, BatchHeld DEF Working, Batched
    <3>. QED BY <1>1, <2>1, <3>1, Abandons
  <2>3. CASE job[p].at \notin Working
    <3>1. Batch = {} /\ Batch' = {}
      BY <1>2, <2>1, <2>3 DEF Working
    <3>. QED BY <1>1, <2>1, <3>1, Stutters
  <2>. QED BY <2>2, <2>3
<1>7. ASSUME NEW p \in Procs, RequeueStale(p) PROVE Promise!Next
  <2>1. PICK i \in job[p].ids :
          /\ i \in Ids /\ OnlyRow(i) /\ ShapeKept
          /\ rows[i].status = "running" /\ rows'[i].status = "queued"
    BY <1>0, <1>7, Effects
  <2>. DEFINE S == TextOf({i})
  <2>2. /\ S = rows[i].text /\ S # {} /\ S \in SUBSET Messages
        /\ \A m, n \in S : SessionOf[m] = SessionOf[n]
    BY <1>0, <2>1 DEF TextOf, RowsOfMessages, Row
  <2>3. Batch = {} /\ Batch' = {}
    BY <1>0, <1>2, <1>7, DispatchFlow DEF RequeueStale, At, Working
  <2>4. Moves(S, "waiting")
    BY <1>0, <2>1, RowsMove, PhaseNames DEF OnlyRows, OnlyRow
  <2>5. \A m \in S : Phase(m) = "claimed"
    BY <1>0, <2>1, <2>2, PhaseOfRow, PhaseNames
  <2>. HIDE DEF S
  <2>. QED BY <2>2, <2>3, <2>4, <2>5, Returns
<1>8. ASSUME NEW p \in Procs, DropRow(p) PROVE Promise!Next
  <2>1. PICK i \in job[p].ids :
          /\ i \in Ids /\ OnlyRow(i) /\ ShapeKept
          /\ rows[i].status = "queued" /\ rows'[i].status = "dropped"
    BY <1>0, <1>8, Effects
  <2>. DEFINE anchor == job[p].row
              S == TextOf({i})
  <2>2. /\ anchor \in Ids \ {i} /\ rows[anchor].status = "queued"
        /\ rows[i].session = rows[anchor].session
    BY <1>0, <1>8, <2>1 DEF CarryInv, Carries, DropRow, At, Dropping, OfSession
  <2>3. PICK heir \in rows[anchor].text : heir \in Messages
    BY <1>0, <2>2 DEF RowsOfMessages, Row
  <2>a. S = rows[i].text
    BY DEF TextOf
  <2>b. S # {} /\ S \in SUBSET Messages
    <3>1. rows[i].text # {}
      BY <1>0, <2>1 DEF RowsOfMessages
    <3>2. rows[i].text \in SUBSET Messages
      BY <1>0, <2>1 DEF Row
    <3>. QED BY <2>a, <3>1, <3>2
  <2>c. \A m \in S \cup {heir} : SessionOf[m] = rows[i].session
    BY <1>0, <2>1, <2>2, <2>3, <2>a DEF RowsOfMessages
  <2>4. /\ S = rows[i].text /\ S # {} /\ S \in SUBSET Messages
        /\ \A m \in S \cup {heir} : SessionOf[m] = rows[i].session
    BY <2>a, <2>b, <2>c
  <2>5. heir \notin S
    BY <1>0, <2>1, <2>2, <2>3, <2>4 DEF OneRowEach
  <2>6. Batch = {} /\ Batch' = {}
    BY <1>0, <1>2, <1>8, EnqueueFlow DEF DropRow, At, Working
  <2>7. Moves(S, "summarised")
    BY <1>0, <2>1, RowsMove, PhaseNames DEF OnlyRows, OnlyRow
  <2>8. Phase(heir) = "waiting" /\ \A m \in S : Phase(m) = "waiting"
    BY <1>0, <2>1, <2>2, <2>3, <2>4, PhaseOfRow, PhaseNames
  <2>. HIDE DEF S
  <2>. QED BY <2>3, <2>4, <2>5, <2>6, <2>7, <2>8, Summarises
<1>9. ASSUME NEW p \in Procs, WriteAnchor(p) PROVE UNCHANGED Promise!vars
  <2>1. ShapeKept /\ StatusesKept
    BY <1>0, <1>9, Effects
  <2>2. \A n \in Messages : Phase(n)' = Phase(n)
    BY <2>1, PhaseStays DEF ShapeKept, StatusesKept
  <2>3. Batch = {} /\ Batch' = {}
    BY <1>0, <1>2, <1>9, EnqueueFlow DEF WriteAnchor, At, Working
  <2>. QED BY <2>2, <2>3, Stutters
<1>10. ASSUME NEW p \in Procs, StartRun(p) \/ EndRun(p) PROVE UNCHANGED Promise!vars
  <2>1. job[p].at \in Working /\ job'[p].at \in Working /\ rows' = rows
    BY <1>0, <1>10, DispatchFlow DEF StartRun, EndRun, At, Working
  <2>2. job'[p].ids = job[p].ids
    <3>1. CASE StartRun(p)
      BY <1>0, <3>1, Went, PlaceNames DEF StartRun
    <3>2. CASE EndRun(p)
      <4>. DEFINE Ended(ok) == [job[p] EXCEPT !.at = "complete", !.ok = ok]
      <4>1. \A ok : Ended(ok).ids = job[p].ids
        BY <1>0 DEF TypeInv, TypeOK, Job
      <4>2. \E ok : Becomes(p, Ended(ok))
        BY <3>2 DEF EndRun
      <4>. HIDE DEF Ended
      <4>. QED BY <1>0, <4>1, <4>2, Moved
    <3>. QED BY <1>10, <3>1, <3>2
  <2>3. Batch' = Batch
    <3>1. Batch = TextOf(job[p].ids) /\ Batch' = TextIn(job'[p].ids, rows')
      BY <2>1, BatchOfOne DEF Working
    <3>2. TextIn(job'[p].ids, rows') = TextOf(job[p].ids)
      BY <2>1, <2>2 DEF TextIn, TextOf
    <3>. QED BY <3>1, <3>2
  <2>. QED BY <1>1, <2>1, <2>3, Stutters
<1>11. ASSUME NEW p \in Procs, ~Writes(p), ~StartRun(p), ~EndRun(p),
              BeginEnqueue(p) \/ Enqueue(p) \/ Dispatch(p) \/ CheckResponse(p)
       PROVE  UNCHANGED Promise!vars
  <2>1. rows' = rows
    BY <1>11, Reads
  <2>2. job[p].at \notin Working
    BY <1>11 DEF Working, Writes, At, BeginEnqueue, Enqueue, Dispatch, CheckResponse,
         FindMergeCandidate, CountActivity, ReadRowId, EnforceCap, ExpireLeases, ScanStale,
         ReleaseStale, CheckLimit, PickPrimary, GroupBatch, AcquireLeases, ReleaseBatch, SendReply
  <2>3. job'[p].at \notin Working
    BY <1>0, <1>11, EnqueueFlow, DispatchFlow DEF Working, Writes, Enqueue, Dispatch
  <2>. QED BY <1>1, <1>2, <2>1, <2>2, <2>3, Stutters
<1>12. CASE Tick \/ UNCHANGED vars
  <2>1. rows' = rows /\ job' = job
    BY <1>12 DEF Tick, vars
  <2>2. Batch' = Batch
    BY <2>1 DEF Batch, AtWork, TextOf
  <2>. QED BY <1>1, <2>1, <2>2, Stutters
<1>13. ASSUME NEW p \in Procs, BeginEnqueue(p) \/ Step(p) \/ Crash(p)
       PROVE  Promise!Next \/ UNCHANGED Promise!vars
  BY <1>3, <1>4, <1>5, <1>6, <1>7, <1>8, <1>9, <1>10, <1>11, <1>13 DEF Step, Writes
<1>. QED BY <1>12, <1>13 DEF Next

\* In an empty database every message is new and no batch is worked on.
LEMMA PromiseInit == Init => Promise!Init
<1>. SUFFICES ASSUME Init PROVE Promise!Init
  OBVIOUS
<1>1. \A m : \A i \in Ids : m \notin rows[i].text
  BY DEF Init, AbsentRow
<1>2. \A m : Phase(m) = "new"
  BY <1>1, PhaseNowhere, PhaseTables
<1>3. Batch = {}
  BY DEF Init, Resting, Batch, AtWork
<1>. QED BY <1>2, <1>3 DEF Promise!Init, PhaseMap

\* The inbound queue, with one process that may stop anywhere, implements InboxPromise
\* (enqueue_request, dispatch_due_once and recover_stale_leases, statement by statement).
THEOREM QueueKeepsPromise ==
  ASSUME OneProcess
  PROVE  Spec => KeepsPromise
<1>1. Init => MessageInv /\ Promise!Init
  BY MessageInit, PromiseInit
<1>2. MessageInv /\ [Next]_vars => MessageInv'
  BY MessageStep
<1>3. MessageInv /\ [Next]_vars => [Promise!Next]_(Promise!vars)
  BY PromiseStep
<1>. QED BY <1>1, <1>2, <1>3, PTL DEF Spec, KeepsPromise, Promise!Spec
===============================================================================
