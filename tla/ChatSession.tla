---------------------------- MODULE ChatSession ----------------------------
(***************************************************************************)
(* Chats on one session: run_chat_session_with_session (core/service.rs)   *)
(* with the turns it records, the summaries and the compaction             *)
(* (core/memory.rs, core/context.rs) and the state of the session          *)
(* (core/session.rs).                                                      *)
(*                                                                         *)
(* Nothing but the inbound queue keeps two chats of a session apart: a     *)
(* chat on the command line, or on Telegram with the queue disabled, runs  *)
(* beside a queued one, and so does `assistant summarize`.  Every action   *)
(* is one statement of SQLite or one access to a file, with the local work *)
(* before it.  A turn is known by its id; its text is left out, and with   *)
(* it the token estimate, which may be above its threshold at any time.    *)
(***************************************************************************)
EXTENDS Reply, Integers, FiniteSets

CONSTANTS
  Queued,        \* chats run by the queue, which stores how they ended
  Direct,        \* chats of the command line
  Summarizers,   \* assistant summarize, or the job of that name
  CompactAfter,  \* memory.compact_after_turns
  Retain,        \* memory.retain_recent_turns
  Quotes,        \* how many turns of each role a summary quotes: three
  MaxRuns,       \* bound of the model: how many chats and summaries there are
  MaxFaults      \* bound of the model: how many of them fail or are stopped

Chats == Queued \cup Direct

Processes == Chats \cup Summarizers

ASSUME ChatAssumption ==
  /\ Queued \cap Direct = {} /\ Chats \cap Summarizers = {}
  /\ {CompactAfter, Quotes} \subseteq Nat \ {0}
  /\ {Retain, MaxRuns, MaxFaults} \subseteq Nat

VARIABLES
  turns,       \* table conversation_turns: role of each id that is there
  nextId,      \* its AUTOINCREMENT
  transcript,  \* data/conversations/<session>.md: the ids it holds
  state,       \* sessions.state
  quoted,      \* the ids quoted by a summary in table memories
  process,     \* where each process is, and what it knows
  runs,        \* how many were started
  faults,      \* how many failed or were stopped
  disturbed    \* history: a chat failed, was stopped, or ran beside another

vars == <<turns, nextId, transcript, state, quoted, process, runs, faults, disturbed>>

\* AUTOINCREMENT starts at 1 and gives no id again.
Ids == Nat \ {0}

Turn == [id: Ids, role: {"user", "assistant"}]

IdsOf(rows) == {t.id : t \in rows}

States == {"none", "idle", "thinking", "acting", "responding", "failed"}

Replies == {Says("none")} \cup UNION {Answers[ask] : ask \in Asks}

NoAnswer == [ask |-> "none", text |-> Says("none")]

Process ==
  [at: {"off", "opened", "thinking", "copying", "emptying", "writing", "planning", "acting",
        "responding", "counting", "recounting", "reading", "remembering", "filing", "deleting",
        "resting", "completing", "failing"},
   turn: Turn \cup {<<>>},             \* the turn on its way to the transcript
   copy: SUBSET Ids,                   \* the transcript as it was read
   quotes: SUBSET Ids,                 \* what the summary quotes
   answer: [ask: Asks \cup {"none"}, text: Replies]]

Off == [at |-> "off", turn |-> <<>>, copy |-> {}, quotes |-> {}, answer |-> NoAnswer]

At(p, place) == process[p].at = place

Goes(p, place) == process' = [process EXCEPT ![p].at = place]

Running(p) == ~At(p, "off")

Init ==
  /\ turns = {}
  /\ nextId = 1
  /\ transcript = {}
  /\ state = "none"
  /\ quoted = {}
  /\ process = [p \in Processes |-> Off]
  /\ runs = 0
  /\ faults = 0
  /\ disturbed = FALSE

-------------------------------------------------------------------------------
(* The turns of a session.                                                 *)

\* mutant: compaction keeps the oldest turns
Oldest(rows, n) == {t \in rows : Cardinality({s \in rows : s.id < t.id}) < n}

\* The newest n rows: ORDER BY id DESC LIMIT n.
Newest(rows, n) == {t \in rows : Cardinality({s \in rows : s.id > t.id}) < n}

\* The first rows of a role, and of both: what summarize_session quotes.
FirstOf(rows, role) ==
  {t \in rows : t.role = role /\ Cardinality({s \in rows : s.role = role /\ s.id < t.id}) < Quotes}

QuotedOf(rows) == IdsOf(FirstOf(rows, "user") \cup FirstOf(rows, "assistant"))

\* mutant: a turn is numbered by how many there are
InsertByCount(p, role) ==
  LET turn == [id |-> Cardinality(turns) + 1, role |-> role]
  IN  /\ turns' = turns \cup {turn}
      /\ nextId' = nextId + 1
      /\ process' = [process EXCEPT ![p] = [Off EXCEPT !.at = "copying", !.turn = turn]]

\* record_turn, its INSERT: the turn is in the table before the transcript.
Insert(p, role) ==
  LET turn == [id |-> nextId, role |-> role]
  IN  /\ turns' = turns \cup {turn}
      /\ nextId' = nextId + 1
      /\ process' = [process EXCEPT ![p] = [Off EXCEPT !.at = "copying", !.turn = turn]]

\* append_text: the file is read, emptied and written anew.
Copy(p) ==
  /\ At(p, "copying")
  /\ process' = [process EXCEPT ![p].at = "emptying", ![p].copy = transcript]
  /\ UNCHANGED <<turns, nextId, transcript, state, quoted, runs, faults, disturbed>>

Empty(p) ==
  /\ At(p, "emptying")
  /\ transcript' = {}
  /\ Goes(p, "writing")
  /\ UNCHANGED <<turns, nextId, state, quoted, runs, faults, disturbed>>

\* mutant: the transcript is overwritten
OnlyTurn(p) == {process[p].turn.id}

Written(p) == process[p].copy \cup {process[p].turn.id}

Write(p) ==
  /\ At(p, "writing")
  /\ transcript' = Written(p)
  /\ process' = [process EXCEPT ![p] = [Off EXCEPT
       !.at = IF process[p].turn.role = "user" THEN "planning" ELSE "counting"]]
  /\ UNCHANGED <<turns, nextId, state, quoted, runs, faults, disturbed>>

-------------------------------------------------------------------------------
(* A chat.                                                                 *)

SetState(p, value, place) ==
  /\ state' = value
  /\ Goes(p, place)

\* upsert_session
Begin(p) ==
  /\ At(p, "off")
  /\ runs < MaxRuns
  /\ runs' = runs + 1
  /\ SetState(p, "idle", "opened")
  /\ disturbed' = (disturbed \/ \E other \in Chats : Running(other))
  /\ UNCHANGED <<turns, nextId, transcript, quoted, faults>>

Think(p) ==
  /\ At(p, "opened")
  /\ SetState(p, "thinking", "thinking")
  /\ UNCHANGED <<turns, nextId, transcript, quoted, runs, faults, disturbed>>

\* recent_turns and record_turn of the message.
Hear(p) ==
  /\ At(p, "thinking")
  /\ Insert(p, "user")
  /\ UNCHANGED <<transcript, state, quoted, runs, faults, disturbed>>

\* select_skills, collect_memory_context and plan_actions only read.
Act(p) ==
  /\ At(p, "planning")
  /\ SetState(p, "acting", "acting")
  /\ UNCHANGED <<turns, nextId, transcript, quoted, runs, faults, disturbed>>

\* execute_actions
Respond(p) ==
  /\ At(p, "acting")
  /\ state' = "responding"
  /\ \E ask \in Asks : \E text \in Answers[ask] :
       process' = [process EXCEPT ![p].at = "responding",
                                  ![p].answer = [ask |-> ask, text |-> text]]
  /\ UNCHANGED <<turns, nextId, transcript, quoted, runs, faults, disturbed>>

Answer(p) ==
  /\ At(p, "responding")
  /\ Insert(p, "assistant")
  /\ UNCHANGED <<transcript, state, quoted, runs, faults, disturbed>>

\* mutant: compaction waits for one turn more
MoreThanFull == Cardinality(turns) > CompactAfter

\* should_compact: the turns are counted, or their estimate is too high.
Full == Cardinality(turns) >= CompactAfter

\* maybe_compact
Count(p) ==
  /\ At(p, "counting")
  /\ \/ Goes(p, "recounting")
     \/ ~Full /\ Goes(p, "resting")
  /\ UNCHANGED <<turns, nextId, transcript, state, quoted, runs, faults, disturbed>>

\* compact_session counts for itself.
Recount(p) ==
  /\ At(p, "recounting")
  /\ Goes(p, IF Cardinality(turns) <= Retain THEN "resting" ELSE "reading")
  /\ UNCHANGED <<turns, nextId, transcript, state, quoted, runs, faults, disturbed>>

\* Everything but the newest turns goes, whatever the summary has read.
Delete(p) ==
  /\ At(p, "deleting")
  /\ turns' = Newest(turns, Retain)
  /\ Goes(p, "resting")
  /\ UNCHANGED <<nextId, transcript, state, quoted, runs, faults, disturbed>>

Ends(p) == process' = [process EXCEPT ![p] = Off]

Rest(p) ==
  /\ At(p, "resting")
  /\ state' = "idle"
  /\ IF p \in Queued THEN Goes(p, "completing") ELSE Ends(p)
  /\ UNCHANGED <<turns, nextId, transcript, quoted, runs, faults, disturbed>>

\* complete_batch of the queue sets the state a second time.
Complete(p) ==
  /\ At(p, "completing")
  /\ state' = "idle"
  /\ Ends(p)
  /\ UNCHANGED <<turns, nextId, transcript, quoted, runs, faults, disturbed>>

\* An error of a skill file, a tool, a file or the database ends the chat; the
\* queue stores it, the command line only prints it.  The statements that set
\* the state cannot fail the chat.
Fail(p) ==
  /\ process[p].at \notin {"off", "opened", "resting", "completing", "failing"}
  /\ faults < MaxFaults
  /\ faults' = faults + 1
  /\ disturbed' = TRUE
  /\ IF p \in Queued
     THEN process' = [process EXCEPT ![p] = [Off EXCEPT !.at = "failing"]]
     ELSE Ends(p)
  /\ UNCHANGED <<turns, nextId, transcript, state, quoted, runs>>

CompleteFailed(p) ==
  /\ At(p, "failing")
  /\ state' = "failed"
  /\ Ends(p)
  /\ UNCHANGED <<turns, nextId, transcript, quoted, runs, faults, disturbed>>

\* The process ends where it is.
Stop(p) ==
  /\ Running(p)
  /\ faults < MaxFaults
  /\ faults' = faults + 1
  /\ disturbed' = TRUE
  /\ Ends(p)
  /\ UNCHANGED <<turns, nextId, transcript, state, quoted, runs>>

-------------------------------------------------------------------------------
(* summarize_session, for a compaction or on its own.                      *)

BeginSummary(p) ==
  /\ At(p, "off")
  /\ runs < MaxRuns
  /\ runs' = runs + 1
  /\ Goes(p, "reading")
  /\ UNCHANGED <<turns, nextId, transcript, state, quoted, faults, disturbed>>

AfterSummary(p) == IF p \in Chats THEN "deleting" ELSE "off"

\* Without a turn there is no summary.
Read(p) ==
  /\ At(p, "reading")
  /\ process' = [process EXCEPT
       ![p].at = IF turns = {} THEN AfterSummary(p) ELSE "remembering",
       ![p].quotes = QuotedOf(turns)]
  /\ UNCHANGED <<turns, nextId, transcript, state, quoted, runs, faults, disturbed>>

\* add_memory_with_expiry
Remember(p) ==
  /\ At(p, "remembering")
  /\ quoted' = quoted \cup process[p].quotes
  /\ process' = [process EXCEPT ![p] = [Off EXCEPT !.at = "filing"]]
  /\ UNCHANGED <<turns, nextId, transcript, state, runs, faults, disturbed>>

\* The summary goes to a file of its own.
FileSummary(p) ==
  /\ At(p, "filing")
  /\ Goes(p, AfterSummary(p))
  /\ UNCHANGED <<turns, nextId, transcript, state, quoted, runs, faults, disturbed>>

-------------------------------------------------------------------------------
Summary(p) == Read(p) \/ Remember(p) \/ FileSummary(p)

Chat(p) ==
  \/ Begin(p) \/ Think(p) \/ Hear(p) \/ Copy(p) \/ Empty(p) \/ Write(p) \/ Act(p) \/ Respond(p)
  \/ Answer(p) \/ Count(p) \/ Recount(p) \/ Summary(p) \/ Delete(p) \/ Rest(p) \/ Complete(p)
  \/ Fail(p) \/ CompleteFailed(p) \/ Stop(p)

Next ==
  \/ \E p \in Chats : Chat(p)
  \/ \E p \in Summarizers : BeginSummary(p) \/ Summary(p)

Spec == Init /\ [][Next]_vars

-------------------------------------------------------------------------------
(* Properties.                                                             *)

\* The type invariant; an id is given once.
TypeOK ==
  /\ turns \subseteq Turn
  /\ nextId \in Ids
  /\ \A t \in turns : t.id < nextId /\ \A other \in turns : other.id = t.id => other = t
  /\ transcript \subseteq Ids
  /\ state \in States
  /\ quoted \subseteq Ids
  /\ process \in [Processes -> Process]
  /\ runs \in 0..MaxRuns
  /\ faults \in 0..MaxFaults
  /\ disturbed \in BOOLEAN

Recorded == 1 .. nextId - 1

AtRest == \A p \in Chats : ~Running(p)

\* What the next properties take for granted of memory.json, which is read as it
\* is.  It holds of the defaults, 12 and 6, for which a summary quotes enough.
CompactsSomething == Retain < CompactAfter

QuotesSuffice ==
  /\ CompactsSomething
  /\ CompactAfter % 2 = 0 /\ Retain % 2 = 0
  /\ CompactAfter - Retain <= 2 * Quotes

\* A turn that compaction has deleted is quoted by a summary in the memories,
\* as long as no chat failed, was stopped, or ran beside another one: the
\* summary quotes three turns of each role, and compaction deletes six.
QuotedBeforeDeleted == ~disturbed => Recorded \ IdsOf(turns) \subseteq quoted

\* When no chat is running, the transcript of the session holds every turn ever
\* recorded, unless a chat failed, was stopped, or ran beside another one; and the
\* table does not say that the session is at work, however chats overlapped and
\* overwrote its state, unless one failed or was stopped.
LeftInOrder ==
  AtRest => /\ ~disturbed => transcript = Recorded
            /\ faults = 0 => state \in {"none", "idle"}

\* However the chats of a session overlap, it does not grow: when none is
\* running there are fewer turns than compaction waits for, but for the two
\* that every failed chat may have left behind.
TurnsBounded == AtRest => Cardinality(turns) < CompactAfter + 2 * faults

\* The answer about to be recorded and sent went through the checks, whether it is
\* the first text of the model or the second, of the server or of llama-cli: never
\* nothing, never a notice of the assistant itself, code for those who asked for
\* it, and neither a fence nor a program for those who did not.
AnswersChecked ==
  \A p \in Chats : At(p, "responding") => process[p].answer.text \in Fit(process[p].answer.ask)
=============================================================================
