# Verification of the Raspberry Pi assistant

TLA+ models, TLC checks and TLAPS proofs for the two programs of this repository:
`ai_assistant`, a local assistant that talks over Telegram, voice and a command line
and keeps its state in one SQLite file, and `rust_api`, an HTTP service in front of
`llama-cli`. Paths below are relative to `src/ai_assistant/src` unless they begin with
`src/`.

## Inventory

| component | state | operations | what is hard |
|---|---|---|---|
| Inbound queue (`core/inbound_queue.rs`) | tables `inbound_queue`, `inbound_queue_leases` | `enqueue_request`, `recover_stale_leases`, `dispatch_due_once`, `wait_for_response` | every statement is its own `sqlite3` process, so other processes and stops come between any two; rows named by an id read earlier; leases that outlive their process; overflow |
| HTTP inference (`src/rust_api/src/inference.rs`, `main.rs`, `models.rs`) | semaphore, child processes, event channels | `chat_completions`: plain and streaming | async tasks, clients that leave, timeouts, a bounded channel |
| Voice turn (`core/voice.rs`, `adapters/voice.rs`) | none of its own | record, transcribe, enqueue and wait, speak | a second process on the queue; every program may fail |
| Telegram polling (`core/telegram.rs`, `adapters/telegram.rs`) | `telegram_state.last_update_id` | `process_telegram_once`, `handle_update`, `poll_for_first_pairing` | the offset is stored after a whole batch; redelivery; service and wizard on one offset; refused messages; answers that do not parse |
| Pairing and allowlist (`core/telegram.rs`, `config.rs`) | `telegram_pairings`, `telegram_allowlist`, `telegram.json` | create, approve, deny, expire, start over | a table and a file updated one after the other, from several processes, each with its own snapshot |
| Onboarding (`core/telegram.rs`, `core/identity.rs`) | `telegram_onboarding_sessions`, `identity.json`, profile | seven questions, skip, cancel, complete | the stage is stored before the question is sent; answers with line breaks; two files |
| Chat session (`core/service.rs`, `session.rs`, `actions.rs`, `surfaces.rs`) | `sessions.state` | plan, act, answer, record | errors in the middle; several processes on a session |
| Memory (`core/memory.rs`, `core/context.rs`) | turns, memories, transcript and summary files | record, summarize, compact | compaction beside new turns; a file rewritten whole |
| llama.cpp adapter (`adapters/llama_cpp.rs`) | none | `infer`, `infer_chat` | two transports, many ways of being useless |
| Scheduler (`core/scheduler.rs`) | table `jobs` | `add_job`, `run_due_jobs` | a failing job ends the pass; `last_run` is written after the action; LIMIT takes the oldest |
| Tasks (`core/tasks.rs`), retrieval (`core/rag.rs`) | `tasks`; `rag_documents`, `rag_fts` | add, complete, update; `index_path` | read and write apart; four statements over two tables |
| Service loop (`cli.rs`, `src/ai_assistant/deploy/ai_assistant.service`) | next tick | due jobs, dispatch, poll, dispatch | any error ends it; systemd restarts it |
| SQLite store (`adapters/storage.rs`) | the database file | `exec`, `query` | `query` splits on line breaks and tabs |
| Tools, skills, prompts, reply chunks, configuration files, command line, API configuration, utilities | files, none | load, build, split, parse | text and I/O |

How they interact: `serve` runs due jobs, polls Telegram, passes each text of a user who is
let in to the questionnaire or into the queue, and dispatches before and after every poll.
`voice run` enqueues a transcript and waits, dispatching for itself in the meantime. Both,
and every other command, share the database file and the configuration files; nothing else
synchronises them. A dispatched batch is one chat session run, which calls a llama.cpp
server or program and records turns; its answer is stored in the row and, for Telegram,
sent. `rust_api` is a program of its own.

What makes each component correct: the queue loses nothing it has stored, answers no message
twice, runs a message again only after a stop, keeps to its limits and gets every message
into a prompt. The HTTP service keeps to its permits, tells a client the truth about the end
of a stream, and becomes free again. Polling skips no update and repeats none without a cause;
whoever was approved is let in and stays so; the questionnaire asks for what it stores;
compaction deletes only what a summary quotes; a job runs once in its interval; a completed
task stays completed; indexing leaves both tables alike. `PROJECT.json` lists the hazards
behind these sentences with their lines.

## Modules

| module | what it is |
|---|---|
| `InboundQueue` | the queue, one action per SQL statement |
| `InboxPromise` | what the queue promises for each message; `InboundQueue` implements it |
| `VoiceTurn` | voice turns on top of the queue (EXTENDS `InboundQueue`) |
| `InferenceApi` | the HTTP service, one action per stretch between two awaits |
| `Pairing` | pairing commands, wizard, allowlist and `telegram.json` |
| `Telegram` | polling and its handlers beside the commands (EXTENDS `Pairing`) |
| `Onboarding` | the questionnaire, its row, its two files, and the question about them |
| `Reply` | operators: what the model gives and how the answer is chosen |
| `ChatSession` | chats, transcript, summaries and compaction (EXTENDS `Reply`) |
| `Scheduler` | jobs, tasks and the index of documents |
| `*_proofs` | theorems about the module they are named after; `InboxPromise_proofs` has those about each message of the queue, `Telegram_proofs` also those about `Pairing` |
| `MC*` | values for TLC |

Operators marked `mutant` are deliberately wrong variants of the definition after them. No
action uses them; each is the change under which a property of a run is known to fail.

### InboundQueue and InboxPromise

`rows`, `nextId` and `leases` are the two tables, `clock` is `now_epoch_ms`, and `job[p]` is
the program counter of process `p` with the local variables that live from one statement to
the next. The actions follow the code from top to bottom:

* `enqueue_request`: `BeginEnqueue`, `FindMergeCandidate`, then `MergeMessage` or
  `CountActivity`, `InsertRow`, `ReadRowId`; then `EnforceCap`, `WriteAnchor`, `DropRow`.
* `dispatch_due_once`: `ExpireLeases`, `ScanStale`, `RequeueStale`, `ReleaseStale`,
  `CheckLimit`, `PickPrimary`, `GroupBatch`, `AcquireLeases`, `ClaimBatch`, `StartRun`,
  `EndRun`, `CompleteBatch`, `ReleaseBatch`, `SendReply`.
* `wait_for_response`: `CheckResponse`, which dispatches and looks again.
* `Crash` at any place between two statements: the process is killed, or a statement failed
  and the error ended it (`Restart=always`). `Tick` lets time pass anywhere.

UPDATEs that name rows by id do only that in the model: no status is checked that the code
does not check. The text of a row is the set of its messages; a summary is a sequence of
lines, each the set of the messages it quotes. `Readable` is what `query` and `parse_item` do
to a row: one with a line break in a column before the last comes back in pieces and is
discarded. Merged texts, joined summaries, texts in `Broken` and some error texts hold line
breaks. `ORDER BY created_at` without a second key may return ties in any order. Left out:
peer and chat ids, the `enabled` switch, and a delivery of the reply that fails half-way.
`accepted`, `prompted`, `claims`, `replies` and `crashes` are history variables.

`InboxPromise` has two variables: the phase of each message (new, waiting, claimed, settled,
summarised) and the batch being worked on. One batch at a time, of one session, settled whole
or left behind and put back; a message is given up only when a waiting one of its session
remains to carry its summary. `KeepsPromise` states that `InboundQueue` implements it.

### VoiceTurn

`turn[p]` is what a voice process does around its queue steps: `Listen` (trigger, recording,
transcript; a failing program ends the process, an empty transcript the turn), `Say`
(`enqueue_request` begins), `Respond` (a step of the queue; when it was the last, the reply
is the response of a row that is done, or the notice of an error), `CutShort` (a statement
fails and the turn goes on with the notice, or the process is killed) and `Speak`. The other
processes take their queue steps beside it. Left out: the audio files, which are never
deleted, and turns with the queue switched off. A response is cut to its first line on the
way through `query`; texts are not modelled here, so no property says so.

### InferenceApi

`permits` is the semaphore, `at[r]` the place where the handler or stream task of request
`r` stands, `child[r]` its `llama-cli`, `channel[r]` the bounded channel of events,
`received[r]` and `answer[r]` what the client has got. `Refuse` and `Acquire` are
`prepare_inference`; `Spawn` or `SpawnFails` follow without an await. A stream sends the
role, then reads and sends pieces under the timeout (`Read`, `SendContent`, `ReadEnd`,
`ReadFails`, `TimeOutStream`), and ends through `Kill` and `SendError`, or `SendLast`, then
`SendDone`. A plain request waits (`Collect`) or is timed out (`TimeOutPlain`, `Reap`).
`Leave` is a client that closes its connection: the body of a stream is dropped, and its
task finds out at the next send; the handler of a plain request is dropped where it stands.
`hyper`, `axum`, the semaphore, the channel and `llama-cli` are external and modelled by how
the code uses them. Left out: the text of events, answer extraction and request validation
(their outcomes are choices), `/health`, and a stderr pipe that outlives its process.

### Pairing and Telegram

`Pairing` has the two tables and `file`, which is `telegram.json`; `command[p]` is what a
command has loaded and where it stands. Writing the file is two steps (`EraseFile`,
`TruncateFile`: `fs::write` empties it first), and an empty file loads as the defaults.
An approval is `FetchPairing`, `AllowUser`, `MarkApproved`, `ListAllowed`, `TruncateFile`,
`WriteFile`, with the snapshot of the configuration its process loaded. A code is the sum of
user id and time modulo `CodeSpace`, as in the code, so two users whose ids differ by less than
the time between them can get the same one; the INSERT OR REPLACE then hands the pairing of
one to the other. `crossed` notes the codes to which this happened while an approval of them was
under way: the approval lets the first user in and marks the pairing of the second.

`Telegram` adds `inbox` (all updates; Telegram forgets those up to `confirmed`), the stored
`offset`, and for each of the two processes that poll, the service and the wizard, what it has
read and where it stands (`poller`). Both read the offset (`LoadOffset`), ask for updates
(`Fetch`, `WizardFetch`) and store the offset (`StoreOffset`, `WizardStore`) in separate calls,
and those of one fall anywhere between those of the other: the service reads the offset before
each request and stores it after the batch, the wizard reads it once and stores its own count
after each of its rounds, before it creates the pairing. `Handle`, `Accept` and `SendMessage` deal
with an update. `RefuseMessage` is `sendMessage` answering 403 to somebody who blocked the bot
(`Block`, for good): it ends the service at every attempt, however often it starts. `StopPoller`
stands for a kill and for every other request or statement that fails, as requests of two
processes at a time may. `lapses` counts refusals and offsets that fell. An update without message
or sender is passed over by `parse_updates`; a place makes the whole answer unparsable.

### Onboarding

`inbox` holds the texts after the stored offset, so a stop brings back those of the batch.
`sessions` is the table, with a stage and for each question which question the sender of the
stored answer was looking at; `lines` marks an answer with a line break, for which the row is
not understood any more (`InProgress`). The two files are emptied and written in separate
steps, then the row is deleted and the reply sent. Users write at any time, several texts in a
row too: a text notes the question on its sender's screen, and `hasty` marks one written while
an earlier one of its sender was not answered yet, which can land under a question its sender
had not seen. `AnswerWho` is the run of "Do you know me?" that the queue does between polls.
Left out: `system_instruction`, the third field of `identity.json`, which the service
writes back as it loaded it.

### Reply and ChatSession

`Reply` follows a text from the server or `llama-cli` through sanitising, the quality checks,
the second request and the fallbacks, to every answer a kind of message can get. A text is
known by where its code fence is and by what else the checks find in it. What they do not find
counts as prose, and reaches the user: an answer, but also a raw report of the server, the
banner of `llama-cli`, prompt lines that are not on the list of `sanitize_response`, a line of
code, or a few signs. A fence that is not closed is taken off by `strip_wrapping_quotes`; the
code behind it is then recognised by its words only, and shown if it has too few of them. `Fit`
is the set of texts the checks let through for each kind of message.

`ChatSession` has the turns by id, the ids in the transcript and in summaries, and
`sessions.state`, which chats that overlap write for one another. Nothing but the queue keeps
two chats of a session apart, so a direct chat and `summarize` run beside a queued one. The
token estimate may call for a compaction at any time. Left out: memories with expiry, the
search for memories, and that a summary takes the first 120 characters of a turn.

### Scheduler

`jobs`, `tasks`, `documents` and `fts` are tables, `files` the documents on the disk, of which
one may be unreadable. `Every` is any integer: a job of 0 minutes or less, which the command
line accepts, is due at every pass. `Look` reads the due jobs once, the oldest first and no
more than `Limit`; `Run` starts the action of the first; `MarkRun` writes `last_run`. A job in
`Unreadable` has a line break in its row: `Skip` passes over it and does not mark it, so it
takes a place of the limit at every pass. `Indexing` is `index_path`: a file is read (an error
there ends it), then its four statements. Commands add and replace jobs, add, complete and
update tasks, index, or run due jobs. A job of kind "shell" is refused by the default
configuration: it fails, and ends the pass and the service. `history` notes runs without an
excuse, completed tasks, updates that wrote over newer values, and complete indexings. The
flags `alone`, `lone` and `counted` of a process serve the same end.

## Runs

| run | instance | checks |
|---|---|---|
| `session` | 1 process, 3 messages (symmetric) of 1 session, cap 1, 1 stop | `TypeOK`, `NothingLost`, `AtMostOneReply`, `RunsBoundedByCrashes`, `TerminalIsFinal`, `KeepsPromise` |
| `sessions` | 1 voice process, which waits for its rows, 2 sessions, 1 message each, 1 stop | `LeaseLimit`, `KeepsPromise` |
| `voice` | `serve` and a voice process, 2 messages, one with a line break, 1 stop, fair | `HearsItsAnswer`, `TurnEnds`, `EventuallyPrompted` |
| `inference` | 1 stream, 1 plain request, 1 permit, channel of 2, 3 pieces, fair | `TypeOK`, `PermitsConserved`, `StreamsHoldPermits`, `WellFormedStream`, `StopMeansComplete`, `StreamEnds`, `PermitComesBack` |
| `telegram` | 2 users and 2 codes, 1 operator, the wizard, 2 updates, time 1, 1 stop, 1 user who may block the bot, 4 events in all, fair | `TelegramTypeOK`, `ApprovedMeansAllowed`, `FileBackedByTable`, `NothingSkipped`, `OrderKept`, `DeliveriesExplained`, `AdmittedForGood`, `EventuallyHandled` |
| `onboarding` | 2 users, 2 questions, 4 messages, 1 stop, fair | `TypeOK`, `ScreenMatchesRow`, `AnswersInPlace`, `FilesAgreeInTheEnd` |
| `chat` | a queued chat, a direct one, a summary, 3 runs, 2 faults | `TypeOK`, `QuotedBeforeDeleted`, `LeftInOrder`, `TurnsBounded`, `AnswersChecked` |
| `jobs` | the service, 1 command, 5 jobs and 3 places, 1 document, 1 edit, 1 stop, fair | `TypeOK`, `OncePerInterval`, `DoneStaysDone`, `IndexingHeals`, `DueJobRuns` |
| `burst` | 1 process, 2 messages, fair | `BurstIsAnswered` is violated |
| `processes` | `serve` and `voice run`, 1 message | `RunLimit` is violated |
| `inflight` | 1 stream, 1 plain request, 1 permit | `InFlightCapped` is violated |
| `onboarding_known` | 1 user, 3 questions | `KnownWhenTold` is violated |

What the passing runs show. With one process the queue keeps its promise: whatever statement it
stops after, nothing it stored is lost, no reply is sent twice, a message runs again only once
per stop, and no UPDATE by id hits a row that was settled since. A voice process speaks the
answer to its own message although `serve` works between the INSERT and the query for the row,
and returns to rest in any case. With a process that has stopped before, `HearsItsAnswer` is
false: a row put back after its lease ran out can be taken for the new row that was just
claimed. The property says so by its `crashes = 0`. What a stopped voice process left in the
queue, unreleased leases included, reaches a prompt of `serve` (`EventuallyPrompted`), as long
as no two messages share a row: a merge or an overflow by one process goes by an id that the
other may have settled in between. Pairing writes the allowlist before it marks a code, which
is what makes every approval recoverable, except where the code was given to a second user in
the middle of it; the table, not the file, is what admission rests on. An update is passed on
once more only after a stop, a refused message, or an older offset written over a newer one, as
the wizard does when the service has stored its batch meanwhile; but whatever the two write
over each other, none is skipped or overtaken. Every update is handled, unless one of three
things stands for good: the service read an empty `telegram.json`, or one without a token, at
its start; a place was sent; or somebody whose update is at or ahead of it, and not confirmed
yet, blocked the bot. The questionnaire survives failed replies, because the stage is stored
first and the user sees the next question at the redelivery; the price is an answer stored
under the next question, which `AnswersInPlace` therefore excludes only without stops. It also
excuses the texts written in haste, and just those: the second of two quick answers is filed
under a question its sender had not seen, and the first text after the burst is in its place
again. `AnswersChecked` says that the text shown has passed the checks, the second request's
too; what the checks cannot tell from an answer is shown. Compaction deletes six turns with the
default settings, exactly what a summary quotes, and the `chat` run has the same proportion.
Beside another chat it can delete a turn that no summary quotes: the properties name that case.
A job is repeated when its process stops between action and `last_run`. `DueJobRuns` promises a
due job its run only if fewer than `Limit` jobs were added before it and none of these, nor it,
fails. More cannot be said: the places go to the oldest due jobs, so those of a short interval
and those whose rows are skipped can fill them at every pass for ever. TLC shows that behaviour
as soon as the condition is dropped and `Limit` is 2.

What the violations show.

* `burst`: the second message of a burst is merged into the first's row with a line break,
  and the row is never read again. It also stays the oldest due row, so nothing else is
  claimed either. `EventuallyPrompted` therefore assumes that every row is readable.
* `processes`: check, pick and lease are three statements, and the lease replaces what is
  there. With `serve` and `voice run` on one database, `NothingLost`,
  `RunsBoundedByCrashes`, `LeaseLimit` and `TerminalIsFinal` fail as well; they are claimed,
  and proved where they are, for one process.
* `inflight`: a plain request whose client leaves frees its permit and not its process.
* `onboarding_known`: a name and a preference are known, and nothing else;
  `known_user_summary` drains the first element of an empty vector.

Bounds. Durations of the queue are 1 and the clock goes to 2, 3 or 4: a window can be open,
closing and closed, a lease fresh and expired, and a batch be recovered and completed after
that. The cap is 1, so the second row overflows, and the third over the summary of the first.
One stop cuts every pair of statements; a second would repeat the argument from another state.
`LastCrash` lies early where progress is checked, so that a lease taken before the stop can
still expire. A channel of 2 fills up and blocks with 3 pieces. Two updates make a batch that
can break off in the middle, of one user or two; the operator's single command and the wizard
overlap with both; the clock, updates, commands, blocks and stops share a budget of four
events, enough for an approval cut by a stop with an update on each side, or for the wizard's
offset to be overtaken by the service's and written back. With two codes the user of each time
gets the code of the other user at the other time. Deliveries and lapses are counted to 3. Two
questions are a first and a last one; four messages go through the questionnaire, by one user
or two, in a burst or not, and start over or go on. Three runs with a compaction at 4 turns
that retains 2 reach it twice. Five jobs with three taken at a time: one due at every pass and
one that is skipped at every pass stand before the watched one, which has the last place;
another due one and the failing one are beyond the limit. Runs that may stop have deadlock
checking off: messages, commands and time are used up, and every process is at rest or waits
for more.

Fairness. A process that is up goes on and time passes: the loops of `serve` and of
`wait_for_response` never block for good, programs and runs end. `systemd` starts the service
whenever it has ended (`Restart=always`). Arrivals, commands, the wizard and stops are not fair:
they may hang wherever they are. In the HTTP service the runtime polls every task that can go
on, timers fire, and a client that stays connected reads what it is sent (`Receive`); nothing
is assumed of `llama-cli`, which may hang. Without the fairness of `Receive` the permit of a
client that stays and stops reading is held for ever: the final events are sent outside the
timeout. `VoiceFairness` asks nothing of processes other than the voice process.

## Proofs

All hold for every value of the constants under the named assumptions.

`InboundQueue_proofs` (`ConstantsAssumption`: sets and natural numbers).

* `TypeCorrect == Spec => []TypeOK`, for any number of processes. `TypeOK` is not inductive:
  an INSERT uses the message, and a merge, grouping or lease the row id, that an earlier step
  left in the local variables. `TypeInv` adds `Ready`: at those places the message is a
  message and the id an id.
* `OutcomesAreFinal`, under `OneProcess`: `Spec => TerminalIsFinal`. A step may overwrite a
  status only where the row still has the status under which the process read it, so
  `FinalInv` adds `Snapshot` (the rows the process carries are still queued, or still running)
  and `FreshIds`. Without `OneProcess` the snapshot goes stale: see `processes`.

`InboxPromise_proofs`, all under `OneProcess`: `serve` alone with the database, stopping
anywhere, for any messages, sessions, rows and parameters. What they rest on is what the
process carries from one statement to the next: `Carries` says that the texts, summaries and
row ids in its local variables agree with the table (`CarryInv` is `FinalInv` with it).

* `AcceptedIsKept` (`NothingLost`). A dropped row loses nothing because the summary written to
  the anchor before covers it, and a completed batch nothing because it has been in a prompt
  (`Said`); neither is seen from the table alone.
* `ReclaimsNeedCrashes` (`RunsBoundedByCrashes`). `MessageInv` adds that a message is in one
  row at most and in none before it has arrived; `ClaimsCovered` that of the claims of a
  message each but the last was ended by a crash, the last one too if its row is queued, or
  running in nobody's hands.
* `NobodyIsAnsweredTwice` (`AtMostOneReply`). An answered message is in a row with an outcome
  (`AnswersSettled`), a waiter answers only the row it waits for (`Asks`), and voice sessions
  are written by waiters alone (`OwnSessions`): `serve` does not send what a waiter will take.
* `LeasesAreLimited` (`LeaseLimit`). `RoomForOne` carries the room that `CheckLimit` saw to the
  INSERT.
* `QueueKeepsPromise` (`KeepsPromise`): the queue implements `InboxPromise`, each statement a
  step or a stutter of it under `PhaseMap` and `Batch`. Claim, outcome, merge, insert, drop and
  requeue are the statements that are steps; the proof has a lemma for each.

`VoiceTurn_proofs` (`ConstantsAssumption`).

* `VoiceKeepsQueue == VoiceSpec => Spec`: every step of a turn is a step of the queue or leaves
  it alone, so what is proved of the queue holds under voice turns. `VoiceTypeCorrect`.
* `VoiceHearsItsAnswer` (`HearsItsAnswer`), under `OneServe`: one voice process and one other
  process at most, with any messages, sessions, rows, windows and limits. The argument:
  * `StepDoes` brings each statement to its effect, `Does`; the rest is proved from that.
  * `SharedInv` holds for any number of processes and stops: a message arrives once
    (`Arrivals`); alone in a row, it is in the prompt of every run of the row (`Promptings`);
    `enqueue_request` works on rows of its own session (`OwnSession`); the rows a process names
    are in the table (`Known`); and without stops a running row is somebody's (`RunsOwned`).
  * `NothingNewer`: while the voice process stores its message nobody works on a batch, so
    recovery finds nothing to put back, and `serve` enqueues in other sessions; nothing in the
    session is newer than the row about to be inserted, or due later.
  * `ReadBackInv`: until its id is read back that row is the last of its session in every order
    the queue knows. If `serve` picks it or takes it into a burst, the burst takes every row of
    the session that can be read (`BurstHoldsAll`); what the query by age then returns
    instead is a row that cannot be read.
  * `RightRow`: the row a voice process waits for holds its message alone, or is `Hopeless`: it
    holds two messages, or cannot be read while nobody is about to touch it. A hopeless row
    stays so, and the wait for it ends with the notice.
  * `TurnInv` ties the message of the turn to that in the queue.
* `SoleMessageIsPrompted`, from `SharedInv`, for any number of processes and stops.

`OneServe` is how the programs are deployed, one service and one microphone, and is needed.
`HearsItsAnswer` is false for two voice processes on one session, which read back the newest
row of either, and for two processes that dispatch beside a voice process, one of which puts an
older row back after it was answered; TLC finds both behaviours when the run `voice` is
given such processes and no crash.

`InferenceApi_proofs` (`ServiceAssumption`: finitely many requests, natural limits).

* `PermitsAreConserved`: free permits plus requests at a place that holds one make
  `MaxConcurrency`, by the library's facts on the cardinality of a set with one element more
  or less.
* `StreamProcessesHavePermits` and `StreamsCapped`. `StreamsHoldPermits` alone is not
  inductive; `ProcessInv` says that a stream's process runs only at the places before its task
  has seen it end or has killed it. For plain requests this is false, see `inflight`.
* `TypeCorrect`, with the types of what is sent, received and answered.
* `StreamsAreWellFormed` (`WellFormedStream`) and `StopIsComplete` (`StopMeansComplete`).
  `StreamInv` says for each place of the task what was sent before it: an opened stream, then a
  closed one, then a complete one, with as many pieces of content as were taken, and at the
  last event all that was printed. What the client has read and what is in the channel are
  taken together, so the capacity of the channel does not matter.

`Telegram_proofs` (`PairingAssumption`, `TelegramAssumption`). First the lemmas about the
commands of `Pairing`: whoever a loaded or a new configuration names is in the table, and the
user of an approval between `AllowUser` and `MarkApproved` is in the table and is the user of
the code it will mark, unless that code is in `crossed`. Then what the two pollers know.
`Settled`: what lies below an offset, wherever one is kept, is handled, so either may store its
own over whatever the other has stored. `Progress`: below what is left of the batch of the
service, all is handled. `Deliveries`: a text passed on more often than there were stops and
lapses has passed for good, that is, lies below the batch and below the offset the next one
starts from. `Admission`: whoever was accepted is in the table. From `PollInvariant` follow
`ApprovalsReachTheTable` (`ApprovedMeansAllowed`), `TheFileNamesTheTable`
(`FileBackedByTable`), `UpdatesAreKept` (`NothingSkipped`), `UpdatesKeepTheirOrder`
(`OrderKept`), `DeliveriesHaveReasons` (`DeliveriesExplained`), `AdmissionIsKept` and
`TelegramTypeCorrect`. Nothing is assumed of the codes, and the wizard polls as it likes.

`Onboarding_proofs` (`OnboardingAssumption`), for any users and any list of questions.

* `ScreenShowsRow` (`ScreenMatchesRow`), for any number of stops. A stop between the stored
  stage and the reply leaves screen and row apart. `ScreenInv` says what makes up for it: the
  reply on its way is the question of the row, or a message of that user is still ahead in the
  batch which puts the question again, that is, one that is neither `/cancel` nor another
  command. Those two leave the two as they were, so a reminder repeats the right question.
* `AnswersStay` (`AnswersInPlace`), as long as nothing was stopped. `Fresh` says that nothing
  is dealt with twice, that of what waits the first text of a user, if not hasty itself, was
  written looking at what is on the screen still, and that those behind it are hasty;
  `StageOnScreen` that the question on the screen is that of the row.
* `OnboardingTypeCorrect`.

`ChatSession_proofs` (`ReplyAssumption`, `ChatAssumption`), for any number of chats and
summaries and, unlike the run, for every value of the three settings in `Reply`.

* `AnswersAreChecked` (`AnswersChecked`) rests on `AnswerFits`, a lemma about the operators of
  `Reply`: whatever a request gives, a text that passes the quality check once it is sanitised
  is in `Fit`, and everything else is replaced, the second text like the first.
* `SessionsAreLeftInOrder` (`LeftInOrder`). The transcript is read, emptied and rewritten;
  `TranscriptInv` says that in between what lacks is the newest turn and nothing else, and
  `OneChat` that nobody else writes as long as nothing was disturbed. Summaries may run beside.
  `StateInv` says the same of `sessions.state`, chats that overlap included: only one that failed
  or was stopped leaves a session busy.
* `SessionsDoNotGrow` (`TurnsBounded`), for chats that overlap, fail and stop as they like.
  `SizeInv` gives every chat a debt: the turns of its own that are in the table and not
  compacted yet, two at most. The turns exceed what compaction waits for by no more than the
  debts and two for each failure; a chat that has compacted leaves few turns whatever the
  others have added, and at rest there are no debts. Hypothesis `CompactsSomething`: less is
  retained than compaction waits for. `memory.json` is not validated, and with other values
  nothing is deleted and the table grows.
* `DeletedTurnsAreQuoted` (`QuotedBeforeDeleted`). `QuoteInv` says that the turns in the table
  are an interval of ids that begins with a message and takes turns with answers, that all
  before it is quoted, and for each place of the chat how long the interval is; in the middle
  of a compaction, that all but the newest turns of it are quoted by the summary on its way.
  Lemmas about `Newest` and `QuotedOf` say what is left of such an interval and what is quoted
  of it. Hypothesis `QuotesSuffice`: both settings are even and differ by no more than a
  summary quotes. The defaults (12, 6, and three of each role) just satisfy it. It is not
  decoration: TLC finds turns deleted unquoted for 6, 2 and one of each role, and for 5, 3 and
  one of each role, where the odd setting lets an even number of turns exceed it by one.
* `ChatTypeCorrect`.

`Scheduler_proofs` (`SchedulerAssumption`). `Placed` says what a process knows at each
statement, `MidIndexing` what the two tables hold of the document a process is in the middle of
as long as nobody touched it since, and that a process which is alone with a document has
nobody else beyond `delete document` on it. Any file may be or become unreadable. From `Inv`
follow `SchedulerTypeCorrect`, `CompletedStaysDone` and `IndexIsHealed`.

`OncePerIntervalHolds` (`OncePerInterval`), for the jobs with an interval (`Timed`), needs
`PassInv` besides. A pass that nobody looked into is the only one (`OnePass`); a job has run as
often as its mark allows, once more only while the process that ran it has the mark still to
write (`Paid`); and what such a pass is still to run was paid for by the time since the mark it
read, also where the job was removed or added anew meanwhile (`Spending`).

Only model-checked: liveness (`TurnEnds`, `EventuallyPrompted` and the other properties under
fairness), which is out of reach of the prover. Every invariant and action property of the
passing runs has a theorem.

## Not modelled

* Text: prompts, wording, chunks of a reply, ranking of memories and documents, JSON but for
  what it refuses, parsing of arguments.
* Files that no other process depends on: skills, notes, temporary audio, `tools.json` (each
  command rewrites it from its snapshot, and the service never loads it again).
* `doctor`, `health`, migration of old databases, compilation of settings at the start.
* The service loop as a whole: each module has its own part of a tick and its own restarts,
  which allow more interleavings than the loop has, so what is checked of safety holds of the
  loop; for liveness, an error in one part that keeps another from its turn for ever is not
  seen. Such errors exist: a failing job comes first in every tick, and a place that cannot be
  parsed comes before the second dispatch.
