----------------------------- MODULE Scheduler -----------------------------
(***************************************************************************)
(* The jobs of the assistant (core/scheduler.rs) and the tables they and   *)
(* the commands of an operator change side by side: the tasks              *)
(* (core/tasks.rs) and the index of documents (core/rag.rs).               *)
(*                                                                         *)
(* The service looks for due jobs again and again; a command is a process  *)
(* of its own, and `assistant jobs run --once` runs due jobs too.  Every   *)
(* statement of SQLite is a transaction of its own and an action here.     *)
(***************************************************************************)
EXTENDS Integers, Sequences, FiniteSets

CONSTANTS
  Service,      \* the process of `assistant serve`, restarted when it ends
  Commands,     \* processes of single commands
  Names,        \* the names of the jobs
  Action,       \* what each job does
  Every,        \* its every_minutes: any number an operator writes, 0 and less too
  Unreadable,   \* the jobs with a line break in their row, which query() splits
  Watched,      \* the job whose liveness is checked
  Scheduled,    \* the jobs there from the start, in the order they were added
  Limit,        \* scheduler.max_jobs_per_tick
  Paths,        \* the documents
  Priorities,   \* the priorities a task can have
  JobPriority,  \* the one that "task prioritize" gives
  None,
  MaxTime,      \* bound of the model: the minutes that pass
  MaxCommands,  \* bound of the model: how many commands are given
  MaxEdits,     \* bound of the model: how often a document is edited
  MaxStops      \* bound of the model: how often a process is stopped

Processes == {Service} \cup Commands

\* "shell" is a job the default configuration refuses; "other" one that leaves
\* the tables of this module alone: summarize, cleanup memories, any other word.
Actions == {"index", "task add", "task prioritize", "shell", "other"}

ASSUME SchedulerAssumption ==
  /\ Service \notin Commands
  /\ Action \in [Names -> Actions]
  /\ Every \in [Names -> Int]
  /\ Unreadable \subseteq Names
  /\ IsFiniteSet(Names) /\ Watched \in Names
  /\ Scheduled \in Seq(Names)
  /\ Limit \in Nat \ {0}
  /\ Priorities \subseteq Nat /\ {1, JobPriority} \subseteq Priorities
  /\ None \notin Paths \cup Names \cup Nat /\ None \notin {"pending", "done"}
  /\ {MaxTime, MaxCommands, MaxEdits, MaxStops} \subseteq Nat

VARIABLES
  clock,
  jobs,      \* table jobs, by name, which is UNIQUE
  nextJob,   \* its AUTOINCREMENT
  tasks,     \* table tasks, by id: no command deletes one
  files,     \* the version of each document on the disk, None if it cannot be read
  documents, \* table rag_documents: the version indexed of each path
  fts,       \* table rag_fts: the versions of the rows of each path
  process,   \* where each process is, and what it knows
  history,   \* what the properties speak about, see History
  commands, edits, stops

tables == <<jobs, nextJob, tasks, documents, fts>>

bounds == <<commands, edits, stops>>

vars == <<clock, jobs, nextJob, tasks, files, documents, fts, process, history, bounds>>

Never == -1

Job == [id: Nat, last: Never .. MaxTime]

NoJob == [id |-> 0, last |-> Never]

Task == [status: {"pending", "done"}, priority: Priorities]

Due(n) == jobs[n].id # 0 /\ (jobs[n].last = Never \/ jobs[n].last + Every[n] <= clock)

Process ==
  [at: {"idle", "run", "mark", "read task", "write task", "delete document", "delete fts",
        "insert document", "insert fts"},
   rows: Seq([name: Names, id: Nat]),  \* the due jobs still to run
   now: 0..MaxTime,                    \* when they were looked up
   task: Nat, seen: Task,              \* the row an update has read
   priority: Priorities \cup {None}, status: {"pending", "done", None},
   paths: SUBSET Paths, path: Paths \cup {None}, content: 0..MaxEdits,
   alone: BOOLEAN,                     \* history: nobody else touched path meanwhile
   lone: BOOLEAN,                      \* history: no other process ran jobs since it looked
   counted: BOOLEAN]                   \* history: the run of the current job is in runs

Idle ==
  [at |-> "idle", rows |-> <<>>, now |-> 0, task |-> 0, seen |-> [status |-> "pending", priority |-> 1],
   priority |-> None, status |-> None, paths |-> {}, path |-> None, content |-> 0, alone |-> FALSE,
   lone |-> FALSE, counted |-> FALSE]

History ==
  [runs: [Names -> Int],       \* how often each job with an interval was run without an excuse
   completed: SUBSET Nat,      \* the tasks completed, and not reopened by a command
   overtaken: SUBSET Nat,      \* those an update wrote with what it had read before
   indexed: SUBSET Paths]      \* the paths whose last indexing was alone and complete

At(p, place) == process[p].at = place

Becomes(p, next) == process' = [process EXCEPT ![p] = next]

Goes(p, place) == Becomes(p, [process[p] EXCEPT !.at = place])

Init ==
  /\ clock = 0
  /\ jobs = [n \in Names |-> IF \E i \in DOMAIN Scheduled : Scheduled[i] = n
                             THEN [id |-> CHOOSE i \in DOMAIN Scheduled : Scheduled[i] = n,
                                   last |-> Never]
                             ELSE NoJob]
  /\ nextJob = Len(Scheduled) + 1
  /\ tasks = <<[status |-> "pending", priority |-> 1]>>
  /\ files = [f \in Paths |-> 0]
  /\ documents = [f \in Paths |-> None]
  /\ fts = [f \in Paths |-> <<>>]
  /\ process = [p \in Processes |-> Idle]
  /\ history = [runs |-> [n \in Names |-> 0],
                completed |-> {}, overtaken |-> {}, indexed |-> {}]
  /\ commands = 0
  /\ edits = 0
  /\ stops = 0

-------------------------------------------------------------------------------
(* Tasks.                                                                  *)

\* mutant: a status the queries do not know
AddOpenTask(priority) == tasks' = Append(tasks, [status |-> "open", priority |-> priority])

\* add_task, with the priority of a scheduled one.
AddTask(priority) == tasks' = Append(tasks, [status |-> "pending", priority |-> priority])

\* complete_task
CompleteTask(id) ==
  /\ id \in DOMAIN tasks
  /\ tasks' = [tasks EXCEPT ![id].status = "done"]
  /\ history' = [history EXCEPT !.completed = @ \cup {id}]

Or(new, old) == IF new = None THEN old ELSE new

\* mutant: a status that is not given is the default one
Defaulted(p) ==
  [status |-> Or(process[p].status, "pending"),
   priority |-> Or(process[p].priority, process[p].seen.priority)]

\* update_task writes every column: what was given, or what it has read.
Updated(p) ==
  [status |-> Or(process[p].status, process[p].seen.status),
   priority |-> Or(process[p].priority, process[p].seen.priority)]

-------------------------------------------------------------------------------
(* The process of a job, or of a command that takes several statements.    *)

Finished(p) == IF process[p].rows = <<>> THEN Idle ELSE [process[p] EXCEPT !.at = "mark"]

Passing(p) == process[p].rows # <<>>

Current(p) == Head(process[p].rows)

\* A job that was not marked is excused, though it may have done its work.
Unmarked(p) ==
  history' = IF process[p].counted THEN [history EXCEPT !.runs[Current(p).name] = @ - 1]
             ELSE history

\* The error of a job ends the pass, and the service with it: systemd starts
\* it again.  The job stays due, and so do those behind it.
Fail(p) ==
  /\ Becomes(p, Idle)
  /\ Unmarked(p)
  /\ UNCHANGED tables

\* list_tasks
ReadTask(p) ==
  /\ At(p, "read task")
  /\ IF process[p].task \in DOMAIN tasks
     THEN /\ Becomes(p, [process[p] EXCEPT !.at = "write task", !.seen = tasks[process[p].task]])
          /\ UNCHANGED <<tables, history>>
     ELSE Fail(p)
  /\ UNCHANGED <<clock, files, bounds>>

WriteTask(p) ==
  LET id == process[p].task
  IN  /\ At(p, "write task")
      /\ tasks' = [tasks EXCEPT ![id] = Updated(p)]
      /\ history' = [history EXCEPT
           !.completed = CASE process[p].status = "done"    -> @ \cup {id}
                           [] process[p].status = "pending" -> @ \ {id}
                           [] OTHER                         -> @,
           !.overtaken = IF process[p].seen # tasks[id] THEN @ \cup {id} ELSE @]
      /\ Becomes(p, Finished(p))
      /\ UNCHANGED <<clock, jobs, nextJob, files, documents, fts, bounds>>

\* Whoever is in the middle of the same path is not alone any more.
Touch(p, path, next) ==
  process' = [q \in Processes |->
    IF q = p THEN next
    ELSE IF process[q].path = path THEN [process[q] EXCEPT !.alone = FALSE]
    ELSE process[q]]

\* index_path: the files are taken one after the other, in no order.  One that
\* cannot be read ends the indexing; a directory that cannot be listed does so
\* before its first file, as if one in it could not be read.
ReadFile(p) ==
  /\ At(p, "delete document")
  /\ process[p].path = None
  /\ \E path \in process[p].paths :
       IF files[path] = None
       THEN Fail(p)
       ELSE /\ Becomes(p, [process[p] EXCEPT
                 !.path = path, !.content = files[path], !.paths = @ \ {path},
                 !.alone = \A q \in Processes \ {p} : process[q].path # path])
            /\ UNCHANGED <<tables, history>>
  /\ UNCHANGED <<clock, files, bounds>>

DeleteDocument(p) ==
  LET path == process[p].path
  IN  /\ At(p, "delete document")
      /\ path # None
      /\ documents' = [documents EXCEPT ![path] = None]
      /\ Touch(p, path, [process[p] EXCEPT !.at = "delete fts"])
      /\ history' = [history EXCEPT !.indexed = @ \ {path}]
      /\ UNCHANGED <<clock, jobs, nextJob, tasks, files, fts, bounds>>

\* mutant: the rows of the full-text table stay
KeepFts(p) ==
  /\ At(p, "delete fts")
  /\ Touch(p, process[p].path, [process[p] EXCEPT !.at = "insert document"])
  /\ UNCHANGED <<clock, tables, files, history, bounds>>

DeleteFts(p) ==
  LET path == process[p].path
  IN  /\ At(p, "delete fts")
      /\ fts' = [fts EXCEPT ![path] = <<>>]
      /\ Touch(p, path, [process[p] EXCEPT !.at = "insert document"])
      /\ UNCHANGED <<clock, jobs, nextJob, tasks, files, documents, history, bounds>>

\* The path of a document is UNIQUE: a second INSERT ends the indexing.
InsertDocument(p) ==
  LET path == process[p].path
  IN  /\ At(p, "insert document")
      /\ IF documents[path] = None
         THEN /\ documents' = [documents EXCEPT ![path] = process[p].content]
              /\ Touch(p, path, [process[p] EXCEPT !.at = "insert fts"])
              /\ UNCHANGED <<jobs, nextJob, tasks, fts, history>>
         ELSE Fail(p)
      /\ UNCHANGED <<clock, files, bounds>>

InsertFts(p) ==
  LET path == process[p].path
      rest == [process[p] EXCEPT !.at = "delete document", !.path = None]
  IN  /\ At(p, "insert fts")
      /\ fts' = [fts EXCEPT ![path] = Append(@, process[p].content)]
      /\ Touch(p, path, IF process[p].paths = {} THEN [Finished(p) EXCEPT !.path = None] ELSE rest)
      /\ history' = [history EXCEPT !.indexed = IF process[p].alone THEN @ \cup {path}
                                                 ELSE @ \ {path}]
      /\ UNCHANGED <<clock, jobs, nextJob, tasks, files, documents, bounds>>

Indexing(p) ==
  ReadFile(p) \/ DeleteDocument(p) \/ DeleteFts(p) \/ InsertDocument(p) \/ InsertFts(p)

-------------------------------------------------------------------------------
(* Jobs.                                                                   *)

DueNames == {n \in Names : Due(n)}

\* mutant: ORDER BY id DESC
Later(m, n) == jobs[m].id > jobs[n].id

Earlier(m, n) == jobs[m].id < jobs[n].id

Count == IF Cardinality(DueNames) < Limit THEN Cardinality(DueNames) ELSE Limit

\* ORDER BY id ASC LIMIT max_jobs_per_tick: the one order there is.
DueRows ==
  LET due == DueNames
      places == 1..Count
  IN  {names \in [places -> due] :
         /\ \A i, j \in places : i < j => Earlier(names[i], names[j])
         /\ \A n \in due, i \in places :
              (\A j \in places : names[j] # n) => Earlier(names[i], n)}

\* run_due_jobs looks once, and keeps what it saw for the whole pass.
Look(p) ==
  /\ DueNames # {}
  /\ \E names \in DueRows :
       LET rows == [i \in 1..Count |-> [name |-> names[i], id |-> jobs[names[i]].id]]
       IN  process' = [q \in Processes |->
             IF q = p THEN [Idle EXCEPT !.at = "run", !.rows = rows, !.now = clock,
                                        !.lone = \A other \in Processes \ {p} : ~Passing(other)]
             ELSE [process[q] EXCEPT !.lone = FALSE]]
  /\ UNCHANGED history

\* The pass goes on with the next row.
NextRow(p) ==
  LET rest == Tail(process[p].rows)
  IN  Becomes(p, IF rest = <<>> THEN Idle
                 ELSE [Idle EXCEPT !.at = "run", !.rows = rest, !.now = process[p].now,
                                   !.lone = process[p].lone])

\* A row that came in pieces has too few columns: it is passed over, is not
\* marked, and so takes its place of the LIMIT again at the next pass.
Skip(p) ==
  /\ At(p, "run")
  /\ Current(p).name \in Unreadable
  /\ NextRow(p)
  /\ UNCHANGED <<clock, tables, files, history, bounds>>

\* execute_action; "task prioritize" names the first task.
Run(p) ==
  LET n == Current(p).name
      Starts(next) ==
        LET counted == next.lone /\ Every[n] > 0
        IN  /\ Becomes(p, [next EXCEPT !.counted = counted])
            /\ history' = IF counted THEN [history EXCEPT !.runs[n] = @ + 1] ELSE history
  IN  /\ At(p, "run")
      /\ n \notin Unreadable
      /\ \/ /\ Action[n] \in {"task add", "other"}
            /\ IF Action[n] = "task add" THEN AddTask(1) ELSE UNCHANGED tasks
            /\ Starts([process[p] EXCEPT !.at = "mark"])
            /\ UNCHANGED <<jobs, nextJob, documents, fts>>
         \/ /\ Action[n] = "task prioritize"
            /\ Starts([process[p] EXCEPT !.at = "read task", !.task = 1, !.priority = JobPriority])
            /\ UNCHANGED tables
         \/ /\ Action[n] = "index"
            /\ Starts([process[p] EXCEPT !.at = "delete document", !.paths = Paths])
            /\ UNCHANGED tables
         \/ /\ Action[n] = "shell"
            /\ Becomes(p, Idle)
            /\ UNCHANGED <<tables, history>>
      /\ UNCHANGED <<clock, files, bounds>>

\* mutant: the job is not marked
NoMark(p, job) == UNCHANGED jobs

\* UPDATE jobs SET last_run WHERE id: nothing, if the job was added anew.
Mark(p, job) ==
  jobs' = IF jobs[job.name].id = job.id THEN [jobs EXCEPT ![job.name].last = process[p].now]
          ELSE jobs

MarkRun(p) ==
  /\ At(p, "mark")
  /\ Mark(p, Current(p))
  /\ NextRow(p)
  /\ UNCHANGED <<clock, nextJob, tasks, files, documents, fts, history, bounds>>

-------------------------------------------------------------------------------
(* Commands.                                                               *)

\* add_job: INSERT OR REPLACE makes a new row, which was never run.
AddJob(n) ==
  /\ jobs' = [jobs EXCEPT ![n] = [id |-> nextJob, last |-> Never]]
  /\ nextJob' = nextJob + 1
  /\ history' = [history EXCEPT !.runs[n] = @ - 1]

ScheduleAdd(p) ==
  /\ \E n \in Names : AddJob(n)
  /\ UNCHANGED <<tasks, documents, fts, process>>

TaskAdd(p) ==
  /\ \E priority \in Priorities : AddTask(priority)
  /\ UNCHANGED <<jobs, nextJob, documents, fts, process, history>>

TaskComplete(p) ==
  /\ \E id \in DOMAIN tasks : CompleteTask(id)
  /\ UNCHANGED <<jobs, nextJob, documents, fts, process>>

TaskUpdate(p) ==
  /\ \E id \in 1 .. Len(tasks) + 1, status \in {"pending", "done", None},
        priority \in Priorities \cup {None} :
       Becomes(p, [Idle EXCEPT !.at = "read task", !.task = id, !.status = status,
                               !.priority = priority])
  /\ UNCHANGED <<tables, history>>

RagIndex(p) ==
  /\ \E chosen \in (SUBSET Paths) \ {{}} :
       Becomes(p, [Idle EXCEPT !.at = "delete document", !.paths = chosen])
  /\ UNCHANGED <<tables, history>>

JobsRunOnce(p) ==
  /\ Look(p)
  /\ UNCHANGED tables

Command(p) ==
  /\ At(p, "idle")
  /\ commands < MaxCommands
  /\ commands' = commands + 1
  /\ ScheduleAdd(p) \/ TaskAdd(p) \/ TaskComplete(p) \/ TaskUpdate(p) \/ RagIndex(p) \/ JobsRunOnce(p)
  /\ UNCHANGED <<clock, files, edits, stops>>

\* run_serve: the scheduler's part of the loop.
Serve ==
  /\ At(Service, "idle")
  /\ Look(Service)
  /\ UNCHANGED <<clock, tables, files, bounds>>

\* The process ends between two statements; the job it ran is due again.
Stop(p) ==
  /\ ~At(p, "idle")
  /\ stops < MaxStops
  /\ stops' = stops + 1
  /\ Becomes(p, Idle)
  /\ Unmarked(p)
  /\ UNCHANGED <<clock, tables, files, commands, edits>>

\* Somebody edits a document, or leaves what is no text, or not for us to read.
Edit ==
  /\ edits < MaxEdits
  /\ edits' = edits + 1
  /\ \E path \in Paths, content \in {edits + 1, None} : files' = [files EXCEPT ![path] = content]
  /\ UNCHANGED <<clock, tables, process, history, commands, stops>>

Tick ==
  /\ clock < MaxTime
  /\ clock' = clock + 1
  /\ UNCHANGED <<tables, files, process, history, bounds>>

-------------------------------------------------------------------------------
Step(p) == Skip(p) \/ Run(p) \/ MarkRun(p) \/ ReadTask(p) \/ WriteTask(p) \/ Indexing(p)

Next ==
  \/ Serve
  \/ \E p \in Commands : Command(p)
  \/ \E p \in Processes : Step(p) \/ Stop(p)
  \/ Edit
  \/ Tick

Spec == Init /\ [][Next]_vars

\* The service is restarted whenever it ends, goes on with what it does, and
\* looks for jobs again and again.
FairSpec == Spec /\ WF_vars(Serve \/ Step(Service))

-------------------------------------------------------------------------------
(* Properties.                                                             *)

\* The type invariant.
TypeOK ==
  /\ clock \in 0..MaxTime
  /\ jobs \in [Names -> Job]
  /\ nextJob \in Nat
  /\ tasks \in Seq(Task)
  /\ files \in [Paths -> 0..MaxEdits \cup {None}]
  /\ documents \in [Paths -> 0..MaxEdits \cup {None}]
  /\ fts \in [Paths -> Seq(0..MaxEdits)]
  /\ process \in [Processes -> Process]
  /\ history \in History
  /\ commands \in 0..MaxCommands /\ edits \in 0..MaxEdits /\ stops \in 0..MaxStops

\* A job with an interval does its work once in it; once more only for each time
\* it was added anew, it failed, a process was stopped in it, or two processes ran
\* due jobs at the same time.  (One of 0 minutes or less is due at every pass.)
OncePerInterval ==
  \A n \in Names : Every[n] > 0 => history.runs[n] <= 1 + clock \div Every[n]

\* A task that was completed stays done: the only way back is an update that
\* had read the task before, and overwrote what happened since.
DoneStaysDone ==
  \A id \in history.completed : tasks[id].status = "done" \/ id \in history.overtaken

\* Whatever stopped or overlapping indexing has left behind, one that runs to
\* its end alone leaves the document in both tables, once and the same.
IndexingHeals ==
  \A path \in history.indexed :
    documents[path] # None /\ fts[path] = <<documents[path]>>

\* A due job is run if there is a place for it even with every job added before
\* it due, and none of these fails: neither jobs that fail nor any number of jobs
\* behind it keep it waiting.  More cannot be said.  The places go to the oldest
\* jobs, so that those of a short interval, or of a row that is never marked, can
\* take all of them at every pass for ever; and a job that fails ends each pass.
Fails(n) == Action[n] = "shell" \/ (Action[n] = "index" /\ \E path \in Paths : files[path] = None)

Before(n) == {m \in Names : jobs[m].id # 0 /\ jobs[m].id < jobs[n].id}

Waits(n) ==
  /\ Due(n)
  /\ n \notin Unreadable
  /\ Cardinality(Before(n)) < Limit
  /\ \A m \in Before(n) \cup {n} : m \in Unreadable \/ ~Fails(m)

Ran(n) == \E p \in Processes : At(p, "mark") /\ Current(p).name = n

DueJobRuns == Waits(Watched) ~> (Ran(Watched) \/ ~Waits(Watched))
=============================================================================
