---------------------------- MODULE Scheduler_proofs ---------------------------
(***************************************************************************)
(* What jobs and commands keep (module Scheduler), for any number of       *)
(* processes, jobs and documents: the types, that a completed task is only *)
(* reopened by an update that had read it before, that indexing which runs *)
(* alone heals whatever was left behind, and that a job does its work once *)
(* in its interval.                                                        *)
(***************************************************************************)
EXTENDS Scheduler, FiniteSetTheorems, TLAPS

Writing == {"delete fts", "insert document", "insert fts"}

\* What a process knows fits the statement it is at.
Placed(r) ==
  /\ r.at \in {"run", "mark"} \/ r.counted => r.rows # <<>>
  /\ r.at = "write task" => r.task \in DOMAIN tasks
  /\ r.at \in Writing => r.path # None
  /\ r.path # None => r.at \in Writing \cup {"delete document"}

Places == \A p \in Processes : Placed(process[p])

\* Completed tasks are in the table.
Completed == history.completed \subseteq DOMAIN tasks

\* Who is in the middle of a path: what the tables hold of it, if nobody else
\* touched it since it was read.
MidIndexing(p) ==
  LET path == process[p].path
  IN  /\ process[p].at \in Writing => path \notin history.indexed
      /\ process[p].alone /\ process[p].at \in Writing =>
           /\ process[p].at \in {"delete fts", "insert document"} => documents[path] = None
           /\ process[p].at \in {"insert document", "insert fts"} => fts[path] = <<>>
           /\ process[p].at = "insert fts" => documents[path] = process[p].content
      /\ process[p].alone /\ path # None =>
           \A q \in Processes \ {p} : process[q].path = path => process[q].at = "delete document"

IndexInv == IndexingHeals /\ \A p \in Processes : MidIndexing(p)

Inv == TypeOK /\ Places /\ Completed /\ DoneStaysDone /\ IndexInv

-------------------------------------------------------------------------------
(* Values.                                                                 *)

LEMMA IdleTyped ==
  /\ Idle \in Process /\ Idle.at = "idle" /\ Idle.rows = <<>> /\ Idle.path = None
  /\ ~Idle.counted /\ ~Idle.alone
<1>1. [status |-> "pending", priority |-> 1] \in Task
  BY SchedulerAssumption DEF SchedulerAssumption, Task
<1>2. 0 \in 0..MaxTime /\ 0 \in 0..MaxEdits /\ 0 \in Nat
  BY SchedulerAssumption DEF SchedulerAssumption
<1>3. <<>> \in Seq([name : Names, id : Nat])
  OBVIOUS
<1> QED
  BY <1>1, <1>2, <1>3 DEF Idle, Process

LEMMA CurrentTyped ==
  ASSUME NEW p \in Processes, process[p] \in Process, process[p].rows # <<>>
  PROVE  /\ Current(p).name \in Names
         /\ Tail(process[p].rows) \in Seq([name : Names, id : Nat])
<1> DEFINE rows == process[p].rows
           Row  == [name : Names, id : Nat]
<1>1. rows \in Seq(Row) /\ rows # <<>>
  BY DEF Process
<1> HIDE DEF rows, Row
<1>2. Head(rows) \in Row /\ Tail(rows) \in Seq(Row)
  <2>1. Len(rows) \in Nat /\ Len(rows) # 0 /\ Head(rows) = rows[1]
    BY <1>1
  <2> QED
    BY <1>1, <2>1
<1> QED
  BY <1>2 DEF rows, Row, Current

\* A step that completes no task and writes none.
SameDone ==
  history' \in History /\ history'.completed = history.completed /\ history'.overtaken = history.overtaken

\* A run more, or one less, changes nothing else.
SameRest ==
  /\ history' \in History /\ history'.completed = history.completed
  /\ history'.overtaken = history.overtaken /\ history'.indexed = history.indexed

LEMMA RunMore ==
  ASSUME history \in History, NEW n \in Names,
         history' = [history EXCEPT !.runs[n] = @ + 1]
  PROVE  SameRest
BY DEF History, SameRest

LEMMA RunLess ==
  ASSUME history \in History, NEW n \in Names,
         history' = [history EXCEPT !.runs[n] = @ - 1]
  PROVE  SameRest
BY DEF History, SameRest

LEMMA CountTyped == Count \in Nat
<1>1. DueNames \subseteq Names /\ IsFiniteSet(Names) /\ Limit \in Nat
  BY SchedulerAssumption DEF SchedulerAssumption, DueNames
<1>2. Cardinality(DueNames) \in Nat
  BY <1>1, FS_Subset, FS_CardinalityType
<1> QED
  BY <1>1, <1>2 DEF Count

-------------------------------------------------------------------------------
(* One process moves; of the others at most the notes for the properties   *)
(* change.                                                                 *)

Stays(q) ==
  /\ process'[q].at = process[q].at /\ process'[q].rows = process[q].rows
  /\ process'[q].task = process[q].task /\ process'[q].counted = process[q].counted
  /\ process'[q].path = process[q].path /\ process'[q].content = process[q].content
  /\ process'[q].alone => process[q].alone

Moves(p, r) ==
  /\ process' \in [Processes -> Process]
  /\ process'[p] = r
  /\ \A q \in Processes : q # p => Stays(q)

LEMMA BecomesMoves ==
  ASSUME TypeOK, NEW p \in Processes, NEW r \in Process, Becomes(p, r)
  PROVE  Moves(p, r)
BY DEF TypeOK, Becomes, Moves, Stays

LEMMA TouchMoves ==
  ASSUME TypeOK, NEW p \in Processes, NEW r \in Process, NEW path, Touch(p, path, r)
  PROVE  /\ Moves(p, r)
         /\ \A q \in Processes : q # p /\ process[q].path = path => ~process'[q].alone
<1>1. process \in [Processes -> Process]
  BY DEF TypeOK
<1>2. \A q \in Processes : process[q] \in Process
  BY <1>1
<1>3. \A q \in Processes : [process[q] EXCEPT !.alone = FALSE] \in Process
  BY <1>2 DEF Process
<1>4. process' \in [Processes -> Process] /\ process'[p] = r
  BY <1>2, <1>3 DEF Touch
<1>5. ASSUME NEW q \in Processes, q # p
      PROVE  Stays(q) /\ (process[q].path = path => ~process'[q].alone)
  <2>1. CASE process[q].path = path
    <3>1. process'[q] = [process[q] EXCEPT !.alone = FALSE]
      BY <1>5, <2>1 DEF Touch
    <3> QED
      BY <1>2, <3>1 DEF Stays, Process
  <2>2. CASE process[q].path # path
    <3>1. process'[q] = process[q]
      BY <1>5, <2>2 DEF Touch
    <3> QED
      BY <2>2, <3>1 DEF Stays
  <2> QED
    BY <2>1, <2>2
<1> QED
  BY <1>4, <1>5 DEF Moves

\* run_due_jobs looks: the rows it keeps are jobs.
LEMMA LookMoves ==
  ASSUME TypeOK, NEW p \in Processes, Look(p)
  PROVE  \E r \in Process : /\ Moves(p, r)
                            /\ r.at = "run" /\ r.rows # <<>> /\ r.path = None /\ ~r.counted
<1>1. PICK names \in DueRows :
        process' = [q \in Processes |->
          IF q = p THEN [Idle EXCEPT !.at = "run",
                          !.rows = [i \in 1..Count |-> [name |-> names[i], id |-> jobs[names[i]].id]],
                          !.now = clock,
                          !.lone = \A other \in Processes \ {p} : ~Passing(other)]
          ELSE [process[q] EXCEPT !.lone = FALSE]]
  BY DEF Look
<1> DEFINE rows == [i \in 1..Count |-> [name |-> names[i], id |-> jobs[names[i]].id]]
           lone == \A other \in Processes \ {p} : ~Passing(other)
           r    == [Idle EXCEPT !.at = "run", !.rows = rows, !.now = clock, !.lone = lone]
<1>2. Count \in Nat /\ names \in [1..Count -> Names]
  BY CountTyped DEF DueRows, DueNames
<1>3. rows \in Seq([name : Names, id : Nat])
  <2>1. \A i \in 1..Count : [name |-> names[i], id |-> jobs[names[i]].id] \in [name : Names, id : Nat]
    BY <1>2 DEF TypeOK, Job
  <2>2. rows \in [1..Count -> [name : Names, id : Nat]]
    BY <2>1
  <2> QED
    BY <1>2, <2>2
<1>4. rows # <<>>
  <2>1. DueNames # {} /\ IsFiniteSet(DueNames)
    BY SchedulerAssumption, FS_Subset DEF SchedulerAssumption, Look, DueNames
  <2>2. Cardinality(DueNames) # 0 /\ Cardinality(DueNames) \in Nat
    BY <2>1, FS_EmptySet, FS_CardinalityType
  <2>3. Count >= 1
    BY <2>2, SchedulerAssumption DEF SchedulerAssumption, Count
  <2>4. 1 \in DOMAIN rows
    BY <1>2, <2>3
  <2> QED
    BY <2>4
<1>5. clock \in 0..MaxTime /\ lone \in BOOLEAN
  BY DEF TypeOK
<1> HIDE DEF rows, lone
<1>6. r \in Process /\ r.at = "run" /\ r.rows = rows /\ r.path = None /\ ~r.counted
  BY <1>3, <1>5, IdleTyped, ZenonT(60) DEF Process
<1>7. process' = [q \in Processes |-> IF q = p THEN r ELSE [process[q] EXCEPT !.lone = FALSE]]
  BY <1>1 DEF rows, lone
<1> HIDE DEF r
<1>8. \A q \in Processes : process[q] \in Process
  BY DEF TypeOK
<1>9. \A q \in Processes : [process[q] EXCEPT !.lone = FALSE] \in Process
  <2> TAKE q \in Processes
  <2> DEFINE o == process[q]
  <2>1. o \in Process
    BY <1>8
  <2> HIDE DEF o
  <2>2. [o EXCEPT !.lone = FALSE] \in Process
    BY <2>1 DEF Process
  <2> QED
    BY <2>2 DEF o
<1>10. process' \in [Processes -> Process] /\ process'[p] = r
  BY <1>6, <1>7, <1>9
<1>11. ASSUME NEW q \in Processes, q # p
       PROVE  Stays(q)
  <2>1. process'[q] = [process[q] EXCEPT !.lone = FALSE]
    BY <1>7, <1>11
  <2> QED
    BY <1>8, <2>1 DEF Stays, Process
<1> QED
  BY <1>4, <1>6, <1>10, <1>11 DEF Moves

-------------------------------------------------------------------------------
(* Steps that leave the index of documents alone.                          *)

\* The tasks after a step, seen from those before.
TasksGrow ==
  /\ tasks' \in Seq(Task) /\ DOMAIN tasks \subseteq DOMAIN tasks'
  /\ Completed' /\ DoneStaysDone'

\* The other variables keep their types.
RestTyped ==
  /\ clock' \in 0..MaxTime
  /\ jobs' \in [Names -> Job] /\ nextJob' \in Nat
  /\ files' \in [Paths -> 0..MaxEdits \cup {None}]
  /\ history' \in History
  /\ commands' \in 0..MaxCommands /\ edits' \in 0..MaxEdits /\ stops' \in 0..MaxStops

LEMMA SameTasks ==
  ASSUME Inv, UNCHANGED tasks,
         history'.completed = history.completed, history'.overtaken = history.overtaken
  PROVE  TasksGrow
BY DEF Inv, TypeOK, TasksGrow, Completed, DoneStaysDone

LEMMA NewTask ==
  ASSUME Inv, NEW priority \in Priorities, AddTask(priority),
         history'.completed = history.completed, history'.overtaken = history.overtaken
  PROVE  TasksGrow
<1> DEFINE new == [status |-> "pending", priority |-> priority]
<1>1. tasks \in Seq(Task) /\ new \in Task /\ tasks' = Append(tasks, new)
  BY DEF Inv, TypeOK, Task, AddTask
<1> HIDE DEF new
<1>2. /\ tasks' \in Seq(Task) /\ Len(tasks') = Len(tasks) + 1
      /\ \A i \in 1..Len(tasks) : tasks'[i] = tasks[i]
  BY <1>1
<1>3. DOMAIN tasks \subseteq DOMAIN tasks' /\ \A i \in DOMAIN tasks : tasks'[i] = tasks[i]
  BY <1>1, <1>2
<1> QED
  BY <1>2, <1>3 DEF Inv, TasksGrow, Completed, DoneStaysDone

\* One process moves, and does not hold a path afterwards.
LEMMA QuietKeeps ==
  ASSUME Inv, NEW p \in Processes, NEW r \in Process, Moves(p, r),
         r.path = None, r.at \notin Writing,
         r.at \in {"run", "mark"} \/ r.counted => r.rows # <<>>,
         r.at = "write task" => r.task \in DOMAIN tasks',
         TasksGrow, RestTyped,
         UNCHANGED <<documents, fts>>, history'.indexed = history.indexed
  PROVE  Inv'
<1>1. TypeOK'
  BY DEF Inv, TypeOK, TasksGrow, RestTyped, Moves
<1>2. Places'
  <2> SUFFICES ASSUME NEW q \in Processes PROVE Placed(process[q])'
    BY DEF Places
  <2>1. CASE q = p
    BY <2>1 DEF Placed, Moves
  <2>2. CASE q # p
    <3>1. Placed(process[q]) /\ Stays(q)
      BY <2>2 DEF Inv, Places, Moves
    <3> QED
      BY <3>1 DEF Placed, Stays, TasksGrow
  <2> QED
    BY <2>1, <2>2
<1>3. IndexingHeals'
  BY DEF Inv, IndexInv, IndexingHeals
<1>4. ASSUME NEW q \in Processes
      PROVE  MidIndexing(q)'
  <2>1. CASE q = p
    BY <2>1 DEF MidIndexing, Moves
  <2>2. CASE q # p
    <3>1. MidIndexing(q) /\ Stays(q)
      BY <2>2 DEF Inv, IndexInv, Moves
    <3>2. \A other \in Processes : other # p => Stays(other)
      BY DEF Moves
    <3>3. process'[p].path = None
      BY DEF Moves
    <3> QED
      BY <2>2, <3>1, <3>2, <3>3, ZenonT(60) DEF MidIndexing, Stays
  <2> QED
    BY <2>1, <2>2
<1> QED
  BY <1>1, <1>2, <1>3, <1>4 DEF Inv, IndexInv, TasksGrow

\* No process moves.
LEMMA StillKeeps ==
  ASSUME Inv, UNCHANGED process, TasksGrow, RestTyped,
         UNCHANGED <<documents, fts>>, history'.indexed = history.indexed
  PROVE  Inv'
<1>1. TypeOK'
  BY DEF Inv, TypeOK, TasksGrow, RestTyped
<1>2. Places'
  BY DEF Inv, Places, Placed, TasksGrow
<1>3. IndexInv'
  BY DEF Inv, IndexInv, IndexingHeals, MidIndexing
<1> QED
  BY <1>1, <1>2, <1>3 DEF Inv, TasksGrow

\* A process ends, by an error or because it was stopped.
LEMMA EndKeeps ==
  ASSUME Inv, NEW p \in Processes, Becomes(p, Idle), Unmarked(p),
         UNCHANGED <<clock, tables, files, commands, edits>>, stops' \in 0..MaxStops
  PROVE  Inv'
<1>1. Moves(p, Idle)
  BY IdleTyped, BecomesMoves DEF Inv
<1>2. SameRest
  <2>1. history \in History /\ process[p] \in Process
    BY DEF Inv, TypeOK
  <2>2. CASE process[p].counted
    <3>1. process[p].rows # <<>>
      BY <2>2 DEF Inv, Places, Placed
    <3>3. Current(p).name \in Names
      BY <2>1, <3>1, CurrentTyped
    <3>4. PICK n \in Names : n = Current(p).name
      BY <3>3
    <3>5. history' = [history EXCEPT !.runs[n] = @ - 1]
      BY <2>2, <3>4 DEF Unmarked
    <3> QED
      BY <2>1, <3>5, RunLess
  <2>3. CASE ~process[p].counted
    BY <2>1, <2>3 DEF Unmarked, SameRest
  <2> QED
    BY <2>2, <2>3
<1>3. TasksGrow /\ RestTyped /\ UNCHANGED <<documents, fts>>
  BY <1>2, SameTasks DEF Inv, TypeOK, RestTyped, SameRest, tables
<1>4. Idle.at \notin Writing /\ Idle.at \notin {"run", "mark", "write task"}
  BY IdleTyped DEF Writing
<1> QED
  BY <1>1, <1>2, <1>3, <1>4, IdleTyped, QuietKeeps DEF SameRest

-------------------------------------------------------------------------------
(* Commands and the clock.                                                 *)

LEMMA SmallTyped ==
  ASSUME Inv
  PROVE  /\ clock \in 0..MaxTime /\ commands \in 0..MaxCommands
         /\ edits \in 0..MaxEdits /\ stops \in 0..MaxStops
         /\ MaxTime \in Nat /\ MaxCommands \in Nat /\ MaxEdits \in Nat /\ MaxStops \in Nat
         /\ jobs \in [Names -> Job] /\ nextJob \in Nat /\ history \in History
         /\ files \in [Paths -> 0..MaxEdits \cup {None}] /\ tasks \in Seq(Task)
         /\ \A p \in Processes : process[p] \in Process
BY SchedulerAssumption DEF SchedulerAssumption, Inv, TypeOK

LEMMA LookKeeps ==
  ASSUME Inv, NEW p \in Processes, Look(p), UNCHANGED <<clock, tables, files, edits, stops>>,
         commands' \in 0..MaxCommands
  PROVE  Inv'
<1>1. PICK r \in Process : /\ Moves(p, r)
                           /\ r.at = "run" /\ r.rows # <<>> /\ r.path = None /\ ~r.counted
  BY LookMoves DEF Inv
<1>2. UNCHANGED history
  BY DEF Look
<1>3. TasksGrow /\ RestTyped /\ UNCHANGED <<documents, fts>>
  BY <1>2, SameTasks, SmallTyped DEF RestTyped, tables
<1>4. r.at \notin Writing /\ r.at # "write task"
  BY <1>1 DEF Writing
<1> QED
  BY <1>1, <1>2, <1>3, <1>4, QuietKeeps

LEMMA CommandKeeps ==
  ASSUME Inv, NEW p \in Commands, Command(p)
  PROVE  Inv'
<1>1. p \in Processes /\ commands' \in 0..MaxCommands /\ UNCHANGED <<clock, files, edits, stops>>
  BY SmallTyped DEF Command, Processes
<1>2. process[p] \in Process
  BY <1>1, SmallTyped
<1>3. CASE ScheduleAdd(p)
  <2>1. PICK n \in Names : AddJob(n)
    BY <1>3 DEF ScheduleAdd
  <2>2. UNCHANGED <<tasks, documents, fts, process>>
    BY <1>3 DEF ScheduleAdd
  <2>3. jobs' \in [Names -> Job] /\ nextJob' \in Nat
    <3>1. [id |-> nextJob, last |-> Never] \in Job
      BY SmallTyped DEF Job, Never
    <3> QED
      BY <2>1, <3>1, SmallTyped DEF AddJob
  <2>4. history' = [history EXCEPT !.runs[n] = @ - 1]
    BY <2>1 DEF AddJob
  <2>5. SameRest
    BY <2>4, SmallTyped, RunLess
  <2>6. TasksGrow /\ RestTyped
    BY <1>1, <2>2, <2>3, <2>5, SameTasks, SmallTyped DEF RestTyped, SameRest
  <2> QED
    BY <2>2, <2>5, <2>6, StillKeeps DEF SameRest
<1>4. CASE TaskAdd(p)
  <2>1. PICK priority \in Priorities : AddTask(priority)
    BY <1>4 DEF TaskAdd
  <2>2. UNCHANGED <<jobs, nextJob, documents, fts, process, history>>
    BY <1>4 DEF TaskAdd
  <2>3. TasksGrow /\ RestTyped
    BY <1>1, <2>1, <2>2, NewTask, SmallTyped DEF RestTyped
  <2> QED
    BY <2>2, <2>3, StillKeeps
<1>5. CASE TaskComplete(p)
  <2>1. PICK id \in DOMAIN tasks : CompleteTask(id)
    BY <1>5 DEF TaskComplete
  <2>2. UNCHANGED <<jobs, nextJob, documents, fts, process>>
    BY <1>5 DEF TaskComplete
  <2>3. /\ tasks' = [tasks EXCEPT ![id].status = "done"]
        /\ history' = [history EXCEPT !.completed = @ \cup {id}]
    BY <2>1 DEF CompleteTask
  <2>4. /\ history' \in History /\ history'.completed = history.completed \cup {id}
        /\ history'.overtaken = history.overtaken /\ history'.indexed = history.indexed
    <3>1. id \in Nat /\ history \in History
      BY SmallTyped
    <3> QED
      BY <2>3, <3>1 DEF History
  <2>5. /\ tasks' \in Seq(Task) /\ DOMAIN tasks' = DOMAIN tasks
        /\ tasks'[id].status = "done"
        /\ \A i \in DOMAIN tasks : i # id => tasks'[i] = tasks[i]
    <3>1. tasks[id] \in Task /\ Len(tasks) \in Nat /\ DOMAIN tasks = 1..Len(tasks)
          /\ tasks \in [1..Len(tasks) -> Task]
      BY SmallTyped
    <3>2. [tasks[id] EXCEPT !.status = "done"] \in Task
      BY <3>1 DEF Task
    <3>3. tasks' = [tasks EXCEPT ![id] = [tasks[id] EXCEPT !.status = "done"]]
      BY <2>3
    <3>4. tasks' \in [1..Len(tasks) -> Task]
      BY <3>1, <3>2, <3>3
    <3>5. tasks' \in Seq(Task)
      BY <3>1, <3>4
    <3> QED
      BY <3>1, <3>3, <3>4, <3>5 DEF Task
  <2>6. TasksGrow
    BY <2>4, <2>5 DEF Inv, TasksGrow, Completed, DoneStaysDone
  <2>7. RestTyped
    BY <1>1, <2>2, <2>4, SmallTyped DEF RestTyped
  <2> QED
    BY <2>2, <2>4, <2>6, <2>7, StillKeeps
<1>6. CASE TaskUpdate(p)
  <2>1. PICK id \in 1 .. Len(tasks) + 1, status \in {"pending", "done", None},
             priority \in Priorities \cup {None} :
          Becomes(p, [Idle EXCEPT !.at = "read task", !.task = id, !.status = status,
                                  !.priority = priority])
    BY <1>6 DEF TaskUpdate
  <2> DEFINE r == [Idle EXCEPT !.at = "read task", !.task = id, !.status = status,
                               !.priority = priority]
  <2>2. id \in Nat
    BY SmallTyped
  <2>3. r \in Process /\ r.at = "read task" /\ r.path = None /\ ~r.counted
    BY <2>2, IdleTyped DEF Process
  <2>4. UNCHANGED <<tables, history>> /\ Becomes(p, r)
    BY <1>6, <2>1 DEF TaskUpdate
  <2> HIDE DEF r
  <2>5. Moves(p, r)
    BY <1>1, <2>3, <2>4, BecomesMoves DEF Inv
  <2>6. TasksGrow /\ RestTyped /\ UNCHANGED <<documents, fts>>
    BY <1>1, <2>4, SameTasks, SmallTyped DEF RestTyped, tables
  <2>7. r.at \notin Writing /\ r.at \notin {"run", "mark", "write task"}
    BY <2>3 DEF Writing
  <2> QED
    BY <1>1, <2>3, <2>4, <2>5, <2>6, <2>7, QuietKeeps
<1>7. CASE RagIndex(p)
  <2>1. PICK chosen \in SUBSET Paths :
          Becomes(p, [Idle EXCEPT !.at = "delete document", !.paths = chosen])
    BY <1>7 DEF RagIndex
  <2> DEFINE r == [Idle EXCEPT !.at = "delete document", !.paths = chosen]
  <2>2. r \in Process /\ r.at = "delete document" /\ r.path = None /\ ~r.counted
    BY IdleTyped DEF Process
  <2>3. UNCHANGED <<tables, history>> /\ Becomes(p, r)
    BY <1>7, <2>1 DEF RagIndex
  <2> HIDE DEF r
  <2>4. Moves(p, r)
    BY <1>1, <2>2, <2>3, BecomesMoves DEF Inv
  <2>5. TasksGrow /\ RestTyped /\ UNCHANGED <<documents, fts>>
    BY <1>1, <2>3, SameTasks, SmallTyped DEF RestTyped, tables
  <2>6. r.at \notin Writing /\ r.at \notin {"run", "mark", "write task"}
    BY <2>2 DEF Writing
  <2> QED
    BY <1>1, <2>2, <2>3, <2>4, <2>5, <2>6, QuietKeeps
<1>8. CASE JobsRunOnce(p)
  BY <1>1, <1>8, LookKeeps DEF JobsRunOnce
<1> QED
  BY <1>3, <1>4, <1>5, <1>6, <1>7, <1>8 DEF Command

-------------------------------------------------------------------------------
(* Jobs and updates of tasks.                                              *)

LEMMA RunKeeps ==
  ASSUME Inv, NEW p \in Processes, Run(p)
  PROVE  Inv'
<1> DEFINE n == Current(p).name
           Starts(next) ==
             /\ Becomes(p, [next EXCEPT !.counted = next.lone /\ Every[n] > 0])
             /\ history' = IF next.lone /\ Every[n] > 0
                           THEN [history EXCEPT !.runs[n] = @ + 1] ELSE history
<1>1. process[p] \in Process /\ process[p].at = "run"
  BY SmallTyped DEF Run, At
<1>2. process[p].rows # <<>> /\ process[p].path = None
  BY <1>1 DEF Inv, Places, Placed, Writing
<1>3. n \in Names
  BY <1>1, <1>2, CurrentTyped
<1>4. UNCHANGED <<clock, files, bounds>>
  BY DEF Run
<1>5. ASSUME NEW next \in Process, Starts(next),
             next.rows = process[p].rows, next.path = None,
             next.at \in {"mark", "read task", "delete document"},
             UNCHANGED <<jobs, nextJob, documents, fts>>,
             \/ UNCHANGED tasks
             \/ AddTask(1)
      PROVE  Inv'
  <2> DEFINE r == [next EXCEPT !.counted = next.lone /\ Every[n] > 0]
  <2>1. r \in Process /\ r.rows # <<>> /\ r.path = None /\ r.at = next.at /\ Becomes(p, r)
    BY <1>2, <1>5 DEF Process
  <2> HIDE DEF r
  <2>2. Moves(p, r)
    BY <2>1, BecomesMoves DEF Inv
  <2>3. SameRest
    BY <1>3, <1>5, SmallTyped, RunMore DEF SameRest
  <2>4. TasksGrow
    <3>1. CASE UNCHANGED tasks
      BY <2>3, <3>1, SameTasks, <1>5 DEF SameRest, tables
    <3>2. CASE AddTask(1)
      BY <2>3, <3>2, NewTask, SchedulerAssumption DEF SameRest, SchedulerAssumption
    <3> QED
      BY <1>5, <3>1, <3>2
  <2>5. RestTyped
    BY <1>4, <1>5, <2>3, SmallTyped DEF RestTyped, SameRest, bounds
  <2>6. r.at \notin Writing /\ r.at # "write task"
    BY <1>5, <2>1 DEF Writing
  <2> QED
    BY <1>5, <2>1, <2>2, <2>3, <2>4, <2>5, <2>6, QuietKeeps DEF SameRest
<1>6. CASE /\ n \in Names
           /\ IF Action[n] = "task add" THEN AddTask(1) ELSE UNCHANGED tasks
           /\ Starts([process[p] EXCEPT !.at = "mark"])
           /\ UNCHANGED <<jobs, nextJob, documents, fts>>
  <2> DEFINE next == [process[p] EXCEPT !.at = "mark"]
  <2>1. next \in Process /\ next.rows = process[p].rows /\ next.path = None /\ next.at = "mark"
    BY <1>1, <1>2 DEF Process
  <2>2. Starts(next)
    BY <1>6
  <2> HIDE DEF next, Starts
  <2> QED
    BY <1>5, <1>6, <2>1, <2>2
<1>7. CASE /\ Starts([process[p] EXCEPT !.at = "read task", !.task = 1, !.priority = JobPriority])
           /\ UNCHANGED tables
  <2> DEFINE next == [process[p] EXCEPT !.at = "read task", !.task = 1, !.priority = JobPriority]
  <2>1. /\ next \in Process /\ next.rows = process[p].rows /\ next.path = None
        /\ next.at = "read task"
    BY <1>1, <1>2, SchedulerAssumption DEF Process, SchedulerAssumption
  <2>2. Starts(next) /\ UNCHANGED <<jobs, nextJob, documents, fts, tasks>>
    BY <1>7 DEF tables
  <2> HIDE DEF next, Starts
  <2> QED
    BY <1>5, <2>1, <2>2
<1>8. CASE /\ Starts([process[p] EXCEPT !.at = "delete document", !.paths = Paths])
           /\ UNCHANGED tables
  <2> DEFINE next == [process[p] EXCEPT !.at = "delete document", !.paths = Paths]
  <2>1. /\ next \in Process /\ next.rows = process[p].rows /\ next.path = None
        /\ next.at = "delete document"
    BY <1>1, <1>2 DEF Process
  <2>2. Starts(next) /\ UNCHANGED <<jobs, nextJob, documents, fts, tasks>>
    BY <1>8 DEF tables
  <2> HIDE DEF next, Starts
  <2> QED
    BY <1>5, <2>1, <2>2
<1>9. CASE Becomes(p, Idle) /\ UNCHANGED <<tables, history>>
  <2>1. Moves(p, Idle)
    BY <1>9, IdleTyped, BecomesMoves DEF Inv
  <2>2. TasksGrow /\ RestTyped /\ UNCHANGED <<documents, fts>>
    BY <1>4, <1>9, SameTasks, SmallTyped DEF RestTyped, tables, bounds
  <2>3. Idle.at \notin Writing /\ Idle.at \notin {"run", "mark", "write task"}
    BY IdleTyped DEF Writing
  <2> QED
    BY <1>9, <2>1, <2>2, <2>3, IdleTyped, QuietKeeps
<1> QED
  BY <1>3, <1>6, <1>7, <1>8, <1>9 DEF Run

\* The pass goes on with the next row, or is over.
LEMMA NextRowMoves ==
  ASSUME Inv, NEW p \in Processes, process[p].rows # <<>>, NextRow(p)
  PROVE  \E r \in Process :
           /\ Moves(p, r) /\ r.path = None /\ ~r.counted
           /\ r.at \notin Writing /\ r.at \notin {"mark", "write task"}
           /\ r.at = "run" => r.rows # <<>>
<1> DEFINE rest == Tail(process[p].rows)
           r    == IF rest = <<>> THEN Idle
                   ELSE [Idle EXCEPT !.at = "run", !.rows = rest, !.now = process[p].now,
                                     !.lone = process[p].lone]
<1>1. process[p] \in Process
  BY SmallTyped
<1>2. rest \in Seq([name : Names, id : Nat])
  BY <1>1, CurrentTyped
<1>3. Becomes(p, r)
  BY DEF NextRow
<1> HIDE DEF rest
<1>4. /\ r \in Process /\ r.path = None /\ ~r.counted /\ r.at \in {"idle", "run"}
      /\ r.at = "run" => r.rows # <<>>
  BY <1>1, <1>2, IdleTyped, ZenonT(60) DEF Process
<1> HIDE DEF r
<1>5. Moves(p, r)
  BY <1>3, <1>4, BecomesMoves DEF Inv
<1>6. r.at \notin Writing /\ r.at \notin {"mark", "write task"}
  BY <1>4 DEF Writing
<1> QED
  BY <1>4, <1>5, <1>6

LEMMA MarkKeeps ==
  ASSUME Inv, NEW p \in Processes, MarkRun(p)
  PROVE  Inv'
<1>1. process[p] \in Process /\ process[p].rows # <<>>
  BY SmallTyped DEF MarkRun, At, Inv, Places, Placed
<1>2. PICK r \in Process :
           /\ Moves(p, r) /\ r.path = None /\ ~r.counted
           /\ r.at \notin Writing /\ r.at \notin {"mark", "write task"}
           /\ r.at = "run" => r.rows # <<>>
  BY <1>1, NextRowMoves DEF MarkRun
<1>3. UNCHANGED <<clock, nextJob, tasks, files, documents, fts, history, bounds>>
  BY DEF MarkRun
<1>4. jobs' \in [Names -> Job]
  <2>1. Current(p).name \in Names /\ process[p].now \in Never .. MaxTime
    <3>1. process[p].now \in 0..MaxTime /\ MaxTime \in Nat
      BY <1>1, SmallTyped DEF Process
    <3>2. process[p].now \in Never .. MaxTime
      BY <3>1 DEF Never
    <3> QED
      BY <1>1, <3>2, CurrentTyped
  <2>2. PICK n \in Names : n = Current(p).name
    BY <2>1
  <2>3. jobs' = jobs \/ jobs' = [jobs EXCEPT ![n] = [jobs[n] EXCEPT !.last = process[p].now]]
    BY <2>2, SmallTyped DEF MarkRun, Mark
  <2>4. [jobs[n] EXCEPT !.last = process[p].now] \in Job
    BY <2>1, SmallTyped DEF Job
  <2> QED
    BY <2>3, <2>4, SmallTyped
<1>5. TasksGrow /\ RestTyped
  BY <1>3, <1>4, SmallTyped DEF RestTyped, bounds, TasksGrow, Inv, Completed, DoneStaysDone
<1> QED
  BY <1>2, <1>3, <1>5, QuietKeeps

LEMMA SkipKeeps ==
  ASSUME Inv, NEW p \in Processes, Skip(p)
  PROVE  Inv'
<1>1. process[p] \in Process /\ process[p].rows # <<>>
  BY SmallTyped DEF Skip, At, Inv, Places, Placed
<1>2. PICK r \in Process :
           /\ Moves(p, r) /\ r.path = None /\ ~r.counted
           /\ r.at \notin Writing /\ r.at \notin {"mark", "write task"}
           /\ r.at = "run" => r.rows # <<>>
  BY <1>1, NextRowMoves DEF Skip
<1>3. UNCHANGED <<clock, tables, files, history, bounds>>
  BY DEF Skip
<1>4. TasksGrow /\ RestTyped /\ UNCHANGED <<documents, fts>>
  BY <1>3, SameTasks, SmallTyped DEF RestTyped, bounds, tables
<1> QED
  BY <1>2, <1>3, <1>4, QuietKeeps

\* Where a process goes when it has done its work.
LEMMA FinishedTyped ==
  ASSUME Inv, NEW p \in Processes
  PROVE  LET r == Finished(p)
         IN  /\ r \in Process /\ r.at \in {"idle", "mark"}
             /\ r.at = "mark" \/ r.counted => r.rows # <<>>
             /\ process[p].path = None => r.path = None
<1>1. process[p] \in Process
  BY SmallTyped
<1>2. CASE process[p].rows = <<>>
  BY <1>2, IdleTyped DEF Finished
<1>3. CASE process[p].rows # <<>>
  <2>1. Finished(p) = [process[p] EXCEPT !.at = "mark"]
    BY <1>3 DEF Finished
  <2> QED
    BY <1>1, <1>3, <2>1 DEF Process
<1> QED
  BY <1>2, <1>3

LEMMA ReadTaskKeeps ==
  ASSUME Inv, NEW p \in Processes, ReadTask(p)
  PROVE  Inv'
<1>1. process[p] \in Process /\ process[p].at = "read task" /\ UNCHANGED <<clock, files, bounds>>
  BY SmallTyped DEF ReadTask, At
<1>2. /\ process[p].path = None
      /\ process[p].counted => process[p].rows # <<>>
  BY <1>1 DEF Inv, Places, Placed, Writing
<1>3. CASE process[p].task \in DOMAIN tasks
  <2> DEFINE r == [process[p] EXCEPT !.at = "write task", !.seen = tasks[process[p].task]]
  <2>1. tasks[process[p].task] \in Task
    BY <1>3, SmallTyped
  <2>2. /\ r \in Process /\ r.at = "write task" /\ r.path = None /\ r.task = process[p].task
        /\ r.counted => r.rows # <<>>
    BY <1>1, <1>2, <2>1 DEF Process
  <2>3. Becomes(p, r) /\ UNCHANGED <<tables, history>>
    BY <1>3 DEF ReadTask
  <2> HIDE DEF r
  <2>4. Moves(p, r)
    BY <2>2, <2>3, BecomesMoves DEF Inv
  <2>5. TasksGrow /\ RestTyped /\ UNCHANGED <<documents, fts, tasks>>
    BY <1>1, <2>3, SameTasks, SmallTyped DEF RestTyped, tables, bounds
  <2>6. r.at \notin Writing /\ r.at \notin {"run", "mark"}
    BY <2>2 DEF Writing
  <2> QED
    BY <1>3, <2>2, <2>3, <2>4, <2>5, <2>6, QuietKeeps
<1>4. CASE process[p].task \notin DOMAIN tasks
  <2>1. Fail(p)
    BY <1>4 DEF ReadTask
  <2> QED
    BY <1>1, <2>1, EndKeeps, SmallTyped DEF Fail, bounds
<1> QED
  BY <1>3, <1>4

LEMMA WriteTaskKeeps ==
  ASSUME Inv, NEW p \in Processes, WriteTask(p)
  PROVE  Inv'
<1> DEFINE id == process[p].task
           r  == Finished(p)
           new == Updated(p)
<1>1. /\ process[p] \in Process /\ process[p].at = "write task"
      /\ UNCHANGED <<clock, jobs, nextJob, files, documents, fts, bounds>> /\ Becomes(p, r)
  BY SmallTyped DEF WriteTask, At
<1>2. process[p].path = None /\ id \in DOMAIN tasks /\ id \in Nat
  <2>1. Placed(process[p])
    BY DEF Inv, Places
  <2>2. id \in Nat
    BY <1>1 DEF Process
  <2> QED
    BY <1>1, <2>1, <2>2 DEF Placed, Writing
<1>3. new \in Task
  BY <1>1 DEF Process, Task, Updated, Or
<1>4. tasks' = [tasks EXCEPT ![id] = new]
  BY DEF WriteTask
<1>5. tasks' \in Seq(Task) /\ DOMAIN tasks' = DOMAIN tasks
      /\ tasks'[id] = new /\ \A i \in DOMAIN tasks : i # id => tasks'[i] = tasks[i]
  <2> HIDE DEF new, id
  <2>1. Len(tasks) \in Nat /\ DOMAIN tasks = 1..Len(tasks) /\ tasks \in [1..Len(tasks) -> Task]
    BY SmallTyped
  <2>2. tasks' \in [1..Len(tasks) -> Task]
    BY <1>3, <1>4, <2>1
  <2>3. tasks' \in Seq(Task)
    BY <2>1, <2>2
  <2> QED
    BY <1>2, <1>4, <2>1, <2>3
<1> DEFINE completed == CASE process[p].status = "done"    -> history.completed \cup {id}
                          [] process[p].status = "pending" -> history.completed \ {id}
                          [] OTHER                         -> history.completed
           overtaken == IF process[p].seen # tasks[id] THEN history.overtaken \cup {id}
                        ELSE history.overtaken
<1>6. /\ history' \in History /\ history'.indexed = history.indexed
      /\ history'.completed = completed /\ history'.overtaken = overtaken
  <2>1. history' = [history EXCEPT !.completed = completed, !.overtaken = overtaken]
    BY SmallTyped DEF WriteTask, History
  <2>2. completed \in SUBSET Nat /\ overtaken \in SUBSET Nat
    BY <1>2, SmallTyped DEF History
  <2> HIDE DEF completed, overtaken
  <2> QED
    BY <2>1, <2>2, SmallTyped DEF History
<1>7. completed \subseteq history.completed \cup {id}
  OBVIOUS
<1>8. id \in completed => new.status = "done" \/ id \in overtaken
  <2>1. process[p].status \in {"pending", "done", None} /\ None \notin {"pending", "done"}
    BY <1>1, SchedulerAssumption DEF Process, SchedulerAssumption
  <2>2. new.status = Or(process[p].status, process[p].seen.status)
    BY DEF Updated
  <2>3. CASE process[p].status = "done"
    BY <2>1, <2>2, <2>3 DEF Or
  <2>4. CASE process[p].status = "pending"
    BY <2>4
  <2>5. CASE process[p].status = None
    <3>1. completed = history.completed /\ new.status = process[p].seen.status
      BY <2>1, <2>2, <2>5 DEF Or
    <3>2. id \in history.completed => tasks[id].status = "done" \/ id \in history.overtaken
      BY DEF Inv, DoneStaysDone
    <3> QED
      BY <3>1, <3>2
  <2> QED
    BY <2>1, <2>3, <2>4, <2>5
<1>9. history.overtaken \subseteq overtaken
  OBVIOUS
<1> HIDE DEF completed, overtaken, new
<1>10. TasksGrow
  <2>1. completed \subseteq DOMAIN tasks
    BY <1>2, <1>7 DEF Inv, Completed
  <2>2. ASSUME NEW i \in completed
        PROVE  tasks'[i].status = "done" \/ i \in overtaken
    <3>1. CASE i = id
      BY <1>5, <1>8, <3>1
    <3>2. CASE i # id
      BY <1>5, <1>7, <1>9, <2>1, <3>2 DEF Inv, DoneStaysDone
    <3> QED
      BY <3>1, <3>2
  <2> QED
    BY <1>5, <1>6, <2>1, <2>2 DEF TasksGrow, Completed, DoneStaysDone
<1>11. /\ r \in Process /\ r.at \in {"idle", "mark"} /\ r.path = None
       /\ r.at = "mark" \/ r.counted => r.rows # <<>>
  BY <1>2, FinishedTyped
<1> HIDE DEF r
<1>12. Moves(p, r)
  BY <1>1, <1>11, BecomesMoves DEF Inv
<1>13. RestTyped
  BY <1>1, <1>6, SmallTyped DEF RestTyped, bounds
<1>14. r.at \notin Writing /\ r.at \notin {"run", "write task"}
  BY <1>11 DEF Writing
<1> QED
  BY <1>1, <1>6, <1>10, <1>11, <1>12, <1>13, <1>14, QuietKeeps

-------------------------------------------------------------------------------
(* Indexing.                                                               *)

\* One process takes a step with the path it is in the middle of.
LEMMA TouchKeeps ==
  ASSUME Inv, NEW p \in Processes, NEW r \in Process, NEW path \in Paths,
         process[p].path = path, Moves(p, r), r.path \in {path, None},
         \A q \in Processes : q # p /\ process[q].path = path => ~process'[q].alone,
         documents' \in [Paths -> 0..MaxEdits \cup {None}], fts' \in [Paths -> Seq(0..MaxEdits)],
         \A f \in Paths \ {path} : documents'[f] = documents[f] /\ fts'[f] = fts[f],
         SameDone, \A f \in Paths \ {path} : f \in history'.indexed => f \in history.indexed,
         UNCHANGED <<clock, jobs, nextJob, tasks, files, bounds>>,
         path \in history'.indexed =>
           /\ documents'[path] # None /\ fts'[path] = <<documents'[path]>>
           /\ \A q \in Processes : q # p /\ process[q].path = path => process[q].at \notin Writing,
         r.at \notin {"run", "write task"}, r.at = "mark" \/ r.counted => r.rows # <<>>,
         r.path = None <=> r.at \notin Writing,
         MidIndexing(p)'
  PROVE  Inv'
<1>1. TypeOK'
  BY SmallTyped DEF TypeOK, Moves, SameDone, bounds
<1>2. Places'
  <2> SUFFICES ASSUME NEW q \in Processes PROVE Placed(process[q])'
    BY DEF Places
  <2>1. CASE q = p
    BY <2>1 DEF Placed, Moves
  <2>2. CASE q # p
    <3>1. Placed(process[q]) /\ Stays(q)
      BY <2>2 DEF Inv, Places, Moves
    <3> QED
      BY <3>1 DEF Placed, Stays
  <2> QED
    BY <2>1, <2>2
<1>3. Completed' /\ DoneStaysDone'
  BY DEF Inv, Completed, DoneStaysDone, SameDone
<1>4. IndexingHeals'
  <2> SUFFICES ASSUME NEW f \in history'.indexed
               PROVE  documents'[f] # None /\ fts'[f] = <<documents'[f]>>
    BY DEF IndexingHeals
  <2>1. f \in Paths
    BY DEF SameDone, History
  <2>2. CASE f = path
    BY <2>2
  <2>3. CASE f # path
    BY <2>1, <2>3 DEF Inv, IndexInv, IndexingHeals
  <2> QED
    BY <2>2, <2>3
<1>5. ASSUME NEW q \in Processes
      PROVE  MidIndexing(q)'
  <2>1. CASE q = p
    BY <2>1
  <2>2. CASE q # p
    <3>1. MidIndexing(q) /\ Stays(q) /\ \A other \in Processes : other # p => Stays(other)
      BY <2>2 DEF Inv, IndexInv, Moves
    <3>2. process'[p].path \in {path, None} /\ process[q].path \in Paths \cup {None}
      BY SmallTyped DEF Moves, Process
    <3>3. process[q].at \in Writing => process[q].path # None
      BY DEF Inv, Places, Placed
    <3>4. CASE process[q].path = path
      <4>1. ~process'[q].alone
        BY <2>2, <3>4
      <4>2. process'[q].at \in Writing => path \notin history'.indexed
        BY <2>2, <3>1, <3>4 DEF Stays
      <4>3. process'[q].path = path
        BY <3>1, <3>4 DEF Stays
      <4> QED
        BY <4>1, <4>2, <4>3 DEF MidIndexing
    <3>5. CASE process[q].path = None
      <4>1. process'[q].path = None /\ process'[q].at \notin Writing
        BY <3>1, <3>3, <3>5 DEF Stays
      <4> QED
        BY <4>1 DEF MidIndexing
    <3>6. CASE process[q].path \in Paths \ {path}
      <4> DEFINE f == process[q].path
      <4>1. documents'[f] = documents[f] /\ fts'[f] = fts[f] /\ f # None
            /\ (f \in history'.indexed => f \in history.indexed)
        BY <3>6, SchedulerAssumption DEF SchedulerAssumption
      <4>2. process'[q].path = f
        BY <3>1 DEF Stays
      <4>3. process'[q].alone =>
              \A other \in Processes \ {q} : process'[other].path = f =>
                process'[other].at = "delete document"
        <5> SUFFICES ASSUME process'[q].alone, NEW other \in Processes \ {q},
                            process'[other].path = f
                     PROVE  process'[other].at = "delete document"
          OBVIOUS
        <5>1. other # p
          BY <3>2, <3>6, <4>1
        <5>2. process'[other].at = process[other].at /\ process[other].path = f
          BY <3>1, <5>1 DEF Stays
        <5>3. process[q].alone /\ process[q].path = f
          BY <3>1 DEF Stays
        <5>4. \A o \in Processes \ {q} : process[o].path = f => process[o].at = "delete document"
          BY <3>1, <4>1, <5>3 DEF MidIndexing
        <5> QED
          BY <5>2, <5>4
      <4> HIDE DEF f
      <4>4. process[q].path = f
        BY DEF f
      <4>5. /\ process'[q].at = process[q].at /\ process'[q].content = process[q].content
            /\ process'[q].alone => process[q].alone
        BY <3>1 DEF Stays
      <4>6. process'[q].at \in Writing => f \notin history'.indexed
        BY <3>1, <4>1, <4>4, <4>5 DEF MidIndexing
      <4>7. process'[q].alone /\ process'[q].at \in Writing =>
              /\ process'[q].at \in {"delete fts", "insert document"} => documents'[f] = None
              /\ process'[q].at \in {"insert document", "insert fts"} => fts'[f] = <<>>
              /\ process'[q].at = "insert fts" => documents'[f] = process'[q].content
        BY <3>1, <4>1, <4>4, <4>5 DEF MidIndexing
      <4> QED
        BY <4>2, <4>3, <4>6, <4>7 DEF MidIndexing
    <3> QED
      BY <3>2, <3>4, <3>5, <3>6
  <2> QED
    BY <2>1, <2>2
<1> QED
  BY <1>1, <1>2, <1>3, <1>4, <1>5 DEF Inv, IndexInv

LEMMA ReadFileKeeps ==
  ASSUME Inv, NEW p \in Processes, ReadFile(p)
  PROVE  Inv'
<1> SUFFICES ASSUME ~Fail(p) PROVE Inv'
  BY EndKeeps, SmallTyped DEF ReadFile, Fail, bounds
<1>1. /\ process[p].at = "delete document" /\ process[p].path = None
      /\ UNCHANGED <<clock, tables, files, history, bounds>>
  BY DEF ReadFile, At
<1>2. PICK path \in process[p].paths :
        /\ files[path] # None
        /\ Becomes(p, [process[p] EXCEPT
             !.path = path, !.content = files[path], !.paths = @ \ {path},
             !.alone = \A q \in Processes \ {p} : process[q].path # path])
  BY DEF ReadFile
<1> DEFINE alone == \A q \in Processes \ {p} : process[q].path # path
           r == [process[p] EXCEPT !.path = path, !.content = files[path], !.paths = @ \ {path},
                                   !.alone = alone]
<1>3. process[p] \in Process /\ alone \in BOOLEAN
  BY SmallTyped
<1>4. path \in Paths /\ files[path] \in 0..MaxEdits /\ path # None
  BY <1>2, <1>3, SmallTyped, SchedulerAssumption DEF Process, SchedulerAssumption
<1>5. process[p].counted => process[p].rows # <<>>
  BY DEF Inv, Places, Placed
<1> HIDE DEF alone
<1>6. /\ r \in Process /\ r.at = "delete document" /\ r.path = path /\ r.alone = alone
      /\ r.counted => r.rows # <<>>
  BY <1>1, <1>3, <1>4, <1>5 DEF Process
<1>7. Becomes(p, r)
  BY <1>2 DEF alone
<1> HIDE DEF r
<1>8. Moves(p, r)
  BY <1>6, <1>7, BecomesMoves DEF Inv
<1>9. \A q \in Processes : q # p => process'[q] = process[q]
  BY <1>7 DEF Becomes, Inv, TypeOK
<1>10. TypeOK'
  BY <1>1, <1>8, SmallTyped DEF Inv, TypeOK, Moves, tables, bounds
<1>11. Places'
  BY <1>1, <1>6, <1>8, <1>9 DEF Inv, Places, Placed, Moves, tables, Writing
<1>12. ASSUME NEW q \in Processes
       PROVE  MidIndexing(q)'
  <2>1. CASE q = p
    <3>1. process'[p] = r /\ r.at \notin Writing
      BY <1>6, <1>8 DEF Moves, Writing
    <3>2. alone => \A other \in Processes \ {p} : process'[other].path # path
      BY <1>9 DEF alone
    <3> QED
      BY <1>6, <2>1, <3>1, <3>2 DEF MidIndexing
  <2>2. CASE q # p
    <3>1. MidIndexing(q) /\ process'[q] = process[q]
      BY <1>9, <2>2 DEF Inv, IndexInv
    <3>2. process'[p].at = "delete document"
      BY <1>6, <1>8 DEF Moves
    <3>3. \A other \in Processes : process'[other] = process[other] \/ process'[other].at = "delete document"
      BY <1>9, <3>2
    <3> QED
      BY <1>1, <3>1, <3>3 DEF MidIndexing, tables
  <2> QED
    BY <2>1, <2>2
<1> QED
  BY <1>1, <1>10, <1>11, <1>12
     DEF Inv, IndexInv, IndexingHeals, Completed, DoneStaysDone, tables

\* What the steps in the middle of a path have in common.
LEMMA InTheMiddle ==
  ASSUME Inv, NEW p \in Processes, process[p].path # None
  PROVE  /\ process[p] \in Process /\ process[p].path \in Paths
         /\ process[p].counted => process[p].rows # <<>>
         /\ MidIndexing(p)
BY SmallTyped DEF Inv, Places, Placed, IndexInv, Process

LEMMA DeleteDocumentKeeps ==
  ASSUME Inv, NEW p \in Processes, DeleteDocument(p)
  PROVE  Inv'
<1> DEFINE path == process[p].path
           r == [process[p] EXCEPT !.at = "delete fts"]
<1>1. /\ process[p].at = "delete document" /\ path # None
      /\ documents' = [documents EXCEPT ![path] = None]
      /\ Touch(p, path, r)
      /\ history' = [history EXCEPT !.indexed = @ \ {path}]
      /\ UNCHANGED <<clock, jobs, nextJob, tasks, files, fts, bounds>>
  BY DEF DeleteDocument, At
<1>2. process[p] \in Process /\ path \in Paths /\ (process[p].counted => process[p].rows # <<>>)
      /\ MidIndexing(p)
  BY <1>1, InTheMiddle
<1>3. /\ r \in Process /\ r.at = "delete fts" /\ r.path = path /\ r.alone = process[p].alone
      /\ r.counted => r.rows # <<>>
  BY <1>2 DEF Process
<1>4. PICK f \in Paths : f = path
  BY <1>2
<1> HIDE DEF path, r
<1>5. Moves(p, r) /\ \A q \in Processes : q # p /\ process[q].path = f => ~process'[q].alone
  BY <1>1, <1>3, <1>4, TouchMoves DEF Inv
<1>6. /\ documents' \in [Paths -> 0..MaxEdits \cup {None}] /\ documents'[f] = None
      /\ \A g \in Paths \ {f} : documents'[g] = documents[g] /\ fts'[g] = fts[g]
      /\ fts' \in [Paths -> Seq(0..MaxEdits)]
  BY <1>1, <1>4 DEF Inv, TypeOK
<1>7. SameDone /\ history'.indexed = history.indexed \ {f}
  BY <1>1, <1>4, SmallTyped DEF SameDone, History
<1>8. MidIndexing(p)'
  <2>1. process'[p] = r
    BY <1>5 DEF Moves
  <2>2. r.alone => \A q \in Processes \ {p} : process'[q].path = f => process'[q].at = "delete document"
    <3> SUFFICES ASSUME r.alone, NEW q \in Processes \ {p}, process'[q].path = f
                 PROVE  process'[q].at = "delete document"
      OBVIOUS
    <3>1. process[q].path = f /\ process'[q].at = process[q].at
      BY <1>5 DEF Moves, Stays
    <3> QED
      BY <1>1, <1>2, <1>3, <1>4, <3>1 DEF MidIndexing, path
  <2> QED
    BY <1>3, <1>4, <1>6, <1>7, <2>1, <2>2 DEF MidIndexing
<1>9. process[p].path = f /\ r.path = f /\ f # None /\ r.at \in Writing /\ r.at \notin {"run", "mark", "write task"}
  BY <1>1, <1>3, <1>4 DEF path, Writing
<1> QED
  BY <1>1, <1>3, <1>5, <1>6, <1>7, <1>8, <1>9, TouchKeeps

LEMMA DeleteFtsKeeps ==
  ASSUME Inv, NEW p \in Processes, DeleteFts(p)
  PROVE  Inv'
<1> DEFINE path == process[p].path
           r == [process[p] EXCEPT !.at = "insert document"]
<1>1. /\ process[p].at = "delete fts"
      /\ fts' = [fts EXCEPT ![path] = <<>>]
      /\ Touch(p, path, r)
      /\ UNCHANGED <<clock, jobs, nextJob, tasks, files, documents, history, bounds>>
  BY DEF DeleteFts, At
<1>2. path # None
  BY <1>1 DEF Inv, Places, Placed, Writing
<1>3. process[p] \in Process /\ path \in Paths /\ (process[p].counted => process[p].rows # <<>>)
      /\ MidIndexing(p)
  BY <1>2, InTheMiddle
<1>4. /\ r \in Process /\ r.at = "insert document" /\ r.path = path /\ r.alone = process[p].alone
      /\ r.counted => r.rows # <<>>
  BY <1>3 DEF Process
<1>5. PICK f \in Paths : f = path
  BY <1>3
<1>6. /\ f \notin history.indexed
      /\ process[p].alone => documents[f] = None
      /\ process[p].alone =>
           \A q \in Processes \ {p} : process[q].path = f => process[q].at = "delete document"
  BY <1>1, <1>2, <1>3, <1>5 DEF MidIndexing, Writing
<1> HIDE DEF path, r
<1>7. Moves(p, r) /\ \A q \in Processes : q # p /\ process[q].path = f => ~process'[q].alone
  BY <1>1, <1>4, <1>5, TouchMoves DEF Inv
<1>8. /\ documents' \in [Paths -> 0..MaxEdits \cup {None}] /\ fts'[f] = <<>>
      /\ \A g \in Paths \ {f} : documents'[g] = documents[g] /\ fts'[g] = fts[g]
      /\ fts' \in [Paths -> Seq(0..MaxEdits)]
  <2>1. fts \in [Paths -> Seq(0..MaxEdits)] /\ documents \in [Paths -> 0..MaxEdits \cup {None}]
    BY DEF Inv, TypeOK
  <2>2. fts' = [fts EXCEPT ![f] = <<>>]
    BY <1>1, <1>5
  <2>3. <<>> \in Seq(0..MaxEdits)
    OBVIOUS
  <2> QED
    BY <1>1, <2>1, <2>2, <2>3
<1>9. SameDone
  BY <1>1, SmallTyped DEF SameDone
<1>10. MidIndexing(p)'
  <2>1. process'[p] = r
    BY <1>7 DEF Moves
  <2>2. r.alone => \A q \in Processes \ {p} : process'[q].path = f => process'[q].at = "delete document"
    <3> SUFFICES ASSUME r.alone, NEW q \in Processes \ {p}, process'[q].path = f
                 PROVE  process'[q].at = "delete document"
      OBVIOUS
    <3>1. process[q].path = f /\ process'[q].at = process[q].at
      BY <1>7 DEF Moves, Stays
    <3> QED
      BY <1>4, <1>6, <3>1
  <2> QED
    BY <1>1, <1>4, <1>5, <1>6, <1>8, <2>1, <2>2 DEF MidIndexing
<1>11. process[p].path = f /\ r.path = f /\ f # None /\ r.at \in Writing /\ r.at \notin {"run", "mark", "write task"}
  BY <1>2, <1>4, <1>5 DEF path, Writing
<1> QED
  BY <1>1, <1>4, <1>6, <1>7, <1>8, <1>9, <1>10, <1>11, TouchKeeps

LEMMA InsertDocumentKeeps ==
  ASSUME Inv, NEW p \in Processes, InsertDocument(p)
  PROVE  Inv'
<1> DEFINE path == process[p].path
           r == [process[p] EXCEPT !.at = "insert fts"]
<1>1. process[p].at = "insert document" /\ UNCHANGED <<clock, files, bounds>>
  BY DEF InsertDocument, At
<1>2. path # None
  BY <1>1 DEF Inv, Places, Placed, Writing
<1>3. process[p] \in Process /\ path \in Paths /\ (process[p].counted => process[p].rows # <<>>)
      /\ MidIndexing(p)
  BY <1>2, InTheMiddle
<1>4. CASE documents[path] # None
  <2>1. Fail(p)
    BY <1>4 DEF InsertDocument
  <2> QED
    BY <1>1, <2>1, EndKeeps, SmallTyped DEF Fail, bounds
<1>5. CASE documents[path] = None
  <2>1. /\ documents' = [documents EXCEPT ![path] = process[p].content]
        /\ Touch(p, path, r)
        /\ UNCHANGED <<jobs, nextJob, tasks, fts, history>>
    BY <1>5 DEF InsertDocument
  <2>2. /\ r \in Process /\ r.at = "insert fts" /\ r.path = path /\ r.alone = process[p].alone
        /\ r.content = process[p].content /\ r.content \in 0..MaxEdits
        /\ r.counted => r.rows # <<>>
    BY <1>3 DEF Process
  <2>3. PICK f \in Paths : f = path
    BY <1>3
  <2>4. /\ f \notin history.indexed
        /\ process[p].alone => fts[f] = <<>>
        /\ process[p].alone =>
             \A q \in Processes \ {p} : process[q].path = f => process[q].at = "delete document"
    BY <1>1, <1>2, <1>3, <2>3 DEF MidIndexing, Writing
  <2> HIDE DEF path, r
  <2>5. Moves(p, r) /\ \A q \in Processes : q # p /\ process[q].path = f => ~process'[q].alone
    BY <2>1, <2>2, <2>3, TouchMoves DEF Inv
  <2>6. /\ documents' \in [Paths -> 0..MaxEdits \cup {None}] /\ documents'[f] = r.content
        /\ \A g \in Paths \ {f} : documents'[g] = documents[g] /\ fts'[g] = fts[g]
        /\ fts' \in [Paths -> Seq(0..MaxEdits)]
    BY <2>1, <2>2, <2>3 DEF Inv, TypeOK
  <2>7. SameDone
    BY <2>1, SmallTyped DEF SameDone
  <2>8. MidIndexing(p)'
    <3>1. process'[p] = r
      BY <2>5 DEF Moves
    <3>2. r.alone => \A q \in Processes \ {p} : process'[q].path = f => process'[q].at = "delete document"
      <4> SUFFICES ASSUME r.alone, NEW q \in Processes \ {p}, process'[q].path = f
                   PROVE  process'[q].at = "delete document"
        OBVIOUS
      <4>1. process[q].path = f /\ process'[q].at = process[q].at
        BY <2>5 DEF Moves, Stays
      <4> QED
        BY <2>2, <2>4, <4>1
    <3> QED
      BY <2>1, <2>2, <2>3, <2>4, <2>6, <3>1, <3>2 DEF MidIndexing
  <2>9. process[p].path = f /\ r.path = f /\ f # None /\ r.at \in Writing /\ r.at \notin {"run", "mark", "write task"}
    BY <1>2, <2>2, <2>3 DEF path, Writing
  <2> QED
    BY <1>1, <2>1, <2>2, <2>4, <2>5, <2>6, <2>7, <2>8, <2>9, TouchKeeps
<1> QED
  BY <1>4, <1>5

LEMMA InsertFtsKeeps ==
  ASSUME Inv, NEW p \in Processes, InsertFts(p)
  PROVE  Inv'
<1> DEFINE path == process[p].path
           rest == [process[p] EXCEPT !.at = "delete document", !.path = None]
           last == [Finished(p) EXCEPT !.path = None]
           r == IF process[p].paths = {} THEN last ELSE rest
<1>1. /\ process[p].at = "insert fts"
      /\ fts' = [fts EXCEPT ![path] = Append(@, process[p].content)]
      /\ Touch(p, path, r)
      /\ history' = [history EXCEPT !.indexed = IF process[p].alone THEN @ \cup {path}
                                                 ELSE @ \ {path}]
      /\ UNCHANGED <<clock, jobs, nextJob, tasks, files, documents, bounds>>
  BY DEF InsertFts, At
<1>2. path # None
  BY <1>1 DEF Inv, Places, Placed, Writing
<1>3. process[p] \in Process /\ path \in Paths /\ (process[p].counted => process[p].rows # <<>>)
      /\ MidIndexing(p) /\ process[p].content \in 0..MaxEdits
  BY <1>2, InTheMiddle DEF Process
<1>4. /\ last \in Process /\ last.at \in {"idle", "mark"} /\ last.path = None
      /\ last.at = "mark" \/ last.counted => last.rows # <<>>
  BY FinishedTyped, ZenonT(60) DEF Process
<1>5. /\ rest \in Process /\ rest.at = "delete document" /\ rest.path = None
      /\ rest.counted => rest.rows # <<>>
  BY <1>3 DEF Process
<1>6. PICK f \in Paths : f = path
  BY <1>3
<1>7. process[p].alone =>
        /\ fts[f] = <<>> /\ documents[f] = process[p].content
        /\ \A q \in Processes \ {p} : process[q].path = f => process[q].at = "delete document"
  BY <1>1, <1>2, <1>3, <1>6 DEF MidIndexing, Writing
<1> HIDE DEF path, last, rest
<1>8. /\ r \in Process /\ r.path = None /\ r.at \in {"idle", "mark", "delete document"}
      /\ r.at = "mark" \/ r.counted => r.rows # <<>>
  BY <1>4, <1>5
<1> HIDE DEF r
<1>9. Moves(p, r) /\ \A q \in Processes : q # p /\ process[q].path = f => ~process'[q].alone
  BY <1>1, <1>6, <1>8, TouchMoves DEF Inv
<1>10. /\ documents' \in [Paths -> 0..MaxEdits \cup {None}]
       /\ fts'[f] = Append(fts[f], process[p].content)
       /\ \A g \in Paths \ {f} : documents'[g] = documents[g] /\ fts'[g] = fts[g]
       /\ fts' \in [Paths -> Seq(0..MaxEdits)]
  <2>1. fts \in [Paths -> Seq(0..MaxEdits)] /\ documents \in [Paths -> 0..MaxEdits \cup {None}]
    BY DEF Inv, TypeOK
  <2>2. Append(fts[f], process[p].content) \in Seq(0..MaxEdits)
    BY <1>3, <2>1
  <2>3. fts' = [fts EXCEPT ![f] = Append(fts[f], process[p].content)]
    BY <1>1, <1>6
  <2> QED
    BY <1>1, <2>1, <2>2, <2>3
<1>11. /\ SameDone
       /\ history'.indexed = IF process[p].alone THEN history.indexed \cup {f}
                             ELSE history.indexed \ {f}
  BY <1>1, <1>6, SmallTyped DEF SameDone, History
<1>12. r.at \notin Writing /\ r.at \notin {"run", "write task"}
  BY <1>8 DEF Writing
<1>13. MidIndexing(p)'
  BY <1>8, <1>9, <1>12 DEF MidIndexing, Moves
<1>14. f \in history'.indexed =>
         /\ documents'[f] # None /\ fts'[f] = <<documents'[f]>>
         /\ \A q \in Processes : q # p /\ process[q].path = f => process[q].at \notin Writing
  <2> SUFFICES ASSUME f \in history'.indexed
               PROVE  /\ documents'[f] # None /\ fts'[f] = <<documents'[f]>>
                      /\ \A q \in Processes : q # p /\ process[q].path = f => process[q].at \notin Writing
    OBVIOUS
  <2>1. process[p].alone
    BY <1>11
  <2>2. fts'[f] = <<process[p].content>>
    <3>1. fts'[f] = Append(<<>>, process[p].content)
      BY <1>7, <1>10, <2>1
    <3> QED
      BY <3>1
  <2>3. documents'[f] = process[p].content /\ process[p].content # None
    <3>1. process[p].content \in Nat /\ None \notin Nat
      BY <1>3, SchedulerAssumption DEF SchedulerAssumption
    <3> QED
      BY <1>1, <1>7, <2>1, <3>1
  <2> QED
    BY <1>7, <2>1, <2>2, <2>3 DEF Writing
<1>15. process[p].path = f
  BY <1>6 DEF path
<1>16. \A g \in Paths \ {f} : g \in history'.indexed => g \in history.indexed
  BY <1>11
<1>17. UNCHANGED <<clock, jobs, nextJob, tasks, files, bounds>>
  BY <1>1
<1>18. r.path \in {f, None} /\ (r.path = None <=> r.at \notin Writing)
  BY <1>8, <1>12
<1> QED
  BY <1>8, <1>9, <1>10, <1>11, <1>12, <1>13, <1>14, <1>15, <1>16, <1>17, <1>18, TouchKeeps

-------------------------------------------------------------------------------
(* The invariant.                                                          *)

LEMMA InitInv == Init => Inv
<1> SUFFICES ASSUME Init PROVE Inv
  OBVIOUS
<1>1. process = [p \in Processes |-> Idle]
  BY DEF Init
<1>2. \A p \in Processes : process[p] = Idle
  BY <1>1
<1>3. jobs \in [Names -> Job] /\ nextJob \in Nat
  <2>1. \A i \in DOMAIN Scheduled : i \in Nat
    BY SchedulerAssumption DEF SchedulerAssumption
  <2>2. ASSUME NEW n \in Names, \E i \in DOMAIN Scheduled : Scheduled[i] = n
        PROVE  (CHOOSE i \in DOMAIN Scheduled : Scheduled[i] = n) \in DOMAIN Scheduled
    BY <2>2
  <2>3. Never \in Never .. MaxTime
    BY SchedulerAssumption DEF SchedulerAssumption, Never
  <2>4. \A k \in Nat : [id |-> k, last |-> Never] \in Job
    BY <2>3 DEF Job
  <2>5. NoJob \in Job
    BY <2>4 DEF NoJob
  <2>6. Len(Scheduled) \in Nat
    BY SchedulerAssumption DEF SchedulerAssumption
  <2> QED
    BY <2>1, <2>2, <2>4, <2>5, <2>6 DEF Init
<1>4. tasks \in Seq(Task) /\ DOMAIN tasks = {1}
  <2>1. [status |-> "pending", priority |-> 1] \in Task
    BY SchedulerAssumption DEF SchedulerAssumption, Task
  <2> QED
    BY <2>1 DEF Init
<1>5. history \in History /\ history.completed = {} /\ history.indexed = {}
  BY DEF Init, History
<1>6. TypeOK
  <2>1. 0 \in 0..MaxTime /\ 0 \in 0..MaxEdits /\ 0 \in 0..MaxCommands /\ 0 \in 0..MaxStops
    BY SchedulerAssumption DEF SchedulerAssumption
  <2>2. documents \in [Paths -> 0..MaxEdits \cup {None}] /\ fts \in [Paths -> Seq(0..MaxEdits)]
    BY DEF Init
  <2>3. files \in [Paths -> 0..MaxEdits \cup {None}]
    BY <2>1 DEF Init
  <2>4. process \in [Processes -> Process]
    BY <1>1, IdleTyped
  <2> QED
    BY <1>3, <1>4, <1>5, <2>1, <2>2, <2>3, <2>4 DEF Init, TypeOK
<1>7. Idle.at \notin Writing /\ Idle.at \notin {"run", "mark", "write task"}
  BY IdleTyped DEF Writing
<1>8. Places
  BY <1>2, <1>7, IdleTyped DEF Places, Placed
<1>9. IndexInv
  BY <1>2, <1>5, <1>7, IdleTyped DEF IndexInv, IndexingHeals, MidIndexing
<1> QED
  BY <1>5, <1>6, <1>8, <1>9 DEF Inv, Completed, DoneStaysDone

LEMMA StepKeeps ==
  ASSUME Inv, NEW p \in Processes, Step(p)
  PROVE  Inv'
BY SkipKeeps, RunKeeps, MarkKeeps, ReadTaskKeeps, WriteTaskKeeps, ReadFileKeeps, DeleteDocumentKeeps,
   DeleteFtsKeeps, InsertDocumentKeeps, InsertFtsKeeps
   DEF Step, Indexing

LEMMA NextInv == Inv /\ [Next]_vars => Inv'
<1> SUFFICES ASSUME Inv, [Next]_vars PROVE Inv'
  OBVIOUS
<1>1. CASE UNCHANGED vars
  <2>1. TasksGrow /\ RestTyped /\ UNCHANGED <<process, documents, fts, history>>
    BY <1>1, SameTasks, SmallTyped DEF RestTyped, vars, tables, bounds
  <2> QED
    BY <2>1, StillKeeps
<1>2. CASE Serve
  <2>1. Service \in Processes
    BY DEF Processes
  <2> QED
    BY <1>2, <2>1, LookKeeps, SmallTyped DEF Serve, bounds
<1>3. ASSUME NEW p \in Commands, Command(p)
      PROVE  Inv'
  BY <1>3, CommandKeeps
<1>4. ASSUME NEW p \in Processes, Step(p)
      PROVE  Inv'
  BY <1>4, StepKeeps
<1>5. ASSUME NEW p \in Processes, Stop(p)
      PROVE  Inv'
  <2>1. stops' \in 0..MaxStops
    BY <1>5, SmallTyped DEF Stop
  <2> QED
    BY <1>5, <2>1, EndKeeps DEF Stop
<1>6. CASE Edit
  <2>1. UNCHANGED <<clock, tables, process, history, commands, stops>> /\ edits' \in 0..MaxEdits
    BY <1>6, SmallTyped DEF Edit
  <2>2. files' \in [Paths -> 0..MaxEdits \cup {None}]
    BY <1>6, <2>1, SmallTyped DEF Edit
  <2>3. TasksGrow /\ RestTyped /\ UNCHANGED <<documents, fts>>
    BY <2>1, <2>2, SameTasks, SmallTyped DEF RestTyped, tables
  <2> QED
    BY <2>1, <2>3, StillKeeps
<1>7. CASE Tick
  <2>1. UNCHANGED <<tables, files, process, history, bounds>> /\ clock' \in 0..MaxTime
    BY <1>7, SmallTyped DEF Tick
  <2>2. TasksGrow /\ RestTyped /\ UNCHANGED <<documents, fts>>
    BY <2>1, SameTasks, SmallTyped DEF RestTyped, tables, bounds
  <2> QED
    BY <2>1, <2>2, StillKeeps
<1> QED
  BY <1>1, <1>2, <1>3, <1>4, <1>5, <1>6, <1>7 DEF Next

\* Every reachable state of jobs, tasks and index has the invariant.
THEOREM SchedulerInvariant == Spec => []Inv
<1>1. Init => Inv
  BY InitInv
<1>2. Inv /\ [Next]_vars => Inv'
  BY NextInv
<1> QED
  BY <1>1, <1>2, PTL DEF Spec

\* The types of the tables of core/scheduler.rs, core/tasks.rs and core/rag.rs
\* and of what the processes at work on them know.
THEOREM SchedulerTypeCorrect == Spec => []TypeOK
<1>1. Inv => TypeOK
  BY DEF Inv
<1> QED
  BY <1>1, SchedulerInvariant, PTL

\* complete_task is only undone by an update_task that read the task before and
\* overwrote what happened since (core/tasks.rs:78), whoever runs what.
THEOREM CompletedStaysDone == Spec => []DoneStaysDone
<1>1. Inv => DoneStaysDone
  BY DEF Inv
<1> QED
  BY <1>1, SchedulerInvariant, PTL

\* index_path (core/rag.rs:25) heals what stopped or overlapping indexing left
\* in the two tables, whenever it gets through a document alone.
THEOREM IndexIsHealed == Spec => []IndexingHeals
<1>1. Inv => IndexingHeals
  BY DEF Inv, IndexInv
<1> QED
  BY <1>1, SchedulerInvariant, PTL

-------------------------------------------------------------------------------
(* How often a job is run (OncePerInterval).  A pass that no other has     *)
(* looked into may count its runs.  What it may still count was paid for   *)
(* by the time that went by since the job was marked last; the mark, and   *)
(* the place in the pass, say how much that is.                            *)

\* How many intervals of n have begun after t minutes, but for the first.
Turns(t, n) == t \div Every[n]

\* The jobs with an interval; the others are due at every pass.
Timed == {n \in Names : Every[n] > 0}

LEMMA DivideNat ==
  ASSUME NEW a \in Nat, NEW e \in Nat \ {0}
  PROVE  a \div e \in Nat /\ e * (a \div e) <= a /\ a < e * (a \div e) + e
OBVIOUS

\* Later is not less, and an interval later is one more.
LEMMA DivideLater ==
  ASSUME NEW a \in Nat, NEW b \in Nat, NEW e \in Nat \ {0}
  PROVE  /\ a <= b => a \div e <= b \div e
         /\ a + e <= b => 1 + (a \div e) <= b \div e
<1> DEFINE x == a \div e
           y == b \div e
<1>1. x \in Nat /\ y \in Nat /\ e * x <= a /\ b < e * y + e
  BY DivideNat
<1> HIDE DEF x, y
<1>2. ASSUME a <= b
      PROVE  x <= y
  <2> SUFFICES ASSUME y + 1 <= x PROVE FALSE
    BY <1>1
  <2>1. e * (y + 1) <= e * x
    BY <1>1
  <2> QED
    BY <1>1, <1>2, <2>1
<1>3. ASSUME a + e <= b
      PROVE  1 + x <= y
  <2> SUFFICES ASSUME y <= x PROVE FALSE
    BY <1>1
  <2>1. e * y <= e * x
    BY <1>1
  <2> QED
    BY <1>1, <1>3, <2>1
<1> QED
  BY <1>2, <1>3 DEF x, y

LEMMA TurnsGrow ==
  ASSUME NEW n \in Timed, NEW a \in Nat, NEW b \in Nat
  PROVE  /\ Turns(a, n) \in Nat /\ Turns(b, n) \in Nat
         /\ a <= b => Turns(a, n) <= Turns(b, n)
         /\ a + Every[n] <= b => 1 + Turns(a, n) <= Turns(b, n)
<1>1. Every[n] \in Nat \ {0}
  BY SchedulerAssumption DEF SchedulerAssumption, Timed
<1> QED
  BY <1>1, DivideNat, DivideLater DEF Turns

\* The job of a row is still to run.
Unrun(r, i) == r.at = "run" \/ i > 1

\* What a process notes of its pass.
Told(r) ==
  /\ r.at = "idle" => r.rows = <<>>
  /\ r.lone => r.rows # <<>>
  /\ r.counted => r.rows # <<>> /\ r.at # "run"
  /\ \A i, j \in DOMAIN r.rows : r.rows[i].name = r.rows[j].name => i = j

\* How often the job of row i of a pass has run by now, in a table of jobs where
\* it may have been added anew since the pass looked.
Spends(r, i, table, runs) ==
  LET n     == r.rows[i].name
      turns == Turns(r.now, n)
      same  == table[n].id = r.rows[i].id
  IN  n \in Timed =>
        /\ runs[n] <= 1 + turns
        /\ r.lone /\ Unrun(r, i) => runs[n] <= turns
        /\ r.lone /\ Unrun(r, i) /\ ~same => runs[n] < turns /\ table[n].last = Never
        /\ i = 1 /\ r.counted /\ ~same => runs[n] <= turns

Spending(r, table, runs) == \A i \in DOMAIN r.rows : Spends(r, i, table, runs)

\* A pass that nobody looked into is the only one.
OnePass ==
  \A p, q \in Processes : p # q =>
    /\ process[p].lone \/ process[p].counted => ~process[q].lone /\ ~process[q].counted
    /\ process[p].lone => process[q].rows = <<>>

\* What the mark of a job allows it to have run.
Allowance(n) == IF jobs[n].last = Never THEN Turns(clock, n) ELSE 1 + Turns(jobs[n].last, n)

\* The job is run, and its mark still to come.
Inside(r, table, n) == r.counted /\ r.rows[1].name = n /\ table[n].id = r.rows[1].id

Paid(n) ==
  /\ jobs[n].last <= clock
  /\ history.runs[n] <= Allowance(n) + 1
  /\ (\A p \in Processes : ~Inside(process[p], jobs, n)) => history.runs[n] <= Allowance(n)

PassInv ==
  /\ \A p \in Processes : /\ Told(process[p]) /\ process[p].now <= clock
                          /\ Spending(process[p], jobs, history.runs)
  /\ OnePass
  /\ \A n \in Timed : Paid(n)

\* What the types say of a pass.
LEMMA PassTyped ==
  ASSUME Inv
  PROVE  /\ clock \in Nat /\ Timed \subseteq Names
         /\ \A n \in Names : /\ jobs[n].id \in Nat /\ jobs[n].last \in Nat \cup {Never}
                             /\ history.runs[n] \in Int
         /\ \A p \in Processes :
              /\ process[p].now \in Nat
              /\ process[p].rows \in Seq([name : Names, id : Nat])
              /\ \A i \in DOMAIN process[p].rows :
                   process[p].rows[i].name \in Names /\ process[p].rows[i].id \in Nat
<1>1. clock \in Nat /\ \A t \in 0..MaxTime : t \in Nat
  BY SmallTyped
<1>2. ASSUME NEW n \in Names
      PROVE  jobs[n].id \in Nat /\ jobs[n].last \in Nat \cup {Never} /\ history.runs[n] \in Int
  <2>1. jobs[n] \in Job /\ history \in History
    BY SmallTyped
  <2>2. \A t \in Never .. MaxTime : t \in Nat \cup {Never}
    BY SmallTyped DEF Never
  <2> QED
    BY <2>1, <2>2 DEF Job, History
<1>3. ASSUME NEW p \in Processes
      PROVE  /\ process[p].now \in Nat
             /\ process[p].rows \in Seq([name : Names, id : Nat])
             /\ \A i \in DOMAIN process[p].rows :
                  process[p].rows[i].name \in Names /\ process[p].rows[i].id \in Nat
  <2>1. process[p] \in Process
    BY SmallTyped
  <2> DEFINE rows == process[p].rows
             Row  == [name : Names, id : Nat]
  <2>2. rows \in Seq(Row) /\ process[p].now \in Nat
    BY <1>1, <2>1 DEF Process
  <2> HIDE DEF rows, Row
  <2>3. \A i \in DOMAIN rows : rows[i] \in Row
    BY <2>2
  <2> QED
    BY <2>2, <2>3 DEF rows, Row
<1> QED
  BY <1>1, <1>2, <1>3 DEF Timed

\* The first row is the current job.
LEMMA FirstRow ==
  ASSUME Inv, NEW p \in Processes, process[p].rows # <<>>
  PROVE  /\ 1 \in DOMAIN process[p].rows /\ Current(p) = process[p].rows[1]
         /\ Current(p).name \in Names
<1> DEFINE rows == process[p].rows
           Row  == [name : Names, id : Nat]
<1>1. rows \in Seq(Row) /\ rows # <<>>
  BY PassTyped
<1> HIDE DEF Row
<1>2. 1 \in DOMAIN rows /\ Head(rows) = rows[1]
  <2> HIDE DEF rows
  <2>1. Len(rows) \in Nat /\ Len(rows) # 0 /\ DOMAIN rows = 1..Len(rows)
    BY <1>1
  <2> QED
    BY <1>1, <2>1
<1> QED
  BY <1>2, PassTyped DEF Current

-------------------------------------------------------------------------------
(* Steps that begin no pass, run no job and mark none.                     *)

\* A pass goes on with what it was doing, or ends without a run to take back.
Calm(s, r) ==
  \/ /\ r.rows = s.rows /\ r.now = s.now /\ r.lone = s.lone /\ r.counted = s.counted
     /\ r.at # "idle"
     /\ r.at = "run" => s.at = "run"
     /\ s.counted => r.at # "run"
  \/ r = s
  \/ ~s.counted /\ r.rows = <<>> /\ r.now \in {0, s.now} /\ ~r.lone /\ ~r.counted

LEMMA LaterTyped ==
  ASSUME Inv'
  PROVE  clock' \in Nat
<1>1. clock' \in 0..MaxTime /\ MaxTime \in Nat
  BY SchedulerAssumption DEF Inv, TypeOK, SchedulerAssumption
<1> QED
  BY <1>1

LEMMA CalmKeeps ==
  ASSUME Inv, Inv', PassInv, jobs' = jobs, history'.runs = history.runs, clock <= clock',
         \A p \in Processes : Calm(process[p], process'[p])
  PROVE  PassInv'
<1>1. ASSUME NEW p \in Processes
      PROVE  Told(process[p])' /\ process'[p].now <= clock'
  <2>1. Told(process[p]) /\ process[p].now <= clock /\ Calm(process[p], process'[p])
    BY DEF PassInv
  <2>2. process[p].now \in Nat /\ clock \in Nat /\ clock' \in Nat
    BY PassTyped, LaterTyped
  <2>3. Told(process'[p])
    BY <2>1 DEF Told, Calm
  <2> QED
    BY <2>1, <2>2, <2>3 DEF Calm, Told
<1>2. ASSUME NEW p \in Processes
      PROVE  Spending(process'[p], jobs', history'.runs)
  <2>1. Spending(process[p], jobs, history.runs) /\ Calm(process[p], process'[p])
    BY DEF PassInv
  <2>2. CASE process'[p].rows = <<>>
    BY <2>2 DEF Spending
  <2>3. CASE process'[p] = process[p]
    BY <2>1, <2>3
  <2>4. CASE /\ process'[p].rows = process[p].rows /\ process'[p].now = process[p].now
             /\ process'[p].lone = process[p].lone /\ process'[p].counted = process[p].counted
             /\ process'[p].at = "run" => process[p].at = "run"
    <3> SUFFICES ASSUME NEW i \in DOMAIN process[p].rows
                 PROVE  Spends(process'[p], i, jobs, history.runs)
      BY <2>4 DEF Spending
    <3>1. Spends(process[p], i, jobs, history.runs)
      BY <2>1 DEF Spending
    <3> QED
      BY <2>4, <3>1 DEF Spends, Unrun
  <2> QED
    BY <2>1, <2>2, <2>3, <2>4 DEF Calm
<1>3. OnePass'
  <2> SUFFICES ASSUME NEW p \in Processes, NEW q \in Processes, p # q
               PROVE  /\ process'[p].lone \/ process'[p].counted =>
                           ~process'[q].lone /\ ~process'[q].counted
                      /\ process'[p].lone => process'[q].rows = <<>>
    BY DEF OnePass
  <2>1. /\ process[p].lone \/ process[p].counted => ~process[q].lone /\ ~process[q].counted
        /\ process[p].lone => process[q].rows = <<>>
    BY DEF PassInv, OnePass
  <2>2. Calm(process[p], process'[p]) /\ Calm(process[q], process'[q])
    OBVIOUS
  <2>3. process'[p].lone => process[p].lone
    BY <2>2 DEF Calm
  <2>4. process'[p].counted => process[p].counted
    BY <2>2 DEF Calm
  <2>5. /\ process'[q].lone => process[q].lone
        /\ process'[q].counted => process[q].counted
        /\ process[q].rows = <<>> => process'[q].rows = <<>>
    BY <2>2 DEF Calm
  <2> QED
    BY <2>1, <2>3, <2>4, <2>5
<1>4. ASSUME NEW n \in Timed
      PROVE  Paid(n)'
  <2>1. Paid(n)
    BY DEF PassInv
  <2>2. /\ clock \in Nat /\ clock' \in Nat /\ jobs[n].last \in Nat \cup {Never}
        /\ history.runs[n] \in Int
    BY PassTyped, LaterTyped
  <2>3. /\ Turns(clock, n) \in Nat /\ Turns(clock', n) \in Nat
        /\ Turns(clock, n) <= Turns(clock', n)
    BY <2>2, TurnsGrow
  <2>4. jobs[n].last # Never => Turns(jobs[n].last, n) \in Nat
    BY <2>2, TurnsGrow
  <2>5. ASSUME NEW p \in Processes, Inside(process[p], jobs, n)
        PROVE  Inside(process'[p], jobs', n)
    BY <2>5 DEF Inside, Calm
  <2>6. (\A p \in Processes : ~Inside(process'[p], jobs', n)) =>
           \A p \in Processes : ~Inside(process[p], jobs, n)
    BY <2>5
  <2>7. Allowance(n) \in Int /\ Allowance(n)' \in Int /\ Allowance(n) <= Allowance(n)'
    <3>1. /\ Allowance(n) = IF jobs[n].last = Never THEN Turns(clock, n)
                             ELSE 1 + Turns(jobs[n].last, n)
          /\ Allowance(n)' = IF jobs[n].last = Never THEN Turns(clock', n)
                              ELSE 1 + Turns(jobs[n].last, n)
      BY DEF Allowance, Turns
    <3> QED
      BY <2>3, <2>4, <3>1
  <2>8. jobs[n].last <= clock'
    BY <2>1, <2>2 DEF Paid, Never
  <2> DEFINE some == \A p \in Processes : ~Inside(process[p], jobs, n)
             more == \A p \in Processes : ~Inside(process'[p], jobs', n)
  <2>9. history.runs[n] <= Allowance(n) + 1 /\ (some => history.runs[n] <= Allowance(n))
    BY <2>1 DEF Paid
  <2>10. more => some
    BY <2>6
  <2>11. Paid(n)' <=> /\ jobs[n].last <= clock'
                      /\ history.runs[n] <= Allowance(n)' + 1
                      /\ more => history.runs[n] <= Allowance(n)'
    BY DEF Paid
  <2> HIDE DEF some, more
  <2> QED
    BY <2>2, <2>7, <2>8, <2>9, <2>10, <2>11
<1> QED
  BY <1>1, <1>2, <1>3, <1>4 DEF PassInv

\* The others are as they were.
LEMMA BecomesCalm ==
  ASSUME Inv, NEW p \in Processes, NEW r, Becomes(p, r), Calm(process[p], r)
  PROVE  \A q \in Processes : Calm(process[q], process'[q])
<1>1. \A q \in Processes : process'[q] = IF q = p THEN r ELSE process[q]
  BY DEF Inv, TypeOK, Becomes
<1> QED
  BY <1>1 DEF Calm

LEMMA TouchCalm ==
  ASSUME Inv, PassInv, NEW p \in Processes, NEW path, NEW r, Touch(p, path, r),
         Calm(process[p], r)
  PROVE  \A q \in Processes : Calm(process[q], process'[q])
<1> SUFFICES ASSUME NEW q \in Processes PROVE Calm(process[q], process'[q])
  OBVIOUS
<1>1. process[q] \in Process /\ Told(process[q])
  BY SmallTyped DEF PassInv
<1>2. process'[q] = IF q = p THEN r
                    ELSE IF process[q].path = path THEN [process[q] EXCEPT !.alone = FALSE]
                    ELSE process[q]
  BY DEF Touch
<1>3. CASE q = p
  BY <1>2, <1>3
<1>4. CASE q # p /\ process[q].path # path
  BY <1>2, <1>4 DEF Calm
<1>5. CASE q # p /\ process[q].path = path
  <2> DEFINE o == process[q]
  <2>1. process'[q] = [o EXCEPT !.alone = FALSE]
    BY <1>2, <1>5
  <2>2. o \in Process /\ Told(o)
    BY <1>1
  <2> HIDE DEF o
  <2>3. /\ process'[q].rows = o.rows /\ process'[q].now = o.now /\ process'[q].lone = o.lone
        /\ process'[q].counted = o.counted /\ process'[q].at = o.at
    BY <2>1, <2>2 DEF Process
  <2>4. o.at = "idle" => o.rows = <<>> /\ ~o.lone /\ ~o.counted
    BY <2>2 DEF Told
  <2> QED
    BY <2>2, <2>3, <2>4 DEF Calm, Told, o
<1> QED
  BY <1>3, <1>4, <1>5

-------------------------------------------------------------------------------
(* Steps that begin a pass, run a job or mark one.                         *)

\* A due job has run less often than intervals have begun, but for the run that
\* another pass may be inside of.
LEMMA DueIsPaid ==
  ASSUME Inv, PassInv, NEW n \in DueNames, n \in Timed
  PROVE  /\ n \in Names /\ Turns(clock, n) \in Nat
         /\ history.runs[n] <= Turns(clock, n) + 1
         /\ (\A p \in Processes : ~Inside(process[p], jobs, n)) =>
              history.runs[n] <= Turns(clock, n)
<1>1. n \in Names /\ Due(n) /\ Paid(n)
  BY DEF DueNames, PassInv
<1>2. clock \in Nat /\ jobs[n].last \in Nat \cup {Never} /\ history.runs[n] \in Int
  BY <1>1, PassTyped
<1>3. Turns(clock, n) \in Nat /\ Allowance(n) \in Nat /\ Allowance(n) <= Turns(clock, n)
  <2>1. CASE jobs[n].last = Never
    BY <1>1, <1>2, <2>1, TurnsGrow DEF Allowance
  <2>2. CASE jobs[n].last # Never
    <3>1. jobs[n].last \in Nat /\ jobs[n].last + Every[n] <= clock
      BY <1>1, <1>2, <2>2 DEF Due
    <3>2. /\ Turns(clock, n) \in Nat /\ Turns(jobs[n].last, n) \in Nat
          /\ 1 + Turns(jobs[n].last, n) <= Turns(clock, n)
      BY <1>1, <1>2, <3>1, TurnsGrow
    <3> QED
      BY <2>2, <3>2 DEF Allowance
  <2> QED
    BY <2>1, <2>2
<1> DEFINE some == \A p \in Processes : ~Inside(process[p], jobs, n)
<1>4. history.runs[n] <= Allowance(n) + 1 /\ (some => history.runs[n] <= Allowance(n))
  BY <1>1 DEF Paid
<1> HIDE DEF some
<1>5. history.runs[n] <= Turns(clock, n) + 1 /\ (some => history.runs[n] <= Turns(clock, n))
  BY <1>2, <1>3, <1>4
<1> QED
  BY <1>1, <1>3, <1>5 DEF some

LEMMA LookPasses ==
  ASSUME Inv, PassInv, NEW p \in Processes, At(p, "idle"), Look(p),
         UNCHANGED <<clock, jobs>>
  PROVE  PassInv'
<1>1. PICK names \in DueRows :
        process' = [q \in Processes |->
          IF q = p THEN [Idle EXCEPT !.at = "run",
                          !.rows = [i \in 1..Count |-> [name |-> names[i], id |-> jobs[names[i]].id]],
                          !.now = clock,
                          !.lone = \A other \in Processes \ {p} : ~Passing(other)]
          ELSE [process[q] EXCEPT !.lone = FALSE]]
  BY DEF Look
<1> DEFINE rows == [i \in 1..Count |-> [name |-> names[i], id |-> jobs[names[i]].id]]
           lone == \A other \in Processes \ {p} : ~Passing(other)
           r    == [Idle EXCEPT !.at = "run", !.rows = rows, !.now = clock, !.lone = lone]
<1>2. history' = history /\ process' = [q \in Processes |->
        IF q = p THEN r ELSE [process[q] EXCEPT !.lone = FALSE]]
  BY <1>1 DEF Look
<1>3. Count \in Nat /\ names \in [1..Count -> DueNames]
  BY CountTyped DEF DueRows
<1>4. /\ DOMAIN rows = 1..Count
      /\ \A i \in 1..Count : /\ names[i] \in DueNames
                             /\ rows[i].name = names[i] /\ rows[i].id = jobs[names[i]].id
  BY <1>3
<1>5. \A i, j \in 1..Count : names[i] = names[j] => i = j
  <2> SUFFICES ASSUME NEW i \in 1..Count, NEW j \in 1..Count, names[i] = names[j], i < j
               PROVE  FALSE
    BY <1>3
  <2>1. Earlier(names[i], names[j])
    BY DEF DueRows
  <2>2. names[i] \in Names
    BY <1>3 DEF DueNames
  <2>3. jobs[names[i]].id \in Nat
    BY <2>2, PassTyped
  <2> QED
    BY <2>1, <2>3 DEF Earlier
<1>6. Told(process[p]) /\ ~process[p].counted
  BY DEF PassInv, Told, At
<1>7. lone => \A q \in Processes : q # p => process[q].rows = <<>> /\ ~process[q].counted
  <2> SUFFICES ASSUME lone, NEW q \in Processes, q # p
               PROVE  process[q].rows = <<>> /\ ~process[q].counted
    OBVIOUS
  <2>1. ~Passing(q) /\ Told(process[q])
    BY DEF PassInv
  <2> QED
    BY <2>1 DEF Passing, Told
<1> HIDE DEF rows, lone
<1>8. /\ r.at = "run" /\ r.rows = rows /\ r.now = clock /\ r.lone = lone /\ ~r.counted
  BY DEF Idle
<1> HIDE DEF r
<1>9. process'[p] = r
  BY <1>2
<1>10. ASSUME NEW q \in Processes, q # p
       PROVE  /\ process'[q].rows = process[q].rows /\ process'[q].now = process[q].now
              /\ process'[q].at = process[q].at /\ process'[q].counted = process[q].counted
              /\ ~process'[q].lone
  <2> DEFINE o == process[q]
  <2>1. process'[q] = [o EXCEPT !.lone = FALSE] /\ o \in Process
    BY <1>2, <1>10, SmallTyped
  <2> HIDE DEF o
  <2>2. /\ process'[q].rows = o.rows /\ process'[q].now = o.now
        /\ process'[q].at = o.at /\ process'[q].counted = o.counted /\ ~process'[q].lone
    BY <2>1 DEF Process
  <2> QED
    BY <2>2 DEF o
<1>11. Count # 0
  <2>1. DueNames # {} /\ IsFiniteSet(DueNames)
    BY SchedulerAssumption, FS_Subset DEF SchedulerAssumption, Look, DueNames
  <2>2. Cardinality(DueNames) # 0 /\ Cardinality(DueNames) \in Nat
    BY <2>1, FS_EmptySet, FS_CardinalityType
  <2> QED
    BY <2>2, SchedulerAssumption DEF SchedulerAssumption, Count
<1>12. rows # <<>>
  <2>1. 1 \in DOMAIN rows
    BY <1>3, <1>4, <1>11
  <2> QED
    BY <2>1
<1>13. clock \in Nat /\ clock' = clock /\ jobs' = jobs
  BY PassTyped
<1>14. ASSUME NEW q \in Processes
       PROVE  Told(process'[q]) /\ process'[q].now <= clock
  <2>1. CASE q = p
    <3>1. \A i, j \in DOMAIN rows : rows[i].name = rows[j].name => i = j
      BY <1>4, <1>5
    <3> QED
      BY <1>8, <1>9, <1>12, <1>13, <2>1, <3>1 DEF Told
  <2>2. CASE q # p
    <3>1. Told(process[q]) /\ process[q].now <= clock
      BY DEF PassInv
    <3> QED
      BY <1>10, <2>2, <3>1 DEF Told
  <2> QED
    BY <2>1, <2>2
<1>15. ASSUME NEW q \in Processes
       PROVE  Spending(process'[q], jobs, history.runs)
  <2>1. CASE q = p
    <3> SUFFICES ASSUME NEW i \in 1..Count PROVE Spends(r, i, jobs, history.runs)
      BY <1>4, <1>8, <1>9, <2>1 DEF Spending
    <3> DEFINE n == names[i]
    <3>1. n \in DueNames /\ rows[i].name = n /\ rows[i].id = jobs[n].id
      BY <1>4
    <3> SUFFICES ASSUME n \in Timed PROVE Spends(r, i, jobs, history.runs)
      BY <1>8, <3>1 DEF Spends
    <3>2. /\ n \in Names /\ Turns(clock, n) \in Nat
          /\ history.runs[n] <= Turns(clock, n) + 1
          /\ (\A other \in Processes : ~Inside(process[other], jobs, n)) =>
               history.runs[n] <= Turns(clock, n)
      BY <3>1, DueIsPaid
    <3>3. lone => \A other \in Processes : ~Inside(process[other], jobs, n)
      BY <1>6, <1>7 DEF Inside
    <3>4. history.runs[n] \in Int
      BY <3>2, PassTyped
    <3> HIDE DEF n
    <3> QED
      BY <1>8, <3>1, <3>2, <3>3, <3>4 DEF Spends
  <2>2. CASE q # p
    <3> SUFFICES ASSUME NEW i \in DOMAIN process[q].rows
                 PROVE  Spends(process'[q], i, jobs, history.runs)
      BY <1>10, <2>2 DEF Spending
    <3>1. Spends(process[q], i, jobs, history.runs)
      BY DEF PassInv, Spending
    <3> QED
      BY <1>10, <2>2, <3>1 DEF Spends
  <2> QED
    BY <2>1, <2>2
<1>16. OnePass'
  <2> SUFFICES ASSUME NEW a \in Processes, NEW b \in Processes, a # b
               PROVE  /\ process'[a].lone \/ process'[a].counted =>
                           ~process'[b].lone /\ ~process'[b].counted
                      /\ process'[a].lone => process'[b].rows = <<>>
    BY DEF OnePass
  <2>1. process[a].counted => ~process[b].counted
    BY DEF PassInv, OnePass
  <2>2. CASE a = p
    BY <1>7, <1>8, <1>9, <1>10, <2>2
  <2>3. CASE b = p
    BY <1>7, <1>8, <1>9, <1>10, <2>3
  <2>4. CASE a # p /\ b # p
    BY <1>10, <2>1, <2>4
  <2> QED
    BY <2>2, <2>3, <2>4
<1>17. ASSUME NEW n \in Timed
       PROVE  Paid(n)'
  <2>1. Paid(n) /\ Allowance(n)' = Allowance(n)
    BY <1>13 DEF PassInv, Allowance, Turns
  <2>2. ASSUME NEW q \in Processes, Inside(process[q], jobs, n)
        PROVE  Inside(process'[q], jobs', n)
    <3>1. q # p
      BY <1>6, <2>2 DEF Inside
    <3> QED
      BY <1>10, <1>13, <2>2, <3>1 DEF Inside
  <2>3. (\A q \in Processes : ~Inside(process'[q], jobs', n)) =>
           \A q \in Processes : ~Inside(process[q], jobs, n)
    BY <2>2
  <2> QED
    BY <1>2, <1>13, <2>1, <2>3 DEF Paid
<1> QED
  BY <1>2, <1>13, <1>14, <1>15, <1>16, <1>17 DEF PassInv, Told

\* A job is added anew: it has no mark, and one run is forgiven.
LEMMA AddJobPasses ==
  ASSUME Inv, PassInv, NEW n \in Names, AddJob(n), UNCHANGED <<clock, process>>
  PROVE  PassInv'
<1>1. /\ \A m \in Names : m # n => jobs'[m] = jobs[m] /\ history'.runs[m] = history.runs[m]
      /\ jobs'[n].last = Never /\ history'.runs[n] = history.runs[n] - 1
  BY SmallTyped DEF AddJob, History
<1>2. clock \in Nat /\ history.runs[n] \in Int /\ jobs[n].last \in Nat \cup {Never}
  BY PassTyped
<1>3. ASSUME NEW p \in Processes
      PROVE  Spending(process[p], jobs', history'.runs)
  <2> SUFFICES ASSUME NEW i \in DOMAIN process[p].rows
               PROVE  Spends(process[p], i, jobs', history'.runs)
    BY DEF Spending
  <2>1. Spends(process[p], i, jobs, history.runs)
    BY DEF PassInv, Spending
  <2> DEFINE m == process[p].rows[i].name
             t == Turns(process[p].now, m)
  <2> SUFFICES ASSUME m \in Timed PROVE Spends(process[p], i, jobs', history'.runs)
    BY DEF Spends
  <2>2. m \in Names /\ t \in Nat
    BY PassTyped, TurnsGrow
  <2>3. CASE m # n
    BY <1>1, <2>1, <2>2, <2>3 DEF Spends
  <2>4. CASE m = n
    BY <1>1, <1>2, <2>1, <2>2, <2>4 DEF Spends
  <2> QED
    BY <2>3, <2>4
<1>4. ASSUME NEW m \in Timed
      PROVE  Paid(m)'
  <2>1. CASE m # n
    BY <1>1, <2>1 DEF PassInv, Paid, Allowance, Inside, Turns, Timed
  <2>2. CASE m = n
    <3>1. Paid(n) /\ Turns(clock, n) \in Nat /\ n \in Timed
      BY <1>2, <2>2, TurnsGrow DEF PassInv
    <3>2. history.runs[n] - 1 <= Turns(clock, n)
      <4>1. CASE \E p \in Processes : Inside(process[p], jobs, n)
        <5>1. PICK p \in Processes : Inside(process[p], jobs, n)
          BY <4>1
        <5>2. Told(process[p]) /\ process[p].counted /\ process[p].rows[1].name = n
          BY <5>1 DEF PassInv, Inside
        <5>3. 1 \in DOMAIN process[p].rows
          BY <5>2, FirstRow DEF Told
        <5>4. Spends(process[p], 1, jobs, history.runs) /\ process[p].now <= clock
          BY <5>3 DEF PassInv, Spending
        <5>5. history.runs[n] <= 1 + Turns(process[p].now, n)
          BY <3>1, <5>2, <5>4 DEF Spends
        <5>6. /\ Turns(process[p].now, n) \in Nat
              /\ Turns(process[p].now, n) <= Turns(clock, n)
          BY <1>2, <3>1, <5>4, PassTyped, TurnsGrow
        <5> QED
          BY <1>2, <3>1, <5>5, <5>6
      <4>2. CASE \A p \in Processes : ~Inside(process[p], jobs, n)
        <5>1. history.runs[n] <= Allowance(n) /\ jobs[n].last <= clock
          BY <3>1, <4>2 DEF Paid
        <5>2. CASE jobs[n].last = Never
          BY <1>2, <3>1, <5>1, <5>2 DEF Allowance
        <5>3. CASE jobs[n].last # Never
          <6>1. /\ Turns(jobs[n].last, n) \in Nat
                /\ Turns(jobs[n].last, n) <= Turns(clock, n)
            BY <1>2, <3>1, <5>1, <5>3, TurnsGrow
          <6> QED
            BY <1>2, <3>1, <5>1, <5>3, <6>1 DEF Allowance
        <5> QED
          BY <5>2, <5>3
      <4> QED
        BY <4>1, <4>2
    <3>3. Allowance(n)' = Turns(clock, n) /\ jobs'[n].last <= clock'
      BY <1>1, <1>2 DEF Allowance, Turns, Never
    <3>4. history'.runs[n] <= Allowance(n)' /\ history'.runs[n] <= Allowance(n)' + 1
      BY <1>1, <1>2, <3>1, <3>2, <3>3
    <3> QED
      BY <2>2, <3>3, <3>4 DEF Paid
  <2> QED
    BY <2>1, <2>2
<1> QED
  BY <1>3, <1>4 DEF PassInv, OnePass, Told

\* A run that counts: nobody else passes, and the time for it has come.
LEMMA RunPasses ==
  ASSUME Inv, Inv', PassInv, NEW p \in Processes, NEW r, Becomes(p, r), NEW n,
         process[p].at = "run", process[p].lone, n = Current(p).name, n \in Timed,
         r.rows = process[p].rows, r.now = process[p].now, r.lone, r.counted,
         r.at \notin {"idle", "run"},
         history' = [history EXCEPT !.runs[n] = @ + 1], UNCHANGED <<clock, jobs>>
  PROVE  PassInv'
<1> DEFINE rows == process[p].rows
<1>1. /\ Told(process[p]) /\ Spending(process[p], jobs, history.runs)
      /\ process[p].now <= clock /\ rows # <<>>
  BY DEF PassInv, Told
<1>2. 1 \in DOMAIN rows /\ rows[1].name = n /\ n \in Names
  BY <1>1, FirstRow
<1>3. /\ \A m \in Names : m # n => history'.runs[m] = history.runs[m]
      /\ history'.runs[n] = history.runs[n] + 1
  BY <1>2, SmallTyped DEF History
<1>4. process'[p] = r /\ \A q \in Processes : q # p => process'[q] = process[q]
  BY SmallTyped DEF Becomes, Inv, TypeOK
<1>5. \A q \in Processes : q # p =>
        process[q].rows = <<>> /\ ~process[q].lone /\ ~process[q].counted
  BY DEF PassInv, OnePass
<1>6. clock \in Nat /\ history.runs[n] \in Int /\ process[p].now \in Nat
  BY <1>2, PassTyped
<1>7. \A i, j \in DOMAIN rows : rows[i].name = rows[j].name => i = j
  BY <1>1 DEF Told
<1>8. ASSUME NEW q \in Processes
      PROVE  /\ Told(process'[q]) /\ process'[q].now <= clock
             /\ Spending(process'[q], jobs, history'.runs)
  <2>1. CASE q # p
    BY <1>4, <1>5, <2>1 DEF PassInv, Spending
  <2>2. CASE q = p
    <3>1. Told(r) /\ r.now <= clock
      BY <1>1 DEF Told
    <3>2. ASSUME NEW i \in DOMAIN rows
          PROVE  Spends(r, i, jobs, history'.runs)
      <4> DEFINE m == rows[i].name
                 t == Turns(process[p].now, m)
      <4> SUFFICES ASSUME m \in Timed PROVE Spends(r, i, jobs, history'.runs)
        BY DEF Spends
      <4>1. Spends(process[p], i, jobs, history.runs)
        BY <1>1 DEF Spending
      <4>2. m \in Names /\ t \in Nat
        BY PassTyped, TurnsGrow
      <4>3. i \in Nat \ {0}
        BY PassTyped
      <4>4. CASE i = 1
        <5>1. history.runs[n] <= t /\ (jobs[n].id # rows[1].id => history.runs[n] < t)
          BY <1>2, <4>1, <4>4 DEF Spends, Unrun
        <5>2. ~Unrun(r, 1)
          BY DEF Unrun
        <5> QED
          BY <1>2, <1>3, <1>6, <4>2, <4>4, <5>1, <5>2 DEF Spends
      <4>5. CASE i # 1
        <5>1. m # n
          BY <1>2, <1>7, <4>5
        <5>2. Unrun(process[p], i) /\ Unrun(r, i)
          BY <4>3, <4>5 DEF Unrun
        <5> QED
          BY <1>3, <4>1, <4>2, <4>5, <5>1, <5>2 DEF Spends
      <4> QED
        BY <4>4, <4>5
    <3> QED
      BY <1>4, <2>2, <3>1, <3>2 DEF Spending
  <2> QED
    BY <2>1, <2>2
<1>9. OnePass'
  BY <1>4, <1>5 DEF OnePass
<1>10. ASSUME NEW m \in Timed
       PROVE  Paid(m)'
  <2>1. Paid(m) /\ Allowance(m)' = Allowance(m)
    BY DEF PassInv, Allowance, Turns
  <2>2. \A q \in Processes : ~Inside(process[q], jobs, m)
    BY <1>1, <1>5 DEF Inside, Told
  <2>3. history.runs[m] <= Allowance(m) /\ jobs[m].last <= clock
    BY <2>1, <2>2 DEF Paid
  <2>4. /\ Turns(clock, m) \in Nat
        /\ jobs[m].last \in Nat \cup {Never} /\ history.runs[m] \in Int
        /\ jobs[m].last # Never => Turns(jobs[m].last, m) \in Nat
    BY <1>6, PassTyped, TurnsGrow
  <2>5. Allowance(m) \in Int
    BY <2>4 DEF Allowance
  <2>6. CASE m # n
    BY <1>3, <2>1, <2>3, <2>4, <2>5, <2>6 DEF Paid
  <2>7. CASE m = n
    <3>1. history'.runs[n] <= Allowance(n) + 1
      BY <1>3, <1>6, <2>3, <2>5, <2>7
    <3>2. CASE jobs[n].id = rows[1].id
      <4>1. Inside(process'[p], jobs', n)
        BY <1>2, <1>4, <3>2 DEF Inside
      <4> QED
        BY <2>1, <2>3, <2>7, <3>1, <4>1 DEF Paid
    <3>3. CASE jobs[n].id # rows[1].id
      <4>1. jobs[n].last = Never /\ history.runs[n] < Turns(process[p].now, n)
        BY <1>1, <1>2, <3>3 DEF Spending, Spends, Unrun
      <4>2. /\ Turns(process[p].now, n) \in Nat /\ Turns(clock, n) \in Nat
            /\ Turns(process[p].now, n) <= Turns(clock, n)
        BY <1>1, <1>2, <1>6, TurnsGrow
      <4>3. history'.runs[n] <= Turns(clock, n)
        BY <1>3, <1>6, <4>1, <4>2
      <4>4. Allowance(n) = Turns(clock, n)
        BY <4>1 DEF Allowance
      <4> QED
        BY <2>1, <2>3, <2>7, <3>1, <4>3, <4>4 DEF Paid
    <3> QED
      BY <3>2, <3>3
  <2> QED
    BY <2>6, <2>7
<1> QED
  BY <1>4, <1>8, <1>9, <1>10 DEF PassInv, Told

\* A pass ends in the middle of a job: its run is taken back.
LEMMA EndPasses ==
  ASSUME Inv, Inv', PassInv, NEW p \in Processes, Becomes(p, Idle), Unmarked(p),
         UNCHANGED <<clock, jobs>>
  PROVE  PassInv'
<1> DEFINE n == Current(p).name
<1>1. Told(process[p]) /\ Told(Idle) /\ Idle.rows = <<>> /\ Idle.now = 0 /\ ~Idle.lone /\ ~Idle.counted
  BY DEF PassInv, Told, Idle
<1>2. CASE ~process[p].counted
  <2>1. Calm(process[p], Idle)
    BY <1>1, <1>2 DEF Calm
  <2>2. history' = history /\ clock \in Nat
    BY <1>2, PassTyped DEF Unmarked
  <2> QED
    BY <2>1, <2>2, BecomesCalm, CalmKeeps
<1>3. CASE process[p].counted
  <2>1. process[p].rows # <<>> /\ process[p].rows[1].name = n /\ n \in Names
    BY <1>1, <1>3, FirstRow DEF Told
  <2>2. history' = [history EXCEPT !.runs[n] = @ - 1]
    BY <1>3 DEF Unmarked
  <2>3. /\ \A m \in Names : m # n => history'.runs[m] = history.runs[m]
        /\ history'.runs[n] = history.runs[n] - 1
    BY <2>1, <2>2, SmallTyped DEF History
  <2>4. process'[p] = Idle /\ \A q \in Processes : q # p => process'[q] = process[q]
    BY SmallTyped DEF Becomes, Inv, TypeOK
  <2>5. clock \in Nat /\ history.runs[n] \in Int
    BY <2>1, PassTyped
  <2>6. ASSUME NEW q \in Processes
        PROVE  /\ Told(process'[q]) /\ process'[q].now <= clock
               /\ Spending(process'[q], jobs, history'.runs)
    <3>1. CASE q = p
      BY <1>1, <2>4, <2>5, <3>1 DEF Spending
    <3>2. CASE q # p
      <4>1. Told(process[q]) /\ process[q].now <= clock
        BY DEF PassInv
      <4>2. ASSUME NEW i \in DOMAIN process[q].rows
            PROVE  Spends(process[q], i, jobs, history'.runs)
        <5> DEFINE m == process[q].rows[i].name
                   t == Turns(process[q].now, m)
        <5> SUFFICES ASSUME m \in Timed PROVE Spends(process[q], i, jobs, history'.runs)
          BY DEF Spends
        <5>1. Spends(process[q], i, jobs, history.runs)
          BY DEF PassInv, Spending
        <5>2. m \in Names /\ t \in Nat
          BY PassTyped, TurnsGrow
        <5>3. CASE m # n
          BY <2>3, <5>1, <5>2, <5>3 DEF Spends
        <5>4. CASE m = n
          BY <2>3, <2>5, <5>1, <5>2, <5>4 DEF Spends
        <5> QED
          BY <5>3, <5>4
      <4> QED
        BY <2>4, <3>2, <4>1, <4>2 DEF Spending
    <3> QED
      BY <3>1, <3>2
  <2>7. OnePass'
    BY <1>1, <2>4 DEF PassInv, OnePass
  <2>8. ASSUME NEW m \in Timed
        PROVE  Paid(m)'
    <3>1. Paid(m) /\ Allowance(m)' = Allowance(m)
      BY DEF PassInv, Allowance, Turns
    <3>2. /\ Turns(clock, m) \in Nat
          /\ jobs[m].last \in Nat \cup {Never} /\ history.runs[m] \in Int
          /\ jobs[m].last # Never => Turns(jobs[m].last, m) \in Nat
      BY <2>5, PassTyped, TurnsGrow
    <3>3. Allowance(m) \in Int
      BY <3>2 DEF Allowance
    <3>4. CASE m = n
      <4>1. history.runs[n] <= Allowance(n) + 1
        BY <3>1, <3>4 DEF Paid
      <4>2. history'.runs[n] <= Allowance(n) /\ history'.runs[n] <= Allowance(n) + 1
        BY <2>3, <2>5, <3>3, <3>4, <4>1
      <4> QED
        BY <3>1, <3>4, <4>2 DEF Paid
    <3>5. CASE m # n
      <4>1. \A q \in Processes : Inside(process[q], jobs, m) => Inside(process'[q], jobs', m)
        BY <2>1, <2>4, <3>5 DEF Inside
      <4>2. (\A q \in Processes : ~Inside(process'[q], jobs', m)) =>
               \A q \in Processes : ~Inside(process[q], jobs, m)
        BY <4>1
      <4> QED
        BY <2>3, <3>1, <3>5, <4>2 DEF Paid, Timed
    <3> QED
      BY <3>4, <3>5
  <2> QED
    BY <2>4, <2>6, <2>7, <2>8 DEF PassInv, Told
<1> QED
  BY <1>2, <1>3

\* A job is marked with the time its pass looked or is passed over, and the pass
\* goes on.
LEMMA NextRowPasses ==
  ASSUME Inv, Inv', PassInv, NEW p \in Processes, process[p].rows # <<>>, NextRow(p),
         Mark(p, Current(p)) \/ (jobs' = jobs /\ ~process[p].counted),
         UNCHANGED <<clock, history>>
  PROVE  PassInv'
<1> DEFINE rows == process[p].rows
           rest == Tail(rows)
           next == [Idle EXCEPT !.at = "run", !.rows = rest, !.now = process[p].now,
                                !.lone = process[p].lone]
           r    == IF rest = <<>> THEN Idle ELSE next
           n    == Current(p).name
           now  == process[p].now
<1>1. /\ Told(process[p]) /\ Spending(process[p], jobs, history.runs)
      /\ now <= clock /\ rows # <<>>
  BY DEF PassInv
<1>2. 1 \in DOMAIN rows /\ rows[1].name = n /\ n \in Names /\ rows[1] = Current(p)
  BY <1>1, FirstRow
<1>3. Becomes(p, r) /\ UNCHANGED <<clock, history>>
  BY DEF NextRow
<1>4. process'[p] = r /\ \A q \in Processes : q # p => process'[q] = process[q]
  BY <1>3, SmallTyped DEF Becomes, Inv, TypeOK
<1>5. /\ \A m \in Names : m # n => jobs'[m] = jobs[m]
      /\ \A m \in Names : jobs'[m].id = jobs[m].id
      /\ \/ jobs[n].id = rows[1].id /\ jobs'[n].last = now
         \/ jobs' = jobs /\ ~Inside(process[p], jobs, n)
  <2>1. \/ jobs[n].id = rows[1].id /\ jobs' = [jobs EXCEPT ![n].last = now]
        \/ jobs' = jobs /\ (jobs[n].id # rows[1].id \/ ~process[p].counted)
    BY <1>2 DEF Mark
  <2>2. jobs \in [Names -> Job]
    BY SmallTyped
  <2>3. jobs[n].id # rows[1].id \/ ~process[p].counted => ~Inside(process[p], jobs, n)
    BY DEF Inside
  <2> HIDE DEF n, now, rows
  <2>4. n \in Names
    BY <1>2
  <2> QED
    BY <2>1, <2>2, <2>3, <2>4 DEF Job
<1>6. /\ Len(rows) \in Nat /\ DOMAIN rows = 1..Len(rows)
      /\ DOMAIN rest = 1..(Len(rows) - 1)
      /\ \A i \in DOMAIN rest : i + 1 \in DOMAIN rows /\ i + 1 > 1 /\ rest[i] = rows[i + 1]
  <2>1. rows \in Seq([name : Names, id : Nat])
    BY PassTyped
  <2> HIDE DEF rows
  <2>2. Len(rows) \in Nat /\ DOMAIN rows = 1..Len(rows) /\ Len(rows) # 0
    BY <1>1, <2>1
  <2>3. DOMAIN rest = 1..(Len(rows) - 1) /\ \A i \in 1..(Len(rows) - 1) : rest[i] = rows[i + 1]
    BY <1>1, <2>1, <2>2
  <2> QED
    BY <2>2, <2>3
<1>7. clock \in Nat /\ now \in Nat /\ history.runs[n] \in Int
  BY <1>2, PassTyped
<1>8. \A i, j \in DOMAIN rows : rows[i].name = rows[j].name => i = j
  BY <1>1 DEF Told
<1> HIDE DEF rest
<1>9. /\ r.at \in {"idle", "run"} /\ ~r.counted /\ (r.at = "idle" => r.rows = <<>>)
      /\ r.lone => process[p].lone /\ r.rows # <<>> /\ r.at = "run"
      /\ r.now \in {0, now} /\ r.rows \in {<<>>, rest} /\ (r.rows # <<>> => r.now = now)
  BY DEF Idle
<1> HIDE DEF r, next
<1>10. ASSUME NEW i \in DOMAIN r.rows
       PROVE  /\ i + 1 \in DOMAIN rows /\ i + 1 > 1 /\ i \in Nat
              /\ r.rows[i] = rows[i + 1] /\ r.now = now
  <2>1. r.rows # <<>>
    OBVIOUS
  <2>2. r.rows = rest /\ r.now = now
    BY <1>9, <2>1
  <2> QED
    BY <1>6, <2>2
<1>11. ASSUME NEW q \in Processes, q # p
       PROVE  ~process[q].lone
  BY <1>1, <1>11 DEF PassInv, OnePass
<1>12. ASSUME NEW q \in Processes
       PROVE  /\ Told(process'[q]) /\ process'[q].now <= clock
              /\ Spending(process'[q], jobs', history.runs)
  <2>1. CASE q = p
    <3>1. r.now <= clock
      BY <1>1, <1>7, <1>9
    <3>2. ASSUME NEW i \in DOMAIN r.rows, NEW j \in DOMAIN r.rows,
                 r.rows[i].name = r.rows[j].name
          PROVE  i = j
      <4>1. i + 1 = j + 1 /\ i \in Nat /\ j \in Nat
        BY <1>8, <1>10, <3>2
      <4> QED
        BY <4>1
    <3>3. Told(r)
      BY <1>9, <3>2 DEF Told
    <3>4. ASSUME NEW i \in DOMAIN r.rows
          PROVE  Spends(r, i, jobs', history.runs)
      <4> DEFINE m == rows[i + 1].name
                 t == Turns(now, m)
      <4> SUFFICES ASSUME m \in Timed PROVE Spends(r, i, jobs', history.runs)
        BY <1>10 DEF Spends
      <4>1. Spends(process[p], i + 1, jobs, history.runs)
        BY <1>1, <1>10 DEF Spending
      <4>2. m \in Names /\ m # n
        <5>1. i + 1 \in DOMAIN rows /\ i + 1 # 1
          BY <1>10
        <5>2. m \in Names
          BY <5>1, PassTyped
        <5>3. rows[i + 1].name # rows[1].name
          BY <1>2, <1>8, <5>1
        <5> QED
          BY <1>2, <5>2, <5>3
      <4>3. Unrun(process[p], i + 1)
        BY <1>10 DEF Unrun
      <4>4. /\ history.runs[m] <= 1 + t
            /\ process[p].lone => history.runs[m] <= t
            /\ process[p].lone /\ jobs[m].id # rows[i + 1].id =>
                 history.runs[m] < t /\ jobs[m].last = Never
        BY <4>1, <4>3 DEF Spends
      <4>5. r.rows[i] = rows[i + 1] /\ r.now = now /\ jobs'[m] = jobs[m]
        BY <1>5, <1>10, <4>2
      <4> QED
        BY <1>9, <4>4, <4>5 DEF Spends
    <3> QED
      BY <1>4, <2>1, <3>1, <3>3, <3>4 DEF Spending
  <2>2. CASE q # p
    <3>1. Told(process[q]) /\ process[q].now <= clock
      BY DEF PassInv
    <3>2. ASSUME NEW i \in DOMAIN process[q].rows
          PROVE  Spends(process[q], i, jobs', history.runs)
      <4>1. Spends(process[q], i, jobs, history.runs) /\ process[q].rows[i].name \in Names
        BY PassTyped DEF PassInv, Spending
      <4> QED
        BY <1>5, <1>11, <2>2, <4>1 DEF Spends
    <3> QED
      BY <1>4, <2>2, <3>1, <3>2 DEF Spending
  <2> QED
    BY <2>1, <2>2
<1>13. OnePass'
  <2> SUFFICES ASSUME NEW a \in Processes, NEW b \in Processes, a # b
               PROVE  /\ process'[a].lone \/ process'[a].counted =>
                           ~process'[b].lone /\ ~process'[b].counted
                      /\ process'[a].lone => process'[b].rows = <<>>
    BY DEF OnePass
  <2>1. /\ process[a].lone \/ process[a].counted => ~process[b].lone /\ ~process[b].counted
        /\ process[a].lone => process[b].rows = <<>>
    BY DEF PassInv, OnePass
  <2>2. CASE a = p
    BY <1>4, <1>9, <2>1, <2>2
  <2>3. CASE b = p
    BY <1>1, <1>4, <1>9, <1>11, <2>1, <2>3
  <2>4. CASE a # p /\ b # p
    BY <1>4, <2>1, <2>4
  <2> QED
    BY <2>2, <2>3, <2>4
<1>14. ASSUME NEW m \in Timed
       PROVE  Paid(m)'
  <2>1. Paid(m)
    BY DEF PassInv
  <2>2. CASE m = n /\ jobs[n].id = rows[1].id /\ jobs'[n].last = now
    <3>1. history.runs[m] <= 1 + Turns(now, m) /\ Turns(now, m) \in Nat
      BY <1>1, <1>2, <1>7, <2>2, TurnsGrow DEF Spending, Spends
    <3>2. jobs'[m].last = now /\ jobs'[m].last # Never /\ history.runs[m] \in Int
      BY <1>5, <1>7, <2>2 DEF Never
    <3>3. Allowance(m)' = 1 + Turns(now, m)
      BY <3>2 DEF Allowance, Turns
    <3>4. history'.runs[m] <= Allowance(m)' /\ history'.runs[m] <= Allowance(m)' + 1
      BY <1>3, <3>1, <3>2, <3>3
    <3>5. jobs'[m].last <= clock'
      BY <1>1, <1>3, <3>2
    <3> QED
      BY <3>4, <3>5 DEF Paid
  <2>3. CASE m # n \/ (jobs' = jobs /\ ~Inside(process[p], jobs, n))
    <3>1. jobs'[m] = jobs[m] /\ Allowance(m)' = Allowance(m)
      <4>1. jobs'[m] = jobs[m]
        BY <1>5, <2>3, PassTyped
      <4> QED
        BY <1>3, <4>1 DEF Allowance, Turns
    <3>2. ~Inside(process[p], jobs, m)
      BY <1>2, <2>3 DEF Inside
    <3>3. \A q \in Processes : Inside(process[q], jobs, m) => Inside(process'[q], jobs', m)
      BY <1>4, <1>5, <3>1, <3>2 DEF Inside
    <3>4. (\A q \in Processes : ~Inside(process'[q], jobs', m)) =>
             \A q \in Processes : ~Inside(process[q], jobs, m)
      BY <3>3
    <3> QED
      BY <1>3, <2>1, <3>1, <3>4 DEF Paid
  <2> QED
    BY <1>5, <2>2, <2>3
<1> QED
  BY <1>3, <1>12, <1>13, <1>14 DEF PassInv, Told

LEMMA MarkPasses ==
  ASSUME Inv, Inv', PassInv, NEW p \in Processes, MarkRun(p)
  PROVE  PassInv'
<1>1. process[p].rows # <<>>
  BY DEF MarkRun, At, Inv, Places, Placed
<1> QED
  BY <1>1, NextRowPasses DEF MarkRun

LEMMA SkipPasses ==
  ASSUME Inv, Inv', PassInv, NEW p \in Processes, Skip(p)
  PROVE  PassInv'
<1>1. process[p].rows # <<>> /\ ~process[p].counted
  BY DEF Skip, At, Inv, Places, Placed, PassInv, Told
<1> QED
  BY <1>1, NextRowPasses DEF Skip, tables

-------------------------------------------------------------------------------
(* All steps.                                                              *)

LEMMA InitPasses == Init /\ Inv => PassInv
<1> SUFFICES ASSUME Init, Inv PROVE PassInv
  OBVIOUS
<1>1. \A p \in Processes : process[p] = Idle
  BY DEF Init
<1>2. /\ Idle.at = "idle" /\ Idle.rows = <<>> /\ Idle.now = 0 /\ ~Idle.lone /\ ~Idle.counted
      /\ clock = 0
  BY DEF Idle, Init
<1>3. \A p \in Processes : /\ Told(process[p]) /\ process[p].now <= clock
                           /\ Spending(process[p], jobs, history.runs)
  BY <1>1, <1>2 DEF Told, Spending
<1>4. ASSUME NEW n \in Timed
      PROVE  Paid(n)
  <2>1. jobs[n].last = Never /\ history.runs[n] = 0
    BY DEF Init, NoJob, Timed
  <2>2. Turns(clock, n) \in Nat
    BY PassTyped, TurnsGrow
  <2> QED
    BY <1>2, <2>1, <2>2 DEF Paid, Allowance, Never
<1> QED
  BY <1>1, <1>2, <1>3, <1>4 DEF PassInv, OnePass

\* A run that does not count, because another pass looked meanwhile, is calm.
LEMMA RunKeepsPasses ==
  ASSUME Inv, Inv', PassInv, NEW p \in Processes, Run(p)
  PROVE  PassInv'
<1> DEFINE n == Current(p).name
           Starts(next) ==
             /\ Becomes(p, [next EXCEPT !.counted = next.lone /\ Every[n] > 0])
             /\ history' = IF next.lone /\ Every[n] > 0
                           THEN [history EXCEPT !.runs[n] = @ + 1] ELSE history
<1>1. process[p] \in Process /\ process[p].at = "run" /\ Told(process[p]) /\ clock \in Nat
  BY SmallTyped, PassTyped DEF Run, At, PassInv
<1>2. UNCHANGED clock
  BY DEF Run
<1>3. ASSUME NEW next \in Process, Starts(next), UNCHANGED jobs,
             next.rows = process[p].rows, next.now = process[p].now,
             next.lone = process[p].lone, next.at \notin {"idle", "run"}
      PROVE  PassInv'
  <2> DEFINE r == [next EXCEPT !.counted = next.lone /\ Every[n] > 0]
  <2>1. /\ Becomes(p, r) /\ r.rows = process[p].rows /\ r.now = process[p].now
        /\ r.lone = process[p].lone /\ r.counted = (process[p].lone /\ Every[n] > 0)
        /\ r.at = next.at
    BY <1>3 DEF Process
  <2> HIDE DEF r
  <2>2. CASE process[p].lone /\ Every[n] > 0
    <3>1. n \in Timed
      BY <1>1, <2>2, FirstRow DEF Told, Timed
    <3> QED
      BY <1>1, <1>2, <1>3, <2>1, <2>2, <3>1, RunPasses
  <2>3. CASE ~(process[p].lone /\ Every[n] > 0)
    <3>1. Calm(process[p], r)
      <4>1. process[p].counted = FALSE /\ r.counted = FALSE
        BY <1>1, <2>1, <2>3 DEF Told, Process
      <4> QED
        BY <1>1, <1>3, <2>1, <4>1 DEF Calm
    <3>2. history' = history /\ clock <= clock'
      <4>1. ~(next.lone /\ Every[n] > 0)
        BY <1>1, <1>3, <2>3
      <4> QED
        BY <1>1, <1>2, <1>3, <4>1
    <3> HIDE DEF Starts
    <3> QED
      BY <1>1, <1>2, <1>3, <2>1, <3>1, <3>2, BecomesCalm, CalmKeeps
  <2> QED
    BY <2>2, <2>3
<1>4. CASE Starts([process[p] EXCEPT !.at = "mark"]) /\ UNCHANGED jobs
  <2> DEFINE next == [process[p] EXCEPT !.at = "mark"]
  <2>1. /\ next \in Process /\ next.rows = process[p].rows /\ next.now = process[p].now
        /\ next.lone = process[p].lone /\ next.at = "mark"
    BY <1>1 DEF Process
  <2>2. Starts(next)
    BY <1>4
  <2> HIDE DEF next, Starts
  <2> QED
    BY <1>3, <1>4, <2>1, <2>2
<1>5. CASE /\ Starts([process[p] EXCEPT !.at = "read task", !.task = 1, !.priority = JobPriority])
           /\ UNCHANGED jobs
  <2> DEFINE next == [process[p] EXCEPT !.at = "read task", !.task = 1, !.priority = JobPriority]
  <2>1. /\ next \in Process /\ next.rows = process[p].rows /\ next.now = process[p].now
        /\ next.lone = process[p].lone /\ next.at = "read task"
    BY <1>1, SchedulerAssumption DEF Process, SchedulerAssumption
  <2>2. Starts(next)
    BY <1>5
  <2> HIDE DEF next, Starts
  <2> QED
    BY <1>3, <1>5, <2>1, <2>2
<1>6. CASE Starts([process[p] EXCEPT !.at = "delete document", !.paths = Paths]) /\ UNCHANGED jobs
  <2> DEFINE next == [process[p] EXCEPT !.at = "delete document", !.paths = Paths]
  <2>1. /\ next \in Process /\ next.rows = process[p].rows /\ next.now = process[p].now
        /\ next.lone = process[p].lone /\ next.at = "delete document"
    BY <1>1 DEF Process
  <2>2. Starts(next)
    BY <1>6
  <2> HIDE DEF next, Starts
  <2> QED
    BY <1>3, <1>6, <2>1, <2>2
<1>7. CASE Becomes(p, Idle) /\ UNCHANGED <<jobs, history>>
  <2>1. Calm(process[p], Idle)
    BY <1>1 DEF Calm, Told, Idle
  <2> QED
    BY <1>1, <1>2, <1>7, <2>1, BecomesCalm, CalmKeeps
<1> QED
  BY <1>4, <1>5, <1>6, <1>7 DEF Run, tables

\* The work of a job: its pass goes on unnoticed, or ends with an error.
LEMMA WorkKeepsPasses ==
  ASSUME Inv, Inv', PassInv, NEW p \in Processes, ReadTask(p) \/ WriteTask(p) \/ Indexing(p)
  PROVE  PassInv'
<1> DEFINE s == process[p]
<1>1. s \in Process /\ Told(s) /\ clock \in Nat /\ UNCHANGED <<clock, jobs>>
  BY SmallTyped, PassTyped
  DEF PassInv, ReadTask, WriteTask, Indexing, ReadFile, DeleteDocument, DeleteFts,
      InsertDocument, InsertFts, Fail, tables
<1>2. ASSUME NEW r, Calm(s, r), Becomes(p, r), history'.runs = history.runs
      PROVE  PassInv'
  BY <1>1, <1>2, BecomesCalm, CalmKeeps
<1>3. ASSUME NEW r, NEW path, Calm(s, r), Touch(p, path, r), history'.runs = history.runs
      PROVE  PassInv'
  BY <1>1, <1>3, TouchCalm, CalmKeeps
<1>4. CASE Fail(p)
  BY <1>1, <1>4, EndPasses DEF Fail
<1>5. CASE ReadTask(p)
  <2>1. CASE Becomes(p, [s EXCEPT !.at = "write task", !.seen = tasks[s.task]]) /\ UNCHANGED history
    <3> DEFINE seen == tasks[s.task]
               r    == [s EXCEPT !.at = "write task", !.seen = seen]
    <3>1. Becomes(p, r)
      BY <2>1
    <3> HIDE DEF seen
    <3>2. s.at = "read task"
      BY <1>5 DEF ReadTask, At
    <3>3. Calm(s, r)
      BY <1>1, <3>2 DEF Process, Calm
    <3> HIDE DEF r
    <3> QED
      BY <1>2, <2>1, <3>1, <3>3
  <2> QED
    BY <1>4, <1>5, <2>1 DEF ReadTask
<1>6. s.at # "run" /\ s.at # "idle" => Calm(s, Finished(p))
  <2>1. CASE s.rows = <<>>
    BY <1>1, <2>1 DEF Calm, Finished, Told, Idle
  <2>2. CASE s.rows # <<>>
    BY <1>1, <2>2 DEF Calm, Finished, Process
  <2> QED
    BY <2>1, <2>2
<1>7. CASE WriteTask(p)
  <2>1. s.at = "write task" /\ Becomes(p, Finished(p))
    BY <1>7 DEF WriteTask, At
  <2>2. history'.runs = history.runs
    BY <1>7, SmallTyped DEF WriteTask, History
  <2> QED
    BY <1>2, <1>6, <2>1, <2>2
<1>8. CASE ReadFile(p)
  <2> SUFFICES ASSUME ~Fail(p) PROVE PassInv'
    BY <1>4
  <2>1. PICK path \in s.paths :
          Becomes(p, [s EXCEPT
            !.path = path, !.content = files[path], !.paths = @ \ {path},
            !.alone = \A q \in Processes \ {p} : process[q].path # path])
    BY <1>8 DEF ReadFile
  <2> DEFINE content == files[path]
             alone   == \A q \in Processes \ {p} : process[q].path # path
             r       == [s EXCEPT !.path = path, !.content = content, !.paths = @ \ {path},
                                  !.alone = alone]
  <2>2. Becomes(p, r) /\ history' = history /\ s.at = "delete document"
    BY <1>8, <2>1 DEF ReadFile, At
  <2> HIDE DEF content, alone
  <2>3. Calm(s, r)
    BY <1>1, <2>2 DEF Process, Calm
  <2> HIDE DEF r
  <2> QED
    BY <1>2, <2>2, <2>3
<1>9. ASSUME NEW place \in {"delete fts", "insert document", "insert fts"},
             s.at \in {"delete document", "delete fts", "insert document"}
      PROVE  Calm(s, [s EXCEPT !.at = place])
  BY <1>1, <1>9 DEF Process, Calm
<1>10. CASE DeleteDocument(p)
  BY <1>3, <1>9, <1>10, SmallTyped DEF DeleteDocument, At, History
<1>11. CASE DeleteFts(p)
  BY <1>3, <1>9, <1>11 DEF DeleteFts, At
<1>12. CASE InsertDocument(p)
  <2>1. CASE Touch(p, s.path, [s EXCEPT !.at = "insert fts"]) /\ UNCHANGED history
    <3>1. s.at = "insert document"
      BY <1>12 DEF InsertDocument, At
    <3> QED
      BY <1>3, <1>9, <2>1, <3>1
  <2> QED
    BY <1>4, <1>12, <2>1 DEF InsertDocument
<1>13. CASE InsertFts(p)
  <2> DEFINE fin  == Finished(p)
             done == [fin EXCEPT !.path = None]
             rest == [s EXCEPT !.at = "delete document", !.path = None]
             r    == IF s.paths = {} THEN done ELSE rest
  <2>1. Touch(p, s.path, r) /\ s.at = "insert fts"
    BY <1>13 DEF InsertFts, At
  <2>2. history'.runs = history.runs
    BY <1>13, SmallTyped DEF InsertFts, History
  <2>3. Calm(s, fin) /\ fin \in Process
    BY <1>6, <2>1, FinishedTyped
  <2>4. Calm(s, rest)
    BY <1>1, <2>1 DEF Process, Calm
  <2> HIDE DEF fin
  <2>5. /\ done.rows = fin.rows /\ done.now = fin.now /\ done.lone = fin.lone
        /\ done.counted = fin.counted /\ done.at = fin.at
    BY <2>3 DEF Process
  <2> HIDE DEF done, rest
  <2>6. Calm(s, done)
    BY <1>1, <2>1, <2>3, <2>5 DEF Calm, Told
  <2>7. Calm(s, r)
    BY <2>4, <2>6
  <2> HIDE DEF r
  <2> QED
    BY <1>3, <2>1, <2>2, <2>7
<1> QED
  BY <1>5, <1>7, <1>8, <1>10, <1>11, <1>12, <1>13 DEF Indexing

LEMMA CommandKeepsPasses ==
  ASSUME Inv, Inv', PassInv, NEW p \in Processes, Command(p)
  PROVE  PassInv'
<1>1. /\ process[p] \in Process /\ process[p].at = "idle" /\ Told(process[p])
      /\ clock \in Nat /\ UNCHANGED clock
  BY SmallTyped, PassTyped DEF Command, At, PassInv
<1>2. process[p].rows = <<>> /\ ~process[p].lone /\ ~process[p].counted
  BY <1>1 DEF Told
<1>3. ASSUME NEW r, Becomes(p, r), r.rows = <<>>, r.now = 0, ~r.lone, ~r.counted,
             UNCHANGED <<jobs, history>>
      PROVE  PassInv'
  <2>1. Calm(process[p], r)
    BY <1>2, <1>3 DEF Calm
  <2> QED
    BY <1>1, <1>3, <2>1, BecomesCalm, CalmKeeps
<1>4. ASSUME UNCHANGED <<jobs, process>>, history'.runs = history.runs
      PROVE  PassInv'
  BY <1>1, <1>4, CalmKeeps DEF Calm
<1>5. CASE ScheduleAdd(p)
  BY <1>1, <1>5, AddJobPasses DEF ScheduleAdd
<1>6. CASE TaskAdd(p)
  BY <1>4, <1>6 DEF TaskAdd
<1>7. CASE TaskComplete(p)
  <2>1. history'.runs = history.runs
    BY <1>7, SmallTyped DEF TaskComplete, CompleteTask, History
  <2> QED
    BY <1>4, <1>7, <2>1 DEF TaskComplete
<1>8. CASE TaskUpdate(p)
  <2>1. PICK id \in 1 .. Len(tasks) + 1, status \in {"pending", "done", None},
             priority \in Priorities \cup {None} :
          Becomes(p, [Idle EXCEPT !.at = "read task", !.task = id, !.status = status,
                                  !.priority = priority])
    BY <1>8 DEF TaskUpdate
  <2> DEFINE r == [Idle EXCEPT !.at = "read task", !.task = id, !.status = status,
                               !.priority = priority]
  <2>2. r.rows = <<>> /\ r.now = 0 /\ ~r.lone /\ ~r.counted /\ Becomes(p, r)
    BY <2>1 DEF Idle
  <2> HIDE DEF r
  <2> QED
    BY <1>3, <1>8, <2>2 DEF TaskUpdate, tables
<1>9. CASE RagIndex(p)
  <2>1. PICK chosen \in (SUBSET Paths) \ {{}} :
          Becomes(p, [Idle EXCEPT !.at = "delete document", !.paths = chosen])
    BY <1>9 DEF RagIndex
  <2> DEFINE r == [Idle EXCEPT !.at = "delete document", !.paths = chosen]
  <2>2. r.rows = <<>> /\ r.now = 0 /\ ~r.lone /\ ~r.counted /\ Becomes(p, r)
    BY <2>1 DEF Idle
  <2> HIDE DEF r
  <2> QED
    BY <1>3, <1>9, <2>2 DEF RagIndex, tables
<1>10. CASE JobsRunOnce(p)
  BY <1>1, <1>10, LookPasses DEF JobsRunOnce, At, tables
<1> QED
  BY <1>5, <1>6, <1>7, <1>8, <1>9, <1>10 DEF Command

LEMMA StepKeepsPasses ==
  ASSUME Inv, Inv', PassInv, [Next]_vars
  PROVE  PassInv'
<1>1. clock \in Nat /\ Service \in Processes /\ Commands \subseteq Processes
  BY PassTyped DEF Processes
<1>2. CASE Serve
  BY <1>1, <1>2, LookPasses DEF Serve, tables
<1>3. ASSUME NEW p \in Commands, Command(p)
      PROVE  PassInv'
  BY <1>1, <1>3, CommandKeepsPasses
<1>4. ASSUME NEW p \in Processes, Step(p)
      PROVE  PassInv'
  BY <1>4, SkipPasses, RunKeepsPasses, MarkPasses, WorkKeepsPasses DEF Step
<1>5. ASSUME NEW p \in Processes, Stop(p)
      PROVE  PassInv'
  BY <1>5, EndPasses DEF Stop, tables
<1>6. CASE Edit
  BY <1>1, <1>6, CalmKeeps DEF Edit, tables, Calm
<1>7. CASE Tick
  <2>1. clock <= clock' /\ jobs' = jobs /\ history' = history /\ process' = process
    BY <1>1, <1>7 DEF Tick, tables
  <2> QED
    BY <2>1, CalmKeeps DEF Calm
<1>8. CASE UNCHANGED vars
  BY <1>1, <1>8, CalmKeeps DEF vars, Calm
<1> QED
  BY <1>2, <1>3, <1>4, <1>5, <1>6, <1>7, <1>8 DEF Next

\* A job with an interval does its work once in it, for any processes that run due
\* jobs side by side, and any jobs, intervals, rows that cannot be read and
\* failures, but for what the history excuses (run_due_jobs, which marks a job
\* after its work).
THEOREM OncePerIntervalHolds == Spec => []OncePerInterval
<1>1. Inv /\ PassInv => OncePerInterval
  <2> SUFFICES ASSUME Inv, PassInv, NEW n \in Timed
               PROVE  history.runs[n] <= 1 + Turns(clock, n)
    BY DEF OncePerInterval, Turns, Timed
  <2>1. Paid(n)
    BY DEF PassInv
  <2>2. /\ clock \in Nat /\ Turns(clock, n) \in Nat /\ history.runs[n] \in Int
        /\ jobs[n].last \in Nat \cup {Never}
    BY PassTyped, TurnsGrow
  <2>3. CASE \E p \in Processes : Inside(process[p], jobs, n)
    <3>1. PICK p \in Processes : Inside(process[p], jobs, n)
      BY <2>3
    <3>2. Told(process[p]) /\ process[p].counted /\ process[p].rows[1].name = n
      BY <3>1 DEF PassInv, Inside
    <3>3. 1 \in DOMAIN process[p].rows
      BY <3>2, FirstRow DEF Told
    <3>4. Spends(process[p], 1, jobs, history.runs) /\ process[p].now <= clock
      BY <3>3 DEF PassInv, Spending
    <3>5. history.runs[n] <= 1 + Turns(process[p].now, n)
      BY <3>2, <3>4 DEF Spends
    <3>6. /\ Turns(process[p].now, n) \in Nat
          /\ Turns(process[p].now, n) <= Turns(clock, n)
      BY <2>2, <3>4, PassTyped, TurnsGrow
    <3> QED
      BY <2>2, <3>5, <3>6
  <2>4. CASE \A p \in Processes : ~Inside(process[p], jobs, n)
    <3>1. history.runs[n] <= Allowance(n) /\ jobs[n].last <= clock
      BY <2>1, <2>4 DEF Paid
    <3>2. CASE jobs[n].last = Never
      BY <2>2, <3>1, <3>2 DEF Allowance
    <3>3. CASE jobs[n].last # Never
      <4>1. /\ Turns(jobs[n].last, n) \in Nat
            /\ Turns(jobs[n].last, n) <= Turns(clock, n)
        BY <2>2, <3>1, <3>3, TurnsGrow
      <4> QED
        BY <2>2, <3>1, <3>3, <4>1 DEF Allowance
    <3> QED
      BY <3>2, <3>3
  <2> QED
    BY <2>3, <2>4
<1>2. Inv /\ PassInv /\ Inv' /\ [Next]_vars => PassInv'
  BY StepKeepsPasses
<1> QED
  BY <1>1, <1>2, InitInv, InitPasses, SchedulerInvariant, PTL DEF Spec
===============================================================================
