SPECIFICATION FairSpec
CONSTANTS
  serve = serve
  c1 = c1
  f1 = f1
  f2 = f2
  Service = serve
  Commands = {c1}
  Names = {"rank", "torn", "docs", "list", "sh"}
  Action <- MCAction
  Every <- MCEvery
  Scheduled <- MCScheduled
  Unreadable = {"torn"}
  Watched = "docs"
  Limit = 3
  Paths = {f1}
  Priorities = {1, 2}
  JobPriority = 2
  None = None
  MaxTime = 1
  MaxCommands = 1
  MaxEdits = 1
  MaxStops = 1
INVARIANTS TypeOK OncePerInterval DoneStaysDone IndexingHeals
PROPERTY DueJobRuns
CHECK_DEADLOCK FALSE
