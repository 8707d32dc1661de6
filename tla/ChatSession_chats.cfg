SPECIFICATION Spec
CONSTANTS
  q1 = q1
  c1 = c1
  s1 = s1
  Queued = {q1}
  Direct = {c1}
  Summarizers = {s1}
  CompactAfter = 4
  Retain = 2
  Quotes = 1
  MaxRuns = 3
  MaxFaults = 2
  DateAllowed = TRUE
  PreferHttp = TRUE
  CliReady = TRUE
INVARIANTS TypeOK QuotedBeforeDeleted  TurnsBounded 
CHECK_DEADLOCK FALSE
