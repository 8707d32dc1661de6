SPECIFICATION Spec
CONSTANTS
  serve = serve
  voice = voice
  tg1 = tg1
  tg2 = tg2
  vo = vo
  m1 = m1
  m2 = m2
  m3 = m3
  Procs = {voice}
  Waiters = {voice}
  Sessions = {tg1, tg2}
  VoiceSessions = {tg1, tg2}
  Messages = {m1, m3}
  SessionOf <- TwoSessions
  Broken = {}
  Debounce = 1
  Cap = 1
  Summarize = TRUE
  GlobalMax = 1
  LeaseTimeout = 1
  WaitTimeout = 2
  MaxRows = 2
  MaxTime = 3
  LastArrival = 2
  MaxCrashes = 1
  LastCrash = 2
INVARIANT LeaseLimit
PROPERTY KeepsPromise
CHECK_DEADLOCK FALSE
