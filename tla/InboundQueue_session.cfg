SPECIFICATION Spec
CONSTANTS
  serve = serve
  voice = voice
  tg1 = tg1
  tg2 = tg2
  vo = vo
  m1 = m1
  m2 = m2
  m3 = m3
  Procs = {serve}
  Waiters = {}
  Sessions = {tg1}
  VoiceSessions = {}
  Messages = {m1, m2, m3}
  SessionOf <- OneSession
  Broken = {}
  Debounce = 1
  Cap = 1
  Summarize = TRUE
  GlobalMax = 1
  LeaseTimeout = 1
  WaitTimeout = 2
  MaxRows = 3
  MaxTime = 4
  LastArrival = 4
  MaxCrashes = 1
  LastCrash = 2
INVARIANTS TypeOK NothingLost AtMostOneReply RunsBoundedByCrashes
PROPERTIES TerminalIsFinal KeepsPromise
SYMMETRY Interchangeable
