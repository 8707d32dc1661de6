SPECIFICATION Spec
CONSTANTS
  serve = serve
  voice = voice
  tg1 = tg1
  tg2 = tg2
  vo = vo
  m1 = m1
  m2 = m2
  m3 = m3
  Procs = {serve, voice}
  Waiters = {voice}
  Sessions = {vo}
  VoiceSessions = {vo}
  Messages = {m1}
  SessionOf <- VoiceOnly
  Broken = {}
  Debounce = 1
  Cap = 1
  Summarize = TRUE
  GlobalMax = 1
  LeaseTimeout = 1
  WaitTimeout = 2
  MaxRows = 1
  MaxTime = 3
  LastArrival = 2
  MaxCrashes = 0
  LastCrash = 0
INVARIANT RunLimit
