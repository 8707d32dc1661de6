SPECIFICATION FairVoiceSpec
CONSTANTS
  serve = serve
  voice = voice
  vo = vo
  m1 = m1
  m2 = m2
  Procs = {serve, voice}
  Waiters = {voice}
  Sessions = {vo}
  VoiceSessions = {vo}
  Messages = {m1, m2}
  SessionOf <- VoiceOnly
  Broken = {m2}
  Debounce = 1
  Cap = 1
  Summarize = TRUE
  GlobalMax = 1
  LeaseTimeout = 1
  WaitTimeout = 1
  MaxRows = 2
  MaxTime = 1
  LastArrival = 1
  MaxCrashes = 1
  LastCrash = 0
INVARIANT HearsItsAnswer
PROPERTIES TurnEnds EventuallyPrompted
CHECK_DEADLOCK FALSE
