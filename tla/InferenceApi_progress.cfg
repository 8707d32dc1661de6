SPECIFICATION FairSpec
CONSTANTS
  s1 = s1
  s2 = s2
  plain = plain
  Requests = {s1, plain}
  Streaming = {s1}
  MaxConcurrency = 1
  Capacity = 2
  MaxPieces = 3
INVARIANTS TypeOK PermitsConserved StreamsHoldPermits WellFormedStream StopMeansComplete
PROPERTIES StreamEnds PermitComesBack
CHECK_DEADLOCK FALSE
