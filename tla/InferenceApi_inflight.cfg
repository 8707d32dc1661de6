SPECIFICATION Spec
CONSTANTS
  s1 = s1
  s2 = s2
  plain = plain
  Requests = {s1, plain}
  Streaming = {s1}
  MaxConcurrency = 1
  Capacity = 2
  MaxPieces = 1
INVARIANT InFlightCapped
CHECK_DEADLOCK FALSE
