SPECIFICATION Spec
CONSTANTS
  u1 = u1
  u2 = u2
  Users = {u1}
  Sends <- Completing
  Stages <- ThreeStages
  Assistant = {"assistant_name"}
  Describing = {"user_role"}
  None = None
  MaxMessages = 6
  MaxStops = 0
INVARIANT KnownWhenTold
CHECK_DEADLOCK FALSE
