SPECIFICATION FairSpec
CONSTANTS
  u1 = u1
  u2 = u2
  Users = {u1, u2}
  Sends <- MCSends
  Stages <- TwoStages
  Assistant = {"assistant_name"}
  Describing = {"user_role"}
  None = None
  MaxMessages = 4
  MaxStops = 1
INVARIANTS TypeOK ScreenMatchesRow AnswersInPlace
PROPERTY FilesAgreeInTheEnd
CHECK_DEADLOCK FALSE
