\* The runs end after MaxRuns, and after a crash.
CONSTANTS
  Index <- MCIndex
  SegmentTime = {0, 5, 10}
  TsNumber <- MCTsNumber
  KeyNumber = {0, 2, 7}
  NameLength = {499, 500}
  MaxRuns = 2
SPECIFICATION Spec
INVARIANTS RunsTile FollowersStayInside
CHECK_DEADLOCK FALSE
