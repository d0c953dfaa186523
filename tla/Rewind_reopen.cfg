SPECIFICATION RewindSpec
CONSTANTS
  NumEntries = 1
  Texts = {"a"}
  MaxRecords = 5
  MaxTurns = 2
  MaxTroubles = 0
  MaxStory = 1
INVARIANT RefusedForOutsideOnly
CHECK_DEADLOCK FALSE
