SPECIFICATION HistorySpec
CONSTANTS
  ReserveTokens = 1
  Tokens = {1, 3}
  KeepTokens = {2, 4}
  CallCounts = {0, 1, 2}
  MaxMessages = 5
INVARIANT KeptResultsHaveCalls
CHECK_DEADLOCK FALSE
