SPECIFICATION WorktreeSpec
CONSTANTS
  Path = {"x", "y"}
  Existing = {"x"}
  Worktree = {"w"}
  Process = {"p", "q"}
  Capacity = 1
  MaxCrashes = 1
  MaxFailures = 1
  MaxEdits = 0
PROPERTY RestoresParentBytes
CHECK_DEADLOCK FALSE
