SPECIFICATION ConfiguredSpec
CONSTANTS
  ReserveTokens = 1
  QueueItems = 1
  QueueBytes = 9
  MaxInputs = 3
  Size <- UnitSize
  Replies <- QueueReplies
  MaxToolCalls = 2
  MaxTurns = 2
  HooksEnabled = FALSE
  KeepBudgets = {}
  SteeringMode = "OneAtATime"
  FollowUpMode = "OneAtATime"
  MaxBuffered = 1
  MaxOverrides = 0
  Commands = {"Prompt", "Abort", "AddMessage", "ReplaceMessages", "DropStream", "DropHandles"}
  SubmitKinds = {"follow_up"}
  ChannelCap = 1
  MaxPrompts = 1
  MaxAdded = 1
  MaxVersion = 0
CHECK_DEADLOCK FALSE
INVARIANTS ActorTypeOK FirstInFirstOut
PROPERTIES UnwantedLoopEnds
