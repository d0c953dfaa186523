SPECIFICATION ActorSpec
CONSTANTS
  ReserveTokens = 1
  QueueItems = 1
  QueueBytes = 9
  MaxInputs = 0
  Size <- UnitSize
  Replies <- QueueReplies
  MaxToolCalls = 2
  MaxTurns = 2
  HooksEnabled = FALSE
  KeepBudgets = {}
  SteeringMode = "OneAtATime"
  FollowUpMode = "OneAtATime"
  MaxBuffered = 1
  MaxOverrides = 0
  Commands = {"Prompt", "Abort"}
  SubmitKinds = {}
  ChannelCap = 1
  MaxPrompts = 2
  MaxAdded = 0
  MaxVersion = 0
CHECK_DEADLOCK FALSE
INVARIANT AbortCancels
