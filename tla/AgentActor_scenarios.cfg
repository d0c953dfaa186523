SPECIFICATION ScenarioSpec
CONSTANTS
  ReserveTokens = 1
  QueueItems = 1
  QueueBytes = 9
  MaxInputs = 2
  Size <- UnitSize
  Replies <- JustAnswer
  MaxToolCalls = 2
  MaxTurns = 2
  HooksEnabled = FALSE
  KeepBudgets = {}
  SteeringMode = "OneAtATime"
  FollowUpMode = "OneAtATime"
  MaxBuffered = 1
  MaxOverrides = 1
  Commands = {"Prompt", "Run", "Abort", "ClearQueues", "EditQueueEntry", "RemoveQueueEntry", "DrainSteeringQueue", "DrainFollowUpQueue", "Shutdown", "DropHandles", "DropStream"}
  SubmitKinds = {"steering", "interjection", "follow_up"}
  ChannelCap = 1
  MaxPrompts = 2
  MaxAdded = 0
  MaxVersion = 1
CHECK_DEADLOCK FALSE
INVARIANTS InputsKeptOnce ToolCallsAnswered OverrideUsedOnce
