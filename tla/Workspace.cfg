SPECIFICATION WorkspaceSpec
CONSTANTS
  Path = {"x", "y"}
  Existing = {"x"}
  Worktree = {"w"}
  Process = {"p"}
  Capacity = 1
  MaxCrashes = 1
  MaxFailures = 1
  MaxEdits = 1
  Task = {"t"}
  TaskOwner <- MCTaskOwner
  Waiter = {"v"}
  SpoolLimit = 2
  CharStarts = {0, 2}
  MaxOutput = 3
  Server = {"s"}
  ToolCall = {"toolcall"}
  ServerOf <- MCServerOf
  MaxSessions = 2
  MaxNotices = 1
  MaxDeaths = 1
  NumFiles = 2
  FirstFiles = {1}
  Mutation = {"edit", "patch", "replace"}
  Wanted <- MCWanted
  OperationOn <- MCOperationOn
  Doubtful = {"edit"}
  WindowSize = 2
  FailureThresholdPct = 50
  OpenDuration = 1
  HalfOpenMaxProbes = 2
  Callers = {c1, c2}
  MaxRetries = 1
  Replies = {"success", "unauthorized", "config", "retryable"}
  Features = {"network", "timeout", "cancel", "refresh"}
  Decider = {"decider"}
  Control = "control"
  Modes = {"Ask"}
  MaxGenerations = 2
  MaxCancelAll = 0
  MaxAuditFailures = 0
  Publisher = {"p", "q"}
  Closer = "p"
  FrontEnd = {f1, f2}
  RetainedCapacity = 1
  ChannelCapacity = 1
  MaxEvents = 1
  MaxConnects = 2
  Call = {"call"}
  ExternalRead = {}
  OwnerOf <- MCOwner
  AdmittedUnder <- MCAdmitted
INVARIANTS
  WorkspaceTypeOK NothingHalfDone OutputAccounted
  NothingLeftRunning ReadyServesLatest FenceExclusive BaseIsCurrent
PROPERTIES
  RestartResolves CancelWakesListener SilentServerNoticed MutationsEnd
  EveryCallEnds EveryWaitEnds ReceiverEnds
CHECK_DEADLOCK FALSE
