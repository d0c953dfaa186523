SPECIFICATION ServicesSpec
CONSTANTS
  WindowSize = 2
  FailureThresholdPct = 50
  OpenDuration = 1
  HalfOpenMaxProbes = 2
  Callers = {c1, c2}
  MaxRetries = 1
  Replies = {"success", "unauthorized", "config", "retryable"}
  Features = {"network", "timeout", "cancel", "hook", "build", "refresh"}
  ReserveTokens = 1
  Tokens = {1, 3}
  KeepTokens = {2, 4}
  CallCounts = {0, 1, 2}
  MaxMessages = 6
  Root = {"w", "a", "x"}
  Child = {k1, k2}
  ClassOf <- MCClass
  KindOf <- MCKind
  RootLimit = 2
  MaxGeneration = 2
  MaxOperations = 4
  Call = {"call"}
  ExternalRead = {}
  OwnerOf <- MCOwner
  AdmittedUnder <- MCAdmitted
  Decider = {"decider"}
  Control = "control"
  Modes = {"Ask", "Plan", "Yolo"}
  MaxGenerations = 2
  MaxCancelAll = 1
  MaxAuditFailures = 1
  Publisher = {"p", "q"}
  Closer = "p"
  FrontEnd = {f1, f2}
  RetainedCapacity = 1
  ChannelCapacity = 1
  MaxEvents = 3
  MaxConnects = 2
  Doc = {"d"}
  FirstVersion = 1
  Reused = FALSE
  MaxAttempts = 2
  MaxTexts = 3
  MaxInbox = 1
  NumPlaces = 2
  Values = {0, 1, 2}
  LinesOf <- MCLinesOf
  Between = 7
  Editor = {e1, e2}
  Reviewer = {"reviewer"}
  MaxOutside = 1
  NumEntries = 2
  Texts = {"a"}
  MaxRecords = 5
  MaxTurns = 2
  MaxTroubles = 2
  MaxStory = 3
INVARIANTS
  ServicesTypeOK
  SlotsCoverProbes
  CompactionKeepsAnswers
  SubtreeIsHeld RevokedIsCancelled
  OneVerdict ShownSettles
  NothingSkipped
  DocumentsAgree
  RejectReplacesTheShown
  BranchReplays StartupLoads
PROPERTIES
  OpenHoldsFullDuration ApprovedUnderCurrentGeneration CreditStays RewindIsWhole
SYMMETRY Interchangeable
CHECK_DEADLOCK FALSE
