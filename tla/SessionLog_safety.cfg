SPECIFICATION Spec
CONSTANTS
  MaxOps = 2
  MaxMessages = 0
  MaxRetries = 1
  Troubles = {"crash", "power", "append", "manifest"}
  MaxTroubles = 2
  MaxStory = 3
INVARIANTS
  JournalSound
  NothingAfterDoubt
  CrashedOpsMarked
PROPERTY AckedKept
