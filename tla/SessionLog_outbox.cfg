SPECIFICATION Spec
CONSTANTS
  MaxOps = 1
  MaxMessages = 1
  MaxRetries = 1
  Troubles = {"crash"}
  MaxTroubles = 1
  MaxStory = 3
INVARIANT OutboxReadable
