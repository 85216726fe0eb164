CONSTANTS
  x = x
  z = z
  Kinds = {x, z}
  Clears = {}
  ClearFingerprint <- MCClearFingerprint
  Deduplicate = FALSE
  AllowDuplicateClears = TRUE
  DuplicateClearInterval = 0
  MaxQueueLen = 4
  ChunkSize = 2
  MaxEvents = 6
  HighWaterMark = 3
  StopKind = z
  MaxFailures = 2
  MaxReleasing = 2
SPECIFICATION LivePushSpec
INVARIANTS ThrottleJustified NoOccurrenceLost OrderKept
PROPERTIES ThrottleReleased EventsDelivered
CHECK_DEADLOCK FALSE
