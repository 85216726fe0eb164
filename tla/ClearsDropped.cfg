CONSTANTS
  p = p
  c = c
  x = x
  Kinds = {p, c, x}
  Clears = {c}
  ClearFingerprint <- MCClearFingerprint
  Deduplicate = TRUE
  AllowDuplicateClears = FALSE
  DuplicateClearInterval = 0
  MaxQueueLen = 2
  ChunkSize = 2
  MaxEvents = 5
SPECIFICATION EQMSpec
INVARIANT ClearsSurviveDiscards
