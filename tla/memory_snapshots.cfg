CONSTANTS
  NSeqMax = 3
  MaxTokens = 3
  MaxPrompt = 1
  Settings <- MCSplit
SPECIFICATION Spec
INVARIANTS SnapshotsValid
CHECK_DEADLOCK FALSE
