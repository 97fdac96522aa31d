CONSTANTS
  NSeqMax = 3
  MaxTokens = 6
  MaxPrompt = 2
  Settings <- MCSettings
SPECIFICATION Spec
INVARIANTS TypeOK TailsAgree RollbackAccepted SnapshotsValid
PROPERTIES ImplementsStates
