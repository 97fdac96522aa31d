CONSTANTS
  r1 = r1
  r2 = r2
  r3 = r3
  c1 = c1
  convA = convA
  convB = convB
  Requests <- MCRequests
  Conversations <- MCConversations
  ChildrenOf <- NoChildTasks
  Kind <- AllCompletions
  IdSlot <- FirstIsFree
  Conv <- SecondDiffers
  ChildIds = {}
  NSlots = 2
  MayFail = FALSE
  MayCancel = FALSE
  KvUnified = FALSE
SPECIFICATION Spec
CHECK_DEADLOCK FALSE
INVARIANTS OwnPrompt
