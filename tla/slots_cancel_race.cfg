CONSTANTS
  r1 = r1
  r2 = r2
  r3 = r3
  c1 = c1
  convA = convA
  convB = convB
  Requests <- MCRequests
  Conversations <- MCConversations
  ChildrenOf <- SecondHasChild
  Kind <- AllCompletions
  IdSlot <- ThirdNamesSlot
  Conv <- SecondDiffers
  ChildIds = {c1}
  NSlots = 2
  MayFail = FALSE
  MayCancel = TRUE
  KvUnified = FALSE
SPECIFICATION Spec
CHECK_DEADLOCK FALSE
INVARIANTS CancelIsFinal
