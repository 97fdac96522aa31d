CONSTANTS
  r1 = r1
  r2 = r2
  r3 = r3
  c1 = c1
  convA = convA
  convB = convB
  Requests <- MCRequests
  Conversations <- MCConversations
  ChildrenOf <- SecondHasChild
  Kind <- ThirdIsAction
  IdSlot <- ThirdNamesSlot
  Conv <- SecondDiffers
  ChildIds = {c1}
  NSlots = 2
  MayFail = TRUE
  MayCancel = TRUE
  KvUnified = TRUE
SPECIFICATION FairSpec
CHECK_DEADLOCK FALSE
INVARIANTS TypeOK RequestConservation NoStrandedChild ChildrenHoldSlots OwnPrompt
PROPERTIES EveryRequestEnds
