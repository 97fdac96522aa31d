-------------------------- MODULE MCSlotScheduler ---------------------------
(* TLC instances of SlotScheduler. *)
EXTENDS SlotScheduler

CONSTANTS r1, r2, r3, c1, convA, convB

MCConversations == {convA, convB}

MCRequests == {r1, r2, r3}
AllCompletions == [r \in MCRequests |-> "completion"]
NoChildTasks == [r \in MCRequests |-> <<>>]
SecondHasChild == [NoChildTasks EXCEPT ![r2] = <<c1>>]

(* Two completions, the second with a child task, and a slot action on slot 1. *)
ThirdIsAction == [AllCompletions EXCEPT ![r3] = "erase"]
ThirdNamesSlot == [r \in MCRequests |-> IF r = r3 THEN 1 ELSE NoSlot]
SecondDiffers == [r \in MCRequests |-> IF r = r2 THEN convB ELSE convA]

(* A slot used by two conversations; the last two requests name the first slot. *)
FirstIsFree == [r \in MCRequests |-> IF r = r1 THEN NoSlot ELSE 1]
=============================================================================
