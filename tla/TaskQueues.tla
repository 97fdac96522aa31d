----------------------------- MODULE TaskQueues -----------------------------
(***************************************************************************)
(* The three deques of server_queue (tools/server/server-queue.h) as       *)
(* sequences of task records, and the queue operations that several of its *)
(* methods share.  A task is a record with at least the fields             *)
(*                                                                         *)
(*   type    : what callback_new_task dispatches on                        *)
(*   id      : the id of the request it belongs to (the id_target of a     *)
(*             "cancel" task)                                              *)
(*   id_slot : the slot the request asked for, or NoSlot                   *)
(*                                                                         *)
(* Task ids are handed out once (get_new_id), so a deque holds at most one *)
(* task that is not a "cancel" task with a given id.                       *)
(***************************************************************************)
EXTENDS Naturals, Sequences, SequencesExt

(***************************************************************************)
(* cleanup_pending_task on one deque: the task a new CANCEL task targets   *)
(* is erased.  CANCEL tasks have ids of their own and are never targets.   *)
(***************************************************************************)
WithoutTarget(deque, id) ==
  RemoveFirstMatch(deque, LAMBDA t : t.type # "cancel" /\ t.id = id)

(***************************************************************************)
(* The position pop_deferred_task takes from: the first deferred task that *)
(* asked for the released slot, else the front.                            *)
(***************************************************************************)
DeferredPick(deferred, slot) ==
  LET asks == {i \in DOMAIN deferred : deferred[i].id_slot = slot}
  IN  IF asks = {} THEN 1
      ELSE CHOOSE i \in asks : \A j \in asks : i <= j

(* Faults: the declined tasks are dropped, or go behind the queue. *)
PutBackNothing(unhandled, queue) == queue
PutBackBehind(unhandled, queue) == queue \o unhandled

(***************************************************************************)
(* The end of yield_to_queue: the declined tasks go back in front of the   *)
(* queue, keeping their order.                                             *)
(***************************************************************************)
PutBack(unhandled, queue) == unhandled \o queue

(***************************************************************************)
(* A vector of tasks posted with front = true is pushed one at a time, so  *)
(* it lands in front of the queue in reverse order.                        *)
(***************************************************************************)
PushAllFront(tasks, queue) == Reverse(tasks) \o queue
=============================================================================
