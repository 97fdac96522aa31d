--------------------------- MODULE SlotScheduler ----------------------------
(***************************************************************************)
(* How server_context (tools/server/server-context.cpp) puts the tasks of  *)
(* the queue on slots: process_single_task(), get_available_slot(),        *)
(* launch_slots_with_parent_task(), server_slot::release() and the part of *)
(* update_slots() that ends requests, together with the queue operations   *)
(* they call and the HTTP side that posts and cancels requests.            *)
(*                                                                         *)
(* A request is one completion, possibly with child tasks (n_cmpl > 1)     *)
(* that run on slots of their own, or one slot action (erase, like save    *)
(* and restore, works on an idle slot and is deferred from a busy one).    *)
(* The thread in start_loop() pops a task in one critical section and      *)
(* handles it in another, so a client can act in between.  Prompts are     *)
(* abstracted to the conversation they belong to: two prompts share a long *)
(* prefix iff they are of one conversation.  While a decode yields, every  *)
(* task here is declined and put back in order (module ServerQueue), so    *)
(* yields are left out.                                                    *)
(***************************************************************************)
EXTENDS TaskQueues, FiniteSets

CONSTANTS
  Requests,      \* ids of the requests' own tasks
  ChildIds,      \* ids of child tasks
  Conversations,
  NSlots,        \* params.n_parallel
  Kind,          \* [Requests -> {"completion", "erase"}]
  ChildrenOf,    \* [Requests -> Seq(ChildIds)], the child tasks in order
  IdSlot,        \* [Requests -> Slots \cup {NoSlot}], the slot the request names
  Conv,          \* [Requests -> Conversations], the prompt's conversation
  MayFail,       \* launching or running a task may fail
  MayCancel,     \* clients may close a request early
  KvUnified      \* params.kv_unified

Slots == 1..NSlots
NoSlot == 0
NoTask == "none"
Empty == "empty"
Ids == Requests \cup ChildIds

ASSUME SlotsAssumption == NSlots \in Nat \ {0}
ASSUME RequestsAssumption ==
  /\ Requests \cap ChildIds = {} /\ NoTask \notin Ids /\ Empty \notin Conversations
  /\ Kind \in [Requests -> {"completion", "erase"}]
  /\ DOMAIN ChildrenOf = Requests
  /\ \A r \in Requests : ChildrenOf[r] \in Seq(ChildIds)
  /\ \A r, q \in Requests : \A i \in DOMAIN ChildrenOf[r] : \A j \in DOMAIN ChildrenOf[q] :
       ChildrenOf[r][i] = ChildrenOf[q][j] => r = q /\ i = j
  /\ IdSlot \in [Requests -> Slots \cup {NoSlot}]
  /\ Conv \in [Requests -> Conversations]
ASSUME FlagsAssumption ==
  MayFail \in BOOLEAN /\ MayCancel \in BOOLEAN /\ KvUnified \in BOOLEAN

VARIABLES
  queue_tasks, queue_tasks_deferred,
  phase,      \* of the main thread in start_loop(): one of Phases
  hand,       \* the popped task: <<>> or <<task>>
  cursor,     \* the next slot of the current update_slots()
  slot,       \* [Slots -> [state, task]]
  prompt,     \* [Slots -> Conversations \cup {Empty}]
  cache,      \* the prompt cache: conversations with a saved prompt
  client,     \* [Requests -> {"new", "waiting", "done"}]
  answered,   \* tasks a final result was sent for
  errored,    \* tasks an error was sent for
  cancelled   \* targets of the CANCEL tasks that have been processed

queue == <<queue_tasks, queue_tasks_deferred>>
replies == <<answered, errored>>
vars == <<queue, phase, hand, cursor, slot, prompt, cache, client, replies, cancelled>>

(* The loops that release several slots have phases of their own, as each release *)
(* takes the mutex of the queue anew: "undo" after a failed launch, and "abort" or *)
(* "decode_error" after a failed batch.                                           *)
Aborting == {"abort", "decode_error"}
Holding == {"callback", "undo"}
Phases == {"pop", "update", "slots", "wait"} \cup Holding \cup Aborting

SlotState == {"IDLE", "WAIT_OTHER", "STARTED", "GENERATING"}
Task == [type : {"completion", "erase", "cancel", "next_response"},
         id : Ids \cup {NoTask}, id_slot : Slots \cup {NoSlot}]

(* A slot action names its slot in slot_action, not in id_slot. *)
TaskOf(r) == [type |-> Kind[r], id |-> r,
              id_slot |-> IF Kind[r] = "erase" THEN NoSlot ELSE IdSlot[r]]
CancelOf(id) == [type |-> "cancel", id |-> id, id_slot |-> NoSlot]
NextResponse == [type |-> "next_response", id |-> NoTask, id_slot |-> NoSlot]

IdsOf(r) == {r} \cup Range(ChildrenOf[r])
RequestOf(id) == CHOOSE r \in Requests : id \in IdsOf(r)
IsChild(id) == id \in ChildIds
Processing(s) == slot[s].state # "IDLE"
IdleSlots == {s \in Slots : ~Processing(s)}
SlotOf(id) == {s \in Slots : slot[s].task = id}

TypeOK ==
  /\ queue_tasks \in Seq(Task) /\ queue_tasks_deferred \in Seq(Task)
  /\ phase \in Phases
  /\ hand \in Seq(Task) /\ Len(hand) = (IF phase \in Holding THEN 1 ELSE 0)
  /\ cursor \in 1..(NSlots + 1)
  /\ slot \in [Slots -> [state : SlotState, task : Ids \cup {NoTask}]]
  /\ \A s \in Slots : slot[s].task = NoTask <=> slot[s].state = "IDLE"
  /\ prompt \in [Slots -> Conversations \cup {Empty}]
  /\ cache \subseteq Conversations
  /\ client \in [Requests -> {"new", "waiting", "done"}]
  /\ answered \subseteq Ids /\ errored \subseteq Ids /\ cancelled \subseteq Ids

Init ==
  /\ queue_tasks = <<>> /\ queue_tasks_deferred = <<>>
  /\ phase = "wait" /\ hand = <<>> /\ cursor = 1
  /\ slot = [s \in Slots |-> [state |-> "IDLE", task |-> NoTask]]
  /\ prompt = [s \in Slots |-> Empty] /\ cache = {}
  /\ client = [r \in Requests |-> "new"]
  /\ answered = {} /\ errored = {} /\ cancelled = {}

-----------------------------------------------------------------------------
(* Faults: nothing is popped, or the popped task stays deferred as well. *)
PopNothing(q, s) == q
PopCopy(q, s) ==
  IF q.deferred = <<>> THEN q
  ELSE [q EXCEPT !.tasks = <<q.deferred[DeferredPick(q.deferred, s)]>> \o @]

(* pop_deferred_task(): one deferred task goes to the front of the queue. *)
PopFor(q, s) ==
  IF q.deferred = <<>> THEN q
  ELSE LET i == DeferredPick(q.deferred, s)
       IN  [tasks |-> <<q.deferred[i]>> \o q.tasks, deferred |-> RemoveAt(q.deferred, i)]

QueueAfterRelease(s) == PopFor([tasks |-> queue_tasks, deferred |-> queue_tasks_deferred], s)

IdleSlot == [state |-> "IDLE", task |-> NoTask]

(* Fault: the slot becomes idle but keeps its task. *)
SlotsKeepTask(s) == [slot EXCEPT ![s].state = "IDLE"]

(* The rest of server_slot::release(): the slot becomes idle, and a child's      *)
(* prompt is dropped, its parent's is enough.                                    *)
SlotsAfterRelease(s) == [slot EXCEPT ![s] = IdleSlot]
PromptsAfterRelease(s) == IF IsChild(slot[s].task) THEN [prompt EXCEPT ![s] = Empty] ELSE prompt

FreeSlot(s) ==
  /\ slot' = SlotsAfterRelease(s)
  /\ queue_tasks' = QueueAfterRelease(s).tasks
  /\ queue_tasks_deferred' = QueueAfterRelease(s).deferred

Release(s) == FreeSlot(s) /\ prompt' = PromptsAfterRelease(s)

(* The slot that a loop over the slots meets first. *)
IsFirst(s, slots) == s \in slots /\ \A i \in slots : s <= i

-----------------------------------------------------------------------------
(* get_available_slot() *)

SimilarSlots(t) ==
  {s \in IdleSlots : prompt[s] = Conv[t.id] /\ t.id_slot \in {NoSlot, s}}

(* By similarity, by id, or least recently used (any idle slot). *)
CandidateSlots(t) ==
  IF SimilarSlots(t) # {} THEN SimilarSlots(t)
  ELSE IF t.id_slot # NoSlot THEN {t.id_slot}
  ELSE IdleSlots

(* update_cache: what the slot holds is not a prefix of the new prompt, or the  *)
(* slot was taken as the least recently used.                                   *)
CacheUpdates(t, s) ==
  IF SimilarSlots(t) = {} /\ t.id_slot = NoSlot THEN {TRUE}
  ELSE IF prompt[s] = Empty THEN {FALSE}
  ELSE IF prompt[s] = Conv[t.id] THEN BOOLEAN
  ELSE {TRUE}

(* The slot's prompt and the prompt cache after prompt_save() and prompt_load():*)
(* a cached prompt of the conversation is moved to the slot when the slot holds *)
(* another one; if its state cannot be restored the slot is cleared.            *)
AfterCacheUpdate(t, s) ==
  LET saved == cache \cup ({prompt[s]} \ {Empty})
  IN  IF Conv[t.id] \in saved /\ prompt[s] # Conv[t.id]
      THEN {[prompt |-> Conv[t.id], cache |-> saved \ {Conv[t.id]}]}
           \cup (IF MayFail THEN {[prompt |-> Empty, cache |-> saved]} ELSE {})
      ELSE {[prompt |-> prompt[s], cache |-> saved]}

SelectionOutcomes(t, s) ==
  UNION {IF update THEN AfterCacheUpdate(t, s) ELSE {[prompt |-> prompt[s], cache |-> cache]}
         : update \in CacheUpdates(t, s)}

(* Fault: busy slots are cleared with the idle ones. *)
ClearedAll(slots, prompts) == [s \in Slots |-> IF KvUnified THEN Empty ELSE prompts[s]]

(* cache_idle_slots: after a launch every idle slot is saved, and cleared when  *)
(* the slots share one KV cache.                                                *)
IdlePrompts(slots, prompts) == {prompts[s] : s \in {i \in Slots : slots[i].state = "IDLE"}} \ {Empty}
ClearedIdle(slots, prompts) ==
  [s \in Slots |-> IF KvUnified /\ slots[s].state = "IDLE" THEN Empty ELSE prompts[s]]

-----------------------------------------------------------------------------
(* start_loop() and process_single_task() *)

Pop ==
  /\ phase = "pop"
  /\ IF queue_tasks = <<>>
     THEN phase' = "update" /\ cursor' = 1 /\ UNCHANGED <<queue_tasks, hand>>
     ELSE /\ hand' = <<Head(queue_tasks)>> /\ queue_tasks' = Tail(queue_tasks)
          /\ phase' = "callback" /\ UNCHANGED cursor
  /\ UNCHANGED <<queue_tasks_deferred, slot, prompt, cache, client, replies, cancelled>>

Handled == phase' = "pop" /\ hand' = <<>> /\ UNCHANGED <<cursor, client>>

Defer(t) ==
  /\ queue_tasks_deferred' = Append(queue_tasks_deferred, t)
  /\ UNCHANGED queue_tasks

(* get_free_slots(): the free slots but s.  A child gets the slot of its number. *)
FreeSlots(s) == IdleSlots \ {s}
Number(i, s) == Cardinality({j \in FreeSlots(s) : j <= i})
Enough(r, s) == ~Processing(s) /\ Cardinality(FreeSlots(s)) >= Len(ChildrenOf[r])

(* The slots once the first n children of r are launched on free slots but s. *)
ChildrenLaunched(r, s, n) ==
  [i \in Slots |-> IF i \in FreeSlots(s) /\ Number(i, s) <= n
                   THEN [state |-> "WAIT_OTHER", task |-> ChildrenOf[r][Number(i, s)]]
                   ELSE slot[i]]

(* Fault: the last child is not launched. *)
LaunchedButLast(r, s) ==
  [ChildrenLaunched(r, s, Len(ChildrenOf[r]) - 1) EXCEPT ![s] = [state |-> "STARTED", task |-> r]]

(* All children first, then the request itself on s. *)
Launched(r, s) ==
  [ChildrenLaunched(r, s, Len(ChildrenOf[r])) EXCEPT ![s] = [state |-> "STARTED", task |-> r]]

(* COMPLETION: no slot, a busy slot or too few slots for the children defer the  *)
(* task, whatever the selection did to the prompts; else it is launched.         *)
ProcessDeferred ==
  /\ phase = "callback" /\ hand[1].type = "completion"
  /\ LET t == hand[1] IN
       \/ /\ CandidateSlots(t) = {}
          /\ UNCHANGED <<prompt, cache>>
          /\ Defer(t)
       \/ \E s \in CandidateSlots(t) : \E o \in SelectionOutcomes(t, s) :
            /\ ~Enough(t.id, s)
            /\ prompt' = [prompt EXCEPT ![s] = o.prompt]
            /\ cache' = o.cache
            /\ Defer(t)
  /\ Handled
  /\ UNCHANGED <<slot, replies, cancelled>>

ProcessLaunch ==
  /\ phase = "callback" /\ hand[1].type = "completion"
  /\ LET t == hand[1]
     IN \E s \in CandidateSlots(t) : \E o \in SelectionOutcomes(t, s) :
          /\ Enough(t.id, s)
          /\ slot' = Launched(t.id, s)
          /\ LET held == [prompt EXCEPT ![s] = o.prompt]
             IN  /\ cache' = o.cache \cup IdlePrompts(slot', held)
                 /\ prompt' = ClearedIdle(slot', held)
  /\ Handled
  /\ UNCHANGED <<queue, replies, cancelled>>

(* launch_slot_with_task() fails for the child after the first n, or for the     *)
(* request itself: an error is sent for that task ...                            *)
ProcessLaunchFails ==
  /\ MayFail
  /\ phase = "callback" /\ hand[1].type = "completion"
  /\ LET t == hand[1]
         children == ChildrenOf[t.id]
     IN \E s \in CandidateSlots(t) : \E o \in SelectionOutcomes(t, s) :
        \E n \in 0..Len(children) :
          /\ Enough(t.id, s)
          /\ slot' = ChildrenLaunched(t.id, s, n)
          /\ errored' = errored \cup {IF n < Len(children) THEN children[n + 1] ELSE t.id}
          /\ prompt' = [prompt EXCEPT ![s] = o.prompt]
          /\ cache' = o.cache
  /\ phase' = "undo"
  /\ UNCHANGED <<queue, hand, cursor, client, answered, cancelled>>

(* ... the children launched so far are released (release_slots), and the task   *)
(* is dropped.                                                                   *)
LaunchedSlots == {s \in Slots : slot[s].task \in IdsOf(hand[1].id)}

UndoLaunch ==
  /\ phase = "undo"
  /\ \E s \in Slots : IsFirst(s, LaunchedSlots) /\ Release(s)
  /\ UNCHANGED <<phase, hand, cursor, cache, client, replies, cancelled>>

UndoEnds ==
  /\ phase = "undo" /\ LaunchedSlots = {}
  /\ Handled
  /\ UNCHANGED <<queue, slot, prompt, cache, replies, cancelled>>

(* CANCEL: release the slot that runs the target, if any.  The deques were       *)
(* searched for the target when the CANCEL task was posted.                      *)
ProcessCancel ==
  /\ phase = "callback" /\ hand[1].type = "cancel"
  /\ cancelled' = cancelled \cup {hand[1].id}
  /\ \/ \E s \in Slots : IsFirst(s, SlotOf(hand[1].id)) /\ Release(s)
     \/ SlotOf(hand[1].id) = {} /\ UNCHANGED <<queue, slot, prompt>>
  /\ Handled
  /\ UNCHANGED <<cache, replies>>

(* SLOT_ERASE (SLOT_SAVE and SLOT_RESTORE alike): needs the named slot idle. *)
ProcessSlotAction ==
  /\ phase = "callback" /\ hand[1].type = "erase"
  /\ LET s == IdSlot[hand[1].id] IN
       IF s = NoSlot
       THEN errored' = errored \cup {hand[1].id} /\ UNCHANGED <<queue, prompt, answered>>
       ELSE IF Processing(s)
       THEN Defer(hand[1]) /\ UNCHANGED <<prompt, replies>>
       ELSE /\ prompt' = [prompt EXCEPT ![s] = Empty]
            /\ answered' = answered \cup {hand[1].id}
            /\ UNCHANGED <<queue, errored>>
  /\ Handled
  /\ UNCHANGED <<slot, cache, cancelled>>

ProcessNextResponse ==
  /\ phase = "callback" /\ hand[1].type = "next_response"
  /\ Handled
  /\ UNCHANGED <<queue, slot, prompt, cache, replies, cancelled>>

-----------------------------------------------------------------------------
(* update_slots() *)

(* All idle: nothing to do.  Else a NEXT_RESPONSE task keeps the loop going. *)
UpdateBegin ==
  /\ phase = "update"
  /\ IF IdleSlots = Slots
     THEN phase' = "wait" /\ UNCHANGED queue_tasks
     ELSE phase' = "slots" /\ queue_tasks' = Append(queue_tasks, NextResponse)
  /\ UNCHANGED <<queue_tasks_deferred, hand, cursor, slot, prompt, cache, client,
                 replies, cancelled>>

AtSlot(s) == phase = "slots" /\ cursor = s
SlotDone == cursor' = cursor + 1 /\ UNCHANGED <<phase, hand, cache, client, cancelled>>

SkipSlot ==
  /\ \E s \in Slots : AtSlot(s) /\ slot[s].state \in {"IDLE", "WAIT_OTHER"}
  /\ SlotDone
  /\ UNCHANGED <<queue, slot, prompt, replies>>

(* Fault: the children are never found. *)
NoChildren(r) == {}

(* The slots of the children that wait for the prompt of r. *)
WaitingChildren(r) ==
  {i \in Slots : slot[i].state = "WAIT_OTHER" /\ slot[i].task \in Range(ChildrenOf[r])}

(* The prompt is decoded: the slot generates, and the waiting children of a      *)
(* parent get a copy of its state and generate too.                              *)
PromptDone ==
  /\ \E s \in Slots :
       /\ AtSlot(s) /\ slot[s].state = "STARTED"
       /\ LET r == slot[s].task
              children == WaitingChildren(r)
          IN  /\ slot' = [i \in Slots |-> IF i \in children \cup {s}
                                          THEN [slot[i] EXCEPT !.state = "GENERATING"]
                                          ELSE slot[i]]
              /\ prompt' = [i \in Slots |-> IF i \in children \cup {s} THEN Conv[r]
                                            ELSE prompt[i]]
  /\ SlotDone
  /\ UNCHANGED <<queue, replies>>

(* Generation ends: the final result, then release(). *)
SlotFinishes ==
  /\ \E s \in Slots :
       /\ AtSlot(s) /\ slot[s].state = "GENERATING"
       /\ answered' = answered \cup {slot[s].task}
       /\ Release(s)
  /\ SlotDone
  /\ UNCHANGED errored

(* iterate(): an exception in the handling of one slot ends that slot only. *)
SlotFails ==
  /\ MayFail
  /\ \E s \in Slots :
       /\ AtSlot(s) /\ slot[s].state \in {"STARTED", "GENERATING"}
       /\ errored' = errored \cup {slot[s].task}
       /\ Release(s)
  /\ SlotDone
  /\ UNCHANGED answered

(* The batch fails: abort_all_slots(), or after an error of llama_decode() the   *)
(* loop in decode(), which clears the prompts as well.  Every processing slot     *)
(* ends, one after the other.                                                     *)
BatchFails ==
  /\ MayFail
  /\ phase = "slots"
  /\ phase' \in Aborting /\ cursor' = 1
  /\ UNCHANGED <<queue, hand, slot, prompt, cache, client, replies, cancelled>>

AbortSlot ==
  /\ phase \in Aborting
  /\ \E s \in Slots :
       /\ IsFirst(s, Slots \ IdleSlots)
       /\ errored' = errored \cup {slot[s].task}
       /\ FreeSlot(s)
       /\ prompt' = IF phase = "decode_error" THEN [prompt EXCEPT ![s] = Empty]
                    ELSE PromptsAfterRelease(s)
  /\ UNCHANGED <<phase, hand, cursor, cache, client, answered, cancelled>>

AbortEnds ==
  /\ phase \in Aborting /\ IdleSlots = Slots
  /\ phase' = "wait"
  /\ UNCHANGED <<queue, hand, cursor, slot, prompt, cache, client, replies, cancelled>>

(* try_clear_idle_slots(): there is no room for the batch in the KV cache, and   *)
(* the first idle slot that has a prompt gives it up.                            *)
PurgeIdleSlot ==
  /\ MayFail /\ KvUnified
  /\ phase = "slots"
  /\ \E s \in Slots :
       /\ IsFirst(s, {i \in IdleSlots : prompt[i] # Empty})
       /\ prompt' = [prompt EXCEPT ![s] = Empty]
  /\ UNCHANGED <<queue, phase, hand, cursor, slot, cache, client, replies, cancelled>>

UpdateEnd ==
  /\ phase = "slots" /\ cursor = NSlots + 1
  /\ phase' = "wait" /\ cursor' = 1
  /\ UNCHANGED <<queue, hand, slot, prompt, cache, client, replies, cancelled>>

(* The inner loop of start_loop(): go on as soon as a task is queued. *)
WaitEnd ==
  /\ phase = "wait" /\ queue_tasks # <<>>
  /\ phase' = "pop"
  /\ UNCHANGED <<queue, hand, cursor, slot, prompt, cache, client, replies, cancelled>>

-----------------------------------------------------------------------------
(* HTTP threads: server_response_reader *)

Post(r) ==
  /\ client[r] = "new"
  /\ client' = [client EXCEPT ![r] = "waiting"]
  /\ queue_tasks' = Append(queue_tasks, TaskOf(r))
  /\ UNCHANGED <<queue_tasks_deferred, phase, hand, cursor, slot, prompt, cache,
                 replies, cancelled>>

Finish(r) ==
  /\ client[r] = "waiting" /\ IdsOf(r) \subseteq answered
  /\ client' = [client EXCEPT ![r] = "done"]
  /\ UNCHANGED <<queue, phase, hand, cursor, slot, prompt, cache, replies, cancelled>>

(* stop(): CANCEL tasks for all ids of the request, in any order, in front of    *)
(* the queue.  Only the request's own task can be in a deque: it carries the     *)
(* child tasks.                                                                  *)
Stop(r) ==
  /\ client[r] = "waiting"
  /\ client' = [client EXCEPT ![r] = "done"]
  /\ \E order \in SetToSeqs(IdsOf(r)) :
       queue_tasks' = PushAllFront([i \in DOMAIN order |-> CancelOf(order[i])],
                                   WithoutTarget(queue_tasks, r))
  /\ queue_tasks_deferred' = WithoutTarget(queue_tasks_deferred, r)
  /\ UNCHANGED <<phase, hand, cursor, slot, prompt, cache, replies, cancelled>>

StopOnError(r) == IdsOf(r) \cap errored # {} /\ Stop(r)
Disconnect(r) == MayCancel /\ Stop(r)

-----------------------------------------------------------------------------
MainNext ==
  \/ Pop \/ ProcessDeferred \/ ProcessLaunch \/ ProcessLaunchFails \/ UndoLaunch \/ UndoEnds
  \/ ProcessCancel \/ ProcessSlotAction \/ ProcessNextResponse
  \/ UpdateBegin \/ SkipSlot \/ PromptDone \/ SlotFinishes \/ SlotFails
  \/ BatchFails \/ AbortSlot \/ AbortEnds \/ PurgeIdleSlot \/ UpdateEnd \/ WaitEnd

ClientNext(r) == Finish(r) \/ StopOnError(r)

Next == MainNext \/ \E r \in Requests : Post(r) \/ ClientNext(r) \/ Disconnect(r)

(* The main thread keeps running and an HTTP thread handles its result; nobody   *)
(* is obliged to send or to drop a request.                                      *)
Fairness == WF_vars(MainNext) /\ \A r \in Requests : WF_vars(ClientNext(r))

Spec == Init /\ [][Next]_vars
FairSpec == Spec /\ Fairness

-----------------------------------------------------------------------------
(* Properties *)

Offered == IF phase = "callback" THEN hand ELSE <<>>
Pending == {t.id : t \in {u \in Range(Offered \o queue_tasks \o queue_tasks_deferred) :
                            u.type \in {"completion", "erase"}}}
Ended == answered \cup errored

(* A request's task is queued, or on a slot, or ended, and only one of these; a  *)
(* task is on one slot at most; and a request somebody waits for is never        *)
(* dropped silently: it is somewhere, or an error was sent for one of its tasks. *)
RequestConservation ==
  /\ \A id \in Ids : Cardinality(SlotOf(id)) <= 1
  /\ \A r \in Requests :
       /\ r \in Pending => SlotOf(r) = {} /\ r \notin Ended
       /\ SlotOf(r) # {} => r \notin Ended
       /\ client[r] = "waiting" =>
            r \in Pending \cup Ended \/ SlotOf(r) # {} \/ IdsOf(r) \cap errored # {}

(* As long as somebody waits for the request, a slot whose child task waits for  *)
(* the parent's prompt is not stranded: the parent is still working on it, or    *)
(* the client has an error to react to, by cancelling every task.                *)
NoStrandedChild ==
  \A s \in Slots : slot[s].state = "WAIT_OTHER" =>
    LET r == RequestOf(slot[s].task)
    IN  client[r] = "waiting" =>
          \/ \E p \in SlotOf(r) : slot[p].state = "STARTED"
          \/ IdsOf(r) \cap errored # {}

(* launch_slots_with_parent_task() is all or nothing: while the parent works on  *)
(* the shared prompt every child holds a slot, unless the child was cancelled or *)
(* the whole batch is being given up.                                            *)
ChildrenHoldSlots ==
  \A s \in Slots : slot[s].state = "STARTED" /\ phase \notin Aborting =>
    \A c \in Range(ChildrenOf[slot[s].task]) :
      \/ \E i \in SlotOf(c) : slot[i].state = "WAIT_OTHER"
      \/ c \in cancelled

(* A generating slot holds the prompt of its own request: no other request's     *)
(* selection of a slot, save or clear has touched it.                            *)
OwnPrompt ==
  \A s \in Slots : slot[s].state = "GENERATING" =>
    prompt[s] = Conv[RequestOf(slot[s].task)]

(* "if this is cancel task make sure to clean up pending tasks": once the CANCEL *)
(* tasks of a request have been handled, it is neither deferred nor running.     *)
CancelIsFinal ==
  \A r \in Requests : IdsOf(r) \subseteq cancelled =>
    /\ \A id \in IdsOf(r) : SlotOf(id) = {}
    /\ TaskOf(r) \notin Range(queue_tasks_deferred)

(* A slot action takes no slot, so the release that moves it out of the deferred *)
(* queue is followed by no other: what is deferred behind it may stay there.     *)
NoActionDeferred ==
  \A i \in DOMAIN queue_tasks_deferred : queue_tasks_deferred[i].type = "completion"

(* That stall is the only one: as long as no slot action has been deferred,      *)
(* every request is answered or its client has left, whatever launches fail,     *)
(* batches are aborted, slots are purged and requests are cancelled.             *)
EveryRequestEnds ==
  []NoActionDeferred =>
    \A r \in Requests : client[r] = "waiting" ~> client[r] = "done"
=============================================================================
