---------------------------- MODULE ServerQueue -----------------------------
(***************************************************************************)
(* The threads of server_queue (tools/server/server-queue.cpp):            *)
(*                                                                         *)
(*   Main     the thread in start_loop(); runs callback_new_task and       *)
(*            callback_update_slots, and lends the queue to the worker     *)
(*            while it is in yield_to_queue()                              *)
(*   Worker   the thread in worker_loop()                                  *)
(*   Clients  HTTP threads.  An Inferrer posts one inference task, after   *)
(*            wait_until_no_sleep(); a Scraper posts one METRICS task and  *)
(*            bypasses the sleep check.  Either may give up and cancel.    *)
(*                                                                         *)
(* A critical section of mutex_tasks is one action.  condition_tasks is    *)
(* its set of blocked threads: notify_one unblocks any one of them, and an *)
(* unblocked thread evaluates its predicate again.  The tasks' effect on   *)
(* slots is abstract here (module SlotScheduler has it): the callback may  *)
(* finish or defer an inference task, and an update of the slots may       *)
(* release slots.  Time is abstract: an idle queue may go to sleep when    *)
(* the code looks at the idle timer, or not yet.                           *)
(***************************************************************************)
EXTENDS TaskQueues, FiniteSets

CONSTANTS
  Main, Worker,       \* the two threads of the queue
  Inferrers, Scrapers,\* HTTP threads, one request each
  SleepEnabled,       \* idle_sleep_ms >= 0
  MaxYields           \* bound: yield_to_queue() calls in one update of the slots

Clients == Inferrers \cup Scrapers
Threads == {Main, Worker} \cup Clients

ASSUME ThreadsAssumption ==
  /\ Main # Worker
  /\ {Main, Worker} \cap Clients = {}
  /\ Inferrers \cap Scrapers = {}
ASSUME BoundsAssumption == SleepEnabled \in BOOLEAN /\ MaxYields \in Nat

NoSlot == "none"
Task == [type : {"infer", "metrics", "cancel"}, id : Clients, id_slot : {NoSlot}]
TaskOf(c) == [type |-> IF c \in Inferrers THEN "infer" ELSE "metrics",
              id |-> c, id_slot |-> NoSlot]
CancelOf(c) == [type |-> "cancel", id |-> c, id_slot |-> NoSlot]

VARIABLES
  running, sleeping, req_stop_sleeping,
  queue_tasks, queue_tasks_deferred, queue_tasks_unhandled,
  worker,         \* worker_t: stop, busy, yielding, exception
  waiters,        \* threads blocked on condition_tasks
  cv_waiting,     \* the worker is blocked on worker.cv
  pc,             \* where each thread is
  hand,           \* the task a thread popped and has not finished: <<>> or <<task>>
  yields,         \* yield_to_queue() calls in the current update of the slots
  handled,        \* tasks callback_new_task has taken for good
  lost,           \* tasks whose callback threw
  posted,         \* requests in the order they were posted
  offered,        \* requests that were offered to the callback and not declined
  terminated      \* terminate() has been called

queues == <<queue_tasks, queue_tasks_deferred, queue_tasks_unhandled>>
history == <<handled, lost, posted, offered, terminated>>
vars == <<running, sleeping, req_stop_sleeping, queues, worker, waiters,
          cv_waiting, pc, hand, yields, history>>

MainPC == {"init", "pop", "callback", "update", "notify_worker", "work", "yield_wait",
           "loop", "timed_wait", "asleep", "stop", "notify_stop", "join", "done"}
WorkerPC == {"none", "top", "cv_wait", "pop", "callback", "decline", "check",
             "cond_wait", "clear_busy", "notify", "exit"}
WorkingPC == {"pop", "callback", "decline", "check", "cond_wait", "clear_busy"}
Yielding == {"notify_worker", "work", "yield_wait"}   \* Main, inside yield_to_queue()
ClientPC == {"start", "no_sleep_wait", "post", "posted", "done"}

Holding == {"callback", "decline"}    \* where a thread has a task in hand

FlagTypes ==
  /\ running \in BOOLEAN /\ sleeping \in BOOLEAN /\ req_stop_sleeping \in BOOLEAN
  /\ worker \in [stop : BOOLEAN, busy : BOOLEAN, yielding : BOOLEAN, exception : BOOLEAN]
  /\ waiters \subseteq Threads
  /\ cv_waiting \in BOOLEAN
  /\ yields \in 0..MaxYields
DequeTypes ==
  /\ queue_tasks \in Seq(Task)
  /\ queue_tasks_deferred \in Seq(Task)
  /\ queue_tasks_unhandled \in Seq(Task)
PcTypes ==
  /\ pc \in [Threads -> MainPC \cup WorkerPC \cup ClientPC]
  /\ pc[Main] \in MainPC /\ pc[Worker] \in WorkerPC
  /\ \A c \in Clients : pc[c] \in ClientPC
HandTypes ==
  /\ hand \in [{Main, Worker} -> Seq(Task)]
  /\ \A t \in {Main, Worker} : Len(hand[t]) = (IF pc[t] \in Holding THEN 1 ELSE 0)
HistoryTypes ==
  /\ handled \subseteq Task /\ lost \subseteq Task
  /\ posted \in Seq(Clients)
  /\ offered \subseteq Clients
  /\ terminated \in BOOLEAN

(* The variables have their types, and a thread holds a task exactly while it   *)
(* is in the callback or about to set the task aside (process_new_tasks).       *)
TypeOK == FlagTypes /\ DequeTypes /\ PcTypes /\ HandTypes /\ HistoryTypes

Init ==
  /\ running = FALSE /\ sleeping = FALSE /\ req_stop_sleeping = FALSE
  /\ queue_tasks = <<>> /\ queue_tasks_deferred = <<>> /\ queue_tasks_unhandled = <<>>
  /\ worker = [stop |-> FALSE, busy |-> FALSE, yielding |-> FALSE, exception |-> FALSE]
  /\ waiters = {} /\ cv_waiting = FALSE
  /\ pc = [t \in Threads |-> IF t = Main THEN "init"
                             ELSE IF t = Worker THEN "none" ELSE "start"]
  /\ hand = [t \in {Main, Worker} |-> <<>>]
  /\ yields = 0
  /\ handled = {} /\ lost = {} /\ posted = <<>> /\ offered = {}
  /\ terminated = FALSE

-----------------------------------------------------------------------------
(* condition_tasks *)

NotifyOne(blocked) ==
  IF blocked = {} THEN {blocked} ELSE {blocked \ {t} : t \in blocked}

(* Fault: a notification that is not sent. *)
NotifyAllDropped == UNCHANGED waiters

NotifyAll == waiters' = {}

Goto(t, label) == pc' = [pc EXCEPT ![t] = label]

(* A wait with a predicate: t goes on to next when it holds, else blocks at label. *)
WaitUntil(t, label, predicate, next) ==
  IF predicate THEN Goto(t, next) /\ UNCHANGED waiters
               ELSE Goto(t, label) /\ waiters' = waiters \cup {t}

-----------------------------------------------------------------------------
(* Main: process_new_tasks(false) and the callbacks *)

StartLoop ==
  /\ pc[Main] = "init"
  /\ running' = TRUE
  /\ worker' = [worker EXCEPT !.stop = FALSE, !.busy = FALSE, !.yielding = FALSE]
  /\ pc' = [pc EXCEPT ![Main] = "pop", ![Worker] = "top"]
  /\ UNCHANGED <<sleeping, req_stop_sleeping, queues, waiters, cv_waiting, hand,
                 yields, history>>

(* Fault: the task is copied where it should be moved. *)
KeepHand(t) == UNCHANGED hand

DropHand(t) == hand' = [hand EXCEPT ![t] = <<>>]

(* One round of process_new_tasks by thread t: terminated, empty, or a pop. *)
PopTask(t, stopped, empty) ==
  /\ pc[t] = "pop"
  /\ IF ~running THEN Goto(t, stopped) /\ UNCHANGED <<queue_tasks, hand>>
     ELSE IF queue_tasks = <<>> THEN Goto(t, empty) /\ UNCHANGED <<queue_tasks, hand>>
     ELSE /\ hand' = [hand EXCEPT ![t] = <<Head(queue_tasks)>>]
          /\ queue_tasks' = Tail(queue_tasks)
          /\ Goto(t, "callback")
  /\ UNCHANGED <<running, sleeping, req_stop_sleeping, queue_tasks_deferred,
                 queue_tasks_unhandled, worker, waiters, cv_waiting, yields, history>>

MainPop == PopTask(Main, "stop", "update")

Offered(t) == IF t.type = "cancel" THEN offered ELSE offered \cup {t.id}

(* A slot was released: pop_deferred_task(). *)
PopDeferred ==
  /\ IF queue_tasks_deferred = <<>> THEN UNCHANGED <<queue_tasks, queue_tasks_deferred>>
     ELSE LET i == DeferredPick(queue_tasks_deferred, NoSlot)
          IN  /\ queue_tasks' = <<queue_tasks_deferred[i]>> \o queue_tasks
              /\ queue_tasks_deferred' = RemoveAt(queue_tasks_deferred, i)
  /\ waiters' \in NotifyOne(waiters)

(* The callback takes the task for good.  A CANCEL task may release a slot. *)
MainHandle ==
  /\ pc[Main] = "callback"
  /\ handled' = handled \cup {hand[Main][1]}
  /\ offered' = Offered(hand[Main][1])
  /\ DropHand(Main)
  /\ \/ UNCHANGED <<queue_tasks, queue_tasks_deferred, waiters>>
     \/ hand[Main][1].type = "cancel" /\ PopDeferred
  /\ Goto(Main, "pop")
  /\ UNCHANGED <<running, sleeping, req_stop_sleeping, queue_tasks_unhandled, worker,
                 cv_waiting, yields, lost, posted, terminated>>

(* The callback finds no slot for an inference task: defer(). *)
MainDefer ==
  /\ pc[Main] = "callback"
  /\ hand[Main][1].type = "infer"
  /\ queue_tasks_deferred' = Append(queue_tasks_deferred, hand[Main][1])
  /\ offered' = Offered(hand[Main][1])
  /\ waiters' \in NotifyOne(waiters)
  /\ DropHand(Main)
  /\ Goto(Main, "pop")
  /\ UNCHANGED <<running, sleeping, req_stop_sleeping, queue_tasks,
                 queue_tasks_unhandled, worker, cv_waiting, yields, handled, lost, posted,
                 terminated>>

(* update_slots() releases a slot while a task is deferred. *)
MainPopDeferred ==
  /\ pc[Main] = "update"
  /\ queue_tasks_deferred # <<>>
  /\ PopDeferred
  /\ UNCHANGED <<running, sleeping, req_stop_sleeping, queue_tasks_unhandled, worker,
                 cv_waiting, pc, hand, yields, history>>

-----------------------------------------------------------------------------
(* Main: yield_to_queue() *)

BeginYield ==
  /\ pc[Main] = "update"
  /\ yields < MaxYields
  /\ yields' = yields + 1
  /\ worker' = [worker EXCEPT !.busy = TRUE, !.yielding = TRUE]
  /\ Goto(Main, "notify_worker")
  /\ UNCHANGED <<running, sleeping, req_stop_sleeping, queues, waiters, cv_waiting,
                 hand, history>>

NotifyWorker ==
  /\ pc[Main] = "notify_worker"
  /\ cv_waiting' = FALSE
  /\ Goto(Main, "work")
  /\ UNCHANGED <<running, sleeping, req_stop_sleeping, queues, worker, waiters,
                 hand, yields, history>>

(* Fault: waiting for the end of the yield instead of the end of the worker. *)
YieldingOver == ~worker.yielding

WorkerQuiet == ~worker.busy

(* Fault: the exception of the worker stays behind. *)
TakeExceptionLater == worker' = [worker EXCEPT !.yielding = FALSE]

TakeException == worker' = [worker EXCEPT !.yielding = FALSE, !.exception = FALSE]

(* The end of yield_to_queue() once the worker is no longer busy: the declined *)
(* tasks are put back, and a pending exception is taken out to be rethrown.    *)
FinishYield ==
  /\ queue_tasks' = PutBack(queue_tasks_unhandled, queue_tasks)
  /\ queue_tasks_unhandled' = <<>>
  /\ TakeException
  /\ Goto(Main, "update")

(* work() has returned or thrown: yielding ends, everybody is notified, and    *)
(* Main waits for the worker, all without releasing the mutex in between.      *)
EndWork ==
  /\ pc[Main] = "work"
  /\ IF ~WorkerQuiet
     THEN /\ worker' = [worker EXCEPT !.yielding = FALSE]
          /\ waiters' = {Main}
          /\ Goto(Main, "yield_wait")
          /\ UNCHANGED <<queue_tasks, queue_tasks_unhandled>>
     ELSE FinishYield /\ NotifyAll
  /\ UNCHANGED <<running, sleeping, req_stop_sleeping, queue_tasks_deferred, cv_waiting,
                 hand, yields, history>>

YieldWake ==
  /\ pc[Main] = "yield_wait" /\ Main \notin waiters
  /\ IF ~WorkerQuiet
     THEN /\ waiters' = waiters \cup {Main}
          /\ UNCHANGED <<pc, worker, queue_tasks, queue_tasks_unhandled>>
     ELSE FinishYield /\ UNCHANGED waiters
  /\ UNCHANGED <<running, sleeping, req_stop_sleeping, queue_tasks_deferred, cv_waiting,
                 hand, yields, history>>

UpdateDone ==
  /\ pc[Main] = "update"
  /\ yields' = 0
  /\ Goto(Main, "loop")
  /\ UNCHANGED <<running, sleeping, req_stop_sleeping, queues, worker, waiters,
                 cv_waiting, hand, history>>

-----------------------------------------------------------------------------
(* Main: the inner loop of start_loop(), sleeping and stopping *)

(* A task arrived or the queue was terminated: back to process_new_tasks(). *)
LeaveLoop ==
  /\ pc[Main] = "loop"
  /\ ~running \/ queue_tasks # <<>>
  /\ Goto(Main, "pop")
  /\ UNCHANGED <<running, sleeping, req_stop_sleeping, queues, worker, waiters,
                 cv_waiting, hand, yields, history>>

(* The idle timer has expired: the sleep callbacks run with the mutex held, a  *)
(* request to stop sleeping made before is dropped, and Main blocks.           *)
EnterSleep ==
  /\ pc[Main] = "loop"
  /\ running /\ queue_tasks = <<>>
  /\ SleepEnabled
  /\ sleeping' = TRUE
  /\ req_stop_sleeping' = FALSE
  /\ waiters' = waiters \cup {Main}
  /\ Goto(Main, "asleep")
  /\ UNCHANGED <<running, queues, worker, cv_waiting, hand, yields, history>>

(* The timer has not expired: wait for a task, at most a second. *)
WaitForTask ==
  /\ pc[Main] = "loop"
  /\ running /\ queue_tasks = <<>>
  /\ waiters' = waiters \cup {Main}
  /\ Goto(Main, "timed_wait")
  /\ UNCHANGED <<running, sleeping, req_stop_sleeping, queues, worker, cv_waiting,
                 hand, yields, history>>

(* Notified or timed out: wait_for() evaluates its predicate again. *)
WaitForTaskWake ==
  /\ pc[Main] = "timed_wait"
  /\ waiters' = waiters \ {Main}
  /\ Goto(Main, IF queue_tasks # <<>> \/ ~running THEN "pop" ELSE "loop")
  /\ UNCHANGED <<running, sleeping, req_stop_sleeping, queues, worker, cv_waiting,
                 hand, yields, history>>

(* Notified while asleep: stop, wake up, or block again. *)
SleepWake ==
  /\ pc[Main] = "asleep" /\ Main \notin waiters
  /\ IF ~running THEN /\ Goto(Main, "pop")
                      /\ UNCHANGED <<sleeping, req_stop_sleeping, waiters>>
     ELSE IF req_stop_sleeping
          THEN /\ sleeping' = FALSE /\ req_stop_sleeping' = FALSE
               /\ NotifyAll
               /\ Goto(Main, "pop")
          ELSE /\ waiters' = waiters \cup {Main}
               /\ UNCHANGED <<sleeping, req_stop_sleeping, pc>>
  /\ UNCHANGED <<running, queues, worker, cv_waiting, hand, yields, history>>

WorkerStop ==
  /\ pc[Main] = "stop"
  /\ worker' = [worker EXCEPT !.stop = TRUE]
  /\ Goto(Main, "notify_stop")
  /\ UNCHANGED <<running, sleeping, req_stop_sleeping, queues, waiters, cv_waiting,
                 hand, yields, history>>

WorkerStopNotify ==
  /\ pc[Main] = "notify_stop"
  /\ cv_waiting' = FALSE /\ NotifyAll
  /\ Goto(Main, "join")
  /\ UNCHANGED <<running, sleeping, req_stop_sleeping, queues, worker, hand, yields,
                 history>>

WorkerJoin ==
  /\ pc[Main] = "join" /\ pc[Worker] = "exit"
  /\ Goto(Main, "done")
  /\ UNCHANGED <<running, sleeping, req_stop_sleeping, queues, worker, waiters,
                 cv_waiting, hand, yields, history>>

-----------------------------------------------------------------------------
(* Worker: worker_loop() *)

(* wait on worker.cv until stop or busy *)
WorkerTop ==
  /\ \/ pc[Worker] = "top"
     \/ pc[Worker] = "cv_wait" /\ ~cv_waiting
  /\ IF worker.stop THEN Goto(Worker, "exit") /\ UNCHANGED cv_waiting
     ELSE IF worker.busy THEN Goto(Worker, "pop") /\ UNCHANGED cv_waiting
     ELSE Goto(Worker, "cv_wait") /\ cv_waiting' = TRUE
  /\ UNCHANGED <<running, sleeping, req_stop_sleeping, queues, worker, waiters, hand,
                 yields, history>>

WorkerPop == PopTask(Worker, "clear_busy", "check")

(* While yielding the callback takes METRICS (and slot queries) only. *)
WorkerHandle ==
  /\ pc[Worker] = "callback"
  /\ hand[Worker][1].type = "metrics"
  /\ handled' = handled \cup {hand[Worker][1]}
  /\ offered' = Offered(hand[Worker][1])
  /\ DropHand(Worker)
  /\ Goto(Worker, "pop")
  /\ UNCHANGED <<running, sleeping, req_stop_sleeping, queues, worker, waiters,
                 cv_waiting, yields, lost, posted, terminated>>

(* The callback throws: the exception is kept for yield_to_queue(). *)
WorkerThrow ==
  /\ pc[Worker] = "callback"
  /\ hand[Worker][1].type = "metrics"
  /\ lost' = lost \cup {hand[Worker][1]}
  /\ DropHand(Worker)
  /\ worker' = [worker EXCEPT !.exception = TRUE]
  /\ Goto(Worker, "clear_busy")
  /\ UNCHANGED <<running, sleeping, req_stop_sleeping, queues, waiters, cv_waiting,
                 yields, handled, posted, offered, terminated>>

(* The callback declines; the task stays in hand, outside every deque, until   *)
(* the mutex is taken again.                                                   *)
WorkerDecline ==
  /\ pc[Worker] = "callback"
  /\ hand[Worker][1].type # "metrics"
  /\ Goto(Worker, "decline")
  /\ UNCHANGED <<running, sleeping, req_stop_sleeping, queues, worker, waiters,
                 cv_waiting, hand, yields, history>>

WorkerSetAside ==
  /\ pc[Worker] = "decline"
  /\ queue_tasks_unhandled' = Append(queue_tasks_unhandled, hand[Worker][1])
  /\ DropHand(Worker)
  /\ Goto(Worker, "pop")
  /\ UNCHANGED <<running, sleeping, req_stop_sleeping, queue_tasks,
                 queue_tasks_deferred, worker, waiters, cv_waiting, yields, history>>

(* The queue was empty: leave, continue, or wait on condition_tasks. *)
WorkerCheck ==
  /\ pc[Worker] = "check"
  /\ IF worker.stop \/ ~worker.yielding
     THEN Goto(Worker, "clear_busy") /\ UNCHANGED waiters
     ELSE WaitUntil(Worker, "cond_wait", ~running \/ queue_tasks # <<>>, "pop")
  /\ UNCHANGED <<running, sleeping, req_stop_sleeping, queues, worker, cv_waiting,
                 hand, yields, history>>

(* Notified: the predicate of the wait, then process_new_tasks(true) again. *)
WorkerWake ==
  /\ pc[Worker] = "cond_wait" /\ Worker \notin waiters
  /\ WaitUntil(Worker, "cond_wait", worker.stop \/ ~running \/ ~worker.yielding
                                    \/ queue_tasks # <<>>, "pop")
  /\ UNCHANGED <<running, sleeping, req_stop_sleeping, queues, worker, cv_waiting,
                 hand, yields, history>>

WorkerClearBusy ==
  /\ pc[Worker] = "clear_busy"
  /\ worker' = [worker EXCEPT !.busy = FALSE]
  /\ Goto(Worker, "notify")
  /\ UNCHANGED <<running, sleeping, req_stop_sleeping, queues, waiters, cv_waiting,
                 hand, yields, history>>

WorkerNotify ==
  /\ pc[Worker] = "notify"
  /\ NotifyAll
  /\ Goto(Worker, "top")
  /\ UNCHANGED <<running, sleeping, req_stop_sleeping, queues, worker, cv_waiting,
                 hand, yields, history>>

-----------------------------------------------------------------------------
(* Clients: one request per HTTP thread *)

(* server_res_generator: an inference request waits until the queue is awake. *)
ClientWaitUntilNoSleep(c) ==
  /\ c \in Inferrers /\ pc[c] = "start" /\ SleepEnabled
  /\ IF ~sleeping THEN Goto(c, "post") /\ UNCHANGED <<req_stop_sleeping, waiters>>
     ELSE /\ req_stop_sleeping' = TRUE
          /\ \E blocked \in (IF req_stop_sleeping THEN {waiters} ELSE NotifyOne(waiters)) :
               waiters' = blocked \cup {c}
          /\ Goto(c, "no_sleep_wait")
  /\ UNCHANGED <<running, sleeping, queues, worker, cv_waiting, hand, yields, history>>

ClientNoSleepWake(c) ==
  /\ pc[c] = "no_sleep_wait" /\ c \notin waiters
  /\ WaitUntil(c, "no_sleep_wait", ~sleeping, "post")
  /\ UNCHANGED <<running, sleeping, req_stop_sleeping, queues, worker, cv_waiting,
                 hand, yields, history>>

(* The fast path with sleeping disabled, and the bypass: a metrics request     *)
(* looks at is_sleeping() and answers from the cache if it is set.             *)
ClientBypass(c) ==
  /\ pc[c] = "start"
  /\ \/ c \in Inferrers /\ ~SleepEnabled /\ Goto(c, "post")
     \/ c \in Scrapers /\ Goto(c, IF sleeping THEN "done" ELSE "post")
  /\ UNCHANGED <<running, sleeping, req_stop_sleeping, queues, worker, waiters,
                 cv_waiting, hand, yields, history>>

(* post(): an inference task at the back, a METRICS task at the front. *)
ClientPost(c) ==
  /\ pc[c] = "post"
  /\ queue_tasks' = IF c \in Inferrers THEN Append(queue_tasks, TaskOf(c))
                                       ELSE <<TaskOf(c)>> \o queue_tasks
  /\ waiters' \in NotifyOne(waiters)
  /\ posted' = Append(posted, c)
  /\ Goto(c, "posted")
  /\ UNCHANGED <<running, sleeping, req_stop_sleeping, queue_tasks_deferred,
                 queue_tasks_unhandled, worker, cv_waiting, hand, yields, handled,
                 lost, offered, terminated>>

ClientReceive(c) ==
  /\ pc[c] = "posted" /\ TaskOf(c) \in handled
  /\ Goto(c, "done")
  /\ UNCHANGED <<running, sleeping, req_stop_sleeping, queues, worker, waiters,
                 cv_waiting, hand, yields, history>>

(* server_response_reader::stop() before the answer: post() of a CANCEL task   *)
(* at the front, with cleanup_pending_task() on every deque.                   *)
ClientCancel(c) ==
  /\ pc[c] = "posted"
  /\ queue_tasks' = <<CancelOf(c)>> \o WithoutTarget(queue_tasks, c)
  /\ queue_tasks_deferred' = WithoutTarget(queue_tasks_deferred, c)
  /\ queue_tasks_unhandled' = WithoutTarget(queue_tasks_unhandled, c)
  /\ waiters' \in NotifyOne(waiters)
  /\ Goto(c, "done")
  /\ UNCHANGED <<running, sleeping, req_stop_sleeping, worker, cv_waiting, hand,
                 yields, history>>

(* terminate(), from the signal handler: it is installed before start_loop(). *)
Terminate ==
  /\ ~terminated /\ terminated' = TRUE
  /\ running' = FALSE
  /\ NotifyAll
  /\ UNCHANGED <<sleeping, req_stop_sleeping, queues, worker, cv_waiting, pc, hand,
                 yields, handled, lost, posted, offered>>

-----------------------------------------------------------------------------
MainNext ==
  \/ StartLoop \/ MainPop \/ MainHandle \/ MainDefer \/ MainPopDeferred
  \/ BeginYield \/ NotifyWorker \/ EndWork \/ YieldWake \/ UpdateDone
  \/ LeaveLoop \/ EnterSleep \/ WaitForTask \/ WaitForTaskWake \/ SleepWake
  \/ WorkerStop \/ WorkerStopNotify \/ WorkerJoin

WorkerNext ==
  \/ WorkerTop \/ WorkerPop \/ WorkerHandle \/ WorkerThrow \/ WorkerDecline
  \/ WorkerSetAside \/ WorkerCheck \/ WorkerWake \/ WorkerClearBusy \/ WorkerNotify

(* What a client does once it has entered the queue's code. *)
ClientNext(c) ==
  ClientWaitUntilNoSleep(c) \/ ClientNoSleepWake(c) \/ ClientBypass(c)
  \/ ClientPost(c) \/ ClientReceive(c)

Next ==
  \/ MainNext \/ WorkerNext
  \/ \E c \in Clients : ClientNext(c) \/ ClientCancel(c)
  \/ Terminate
  \/ pc[Main] \in {"done", "asleep"} /\ UNCHANGED vars   \* at rest

(* Every thread that can take a step is eventually scheduled; nobody is obliged *)
(* to cancel a request or to terminate the server.                              *)
Fairness ==
  /\ WF_vars(MainNext) /\ WF_vars(WorkerNext)
  /\ \A c \in Clients : WF_vars(ClientNext(c))

Spec == Init /\ [][Next]_vars
FairSpec == Spec /\ Fairness

-----------------------------------------------------------------------------
(* Properties *)

(* Every task the queue holds, the next one to be offered first. *)
Pending == hand[Main] \o queue_tasks_unhandled \o hand[Worker] \o queue_tasks
           \o queue_tasks_deferred

(* A request is in one place.  Through pops, declines outside the mutex, put-   *)
(* backs, deferrals and cancellations, a task is never held twice and never     *)
(* both held and finished; and as long as its client waits for it, it is not    *)
(* dropped (process_new_tasks, yield_to_queue, pop_deferred_task).              *)
TaskConservation ==
  /\ IsInjective(Pending)
  /\ Range(Pending) \cap (handled \cup lost) = {}
  /\ \A c \in Clients : pc[c] = "posted" =>
       TaskOf(c) \in Range(Pending) \cup handled \cup lost

(* "keeping their order": requests that have not been offered yet are offered   *)
(* in the order they were posted, however often a yield has set them aside.     *)
FifoOrder ==
  LET fresh(t) == t.type = "infer" /\ t.id \notin offered
      rank(t) == CHOOSE i \in DOMAIN posted : posted[i] = t.id
  IN  \A i, j \in DOMAIN Pending :
        (i < j /\ fresh(Pending[i]) /\ fresh(Pending[j])) =>
          rank(Pending[i]) < rank(Pending[j])

(* callback_new_task and work on the slots exclude each other but for a yield:  *)
(* the worker runs the callback only between the start and the end of a         *)
(* yield_to_queue(), never while Main runs the callback, updates the slots,     *)
(* sleeps with the model unloaded, or has joined it.                            *)
CallbackExclusion ==
  pc[Worker] \in {"pop", "callback", "decline"} =>
    pc[Main] \in Yielding

(* When yield_to_queue() is not running, the worker is idle and has left        *)
(* nothing behind: no declined task outside the queue, no pending exception.    *)
YieldLeavesNothing ==
  pc[Main] \notin Yielding =>
    /\ ~worker.busy /\ ~worker.yielding /\ ~worker.exception
    /\ queue_tasks_unhandled = <<>> /\ hand[Worker] = <<>>

(* yield_to_queue() returns: the worker's last notification is never missed. *)
YieldReturns == pc[Main] = "yield_wait" ~> pc[Main] = "update"

(* terminate() ends a running start_loop() from wherever its threads are. *)
TerminateStops == ~running /\ pc[Main] # "init" ~> pc[Main] = "done"

(* A task posted to a queue that is not terminated is offered to the callback,  *)
(* unless its client gives up or the queue falls asleep: however often a yield  *)
(* declines it, and whichever thread a notification reaches.                    *)
PostedIsOffered ==
  \A c \in Clients : (pc[c] = "posted" /\ running) ~>
    (c \in offered \/ pc[c] = "done" \/ TaskOf(c) \in lost \/ ~running \/ sleeping)

(* "Any new incoming task will automatically trigger the model to reload": also *)
(* a sleeping queue gets to the task (README.md, Sleeping on Idle).             *)
PostedWakesUp ==
  \A c \in Inferrers : (pc[c] = "posted" /\ running) ~>
    (c \in offered \/ pc[c] = "done" \/ ~running)
=============================================================================
