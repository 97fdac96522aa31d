-------------------------- MODULE ServerQueue_proofs -------------------------
EXTENDS ServerQueue, TaskQueues_proofs

(* A thread that moves leaves the program counters of the right types, and moves *)
(* no other thread.                                                              *)
LEMMA GotoTypes ==
  ASSUME PcTypes, NEW t \in Threads, NEW l, Goto(t, l),
         t = Main => l \in MainPC, t = Worker => l \in WorkerPC,
         t \in Clients => l \in ClientPC
  PROVE  /\ PcTypes'
         /\ pc'[t] = l
         /\ \A u \in Threads \ {t} : pc'[u] = pc[u]
<1>1. l \in MainPC \cup WorkerPC \cup ClientPC
  BY DEF Threads
<1>2. QED BY <1>1, ThreadsAssumption DEF PcTypes, Goto, Threads

(* The hands are right when nobody takes or drops a task ...                     *)
LEMMA HandKept ==
  ASSUME HandTypes, PcTypes, NEW t \in Threads, NEW l, Goto(t, l),
         l \notin Holding, pc[t] \notin Holding, UNCHANGED hand
  PROVE  HandTypes'
BY DEF HandTypes, PcTypes, Goto, Threads

(* ... and when a thread drops the task it has.                                  *)
LEMMA HandDropped ==
  ASSUME HandTypes, PcTypes, NEW t \in {Main, Worker}, NEW l, Goto(t, l),
         l \notin Holding, DropHand(t)
  PROVE  HandTypes'
<1>1. <<>> \in Seq(Task) /\ Len(<<>>) = 0
  OBVIOUS
<1>2. hand' \in [{Main, Worker} -> Seq(Task)]
  BY <1>1 DEF HandTypes, DropHand
<1>3. ASSUME NEW u \in {Main, Worker}
      PROVE  Len(hand'[u]) = (IF pc'[u] \in Holding THEN 1 ELSE 0)
  <2>1. CASE u = t
    BY <1>1, <2>1 DEF HandTypes, PcTypes, Goto, DropHand, Threads
  <2>2. CASE u # t
    BY <2>2 DEF HandTypes, PcTypes, Goto, DropHand, Threads
  <2>3. QED BY <2>1, <2>2
<1>4. QED BY <1>2, <1>3 DEF HandTypes

(* The task in hand is a task.                                                   *)
LEMMA TaskInHand ==
  ASSUME HandTypes, NEW t \in {Main, Worker}, pc[t] \in Holding
  PROVE  hand[t][1] \in Task
BY DEF HandTypes

(* notify_one and a wait leave a set of blocked threads. *)
LEMMA WaiterTypes ==
  ASSUME waiters \subseteq Threads
  PROVE  /\ \A blocked \in NotifyOne(waiters) : blocked \subseteq Threads
         /\ \A t \in Threads, label, next, predicate \in BOOLEAN :
              WaitUntil(t, label, predicate, next) => waiters' \subseteq Threads
BY DEF NotifyOne, WaitUntil

LEMMA NewTasks ==
  \A c \in Clients : TaskOf(c) \in Task /\ CancelOf(c) \in Task
BY DEF TaskOf, CancelOf, Task, NoSlot

(* A released slot moves one deferred task to the front of the queue. *)
LEMMA PopDeferredTypes ==
  ASSUME DequeTypes, waiters \subseteq Threads, PopDeferred
  PROVE  /\ queue_tasks' \in Seq(Task) /\ queue_tasks_deferred' \in Seq(Task)
         /\ waiters' \subseteq Threads
<1>1. CASE queue_tasks_deferred = <<>>
  BY <1>1, WaiterTypes DEF PopDeferred, DequeTypes
<1>2. CASE queue_tasks_deferred # <<>>
  <2> DEFINE i == DeferredPick(queue_tasks_deferred, NoSlot)
  <2>1. i \in 1..Len(queue_tasks_deferred)
    BY <1>2, DeferredPickInDomain DEF DequeTypes
  <2>2. RemoveAt(queue_tasks_deferred, i) \in Seq(Task)
    BY <2>1, RemoveAtType DEF DequeTypes
  <2>3. <<queue_tasks_deferred[i]>> \o queue_tasks \in Seq(Task)
    BY <2>1 DEF DequeTypes
  <2>4. QED BY <1>2, <2>2, <2>3, WaiterTypes DEF PopDeferred
<1>3. QED BY <1>1, <1>2

LEMMA PopTaskTypes ==
  ASSUME TypeOK, NEW t \in {Main, Worker}, NEW stopped, NEW empty,
         PopTask(t, stopped, empty), stopped \notin Holding, empty \notin Holding,
         t = Main => {stopped, empty} \subseteq MainPC,
         t = Worker => {stopped, empty} \subseteq WorkerPC
  PROVE  TypeOK'
<1> USE DEF TypeOK
<1>1. t \in Threads /\ "callback" \in MainPC /\ "callback" \in WorkerPC /\ t \notin
    Clients
  BY ThreadsAssumption DEF Threads, MainPC, WorkerPC
<1>2. PcTypes'
  BY <1>1, GotoTypes, Zenon DEF PopTask
<1>3. HandTypes' /\ DequeTypes'
  <2>1. CASE ~running \/ queue_tasks = <<>>
    <3>1. DequeTypes'
      BY <2>1 DEF PopTask, DequeTypes
    <3>2. pc[t] \notin Holding /\ UNCHANGED hand
      BY <2>1 DEF PopTask, Holding
    <3>3. \E l \in {stopped, empty} : Goto(t, l)
      BY <2>1 DEF PopTask
    <3>4. QED BY <1>1, <3>1, <3>2, <3>3, HandKept
  <2>2. CASE running /\ queue_tasks # <<>>
    <3>1. Head(queue_tasks) \in Task /\ Tail(queue_tasks) \in Seq(Task)
      BY <2>2 DEF DequeTypes
    <3>2. <<Head(queue_tasks)>> \in Seq(Task) /\ Len(<<Head(queue_tasks)>>) = 1
      BY <3>1
    <3>3. QED
      BY <2>2, <3>1, <3>2 DEF PopTask, HandTypes, DequeTypes, PcTypes, Goto, Threads,
          Holding
  <2>3. QED BY <2>1, <2>2 DEF FlagTypes
<1>4. QED BY <1>2, <1>3 DEF PopTask, FlagTypes, HistoryTypes, history

(* The declined tasks and the queue, put together, are tasks.                    *)
LEMMA PutBackTypes ==
  ASSUME DequeTypes
  PROVE  PutBack(queue_tasks_unhandled, queue_tasks) \in Seq(Task) /\ <<>> \in Seq(Task)
BY ConcatProperties DEF DequeTypes, PutBack

(* A thread moves without touching a task.                                       *)
LEMMA Move ==
  ASSUME TypeOK, NEW t \in Threads, NEW l, Goto(t, l), UNCHANGED hand,
         l \notin Holding, pc[t] \notin Holding,
         t = Main => l \in MainPC, t = Worker => l \in WorkerPC,
         t \in Clients => l \in ClientPC
  PROVE  PcTypes' /\ HandTypes'
BY GotoTypes, HandKept DEF TypeOK

(* A thread moves out of the callback and drops its task. *)
LEMMA MoveAndDrop ==
  ASSUME TypeOK, NEW t \in {Main, Worker}, NEW l, Goto(t, l), DropHand(t),
         l \notin Holding, t = Main => l \in MainPC, t = Worker => l \in WorkerPC
  PROVE  PcTypes' /\ HandTypes'
<1>1. t \in Threads /\ t \notin Clients
  BY ThreadsAssumption DEF Threads
<1>2. QED BY <1>1, GotoTypes, HandDropped DEF TypeOK

(* Every step of Main leaves the types alone. *)
LEMMA MainTypes ==
  ASSUME TypeOK, YieldLeavesNothing, MainNext
  PROVE  TypeOK'
<1>0. Main \in Threads /\ Main \notin Clients /\ Worker \in Threads /\ Main # Worker
      /\ Worker \notin Clients
  BY ThreadsAssumption DEF Threads
<1> USE <1>0
<1>1. CASE StartLoop
  <2>1. PcTypes'
    BY <1>1 DEF StartLoop, TypeOK, PcTypes, MainPC, WorkerPC, Threads
  <2>2. HandTypes'
    <3>1. pc'[Main] = "pop" /\ pc'[Worker] = "top" /\ UNCHANGED hand
      BY <1>1 DEF StartLoop, TypeOK, PcTypes
    <3>2. Len(hand[Main]) = 0 /\ Len(hand[Worker]) = 0
      BY <1>1 DEF StartLoop, YieldLeavesNothing, Yielding, TypeOK, HandTypes, Holding
    <3>3. QED BY <3>1, <3>2 DEF TypeOK, HandTypes, Holding
  <2>3. FlagTypes' /\ DequeTypes' /\ HistoryTypes'
    BY <1>1 DEF StartLoop, TypeOK, FlagTypes, DequeTypes, HistoryTypes, queues, history
  <2>4. QED BY <2>1, <2>2, <2>3 DEF TypeOK
<1>2. CASE MainPop
  BY <1>2, PopTaskTypes DEF MainPop, MainPC, Holding
<1>3. CASE MainHandle
  <2>1. PcTypes' /\ HandTypes'
    BY <1>3, MoveAndDrop DEF MainHandle, MainPC, Holding
  <2>2. FlagTypes' /\ DequeTypes' /\ HistoryTypes'
    BY <1>3, TaskInHand, PopDeferredTypes DEF MainHandle, Offered, Holding, Task,
        TypeOK, FlagTypes, DequeTypes, HistoryTypes, queues, history
  <2>3. QED BY <2>1, <2>2 DEF TypeOK
<1>4. CASE MainDefer
  <2>1. PcTypes' /\ HandTypes'
    BY <1>4, MoveAndDrop DEF MainDefer, MainPC, Holding
  <2>2. FlagTypes' /\ DequeTypes' /\ HistoryTypes'
    BY <1>4, TaskInHand, WaiterTypes DEF MainDefer, Offered, Holding, Task, TypeOK,
        FlagTypes, DequeTypes, HistoryTypes, queues, history
  <2>3. QED BY <2>1, <2>2 DEF TypeOK
<1>5. CASE MainPopDeferred
  <2>1. UNCHANGED <<pc, hand>>
    BY <1>5 DEF MainPopDeferred
  <2>2. PcTypes' /\ HandTypes'
    BY <2>1 DEF TypeOK, PcTypes, HandTypes
  <2>3. FlagTypes' /\ DequeTypes' /\ HistoryTypes'
    BY <1>5, PopDeferredTypes DEF MainPopDeferred, TypeOK, FlagTypes, DequeTypes,
        HistoryTypes, queues, history
  <2>4. QED BY <2>2, <2>3 DEF TypeOK
<1>6. CASE BeginYield
  <2>1. PcTypes' /\ HandTypes'
    BY <1>6, Move DEF BeginYield, MainPC, Holding
  <2>2. yields' \in 0..MaxYields
    BY <1>6, BoundsAssumption DEF BeginYield, TypeOK, FlagTypes
  <2>3. FlagTypes'
    BY <1>6, <2>2 DEF BeginYield, TypeOK, FlagTypes
  <2>4. DequeTypes' /\ HistoryTypes'
    BY <1>6, Zenon DEF BeginYield, TypeOK, DequeTypes, HistoryTypes, queues, history
  <2>5. QED BY <2>1, <2>3, <2>4 DEF TypeOK
<1>7. CASE NotifyWorker
  <2>1. PcTypes' /\ HandTypes'
    BY <1>7, Move DEF NotifyWorker, MainPC, Holding
  <2>2. FlagTypes' /\ DequeTypes' /\ HistoryTypes'
    BY <1>7, Zenon DEF NotifyWorker, TypeOK, FlagTypes, DequeTypes, HistoryTypes,
        queues, history
  <2>3. QED BY <2>1, <2>2 DEF TypeOK
<1>8. CASE EndWork
  <2>1. PcTypes' /\ HandTypes'
    BY <1>8, Move DEF EndWork, FinishYield, MainPC, Holding
  <2>2. FlagTypes'
    BY <1>8 DEF EndWork, FinishYield, TakeException, NotifyAll, TypeOK, FlagTypes
  <2>3. DequeTypes'
    BY <1>8, PutBackTypes DEF EndWork, FinishYield, TypeOK, DequeTypes
  <2>4. HistoryTypes'
    BY <1>8 DEF EndWork, TypeOK, HistoryTypes, history
  <2>5. QED BY <2>1, <2>2, <2>3, <2>4 DEF TypeOK
<1>9. CASE YieldWake
  <2>1. PcTypes' /\ HandTypes'
    <3>1. CASE ~WorkerQuiet
      BY <1>9, <3>1 DEF YieldWake, TypeOK, PcTypes, HandTypes
    <3>2. CASE WorkerQuiet
      BY <1>9, <3>2, Move DEF YieldWake, FinishYield, MainPC, Holding
    <3>3. QED BY <3>1, <3>2
  <2>2. FlagTypes'
    BY <1>9 DEF YieldWake, FinishYield, TakeException, TypeOK, FlagTypes
  <2>3. DequeTypes'
    BY <1>9, PutBackTypes DEF YieldWake, FinishYield, TypeOK, DequeTypes
  <2>4. HistoryTypes'
    BY <1>9 DEF YieldWake, TypeOK, HistoryTypes, history
  <2>5. QED BY <2>1, <2>2, <2>3, <2>4 DEF TypeOK
<1>10. CASE UpdateDone
  <2>1. PcTypes' /\ HandTypes'
    BY <1>10, Move DEF UpdateDone, MainPC, Holding
  <2>2. FlagTypes' /\ DequeTypes' /\ HistoryTypes'
    BY <1>10, BoundsAssumption DEF UpdateDone, TypeOK, FlagTypes, DequeTypes,
        HistoryTypes, queues, history
  <2>3. QED BY <2>1, <2>2 DEF TypeOK
<1>11. CASE LeaveLoop
  <2>1. PcTypes' /\ HandTypes'
    BY <1>11, Move DEF LeaveLoop, MainPC, Holding
  <2>2. FlagTypes' /\ DequeTypes' /\ HistoryTypes'
    BY <1>11, Zenon DEF LeaveLoop, TypeOK, FlagTypes, DequeTypes, HistoryTypes, queues,
        history
  <2>3. QED BY <2>1, <2>2 DEF TypeOK
<1>12. CASE EnterSleep
  <2>1. PcTypes' /\ HandTypes'
    BY <1>12, Move DEF EnterSleep, MainPC, Holding
  <2>2. FlagTypes' /\ DequeTypes' /\ HistoryTypes'
    BY <1>12 DEF EnterSleep, TypeOK, FlagTypes, DequeTypes, HistoryTypes, queues,
        history
  <2>3. QED BY <2>1, <2>2 DEF TypeOK
<1>13. CASE WaitForTask
  <2>1. PcTypes' /\ HandTypes'
    BY <1>13, Move DEF WaitForTask, MainPC, Holding
  <2>2. FlagTypes' /\ DequeTypes' /\ HistoryTypes'
    BY <1>13 DEF WaitForTask, TypeOK, FlagTypes, DequeTypes, HistoryTypes, queues,
        history
  <2>3. QED BY <2>1, <2>2 DEF TypeOK
<1>14. CASE WaitForTaskWake
  <2>1. PcTypes' /\ HandTypes'
    BY <1>14, Move DEF WaitForTaskWake, MainPC, Holding
  <2>2. FlagTypes' /\ DequeTypes' /\ HistoryTypes'
    BY <1>14 DEF WaitForTaskWake, TypeOK, FlagTypes, DequeTypes, HistoryTypes, queues,
        history
  <2>3. QED BY <2>1, <2>2 DEF TypeOK
<1>15. CASE SleepWake
  <2>1. PcTypes' /\ HandTypes'
    <3>1. CASE running /\ ~req_stop_sleeping
      BY <1>15, <3>1 DEF SleepWake, TypeOK, PcTypes, HandTypes
    <3>2. CASE ~(running /\ ~req_stop_sleeping)
      BY <1>15, <3>2, Move DEF SleepWake, MainPC, Holding
    <3>3. QED BY <3>1, <3>2
  <2>2. FlagTypes' /\ DequeTypes' /\ HistoryTypes'
    BY <1>15 DEF SleepWake, NotifyAll, TypeOK, FlagTypes, DequeTypes, HistoryTypes,
        queues, history
  <2>3. QED BY <2>1, <2>2 DEF TypeOK
<1>16. CASE WorkerStop
  <2>1. PcTypes' /\ HandTypes'
    BY <1>16, Move DEF WorkerStop, MainPC, Holding
  <2>2. FlagTypes' /\ DequeTypes' /\ HistoryTypes'
    BY <1>16 DEF WorkerStop, TypeOK, FlagTypes, DequeTypes, HistoryTypes, queues,
        history
  <2>3. QED BY <2>1, <2>2 DEF TypeOK
<1>17. CASE WorkerStopNotify
  <2>1. PcTypes' /\ HandTypes'
    BY <1>17, Move DEF WorkerStopNotify, MainPC, Holding
  <2>2. FlagTypes' /\ DequeTypes' /\ HistoryTypes'
    BY <1>17 DEF WorkerStopNotify, NotifyAll, TypeOK, FlagTypes, DequeTypes,
        HistoryTypes, queues, history
  <2>3. QED BY <2>1, <2>2 DEF TypeOK
<1>18. CASE WorkerJoin
  <2>1. PcTypes' /\ HandTypes'
    BY <1>18, Move DEF WorkerJoin, MainPC, Holding
  <2>2. FlagTypes' /\ DequeTypes' /\ HistoryTypes'
    BY <1>18, Zenon DEF WorkerJoin, TypeOK, FlagTypes, DequeTypes, HistoryTypes, queues,
        history
  <2>3. QED BY <2>1, <2>2 DEF TypeOK
<1>19. QED BY <1>1, <1>2, <1>3, <1>4, <1>5, <1>6, <1>7, <1>8, <1>9, <1>10, <1>11, <1>12,
    <1>13, <1>14, <1>15, <1>16, <1>17, <1>18 DEF MainNext

(* Every step of the worker leaves the types alone. *)
LEMMA WorkerTypes ==
  ASSUME TypeOK, WorkerNext
  PROVE  TypeOK'
<1>0. Worker \in Threads /\ Main # Worker /\ Worker \notin Clients
  BY ThreadsAssumption DEF Threads
<1> USE <1>0
<1>1. CASE WorkerTop
  <2>1. PcTypes' /\ HandTypes'
    BY <1>1, Move DEF WorkerTop, WorkerPC, Holding
  <2>2. FlagTypes' /\ DequeTypes' /\ HistoryTypes'
    BY <1>1 DEF WorkerTop, TypeOK, FlagTypes, DequeTypes, HistoryTypes, queues, history
  <2>3. QED BY <2>1, <2>2 DEF TypeOK
<1>2. CASE WorkerPop
  BY <1>2, PopTaskTypes DEF WorkerPop, WorkerPC, Holding
<1>3. CASE WorkerHandle
  <2>1. PcTypes' /\ HandTypes'
    BY <1>3, MoveAndDrop DEF WorkerHandle, WorkerPC, Holding
  <2>2. FlagTypes' /\ DequeTypes' /\ HistoryTypes'
    BY <1>3, TaskInHand DEF WorkerHandle, Offered, Holding, Task, TypeOK, FlagTypes,
        DequeTypes, HistoryTypes, queues, history
  <2>3. QED BY <2>1, <2>2 DEF TypeOK
<1>4. CASE WorkerThrow
  <2>1. PcTypes' /\ HandTypes'
    BY <1>4, MoveAndDrop DEF WorkerThrow, WorkerPC, Holding
  <2>2. FlagTypes' /\ DequeTypes' /\ HistoryTypes'
    BY <1>4, TaskInHand DEF WorkerThrow, Holding, TypeOK, FlagTypes, DequeTypes,
        HistoryTypes, queues, history
  <2>3. QED BY <2>1, <2>2 DEF TypeOK
<1>5. CASE WorkerDecline
  <2>1. PcTypes'
    BY <1>5, GotoTypes DEF WorkerDecline, WorkerPC, TypeOK
  <2>2. HandTypes'
    BY <1>5 DEF WorkerDecline, TypeOK, PcTypes, HandTypes, Holding, Goto, Threads
  <2>3. FlagTypes' /\ DequeTypes' /\ HistoryTypes'
    BY <1>5, Zenon DEF WorkerDecline, TypeOK, FlagTypes, DequeTypes, HistoryTypes,
        queues, history
  <2>4. QED BY <2>1, <2>2, <2>3 DEF TypeOK
<1>6. CASE WorkerSetAside
  <2>1. PcTypes' /\ HandTypes'
    BY <1>6, MoveAndDrop DEF WorkerSetAside, WorkerPC, Holding
  <2>2. FlagTypes' /\ DequeTypes' /\ HistoryTypes'
    BY <1>6, TaskInHand DEF WorkerSetAside, Holding, TypeOK, FlagTypes, DequeTypes,
        HistoryTypes, queues, history
  <2>3. QED BY <2>1, <2>2 DEF TypeOK
<1>7. CASE WorkerCheck
  <2>1. PcTypes' /\ HandTypes'
    BY <1>7, Move DEF WorkerCheck, WaitUntil, WorkerPC, Holding
  <2>2. FlagTypes' /\ DequeTypes' /\ HistoryTypes'
    BY <1>7 DEF WorkerCheck, WaitUntil, TypeOK, FlagTypes, DequeTypes, HistoryTypes,
        queues, history
  <2>3. QED BY <2>1, <2>2 DEF TypeOK
<1>8. CASE WorkerWake
  <2>1. PcTypes' /\ HandTypes'
    BY <1>8, Move DEF WorkerWake, WaitUntil, WorkerPC, Holding
  <2>2. FlagTypes' /\ DequeTypes' /\ HistoryTypes'
    BY <1>8 DEF WorkerWake, WaitUntil, TypeOK, FlagTypes, DequeTypes, HistoryTypes,
        queues, history
  <2>3. QED BY <2>1, <2>2 DEF TypeOK
<1>9. CASE WorkerClearBusy
  <2>1. PcTypes' /\ HandTypes'
    BY <1>9, Move DEF WorkerClearBusy, WorkerPC, Holding
  <2>2. FlagTypes' /\ DequeTypes' /\ HistoryTypes'
    BY <1>9 DEF WorkerClearBusy, TypeOK, FlagTypes, DequeTypes, HistoryTypes, queues,
        history
  <2>3. QED BY <2>1, <2>2 DEF TypeOK
<1>10. CASE WorkerNotify
  <2>1. PcTypes' /\ HandTypes'
    BY <1>10, Move DEF WorkerNotify, WorkerPC, Holding
  <2>2. FlagTypes' /\ DequeTypes' /\ HistoryTypes'
    BY <1>10 DEF WorkerNotify, NotifyAll, TypeOK, FlagTypes, DequeTypes, HistoryTypes,
        queues, history
  <2>3. QED BY <2>1, <2>2 DEF TypeOK
<1>11. QED BY <1>1, <1>2, <1>3, <1>4, <1>5, <1>6, <1>7, <1>8, <1>9, <1>10 DEF WorkerNext

(* Every step of a client leaves the types alone. *)
LEMMA ClientTypes ==
  ASSUME TypeOK, NEW c \in Clients, ClientNext(c) \/ ClientCancel(c)
  PROVE  TypeOK'
<1>0. c \in Threads /\ c # Main /\ c # Worker
  BY ThreadsAssumption DEF Threads
<1> USE <1>0
<1>1. CASE ClientWaitUntilNoSleep(c)
  <2>1. PcTypes' /\ HandTypes'
    BY <1>1, Move DEF ClientWaitUntilNoSleep, ClientPC, Holding
  <2>2. FlagTypes' /\ DequeTypes' /\ HistoryTypes'
    BY <1>1, WaiterTypes DEF ClientWaitUntilNoSleep, TypeOK, FlagTypes, DequeTypes,
        HistoryTypes, queues, history
  <2>3. QED BY <2>1, <2>2 DEF TypeOK
<1>2. CASE ClientNoSleepWake(c)
  <2>1. PcTypes' /\ HandTypes'
    BY <1>2, Move DEF ClientNoSleepWake, WaitUntil, ClientPC, Holding
  <2>2. FlagTypes' /\ DequeTypes' /\ HistoryTypes'
    BY <1>2 DEF ClientNoSleepWake, WaitUntil, TypeOK, FlagTypes, DequeTypes,
        HistoryTypes, queues, history
  <2>3. QED BY <2>1, <2>2 DEF TypeOK
<1>3. CASE ClientBypass(c)
  <2>1. PcTypes' /\ HandTypes'
    BY <1>3, Move DEF ClientBypass, ClientPC, Holding
  <2>2. FlagTypes' /\ DequeTypes' /\ HistoryTypes'
    BY <1>3, Zenon DEF ClientBypass, TypeOK, FlagTypes, DequeTypes, HistoryTypes,
        queues, history
  <2>3. QED BY <2>1, <2>2 DEF TypeOK
<1>4. CASE ClientPost(c)
  <2>1. PcTypes' /\ HandTypes'
    BY <1>4, Move DEF ClientPost, ClientPC, Holding
  <2>2. FlagTypes' /\ DequeTypes' /\ HistoryTypes'
    BY <1>4, NewTasks, WaiterTypes DEF ClientPost, TypeOK, FlagTypes, DequeTypes,
        HistoryTypes, queues, history
  <2>3. QED BY <2>1, <2>2 DEF TypeOK
<1>5. CASE ClientReceive(c)
  <2>1. PcTypes' /\ HandTypes'
    BY <1>5, Move DEF ClientReceive, ClientPC, Holding
  <2>2. FlagTypes' /\ DequeTypes' /\ HistoryTypes'
    BY <1>5, Zenon DEF ClientReceive, TypeOK, FlagTypes, DequeTypes, HistoryTypes,
        queues, history
  <2>3. QED BY <2>1, <2>2 DEF TypeOK
<1>6. CASE ClientCancel(c)
  <2>1. PcTypes' /\ HandTypes'
    BY <1>6, Move DEF ClientCancel, ClientPC, Holding
  <2>2. FlagTypes' /\ DequeTypes' /\ HistoryTypes'
    BY <1>6, NewTasks, WaiterTypes, WithoutTargetType DEF ClientCancel, TypeOK,
        FlagTypes, DequeTypes, HistoryTypes, queues, history
  <2>3. QED BY <2>1, <2>2 DEF TypeOK
<1>7. QED BY <1>1, <1>2, <1>3, <1>4, <1>5, <1>6 DEF ClientNext

(* The inductive invariant: the types, and the protocol between yield_to_queue()  *)
(* and worker_loop().  The worker is in process_new_tasks() or on its way out of   *)
(* it only while it is busy, and it is busy only inside a yield.                   *)
WorkerBusy == pc[Worker] \in WorkingPC => worker.busy
IInv == TypeOK /\ WorkerBusy /\ YieldLeavesNothing

LEMMA InitIInv == Init => IInv
<1> SUFFICES ASSUME Init PROVE IInv
  OBVIOUS
<1>1. pc[Main] = "init" /\ pc[Worker] = "none" /\ \A c \in Clients : pc[c] = "start"
  BY ThreadsAssumption DEF Init, Threads
<1>2. PcTypes
  BY <1>1 DEF Init, PcTypes, MainPC, WorkerPC, ClientPC
<1>3. HandTypes
  BY <1>1 DEF Init, HandTypes, Holding
<1>4. FlagTypes
  <2>1. yields \in 0..MaxYields
    BY BoundsAssumption DEF Init
  <2>2. worker \in [stop : BOOLEAN, busy : BOOLEAN, yielding : BOOLEAN, exception :
      BOOLEAN]
    BY DEF Init
  <2>3. QED BY <2>1, <2>2 DEF Init, FlagTypes
<1>5. DequeTypes /\ HistoryTypes
  <2>1. <<>> \in Seq(Task) /\ <<>> \in Seq(Clients)
    OBVIOUS
  <2>2. QED BY <2>1, Zenon DEF Init, DequeTypes, HistoryTypes
<1>6. WorkerBusy /\ YieldLeavesNothing
  BY <1>1 DEF Init, WorkerBusy, WorkingPC, YieldLeavesNothing
<1>7. QED BY <1>2, <1>3, <1>4, <1>5, <1>6 DEF IInv, TypeOK

(* A step of Main keeps the protocol: it begins a yield by making the worker busy, *)
(* and ends one only when the worker is not.                                       *)
LEMMA MainProtocol ==
  ASSUME IInv, MainNext
  PROVE  WorkerBusy' /\ YieldLeavesNothing'
<1> USE ThreadsAssumption DEF Goto, IInv, TypeOK, PcTypes, FlagTypes, HandTypes,
    WorkerBusy, WorkingPC, YieldLeavesNothing, Yielding, Holding, queues, Threads
<1>1. CASE StartLoop
  BY <1>1 DEF StartLoop
<1>2. CASE MainPop
  BY <1>2 DEF MainPop, PopTask
<1>3. CASE MainHandle
  BY <1>3 DEF MainHandle, DropHand, PopDeferred
<1>4. CASE MainDefer
  BY <1>4 DEF MainDefer, DropHand
<1>5. CASE MainPopDeferred
  BY <1>5 DEF MainPopDeferred
<1>6. CASE BeginYield
  BY <1>6 DEF BeginYield
<1>7. CASE NotifyWorker
  BY <1>7 DEF NotifyWorker
<1>8. CASE EndWork
  <2>1. CASE ~WorkerQuiet
    BY <1>8, <2>1 DEF EndWork, WorkerQuiet
  <2>2. CASE WorkerQuiet
    <3>1. pc[Worker] \notin WorkingPC
      BY <2>2 DEF WorkerQuiet, IInv, WorkerBusy
    <3>2. hand[Worker] = <<>> /\ UNCHANGED hand
      BY <1>8, <3>1 DEF EndWork, IInv, TypeOK, HandTypes, Holding, WorkingPC
    <3>3. pc'[Worker] = pc[Worker] /\ pc'[Main] = "update"
      BY <1>8, <2>2 DEF EndWork, FinishYield, Goto, IInv, TypeOK, PcTypes, Threads
    <3>4. WorkerBusy'
      BY <3>1, <3>3 DEF WorkerBusy
    <3>5. worker' = [worker EXCEPT !.yielding = FALSE, !.exception = FALSE]
      BY <1>8, <2>2, Zenon DEF EndWork, FinishYield, TakeException
    <3>6. ~worker'.busy /\ ~worker'.yielding /\ ~worker'.exception
      BY ONLY <2>2, <3>5, worker \in [stop : BOOLEAN, busy : BOOLEAN, yielding : BOOLEAN,
                                     exception : BOOLEAN] DEF WorkerQuiet
    <3>7. queue_tasks_unhandled' = <<>>
      BY <1>8, <2>2, Zenon DEF EndWork, FinishYield
    <3>8. hand'[Worker] = <<>>
      BY ONLY <3>2
    <3>9. YieldLeavesNothing'
      BY ONLY <3>6, <3>7, <3>8, Zenon DEF YieldLeavesNothing
    <3>10. QED BY <3>4, <3>9
  <2>3. QED BY <2>1, <2>2
<1>9. CASE YieldWake
  <2>1. CASE ~WorkerQuiet
    BY <1>9, <2>1 DEF YieldWake, WorkerQuiet
  <2>2. CASE WorkerQuiet
    <3>1. pc[Worker] \notin WorkingPC
      BY <2>2 DEF WorkerQuiet, IInv, WorkerBusy
    <3>2. hand[Worker] = <<>> /\ UNCHANGED hand
      BY <1>9, <3>1 DEF YieldWake, IInv, TypeOK, HandTypes, Holding, WorkingPC
    <3>3. pc'[Worker] = pc[Worker] /\ pc'[Main] = "update"
      BY <1>9, <2>2 DEF YieldWake, FinishYield, Goto, IInv, TypeOK, PcTypes, Threads
    <3>4. WorkerBusy'
      BY <3>1, <3>3 DEF WorkerBusy
    <3>5. worker' = [worker EXCEPT !.yielding = FALSE, !.exception = FALSE]
      BY <1>9, <2>2, Zenon DEF YieldWake, FinishYield, TakeException
    <3>6. ~worker'.busy /\ ~worker'.yielding /\ ~worker'.exception
      BY ONLY <2>2, <3>5, worker \in [stop : BOOLEAN, busy : BOOLEAN, yielding : BOOLEAN,
                                     exception : BOOLEAN] DEF WorkerQuiet
    <3>7. queue_tasks_unhandled' = <<>>
      BY <1>9, <2>2, Zenon DEF YieldWake, FinishYield
    <3>8. hand'[Worker] = <<>>
      BY ONLY <3>2
    <3>9. YieldLeavesNothing'
      BY ONLY <3>6, <3>7, <3>8, Zenon DEF YieldLeavesNothing
    <3>10. QED BY <3>4, <3>9
  <2>3. QED BY <2>1, <2>2
<1>10. CASE UpdateDone
  BY <1>10 DEF UpdateDone
<1>11. CASE LeaveLoop
  BY <1>11 DEF LeaveLoop
<1>12. CASE EnterSleep
  BY <1>12 DEF EnterSleep
<1>13. CASE WaitForTask
  BY <1>13 DEF WaitForTask
<1>14. CASE WaitForTaskWake
  BY <1>14 DEF WaitForTaskWake
<1>15. CASE SleepWake
  BY <1>15 DEF SleepWake
<1>16. CASE WorkerStop
  BY <1>16 DEF WorkerStop
<1>17. CASE WorkerStopNotify
  BY <1>17 DEF WorkerStopNotify
<1>18. CASE WorkerJoin
  BY <1>18 DEF WorkerJoin
<1>19. QED BY <1>1, <1>2, <1>3, <1>4, <1>5, <1>6, <1>7, <1>8, <1>9, <1>10, <1>11, <1>12,
    <1>13, <1>14, <1>15, <1>16, <1>17, <1>18 DEF MainNext

(* A step of the worker keeps the protocol: it enters process_new_tasks() only     *)
(* when it is busy, and clears busy on its way out.                                *)
LEMMA WorkerProtocol ==
  ASSUME IInv, WorkerNext
  PROVE  WorkerBusy' /\ YieldLeavesNothing'
<1> USE ThreadsAssumption DEF Goto, IInv, TypeOK, PcTypes, FlagTypes, HandTypes,
    WorkerBusy, WorkingPC, YieldLeavesNothing, Yielding, Holding, queues, Threads
<1>1. CASE WorkerTop
  BY <1>1 DEF WorkerTop
<1>2. CASE WorkerPop
  BY <1>2 DEF WorkerPop, PopTask
<1>3. CASE WorkerHandle
  BY <1>3 DEF WorkerHandle, DropHand
<1>4. CASE WorkerThrow
  BY <1>4 DEF WorkerThrow, DropHand
<1>5. CASE WorkerDecline
  BY <1>5 DEF WorkerDecline
<1>6. CASE WorkerSetAside
  BY <1>6 DEF WorkerSetAside, DropHand
<1>7. CASE WorkerCheck
  BY <1>7 DEF WorkerCheck, WaitUntil
<1>8. CASE WorkerWake
  BY <1>8 DEF WorkerWake, WaitUntil
<1>9. CASE WorkerClearBusy
  BY <1>9 DEF WorkerClearBusy
<1>10. CASE WorkerNotify
  BY <1>10 DEF WorkerNotify
<1>11. QED BY <1>1, <1>2, <1>3, <1>4, <1>5, <1>6, <1>7, <1>8, <1>9, <1>10 DEF WorkerNext

(* A client moves neither Main nor the worker; a cancellation leaves no task in an *)
(* empty queue_tasks_unhandled.                                                    *)
LEMMA ClientProtocol ==
  ASSUME IInv, NEW c \in Clients, ClientNext(c) \/ ClientCancel(c)
  PROVE  WorkerBusy' /\ YieldLeavesNothing'
<1>1. c # Main /\ c # Worker /\ c \in Threads
  BY ThreadsAssumption DEF Threads
<1>2. UNCHANGED <<worker, hand>> /\ \E l : Goto(c, l)
  BY DEF ClientNext, ClientCancel, ClientWaitUntilNoSleep, ClientNoSleepWake, WaitUntil,
         ClientBypass, ClientPost, ClientReceive, queues
<1>3. pc'[Main] = pc[Main] /\ pc'[Worker] = pc[Worker]
  BY <1>1, <1>2 DEF Goto, IInv, TypeOK, PcTypes
<1>4. queue_tasks_unhandled = <<>> => queue_tasks_unhandled' = <<>>
  <2>1. CASE ClientNext(c)
    BY <2>1 DEF ClientNext, ClientWaitUntilNoSleep, ClientNoSleepWake, ClientBypass,
                ClientPost, ClientReceive, queues
  <2>2. CASE ClientCancel(c)
    BY <2>2, WithoutTargetType DEF ClientCancel, IInv, TypeOK, DequeTypes
  <2>3. QED BY <2>1, <2>2
<1>5. QED BY <1>2, <1>3, <1>4 DEF IInv, WorkerBusy, WorkingPC, YieldLeavesNothing,
    Yielding

LEMMA NextIInv == IInv /\ [Next]_vars => IInv'
<1> SUFFICES ASSUME IInv, [Next]_vars PROVE IInv'
  OBVIOUS
<1>1. CASE MainNext
  BY <1>1, MainTypes, MainProtocol DEF IInv
<1>2. CASE WorkerNext
  BY <1>2, WorkerTypes, WorkerProtocol DEF IInv
<1>3. CASE \E c \in Clients : ClientNext(c) \/ ClientCancel(c)
  BY <1>3, ClientTypes, ClientProtocol DEF IInv
<1>4. CASE Terminate
  BY <1>4 DEF Terminate, NotifyAll, IInv, TypeOK, FlagTypes, DequeTypes, PcTypes,
              HandTypes, HistoryTypes, queues, WorkerBusy, YieldLeavesNothing
<1>5. CASE UNCHANGED vars
  BY <1>5 DEF vars, queues, history, IInv, TypeOK, FlagTypes, DequeTypes, PcTypes,
              HandTypes, HistoryTypes, WorkerBusy, YieldLeavesNothing
<1>6. QED BY <1>1, <1>2, <1>3, <1>4, <1>5 DEF Next

LEMMA Inductive == Spec => []IInv
BY InitIInv, NextIInv, PTL DEF Spec

(* The variables of the queue keep their types, and a thread has a task in hand   *)
(* exactly while it is in the callback or about to set the task aside.            *)
THEOREM TypeCorrect == Spec => []TypeOK
<1>1. IInv => TypeOK
  BY DEF IInv
<1>2. QED BY <1>1, Inductive, PTL

(* However many clients there are and however often the work yields, the worker    *)
(* runs callback_new_task only inside yield_to_queue().                            *)
THEOREM ExclusionCorrect == Spec => []CallbackExclusion
<1>1. IInv => CallbackExclusion
  BY DEF IInv, WorkerBusy, WorkingPC, YieldLeavesNothing, Yielding, CallbackExclusion,
         TypeOK, FlagTypes
<1>2. QED BY <1>1, Inductive, PTL

(* After yield_to_queue() returns or throws, the worker has nothing left to do,    *)
(* holds no task and no exception, and no declined task is outside the queue.      *)
THEOREM YieldCorrect == Spec => []YieldLeavesNothing
<1>1. IInv => YieldLeavesNothing
  BY DEF IInv
<1>2. QED BY <1>1, Inductive, PTL

-----------------------------------------------------------------------------
(* Tasks.  The queue is read as one line, the next task to be offered first, and *)
(* a line through who is in it and who stands before whom.                       *)
InLine(p, m, u, w, q, d) ==
  /\ p \in Seq(Task)
  /\ Range(p) = Range(m) \cup Range(u) \cup Range(w) \cup Range(q) \cup Range(d)
  /\ \A a, b : Before(p, a, b) <=>
       \/ Before(m, a, b) \/ Before(u, a, b) \/ Before(w, a, b) \/ Before(q, a, b)
       \/ Before(d, a, b)
       \/ a \in Range(m) /\ (b \in Range(u) \/ b \in Range(w) \/ b \in Range(q) \/ b \in Range(d))
       \/ a \in Range(u) /\ (b \in Range(w) \/ b \in Range(q) \/ b \in Range(d))
       \/ a \in Range(w) /\ (b \in Range(q) \/ b \in Range(d))
       \/ a \in Range(q) /\ b \in Range(d)

LEMMA FiveInLine ==
  ASSUME NEW m \in Seq(Task), NEW u \in Seq(Task), NEW w \in Seq(Task),
         NEW q \in Seq(Task), NEW d \in Seq(Task)
  PROVE  InLine(m \o u \o w \o q \o d, m, u, w, q, d)
<1> DEFINE p2 == m \o u
           p3 == p2 \o w
           p4 == p3 \o q
           p5 == p4 \o d
<1>2. /\ p2 \in Seq(Task) /\ Range(p2) = Range(m) \cup Range(u)
      /\ \A a, b : Before(p2, a, b) <=> \/ Before(m, a, b) \/ Before(u, a, b)
                                        \/ a \in Range(m) /\ b \in Range(u)
  BY ConcatOrder, Zenon
<1> HIDE DEF p2
<1>3. /\ p3 \in Seq(Task) /\ Range(p3) = Range(p2) \cup Range(w)
      /\ \A a, b : Before(p3, a, b) <=> \/ Before(p2, a, b) \/ Before(w, a, b)
                                        \/ a \in Range(p2) /\ b \in Range(w)
  BY <1>2, ConcatOrder, Zenon
<1> HIDE DEF p3
<1>4. /\ p4 \in Seq(Task) /\ Range(p4) = Range(p3) \cup Range(q)
      /\ \A a, b : Before(p4, a, b) <=> \/ Before(p3, a, b) \/ Before(q, a, b)
                                        \/ a \in Range(p3) /\ b \in Range(q)
  BY <1>3, ConcatOrder, Zenon
<1> HIDE DEF p4
<1>5. /\ p5 \in Seq(Task) /\ Range(p5) = Range(p4) \cup Range(d)
      /\ \A a, b : Before(p5, a, b) <=> \/ Before(p4, a, b) \/ Before(d, a, b)
                                        \/ a \in Range(p4) /\ b \in Range(d)
  BY <1>4, ConcatOrder, Zenon
<1> HIDE DEF p5
<1>6. InLine(p5, m, u, w, q, d) BY <1>2, <1>3, <1>4, <1>5 DEF InLine
<1> QED BY <1>6, Zenon DEF p5, p4, p3, p2

PendingInLine ==
  InLine(Pending, hand[Main], queue_tasks_unhandled, hand[Worker], queue_tasks,
         queue_tasks_deferred)

LEMMA PendingIsLine ==
  /\ TypeOK => PendingInLine
  /\ TypeOK' => PendingInLine'
<1>1. ASSUME TypeOK PROVE PendingInLine
  <2>1. /\ hand[Main] \in Seq(Task) /\ hand[Worker] \in Seq(Task)
        /\ queue_tasks_unhandled \in Seq(Task) /\ queue_tasks \in Seq(Task)
        /\ queue_tasks_deferred \in Seq(Task)
    BY <1>1 DEF TypeOK, HandTypes, DequeTypes
  <2> QED BY <2>1, FiveInLine, Zenon DEF PendingInLine, Pending
<1>2. ASSUME TypeOK' PROVE PendingInLine'
  <2>1. /\ hand'[Main] \in Seq(Task) /\ hand'[Worker] \in Seq(Task)
        /\ queue_tasks_unhandled' \in Seq(Task) /\ queue_tasks' \in Seq(Task)
        /\ queue_tasks_deferred' \in Seq(Task)
    BY <1>2 DEF TypeOK, HandTypes, DequeTypes
  <2> QED BY <2>1, FiveInLine, Zenon DEF PendingInLine, Pending
<1> QED BY <1>1, <1>2

(* A hand is empty, or one task. *)
EmptyHand(h) == h = <<>> /\ Range(h) = {} /\ \A a, b : ~Before(h, a, b)
OneInHand(h, e) == e \in Task /\ Range(h) = {e} /\ \A a, b : ~Before(h, a, b)

LEMMA EmptyHands == EmptyHand(<<>>)
BY SingleOrder DEF EmptyHand

LEMMA SingleHand == ASSUME NEW e \in Task PROVE OneInHand(<<e>>, e)
BY SingleOrder DEF OneInHand

LEMMA HandIs ==
  ASSUME TypeOK, NEW t \in {Main, Worker}
  PROVE  /\ pc[t] \notin Holding => EmptyHand(hand[t])
         /\ pc[t] \in Holding => OneInHand(hand[t], hand[t][1])
<1>1. hand[t] \in Seq(Task) /\ Len(hand[t]) = (IF pc[t] \in Holding THEN 1 ELSE 0)
  BY DEF TypeOK, HandTypes
<1> DEFINE h == hand[t]
           e == h[1]
<1> HIDE DEF h
<1>2. h \in Seq(Task) /\ Len(h) = (IF pc[t] \in Holding THEN 1 ELSE 0) BY <1>1 DEF h
<1>3. ASSUME pc[t] \notin Holding PROVE h = <<>>
  BY <1>2, <1>3, EmptySeq
<1>4. ASSUME pc[t] \in Holding PROVE e \in Task /\ h = <<e>>
  <2>1. Len(h) = 1 BY <1>2, <1>4
  <2>2. e \in Task BY <1>2, <2>1, ElementOfSeq
  <2>3. <<e>> \in Seq(Task) /\ Len(<<e>>) = 1 /\ <<e>>[1] = e BY <2>2
  <2>4. \A i \in 1..Len(h) : h[i] = <<e>>[i] BY <2>1, <2>3
  <2>5. h = <<e>> BY <1>2, <2>1, <2>3, <2>4, SeqEqual
  <2> QED BY <2>2, <2>5
<1>5. pc[t] \notin Holding => EmptyHand(h) BY <1>3, EmptyHands
<1>6. ASSUME pc[t] \in Holding PROVE OneInHand(h, e)
  <2>1. OneInHand(<<e>>, e) BY <1>4, <1>6, SingleHand, Zenon
  <2> HIDE DEF e
  <2> QED BY <1>4, <1>6, <2>1
<1> QED BY <1>5, <1>6 DEF h

(* What the invariant has to remember beside the property: a task was made by the *)
(* client it names, when that client posted or cancelled; and what has not been   *)
(* offered yet stands in the order of posting, the deferred tasks having been.    *)
Seen == Range(Pending) \cup handled \cup lost
Fresh(t) == t.type = "infer" /\ t.id \notin offered
FreshAfter(t) == t.type = "infer" /\ t.id \notin offered'

Origins ==
  /\ \A t \in Seen : t = CancelOf(t.id) \/ t = TaskOf(t.id)
  /\ \A c \in Clients : /\ TaskOf(c) \in Seen => c \in Range(posted)
                        /\ CancelOf(c) \in Seen => pc[c] = "done"
  /\ \A c \in Range(posted) : pc[c] \in {"posted", "done"}
DeferredOffered ==
  \A t \in Range(queue_tasks_deferred) : t.type = "infer" /\ t.id \in offered
FirstCome ==
  /\ IsInjective(posted)
  /\ \A a, b \in Task : (Before(Pending, a, b) /\ Fresh(a) /\ Fresh(b)) =>
       Before(posted, a.id, b.id)
  /\ DeferredOffered
TaskInv == TaskConservation /\ Origins /\ FirstCome

(* No task stands before itself. *)
LEMMA NotTwice ==
  /\ TypeOK => (IsInjective(Pending) <=> \A a : ~Before(Pending, a, a))
  /\ TypeOK' => (IsInjective(Pending') <=> \A a : ~Before(Pending', a, a))
<1>1. /\ TypeOK => Pending \in Seq(Task)
      /\ TypeOK' => Pending' \in Seq(Task)
  BY PendingIsLine DEF PendingInLine, InLine
<1> QED BY <1>1, InjectiveIs, Zenon

(* A step that may let a task pass another one, when one of the two has been      *)
(* offered before, and that leaves every task somewhere.                          *)
Overtakes ==
  \A a, b : Before(Pending', a, b) =>
    Before(Pending, a, b) \/ (a # b /\ ~(FreshAfter(a) /\ FreshAfter(b)))
Settled == Range(Pending') \cap (handled' \cup lost') = {} /\ Seen' = Seen
ClientsGoOn ==
  \A c \in Clients : /\ pc'[c] = "posted" => pc[c] = "posted"
                     /\ pc[c] \in {"posted", "done"} => pc'[c] \in {"posted", "done"}
                     /\ pc[c] = "done" => pc'[c] = "done"

LEMMA Accounted ==
  ASSUME TypeOK, TypeOK', TaskInv, ClientsGoOn, Overtakes, Settled, DeferredOffered',
         offered \subseteq offered', UNCHANGED posted
  PROVE  TaskInv'
<1>1. IsInjective(Pending')
  <2>1. \A a : ~Before(Pending, a, a) BY NotTwice DEF TaskInv, TaskConservation
  <2>2. \A a : ~Before(Pending', a, a) BY <2>1, Zenon DEF Overtakes
  <2> QED BY <2>2, NotTwice
<1>2. TaskConservation'
  <2>1. \A c \in Clients : pc'[c] = "posted" => TaskOf(c) \in Seen'
    <3>1. \A c \in Clients : pc[c] = "posted" => TaskOf(c) \in Seen
      BY DEF TaskInv, TaskConservation, Seen
    <3> QED BY <3>1, Zenon DEF ClientsGoOn, Settled
  <2>2. Seen' = Range(Pending') \cup handled' \cup lost' BY DEF Seen
  <2>3. \A c \in Clients : TaskOf(c)' = TaskOf(c) BY DEF TaskOf
  <2> QED BY <1>1, <2>1, <2>2, <2>3, Zenon DEF TaskConservation, Settled
<1>3. Origins'
  <2>1. Seen' = Seen /\ Range(posted') = Range(posted) BY DEF Settled
  <2>2. \A t \in Seen : t = CancelOf(t.id) \/ t = TaskOf(t.id)
    BY DEF TaskInv, Origins
  <2>3. \A c \in Clients : /\ TaskOf(c) \in Seen => c \in Range(posted)
                           /\ CancelOf(c) \in Seen => pc'[c] = "done"
    BY DEF TaskInv, Origins, ClientsGoOn
  <2>4. \A c \in Range(posted) : pc'[c] \in {"posted", "done"}
    <3>1. posted \in Seq(Clients) BY DEF TypeOK, HistoryTypes
    <3>2. \A c \in Range(posted) : c \in Clients BY <3>1, RangeOfSeq
    <3> QED BY <3>2 DEF TaskInv, Origins, ClientsGoOn
  <2> QED BY <2>1, <2>2, <2>3, <2>4, Zenon DEF Origins, CancelOf, TaskOf
<1>4. FirstCome'
  <2>1. \A a, b \in Task : (Before(Pending', a, b) /\ FreshAfter(a) /\ FreshAfter(b)) =>
          Before(posted, a.id, b.id)
    <3>1. \A a : FreshAfter(a) => Fresh(a) BY DEF Fresh, FreshAfter
    <3>2. \A a, b \in Task : (Before(Pending, a, b) /\ Fresh(a) /\ Fresh(b)) =>
            Before(posted, a.id, b.id)
      BY DEF TaskInv, FirstCome
    <3> QED BY <3>1, <3>2, Zenon DEF Overtakes
  <2>2. posted' = posted /\ IsInjective(posted) BY DEF TaskInv, FirstCome
  <2>3. IsInjective(posted') BY <2>2
  <2>4. \A a, b \in Task : (Before(Pending', a, b) /\ FreshAfter(a) /\ FreshAfter(b)) =>
          Before(posted', a.id, b.id)
    BY <2>1, <2>2
  <2> QED BY <2>3, <2>4, Zenon DEF FirstCome, Fresh, FreshAfter
<1> QED BY <1>2, <1>3, <1>4 DEF TaskInv

(* A step that touches no task. *)
TasksStay == UNCHANGED <<queues, hand, handled, lost, posted, offered>>

LEMMA NoTaskMoves ==
  ASSUME TypeOK, TypeOK', TaskInv, ClientsGoOn, TasksStay
  PROVE  TaskInv'
<1>1. UNCHANGED <<queue_tasks, queue_tasks_deferred, queue_tasks_unhandled, hand, handled,
                  lost, posted, offered>>
  BY DEF TasksStay, queues
<1>2. Pending' = Pending BY <1>1 DEF Pending
<1>3. Seen' = Seen BY <1>1, <1>2 DEF Seen
<1>4. Overtakes BY <1>2 DEF Overtakes
<1>5. Settled BY <1>1, <1>2, <1>3 DEF Settled, TaskInv, TaskConservation
<1>6. DeferredOffered' BY <1>1 DEF DeferredOffered, TaskInv, FirstCome
<1> QED BY <1>1, <1>4, <1>5, <1>6, Accounted

-----------------------------------------------------------------------------
(* What the moves of the code do to the line. *)
SameOrder(p, p2) == Range(p2) = Range(p) /\ \A a, b : Before(p2, a, b) => Before(p, a, b)
Lacks(p, p2, h) ==
  /\ Range(p) = Range(p2) \cup {h}
  /\ \A a, b : Before(p2, a, b) => Before(p, a, b)
  /\ (\A a : ~Before(p, a, a)) => h \notin Range(p2)

Passes(p, p2, t) ==     \* only t changes its place
  /\ Range(p2) = Range(p)
  /\ \A a, b : Before(p2, a, b) => Before(p, a, b) \/ (a # b /\ (a = t \/ b = t))
JoinsBehind(p, p2, x, d) ==
  /\ Range(p2) = Range(p) \cup {x}
  /\ \A a, b : Before(p2, a, b) => \/ Before(p, a, b)
                                   \/ a # b /\ b = x /\ a \in Range(p)
                                   \/ a # b /\ a = x /\ b \in Range(d)
JoinsInFront(p, p2, x) ==
  /\ Range(p2) = Range(p) \cup {x}
  /\ \A a, b : Before(p2, a, b) => Before(p, a, b) \/ (a # b /\ (a = x \/ b = x))
Replaced(p, p2, e, k) ==
  /\ Range(p2) \subseteq Range(p) \cup {k}
  /\ Range(p) \ {e} \subseteq Range(p2) /\ k \in Range(p2)
  /\ \A a, b : Before(p2, a, b) => Before(p, a, b) \/ (a # b /\ (a = k \/ b = k))

(* process_new_tasks() takes the first task into a hand that nothing stands before, *)
LEMMA MainTakes ==
  ASSUME NEW p, NEW p2, NEW m, NEW m2, NEW q \in Seq(Task), NEW d,
         InLine(p, m, <<>>, <<>>, q, d), q # <<>>,
         InLine(p2, m2, <<>>, <<>>, Tail(q), d), EmptyHand(m), OneInHand(m2, Head(q))
  PROVE  SameOrder(p, p2)
<1> DEFINE h == Head(q)
           t == Tail(q)
           o == <<>>
<1>1. /\ Range(q) = {h} \cup Range(t)
      /\ \A a, b : Before(q, a, b) <=> Before(t, a, b) \/ (a = h /\ b \in Range(t))
  BY HeadOrder, Zenon
<1>2. Range(o) = {} /\ \A a, b : ~Before(o, a, b) BY EmptyHands DEF EmptyHand
<1>3. InLine(p, m, o, o, q, d) /\ InLine(p2, m2, o, o, t, d) /\ OneInHand(m2, h) OBVIOUS
<1> HIDE DEF h, t, o
<1> QED BY <1>1, <1>2, <1>3 DEF InLine, SameOrder, EmptyHand, OneInHand

LEMMA WorkerTakes ==
  ASSUME NEW p, NEW p2, NEW m, NEW u, NEW w, NEW w2, NEW q \in Seq(Task), NEW d,
         InLine(p, m, u, w, q, d), q # <<>>,
         InLine(p2, m, u, w2, Tail(q), d), EmptyHand(w), OneInHand(w2, Head(q))
  PROVE  SameOrder(p, p2)
<1> DEFINE h == Head(q)
           t == Tail(q)
<1>1. /\ Range(q) = {h} \cup Range(t)
      /\ \A a, b : Before(q, a, b) <=> Before(t, a, b) \/ (a = h /\ b \in Range(t))
  BY HeadOrder, Zenon
<1>2. InLine(p2, m, u, w2, t, d) /\ OneInHand(w2, h) OBVIOUS
<1> HIDE DEF h, t
<1> QED BY <1>1, <1>2 DEF InLine, SameOrder, EmptyHand, OneInHand

(* a hand is emptied, *)
LEMMA MainDrops ==
  ASSUME NEW p, NEW p2, NEW m, NEW m2, NEW u, NEW w, NEW q, NEW d, NEW h,
         InLine(p, m, u, w, q, d), OneInHand(m, h), EmptyHand(m2),
         InLine(p2, m2, u, w, q, d)
  PROVE  Lacks(p, p2, h)
<1>1. Range(p) = Range(p2) \cup {h} BY DEF InLine, OneInHand, EmptyHand
<1>2. \A a, b : Before(p2, a, b) => Before(p, a, b) BY DEF InLine, EmptyHand
<1>3. h \in Range(p2) => Before(p, h, h) BY DEF InLine, EmptyHand, OneInHand
<1> QED BY <1>1, <1>2, <1>3 DEF Lacks

LEMMA WorkerDrops ==
  ASSUME NEW p, NEW p2, NEW m, NEW u, NEW w, NEW w2, NEW q, NEW d, NEW h,
         InLine(p, m, u, w, q, d), OneInHand(w, h), EmptyHand(w2),
         InLine(p2, m, u, w2, q, d)
  PROVE  Lacks(p, p2, h)
<1>1. Range(p) = Range(p2) \cup {h} BY DEF InLine, OneInHand, EmptyHand
<1>2. \A a, b : Before(p2, a, b) => Before(p, a, b) BY DEF InLine, EmptyHand
<1>3. h \in Range(p2) => (Before(p, h, h) \/ h \in Range(m) \/ h \in Range(u))
  BY DEF InLine, EmptyHand, OneInHand
<1>4. (h \in Range(m) \/ h \in Range(u)) => Before(p, h, h) BY DEF InLine, OneInHand
<1> QED BY <1>1, <1>2, <1>3, <1>4 DEF Lacks

(* a declined task is set aside, *)
LEMMA SetsAside ==
  ASSUME NEW p, NEW p2, NEW m, NEW u \in Seq(Task), NEW w, NEW w2, NEW q, NEW d,
         NEW h \in Task,
         InLine(p, m, u, w, q, d), OneInHand(w, h), EmptyHand(w2),
         InLine(p2, m, Append(u, h), w2, q, d)
  PROVE  SameOrder(p, p2)
<1> DEFINE v == Append(u, h)
<1>1. /\ Range(v) = Range(u) \cup {h}
      /\ \A a, b : Before(v, a, b) <=> Before(u, a, b) \/ (a \in Range(u) /\ b = h)
  BY BackOrder, Zenon
<1>2. InLine(p2, m, v, w2, q, d) OBVIOUS
<1> HIDE DEF v
<1> QED BY <1>1, <1>2 DEF InLine, SameOrder, EmptyHand, OneInHand

(* the tasks set aside are put back, *)
LEMMA PutsBack ==
  ASSUME NEW p, NEW p2, NEW m, NEW u \in Seq(Task), NEW w, NEW q \in Seq(Task), NEW d,
         InLine(p, m, u, w, q, d), EmptyHand(w),
         InLine(p2, m, <<>>, w, PutBack(u, q), d)
  PROVE  SameOrder(p, p2)
<1> DEFINE v == u \o q
           o == <<>>
<1>1. /\ Range(v) = Range(u) \cup Range(q)
      /\ \A a, b : Before(v, a, b) <=> \/ Before(u, a, b) \/ Before(q, a, b)
                                       \/ a \in Range(u) /\ b \in Range(q)
  BY ConcatOrder, Zenon
<1>2. Range(o) = {} /\ \A a, b : ~Before(o, a, b) BY EmptyHands DEF EmptyHand
<1>3. InLine(p2, m, o, w, v, d) BY DEF PutBack
<1> HIDE DEF v, o
<1> QED BY <1>1, <1>2, <1>3 DEF InLine, SameOrder, EmptyHand

(* a task in hand is deferred, *)
LEMMA Defers ==
  ASSUME NEW p, NEW p2, NEW m, NEW m2, NEW u, NEW w, NEW q, NEW d \in Seq(Task),
         NEW h \in Task,
         InLine(p, m, u, w, q, d), OneInHand(m, h), EmptyHand(m2),
         InLine(p2, m2, u, w, q, Append(d, h)), \A a : ~Before(p, a, a)
  PROVE  Passes(p, p2, h)
<1> DEFINE v == Append(d, h)
<1>1. /\ Range(v) = Range(d) \cup {h}
      /\ \A a, b : Before(v, a, b) <=> Before(d, a, b) \/ (a \in Range(d) /\ b = h)
  BY ONLY BackOrder, d \in Seq(Task), h \in Task, Zenon
<1>2. InLine(p2, m2, u, w, q, v) OBVIOUS
<1> HIDE DEF v
<1>3. Range(p2) = Range(p) BY <1>1, <1>2 DEF InLine, EmptyHand, OneInHand
<1>4. h \notin Range(u) /\ h \notin Range(w) /\ h \notin Range(q) /\ h \notin Range(d)
  BY DEF InLine, OneInHand
<1>5. \A a, b : Before(p2, a, b) => Before(p, a, b) \/ (b = h /\ a # h)
  BY <1>1, <1>2, <1>4 DEF InLine, EmptyHand
<1> QED BY <1>3, <1>5 DEF Passes

(* and a deferred task is taken to the front. *)
LEMMA Undefers ==
  ASSUME NEW p, NEW p2, NEW m, NEW u, NEW w, NEW q \in Seq(Task), NEW d \in Seq(Task),
         NEW i \in 1..Len(d), d[i] \in Task,
         InLine(p, m, u, w, q, d), \A a : ~Before(p, a, a),
         InLine(p2, m, u, w, <<d[i]>> \o q, RemoveAt(d, i))
  PROVE  Passes(p, p2, d[i])
<1> DEFINE x == d[i]
           e == RemoveAt(d, i)
           v == <<x>> \o q
<1>0. \A a : ~Before(d, a, a) BY DEF InLine
<1>1. /\ Range(d) = Range(e) \cup {x} /\ x \in Range(d)
      /\ \A a, b : Before(e, a, b) => Before(d, a, b)
      /\ ~Before(d, x, x) => x \notin Range(e)
  BY RemoveAtOrder, Zenon
<1>2. x \in Task OBVIOUS
<1>3. InLine(p2, m, u, w, v, e) OBVIOUS
<1> HIDE DEF x, e
<1>4. /\ Range(v) = {x} \cup Range(q)
      /\ \A a, b : Before(v, a, b) <=> Before(q, a, b) \/ (a = x /\ b \in Range(q))
  BY <1>2, FrontOrder, Zenon
<1> HIDE DEF v
<1>5. x \notin Range(e) BY <1>0, <1>1
<1>6. x \notin Range(q) /\ x \notin Range(u) /\ x \notin Range(w) /\ x \notin Range(m)
  BY <1>1 DEF InLine
<1>7. Range(p2) = Range(p) BY <1>1, <1>3, <1>4 DEF InLine
<1>8. \A a, b : Before(p2, a, b) => Before(p, a, b) \/ (a = x /\ b # x)
  BY <1>1, <1>3, <1>4, <1>5, <1>6 DEF InLine
<1> QED BY <1>7, <1>8 DEF x, Passes

(* post(): a new task behind the queue or in front of it, *)
LEMMA PostsBehind ==
  ASSUME NEW p, NEW p2, NEW m, NEW u, NEW w, NEW q \in Seq(Task), NEW d, NEW x \in Task,
         InLine(p, m, u, w, q, d), x \notin Range(p),
         NEW v, v = Append(q, x), InLine(p2, m, u, w, v, d)
  PROVE  JoinsBehind(p, p2, x, d)
<1> DEFINE f == Append(q, x)
<1>1. /\ Range(f) = Range(q) \cup {x}
      /\ \A a, b : Before(f, a, b) <=> Before(q, a, b) \/ (a \in Range(q) /\ b = x)
  BY ONLY BackOrder, q \in Seq(Task), x \in Task, Zenon
<1>2. v = f /\ InLine(p2, m, u, w, v, d) OBVIOUS
<1> HIDE DEF f
<1>3. Range(p2) = Range(p) \cup {x} BY <1>1, <1>2 DEF InLine
<1>4. \A a, b : Before(p2, a, b) =>
        \/ Before(p, a, b) \/ (b = x /\ a \in Range(p)) \/ (a = x /\ b \in Range(d))
  BY <1>1, <1>2 DEF InLine
<1>5. \A b \in Range(d) : b \in Range(p) BY DEF InLine
<1>6. \A a \in Range(p) : a # x OBVIOUS
<1> QED BY <1>3, <1>4, <1>5, <1>6, Zenon DEF JoinsBehind

LEMMA PostsInFront ==
  ASSUME NEW p, NEW p2, NEW m, NEW u, NEW w, NEW q \in Seq(Task), NEW d, NEW x \in Task,
         InLine(p, m, u, w, q, d), x \notin Range(p),
         NEW v, v = <<x>> \o q, InLine(p2, m, u, w, v, d)
  PROVE  JoinsInFront(p, p2, x)
<1> DEFINE f == <<x>> \o q
<1>1. /\ Range(f) = {x} \cup Range(q)
      /\ \A a, b : Before(f, a, b) <=> Before(q, a, b) \/ (a = x /\ b \in Range(q))
  BY ONLY FrontOrder, q \in Seq(Task), x \in Task, Zenon
<1>2. v = f /\ InLine(p2, m, u, w, v, d) OBVIOUS
<1> HIDE DEF f
<1>3. Range(p2) = Range(p) \cup {x} BY <1>1, <1>2 DEF InLine
<1>4. \A a, b : Before(p2, a, b) => \/ Before(p, a, b) \/ (a = x /\ b \in Range(p))
                                    \/ (b = x /\ a \in Range(p))
  BY <1>1, <1>2 DEF InLine
<1>5. \A a \in Range(p) : a # x OBVIOUS
<1> QED BY <1>3, <1>4, <1>5, Zenon DEF JoinsInFront

(* and a cancellation, which takes its target out of the deques. *)
Erased(s, s1, e) ==
  /\ s1 \in Seq(Task)
  /\ Range(s1) = Range(s) \ {e}
  /\ \A a, b : Before(s1, a, b) => Before(s, a, b)
OnlyTarget(R, id, e) == \A t \in R : (t.type # "cancel" /\ t.id = id) => t = e

LEMMA Erases ==
  ASSUME NEW s \in Seq(Task), NEW id, NEW e \in Task, e.type # "cancel", e.id = id,
         OnlyTarget(Range(s), id, e), \A a : ~Before(s, a, a)
  PROVE  Erased(s, WithoutTarget(s, id), e)
<1>1. \A t \in Range(s) : (t.type # "cancel" /\ t.id = id) => t = e BY DEF OnlyTarget
<1>2. /\ WithoutTarget(s, id) \in Seq(Task)
      /\ \A a, b : Before(WithoutTarget(s, id), a, b) => Before(s, a, b)
      /\ Range(WithoutTarget(s, id)) = Range(s) \ {e}
  BY <1>1, WithoutTargetOrder
<1> QED BY <1>2, Zenon DEF Erased

LEMMA Cancels ==
  ASSUME NEW p, NEW p2, NEW m, NEW u, NEW u1, NEW w, NEW q, NEW q1, NEW d, NEW d1,
         NEW e, NEW k \in Task,
         Erased(u, u1, e), Erased(q, q1, e), Erased(d, d1, e),
         InLine(p, m, u, w, q, d), \A a : ~Before(p, a, a), k \notin Range(p),
         NEW v, v = <<k>> \o q1, InLine(p2, m, u1, w, v, d1)
  PROVE  Replaced(p, p2, e, k)
<1> DEFINE f == <<k>> \o q1
<1>2. /\ \A a, b : Before(u1, a, b) => Before(u, a, b)
      /\ \A a, b : Before(q1, a, b) => Before(q, a, b)
      /\ \A a, b : Before(d1, a, b) => Before(d, a, b)
      /\ Range(u1) = Range(u) \ {e} /\ Range(q1) = Range(q) \ {e}
      /\ Range(d1) = Range(d) \ {e} /\ q1 \in Seq(Task)
  BY DEF Erased
<1>3. /\ Range(f) = {k} \cup Range(q1)
      /\ \A a, b : Before(f, a, b) <=> Before(q1, a, b) \/ (a = k /\ b \in Range(q1))
  BY ONLY <1>2, k \in Task, FrontOrder, Zenon
<1>4. InLine(p2, m, u1, w, v, d1) OBVIOUS
<1>4a. v = f OBVIOUS
<1> HIDE DEF f
<1>4b. /\ Range(v) = {k} \cup Range(q1)
       /\ \A a, b : Before(v, a, b) <=> Before(q1, a, b) \/ (a = k /\ b \in Range(q1))
  BY <1>3, <1>4a
<1>5. /\ Range(p2) \subseteq Range(p) \cup {k}
      /\ Range(p) \ {e} \subseteq Range(p2) /\ k \in Range(p2)
  BY <1>2, <1>4b, <1>4 DEF InLine
<1>6. ASSUME NEW a, NEW b, Before(p2, a, b), a # k, b # k
      PROVE  Before(p, a, b)
  BY <1>2, <1>4b, <1>4, <1>6 DEF InLine
<1>7. ~Before(p2, k, k)
  <2>1. /\ ~Before(u, k, k) /\ ~Before(m, k, k) /\ ~Before(w, k, k) /\ ~Before(q, k, k)
        /\ ~Before(d, k, k)
    BY DEF InLine
  <2>2. /\ k \notin Range(u) /\ k \notin Range(m) /\ k \notin Range(w) /\ k \notin Range(q)
        /\ k \notin Range(d)
    BY DEF InLine
  <2> QED BY <1>2, <1>4b, <1>4, <2>1, <2>2 DEF InLine
<1> QED BY <1>5, <1>6, <1>7 DEF Replaced

-----------------------------------------------------------------------------
(* The same moves, as steps of the queue. *)
LEMMA QueueThreadMoves ==
  ASSUME TypeOK, NEW t \in {Main, Worker}, NEW l, Goto(t, l)
  PROVE  ClientsGoOn
<1>1. \A c \in Clients : c # t /\ c \in Threads BY ThreadsAssumption DEF Threads
<1>2. \A c \in Clients : pc'[c] = pc[c] BY <1>1 DEF Goto, TypeOK, PcTypes
<1> QED BY <1>2 DEF ClientsGoOn

(* The line stays as it was, *)
LEMMA SameLine ==
  ASSUME TypeOK, TypeOK', TaskInv, ClientsGoOn, SameOrder(Pending, Pending'),
         UNCHANGED <<handled, lost, posted, offered, queue_tasks_deferred>>
  PROVE  TaskInv'
<1>1. Range(Pending') = Range(Pending) /\ \A a, b : Before(Pending', a, b) => Before(Pending, a, b)
  BY DEF SameOrder
<1>2. Overtakes BY <1>1, Zenon DEF Overtakes
<1>3. Settled BY <1>1 DEF Settled, Seen, TaskInv, TaskConservation
<1>4. DeferredOffered' BY DEF TaskInv, FirstCome, DeferredOffered
<1> QED BY <1>2, <1>3, <1>4, Accounted

(* or a task leaves it and is accounted for. *)
LEMMA Finished ==
  ASSUME TypeOK, TypeOK', TaskInv, ClientsGoOn, Overtakes, DeferredOffered',
         offered \subseteq offered', UNCHANGED posted,
         NEW h, Range(Pending) = Range(Pending') \cup {h}, h \notin Range(Pending'),
         handled' \cup lost' = handled \cup lost \cup {h}
  PROVE  TaskInv'
<1>1. Range(Pending) \cap (handled \cup lost) = {} BY DEF TaskInv, TaskConservation
<1>2. Seen = Range(Pending) \cup (handled \cup lost) /\ Seen' = Range(Pending') \cup (handled' \cup lost')
  BY DEF Seen
<1>3. Settled
  <2> DEFINE R == Range(Pending)
             R2 == Range(Pending')
             F == handled \cup lost
             F2 == handled' \cup lost'
  <2>1. R \cap F = {} /\ R = R2 \cup {h} /\ h \notin R2 /\ F2 = F \cup {h}
        /\ Seen = R \cup F /\ Seen' = R2 \cup F2
    BY <1>1, <1>2
  <2> HIDE DEF R, R2, F, F2
  <2>2. R2 \cap F2 = {} /\ Seen' = Seen BY <2>1
  <2> QED BY <2>2 DEF Settled, R2, F2
<1> QED BY <1>3, Accounted

LEMMA PopKeeps ==
  ASSUME IInv, TypeOK', TaskInv, NEW t \in {Main, Worker}, NEW stopped, NEW empty,
         PopTask(t, stopped, empty)
  PROVE  TaskInv'
<1>0. TypeOK /\ Main # Worker BY ThreadsAssumption DEF IInv
<1>1. ClientsGoOn BY <1>0, QueueThreadMoves DEF PopTask
<1>2. CASE ~running \/ queue_tasks = <<>>
  <2>1. UNCHANGED <<queue_tasks, queue_tasks_deferred, queue_tasks_unhandled, hand>>
    BY <1>2 DEF PopTask
  <2>2. TasksStay BY <2>1 DEF PopTask, TasksStay, queues, history
  <2> QED BY <1>0, <1>1, <2>2, NoTaskMoves
<1>3. CASE running /\ queue_tasks # <<>>
  <2> DEFINE q == queue_tasks
  <2>1. /\ pc[t] = "pop" /\ queue_tasks' = Tail(q)
        /\ hand' = [hand EXCEPT ![t] = <<Head(q)>>]
        /\ UNCHANGED <<queue_tasks_deferred, queue_tasks_unhandled, handled, lost, posted,
                       offered>>
    BY <1>3 DEF PopTask, history
  <2>2. q \in Seq(Task) /\ Head(q) \in Task
    BY <1>0, <1>3, HeadTailProperties DEF TypeOK, DequeTypes
  <2>3. /\ hand'[t] = <<Head(q)>>
        /\ \A u \in {Main, Worker} \ {t} : hand'[u] = hand[u]
    BY <1>0, <2>1 DEF TypeOK, HandTypes
  <2>4. OneInHand(hand'[t], Head(q)) BY <2>2, <2>3, SingleHand
  <2>5. EmptyHand(hand[t])
    <3>1. pc[t] \notin Holding BY <2>1 DEF Holding
    <3> QED BY <1>0, <3>1, HandIs
  <2>6. PendingInLine /\ PendingInLine' BY <1>0, PendingIsLine
  <2>7. CASE t = Main
    <3>1. pc[Main] \notin Yielding BY <2>1, <2>7 DEF Yielding
    <3>2. queue_tasks_unhandled = <<>> /\ hand[Worker] = <<>> /\ hand'[Worker] = <<>>
          /\ queue_tasks_unhandled' = <<>>
      BY <1>0, <2>1, <2>3, <2>7, <3>1 DEF IInv, YieldLeavesNothing
    <3>3. /\ InLine(Pending, hand[Main], <<>>, <<>>, q, queue_tasks_deferred)
          /\ InLine(Pending', hand'[Main], <<>>, <<>>, Tail(q), queue_tasks_deferred)
      BY <2>1, <2>6, <3>2, Zenon DEF PendingInLine
    <3>4. EmptyHand(hand[Main]) /\ OneInHand(hand'[Main], Head(q)) BY <2>4, <2>5, <2>7
    <3>5. SameOrder(Pending, Pending')
      BY ONLY <1>3, <2>2, <3>3, <3>4, MainTakes
    <3> QED BY <1>0, <1>1, <2>1, <3>5, SameLine
  <2>8. CASE t = Worker
    <3>1. hand'[Main] = hand[Main] BY <1>0, <2>3, <2>8
    <3>2. /\ InLine(Pending, hand[Main], queue_tasks_unhandled, hand[Worker], q,
                    queue_tasks_deferred)
          /\ InLine(Pending', hand[Main], queue_tasks_unhandled, hand'[Worker], Tail(q),
                    queue_tasks_deferred)
      BY <2>1, <2>6, <3>1 DEF PendingInLine
    <3>3. EmptyHand(hand[Worker]) /\ OneInHand(hand'[Worker], Head(q)) BY <2>4, <2>5, <2>8
    <3>4. SameOrder(Pending, Pending')
      BY ONLY <1>3, <2>2, <3>2, <3>3, WorkerTakes
    <3> QED BY <1>0, <1>1, <2>1, <3>4, SameLine
  <2> QED BY <2>7, <2>8
<1> QED BY <1>0, <1>2, <1>3 DEF TypeOK, FlagTypes

(* The worker takes a task for good, loses it, or sets it aside. *)
LEMMA WorkerDropsTask ==
  ASSUME IInv, TypeOK', DropHand(Worker), pc[Worker] \in Holding, TaskInv,
         UNCHANGED queues
  PROVE  Lacks(Pending, Pending', hand[Worker][1])
<1>0. TypeOK /\ Main # Worker BY ThreadsAssumption DEF IInv
<1>1. hand'[Worker] = <<>> /\ hand'[Main] = hand[Main]
  BY <1>0 DEF DropHand, TypeOK, HandTypes
<1>2. OneInHand(hand[Worker], hand[Worker][1]) /\ EmptyHand(hand'[Worker])
  BY <1>0, <1>1, HandIs, EmptyHands
<1>3. PendingInLine /\ PendingInLine' BY <1>0, PendingIsLine
<1>4. InLine(Pending', hand[Main], queue_tasks_unhandled, hand'[Worker], queue_tasks,
             queue_tasks_deferred)
  BY <1>1, <1>3 DEF PendingInLine, queues
<1> QED BY ONLY <1>2, <1>3, <1>4, WorkerDrops DEF PendingInLine

LEMMA WorkerEnds ==
  ASSUME IInv, TypeOK', TaskInv, WorkerHandle \/ WorkerThrow
  PROVE  TaskInv'
<1> DEFINE h == hand[Worker][1]
<1>0. TypeOK BY DEF IInv
<1>1. pc[Worker] \in Holding /\ DropHand(Worker) /\ UNCHANGED <<queues, posted>>
  BY DEF WorkerHandle, WorkerThrow, Holding
<1>2. offered \subseteq offered' BY DEF WorkerHandle, WorkerThrow, Offered
<1>3. handled' \cup lost' = handled \cup lost \cup {h}
  BY DEF WorkerHandle, WorkerThrow
<1>4. ClientsGoOn BY <1>0, QueueThreadMoves DEF WorkerHandle, WorkerThrow
<1>5. Lacks(Pending, Pending', h) BY <1>1, WorkerDropsTask
<1>6. \A a : ~Before(Pending, a, a) BY <1>0, NotTwice DEF TaskInv, TaskConservation
<1> HIDE DEF h
<1>7. /\ Range(Pending) = Range(Pending') \cup {h} /\ h \notin Range(Pending')
      /\ \A a, b : Before(Pending', a, b) => Before(Pending, a, b)
  BY ONLY <1>5, <1>6 DEF Lacks
<1>8. Overtakes BY <1>7, Zenon DEF Overtakes
<1>9. DeferredOffered' BY <1>1, <1>2 DEF TaskInv, FirstCome, DeferredOffered, queues
<1> QED BY <1>0, <1>1, <1>2, <1>3, <1>4, <1>7, <1>8, <1>9, Finished

LEMMA AsideKeeps ==
  ASSUME IInv, TypeOK', TaskInv, WorkerSetAside
  PROVE  TaskInv'
<1> DEFINE h == hand[Worker][1]
<1>0. TypeOK /\ Main # Worker BY ThreadsAssumption DEF IInv
<1>1. /\ pc[Worker] \in Holding /\ DropHand(Worker)
      /\ queue_tasks_unhandled' = Append(queue_tasks_unhandled, h)
      /\ UNCHANGED <<queue_tasks, queue_tasks_deferred, handled, lost, posted, offered>>
  BY DEF WorkerSetAside, Holding, history
<1>2. ClientsGoOn BY <1>0, QueueThreadMoves DEF WorkerSetAside
<1>3. hand'[Worker] = <<>> /\ hand'[Main] = hand[Main]
  BY <1>0, <1>1 DEF DropHand, TypeOK, HandTypes
<1>4. OneInHand(hand[Worker], h) /\ EmptyHand(hand'[Worker])
  BY <1>0, <1>1, <1>3, HandIs, EmptyHands
<1>5. PendingInLine /\ PendingInLine' BY <1>0, PendingIsLine
<1> HIDE DEF h
<1>6. InLine(Pending', hand[Main], Append(queue_tasks_unhandled, h), hand'[Worker],
             queue_tasks, queue_tasks_deferred)
  BY <1>1, <1>3, <1>5 DEF PendingInLine
<1>7. queue_tasks_unhandled \in Seq(Task) /\ h \in Task
  BY <1>0, <1>4 DEF TypeOK, DequeTypes, OneInHand
<1>8. SameOrder(Pending, Pending')
  BY ONLY <1>4, <1>5, <1>6, <1>7, SetsAside DEF PendingInLine
<1> QED BY <1>0, <1>1, <1>2, <1>8, SameLine

(* The queue after a released slot, when the hand of Main is empty: from any line *)
(* p with the deques of before to the new one.                                    *)
Freed(p) ==
  /\ Range(Pending') = Range(p)
  /\ \A a, b : Before(Pending', a, b) =>
       Before(p, a, b) \/ (a # b /\ ~(FreshAfter(a) /\ FreshAfter(b)))

LEMMA FreedLine ==
  ASSUME TypeOK, TypeOK', TaskInv, PopDeferred, UNCHANGED queue_tasks_unhandled,
         offered \subseteq offered',
         NEW p, InLine(p, hand'[Main], queue_tasks_unhandled, hand'[Worker], queue_tasks,
                       queue_tasks_deferred),
         \A a : ~Before(p, a, a)
  PROVE  Freed(p) /\ DeferredOffered'
<1> DEFINE d == queue_tasks_deferred
           q == queue_tasks
<1>0. \A t \in Range(d) : t.type = "infer" /\ t.id \in offered
  BY DEF TaskInv, FirstCome, DeferredOffered
<1>1. PendingInLine' BY PendingIsLine
<1>2. CASE d = <<>>
  <2>1. UNCHANGED <<queue_tasks, queue_tasks_deferred>> BY <1>2 DEF PopDeferred
  <2>2. InLine(Pending', hand'[Main], queue_tasks_unhandled, hand'[Worker], queue_tasks,
               queue_tasks_deferred)
    BY <1>1, <2>1 DEF PendingInLine
  <2>3. /\ Range(Pending') = Range(p)
        /\ \A a, b : Before(Pending', a, b) => Before(p, a, b)
    BY ONLY <2>2, InLine(p, hand'[Main], queue_tasks_unhandled, hand'[Worker], queue_tasks,
                         queue_tasks_deferred) DEF InLine
  <2>4. DeferredOffered' BY <1>0, <2>1 DEF DeferredOffered
  <2> QED BY <2>3, <2>4 DEF Freed
<1>3. CASE d # <<>>
  <2> DEFINE i == DeferredPick(d, NoSlot)
  <2>1. d \in Seq(Task) /\ q \in Seq(Task) BY DEF TypeOK, DequeTypes
  <2>2. i \in 1..Len(d) BY <1>3, <2>1, DeferredPickInDomain
  <2>3. queue_tasks' = <<d[i]>> \o q /\ queue_tasks_deferred' = RemoveAt(d, i)
    BY <1>3 DEF PopDeferred
  <2> HIDE DEF i
  <2>4. d[i] \in Task BY <2>1, <2>2, ElementOfSeq
  <2>5. /\ d[i] \in Range(d) /\ Range(RemoveAt(d, i)) \subseteq Range(d)
    BY <2>1, <2>2, RemoveAtOrder, Zenon
  <2>6. ~FreshAfter(d[i]) BY <1>0, <2>5 DEF FreshAfter
  <2>7. InLine(Pending', hand'[Main], queue_tasks_unhandled, hand'[Worker], <<d[i]>> \o q,
               RemoveAt(d, i))
    BY <1>1, <2>3 DEF PendingInLine
  <2>8. InLine(p, hand'[Main], queue_tasks_unhandled, hand'[Worker], q, d) OBVIOUS
  <2> HIDE DEF d, q
  <2>9. Passes(p, Pending', d[i])
    BY ONLY <2>1, <2>2, <2>4, <2>7, <2>8, \A a : ~Before(p, a, a), Undefers
  <2>10. DeferredOffered'
    <3>1. \A t \in Range(queue_tasks_deferred') : t \in Range(d) BY <2>3, <2>5
    <3> QED BY <1>0, <3>1, Zenon DEF DeferredOffered
  <2>11. \A a, b : Before(Pending', a, b) =>
           Before(p, a, b) \/ (a # b /\ ~(FreshAfter(a) /\ FreshAfter(b)))
    <3> SUFFICES ASSUME NEW a, NEW b, Before(Pending', a, b), ~Before(p, a, b)
                 PROVE  a # b /\ ~(FreshAfter(a) /\ FreshAfter(b))
      OBVIOUS
    <3>1. a # b /\ (a = d[i] \/ b = d[i]) BY <2>9 DEF Passes
    <3> QED BY <2>6, <3>1
  <2>12. Range(Pending') = Range(p) BY <2>9 DEF Passes
  <2> QED BY <2>10, <2>11, <2>12, Zenon DEF Freed
<1> QED BY <1>2, <1>3

LEMMA ReleaseKeeps ==
  ASSUME IInv, TypeOK', TaskInv, MainPopDeferred
  PROVE  TaskInv'
<1>0. TypeOK BY DEF IInv
<1>1. /\ PopDeferred
      /\ UNCHANGED <<queue_tasks_unhandled, pc, hand, handled, lost, posted, offered>>
  BY DEF MainPopDeferred, history
<1>2. ClientsGoOn BY <1>1 DEF ClientsGoOn
<1>3. \A a : ~Before(Pending, a, a) BY <1>0, NotTwice DEF TaskInv, TaskConservation
<1>4. InLine(Pending, hand'[Main], queue_tasks_unhandled, hand'[Worker], queue_tasks,
             queue_tasks_deferred)
  BY <1>0, <1>1, PendingIsLine DEF PendingInLine
<1>5. Freed(Pending) /\ DeferredOffered'
  BY <1>0, <1>1, <1>3, <1>4, FreedLine
<1>6. Overtakes /\ Range(Pending') = Range(Pending) BY <1>5, Zenon DEF Freed, Overtakes
<1>7. Settled BY <1>1, <1>6 DEF Settled, Seen, TaskInv, TaskConservation
<1> QED BY <1>0, <1>1, <1>2, <1>5, <1>6, <1>7, Accounted

LEMMA MainHandleKeeps ==
  ASSUME IInv, TypeOK', TaskInv, MainHandle
  PROVE  TaskInv'
<1> DEFINE h == hand[Main][1]
           p == hand'[Main] \o queue_tasks_unhandled \o hand'[Worker] \o queue_tasks
                \o queue_tasks_deferred
<1>0. TypeOK /\ Main # Worker BY ThreadsAssumption DEF IInv
<1>1. /\ pc[Main] \in Holding /\ DropHand(Main)
      /\ UNCHANGED <<queue_tasks_unhandled, lost, posted>>
      /\ handled' = handled \cup {h} /\ offered \subseteq offered'
  BY DEF MainHandle, Holding, Offered
<1>2. ClientsGoOn BY <1>0, QueueThreadMoves DEF MainHandle
<1>3. hand'[Main] = <<>> /\ hand'[Worker] = hand[Worker]
  BY <1>0, <1>1 DEF DropHand, TypeOK, HandTypes
<1>4. OneInHand(hand[Main], h) /\ EmptyHand(hand'[Main])
  BY <1>0, <1>1, <1>3, HandIs, EmptyHands
<1>5. PendingInLine /\ PendingInLine' BY <1>0, PendingIsLine
<1> HIDE DEF h
<1>6. InLine(p, hand'[Main], queue_tasks_unhandled, hand'[Worker], queue_tasks,
             queue_tasks_deferred)
  <2>1. /\ hand'[Main] \in Seq(Task) /\ hand'[Worker] \in Seq(Task)
        /\ queue_tasks_unhandled \in Seq(Task) /\ queue_tasks \in Seq(Task)
        /\ queue_tasks_deferred \in Seq(Task)
    BY <1>0 DEF TypeOK, HandTypes, DequeTypes
  <2> QED BY ONLY <2>1, FiveInLine, Zenon
<1> HIDE DEF p
<1>7. \A a : ~Before(Pending, a, a) BY <1>0, NotTwice DEF TaskInv, TaskConservation
<1>8. Lacks(Pending, p, h)
  BY ONLY <1>3, <1>4, <1>5, <1>6, MainDrops DEF PendingInLine
<1>9. /\ Range(Pending) = Range(p) \cup {h} /\ h \notin Range(p)
      /\ \A a, b : Before(p, a, b) => Before(Pending, a, b)
  BY ONLY <1>7, <1>8 DEF Lacks
<1>10. \A a : ~Before(p, a, a) BY <1>7, <1>9
<1>11. Freed(p) /\ DeferredOffered'
  <2>1. CASE UNCHANGED <<queue_tasks, queue_tasks_deferred, waiters>>
    <3>1. InLine(Pending', hand'[Main], queue_tasks_unhandled, hand'[Worker], queue_tasks,
                 queue_tasks_deferred)
      BY <1>1, <1>5, <2>1 DEF PendingInLine
    <3>2. /\ Range(Pending') = Range(p)
          /\ \A a, b : Before(Pending', a, b) => Before(p, a, b)
      BY ONLY <1>6, <3>1 DEF InLine
    <3>3. DeferredOffered' BY <1>1, <2>1 DEF TaskInv, FirstCome, DeferredOffered
    <3> QED BY <3>2, <3>3 DEF Freed
  <2>2. CASE PopDeferred
    BY <1>0, <1>1, <1>6, <1>10, <2>2, FreedLine
  <2> QED BY <2>1, <2>2 DEF MainHandle
<1>12. Overtakes BY <1>9, <1>11, Zenon DEF Freed, Overtakes
<1>13. Range(Pending) = Range(Pending') \cup {h} /\ h \notin Range(Pending')
  BY <1>9, <1>11 DEF Freed
<1>14. handled' \cup lost' = handled \cup lost \cup {h} BY <1>1
<1> QED BY <1>0, <1>1, <1>2, <1>11, <1>12, <1>13, <1>14, Finished

LEMMA DeferKeeps ==
  ASSUME IInv, TypeOK', TaskInv, MainDefer
  PROVE  TaskInv'
<1> DEFINE h == hand[Main][1]
           d == queue_tasks_deferred
<1>0. TypeOK /\ Main # Worker BY ThreadsAssumption DEF IInv
<1>1. /\ pc[Main] \in Holding /\ DropHand(Main) /\ h.type = "infer"
      /\ queue_tasks_deferred' = Append(d, h)
      /\ UNCHANGED <<queue_tasks, queue_tasks_unhandled, handled, lost, posted>>
  BY DEF MainDefer, Holding
<1>2. offered' = offered \cup {h.id} BY DEF MainDefer, Offered
<1>3. ClientsGoOn BY <1>0, QueueThreadMoves DEF MainDefer
<1>4. hand'[Main] = <<>> /\ hand'[Worker] = hand[Worker]
  BY <1>0, <1>1 DEF DropHand, TypeOK, HandTypes
<1>5. OneInHand(hand[Main], h) /\ EmptyHand(hand'[Main])
  BY <1>0, <1>1, <1>4, HandIs, EmptyHands
<1>6. PendingInLine /\ PendingInLine' BY <1>0, PendingIsLine
<1>7. \A a : ~Before(Pending, a, a) BY <1>0, NotTwice DEF TaskInv, TaskConservation
<1>8. d \in Seq(Task) /\ h \in Task BY <1>0, <1>5 DEF TypeOK, DequeTypes, OneInHand
<1> HIDE DEF h
<1>9. /\ InLine(Pending, hand[Main], queue_tasks_unhandled, hand[Worker], queue_tasks, d)
      /\ InLine(Pending', hand'[Main], queue_tasks_unhandled, hand[Worker], queue_tasks,
                Append(d, h))
  BY <1>1, <1>4, <1>6 DEF PendingInLine
<1> HIDE DEF d
<1>10. Passes(Pending, Pending', h)
  BY ONLY <1>5, <1>7, <1>8, <1>9, Defers
<1>11. ~FreshAfter(h) BY <1>2 DEF FreshAfter
<1>12. Overtakes
  <2> SUFFICES ASSUME NEW a, NEW b, Before(Pending', a, b), ~Before(Pending, a, b)
               PROVE  a # b /\ ~(FreshAfter(a) /\ FreshAfter(b))
    BY DEF Overtakes
  <2>1. a # b /\ (a = h \/ b = h) BY <1>10 DEF Passes
  <2> QED BY <1>11, <2>1
<1>13. Settled BY <1>1, <1>10 DEF Settled, Seen, TaskInv, TaskConservation, Passes
<1>14. DeferredOffered'
  <2>1. Range(queue_tasks_deferred') = Range(d) \cup {h}
    BY <1>1, <1>8, BackOrder
  <2>2. \A t \in Range(d) : t.type = "infer" /\ t.id \in offered
    BY DEF TaskInv, FirstCome, DeferredOffered, d
  <2> QED BY <1>1, <1>2, <2>1, <2>2 DEF DeferredOffered
<1>15. offered \subseteq offered' /\ UNCHANGED posted BY <1>1, <1>2
<1> QED BY <1>0, <1>3, <1>12, <1>13, <1>14, <1>15, Accounted

LEMMA YieldKeeps ==
  ASSUME IInv, TypeOK', TaskInv, EndWork \/ YieldWake
  PROVE  TaskInv'
<1>0. TypeOK BY DEF IInv
<1>1. UNCHANGED <<queue_tasks_deferred, hand, handled, lost, posted, offered>>
  BY DEF EndWork, YieldWake, history
<1>2. ClientsGoOn
  <2>1. (\E l : Goto(Main, l)) \/ UNCHANGED pc BY DEF EndWork, YieldWake, FinishYield
  <2>2. CASE UNCHANGED pc
    BY <2>2 DEF ClientsGoOn
  <2>3. CASE \E l : Goto(Main, l)
    BY <1>0, <2>3, QueueThreadMoves
  <2> QED BY <2>1, <2>2, <2>3
<1>3. CASE ~WorkerQuiet
  <2>1. UNCHANGED <<queue_tasks, queue_tasks_unhandled>> BY <1>3 DEF EndWork, YieldWake
  <2>2. TasksStay BY <1>1, <2>1 DEF TasksStay, queues
  <2> QED BY <1>0, <1>2, <2>2, NoTaskMoves
<1>4. CASE WorkerQuiet
  <2>1. /\ queue_tasks' = PutBack(queue_tasks_unhandled, queue_tasks)
        /\ queue_tasks_unhandled' = <<>>
    BY <1>4 DEF EndWork, YieldWake, FinishYield
  <2>2. pc[Worker] \notin WorkingPC BY <1>4 DEF WorkerQuiet, IInv, WorkerBusy
  <2>3. EmptyHand(hand[Worker])
    <3>1. pc[Worker] \notin Holding BY <2>2 DEF WorkingPC, Holding
    <3> QED BY <1>0, <3>1, HandIs
  <2>4. PendingInLine /\ PendingInLine' BY <1>0, PendingIsLine
  <2>5. InLine(Pending', hand[Main], <<>>, hand[Worker],
               PutBack(queue_tasks_unhandled, queue_tasks), queue_tasks_deferred)
    BY <1>1, <2>1, <2>4 DEF PendingInLine
  <2>6. queue_tasks \in Seq(Task) /\ queue_tasks_unhandled \in Seq(Task)
    BY <1>0 DEF TypeOK, DequeTypes
  <2>7. SameOrder(Pending, Pending')
    BY ONLY <2>3, <2>4, <2>5, <2>6, PutsBack DEF PendingInLine
  <2> QED BY <1>0, <1>1, <1>2, <2>7, SameLine
<1> QED BY <1>3, <1>4

(* A client has one task and one cancellation, and nobody else has them. *)
LEMMA WhoseTask ==
  /\ \A c : /\ TaskOf(c).id = c /\ CancelOf(c).id = c
            /\ CancelOf(c).type = "cancel" /\ TaskOf(c).type # "cancel"
            /\ c \notin Inferrers => TaskOf(c).type # "infer"
  /\ \A c, e : TaskOf(c) # CancelOf(e)
<1>1. \A c : /\ TaskOf(c).id = c /\ CancelOf(c).id = c
             /\ CancelOf(c).type = "cancel" /\ TaskOf(c).type # "cancel"
             /\ c \notin Inferrers => TaskOf(c).type # "infer"
  BY DEF TaskOf, CancelOf
<1> QED BY <1>1

LEMMA ClientMoves ==
  ASSUME TypeOK, NEW c \in Clients, NEW l, Goto(c, l)
  PROVE  pc'[c] = l /\ \A e \in Clients \ {c} : pc'[e] = pc[e]
<1>1. \A e \in Clients : e \in Threads BY DEF Threads
<1> QED BY <1>1 DEF Goto, TypeOK, PcTypes

(* post() puts a task in line behind every task that has not been offered. *)
LEMMA PostKeeps ==
  ASSUME IInv, TypeOK', TaskInv, NEW c \in Clients, ClientPost(c)
  PROVE  TaskInv'
<1> DEFINE x == TaskOf(c)
<1>0. TypeOK BY DEF IInv
<1>1. /\ pc[c] = "post" /\ Goto(c, "posted") /\ posted' = Append(posted, c)
      /\ UNCHANGED <<queue_tasks_deferred, queue_tasks_unhandled, hand, handled, lost, offered>>
  BY DEF ClientPost
<1>2. pc'[c] = "posted" /\ \A e \in Clients \ {c} : pc'[e] = pc[e]
  BY <1>0, <1>1, ClientMoves
<1>3. x \in Task /\ x.id = c /\ (c \notin Inferrers => x.type # "infer")
  BY NewTasks, WhoseTask
<1>4. c \notin Range(posted) BY <1>1 DEF TaskInv, Origins
<1>5. x \notin Seen BY <1>4 DEF TaskInv, Origins
<1>6. x \notin Range(Pending) /\ x \notin handled /\ x \notin lost BY <1>5 DEF Seen
<1>7. posted \in Seq(Clients) BY <1>0 DEF TypeOK, HistoryTypes
<1>8. /\ Range(posted') = Range(posted) \cup {c}
      /\ \A a, b : Before(posted', a, b) <=> Before(posted, a, b) \/ (a \in Range(posted) /\ b = c)
  BY <1>1, <1>7, BackOrder
<1>9. IsInjective(posted')
  <2>1. posted' \in Seq(Clients) BY DEF TypeOK, HistoryTypes
  <2>2. \A a : ~Before(posted, a, a) BY <1>7, InjectiveIs DEF TaskInv, FirstCome
  <2>3. \A a : ~Before(posted', a, a) BY <1>4, <1>8, <2>2
  <2> QED BY <2>1, <2>3, InjectiveIs, Zenon
<1>10. PendingInLine /\ PendingInLine' BY <1>0, PendingIsLine
<1>11. queue_tasks \in Seq(Task) BY <1>0 DEF TypeOK, DequeTypes
<1> DEFINE Old(a, b) == Before(Pending, a, b)
           Behind(a, b) == a # b /\ b = x /\ a \in Range(Pending)
           Ahead(a, b) == a # b /\ a = x /\ b \in Range(queue_tasks_deferred)
           Metrics(a, b) == a # b /\ (a = x \/ b = x) /\ c \notin Inferrers
<1>12. /\ Range(Pending') = Range(Pending) \cup {x}
       /\ \A a, b : Before(Pending', a, b) =>
            Old(a, b) \/ Behind(a, b) \/ Ahead(a, b) \/ Metrics(a, b)
  <2>1. CASE c \in Inferrers
    <3>1. queue_tasks' = Append(queue_tasks, x) BY <2>1 DEF ClientPost
    <3>2. InLine(Pending', hand[Main], queue_tasks_unhandled, hand[Worker], queue_tasks',
                 queue_tasks_deferred)
      BY <1>1, <1>10 DEF PendingInLine
    <3> HIDE DEF x
    <3>3. JoinsBehind(Pending, Pending', x, queue_tasks_deferred)
      <4>1. InLine(Pending, hand[Main], queue_tasks_unhandled, hand[Worker], queue_tasks,
                   queue_tasks_deferred)
        BY <1>10 DEF PendingInLine
      <4>2. x \in Task /\ x \notin Range(Pending) BY <1>3, <1>6
      <4> QED BY ONLY <1>11, <3>1, <3>2, <4>1, <4>2, PostsBehind
    <3> QED BY <3>3 DEF JoinsBehind
  <2>2. CASE c \notin Inferrers
    <3>1. queue_tasks' = <<x>> \o queue_tasks BY <2>2 DEF ClientPost
    <3>2. InLine(Pending', hand[Main], queue_tasks_unhandled, hand[Worker], queue_tasks',
                 queue_tasks_deferred)
      BY <1>1, <1>10 DEF PendingInLine
    <3> HIDE DEF x
    <3>3. JoinsInFront(Pending, Pending', x)
      <4>1. InLine(Pending, hand[Main], queue_tasks_unhandled, hand[Worker], queue_tasks,
                   queue_tasks_deferred)
        BY <1>10 DEF PendingInLine
      <4>2. x \in Task /\ x \notin Range(Pending) BY <1>3, <1>6
      <4> QED BY ONLY <1>11, <3>1, <3>2, <4>1, <4>2, PostsInFront
    <3> QED BY <2>2, <3>3 DEF JoinsInFront
  <2> QED BY <2>1, <2>2
<1>13. Seen' = Seen \cup {x} BY <1>1, <1>12 DEF Seen
<1>14. TaskConservation'
  <2>1. \A a : ~Before(Pending, a, a) BY <1>0, NotTwice DEF TaskInv, TaskConservation
  <2>2. \A a : ~Before(Pending', a, a) BY <1>12, <2>1
  <2>3. IsInjective(Pending') BY <2>2, NotTwice
  <2>4. Range(Pending') \cap (handled' \cup lost') = {}
    BY <1>1, <1>6, <1>12 DEF TaskInv, TaskConservation
  <2>5. \A e \in Clients : pc'[e] = "posted" => TaskOf(e) \in Seen'
    <3>1. \A e \in Clients : pc[e] = "posted" => TaskOf(e) \in Seen
      BY DEF TaskInv, TaskConservation, Seen
    <3> QED BY <1>2, <1>13, <3>1
  <2> QED BY <2>3, <2>4, <2>5, Zenon DEF TaskConservation, Seen, TaskOf
<1>15. Origins'
  <2>1. \A t \in Seen' : t = CancelOf(t.id) \/ t = TaskOf(t.id)
    BY <1>3, <1>13 DEF TaskInv, Origins
  <2>2. ASSUME NEW e \in Clients
        PROVE  /\ TaskOf(e) \in Seen' => e \in Range(posted')
               /\ CancelOf(e) \in Seen' => pc'[e] = "done"
    <3>1. TaskOf(e) = x => e = c BY <1>3, WhoseTask, Zenon
    <3>2. CancelOf(e) # x BY WhoseTask, Zenon
    <3>3. /\ TaskOf(e) \in Seen => e \in Range(posted)
          /\ CancelOf(e) \in Seen => pc[e] = "done"
      BY DEF TaskInv, Origins
    <3> HIDE DEF x
    <3>4. TaskOf(e) \in Seen' => e \in Range(posted') BY <1>8, <1>13, <3>1, <3>3
    <3>5. CancelOf(e) \in Seen' => pc'[e] = "done" BY <1>1, <1>2, <1>13, <3>2, <3>3
    <3> QED BY <3>4, <3>5
  <2>3. \A e \in Range(posted') : pc'[e] \in {"posted", "done"}
    <3>1. \A e \in Range(posted) : e \in Clients BY <1>7, RangeOfSeq
    <3> QED BY <1>2, <1>8, <3>1 DEF TaskInv, Origins
  <2> QED BY <2>1, <2>2, <2>3, Zenon DEF Origins, CancelOf, TaskOf
<1>16. DeferredOffered' BY <1>1 DEF TaskInv, FirstCome, DeferredOffered
<1>17. ASSUME NEW a \in Task, NEW b \in Task, Before(Pending', a, b), FreshAfter(a), FreshAfter(b)
       PROVE  Before(posted', a.id, b.id)
  <2>1. Fresh(a) /\ Fresh(b) BY <1>1, <1>17 DEF Fresh, FreshAfter
  <2>2. CASE Old(a, b)
    <3>1. Before(posted, a.id, b.id) BY <2>1, <2>2 DEF TaskInv, FirstCome
    <3> QED BY <1>8, <3>1
  <2>3. CASE Behind(a, b)
    <3>1. a \in Seen /\ b.id = c BY <1>3, <2>3 DEF Seen
    <3>2. a = TaskOf(a.id)
      <4>1. a = CancelOf(a.id) \/ a = TaskOf(a.id) BY <3>1 DEF TaskInv, Origins
      <4>2. a.type # "cancel" BY <2>1 DEF Fresh
      <4> QED BY <4>1, <4>2, WhoseTask
    <3>3. a.id \in Clients BY DEF Task
    <3>4. a.id \in Range(posted) BY <3>1, <3>2, <3>3 DEF TaskInv, Origins
    <3> QED BY <1>8, <3>1, <3>4
  <2>4. CASE Ahead(a, b)
    <3>1. b.id \in offered BY <2>4 DEF TaskInv, FirstCome, DeferredOffered
    <3> QED BY <2>1, <3>1 DEF Fresh
  <2>5. CASE Metrics(a, b)
    <3>1. x.type # "infer" BY <1>3, <2>5
    <3> QED BY <2>1, <2>5, <3>1 DEF Fresh
  <2> QED BY <1>12, <1>17, <2>2, <2>3, <2>4, <2>5
<1>18. FirstCome' BY <1>9, <1>16, <1>17, Zenon DEF FirstCome, Fresh, FreshAfter
<1> QED BY <1>14, <1>15, <1>18 DEF TaskInv

(* A cancellation takes the client's task out of the deques and nobody else's. *)
LEMMA CancelKeeps ==
  ASSUME IInv, TypeOK', TaskInv, NEW c \in Clients, ClientCancel(c)
  PROVE  TaskInv'
<1> DEFINE k == CancelOf(c)
           x == TaskOf(c)
<1>0. TypeOK BY DEF IInv
<1>1. /\ pc[c] = "posted" /\ Goto(c, "done")
      /\ queue_tasks' = <<k>> \o WithoutTarget(queue_tasks, c)
      /\ queue_tasks_deferred' = WithoutTarget(queue_tasks_deferred, c)
      /\ queue_tasks_unhandled' = WithoutTarget(queue_tasks_unhandled, c)
      /\ UNCHANGED <<hand, handled, lost, posted, offered>>
  BY DEF ClientCancel, history
<1>2. pc'[c] = "done" /\ \A e \in Clients \ {c} : pc'[e] = pc[e]
  BY <1>0, <1>1, ClientMoves
<1>3. /\ x \in Task /\ x.id = c /\ x.type # "cancel"
      /\ k \in Task /\ k.id = c /\ k.type = "cancel"
  BY NewTasks, WhoseTask
<1>4. k \notin Seen BY <1>1 DEF TaskInv, Origins
<1>5. k \notin Range(Pending) /\ k \notin handled /\ k \notin lost BY <1>4 DEF Seen
<1>6. \A t \in Range(Pending) : (t.type # "cancel" /\ t.id = c) => t = x
  <2>1. \A t \in Range(Pending) : t = CancelOf(t.id) \/ t = TaskOf(t.id)
    BY DEF TaskInv, Origins, Seen
  <2> QED BY <2>1, WhoseTask
<1>7. \A a : ~Before(Pending, a, a) BY <1>0, NotTwice DEF TaskInv, TaskConservation
<1>8. PendingInLine /\ PendingInLine' BY <1>0, PendingIsLine
<1>9. queue_tasks \in Seq(Task) /\ queue_tasks_unhandled \in Seq(Task)
      /\ queue_tasks_deferred \in Seq(Task)
  BY <1>0 DEF TypeOK, DequeTypes
<1>10. InLine(Pending', hand[Main], queue_tasks_unhandled', hand[Worker], queue_tasks',
              queue_tasks_deferred')
  BY <1>1, <1>8 DEF PendingInLine
<1> HIDE DEF k, x
<1>10a. Erased(queue_tasks_deferred, queue_tasks_deferred', x)
  <2>1. OnlyTarget(Range(queue_tasks_deferred), c, x)
    BY <1>6, <1>8 DEF OnlyTarget, PendingInLine, InLine
  <2>2. \A a : ~Before(queue_tasks_deferred, a, a) BY <1>7, <1>8 DEF PendingInLine, InLine
  <2> QED BY <1>1, <1>3, <1>9, <2>1, <2>2, Erases
<1>10b. Erased(queue_tasks_unhandled, queue_tasks_unhandled', x)
  <2>1. OnlyTarget(Range(queue_tasks_unhandled), c, x)
    BY <1>6, <1>8 DEF OnlyTarget, PendingInLine, InLine
  <2>2. \A a : ~Before(queue_tasks_unhandled, a, a) BY <1>7, <1>8 DEF PendingInLine, InLine
  <2> QED BY <1>1, <1>3, <1>9, <2>1, <2>2, Erases
<1>10c. Erased(queue_tasks, WithoutTarget(queue_tasks, c), x)
  <2>1. OnlyTarget(Range(queue_tasks), c, x)
    BY <1>6, <1>8 DEF OnlyTarget, PendingInLine, InLine
  <2>2. \A a : ~Before(queue_tasks, a, a) BY <1>7, <1>8 DEF PendingInLine, InLine
  <2> QED BY <1>3, <1>9, <2>1, <2>2, Erases
<1>10d. Replaced(Pending, Pending', x, k)
  <2> DEFINE q1 == WithoutTarget(queue_tasks, c)
  <2>1. InLine(Pending, hand[Main], queue_tasks_unhandled, hand[Worker], queue_tasks,
               queue_tasks_deferred)
    BY <1>8 DEF PendingInLine
  <2>2. k \notin Range(Pending) /\ k \in Task BY <1>3, <1>5
  <2>3. queue_tasks' = <<k>> \o q1 BY <1>1 DEF k
  <2>4. Erased(queue_tasks, q1, x) BY <1>10c
  <2> HIDE DEF q1
  <2> QED BY ONLY <2>1, <2>2, <2>3, <2>4, <1>7, <1>10, <1>10a, <1>10b, Cancels
<1>11. /\ Range(Pending') \subseteq Range(Pending) \cup {k}
       /\ Range(Pending) \ {x} \subseteq Range(Pending') /\ k \in Range(Pending')
       /\ Range(queue_tasks_deferred') \subseteq Range(queue_tasks_deferred)
       /\ \A a, b : Before(Pending', a, b) => Before(Pending, a, b) \/ (a # b /\ (a = k \/ b = k))
  BY <1>10a, <1>10d DEF Replaced, Erased
<1>12. Seen' \subseteq Seen \cup {k} /\ Seen \ {x} \subseteq Seen'
  BY <1>1, <1>11 DEF Seen
<1>13. TaskConservation'
  <2>1. \A a : ~Before(Pending', a, a) BY <1>7, <1>11
  <2>2. IsInjective(Pending') BY <2>1, NotTwice
  <2>3. Range(Pending') \cap (handled' \cup lost') = {}
    BY <1>1, <1>5, <1>11 DEF TaskInv, TaskConservation
  <2>4. ASSUME NEW e \in Clients, pc'[e] = "posted" PROVE TaskOf(e) \in Seen'
    <3>1. e # c BY <1>2, <2>4
    <3>2. pc[e] = "posted" BY <1>2, <2>4, <3>1
    <3>3. TaskOf(e) \in Seen BY <3>2 DEF TaskInv, TaskConservation, Seen
    <3>4. TaskOf(e) # x BY <1>3, <3>1, WhoseTask
    <3> QED BY <1>12, <3>3, <3>4
  <2> QED BY <2>2, <2>3, <2>4, Zenon DEF TaskConservation, Seen, TaskOf
<1>14. Origins'
  <2>1. \A t \in Seen' : t = CancelOf(t.id) \/ t = TaskOf(t.id)
    <3>1. k = CancelOf(k.id) BY <1>3 DEF k
    <3> QED BY <1>12, <3>1 DEF TaskInv, Origins
  <2>2. ASSUME NEW e \in Clients
        PROVE  /\ TaskOf(e) \in Seen' => e \in Range(posted')
               /\ CancelOf(e) \in Seen' => pc'[e] = "done"
    <3>1. CancelOf(e) = k => e = c BY <1>3, WhoseTask
    <3>2. TaskOf(e) # k BY <1>3, WhoseTask
    <3>3. /\ TaskOf(e) \in Seen => e \in Range(posted)
          /\ CancelOf(e) \in Seen => pc[e] = "done"
      BY DEF TaskInv, Origins
    <3>4. TaskOf(e) \in Seen' => e \in Range(posted') BY <1>1, <1>12, <3>2, <3>3
    <3>5. CancelOf(e) \in Seen' => pc'[e] = "done" BY <1>1, <1>2, <1>12, <3>1, <3>3
    <3> QED BY <3>4, <3>5
  <2>3. \A e \in Range(posted') : pc'[e] \in {"posted", "done"}
    <3>1. posted \in Seq(Clients) BY <1>0 DEF TypeOK, HistoryTypes
    <3>2. \A e \in Range(posted) : e \in Clients BY <3>1, RangeOfSeq
    <3> QED BY <1>1, <1>2, <3>2 DEF TaskInv, Origins
  <2> QED BY <2>1, <2>2, <2>3, Zenon DEF Origins, CancelOf, TaskOf
<1>15. DeferredOffered' BY <1>1, <1>11 DEF TaskInv, FirstCome, DeferredOffered
<1>16. ASSUME NEW a \in Task, NEW b \in Task, Before(Pending', a, b), FreshAfter(a), FreshAfter(b)
       PROVE  Before(posted, a.id, b.id)
  <2>1. Fresh(a) /\ Fresh(b) BY <1>1, <1>16 DEF Fresh, FreshAfter
  <2>2. a # k /\ b # k BY <1>3, <2>1 DEF Fresh
  <2>3. Before(Pending, a, b) BY <1>11, <1>16, <2>2
  <2> QED BY <2>1, <2>3 DEF TaskInv, FirstCome
<1>17. posted' = posted /\ IsInjective(posted) BY <1>1 DEF TaskInv, FirstCome
<1>18. IsInjective(posted') BY <1>17
<1>19. \A a, b \in Task : (Before(Pending', a, b) /\ FreshAfter(a) /\ FreshAfter(b)) =>
         Before(posted', a.id, b.id)
  BY <1>16, <1>17
<1>20. FirstCome' BY <1>15, <1>18, <1>19, Zenon DEF FirstCome, Fresh, FreshAfter
<1> QED BY <1>13, <1>14, <1>20 DEF TaskInv

(* A step of Main or of the worker that has no task to do with. *)
LEMMA QuietThread ==
  ASSUME IInv, TypeOK', TaskInv, NEW t \in {Main, Worker}, NEW l, Goto(t, l), TasksStay
  PROVE  TaskInv'
<1>1. TypeOK BY DEF IInv
<1>2. ClientsGoOn BY <1>1, QueueThreadMoves
<1> QED BY <1>1, <1>2, NoTaskMoves

LEMMA MainKeeps ==
  ASSUME IInv, TypeOK', TaskInv, MainNext
  PROVE  TaskInv'
<1>0. TypeOK /\ Main # Worker BY ThreadsAssumption DEF IInv
<1>1. CASE StartLoop
  <2>1. TasksStay BY <1>1 DEF StartLoop, TasksStay, history
  <2>2. \A c \in Clients : c # Main /\ c # Worker /\ c \in Threads
    BY ThreadsAssumption DEF Threads
  <2>3. \A c \in Clients : pc'[c] = pc[c] BY <1>0, <1>1, <2>2 DEF StartLoop, TypeOK, PcTypes
  <2>4. ClientsGoOn BY <2>3 DEF ClientsGoOn
  <2> QED BY <1>0, <2>1, <2>4, NoTaskMoves
<1>2. CASE MainPop
  BY <1>2, PopKeeps DEF MainPop
<1>3. CASE MainHandle
  BY <1>3, MainHandleKeeps
<1>4. CASE MainDefer
  BY <1>4, DeferKeeps
<1>5. CASE MainPopDeferred
  BY <1>5, ReleaseKeeps
<1>6. CASE EndWork \/ YieldWake
  BY <1>6, YieldKeeps
<1>7. CASE \/ BeginYield \/ NotifyWorker \/ UpdateDone \/ LeaveLoop \/ EnterSleep
           \/ WaitForTask \/ WaitForTaskWake \/ WorkerStop \/ WorkerStopNotify \/ WorkerJoin
  <2>1. TasksStay
    BY <1>7 DEF BeginYield, NotifyWorker, UpdateDone, LeaveLoop, EnterSleep, WaitForTask,
                WaitForTaskWake, WorkerStop, WorkerStopNotify, WorkerJoin, TasksStay, history
  <2>2. \E l : Goto(Main, l)
    BY <1>7 DEF BeginYield, NotifyWorker, UpdateDone, LeaveLoop, EnterSleep, WaitForTask,
                WaitForTaskWake, WorkerStop, WorkerStopNotify, WorkerJoin
  <2> QED BY <2>1, <2>2, QuietThread
<1>8. CASE SleepWake
  <2>1. TasksStay BY <1>8 DEF SleepWake, TasksStay, history
  <2>2. CASE UNCHANGED pc
    <3>1. ClientsGoOn BY <2>2 DEF ClientsGoOn
    <3> QED BY <1>0, <2>1, <3>1, NoTaskMoves
  <2>3. CASE \E l : Goto(Main, l)
    BY <2>1, <2>3, QuietThread
  <2> QED BY <1>8, <2>2, <2>3 DEF SleepWake
<1> QED BY <1>1, <1>2, <1>3, <1>4, <1>5, <1>6, <1>7, <1>8, Zenon DEF MainNext

LEMMA WorkerKeeps ==
  ASSUME IInv, TypeOK', TaskInv, WorkerNext
  PROVE  TaskInv'
<1>1. CASE WorkerPop
  BY <1>1, PopKeeps DEF WorkerPop
<1>2. CASE WorkerHandle \/ WorkerThrow
  BY <1>2, WorkerEnds
<1>3. CASE WorkerSetAside
  BY <1>3, AsideKeeps
<1>4. CASE \/ WorkerTop \/ WorkerDecline \/ WorkerCheck \/ WorkerWake \/ WorkerClearBusy
           \/ WorkerNotify
  <2>1. TasksStay
    BY <1>4 DEF WorkerTop, WorkerDecline, WorkerCheck, WorkerWake, WorkerClearBusy,
                WorkerNotify, TasksStay, history
  <2>2. \E l : Goto(Worker, l)
    BY <1>4 DEF WorkerTop, WorkerDecline, WorkerCheck, WorkerWake, WorkerClearBusy,
                WorkerNotify, WaitUntil
  <2> QED BY <2>1, <2>2, QuietThread
<1> QED BY <1>1, <1>2, <1>3, <1>4, Zenon DEF WorkerNext

LEMMA ClientKeeps ==
  ASSUME IInv, TypeOK', TaskInv, NEW c \in Clients, ClientNext(c) \/ ClientCancel(c)
  PROVE  TaskInv'
<1>0. TypeOK BY DEF IInv
<1>1. CASE ClientPost(c)
  BY <1>1, PostKeeps
<1>2. CASE ClientCancel(c)
  BY <1>2, CancelKeeps
<1>3. CASE ClientReceive(c)
  <2>1. TasksStay BY <1>3 DEF ClientReceive, TasksStay, history
  <2>2. pc[c] = "posted" /\ Goto(c, "done") BY <1>3 DEF ClientReceive
  <2>3. ClientsGoOn BY <1>0, <2>2, ClientMoves DEF ClientsGoOn
  <2> QED BY <1>0, <2>1, <2>3, NoTaskMoves
<1>4. CASE ClientWaitUntilNoSleep(c) \/ ClientNoSleepWake(c) \/ ClientBypass(c)
  <2>1. TasksStay
    BY <1>4 DEF ClientWaitUntilNoSleep, ClientNoSleepWake, ClientBypass, TasksStay, history
  <2>2. /\ pc[c] \in {"start", "no_sleep_wait"}
        /\ \E l \in {"post", "no_sleep_wait", "done"} : Goto(c, l)
    BY <1>4 DEF ClientWaitUntilNoSleep, ClientNoSleepWake, ClientBypass, WaitUntil
  <2>3. ClientsGoOn BY <1>0, <2>2, ClientMoves DEF ClientsGoOn
  <2> QED BY <1>0, <2>1, <2>3, NoTaskMoves
<1> QED BY <1>1, <1>2, <1>3, <1>4, Zenon DEF ClientNext

LEMMA InitTasks == Init => TaskInv
<1> SUFFICES ASSUME Init PROVE TaskInv
  OBVIOUS
<1>1. TypeOK BY InitIInv DEF IInv
<1>2. /\ hand[Main] = <<>> /\ hand[Worker] = <<>> /\ queue_tasks = <<>>
      /\ queue_tasks_deferred = <<>> /\ queue_tasks_unhandled = <<>>
      /\ handled = {} /\ lost = {} /\ posted = <<>>
  BY DEF Init
<1>3. Range(<<>>) = {} /\ \A a, b : ~Before(<<>>, a, b) BY EmptyHands DEF EmptyHand
<1>4. Range(Pending) = {} /\ \A a, b : ~Before(Pending, a, b)
  BY <1>1, <1>2, <1>3, PendingIsLine DEF PendingInLine, InLine
<1>5. Seen = {} BY <1>2, <1>4 DEF Seen
<1>6. IsInjective(Pending) BY <1>1, <1>4, NotTwice
<1>7. \A c \in Clients : pc[c] = "start"
  BY ThreadsAssumption DEF Init, Threads
<1>8. TaskConservation BY <1>2, <1>4, <1>6, <1>7 DEF TaskConservation
<1>9. Origins BY <1>2, <1>3, <1>5 DEF Origins
<1>10. IsInjective(posted)
  <2>1. posted \in Seq(Clients) BY <1>1 DEF TypeOK, HistoryTypes
  <2> QED BY <1>2, <1>3, <2>1, InjectiveIs
<1>11. FirstCome BY <1>2, <1>3, <1>4, <1>10 DEF FirstCome, DeferredOffered
<1> QED BY <1>8, <1>9, <1>11 DEF TaskInv

LEMMA NextTasks == IInv /\ IInv' /\ TaskInv /\ [Next]_vars => TaskInv'
<1> SUFFICES ASSUME IInv, IInv', TaskInv, [Next]_vars PROVE TaskInv'
  OBVIOUS
<1>0. TypeOK /\ TypeOK' BY DEF IInv
<1>1. CASE MainNext
  BY <1>0, <1>1, MainKeeps
<1>2. CASE WorkerNext
  BY <1>0, <1>2, WorkerKeeps
<1>3. CASE \E c \in Clients : ClientNext(c) \/ ClientCancel(c)
  BY <1>0, <1>3, ClientKeeps
<1>4. CASE Terminate \/ UNCHANGED vars
  <2>1. TasksStay /\ UNCHANGED pc
    BY <1>4 DEF Terminate, vars, TasksStay, queues, history
  <2>2. ClientsGoOn BY <2>1 DEF ClientsGoOn
  <2> QED BY <1>0, <2>1, <2>2, NoTaskMoves
<1> QED BY <1>1, <1>2, <1>3, <1>4, Zenon DEF Next

LEMMA TasksInductive == Spec => []TaskInv
<1>1. Init => TaskInv BY InitTasks
<1>2. IInv /\ IInv' /\ TaskInv /\ [Next]_vars => TaskInv' BY NextTasks
<1> QED BY <1>1, <1>2, Inductive, PTL DEF Spec

(* However many clients there are, and through every decline, put-back, deferral  *)
(* and cancellation, a request is held once or finished, and is not dropped while  *)
(* its client waits for it.                                                        *)
THEOREM ConservationCorrect == Spec => []TaskConservation
<1>1. TaskInv => TaskConservation BY DEF TaskInv
<1> QED BY <1>1, TasksInductive, PTL

(* The place of a client in the order of posting. *)
Rank(u) == CHOOSE i \in DOMAIN posted : posted[i] = u

LEMMA RankOrder ==
  ASSUME posted \in Seq(Clients), IsInjective(posted), NEW c, NEW e, Before(posted, c, e)
  PROVE  Rank(c) < Rank(e)
<1>1. Len(posted) \in Nat /\ DOMAIN posted = 1..Len(posted) BY LenProperties
<1>2. PICK i, j \in 1..Len(posted) : i < j /\ posted[i] = c /\ posted[j] = e
  BY DEF Before
<1>3. ASSUME NEW u, NEW n \in DOMAIN posted, posted[n] = u
      PROVE  Rank(u) = n
  <2>1. Rank(u) \in DOMAIN posted /\ posted[Rank(u)] = u BY <1>3, Zenon DEF Rank
  <2> QED BY <1>3, <2>1, Zenon DEF IsInjective
<1>4. Rank(c) = i /\ Rank(e) = j BY <1>1, <1>2, <1>3
<1> QED BY <1>2, <1>4

(* Requests that have not been offered stand in the order they were posted, though  *)
(* every yield sets them aside and puts them back.                                  *)
THEOREM FifoCorrect == Spec => []FifoOrder
<1>1. ASSUME IInv, TaskInv PROVE FifoOrder
  <2>1. TypeOK /\ posted \in Seq(Clients) /\ IsInjective(posted)
    BY <1>1 DEF IInv, TypeOK, HistoryTypes, TaskInv, FirstCome
  <2>2. Pending \in Seq(Task) BY <2>1, PendingIsLine DEF PendingInLine, InLine
  <2>3. DOMAIN Pending = 1..Len(Pending) /\ \A i \in 1..Len(Pending) : Pending[i] \in Task
    BY <2>2, LenProperties, ElementOfSeq
  <2>4. ASSUME NEW i \in DOMAIN Pending, NEW j \in DOMAIN Pending, i < j,
               Fresh(Pending[i]), Fresh(Pending[j])
        PROVE  Rank(Pending[i].id) < Rank(Pending[j].id)
    <3>1. Before(Pending, Pending[i], Pending[j]) BY <2>3, <2>4, Zenon DEF Before
    <3>2. Pending[i] \in Task /\ Pending[j] \in Task BY <2>3, <2>4
    <3>3. Before(posted, Pending[i].id, Pending[j].id)
      BY <1>1, <2>4, <3>1, <3>2, Zenon DEF TaskInv, FirstCome
    <3> QED BY <2>1, <3>3, RankOrder, Zenon
  <2> QED BY <2>4, Zenon DEF FifoOrder, Fresh, Rank
<1> QED BY <1>1, Inductive, TasksInductive, PTL
==============================================================================
