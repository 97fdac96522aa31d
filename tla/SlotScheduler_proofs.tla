------------------------ MODULE SlotScheduler_proofs -------------------------
(***************************************************************************)
(* The slots of server_context, for any number of slots, requests and      *)
(* child tasks: what a slot holds is typed, no request is lost or held     *)
(* twice, children and parents hold their slots together, and a slot keeps *)
(* the prompt of the request it generates for.                             *)
(*                                                                         *)
(* Two halves.  Where the task of a request is queued is read from the     *)
(* deques through their ranges and the relation Before (Lines).  What the  *)
(* slots hold is related to the requests that are queued, handled or ended *)
(* (Places, Kept, NoStrandedChild, ChildrenHoldSlots).                     *)
(***************************************************************************)
EXTENDS SlotScheduler, TaskQueues_proofs, FiniteSetTheorems

(* The requests whose task is a deque's; and the request of a task, if any. *)
Of(t) == {r \in Requests : t = TaskOf(r)}
Reqs(deque) == {r \in Requests : TaskOf(r) \in Range(deque)}

(* A deque of tasks with at most one task of each request. *)
Good(deque) ==
  deque \in Seq(Task) /\ \A r \in Requests : ~Before(deque, TaskOf(r), TaskOf(r))

Held == IF phase \in Holding THEN Of(hand[1]) ELSE {}
Queued == Reqs(queue_tasks)
Deferred == Reqs(queue_tasks_deferred)

(* Requests that are still to be put on slots. *)
Placed == Queued \cup Deferred \cup (IF phase = "callback" THEN Held ELSE {})

(* Who made a task: the program itself, a client that posts or one that has left. *)
Made(t) ==
  \/ t = NextResponse
  \/ \E r \in Requests : t = TaskOf(r)
  \/ \E r \in Requests : client[r] = "done" /\ \E id \in IdsOf(r) : t = CancelOf(id)

Origins ==
  /\ \A t \in Range(queue_tasks) : Made(t)
  /\ phase \in Holding => Made(hand[1])
  /\ \A t \in Range(queue_tasks_deferred) : Of(t) # {}

(* The task of a request is in one place. *)
Lines ==
  /\ Good(queue_tasks) /\ Good(queue_tasks_deferred)
  /\ Queued \cap Deferred = {} /\ Held \cap (Queued \cup Deferred) = {}
  /\ \A r \in Queued \cup Deferred \cup Held : client[r] # "new"

(* A task is on one slot; a parent works, a child waits. *)
Owned == UNION {IdsOf(r) : r \in Requests}
SlotTasks ==
  /\ \A s, i \in Slots : (slot[s].task = slot[i].task /\ slot[s].task # NoTask) => s = i
  /\ \A s \in Slots : /\ slot[s].task \in Owned \cup {NoTask}
                      /\ slot[s].state = "STARTED" => slot[s].task \in Requests
                      /\ slot[s].state = "WAIT_OTHER" => slot[s].task \in ChildIds

(* Before a request is on slots nothing of it is, or has ended; a failed launch  *)
(* leaves children only; and what is on a slot has not ended.                    *)
Places ==
  /\ \A r \in Requests : (client[r] = "new" \/ r \in Placed) =>
       /\ \A id \in IdsOf(r) : SlotOf(id) = {}
       /\ r \notin Ended
  /\ phase = "undo" => \E r \in Requests : hand[1] = TaskOf(r) /\ SlotOf(r) = {}
  /\ \A r \in Requests : SlotOf(r) # {} => r \notin Ended

Kept ==
  \A r \in Requests : client[r] = "waiting" =>
    r \in Placed \cup Ended \/ SlotOf(r) # {} \/ IdsOf(r) \cap errored # {}

QueueInv == Origins /\ Lines
Board == SlotTasks /\ Places /\ Kept /\ NoStrandedChild /\ ChildrenHoldSlots
SlotInv == TypeOK /\ QueueInv /\ Board

-----------------------------------------------------------------------------
(* Tasks and their owners. *)

LEMMA TaskFacts ==
  /\ \A r \in Requests : /\ TaskOf(r) \in Task /\ TaskOf(r).id = r
                         /\ TaskOf(r).type = Kind[r] /\ Kind[r] \in {"completion", "erase"}
                         /\ TaskOf(r).type # "cancel" /\ TaskOf(r).type # "next_response"
  /\ \A id \in Ids : CancelOf(id) \in Task /\ CancelOf(id).id = id /\ CancelOf(id).type = "cancel"
  /\ NextResponse \in Task /\ NextResponse.id = NoTask /\ NextResponse.type = "next_response"
<1>1. ASSUME NEW r \in Requests
      PROVE  /\ TaskOf(r) \in Task /\ TaskOf(r).id = r
             /\ TaskOf(r).type = Kind[r] /\ Kind[r] \in {"completion", "erase"}
             /\ TaskOf(r).type # "cancel" /\ TaskOf(r).type # "next_response"
  <2>1. Kind[r] \in {"completion", "erase"} /\ IdSlot[r] \in Slots \cup {NoSlot}
    BY RequestsAssumption
  <2> QED BY <2>1 DEF TaskOf, Task, Ids
<1>2. ASSUME NEW id \in Ids
      PROVE  CancelOf(id) \in Task /\ CancelOf(id).id = id /\ CancelOf(id).type = "cancel"
  BY DEF CancelOf, Task
<1>3. NextResponse \in Task /\ NextResponse.id = NoTask /\ NextResponse.type = "next_response"
  BY DEF NextResponse, Task
<1> QED BY <1>1, <1>2, <1>3

LEMMA OfFacts ==
  /\ \A r \in Requests : Of(TaskOf(r)) = {r}
  /\ \A id \in Ids : Of(CancelOf(id)) = {}
  /\ Of(NextResponse) = {}
<1>1. ASSUME NEW r \in Requests PROVE Of(TaskOf(r)) = {r}
  BY <1>1, TaskFacts DEF Of
<1>2. ASSUME NEW id \in Ids PROVE Of(CancelOf(id)) = {}
  BY <1>2, TaskFacts DEF Of
<1>3. Of(NextResponse) = {}
  BY TaskFacts DEF Of
<1> QED BY <1>1, <1>2, <1>3

(* Ids are handed out once, so a task belongs to one request. *)
LEMMA Owners ==
  /\ \A r \in Requests : r \in IdsOf(r) /\ IdsOf(r) \subseteq Ids
  /\ \A r, q \in Requests : \A id : (id \in IdsOf(r) /\ id \in IdsOf(q)) => r = q
  /\ \A r \in Requests : \A id \in IdsOf(r) : RequestOf(id) = r
  /\ \A r \in Requests : Range(ChildrenOf[r]) \subseteq ChildIds
  /\ Owned \subseteq Ids
<1>1. ASSUME NEW r \in Requests
      PROVE  /\ r \in IdsOf(r) /\ IdsOf(r) \subseteq Ids /\ Range(ChildrenOf[r]) \subseteq ChildIds
  <2>1. ChildrenOf[r] \in Seq(ChildIds) BY RequestsAssumption
  <2>2. Range(ChildrenOf[r]) \subseteq ChildIds BY <2>1 DEF Range
  <2> QED BY <2>2 DEF IdsOf, Ids
<1>2. ASSUME NEW r \in Requests, NEW q \in Requests, NEW id, id \in IdsOf(r), id \in IdsOf(q)
      PROVE  r = q
  <2>1. Requests \cap ChildIds = {} BY RequestsAssumption
  <2>2. CASE id \in Requests
    BY <1>1, <1>2, <2>1, <2>2 DEF IdsOf
  <2>3. CASE id \notin Requests
    <3>1. id \in Range(ChildrenOf[r]) /\ id \in Range(ChildrenOf[q])
      BY <1>2, <2>3 DEF IdsOf
    <3>2. PICK i \in DOMAIN ChildrenOf[r] : id = ChildrenOf[r][i] BY <3>1 DEF Range
    <3>3. PICK j \in DOMAIN ChildrenOf[q] : id = ChildrenOf[q][j] BY <3>1 DEF Range
    <3>4. \A p, o \in Requests : \A k \in DOMAIN ChildrenOf[p] : \A l \in DOMAIN ChildrenOf[o] :
            ChildrenOf[p][k] = ChildrenOf[o][l] => p = o
      BY RequestsAssumption
    <3>5. ChildrenOf[r][i] = ChildrenOf[q][j] BY <3>2, <3>3
    <3> QED BY <3>4, <3>5, Zenon
  <2> QED BY <2>2, <2>3
<1>3. ASSUME NEW r \in Requests, NEW id \in IdsOf(r) PROVE RequestOf(id) = r
  <2>1. \A q \in Requests : id \in IdsOf(q) => q = r BY <1>2, <1>3
  <2> QED BY <1>3, <2>1 DEF RequestOf
<1>4. Owned \subseteq Ids BY <1>1 DEF Owned
<1> QED BY <1>1, <1>2, <1>3, <1>4

-----------------------------------------------------------------------------
(* What the queue operations do to a good deque. *)

Added(deque, new, t) ==
  Good(new) /\ Reqs(new) = Reqs(deque) \cup Of(t) /\ Range(new) = Range(deque) \cup {t}
Taken(deque, new, t) ==
  /\ Good(new) /\ Reqs(new) = Reqs(deque) \ Of(t) /\ Of(t) \subseteq Reqs(deque)
  /\ Range(new) \subseteq Range(deque) /\ t \in Range(deque)

LEMMA AddsBack ==
  ASSUME NEW q, Good(q), NEW t \in Task, Of(t) \cap Reqs(q) = {}
  PROVE  Added(q, Append(q, t), t)
<1> DEFINE n == Append(q, t)
<1>1. q \in Seq(Task) /\ \A r \in Requests : ~Before(q, TaskOf(r), TaskOf(r)) BY DEF Good
<1>2. /\ n \in Seq(Task) /\ Range(n) = Range(q) \cup {t}
      /\ \A a, b : Before(n, a, b) <=> Before(q, a, b) \/ (a \in Range(q) /\ b = t)
  BY <1>1, BackOrder
<1> HIDE DEF n
<1>3. ASSUME NEW r \in Requests PROVE ~Before(n, TaskOf(r), TaskOf(r))
  BY <1>1, <1>2 DEF Of, Reqs
<1>4. Reqs(n) = Reqs(q) \cup Of(t) BY <1>2 DEF Reqs, Of
<1>5. Added(q, n, t) BY <1>2, <1>3, <1>4 DEF Added, Good
<1> QED BY <1>5 DEF n

LEMMA AddsFront ==
  ASSUME NEW q, Good(q), NEW t \in Task, Of(t) \cap Reqs(q) = {}
  PROVE  Added(q, <<t>> \o q, t)
<1> DEFINE n == <<t>> \o q
<1>1. q \in Seq(Task) /\ \A r \in Requests : ~Before(q, TaskOf(r), TaskOf(r)) BY DEF Good
<1>2. /\ n \in Seq(Task) /\ Range(n) = {t} \cup Range(q)
      /\ \A a, b : Before(n, a, b) <=> Before(q, a, b) \/ (a = t /\ b \in Range(q))
  BY <1>1, FrontOrder
<1> HIDE DEF n
<1>3. ASSUME NEW r \in Requests PROVE ~Before(n, TaskOf(r), TaskOf(r))
  BY <1>1, <1>2 DEF Of, Reqs
<1>4. Reqs(n) = Reqs(q) \cup Of(t) BY <1>2 DEF Reqs, Of
<1>5. Added(q, n, t) BY <1>2, <1>3, <1>4 DEF Added, Good
<1> QED BY <1>5 DEF n

LEMMA TakesHead ==
  ASSUME NEW q, Good(q), q # <<>>
  PROVE  Taken(q, Tail(q), Head(q)) /\ Head(q) \in Task
<1> DEFINE n == Tail(q)
           t == Head(q)
<1>1. q \in Seq(Task) /\ \A r \in Requests : ~Before(q, TaskOf(r), TaskOf(r)) BY DEF Good
<1>2. /\ t \in Task /\ n \in Seq(Task) /\ Range(q) = {t} \cup Range(n)
      /\ \A a, b : Before(q, a, b) <=> \/ Before(n, a, b)
                                       \/ a = t /\ b \in Range(n)
  BY <1>1, HeadOrder, Zenon
<1> HIDE DEF n, t
<1>3. ASSUME NEW r \in Requests PROVE ~Before(n, TaskOf(r), TaskOf(r))
  BY <1>1, <1>2
<1>4. \A r \in Of(t) : t = TaskOf(r) /\ TaskOf(r) \notin Range(n) BY <1>1, <1>2 DEF Of
<1>5. Reqs(n) = Reqs(q) \ Of(t) BY <1>2, <1>4 DEF Reqs, Of
<1>6. Of(t) \subseteq Reqs(q) BY <1>2 DEF Reqs, Of
<1>7. Taken(q, n, t) BY <1>2, <1>3, <1>5, <1>6 DEF Taken, Good
<1> QED BY <1>2, <1>7 DEF n, t

LEMMA TakesAt ==
  ASSUME NEW q, Good(q), NEW i \in 1..Len(q)
  PROVE  Taken(q, RemoveAt(q, i), q[i]) /\ q[i] \in Task
<1> DEFINE n == RemoveAt(q, i)
           t == q[i]
<1>1. q \in Seq(Task) /\ \A r \in Requests : ~Before(q, TaskOf(r), TaskOf(r)) BY DEF Good
<1>2. /\ n \in Seq(Task) /\ t \in Range(q)
      /\ \A a, b : Before(n, a, b) => Before(q, a, b)
      /\ Range(n) \subseteq Range(q)
      /\ Range(q) = Range(n) \cup {t}
      /\ ~Before(q, t, t) => t \notin Range(n)
  BY <1>1, RemoveAtOrder
<1>3. t \in Task BY <1>1, ElementOfSeq
<1> HIDE DEF n, t
<1>4. Good(n) BY <1>1, <1>2 DEF Good
<1>5. \A r \in Of(t) : t = TaskOf(r) /\ TaskOf(r) \notin Range(n) BY <1>1, <1>2 DEF Of
<1>6. Reqs(n) = Reqs(q) \ Of(t) BY <1>2, <1>5 DEF Reqs, Of
<1>7. Of(t) \subseteq Reqs(q) BY <1>2 DEF Reqs, Of
<1>8. Taken(q, n, t) BY <1>2, <1>4, <1>6, <1>7 DEF Taken
<1> QED BY <1>3, <1>8 DEF n, t

(* A cancellation erases the request's task, if it is there ... *)
LEMMA ErasesTask ==
  ASSUME NEW q, Good(q), NEW r \in Requests,
         \A t \in Range(q) : (t.type # "cancel" /\ t.id = r) => t = TaskOf(r)
  PROVE  LET n == WithoutTarget(q, r)
         IN  Good(n) /\ Reqs(n) = Reqs(q) \ {r} /\ Range(n) \subseteq Range(q)
<1> DEFINE n == WithoutTarget(q, r)
           e == TaskOf(r)
<1>1. q \in Seq(Task) /\ \A p \in Requests : ~Before(q, TaskOf(p), TaskOf(p)) BY DEF Good
<1>2. e \in Task /\ e.type # "cancel" /\ e.id = r /\ ~Before(q, e, e) BY <1>1, TaskFacts
<1>3. \A t \in Range(q) : (t.type # "cancel" /\ t.id = r) => t = e OBVIOUS
<1> HIDE DEF e
<1>4. /\ n \in Seq(Task) /\ Range(n) = Range(q) \ {e}
      /\ \A a, b : Before(n, a, b) => Before(q, a, b)
  BY <1>1, <1>2, <1>3, WithoutTargetOrder
<1> HIDE DEF n
<1>5. Good(n) BY <1>1, <1>4 DEF Good
<1>6. \A p \in Requests : TaskOf(p) = e <=> p = r BY <1>2, TaskFacts DEF e
<1>7. Reqs(n) = Reqs(q) \ {r} BY <1>4, <1>6 DEF Reqs
<1>8. Good(n) /\ Reqs(n) = Reqs(q) \ {r} /\ Range(n) \subseteq Range(q) BY <1>4, <1>5, <1>7
<1> QED BY <1>8, Zenon DEF n

(* ... and puts its CANCEL tasks in front. *)
LEMMA PushesCancels ==
  ASSUME NEW q, Good(q), NEW c \in Seq(Task), \A i \in 1..Len(c) : c[i].type = "cancel"
  PROVE  LET n == PushAllFront(c, q)
         IN  /\ Good(n) /\ Reqs(n) = Reqs(q)
             /\ \A t \in Range(n) : t \in Range(q) \/ \E i \in 1..Len(c) : t = c[i]
<1> DEFINE v == Reverse(c)
           n == v \o q
<1>1. q \in Seq(Task) /\ \A p \in Requests : ~Before(q, TaskOf(p), TaskOf(p)) BY DEF Good
<1>2. Len(c) \in Nat /\ \A i \in 1..Len(c) : c[i] \in Task BY ElementOfSeq, LenProperties
<1>3. v = [i \in 1..Len(c) |-> c[Len(c) - i + 1]] BY DEF Reverse
<1>4. v \in Seq(Task) /\ Len(v) = Len(c) /\ \A i \in 1..Len(c) : v[i] = c[Len(c) - i + 1]
  BY <1>2, <1>3
<1> HIDE DEF v
<1>5. Range(v) = {v[i] : i \in 1..Len(v)} BY <1>4, RangeIs
<1>6. \A t \in Range(v) : \E i \in 1..Len(c) : t = c[i]
  BY <1>2, <1>4, <1>5
<1>7. \A t \in Range(v) : t.type = "cancel" BY <1>6
<1>8. /\ n \in Seq(Task) /\ Range(n) = Range(v) \cup Range(q)
      /\ \A a, b : Before(n, a, b) <=> \/ Before(v, a, b) \/ Before(q, a, b)
                                       \/ a \in Range(v) /\ b \in Range(q)
  BY <1>1, <1>4, ConcatOrder
<1>9. \A a, b : Before(v, a, b) => a \in Range(v) BY <1>4, BeforeInRange
<1> HIDE DEF n
<1>10. \A p \in Requests : TaskOf(p) \notin Range(v) BY <1>7, TaskFacts
<1>11. ASSUME NEW p \in Requests PROVE ~Before(n, TaskOf(p), TaskOf(p))
  BY <1>1, <1>8, <1>9, <1>10
<1>12. Reqs(n) = Reqs(q) BY <1>8, <1>10 DEF Reqs
<1>13. Good(n) BY <1>8, <1>11 DEF Good
<1>14. \A t \in Range(n) : t \in Range(q) \/ \E i \in 1..Len(c) : t = c[i] BY <1>6, <1>8
<1> QED BY <1>12, <1>13, <1>14 DEF PushAllFront, n, v

(* Both deques after a release: a task moved from one to the other, at most. *)
Moved(q, d, q2, d2) ==
  /\ Good(q2) /\ Good(d2) /\ Reqs(q2) \cap Reqs(d2) = {}
  /\ Reqs(q2) \cup Reqs(d2) = Reqs(q) \cup Reqs(d)
  /\ Range(q2) \subseteq Range(q) \cup Range(d) /\ Range(d2) \subseteq Range(d)

LEMMA PopsFor ==
  ASSUME NEW q, NEW d, Good(q), Good(d), Reqs(q) \cap Reqs(d) = {}, NEW s,
         NEW p, p = PopFor([tasks |-> q, deferred |-> d], s)
  PROVE  Moved(q, d, p.tasks, p.deferred)
<1>1. CASE d = <<>>
  <2>1. p.tasks = q /\ p.deferred = d BY <1>1 DEF PopFor
  <2> QED BY <2>1 DEF Moved
<1>2. CASE d # <<>>
  <2> DEFINE i == DeferredPick(d, s)
             t == d[i]
             q2 == <<t>> \o q
             d2 == RemoveAt(d, i)
  <2>1. p.tasks = q2 /\ p.deferred = d2 BY <1>2 DEF PopFor
  <2>2. d \in Seq(Task) BY DEF Good
  <2>3. i \in 1..Len(d) BY <1>2, <2>2, DeferredPickInDomain
  <2> HIDE DEF i
  <2>4. Taken(d, d2, t) /\ t \in Task BY <2>3, TakesAt
  <2> HIDE DEF t, d2
  <2>5. Of(t) \subseteq Reqs(d) BY <2>4 DEF Taken
  <2>6. Added(q, q2, t) BY <2>4, <2>5, AddsFront
  <2> HIDE DEF q2
  <2>7. Moved(q, d, q2, d2) BY <2>4, <2>6 DEF Moved, Taken, Added
  <2> QED BY <2>1, <2>7
<1> QED BY <1>1, <1>2

-----------------------------------------------------------------------------
(* Where the tasks are, after a step. *)

(* Clients only move on. *)
Onward ==
  \A r \in Requests : /\ client[r] = "done" => client'[r] = "done"
                      /\ client'[r] = "new" => client[r] = "new"
MadeNext(t) ==
  \/ t = NextResponse
  \/ \E r \in Requests : t = TaskOf(r)
  \/ \E r \in Requests : client'[r] = "done" /\ \E id \in IdsOf(r) : t = CancelOf(id)

LEMMA StaysMade == ASSUME Onward PROVE \A t : Made(t) => MadeNext(t)
BY DEF Onward, Made, MadeNext

(* The parts of the invariant, in the next state. *)
LEMMA QueueInvNext ==
  ASSUME \A t \in Range(queue_tasks') : MadeNext(t),
         phase' \in Holding => MadeNext(hand'[1]),
         \A t \in Range(queue_tasks_deferred') : Of(t) # {},
         Good(queue_tasks'), Good(queue_tasks_deferred'),
         Reqs(queue_tasks') \cap Reqs(queue_tasks_deferred') = {},
         Held' \cap (Reqs(queue_tasks') \cup Reqs(queue_tasks_deferred')) = {},
         \A r \in Reqs(queue_tasks') \cup Reqs(queue_tasks_deferred') \cup Held' :
           client'[r] # "new"
  PROVE  QueueInv'
<1>1. Origins' BY DEF Origins, Made, MadeNext, Of, TaskOf, CancelOf, NextResponse
<1>2. Lines' BY DEF Lines, Good, Queued, Deferred, Reqs, Of
<1> QED BY <1>1, <1>2 DEF QueueInv

(* The task in hand stays there, or is dropped. *)
Hands == phase' \notin Holding \/ (phase \in Holding /\ hand' = hand)
HeldNext == IF phase' \in Holding THEN Held ELSE {}

LEMMA HandsKeep ==
  ASSUME Hands, Origins, Onward
  PROVE  Held' = HeldNext /\ (phase' \in Holding => MadeNext(hand'[1]))
<1>1. Held' = HeldNext BY DEF Hands, Held, HeldNext, Of, TaskOf
<1>2. ASSUME phase' \in Holding PROVE MadeNext(hand'[1])
  <2>1. phase \in Holding /\ hand' = hand BY <1>2 DEF Hands
  <2>2. Made(hand[1]) BY <2>1 DEF Origins
  <2>3. MadeNext(hand[1]) BY <2>2, StaysMade
  <2> QED BY <2>1, <2>3
<1> QED BY <1>1, <1>2

(* The requests of the three places, after a step. *)
Requeued(q, d, h) == Queued' = q /\ Deferred' = d /\ Held' = h

LEMMA RequeuedIs ==
  /\ Queued' = Reqs(queue_tasks') /\ Deferred' = Reqs(queue_tasks_deferred')
BY DEF Queued, Deferred, Reqs, TaskOf

LEMMA QueueSame ==
  ASSUME QueueInv, UNCHANGED queue, Hands, Onward
  PROVE  QueueInv' /\ Requeued(Queued, Deferred, HeldNext)
<1>1. queue_tasks' = queue_tasks /\ queue_tasks_deferred' = queue_tasks_deferred BY DEF queue
<1>2. Held' = HeldNext /\ (phase' \in Holding => MadeNext(hand'[1]))
  BY HandsKeep DEF QueueInv
<1>3. HeldNext \subseteq Held BY DEF HeldNext
<1>4. \A t \in Range(queue_tasks) : MadeNext(t) BY StaysMade DEF QueueInv, Origins
<1>5. \A r \in Queued \cup Deferred \cup Held : client'[r] # "new"
  BY DEF QueueInv, Lines, Onward, Queued, Deferred, Reqs, Held, Of
<1>6. QueueInv'
  BY <1>1, <1>2, <1>3, <1>4, <1>5, QueueInvNext DEF QueueInv, Lines, Origins, Queued, Deferred
<1> QED BY <1>1, <1>2, <1>6, RequeuedIs DEF Requeued, Queued, Deferred

(* A task that is no request's, or a new request's, goes behind the queue. *)
LEMMA QueueJoined ==
  ASSUME QueueInv, Hands, Onward, NEW t \in Task, MadeNext(t),
         Of(t) \cap (Queued \cup Deferred \cup Held) = {}, \A r \in Of(t) : client'[r] # "new",
         queue_tasks' = Append(queue_tasks, t), queue_tasks_deferred' = queue_tasks_deferred
  PROVE  QueueInv' /\ Requeued(Queued \cup Of(t), Deferred, HeldNext)
<1> DEFINE q2 == Append(queue_tasks, t)
<1>1. Added(queue_tasks, q2, t) BY AddsBack DEF QueueInv, Lines, Queued
<1>2. Held' = HeldNext /\ (phase' \in Holding => MadeNext(hand'[1]))
  BY HandsKeep DEF QueueInv
<1>3. HeldNext \subseteq Held BY DEF HeldNext
<1>4. queue_tasks' = q2 OBVIOUS
<1> HIDE DEF q2
<1>5. Good(q2) /\ Reqs(q2) = Queued \cup Of(t) /\ Range(q2) = Range(queue_tasks) \cup {t}
  BY <1>1 DEF Added, Queued
<1>6. \A u \in Range(q2) : MadeNext(u) BY <1>5, StaysMade DEF QueueInv, Origins
<1>7. \A r \in Queued \cup Deferred \cup Held : client'[r] # "new"
  BY DEF QueueInv, Lines, Onward, Queued, Deferred, Reqs, Held, Of
<1>8. /\ Reqs(queue_tasks') \cap Reqs(queue_tasks_deferred') = {}
      /\ Held' \cap (Reqs(queue_tasks') \cup Reqs(queue_tasks_deferred')) = {}
      /\ \A r \in Reqs(queue_tasks') \cup Reqs(queue_tasks_deferred') \cup Held' :
           client'[r] # "new"
  BY <1>2, <1>3, <1>4, <1>5, <1>7 DEF QueueInv, Lines, Deferred
<1>9. Good(queue_tasks_deferred) /\ \A u \in Range(queue_tasks_deferred) : Of(u) # {}
  BY DEF QueueInv, Lines, Origins
<1>10. QueueInv'
  BY <1>2, <1>4, <1>5, <1>6, <1>8, <1>9, QueueInvNext
<1> QED BY <1>2, <1>4, <1>5, <1>10, RequeuedIs DEF Requeued, Deferred

(* A release moves a task to the front of the queue, at most. *)
LEMMA QueueReleased ==
  ASSUME QueueInv, Hands, Onward, NEW s,
         queue_tasks' = QueueAfterRelease(s).tasks,
         queue_tasks_deferred' = QueueAfterRelease(s).deferred
  PROVE  /\ QueueInv' /\ Queued' \cup Deferred' = Queued \cup Deferred /\ Held' = HeldNext
<1> DEFINE p == QueueAfterRelease(s)
<1>1. p = PopFor([tasks |-> queue_tasks, deferred |-> queue_tasks_deferred], s)
  BY DEF QueueAfterRelease
<1>2. queue_tasks' = p.tasks /\ queue_tasks_deferred' = p.deferred OBVIOUS
<1> HIDE DEF p
<1>3. Good(queue_tasks) /\ Good(queue_tasks_deferred)
      /\ Reqs(queue_tasks) \cap Reqs(queue_tasks_deferred) = {}
  BY DEF QueueInv, Lines, Queued, Deferred
<1>4. Moved(queue_tasks, queue_tasks_deferred, queue_tasks', queue_tasks_deferred')
  BY <1>1, <1>2, <1>3, PopsFor
<1>5. Held' = HeldNext /\ (phase' \in Holding => MadeNext(hand'[1]))
  BY HandsKeep DEF QueueInv
<1>6. HeldNext \subseteq Held BY DEF HeldNext
<1>7. \A t \in Range(queue_tasks_deferred) : Made(t)
  BY DEF QueueInv, Origins, Of, Made
<1>8. \A t \in Range(queue_tasks') : MadeNext(t)
  BY <1>4, <1>7, StaysMade DEF QueueInv, Origins, Moved
<1>9. \A r \in Queued \cup Deferred \cup Held : client'[r] # "new"
  BY DEF QueueInv, Lines, Onward, Queued, Deferred, Reqs, Held, Of
<1>10. Reqs(queue_tasks') \cup Reqs(queue_tasks_deferred') = Queued \cup Deferred
  BY <1>4 DEF Moved, Queued, Deferred
<1>11. /\ Held' \cap (Reqs(queue_tasks') \cup Reqs(queue_tasks_deferred')) = {}
       /\ \A r \in Reqs(queue_tasks') \cup Reqs(queue_tasks_deferred') \cup Held' :
            client'[r] # "new"
  BY <1>5, <1>6, <1>9, <1>10 DEF QueueInv, Lines
<1>12. \A t \in Range(queue_tasks_deferred') : Of(t) # {}
  BY <1>4 DEF Moved, QueueInv, Origins
<1>13. QueueInv'
  BY <1>4, <1>5, <1>8, <1>11, <1>12, QueueInvNext DEF Moved
<1> QED BY <1>5, <1>10, <1>13, RequeuedIs

LEMMA InHand ==
  ASSUME TypeOK, phase \in Holding
  PROVE  hand[1] \in Task
<1>1. hand \in Seq(Task) /\ Len(hand) = 1 BY DEF TypeOK
<1> QED BY <1>1, ElementOfSeq

LEMMA QueuePopped ==
  ASSUME TypeOK, QueueInv, Onward, phase \notin Holding, queue_tasks # <<>>,
         hand' = <<Head(queue_tasks)>>, queue_tasks' = Tail(queue_tasks),
         phase' = "callback", queue_tasks_deferred' = queue_tasks_deferred
  PROVE  QueueInv' /\ Placed' = Placed
<1> DEFINE t == Head(queue_tasks)
           q2 == Tail(queue_tasks)
<1>1. Taken(queue_tasks, q2, t) /\ t \in Task BY TakesHead DEF QueueInv, Lines
<1>2. hand'[1] = t /\ queue_tasks' = q2 OBVIOUS
<1> HIDE DEF t, q2
<1>3. /\ Good(q2) /\ Reqs(q2) = Queued \ Of(t) /\ Of(t) \subseteq Queued
      /\ Range(q2) \subseteq Range(queue_tasks) /\ t \in Range(queue_tasks)
  BY <1>1 DEF Taken, Queued
<1>4. phase' \in Holding BY DEF Holding
<1>5. Held' = Of(t) BY <1>2, <1>4 DEF Held, Of, TaskOf
<1>6. /\ \A u \in Range(q2) : MadeNext(u)
      /\ MadeNext(t)
  BY <1>3, StaysMade DEF QueueInv, Origins
<1>7. \A r \in Queued \cup Deferred \cup Held : client'[r] # "new"
  BY DEF QueueInv, Lines, Onward, Queued, Deferred, Reqs, Held, Of
<1>8. /\ Reqs(queue_tasks') \cap Reqs(queue_tasks_deferred') = {}
      /\ Held' \cap (Reqs(queue_tasks') \cup Reqs(queue_tasks_deferred')) = {}
      /\ \A r \in Reqs(queue_tasks') \cup Reqs(queue_tasks_deferred') \cup Held' :
           client'[r] # "new"
  BY <1>2, <1>3, <1>5, <1>7 DEF QueueInv, Lines, Deferred
<1>9. Good(queue_tasks_deferred) /\ \A u \in Range(queue_tasks_deferred) : Of(u) # {}
  BY DEF QueueInv, Lines, Origins
<1>10. QueueInv'
  BY <1>2, <1>3, <1>6, <1>8, <1>9, QueueInvNext
<1>11. Queued' = Queued \ Of(t) /\ Deferred' = Deferred BY <1>2, <1>3, RequeuedIs DEF Deferred
<1>12. Placed' = Queued' \cup Deferred' \cup Held' BY DEF Placed
<1>13. Placed = Queued \cup Deferred BY DEF Placed, Holding
<1> QED BY <1>3, <1>5, <1>10, <1>11, <1>12, <1>13

LEMMA QueueDeferred ==
  ASSUME TypeOK, QueueInv, Onward, phase = "callback", Of(hand[1]) # {},
         Defer(hand[1]), phase' = "pop"
  PROVE  QueueInv' /\ Placed' = Placed
<1> DEFINE t == hand[1]
           d2 == Append(queue_tasks_deferred, t)
<1>1. phase \in Holding /\ phase' \notin Holding BY DEF Holding
<1>2. t \in Task BY <1>1, InHand
<1>3. Held = Of(t) BY <1>1 DEF Held
<1>4. queue_tasks_deferred' = d2 /\ queue_tasks' = queue_tasks BY DEF Defer
<1>5. Added(queue_tasks_deferred, d2, t)
  BY <1>2, <1>3, AddsBack DEF QueueInv, Lines, Deferred
<1>6. Of(t) # {} OBVIOUS
<1> HIDE DEF t, d2
<1>7. /\ Good(d2) /\ Reqs(d2) = Deferred \cup Held
      /\ Range(d2) = Range(queue_tasks_deferred) \cup {t}
  BY <1>3, <1>5 DEF Added, Deferred
<1>8. Held' = {} BY <1>1 DEF Held
<1>9. \A u \in Range(queue_tasks) : MadeNext(u) BY StaysMade DEF QueueInv, Origins
<1>10. \A r \in Queued \cup Deferred \cup Held : client'[r] # "new"
  BY DEF QueueInv, Lines, Onward, Queued, Deferred, Reqs, Held, Of
<1>11. /\ Reqs(queue_tasks') \cap Reqs(queue_tasks_deferred') = {}
       /\ Held' \cap (Reqs(queue_tasks') \cup Reqs(queue_tasks_deferred')) = {}
       /\ \A r \in Reqs(queue_tasks') \cup Reqs(queue_tasks_deferred') \cup Held' :
            client'[r] # "new"
  BY <1>4, <1>7, <1>8, <1>10 DEF QueueInv, Lines, Queued
<1>12. \A u \in Range(d2) : Of(u) # {} BY <1>6, <1>7 DEF QueueInv, Origins
<1>13. QueueInv'
  BY <1>1, <1>4, <1>7, <1>9, <1>11, <1>12, QueueInvNext DEF QueueInv, Lines
<1>14. Queued' = Queued /\ Deferred' = Deferred \cup Held
  BY <1>4, <1>7, RequeuedIs DEF Queued
<1>15. Placed' = Queued' \cup Deferred' BY <1>8 DEF Placed
<1>16. Placed = Queued \cup Deferred \cup Held BY DEF Placed
<1> QED BY <1>13, <1>14, <1>15, <1>16

(* stop() erases the request's task and puts CANCEL tasks in front. *)
LEMMA QueueStopped ==
  ASSUME TypeOK, QueueInv, Hands, phase' = phase, NEW r \in Requests, Stop(r)
  PROVE  /\ QueueInv' /\ Onward
         /\ Queued' = Queued \ {r} /\ Deferred' = Deferred \ {r} /\ Held' = Held
<1>1. client[r] = "waiting" /\ client' = [client EXCEPT ![r] = "done"] BY DEF Stop
<1>2. client \in [Requests -> {"new", "waiting", "done"}] BY DEF TypeOK
<1>3. Onward /\ client'[r] = "done" BY <1>1, <1>2 DEF Onward
<1> DEFINE q1 == WithoutTarget(queue_tasks, r)
           d1 == WithoutTarget(queue_tasks_deferred, r)
<1>4. \A t : Made(t) => ((t.type # "cancel" /\ t.id = r) => t = TaskOf(r))
  <2>1. ASSUME NEW t, Made(t), t.type # "cancel", t.id = r PROVE t = TaskOf(r)
    <3>1. NextResponse.id # r BY TaskFacts, RequestsAssumption DEF Ids
    <3>2. \A p \in Requests : \A id \in IdsOf(p) : CancelOf(id).type = "cancel"
      BY TaskFacts, Owners
    <3>3. \A p \in Requests : TaskOf(p).id = p BY TaskFacts
    <3> QED BY <2>1, <3>1, <3>2, <3>3 DEF Made
  <2> QED BY <2>1
<1>5. Good(queue_tasks) /\ Good(queue_tasks_deferred) BY DEF QueueInv, Lines
<1>6. \A t \in Range(queue_tasks) : (t.type # "cancel" /\ t.id = r) => t = TaskOf(r)
  BY <1>4 DEF QueueInv, Origins
<1>7. \A t \in Range(queue_tasks_deferred) : (t.type # "cancel" /\ t.id = r) => t = TaskOf(r)
  BY <1>4 DEF QueueInv, Origins, Of, Made
<1>8. Good(q1) /\ Reqs(q1) = Reqs(queue_tasks) \ {r} /\ Range(q1) \subseteq Range(queue_tasks)
  BY <1>5, <1>6, ErasesTask
<1>9. /\ Good(d1) /\ Reqs(d1) = Reqs(queue_tasks_deferred) \ {r}
      /\ Range(d1) \subseteq Range(queue_tasks_deferred)
  BY <1>5, <1>7, ErasesTask
<1>10. PICK order \in SetToSeqs(IdsOf(r)) :
         queue_tasks' = PushAllFront([i \in DOMAIN order |-> CancelOf(order[i])], q1)
  BY DEF Stop
<1>11. queue_tasks_deferred' = d1 BY DEF Stop
<1> HIDE DEF q1, d1
<1> DEFINE c == [i \in DOMAIN order |-> CancelOf(order[i])]
<1>12. c \in Seq(Task) /\ \A i \in 1..Len(c) :
         \E id \in IdsOf(r) : c[i] = CancelOf(id) /\ c[i].type = "cancel"
  <2>1. IsFiniteSet(IdsOf(r))
    <3>1. ChildrenOf[r] \in Seq(ChildIds) BY RequestsAssumption
    <3> DEFINE f == ChildrenOf[r]
    <3>2. f \in Surjection(1..Len(f), Range(f)) BY <3>1 DEF Surjection, Range
    <3>3. IsFiniteSet(1..Len(f)) BY <3>1, FS_Interval, LenProperties
    <3>4. IsFiniteSet(Range(f)) BY <3>2, <3>3, FS_Surjection
    <3> QED BY <3>4, FS_Singleton, FS_Union DEF IdsOf
  <2>2. Cardinality(IdsOf(r)) \in Nat BY <2>1, FS_CardinalityType
  <2>3. order \in [1..Cardinality(IdsOf(r)) -> IdsOf(r)] BY DEF SetToSeqs
  <2> HIDE DEF c
  <2>4. c \in [1..Cardinality(IdsOf(r)) -> Task]
        /\ \A i \in 1..Cardinality(IdsOf(r)) : c[i] = CancelOf(order[i])
    BY <2>3, TaskFacts, Owners DEF c
  <2>5. c \in Seq(Task) /\ Len(c) = Cardinality(IdsOf(r)) BY <2>2, <2>4
  <2>6. ASSUME NEW i \in 1..Len(c)
        PROVE  \E id \in IdsOf(r) : c[i] = CancelOf(id) /\ c[i].type = "cancel"
    BY <2>3, <2>4, <2>5, TaskFacts, Owners
  <2> QED BY <2>5, <2>6
<1> DEFINE q2 == PushAllFront(c, q1)
<1>13. queue_tasks' = q2 BY <1>10
<1> HIDE DEF c
<1>14. /\ Good(q2) /\ Reqs(q2) = Reqs(q1)
       /\ \A t \in Range(q2) : t \in Range(q1) \/ \E i \in 1..Len(c) : t = c[i]
  BY <1>8, <1>12, PushesCancels
<1> HIDE DEF q2
<1>15. \A t \in Range(q1) : MadeNext(t) BY <1>3, <1>8, StaysMade DEF QueueInv, Origins
<1>16. \A i \in 1..Len(c) : MadeNext(c[i]) BY <1>3, <1>12 DEF MadeNext
<1>17. \A t \in Range(q2) : MadeNext(t) BY <1>14, <1>15, <1>16
<1>18. Held' = HeldNext /\ (phase' \in Holding => MadeNext(hand'[1]))
  BY <1>3, HandsKeep DEF QueueInv
<1>19. HeldNext = Held BY DEF HeldNext, Held
<1>20. \A p \in Queued \cup Deferred \cup Held : client'[p] # "new"
  BY <1>3 DEF QueueInv, Lines, Onward, Queued, Deferred, Reqs, Held, Of
<1>21. Reqs(queue_tasks') = Queued \ {r} /\ Reqs(queue_tasks_deferred') = Deferred \ {r}
  BY <1>8, <1>9, <1>11, <1>13, <1>14 DEF Queued, Deferred
<1>22. /\ Reqs(queue_tasks') \cap Reqs(queue_tasks_deferred') = {}
       /\ Held' \cap (Reqs(queue_tasks') \cup Reqs(queue_tasks_deferred')) = {}
       /\ \A p \in Reqs(queue_tasks') \cup Reqs(queue_tasks_deferred') \cup Held' :
            client'[p] # "new"
  BY <1>18, <1>19, <1>20, <1>21 DEF QueueInv, Lines
<1>23. Good(queue_tasks') /\ Good(queue_tasks_deferred')
       /\ \A t \in Range(queue_tasks_deferred') : Of(t) # {}
  BY <1>9, <1>11, <1>13, <1>14 DEF QueueInv, Origins
<1>24. \A t \in Range(queue_tasks') : MadeNext(t) BY <1>13, <1>17
<1>25. QueueInv' BY <1>18, <1>22, <1>23, <1>24, QueueInvNext
<1> QED BY <1>3, <1>18, <1>19, <1>21, <1>25, RequeuedIs

-----------------------------------------------------------------------------
(* What the slots hold. *)

(* The request of a slot's task. *)
LEMMA SlotOwner ==
  ASSUME SlotTasks, NEW s \in Slots, slot[s].task # NoTask
  PROVE  /\ RequestOf(slot[s].task) \in Requests /\ slot[s].task \in IdsOf(RequestOf(slot[s].task))
         /\ slot[s].task \in Requests => RequestOf(slot[s].task) = slot[s].task
<1>1. PICK r \in Requests : slot[s].task \in IdsOf(r) BY DEF SlotTasks, Owned
<1>2. RequestOf(slot[s].task) = r BY <1>1, Owners
<1>3. slot[s].task \in Requests => slot[s].task = r BY <1>1, Owners
<1> QED BY <1>1, <1>2, <1>3

(* Nothing changes on the slots; tasks may be posted, moved or ended. *)
Steady ==
  /\ slot' = slot /\ Ended \subseteq Ended' /\ errored \subseteq errored' /\ cancelled \subseteq cancelled'
  /\ phase' = "undo" => phase = "undo" /\ hand' = hand
  /\ phase \in Aborting => phase' \in Aborting \/ IdleSlots = Slots
Steps(r) ==
  /\ client'[r] = "new" => client[r] = "new"
  /\ client'[r] = "waiting" => client[r] = "waiting" \/ (client[r] = "new" /\ r \in Placed')
  /\ r \in Placed' => r \in Placed \/ client[r] = "new"
  /\ client'[r] = "waiting" /\ r \in Placed => r \in Placed' \/ r \in Ended'
  /\ r \in Ended' => r \in Ended \/ (r \in Placed /\ r \notin Placed' /\ client'[r] # "new")

LEMMA BoardStays ==
  ASSUME TypeOK, Board, Steady, \A r \in Requests : Steps(r)
  PROVE  Board'
<1>1. /\ slot' = slot /\ \A id : SlotOf(id)' = SlotOf(id)
  BY DEF Steady, SlotOf
<1>2. SlotTasks' BY <1>1 DEF Board, SlotTasks, Owned, IdsOf
<1>3. \A r \in Requests : SlotOf(r) # {} => r \notin Placed /\ client[r] # "new" /\ r \notin Ended
  BY Owners DEF Board, Places
<1>4. Places'
  <2>1. ASSUME NEW r \in Requests, client'[r] = "new" \/ r \in Placed'
        PROVE  (\A id \in IdsOf(r) : SlotOf(id)' = {}) /\ r \notin Ended'
    BY <1>1, <2>1 DEF Board, Places, Steps
  <2>2. ASSUME phase' = "undo"
        PROVE  \E r \in Requests : hand'[1] = TaskOf(r) /\ SlotOf(r)' = {}
    BY <1>1, <2>2 DEF Board, Places, Steady
  <2>3. ASSUME NEW r \in Requests, SlotOf(r)' # {} PROVE r \notin Ended'
    BY <1>1, <1>3, <2>3 DEF Steps
  <2> QED BY <2>1, <2>2, <2>3 DEF Places, IdsOf, TaskOf
<1>5. Kept'
  <2>1. ASSUME NEW r \in Requests, client'[r] = "waiting"
        PROVE  r \in Placed' \cup Ended' \/ SlotOf(r)' # {} \/ IdsOf(r) \cap errored' # {}
    BY <1>1, <2>1 DEF Board, Kept, Steps, Steady
  <2> QED BY <2>1 DEF Kept, IdsOf
<1>6. NoStrandedChild'
  <2>1. ASSUME NEW s \in Slots, slot[s].state = "WAIT_OTHER"
        PROVE  LET r == RequestOf(slot[s].task)
               IN  client'[r] = "waiting" =>
                     (\E p \in SlotOf(r) : slot[p].state = "STARTED") \/ IdsOf(r) \cap errored' # {}
    <3> DEFINE r == RequestOf(slot[s].task)
    <3>1. slot[s].task # NoTask BY <2>1 DEF TypeOK
    <3>2. r \in Requests /\ slot[s].task \in IdsOf(r) /\ s \in SlotOf(slot[s].task)
      BY <3>1, SlotOwner DEF Board, SlotOf
    <3>3. client[r] = "waiting" =>
            (\E p \in SlotOf(r) : slot[p].state = "STARTED") \/ IdsOf(r) \cap errored # {}
      BY <2>1 DEF Board, NoStrandedChild
    <3>4. client[r] # "new" BY <3>2 DEF Board, Places
    <3> HIDE DEF r
    <3>5. client'[r] = "waiting" => client[r] = "waiting" BY <3>2, <3>4 DEF Steps
    <3>6. client'[r] = "waiting" =>
            (\E p \in SlotOf(r) : slot[p].state = "STARTED") \/ IdsOf(r) \cap errored' # {}
      BY <3>3, <3>5 DEF Steady
    <3> QED BY <3>6 DEF r
  <2> QED BY <1>1, <2>1 DEF NoStrandedChild, RequestOf, IdsOf, SlotOf
<1>7. ChildrenHoldSlots'
  <2>1. ASSUME NEW s \in Slots, slot[s].state = "STARTED", phase' \notin Aborting,
               NEW c \in Range(ChildrenOf[slot[s].task])
        PROVE  (\E i \in SlotOf(c) : slot[i].state = "WAIT_OTHER") \/ c \in cancelled'
    <3>1. phase \notin Aborting BY <2>1 DEF Steady, IdleSlots, Processing
    <3> QED BY <2>1, <3>1 DEF Board, ChildrenHoldSlots, Steady
  <2> QED BY <1>1, <2>1 DEF ChildrenHoldSlots, SlotOf
<1> QED BY <1>2, <1>4, <1>5, <1>6, <1>7 DEF Board

(* A release: why the slot may be given up. *)
MayRelease(s) ==
  LET t == slot[s].task
  IN  /\ slot[s].state # "IDLE" /\ slot' = SlotsAfterRelease(s) /\ client' = client
      /\ Placed' = Placed
      /\ Ended \subseteq Ended' /\ Ended' \subseteq Ended \cup {t}
      /\ errored \subseteq errored' /\ cancelled \subseteq cancelled'
      /\ t \in Requests => t \in Ended' \/ client[t] = "done"
      /\ slot[s].state = "STARTED" => t \in errored' \/ client[t] = "done"
      /\ \/ phase' \in Aborting \/ slot[s].state # "WAIT_OTHER" \/ t \in cancelled'
         \/ \A r \in Requests : t \in IdsOf(r) => SlotOf(r) = {}
      /\ phase' = "undo" => phase = "undo" /\ hand' = hand
      /\ phase \in Aborting => phase' \in Aborting

LEMMA SlotFreed ==
  ASSUME TypeOK, NEW s \in Slots, slot' = SlotsAfterRelease(s)
  PROVE  /\ slot'[s] = IdleSlot /\ \A i \in Slots \ {s} : slot'[i] = slot[i]
         /\ \A id \in Ids : SlotOf(id)' = SlotOf(id) \ {s}
<1>1. slot'[s] = IdleSlot /\ \A i \in Slots \ {s} : slot'[i] = slot[i]
  BY DEF TypeOK, SlotsAfterRelease
<1>2. IdleSlot.task \notin Ids BY RequestsAssumption DEF IdleSlot
<1>3. ASSUME NEW id \in Ids PROVE SlotOf(id)' = SlotOf(id) \ {s}
  BY <1>1, <1>2 DEF SlotOf
<1> QED BY <1>1, <1>3

LEMMA BoardReleased ==
  ASSUME TypeOK, Board, NEW s \in Slots, MayRelease(s)
  PROVE  Board'
<1> DEFINE t == slot[s].task
<1>0. /\ slot[s].state # "IDLE" /\ slot' = SlotsAfterRelease(s) /\ client' = client
      /\ Placed' = Placed
      /\ Ended \subseteq Ended' /\ Ended' \subseteq Ended \cup {t}
      /\ errored \subseteq errored' /\ cancelled \subseteq cancelled'
      /\ t \in Requests => t \in Ended' \/ client[t] = "done"
      /\ slot[s].state = "STARTED" => t \in errored' \/ client[t] = "done"
      /\ phase' = "undo" => phase = "undo" /\ hand' = hand
      /\ phase \in Aborting => phase' \in Aborting
  BY DEF MayRelease
<1>1. /\ slot'[s] = IdleSlot /\ \A i \in Slots \ {s} : slot'[i] = slot[i]
      /\ \A id \in Ids : SlotOf(id)' = SlotOf(id) \ {s}
  BY <1>0, SlotFreed
<1>2. t # NoTask /\ \A i \in Slots : slot[i].task = t => i = s
  BY <1>0 DEF TypeOK, Board, SlotTasks
<1>3. IdleSlot.state = "IDLE" /\ IdleSlot.task = NoTask BY DEF IdleSlot
<1>4. SlotTasks'
  <2>1. ASSUME NEW a \in Slots, NEW b \in Slots, slot'[a].task = slot'[b].task,
               slot'[a].task # NoTask
        PROVE  a = b
    BY <1>1, <1>3, <2>1 DEF Board, SlotTasks
  <2>2. ASSUME NEW a \in Slots
        PROVE  /\ slot'[a].task \in Owned \cup {NoTask}
               /\ slot'[a].state = "STARTED" => slot'[a].task \in Requests
               /\ slot'[a].state = "WAIT_OTHER" => slot'[a].task \in ChildIds
    BY <1>1, <1>3 DEF Board, SlotTasks
  <2> QED BY <2>1, <2>2 DEF SlotTasks, Owned, IdsOf
<1>5. \A r \in Requests : r \in Ids /\ SlotOf(r)' = SlotOf(r) \ {s}
  BY <1>1 DEF Ids
<1>6. \A r \in Requests : \A id \in IdsOf(r) : id \in Ids /\ SlotOf(id)' = SlotOf(id) \ {s}
  BY <1>1, Owners
<1>7. s \in SlotOf(t) /\ \A i \in SlotOf(t) : i = s BY <1>2 DEF SlotOf
<1>8. Places'
  <2>1. ASSUME NEW r \in Requests, client'[r] = "new" \/ r \in Placed'
        PROVE  (\A id \in IdsOf(r) : SlotOf(id)' = {}) /\ r \notin Ended'
    <3>1. (\A id \in IdsOf(r) : SlotOf(id) = {}) /\ r \notin Ended
      BY <1>0, <2>1 DEF Board, Places
    <3>2. r # t BY <1>7, <3>1, Owners
    <3> QED BY <1>0, <1>6, <3>1, <3>2
  <2>2. ASSUME phase' = "undo"
        PROVE  \E r \in Requests : hand'[1] = TaskOf(r) /\ SlotOf(r)' = {}
    BY <1>0, <1>5, <2>2 DEF Board, Places
  <2>3. ASSUME NEW r \in Requests, SlotOf(r)' # {} PROVE r \notin Ended'
    <3>1. r # t BY <1>5, <1>7, <2>3
    <3>2. SlotOf(r) # {} BY <1>5, <2>3
    <3> QED BY <1>0, <3>1, <3>2 DEF Board, Places
  <2> QED BY <2>1, <2>2, <2>3 DEF Places, IdsOf, TaskOf
<1>9. Kept'
  <2>1. ASSUME NEW r \in Requests, client'[r] = "waiting"
        PROVE  r \in Placed' \cup Ended' \/ SlotOf(r)' # {} \/ IdsOf(r) \cap errored' # {}
    <3>1. r \in Placed \cup Ended \/ SlotOf(r) # {} \/ IdsOf(r) \cap errored # {}
      BY <1>0, <2>1 DEF Board, Kept
    <3>2. CASE SlotOf(r) # {} /\ r # t
      <4>1. s \notin SlotOf(r) BY <3>2 DEF SlotOf
      <4> QED BY <1>5, <3>2, <4>1
    <3>3. CASE r = t
      BY <1>0, <2>1, <3>3
    <3> QED BY <1>0, <3>1, <3>2, <3>3
  <2> QED BY <2>1 DEF Kept, IdsOf
<1>10. NoStrandedChild'
  <2>1. ASSUME NEW i \in Slots, slot'[i].state = "WAIT_OTHER",
               NEW r, r = RequestOf(slot'[i].task), client'[r] = "waiting"
        PROVE  \/ \E p \in SlotOf(r)' : slot'[p].state = "STARTED"
               \/ IdsOf(r) \cap errored' # {}
    <3>1. i # s /\ slot'[i] = slot[i] BY <1>1, <1>3, <2>1
    <3>2. slot[i].task # NoTask BY <2>1, <3>1 DEF TypeOK
    <3>3. r \in Requests BY <2>1, <3>1, <3>2, SlotOwner DEF Board
    <3>4. (\E p \in SlotOf(r) : slot[p].state = "STARTED") \/ IdsOf(r) \cap errored # {}
      BY <1>0, <2>1, <3>1 DEF Board, NoStrandedChild
    <3>5. CASE IdsOf(r) \cap errored # {} BY <1>0, <3>5
    <3>6. ASSUME NEW p \in SlotOf(r), slot[p].state = "STARTED"
          PROVE  \/ \E q \in SlotOf(r)' : slot'[q].state = "STARTED"
                 \/ IdsOf(r) \cap errored' # {}
      <4>1. p \in Slots /\ slot[p].task = r BY DEF SlotOf
      <4>2. CASE p = s
        BY <1>0, <2>1, <3>3, <3>6, <4>1, <4>2, Owners
      <4>3. CASE p # s
        <5>1. p \in SlotOf(r)' /\ slot'[p] = slot[p] BY <1>1, <1>5, <3>3, <4>1, <4>3
        <5> QED BY <3>6, <5>1
      <4> QED BY <4>2, <4>3
    <3> QED BY <3>4, <3>5, <3>6
  <2> QED BY <2>1 DEF NoStrandedChild, RequestOf, IdsOf
<1>11. ChildrenHoldSlots'
  <2>1. ASSUME NEW p \in Slots, slot'[p].state = "STARTED", phase' \notin Aborting,
               NEW c \in Range(ChildrenOf[slot'[p].task])
        PROVE  (\E i \in SlotOf(c)' : slot'[i].state = "WAIT_OTHER") \/ c \in cancelled'
    <3>1. p # s /\ slot'[p] = slot[p] BY <1>1, <1>3, <2>1
    <3>2. slot[p].task \in Requests BY <2>1, <3>1 DEF Board, SlotTasks
    <3>3. c \in Range(ChildrenOf[slot[p].task]) BY <3>1
    <3>4. c \in IdsOf(slot[p].task) /\ c \in Ids BY <3>2, <3>3, Owners DEF IdsOf
    <3>5. phase \notin Aborting BY <1>0, <2>1
    <3>6. (\E i \in SlotOf(c) : slot[i].state = "WAIT_OTHER") \/ c \in cancelled
      BY <2>1, <3>1, <3>3, <3>5 DEF Board, ChildrenHoldSlots
    <3>7. ASSUME NEW i \in SlotOf(c), slot[i].state = "WAIT_OTHER"
          PROVE  (\E j \in SlotOf(c)' : slot'[j].state = "WAIT_OTHER") \/ c \in cancelled'
      <4>1. i \in Slots /\ slot[i].task = c BY DEF SlotOf
      <4>2. CASE i = s
        <5>1. p \in SlotOf(slot[p].task) BY DEF SlotOf
        <5>2. t = c /\ c \in IdsOf(slot[p].task) BY <3>4, <4>1, <4>2
        <5> QED BY <2>1, <3>2, <3>7, <4>2, <5>1, <5>2 DEF MayRelease
      <4>3. CASE i # s
        BY <1>1, <3>4, <3>7, <4>1, <4>3
      <4> QED BY <4>2, <4>3
    <3> QED BY <1>0, <3>6, <3>7
  <2> QED BY <2>1 DEF ChildrenHoldSlots
<1> QED BY <1>4, <1>8, <1>9, <1>10, <1>11 DEF Board

(* A launch: children on the slots of T, the request itself on those of S, one  *)
(* slot or, when the launch fails, none.                                        *)
LaunchesOn(r, T, S) ==
  /\ T \subseteq IdleSlots /\ S \subseteq IdleSlots
  /\ \A i \in Slots \ (T \cup S) : slot'[i] = slot[i]
  /\ \A i \in T : slot'[i].state = "WAIT_OTHER" /\ slot'[i].task \in Range(ChildrenOf[r])
  /\ \A i \in S : slot'[i].state = "STARTED" /\ slot'[i].task = r
  /\ \A i, j \in T \cup S : slot'[i].task = slot'[j].task => i = j
  /\ client' = client /\ cancelled' = cancelled /\ Placed' = Placed \ {r}
  /\ errored \subseteq errored' /\ Ended \subseteq Ended'
  /\ \/ /\ S = {} /\ IdsOf(r) \cap errored' # {} /\ Ended' \subseteq Ended \cup IdsOf(r)
        /\ phase' = "undo" /\ hand' = hand
     \/ /\ S # {} /\ Ended' = Ended /\ phase' # "undo"
        /\ \A c \in Range(ChildrenOf[r]) : \E i \in T : slot'[i].task = c

LEMMA BoardLaunched ==
  ASSUME TypeOK, Board, phase = "callback", NEW r \in Requests, hand[1] = TaskOf(r),
         r \in Placed, client[r] # "new", NEW T, NEW S, LaunchesOn(r, T, S)
  PROVE  Board'
<1>0. /\ T \subseteq Slots /\ S \subseteq Slots
      /\ \A i \in T \cup S : slot[i].state = "IDLE" /\ slot[i].task = NoTask
  BY DEF LaunchesOn, IdleSlots, Processing, TypeOK
<1>1. /\ \A i \in Slots \ (T \cup S) : slot'[i] = slot[i]
      /\ \A i \in T : slot'[i].state = "WAIT_OTHER" /\ slot'[i].task \in Range(ChildrenOf[r])
      /\ \A i \in S : slot'[i].state = "STARTED" /\ slot'[i].task = r
      /\ \A i, j \in T \cup S : slot'[i].task = slot'[j].task => i = j
      /\ client' = client /\ cancelled' = cancelled /\ Placed' = Placed \ {r}
      /\ errored \subseteq errored' /\ Ended \subseteq Ended'
  BY DEF LaunchesOn
<1>2. /\ Range(ChildrenOf[r]) \subseteq ChildIds /\ Requests \cap ChildIds = {}
      /\ Range(ChildrenOf[r]) \subseteq IdsOf(r) /\ r \in IdsOf(r) /\ IdsOf(r) \subseteq Owned
      /\ NoTask \notin Ids /\ IdsOf(r) \subseteq Ids
  BY Owners, RequestsAssumption DEF IdsOf, Owned
<1>3. \A i \in T \cup S : slot'[i].task \in IdsOf(r) BY <1>1, <1>2
<1>4. (\A id \in IdsOf(r) : SlotOf(id) = {}) /\ r \notin Ended BY DEF Board, Places
<1>5. \A i \in Slots \ (T \cup S) : slot[i].task \notin IdsOf(r) BY <1>4 DEF SlotOf
<1>6. SlotTasks'
  <2>1. ASSUME NEW a \in Slots, NEW b \in Slots, slot'[a].task = slot'[b].task,
               slot'[a].task # NoTask
        PROVE  a = b
    BY <1>1, <1>3, <1>5, <2>1 DEF Board, SlotTasks
  <2>2. ASSUME NEW a \in Slots
        PROVE  /\ slot'[a].task \in Owned \cup {NoTask}
               /\ slot'[a].state = "STARTED" => slot'[a].task \in Requests
               /\ slot'[a].state = "WAIT_OTHER" => slot'[a].task \in ChildIds
    <3>1. CASE a \in T BY <1>1, <1>2, <3>1
    <3>2. CASE a \in S BY <1>1, <1>2, <3>2
    <3>3. CASE a \notin T \cup S BY <1>1, <3>3 DEF Board, SlotTasks
    <3> QED BY <3>1, <3>2, <3>3
  <2> QED BY <2>1, <2>2 DEF SlotTasks, Owned, IdsOf
<1>7. \A id \in Ids : id \notin IdsOf(r) => SlotOf(id)' = SlotOf(id)
  BY <1>0, <1>1, <1>2, <1>3 DEF SlotOf
<1>8. \A q \in Requests : q # r => \A id \in IdsOf(q) : id \in Ids /\ id \notin IdsOf(r)
  BY Owners
<1>9. \A q \in Requests : q # r => SlotOf(q)' = SlotOf(q) /\ q \notin IdsOf(r)
  BY <1>7, <1>8, Owners
<1>10. \A q \in Requests : q # r => (q \in Ended' <=> q \in Ended)
  BY <1>9 DEF LaunchesOn
<1>11. SlotOf(r)' = S
  <2>1. \A i \in T : slot'[i].task # r BY <1>1, <1>2
  <2> QED BY <1>0, <1>1, <1>2, <1>5, <2>1 DEF SlotOf
<1>12. Places'
  <2>1. ASSUME NEW q \in Requests, client'[q] = "new" \/ q \in Placed'
        PROVE  (\A id \in IdsOf(q) : SlotOf(id)' = {}) /\ q \notin Ended'
    <3>1. q # r /\ (client[q] = "new" \/ q \in Placed) BY <1>1, <2>1
    <3> QED BY <1>7, <1>8, <1>10, <3>1 DEF Board, Places
  <2>2. ASSUME phase' = "undo"
        PROVE  \E q \in Requests : hand'[1] = TaskOf(q) /\ SlotOf(q)' = {}
    BY <1>11, <2>2 DEF LaunchesOn
  <2>3. ASSUME NEW q \in Requests, SlotOf(q)' # {} PROVE q \notin Ended'
    <3>1. CASE q = r BY <1>4, <1>11, <2>3, <3>1 DEF LaunchesOn
    <3>2. CASE q # r BY <1>9, <1>10, <2>3, <3>2 DEF Board, Places
    <3> QED BY <3>1, <3>2
  <2> QED BY <2>1, <2>2, <2>3 DEF Places, IdsOf, TaskOf
<1>13. Kept'
  <2>1. ASSUME NEW q \in Requests, client'[q] = "waiting"
        PROVE  q \in Placed' \cup Ended' \/ SlotOf(q)' # {} \/ IdsOf(q) \cap errored' # {}
    <3>1. CASE q = r BY <1>11, <3>1 DEF LaunchesOn
    <3>2. CASE q # r BY <1>1, <1>9, <2>1, <3>2 DEF Board, Kept
    <3> QED BY <3>1, <3>2
  <2> QED BY <2>1 DEF Kept, IdsOf
<1>14. NoStrandedChild'
  <2>1. ASSUME NEW i \in Slots, slot'[i].state = "WAIT_OTHER",
               NEW q, q = RequestOf(slot'[i].task), client'[q] = "waiting"
        PROVE  \/ \E p \in SlotOf(q)' : slot'[p].state = "STARTED"
               \/ IdsOf(q) \cap errored' # {}
    <3>1. i \notin S BY <1>1, <2>1
    <3>2. CASE i \in T
      <4>1. q = r BY <1>3, <2>1, <3>2, Owners
      <4> QED BY <1>1, <1>11, <4>1 DEF LaunchesOn
    <3>3. CASE i \notin T
      <4>1. slot'[i] = slot[i] /\ slot[i].task # NoTask
        BY <1>1, <2>1, <3>1, <3>3 DEF TypeOK
      <4>2. q \in Requests /\ slot[i].task \in IdsOf(q) BY <2>1, <4>1, SlotOwner DEF Board
      <4>3. q # r BY <1>5, <3>1, <3>3, <4>2
      <4>4. (\E p \in SlotOf(q) : slot[p].state = "STARTED") \/ IdsOf(q) \cap errored # {}
        BY <1>1, <2>1, <4>1 DEF Board, NoStrandedChild
      <4>5. ASSUME NEW p \in SlotOf(q), slot[p].state = "STARTED"
            PROVE  p \in SlotOf(q)' /\ slot'[p].state = "STARTED"
        <5>1. p \in Slots /\ p \notin T \cup S BY <1>0, <4>5 DEF SlotOf
        <5> QED BY <1>1, <1>9, <4>2, <4>3, <4>5, <5>1
      <4> QED BY <1>1, <4>4, <4>5
    <3> QED BY <3>1, <3>2, <3>3
  <2> QED BY <2>1 DEF NoStrandedChild, RequestOf, IdsOf
<1>15. ChildrenHoldSlots'
  <2>1. ASSUME NEW p \in Slots, slot'[p].state = "STARTED",
               NEW c \in Range(ChildrenOf[slot'[p].task])
        PROVE  (\E i \in SlotOf(c)' : slot'[i].state = "WAIT_OTHER") \/ c \in cancelled'
    <3>1. p \notin T BY <1>1, <2>1
    <3>2. CASE p \in S
      <4>1. c \in Range(ChildrenOf[r]) BY <1>1, <2>1, <3>2
      <4>2. PICK i \in T : slot'[i].task = c BY <3>2, <4>1 DEF LaunchesOn
      <4>3. i \in SlotOf(c)' BY <1>0, <4>2 DEF SlotOf
      <4> QED BY <1>1, <4>3
    <3>3. CASE p \notin S
      <4>1. slot'[p] = slot[p] BY <1>1, <3>1, <3>3
      <4>2. phase \notin Aborting BY DEF Aborting
      <4>3. (\E i \in SlotOf(c) : slot[i].state = "WAIT_OTHER") \/ c \in cancelled
        BY <2>1, <4>1, <4>2 DEF Board, ChildrenHoldSlots
      <4>4. ASSUME NEW i \in SlotOf(c), slot[i].state = "WAIT_OTHER"
            PROVE  i \in SlotOf(c)' /\ slot'[i].state = "WAIT_OTHER"
        <5>1. i \in Slots /\ i \notin T \cup S /\ slot[i].task = c BY <1>0, <4>4 DEF SlotOf
        <5>2. slot'[i] = slot[i] BY <1>1, <5>1
        <5> QED BY <4>4, <5>1, <5>2 DEF SlotOf
      <4> QED BY <1>1, <4>3, <4>4
    <3> QED BY <3>1, <3>2, <3>3
  <2> QED BY <2>1 DEF ChildrenHoldSlots
<1> QED BY <1>6, <1>12, <1>13, <1>14, <1>15 DEF Board

-----------------------------------------------------------------------------
(* The numbers of the free slots: each number up to their count, once. *)

RankIn(F) == [i \in F |-> Cardinality({j \in F : j <= i})]

Ranked(F, f) ==
  /\ Cardinality(F) \in Nat
  /\ f \in [F -> 1..Cardinality(F)]
  /\ \A i, j \in F : f[i] = f[j] => i = j
  /\ \A k \in 1..Cardinality(F) : \E i \in F : f[i] = k

LEMMA Ranks ==
  ASSUME NEW n \in Nat, NEW F \in SUBSET (1..n), NEW f, f = RankIn(F)
  PROVE  Ranked(F, f)
<1>0. f = [i \in F |-> Cardinality({j \in F : j <= i})] BY DEF RankIn
<1>1. IsFiniteSet(F) /\ Cardinality(F) \in Nat
  <2>1. IsFiniteSet(1..n) BY FS_Interval
  <2>2. IsFiniteSet(F) BY <2>1, FS_Subset
  <2> QED BY <2>2, FS_CardinalityType
<1>2. ASSUME NEW i \in F, NEW G, G = {j \in F : j <= i}
      PROVE  /\ IsFiniteSet(G) /\ Cardinality(G) \in 1..Cardinality(F) /\ f[i] = Cardinality(G)
  <2>1. G \in SUBSET F /\ i \in G BY <1>2
  <2>2. IsFiniteSet(G) /\ Cardinality(G) <= Cardinality(F) BY <1>1, <2>1, FS_Subset
  <2>3. Cardinality(G) \in Nat /\ Cardinality(G) # 0
    BY <2>1, <2>2, FS_EmptySet, FS_CardinalityType
  <2>4. f[i] = Cardinality(G) BY <1>0, <1>2
  <2> QED BY <1>1, <2>2, <2>3, <2>4
<1>3. ASSUME NEW i \in F, NEW j \in F, i < j PROVE f[i] < f[j]
  <2> DEFINE G == {k \in F : k <= i}
             H == {k \in F : k <= j}
  <2>1. IsFiniteSet(G) /\ Cardinality(G) \in 1..Cardinality(F) /\ f[i] = Cardinality(G)
    BY <1>2
  <2>2. IsFiniteSet(H) /\ Cardinality(H) \in 1..Cardinality(F) /\ f[j] = Cardinality(H)
    BY <1>2
  <2>3. G \in SUBSET H /\ j \in H /\ j \notin G
    <3>1. F \subseteq Int /\ i \in Int /\ j \in Int BY SMT
    <3>2. ASSUME NEW k \in G PROVE k \in H BY <1>3, <3>1
    <3>3. j \in H BY <3>1
    <3>4. j \notin G BY <1>3, <3>1
    <3> HIDE DEF G, H
    <3> QED BY <3>2, <3>3, <3>4
  <2> HIDE DEF G, H
  <2>4. Cardinality(G) <= Cardinality(H) /\ (Cardinality(H) = Cardinality(G) => H = G)
    BY <2>2, <2>3, FS_Subset
  <2> QED BY <1>1, <2>1, <2>2, <2>3, <2>4
<1>4. f \in [F -> 1..Cardinality(F)] BY <1>0, <1>2
<1>5. ASSUME NEW i \in F, NEW j \in F, f[i] = f[j] PROVE i = j
  <2>1. f[i] \in Nat /\ f[j] \in Nat /\ i \in Nat /\ j \in Nat BY <1>1, <1>4
  <2>2. ~(i < j) /\ ~(j < i) BY <1>3, <1>5, <2>1
  <2> QED BY <2>1, <2>2
<1>6. f \in Injection(F, 1..Cardinality(F)) BY <1>4, <1>5 DEF Injection, IsInjective
<1>7. IsFiniteSet(1..Cardinality(F)) /\ Cardinality(1..Cardinality(F)) = Cardinality(F)
  BY <1>1, FS_Interval
<1>8. f \in Surjection(F, 1..Cardinality(F)) BY <1>6, <1>7, FS_Injection
<1> QED BY <1>1, <1>4, <1>5, <1>8 DEF Surjection, Ranked

(* The children that a launch puts on slots. *)
ChildSlots(s, n) == {i \in FreeSlots(s) : Number(i, s) <= n}

(* Children of r wait on the slots of T, one on each; all of them when n is their *)
(* count.                                                                         *)
Spread(r, s, n, new, T) ==
  /\ T \subseteq IdleSlots /\ s \notin T /\ s \in IdleSlots
  /\ DOMAIN new = Slots /\ \A i \in Slots \ T : new[i] = slot[i]
  /\ \A i \in T : new[i].state = "WAIT_OTHER" /\ new[i].task \in Range(ChildrenOf[r])
  /\ \A i, j \in T : new[i].task = new[j].task => i = j
  /\ n = Len(ChildrenOf[r]) =>
       \A c \in Range(ChildrenOf[r]) : \E i \in T : new[i].task = c

LEMMA ChildrenOnSlots ==
  ASSUME TypeOK, NEW r \in Requests, NEW s \in Slots, Enough(r, s),
         NEW n \in 0..Len(ChildrenOf[r]), NEW new, new = ChildrenLaunched(r, s, n),
         NEW T, T = ChildSlots(s, n)
  PROVE  Spread(r, s, n, new, T)
<1> DEFINE F == FreeSlots(s)
           f == RankIn(F)
           kids == ChildrenOf[r]
<1>1. kids \in Seq(ChildIds) /\ n \in 0..Len(kids) BY RequestsAssumption
<1>2. F \in SUBSET (1..NSlots) /\ NSlots \in Nat
  BY SlotsAssumption DEF FreeSlots, IdleSlots, Slots
<1>3. \A i \in F : Number(i, s) = f[i] BY DEF Number, RankIn
<1>4. F \subseteq IdleSlots /\ s \notin F /\ s \in IdleSlots /\ IdleSlots \subseteq Slots
  BY DEF FreeSlots, Enough, IdleSlots
<1>5. Cardinality(F) >= Len(kids) BY DEF Enough
<1>6. T = {i \in F : f[i] <= n} BY <1>3 DEF ChildSlots
<1>7. /\ DOMAIN new = Slots
      /\ \A i \in Slots : new[i] = IF i \in T THEN [state |-> "WAIT_OTHER", task |-> kids[f[i]]]
                                   ELSE slot[i]
  BY <1>3, <1>6 DEF ChildrenLaunched
<1>8. \A i, j \in DOMAIN kids : kids[i] = kids[j] => i = j BY RequestsAssumption
<1>9. f = RankIn(F) OBVIOUS
<1> HIDE DEF F, f
<1>10. /\ Cardinality(F) \in Nat
       /\ f \in [F -> 1..Cardinality(F)]
       /\ \A i, j \in F : f[i] = f[j] => i = j
       /\ \A k \in 1..Cardinality(F) : \E i \in F : f[i] = k
  <2>1. Ranked(F, f) BY <1>2, <1>9, Ranks
  <2> QED BY <2>1 DEF Ranked
<1> HIDE DEF kids
<1>11. DOMAIN kids = 1..Len(kids) /\ Len(kids) \in Nat BY <1>1
<1>12. \A i \in T : i \in F /\ i \in Slots /\ f[i] \in 1..n /\ f[i] \in 1..Len(kids)
  BY <1>1, <1>4, <1>6, <1>10, <1>11
<1>13. \A i \in T : new[i].state = "WAIT_OTHER" /\ new[i].task = kids[f[i]]
  BY <1>7, <1>12
<1>14. \A i \in T : new[i].task \in Range(kids) BY <1>11, <1>12, <1>13 DEF Range
<1>15. ASSUME NEW i \in T, NEW j \in T, new[i].task = new[j].task PROVE i = j
  <2>1. kids[f[i]] = kids[f[j]] BY <1>13, <1>15
  <2>2. f[i] = f[j] BY <1>8, <1>11, <1>12, <2>1 DEF kids
  <2> QED BY <1>10, <1>12, <2>2
<1>16. ASSUME n = Len(kids), NEW c \in Range(kids) PROVE \E i \in T : new[i].task = c
  <2>1. PICK k \in 1..Len(kids) : kids[k] = c BY <1>11 DEF Range
  <2>2. PICK i \in F : f[i] = k BY <1>5, <1>10, <1>11, <2>1
  <2>3. i \in T BY <1>6, <1>16, <2>1, <2>2
  <2> QED BY <1>13, <2>1, <2>2, <2>3
<1>17. T \subseteq F BY <1>12
<1> QED BY <1>4, <1>7, <1>13, <1>14, <1>15, <1>16, <1>17 DEF kids, Spread

-----------------------------------------------------------------------------
(* The prompt is done: the request and the children that wait for it generate. *)
PromptOn(s) ==
  LET r == slot[s].task
  IN  /\ slot[s].state = "STARTED"
      /\ slot' = [i \in Slots |-> IF i \in WaitingChildren(r) \cup {s}
                                  THEN [slot[i] EXCEPT !.state = "GENERATING"]
                                  ELSE slot[i]]
      /\ client' = client /\ replies' = replies /\ cancelled' = cancelled
      /\ Placed' = Placed /\ phase \notin Aborting /\ phase' # "undo"

LEMMA BoardPrompt ==
  ASSUME TypeOK, Board, NEW s \in Slots, PromptOn(s)
  PROVE  Board'
<1> DEFINE r == slot[s].task
           W == WaitingChildren(r)
<1>1. /\ client' = client /\ errored' = errored /\ Ended' = Ended /\ cancelled' = cancelled
      /\ Placed' = Placed /\ phase \notin Aborting /\ phase' # "undo"
  BY DEF PromptOn, replies, Ended
<1>2. /\ slot[s].state = "STARTED" /\ r \in Requests /\ W \subseteq Slots
      /\ \A i \in W : slot[i].state = "WAIT_OTHER" /\ slot[i].task \in IdsOf(r)
  BY DEF PromptOn, Board, SlotTasks, WaitingChildren, IdsOf
<1>3. \A i \in Slots : slot[i] \in [state : SlotState, task : Ids \cup {NoTask}] BY DEF TypeOK
<1>4. /\ \A i \in Slots : slot'[i].task = slot[i].task
      /\ \A i \in W \cup {s} : slot'[i].state = "GENERATING"
      /\ \A i \in Slots \ (W \cup {s}) : slot'[i] = slot[i]
  BY <1>2, <1>3 DEF PromptOn
<1>5. \A id : SlotOf(id)' = SlotOf(id) BY <1>4 DEF SlotOf
<1>6. SlotTasks'
  <2>1. \A a, b \in Slots : (slot'[a].task = slot'[b].task /\ slot'[a].task # NoTask) => a = b
    BY <1>4 DEF Board, SlotTasks
  <2>2. ASSUME NEW a \in Slots
        PROVE  /\ slot'[a].task \in Owned \cup {NoTask}
               /\ slot'[a].state = "STARTED" => slot'[a].task \in Requests
               /\ slot'[a].state = "WAIT_OTHER" => slot'[a].task \in ChildIds
    BY <1>4 DEF Board, SlotTasks
  <2> QED BY <2>1, <2>2 DEF SlotTasks, Owned, IdsOf
<1>7. Places' BY <1>1, <1>5 DEF Board, Places, IdsOf, TaskOf
<1>8. Kept' BY <1>1, <1>5 DEF Board, Kept, IdsOf
<1>9. \A i \in Slots : (slot[i].state = "WAIT_OTHER" /\ slot[i].task \in IdsOf(r)) => i \in W
  <2>1. ASSUME NEW i \in Slots, slot[i].state = "WAIT_OTHER", slot[i].task \in IdsOf(r)
        PROVE  i \in W
    <3>1. slot[i].task \in ChildIds BY <2>1 DEF Board, SlotTasks
    <3>2. slot[i].task # r BY <1>2, <3>1, RequestsAssumption
    <3> QED BY <2>1, <3>2 DEF WaitingChildren, IdsOf
  <2> QED BY <2>1
<1> HIDE DEF W
<1>10. NoStrandedChild'
  <2>1. ASSUME NEW i \in Slots, slot'[i].state = "WAIT_OTHER",
               NEW q, q = RequestOf(slot'[i].task), client'[q] = "waiting"
        PROVE  \/ \E p \in SlotOf(q)' : slot'[p].state = "STARTED"
               \/ IdsOf(q) \cap errored' # {}
    <3>1. i \notin W \cup {s} /\ slot'[i] = slot[i] BY <1>4, <2>1
    <3>2. slot[i].task # NoTask BY <2>1, <3>1 DEF TypeOK
    <3>3. q \in Requests /\ slot[i].task \in IdsOf(q) BY <2>1, <3>1, <3>2, SlotOwner DEF Board
    <3>4. q # r BY <1>9, <2>1, <3>1, <3>3
    <3>5. (\E p \in SlotOf(q) : slot[p].state = "STARTED") \/ IdsOf(q) \cap errored # {}
      BY <1>1, <2>1, <3>1 DEF Board, NoStrandedChild
    <3>6. ASSUME NEW p \in SlotOf(q), slot[p].state = "STARTED"
          PROVE  p \in SlotOf(q)' /\ slot'[p].state = "STARTED"
      <4>1. p \in Slots /\ slot[p].task = q BY DEF SlotOf
      <4>2. p \notin W \cup {s} BY <1>2, <3>4, <3>6, <4>1
      <4> QED BY <1>4, <1>5, <3>6, <4>1, <4>2
    <3> QED BY <1>1, <3>5, <3>6
  <2> QED BY <2>1 DEF NoStrandedChild, RequestOf, IdsOf
<1>11. ChildrenHoldSlots'
  <2>1. ASSUME NEW p \in Slots, slot'[p].state = "STARTED",
               NEW c \in Range(ChildrenOf[slot'[p].task])
        PROVE  (\E i \in SlotOf(c)' : slot'[i].state = "WAIT_OTHER") \/ c \in cancelled'
    <3>1. p \notin W \cup {s} /\ slot'[p] = slot[p] BY <1>4, <2>1
    <3> DEFINE q == slot[p].task
    <3>2. q \in Requests /\ q # NoTask BY <2>1, <3>1, RequestsAssumption DEF Board, SlotTasks, Ids
    <3>3. q # r BY <3>1, <3>2 DEF Board, SlotTasks
    <3>4. c \in Range(ChildrenOf[q]) BY <3>1
    <3>5. c \in IdsOf(q) BY <3>4 DEF IdsOf
    <3>6. c \notin IdsOf(r) BY <1>2, <3>2, <3>3, <3>5, Owners
    <3>7. (\E i \in SlotOf(c) : slot[i].state = "WAIT_OTHER") \/ c \in cancelled
      BY <1>1, <2>1, <3>1, <3>4 DEF Board, ChildrenHoldSlots
    <3>8. ASSUME NEW i \in SlotOf(c), slot[i].state = "WAIT_OTHER"
          PROVE  i \in SlotOf(c)' /\ slot'[i].state = "WAIT_OTHER"
      <4>1. i \in Slots /\ slot[i].task = c BY DEF SlotOf
      <4>2. i \notin W \cup {s} BY <1>2, <3>6, <3>8, <4>1
      <4> QED BY <1>4, <1>5, <3>8, <4>1, <4>2
    <3> QED BY <1>1, <3>7, <3>8
  <2> QED BY <2>1 DEF ChildrenHoldSlots
<1> QED BY <1>6, <1>7, <1>8, <1>10, <1>11 DEF Board

(* Nothing changes but the phase, the queues and the prompts. *)
LEMMA BoardIdle ==
  ASSUME TypeOK, Board, UNCHANGED <<slot, client, replies>>, cancelled \subseteq cancelled',
         Placed' = Placed, phase' # "undo",
         phase \in Aborting => phase' \in Aborting \/ IdleSlots = Slots
  PROVE  Board'
<1>1. client' = client /\ Ended' = Ended /\ errored' = errored /\ slot' = slot
  BY DEF replies, Ended
<1>2. Steady BY <1>1 DEF Steady
<1>3. \A r \in Requests : Steps(r) BY <1>1 DEF Steps
<1> QED BY <1>2, <1>3, BoardStays

-----------------------------------------------------------------------------
(* The types of what is not queued. *)

HandType == hand \in Seq(Task) /\ Len(hand) = (IF phase \in Holding THEN 1 ELSE 0)
SlotType ==
  /\ slot \in [Slots -> [state : SlotState, task : Ids \cup {NoTask}]]
  /\ \A s \in Slots : slot[s].task = NoTask <=> slot[s].state = "IDLE"
PromptType == prompt \in [Slots -> Conversations \cup {Empty}]
RestType ==
  /\ phase \in Phases /\ cursor \in 1..(NSlots + 1) /\ cache \subseteq Conversations
  /\ client \in [Requests -> {"new", "waiting", "done"}]
  /\ answered \subseteq Ids /\ errored \subseteq Ids /\ cancelled \subseteq Ids

LEMMA TypeParts ==
  /\ TypeOK => HandType /\ SlotType /\ PromptType /\ RestType
  /\ QueueInv' /\ HandType' /\ SlotType' /\ PromptType' /\ RestType' => TypeOK'
<1>1. TypeOK => HandType /\ SlotType /\ PromptType /\ RestType
  BY DEF TypeOK, HandType, SlotType, PromptType, RestType
<1>2. QueueInv' => queue_tasks' \in Seq(Task) /\ queue_tasks_deferred' \in Seq(Task)
  BY DEF QueueInv, Lines, Good
<1>3. QueueInv' /\ HandType' /\ SlotType' /\ PromptType' /\ RestType' => TypeOK'
  BY <1>2 DEF TypeOK, HandType, SlotType, PromptType, RestType
<1> QED BY <1>1, <1>3

LEMMA HandEmpty ==
  ASSUME phase' \notin Holding, hand' = <<>>
  PROVE  HandType'
BY DEF HandType

LEMMA HandSame ==
  ASSUME HandType, hand' = hand, phase' \in Holding <=> phase \in Holding
  PROVE  HandType'
BY DEF HandType

LEMMA SlotTypeSame == SlotType /\ slot' = slot => SlotType'
BY DEF SlotType, SlotState

LEMMA SlotTypeReleased ==
  ASSUME SlotType, NEW s \in Slots, slot' = SlotsAfterRelease(s)
  PROVE  SlotType'
<1>1. IdleSlot \in [state : SlotState, task : Ids \cup {NoTask}]
      /\ IdleSlot.state = "IDLE" /\ IdleSlot.task = NoTask
  BY DEF IdleSlot, SlotState
<1> QED BY <1>1 DEF SlotType, SlotsAfterRelease

LEMMA PromptReleased ==
  ASSUME PromptType, NEW s \in Slots
  PROVE  /\ PromptsAfterRelease(s) \in [Slots -> Conversations \cup {Empty}]
         /\ [prompt EXCEPT ![s] = Empty] \in [Slots -> Conversations \cup {Empty}]
BY DEF PromptType, PromptsAfterRelease

(* What the selection of a slot for a request returns. *)
LEMMA Selection ==
  ASSUME TypeOK, NEW r \in Requests, NEW s \in CandidateSlots(TaskOf(r)),
         NEW o \in SelectionOutcomes(TaskOf(r), s)
  PROVE  s \in Slots /\ o.prompt \in Conversations \cup {Empty} /\ o.cache \subseteq Conversations
<1>1. TaskOf(r).id = r /\ TaskOf(r).id_slot \in Slots \cup {NoSlot}
  BY TaskFacts DEF Task
<1>2. s \in Slots
  BY <1>1 DEF CandidateSlots, SimilarSlots, IdleSlots
<1>3. Conv[r] \in Conversations BY RequestsAssumption
<1>4. prompt[s] \in Conversations \cup {Empty} /\ cache \subseteq Conversations
  BY <1>2 DEF TypeOK
<1>5. ASSUME NEW a \in AfterCacheUpdate(TaskOf(r), s)
      PROVE  a.prompt \in Conversations \cup {Empty} /\ a.cache \subseteq Conversations
  <2> DEFINE saved == cache \cup ({prompt[s]} \ {Empty})
  <2>1. saved \subseteq Conversations BY <1>4
  <2>2. \/ a = [prompt |-> Conv[r], cache |-> saved \ {Conv[r]}]
        \/ a = [prompt |-> Empty, cache |-> saved]
        \/ a = [prompt |-> prompt[s], cache |-> saved]
    BY <1>1, <1>5 DEF AfterCacheUpdate
  <2> HIDE DEF saved
  <2> QED BY <1>3, <1>4, <2>1, <2>2
<1>6. o \in AfterCacheUpdate(TaskOf(r), s) \/ o = [prompt |-> prompt[s], cache |-> cache]
  BY DEF SelectionOutcomes
<1> QED BY <1>2, <1>4, <1>5, <1>6

-----------------------------------------------------------------------------
(* The task in hand. *)

LEMMA HandTask ==
  ASSUME QueueInv, phase \in Holding, hand[1].type \in {"completion", "erase"}
  PROVE  \E r \in Requests : hand[1] = TaskOf(r) /\ hand[1].id = r /\ Held = {r}
                             /\ client[r] # "new" /\ r \notin Queued \cup Deferred
<1>1. Made(hand[1]) BY DEF QueueInv, Origins
<1>2. hand[1] # NextResponse /\ \A id \in Ids : hand[1] # CancelOf(id) BY TaskFacts
<1>3. PICK r \in Requests : hand[1] = TaskOf(r) BY <1>1, <1>2, Owners DEF Made
<1>4. Held = {r} BY <1>3, OfFacts DEF Held
<1>5. client[r] # "new" /\ r \notin Queued \cup Deferred BY <1>4 DEF QueueInv, Lines
<1> QED BY <1>3, <1>4, <1>5, TaskFacts

LEMMA HandCancel ==
  ASSUME QueueInv, phase \in Holding, hand[1].type = "cancel"
  PROVE  Held = {} /\ \E r \in Requests : client[r] = "done" /\ hand[1].id \in IdsOf(r)
<1>1. Made(hand[1]) BY DEF QueueInv, Origins
<1>2. hand[1] # NextResponse /\ \A r \in Requests : hand[1] # TaskOf(r) BY TaskFacts
<1>3. PICK r \in Requests : client[r] = "done" /\ \E id \in IdsOf(r) : hand[1] = CancelOf(id)
  BY <1>1, <1>2 DEF Made
<1>4. PICK id \in IdsOf(r) : hand[1] = CancelOf(id) BY <1>3
<1>5. id \in Ids BY Owners
<1>6. hand[1].id = id /\ Held = {} BY <1>4, <1>5, TaskFacts, OfFacts DEF Held
<1> QED BY <1>3, <1>6

LEMMA HandNext ==
  ASSUME QueueInv, phase \in Holding, hand[1].type = "next_response"
  PROVE  Held = {}
BY TaskFacts DEF Held, Of

(* Outside the callback, and after it, what is placed is what is queued. *)
LEMMA PlacedIs ==
  /\ phase # "callback" => Placed = Queued \cup Deferred
  /\ phase = "callback" => Placed = Queued \cup Deferred \cup Held
  /\ phase' # "callback" => Placed' = Queued' \cup Deferred'
BY DEF Placed

-----------------------------------------------------------------------------
(* Every step keeps the invariant: first its parts, put together. *)

LEMMA Assembled ==
  ASSUME SlotInv, QueueInv', Board', HandType', SlotType', PromptType', RestType'
  PROVE  SlotInv'
BY TypeParts DEF SlotInv

LEMMA Parts ==
  ASSUME SlotInv
  PROVE  /\ TypeOK /\ QueueInv /\ Board /\ HandType /\ SlotType /\ PromptType /\ RestType
         /\ client' = client => Onward
BY TypeParts DEF SlotInv, Onward

(* A step of the main thread that moves no task and ends none. *)
LEMMA QuietStep ==
  ASSUME SlotInv, UNCHANGED <<queue, slot, cache, client, replies, cancelled>>,
         PromptType', HandType', Hands, phase' \in Phases \ {"callback", "undo"},
         phase = "callback" => Held = {}, cursor' \in 1..(NSlots + 1),
         phase \in Aborting => phase' \in Aborting \/ IdleSlots = Slots
  PROVE  SlotInv'
<1>1. /\ TypeOK /\ QueueInv /\ Board /\ HandType /\ SlotType /\ PromptType /\ RestType /\ Onward
  BY Parts
<1>2. QueueInv' /\ Requeued(Queued, Deferred, HeldNext) BY <1>1, QueueSame
<1>3. Placed' = Placed BY <1>2, PlacedIs DEF Requeued
<1>4. Board' BY <1>1, <1>3, BoardIdle
<1>5. SlotType' BY <1>1, SlotTypeSame
<1>6. RestType' BY <1>1 DEF RestType, replies
<1> QED BY <1>2, <1>4, <1>5, <1>6, Assembled

(* The phases that hold a task, and those that do not. *)
LEMMA PhaseFacts ==
  /\ Holding = {"callback", "undo"} /\ Aborting = {"abort", "decode_error"}
  /\ Phases = {"pop", "update", "slots", "wait", "callback", "undo", "abort", "decode_error"}
BY DEF Holding, Aborting, Phases

LEMMA ProcessNextResponseInv == ASSUME SlotInv, ProcessNextResponse PROVE SlotInv'
<1>1. /\ phase = "callback" /\ hand[1].type = "next_response" /\ phase' = "pop" /\ hand' = <<>>
      /\ UNCHANGED <<queue, slot, prompt, cache, client, replies, cancelled, cursor>>
  BY DEF ProcessNextResponse, Handled
<1>2. QueueInv /\ PromptType /\ RestType BY Parts
<1>3. Held = {} BY <1>1, <1>2, HandNext, PhaseFacts
<1>4. HandType' /\ Hands BY <1>1, PhaseFacts, HandEmpty DEF Hands
<1>5. PromptType' BY <1>1, <1>2 DEF PromptType
<1> QED BY <1>1, <1>2, <1>3, <1>4, <1>5, PhaseFacts, QuietStep DEF RestType

LEMMA UndoEndsInv == ASSUME SlotInv, UndoEnds PROVE SlotInv'
<1>1. /\ phase = "undo" /\ phase' = "pop" /\ hand' = <<>>
      /\ UNCHANGED <<queue, slot, prompt, cache, client, replies, cancelled, cursor>>
  BY DEF UndoEnds, Handled
<1>2. PromptType /\ RestType BY Parts
<1>3. HandType' /\ Hands BY <1>1, PhaseFacts, HandEmpty DEF Hands
<1>4. PromptType' BY <1>1, <1>2 DEF PromptType
<1> QED BY <1>1, <1>2, <1>3, <1>4, PhaseFacts, QuietStep DEF RestType

(* Steps between two callbacks, which hold no task. *)
LEMMA LoopStep ==
  ASSUME SlotInv, UNCHANGED <<queue, hand, slot, cache, client, replies, cancelled>>,
         PromptType', phase \notin Holding, phase' \in Phases \ Holding, cursor' \in 1..(NSlots + 1),
         phase \in Aborting => phase' \in Aborting \/ IdleSlots = Slots
  PROVE  SlotInv'
<1>1. HandType BY Parts
<1>2. HandType' /\ Hands BY <1>1, HandSame DEF Hands
<1> QED BY <1>2, PhaseFacts, QuietStep

LEMMA LoopInv ==
  ASSUME SlotInv, BatchFails \/ AbortEnds \/ PurgeIdleSlot \/ UpdateEnd \/ WaitEnd \/ SkipSlot
  PROVE  SlotInv'
<1>1. PromptType /\ RestType /\ NSlots \in Nat \ {0} BY Parts, SlotsAssumption
<1>2. CASE BatchFails
  <2>1. PromptType' BY <1>1, <1>2 DEF PromptType, BatchFails
  <2> QED BY <1>1, <1>2, <2>1, PhaseFacts, LoopStep DEF BatchFails, RestType
<1>3. CASE AbortEnds
  <2>1. PromptType' BY <1>1, <1>3 DEF PromptType, AbortEnds
  <2> QED BY <1>1, <1>3, <2>1, PhaseFacts, LoopStep DEF AbortEnds, RestType
<1>4. CASE PurgeIdleSlot
  <2>1. PromptType' BY <1>1, <1>4 DEF PromptType, PurgeIdleSlot
  <2> QED BY <1>1, <1>4, <2>1, PhaseFacts, LoopStep DEF PurgeIdleSlot, RestType
<1>5. CASE UpdateEnd
  <2>1. PromptType' BY <1>1, <1>5 DEF PromptType, UpdateEnd
  <2> QED BY <1>1, <1>5, <2>1, PhaseFacts, LoopStep DEF UpdateEnd, RestType
<1>6. CASE WaitEnd
  <2>1. PromptType' BY <1>1, <1>6 DEF PromptType, WaitEnd
  <2> QED BY <1>1, <1>6, <2>1, PhaseFacts, LoopStep DEF WaitEnd, RestType
<1>7. CASE SkipSlot
  <2>1. PromptType' BY <1>1, <1>7 DEF PromptType, SkipSlot
  <2>2. PICK s \in Slots : AtSlot(s) BY <1>7 DEF SkipSlot
  <2>3. phase = "slots" /\ cursor \in 1..NSlots BY <2>2 DEF AtSlot, Slots
  <2>4. cursor' = cursor + 1 /\ phase' = phase /\ UNCHANGED <<queue, hand, slot, cache, client, replies, cancelled>>
    BY <1>7 DEF SkipSlot, SlotDone
  <2>5. cursor' \in 1..(NSlots + 1) BY <1>1, <2>3, <2>4
  <2> QED BY <2>1, <2>3, <2>4, <2>5, PhaseFacts, LoopStep
<1> QED BY <1>2, <1>3, <1>4, <1>5, <1>6, <1>7

(* A step that moves a task between the deques and the hand. *)
LEMMA MovedStep ==
  ASSUME SlotInv, UNCHANGED <<slot, client, replies, cancelled>>, QueueInv', Placed' = Placed,
         HandType', PromptType', cache' \subseteq Conversations,
         phase \notin Aborting, phase' \in Phases \ {"undo"}, cursor' \in 1..(NSlots + 1)
  PROVE  SlotInv'
<1>1. TypeOK /\ Board /\ SlotType /\ RestType BY Parts
<1>2. Board' BY <1>1, BoardIdle
<1>3. SlotType' BY <1>1, SlotTypeSame
<1>4. RestType' BY <1>1 DEF RestType, replies
<1> QED BY <1>2, <1>3, <1>4, Assembled

LEMMA PopInv == ASSUME SlotInv, Pop PROVE SlotInv'
<1>1. /\ phase = "pop" /\ UNCHANGED <<queue_tasks_deferred, slot, prompt, cache, client, replies, cancelled>>
  BY DEF Pop
<1>2. TypeOK /\ QueueInv /\ PromptType /\ RestType /\ HandType /\ Onward BY <1>1, Parts
<1>3. PromptType' BY <1>1, <1>2 DEF PromptType
<1>4. CASE queue_tasks = <<>>
  <2>1. /\ phase' = "update" /\ cursor' = 1 /\ UNCHANGED <<queue, hand>>
    BY <1>1, <1>4 DEF Pop, queue
  <2>2. cursor' \in 1..(NSlots + 1) BY <2>1, SlotsAssumption
  <2> QED BY <1>1, <1>3, <2>1, <2>2, PhaseFacts, LoopStep
<1>5. CASE queue_tasks # <<>>
  <2>1. /\ hand' = <<Head(queue_tasks)>> /\ queue_tasks' = Tail(queue_tasks)
        /\ phase' = "callback" /\ cursor' = cursor
    BY <1>5 DEF Pop
  <2>2. QueueInv' /\ Placed' = Placed BY <1>1, <1>2, <1>5, <2>1, PhaseFacts, QueuePopped
  <2>3. Head(queue_tasks) \in Task BY <1>2, <1>5 DEF TypeOK
  <2>4. hand' \in Seq(Task) /\ Len(hand') = 1 BY <2>1, <2>3
  <2>5. HandType' BY <2>1, <2>4, PhaseFacts DEF HandType, Task, TaskOf, Ids
  <2> QED BY <1>1, <1>2, <1>3, <2>1, <2>2, <2>5, PhaseFacts, MovedStep DEF RestType
<1> QED BY <1>4, <1>5

LEMMA ProcessDeferredInv == ASSUME SlotInv, ProcessDeferred PROVE SlotInv'
<1>1. /\ phase = "callback" /\ hand[1].type = "completion" /\ phase' = "pop" /\ hand' = <<>>
      /\ UNCHANGED <<slot, client, replies, cancelled, cursor>> /\ Defer(hand[1])
  BY DEF ProcessDeferred, Handled
<1>2. TypeOK /\ QueueInv /\ PromptType /\ RestType /\ Onward BY <1>1, Parts
<1>3. PICK r \in Requests : hand[1] = TaskOf(r) BY <1>1, <1>2, HandTask, PhaseFacts
<1>4. Of(hand[1]) # {} BY <1>3 DEF Of
<1>5. QueueInv' /\ Placed' = Placed BY <1>1, <1>2, <1>4, QueueDeferred
<1>6. PromptType' /\ cache' \subseteq Conversations
  <2>1. CASE UNCHANGED <<prompt, cache>> BY <1>2, <2>1 DEF PromptType, RestType
  <2>2. ASSUME NEW s \in CandidateSlots(hand[1]), NEW o \in SelectionOutcomes(hand[1], s),
               prompt' = [prompt EXCEPT ![s] = o.prompt], cache' = o.cache
        PROVE  PromptType' /\ cache' \subseteq Conversations
    <3>1. s \in Slots /\ o.prompt \in Conversations \cup {Empty} /\ o.cache \subseteq Conversations
      BY <1>2, <1>3, Selection
    <3> QED BY <1>2, <2>2, <3>1 DEF PromptType
  <2> QED BY <2>1, <2>2 DEF ProcessDeferred
<1>7. HandType' BY <1>1, PhaseFacts, HandEmpty
<1> QED BY <1>1, <1>2, <1>5, <1>6, <1>7, PhaseFacts, MovedStep DEF RestType

LEMMA UpdateBeginInv == ASSUME SlotInv, UpdateBegin PROVE SlotInv'
<1>1. /\ phase = "update"
      /\ UNCHANGED <<queue_tasks_deferred, hand, cursor, slot, prompt, cache, client, replies, cancelled>>
  BY DEF UpdateBegin
<1>2. TypeOK /\ QueueInv /\ PromptType /\ RestType /\ HandType /\ Onward BY <1>1, Parts
<1>3. PromptType' BY <1>1, <1>2 DEF PromptType
<1>4. CASE phase' = "wait" /\ queue_tasks' = queue_tasks
  <2>1. UNCHANGED queue BY <1>1, <1>4 DEF queue
  <2> QED BY <1>1, <1>2, <1>3, <1>4, <2>1, PhaseFacts, LoopStep DEF RestType
<1>5. CASE phase' = "slots" /\ queue_tasks' = Append(queue_tasks, NextResponse)
  <2>1. NextResponse \in Task /\ Of(NextResponse) = {} /\ MadeNext(NextResponse)
    BY TaskFacts DEF Of, MadeNext
  <2>2. Hands /\ HandType' BY <1>1, <1>2, <1>5, PhaseFacts, HandSame DEF Hands
  <2>3. QueueInv' /\ Requeued(Queued, Deferred, HeldNext)
    BY <1>1, <1>2, <1>5, <2>1, <2>2, QueueJoined
  <2>4. Placed' = Placed BY <1>1, <1>5, <2>3, PlacedIs DEF Requeued
  <2> QED BY <1>1, <1>2, <1>3, <1>5, <2>2, <2>3, <2>4, PhaseFacts, MovedStep DEF RestType
<1> QED BY <1>4, <1>5 DEF UpdateBegin

-----------------------------------------------------------------------------
(* The HTTP threads. *)

(* A client moves on: nothing happens on the slots. *)
LEMMA ClientStep ==
  ASSUME SlotInv, UNCHANGED <<phase, hand, cursor, slot, prompt, cache, replies, cancelled>>,
         QueueInv', client' \in [Requests -> {"new", "waiting", "done"}],
         \A r \in Requests : Steps(r)
  PROVE  SlotInv'
<1>1. TypeOK /\ Board /\ HandType /\ SlotType /\ PromptType /\ RestType BY Parts
<1>2. Ended' = Ended /\ errored' = errored BY DEF Ended, replies
<1>3. Steady BY <1>2 DEF Steady
<1>4. Board' BY <1>1, <1>3, BoardStays
<1>5. HandType' /\ SlotType' /\ PromptType' BY <1>1, HandSame, SlotTypeSame DEF PromptType
<1>6. RestType' BY <1>1 DEF RestType, replies
<1> QED BY <1>4, <1>5, <1>6, Assembled

LEMMA PostInv == ASSUME SlotInv, NEW r \in Requests, Post(r) PROVE SlotInv'
<1>1. /\ client[r] = "new" /\ client' = [client EXCEPT ![r] = "waiting"]
      /\ queue_tasks' = Append(queue_tasks, TaskOf(r)) /\ queue_tasks_deferred' = queue_tasks_deferred
      /\ UNCHANGED <<phase, hand, cursor, slot, prompt, cache, replies, cancelled>>
  BY DEF Post
<1>2. TypeOK /\ QueueInv /\ RestType BY Parts
<1>3. client \in [Requests -> {"new", "waiting", "done"}] BY <1>2 DEF RestType
<1>4. Onward /\ Hands /\ client'[r] = "waiting" /\ \A q \in Requests \ {r} : client'[q] = client[q]
  BY <1>1, <1>3 DEF Onward, Hands
<1>5. TaskOf(r) \in Task /\ MadeNext(TaskOf(r)) /\ Of(TaskOf(r)) = {r}
  BY TaskFacts, OfFacts DEF MadeNext
<1>6. r \notin Queued \cup Deferred \cup Held BY <1>1, <1>2 DEF QueueInv, Lines
<1>7. QueueInv' /\ Requeued(Queued \cup {r}, Deferred, HeldNext)
  BY <1>1, <1>2, <1>4, <1>5, <1>6, QueueJoined
<1>8. Placed' = Placed \cup {r} BY <1>1, <1>7 DEF Placed, Requeued, HeldNext, Holding
<1>9. Ended' = Ended BY <1>1 DEF Ended, replies
<1>10. \A q \in Requests : Steps(q) BY <1>1, <1>4, <1>8, <1>9 DEF Steps
<1>11. client' \in [Requests -> {"new", "waiting", "done"}] BY <1>1, <1>3
<1> QED BY <1>1, <1>7, <1>10, <1>11, ClientStep

LEMMA FinishInv == ASSUME SlotInv, NEW r \in Requests, Finish(r) PROVE SlotInv'
<1>1. /\ client[r] = "waiting" /\ client' = [client EXCEPT ![r] = "done"]
      /\ UNCHANGED <<queue, phase, hand, cursor, slot, prompt, cache, replies, cancelled>>
  BY DEF Finish
<1>2. QueueInv /\ RestType BY Parts
<1>3. client \in [Requests -> {"new", "waiting", "done"}] BY <1>2 DEF RestType
<1>4. Onward /\ Hands /\ client'[r] = "done" /\ \A q \in Requests \ {r} : client'[q] = client[q]
  BY <1>1, <1>3 DEF Onward, Hands
<1>5. QueueInv' /\ Requeued(Queued, Deferred, HeldNext) BY <1>1, <1>2, <1>4, QueueSame
<1>6. Placed' = Placed BY <1>1, <1>5 DEF Placed, Requeued, HeldNext, Holding
<1>7. Ended' = Ended BY <1>1 DEF Ended, replies
<1>8. \A q \in Requests : Steps(q) BY <1>1, <1>4, <1>6, <1>7 DEF Steps
<1>9. client' \in [Requests -> {"new", "waiting", "done"}] BY <1>1, <1>3
<1> QED BY <1>1, <1>5, <1>8, <1>9, ClientStep

LEMMA StopInv == ASSUME SlotInv, NEW r \in Requests, Stop(r) PROVE SlotInv'
<1>1. /\ client[r] = "waiting" /\ client' = [client EXCEPT ![r] = "done"]
      /\ UNCHANGED <<phase, hand, cursor, slot, prompt, cache, replies, cancelled>>
  BY DEF Stop
<1>2. TypeOK /\ QueueInv /\ RestType BY Parts
<1>3. client \in [Requests -> {"new", "waiting", "done"}] BY <1>2 DEF RestType
<1>4. Hands /\ client'[r] = "done" /\ \A q \in Requests \ {r} : client'[q] = client[q]
  BY <1>1, <1>3 DEF Hands
<1>5. /\ QueueInv' /\ Queued' = Queued \ {r} /\ Deferred' = Deferred \ {r} /\ Held' = Held
  BY <1>1, <1>2, <1>4, QueueStopped
<1>6. Placed' \subseteq Placed /\ Placed \subseteq Placed' \cup {r} BY <1>1, <1>5 DEF Placed
<1>7. Ended' = Ended BY <1>1 DEF Ended, replies
<1>8. \A q \in Requests : Steps(q) BY <1>1, <1>4, <1>6, <1>7 DEF Steps
<1>9. client' \in [Requests -> {"new", "waiting", "done"}] BY <1>1, <1>3
<1> QED BY <1>1, <1>5, <1>8, <1>9, ClientStep

-----------------------------------------------------------------------------
(* The steps that release a slot. *)

LEMMA ReleasedStep ==
  ASSUME SlotInv, NEW s \in Slots, FreeSlot(s), Placed' = Placed => MayRelease(s),
         prompt' \in {PromptsAfterRelease(s), [prompt EXCEPT ![s] = Empty]},
         Hands, HandType', phase' \in Phases \ {"callback"}, phase = "callback" => Held = {},
         cursor' \in 1..(NSlots + 1), UNCHANGED <<cache, client>>,
         answered' \subseteq Ids, errored' \subseteq Ids, cancelled' \subseteq Ids
  PROVE  SlotInv'
<1>1. TypeOK /\ QueueInv /\ Board /\ SlotType /\ PromptType /\ RestType /\ Onward BY Parts
<1>2. /\ slot' = SlotsAfterRelease(s) /\ queue_tasks' = QueueAfterRelease(s).tasks
      /\ queue_tasks_deferred' = QueueAfterRelease(s).deferred
  BY DEF FreeSlot
<1>3. QueueInv' /\ Queued' \cup Deferred' = Queued \cup Deferred
  BY <1>1, <1>2, QueueReleased
<1>4. Placed' = Placed BY <1>3, PlacedIs
<1>5. Board' BY <1>1, <1>4, BoardReleased
<1>6. SlotType' BY <1>1, <1>2, SlotTypeReleased
<1>7. PromptType' BY <1>1, PromptReleased DEF PromptType
<1>8. RestType' BY <1>1 DEF RestType
<1> QED BY <1>3, <1>5, <1>6, <1>7, <1>8, Assembled

(* The task of a busy slot. *)
LEMMA BusySlot ==
  ASSUME TypeOK, NEW s \in Slots, slot[s].state # "IDLE"
  PROVE  slot[s].task \in Ids
BY DEF TypeOK

LEMMA UndoLaunchInv == ASSUME SlotInv, UndoLaunch PROVE SlotInv'
<1>1. /\ phase = "undo"
      /\ UNCHANGED <<phase, hand, cursor, cache, client, replies, cancelled>>
  BY DEF UndoLaunch
<1>2. PICK s \in Slots : s \in LaunchedSlots /\ Release(s) BY DEF UndoLaunch, IsFirst
<1>3. TypeOK /\ Board /\ HandType /\ RestType BY Parts
<1>4. PICK r \in Requests : hand[1] = TaskOf(r) /\ SlotOf(r) = {} BY <1>1, <1>3 DEF Board, Places
<1>5. slot[s].task \in IdsOf(r) /\ slot[s].task \in Ids /\ slot[s].task # r
  BY <1>2, <1>4, TaskFacts, Owners DEF LaunchedSlots, SlotOf
<1>6. slot[s].state # "IDLE" BY <1>3, <1>5, RequestsAssumption DEF TypeOK
<1>7. slot[s].task \notin Requests BY <1>5, Owners
<1>8. slot[s].state # "STARTED" BY <1>3, <1>7 DEF Board, SlotTasks
<1>9. \A q \in Requests : slot[s].task \in IdsOf(q) => SlotOf(q) = {} BY <1>4, <1>5, Owners
<1>10. Ended' = Ended BY <1>1 DEF Ended, replies
<1>11. Placed' = Placed => MayRelease(s)
  BY <1>1, <1>2, <1>6, <1>7, <1>8, <1>9, <1>10, PhaseFacts DEF MayRelease, Release, FreeSlot, replies
<1>12. Hands /\ HandType' BY <1>1, <1>3, HandSame, PhaseFacts DEF Hands
<1> QED BY <1>1, <1>2, <1>3, <1>11, <1>12, PhaseFacts, ReleasedStep DEF Release, RestType, replies

LEMMA ProcessCancelInv == ASSUME SlotInv, ProcessCancel PROVE SlotInv'
<1>1. /\ phase = "callback" /\ hand[1].type = "cancel" /\ phase' = "pop" /\ hand' = <<>>
      /\ cancelled' = cancelled \cup {hand[1].id}
      /\ UNCHANGED <<cache, client, replies, cursor>>
  BY DEF ProcessCancel, Handled
<1>2. TypeOK /\ QueueInv /\ Board /\ PromptType /\ RestType /\ Onward BY <1>1, Parts
<1>3. Held = {} /\ \E r \in Requests : client[r] = "done" /\ hand[1].id \in IdsOf(r)
  BY <1>1, <1>2, HandCancel, PhaseFacts
<1>4. PICK r \in Requests : client[r] = "done" /\ hand[1].id \in IdsOf(r) BY <1>3
<1>5. hand[1].id \in Ids BY <1>4, Owners
<1>6. Hands /\ HandType' BY <1>1, PhaseFacts, HandEmpty DEF Hands
<1>7. cancelled' \subseteq Ids BY <1>1, <1>2, <1>5 DEF RestType
<1>8. CASE SlotOf(hand[1].id) = {} /\ UNCHANGED <<queue, slot, prompt>>
  <2>1. QueueInv' /\ Requeued(Queued, Deferred, HeldNext) BY <1>2, <1>6, <1>8, QueueSame
  <2>2. Placed' = Placed BY <1>1, <1>3, <2>1, PlacedIs DEF Requeued
  <2>3. Board' BY <1>1, <1>2, <1>8, <2>2, PhaseFacts, BoardIdle
  <2>4. SlotType' /\ PromptType' BY <1>2, <1>8, Parts, SlotTypeSame DEF PromptType
  <2>5. RestType' BY <1>1, <1>2, <1>7, PhaseFacts DEF RestType, replies
  <2> QED BY <1>6, <2>1, <2>3, <2>4, <2>5, Assembled
<1>9. ASSUME NEW s \in SlotOf(hand[1].id), Release(s) PROVE SlotInv'
  <2>1. s \in Slots /\ slot[s].task = hand[1].id BY DEF SlotOf
  <2>2. slot[s].state # "IDLE" BY <1>2, <1>5, <2>1, RequestsAssumption DEF TypeOK
  <2>3. slot[s].task \in Requests => client[slot[s].task] = "done" BY <1>4, <2>1, Owners
  <2>4. slot[s].state = "STARTED" => client[slot[s].task] = "done"
    BY <1>2, <2>1, <2>3 DEF Board, SlotTasks
  <2>5. Ended' = Ended BY <1>1 DEF Ended, replies
  <2>6. Placed' = Placed => MayRelease(s)
    BY <1>1, <1>9, <2>1, <2>2, <2>3, <2>4, <2>5, PhaseFacts DEF MayRelease, Release, FreeSlot, replies
  <2> QED BY <1>1, <1>2, <1>3, <1>6, <1>7, <1>9, <2>1, <2>6, PhaseFacts, ReleasedStep
          DEF Release, RestType, replies
<1> QED BY <1>8, <1>9 DEF ProcessCancel, IsFirst

(* The slots whose turn it is. *)
LEMMA SlotTurn ==
  ASSUME SlotInv, NEW s \in Slots, AtSlot(s), SlotDone
  PROVE  /\ phase = "slots" /\ phase' = "slots" /\ cursor' \in 1..(NSlots + 1)
         /\ UNCHANGED <<hand, cache, client, cancelled>> /\ Hands /\ HandType'
<1>1. phase = "slots" /\ s \in 1..NSlots /\ cursor = s BY DEF AtSlot, Slots
<1>2. phase' = phase /\ cursor' = cursor + 1 /\ UNCHANGED <<hand, cache, client, cancelled>>
  BY DEF SlotDone
<1>3. cursor' \in 1..(NSlots + 1) BY <1>1, <1>2, SlotsAssumption
<1>4. Hands /\ HandType' BY <1>1, <1>2, Parts, HandSame, PhaseFacts DEF Hands
<1> QED BY <1>1, <1>2, <1>3, <1>4

LEMMA SlotFinishesInv == ASSUME SlotInv, SlotFinishes PROVE SlotInv'
<1>1. PICK s \in Slots : /\ AtSlot(s) /\ slot[s].state = "GENERATING"
                         /\ answered' = answered \cup {slot[s].task} /\ Release(s)
  BY DEF SlotFinishes
<1>2. SlotDone /\ errored' = errored BY DEF SlotFinishes
<1>3. /\ phase = "slots" /\ phase' = "slots" /\ cursor' \in 1..(NSlots + 1)
      /\ UNCHANGED <<hand, cache, client, cancelled>> /\ Hands /\ HandType'
  BY <1>1, <1>2, SlotTurn
<1>4. TypeOK /\ Board /\ RestType BY Parts
<1>5. slot[s].task \in Ids BY <1>1, <1>4, BusySlot
<1>6. Ended' = Ended \cup {slot[s].task} BY <1>1, <1>2 DEF Ended
<1>7. Placed' = Placed => MayRelease(s)
  BY <1>1, <1>2, <1>3, <1>6, PhaseFacts DEF MayRelease, Release, FreeSlot
<1> QED BY <1>1, <1>2, <1>3, <1>4, <1>5, <1>7, PhaseFacts, ReleasedStep DEF Release, RestType

LEMMA SlotFailsInv == ASSUME SlotInv, SlotFails PROVE SlotInv'
<1>1. PICK s \in Slots : /\ AtSlot(s) /\ slot[s].state \in {"STARTED", "GENERATING"}
                         /\ errored' = errored \cup {slot[s].task} /\ Release(s)
  BY DEF SlotFails
<1>2. SlotDone /\ answered' = answered BY DEF SlotFails
<1>3. /\ phase = "slots" /\ phase' = "slots" /\ cursor' \in 1..(NSlots + 1)
      /\ UNCHANGED <<hand, cache, client, cancelled>> /\ Hands /\ HandType'
  BY <1>1, <1>2, SlotTurn
<1>4. TypeOK /\ Board /\ RestType BY Parts
<1>5. slot[s].task \in Ids BY <1>1, <1>4, BusySlot
<1>6. Ended' = Ended \cup {slot[s].task} BY <1>1, <1>2 DEF Ended
<1>7. Placed' = Placed => MayRelease(s)
  BY <1>1, <1>2, <1>3, <1>6, PhaseFacts DEF MayRelease, Release, FreeSlot
<1> QED BY <1>1, <1>2, <1>3, <1>4, <1>5, <1>7, PhaseFacts, ReleasedStep DEF Release, RestType

LEMMA AbortSlotInv == ASSUME SlotInv, AbortSlot PROVE SlotInv'
<1>1. /\ phase \in Aborting
      /\ UNCHANGED <<phase, hand, cursor, cache, client, answered, cancelled>>
  BY DEF AbortSlot
<1>2. PICK s \in Slots : /\ s \in Slots \ IdleSlots /\ errored' = errored \cup {slot[s].task}
                         /\ FreeSlot(s)
                         /\ prompt' = IF phase = "decode_error" THEN [prompt EXCEPT ![s] = Empty]
                                      ELSE PromptsAfterRelease(s)
  BY DEF AbortSlot, IsFirst
<1>3. TypeOK /\ Board /\ HandType /\ RestType BY Parts
<1>4. slot[s].state # "IDLE" BY <1>2 DEF IdleSlots, Processing
<1>5. slot[s].task \in Ids BY <1>3, <1>4, BusySlot
<1>6. Ended' = Ended \cup {slot[s].task} BY <1>1, <1>2 DEF Ended
<1>7. Placed' = Placed => MayRelease(s)
  BY <1>1, <1>2, <1>4, <1>6, PhaseFacts DEF MayRelease, FreeSlot
<1>8. Hands /\ HandType' BY <1>1, <1>3, HandSame, PhaseFacts DEF Hands
<1> QED BY <1>1, <1>2, <1>3, <1>5, <1>7, <1>8, PhaseFacts, ReleasedStep DEF RestType

-----------------------------------------------------------------------------
(* The steps that take slots, or answer a slot action. *)

(* The slots after children are launched are typed. *)
LEMMA LaunchedType ==
  ASSUME TypeOK, NEW r \in Requests, NEW s \in Slots, Enough(r, s),
         NEW n \in 0..Len(ChildrenOf[r]), NEW new, new = ChildrenLaunched(r, s, n)
  PROVE  /\ new \in [Slots -> [state : SlotState, task : Ids \cup {NoTask}]]
         /\ \A i \in Slots : new[i].task = NoTask <=> new[i].state = "IDLE"
<1> DEFINE T == ChildSlots(s, n)
<1>1. /\ DOMAIN new = Slots /\ \A i \in Slots \ T : new[i] = slot[i]
      /\ \A i \in T : new[i].state = "WAIT_OTHER" /\ new[i].task \in Range(ChildrenOf[r])
  BY ChildrenOnSlots DEF Spread
<1>2. \A i \in Slots : \/ new[i] = slot[i]
                       \/ new[i] = [state |-> "WAIT_OTHER", task |-> ChildrenOf[r][Number(i, s)]]
  BY DEF ChildrenLaunched
<1>3. new = [i \in Slots |-> new[i]] BY DEF ChildrenLaunched
<1>4. Range(ChildrenOf[r]) \subseteq Ids BY Owners DEF IdsOf
<1> HIDE DEF T
<1>5. ASSUME NEW i \in Slots
      PROVE  /\ new[i] \in [state : SlotState, task : Ids \cup {NoTask}]
             /\ new[i].task = NoTask <=> new[i].state = "IDLE"
  <2>1. CASE i \in T
    <3>1. new[i].state = "WAIT_OTHER" /\ new[i].task \in Ids /\ slot[i].state \in SlotState
      BY <1>1, <1>4, <2>1 DEF TypeOK
    <3>2. CASE new[i] = slot[i] BY <3>2 DEF TypeOK
    <3>3. CASE new[i] = [state |-> "WAIT_OTHER", task |-> ChildrenOf[r][Number(i, s)]]
      BY <3>1, <3>3, RequestsAssumption DEF SlotState
    <3> QED BY <1>2, <3>2, <3>3
  <2>2. CASE i \notin T BY <1>1, <2>2 DEF TypeOK
  <2> QED BY <2>1, <2>2
<1> QED BY <1>3, <1>5

(* A step that drops the task in hand or goes on with it: nothing is queued. *)
LEMMA HandledStep ==
  ASSUME SlotInv, phase = "callback", UNCHANGED <<queue, client>>, Hands, phase' # "callback"
  PROVE  QueueInv' /\ Placed' = Placed \ Held
<1>1. QueueInv /\ Onward BY Parts
<1>2. QueueInv' /\ Requeued(Queued, Deferred, HeldNext) BY <1>1, QueueSame
<1>3. Held \cap (Queued \cup Deferred) = {} BY <1>1 DEF QueueInv, Lines
<1> QED BY <1>2, <1>3, PlacedIs DEF Requeued

LEMMA ProcessLaunchInv == ASSUME SlotInv, ProcessLaunch PROVE SlotInv'
<1>1. /\ phase = "callback" /\ hand[1].type = "completion" /\ phase' = "pop" /\ hand' = <<>>
      /\ UNCHANGED <<queue, client, replies, cancelled, cursor>>
  BY DEF ProcessLaunch, Handled
<1>2. TypeOK /\ QueueInv /\ Board /\ PromptType /\ RestType BY Parts
<1>3. PICK r \in Requests : /\ hand[1] = TaskOf(r) /\ hand[1].id = r /\ Held = {r}
                            /\ client[r] # "new"
  BY <1>1, <1>2, HandTask, PhaseFacts
<1>4. PICK s \in CandidateSlots(TaskOf(r)) : \E o \in SelectionOutcomes(TaskOf(r), s) :
        /\ Enough(r, s) /\ slot' = Launched(r, s)
        /\ LET held == [prompt EXCEPT ![s] = o.prompt]
           IN  /\ cache' = o.cache \cup IdlePrompts(slot', held)
               /\ prompt' = ClearedIdle(slot', held)
  BY <1>3 DEF ProcessLaunch
<1>5. PICK o \in SelectionOutcomes(TaskOf(r), s) :
        /\ Enough(r, s) /\ slot' = Launched(r, s)
        /\ LET held == [prompt EXCEPT ![s] = o.prompt]
           IN  /\ cache' = o.cache \cup IdlePrompts(slot', held)
               /\ prompt' = ClearedIdle(slot', held)
  BY <1>4
<1>6. s \in Slots /\ o.prompt \in Conversations \cup {Empty} /\ o.cache \subseteq Conversations
  BY <1>2, Selection
<1> DEFINE n == Len(ChildrenOf[r])
           new == ChildrenLaunched(r, s, n)
           T == ChildSlots(s, n)
           held == [prompt EXCEPT ![s] = o.prompt]
<1>7. n \in 0..n BY RequestsAssumption
<1>8. /\ T \subseteq IdleSlots /\ s \notin T /\ s \in IdleSlots
      /\ DOMAIN new = Slots /\ \A i \in Slots \ T : new[i] = slot[i]
      /\ \A i \in T : new[i].state = "WAIT_OTHER" /\ new[i].task \in Range(ChildrenOf[r])
      /\ \A i, j \in T : new[i].task = new[j].task => i = j
      /\ \A c \in Range(ChildrenOf[r]) : \E i \in T : new[i].task = c
  <2>1. Spread(r, s, n, new, T) BY <1>2, <1>5, <1>6, <1>7, ChildrenOnSlots
  <2> HIDE DEF n, new, T, held
  <2>2. n = Len(ChildrenOf[r]) BY DEF n
  <2> QED BY <2>1, <2>2 DEF Spread
<1>9. /\ new \in [Slots -> [state : SlotState, task : Ids \cup {NoTask}]]
      /\ \A i \in Slots : new[i].task = NoTask <=> new[i].state = "IDLE"
  BY <1>2, <1>5, <1>6, <1>7, LaunchedType
<1>10. slot' = [new EXCEPT ![s] = [state |-> "STARTED", task |-> r]] BY <1>5 DEF Launched
<1>11. held \in [Slots -> Conversations \cup {Empty}] BY <1>2, <1>6 DEF PromptType
<1>12. cache' = o.cache \cup IdlePrompts(slot', held) /\ prompt' = ClearedIdle(slot', held)
  BY <1>5
<1> HIDE DEF n, new, T, held
<1>13. slot'[s] = [state |-> "STARTED", task |-> r] /\ \A i \in Slots \ {s} : slot'[i] = new[i]
  BY <1>6, <1>9, <1>10
<1>14. Hands /\ HandType' BY <1>1, PhaseFacts, HandEmpty DEF Hands
<1>15. QueueInv' /\ Placed' = Placed \ {r} BY <1>1, <1>3, <1>14, HandledStep
<1>16. T \subseteq Slots /\ s \notin T BY <1>8 DEF IdleSlots
<1>17. r \notin Range(ChildrenOf[r]) BY Owners, RequestsAssumption
<1>18. LaunchesOn(r, T, {s})
  <2>1. T \subseteq IdleSlots /\ {s} \subseteq IdleSlots BY <1>8
  <2>2. \A i \in Slots \ (T \cup {s}) : slot'[i] = slot[i] BY <1>8, <1>13
  <2>3. \A i \in T : slot'[i].state = "WAIT_OTHER" /\ slot'[i].task \in Range(ChildrenOf[r])
    BY <1>8, <1>13, <1>16
  <2>4. \A i \in {s} : slot'[i].state = "STARTED" /\ slot'[i].task = r BY <1>13
  <2>5. \A i, j \in T \cup {s} : slot'[i].task = slot'[j].task => i = j
    BY <1>8, <1>13, <1>16, <1>17, <2>3, <2>4
  <2>6. \A c \in Range(ChildrenOf[r]) : \E i \in T : slot'[i].task = c BY <1>8, <1>13, <1>16
  <2>7. Ended' = Ended /\ errored' = errored BY <1>1 DEF Ended, replies
  <2> QED BY <1>1, <1>15, <2>1, <2>2, <2>3, <2>4, <2>5, <2>6, <2>7 DEF LaunchesOn
<1>19. r \in Placed BY <1>1, <1>3 DEF Placed
<1>20. Board' BY <1>1, <1>2, <1>3, <1>18, <1>19, BoardLaunched
<1>21. SlotType'
  <2>1. [state |-> "STARTED", task |-> r] \in [state : SlotState, task : Ids \cup {NoTask}]
        /\ r # NoTask
    BY RequestsAssumption DEF SlotState, Ids
  <2>2. slot' \in [Slots -> [state : SlotState, task : Ids \cup {NoTask}]]
    BY <1>9, <1>10, <2>1
  <2>3. \A i \in Slots : slot'[i].task = NoTask <=> slot'[i].state = "IDLE"
    BY <1>9, <1>13, <2>1
  <2> QED BY <2>2, <2>3 DEF SlotType, SlotState
<1>22. PromptType' BY <1>11, <1>12 DEF PromptType, ClearedIdle
<1>23. cache' \subseteq Conversations BY <1>6, <1>11, <1>12 DEF IdlePrompts
<1>24. RestType' BY <1>1, <1>2, <1>23, PhaseFacts DEF RestType, replies
<1> QED BY <1>14, <1>15, <1>20, <1>21, <1>22, <1>24, Assembled

LEMMA ProcessLaunchFailsInv == ASSUME SlotInv, ProcessLaunchFails PROVE SlotInv'
<1>1. /\ phase = "callback" /\ hand[1].type = "completion" /\ phase' = "undo"
      /\ UNCHANGED <<queue, hand, cursor, client, answered, cancelled>>
  BY DEF ProcessLaunchFails
<1>2. TypeOK /\ QueueInv /\ Board /\ PromptType /\ HandType /\ RestType BY Parts
<1>3. PICK r \in Requests : /\ hand[1] = TaskOf(r) /\ hand[1].id = r /\ Held = {r}
                            /\ client[r] # "new"
  BY <1>1, <1>2, HandTask, PhaseFacts
<1>4. PICK s \in CandidateSlots(TaskOf(r)) : \E o \in SelectionOutcomes(TaskOf(r), s) :
      \E n \in 0..Len(ChildrenOf[r]) :
        /\ Enough(r, s) /\ slot' = ChildrenLaunched(r, s, n)
        /\ errored' = errored \cup {IF n < Len(ChildrenOf[r]) THEN ChildrenOf[r][n + 1] ELSE r}
        /\ prompt' = [prompt EXCEPT ![s] = o.prompt] /\ cache' = o.cache
  BY <1>3 DEF ProcessLaunchFails
<1>5. PICK o \in SelectionOutcomes(TaskOf(r), s) : \E n \in 0..Len(ChildrenOf[r]) :
        /\ Enough(r, s) /\ slot' = ChildrenLaunched(r, s, n)
        /\ errored' = errored \cup {IF n < Len(ChildrenOf[r]) THEN ChildrenOf[r][n + 1] ELSE r}
        /\ prompt' = [prompt EXCEPT ![s] = o.prompt] /\ cache' = o.cache
  BY <1>4
<1>6. PICK n \in 0..Len(ChildrenOf[r]) :
        /\ Enough(r, s) /\ slot' = ChildrenLaunched(r, s, n)
        /\ errored' = errored \cup {IF n < Len(ChildrenOf[r]) THEN ChildrenOf[r][n + 1] ELSE r}
        /\ prompt' = [prompt EXCEPT ![s] = o.prompt] /\ cache' = o.cache
  BY <1>5
<1>7. s \in Slots /\ o.prompt \in Conversations \cup {Empty} /\ o.cache \subseteq Conversations
  BY <1>2, Selection
<1> DEFINE new == ChildrenLaunched(r, s, n)
           T == ChildSlots(s, n)
           id == IF n < Len(ChildrenOf[r]) THEN ChildrenOf[r][n + 1] ELSE r
<1>8. Spread(r, s, n, new, T) BY <1>2, <1>6, <1>7, ChildrenOnSlots
<1>9. /\ new \in [Slots -> [state : SlotState, task : Ids \cup {NoTask}]]
      /\ \A i \in Slots : new[i].task = NoTask <=> new[i].state = "IDLE"
  BY <1>2, <1>6, <1>7, LaunchedType
<1>10. id \in IdsOf(r) /\ id \in Ids
  <2>1. ChildrenOf[r] \in Seq(ChildIds) BY RequestsAssumption
  <2>2. CASE n < Len(ChildrenOf[r])
    <3>1. n + 1 \in DOMAIN ChildrenOf[r] BY <2>1, <2>2
    <3> QED BY <2>2, <3>1, Owners DEF IdsOf, Range
  <2>3. CASE ~(n < Len(ChildrenOf[r])) BY <2>3, Owners
  <2> QED BY <2>2, <2>3
<1>11. slot' = new /\ errored' = errored \cup {id} BY <1>6
<1> HIDE DEF new, T, id
<1>12. /\ T \subseteq IdleSlots /\ \A i \in Slots \ T : slot'[i] = slot[i]
       /\ \A i \in T : slot'[i].state = "WAIT_OTHER" /\ slot'[i].task \in Range(ChildrenOf[r])
       /\ \A i, j \in T : slot'[i].task = slot'[j].task => i = j
  BY <1>8, <1>11 DEF Spread
<1>13. Hands /\ HandType' BY <1>1, <1>2, PhaseFacts, HandSame DEF Hands
<1>14. QueueInv' /\ Placed' = Placed \ {r} BY <1>1, <1>3, <1>13, HandledStep
<1>15. LaunchesOn(r, T, {})
  <2>1. Ended' = Ended \cup {id} BY <1>1, <1>11 DEF Ended
  <2>2. IdsOf(r) \cap errored' # {} BY <1>10, <1>11
  <2>3. client' = client /\ cancelled' = cancelled /\ errored \subseteq errored' BY <1>1, <1>11
  <2> QED BY <1>1, <1>10, <1>12, <1>14, <2>1, <2>2, <2>3 DEF LaunchesOn
<1>16. r \in Placed BY <1>1, <1>3 DEF Placed
<1>17. Board' BY <1>1, <1>2, <1>3, <1>15, <1>16, BoardLaunched
<1>18. SlotType' BY <1>9, <1>11 DEF SlotType, SlotState
<1>19. PromptType' BY <1>2, <1>6, <1>7 DEF PromptType
<1>20. RestType' BY <1>1, <1>2, <1>6, <1>7, <1>10, <1>11, PhaseFacts DEF RestType
<1> QED BY <1>13, <1>14, <1>17, <1>18, <1>19, <1>20, Assembled

LEMMA ProcessSlotActionInv == ASSUME SlotInv, ProcessSlotAction PROVE SlotInv'
<1>1. /\ phase = "callback" /\ hand[1].type = "erase" /\ phase' = "pop" /\ hand' = <<>>
      /\ UNCHANGED <<slot, cache, client, cancelled, cursor>>
  BY DEF ProcessSlotAction, Handled
<1>2. TypeOK /\ QueueInv /\ Board /\ PromptType /\ RestType /\ Onward BY <1>1, Parts
<1>3. PICK r \in Requests : /\ hand[1] = TaskOf(r) /\ hand[1].id = r /\ Held = {r}
                            /\ client[r] # "new"
  BY <1>1, <1>2, HandTask, PhaseFacts
<1>4. r \in Ids BY DEF Ids
<1>5. Hands /\ HandType' BY <1>1, PhaseFacts, HandEmpty DEF Hands
<1>6. PromptType'
  <2>1. prompt' = prompt \/ \E s \in Slots : prompt' = [prompt EXCEPT ![s] = Empty]
    BY <1>3, RequestsAssumption DEF ProcessSlotAction
  <2> QED BY <1>2, <2>1 DEF PromptType
<1>7. CASE Defer(hand[1]) /\ UNCHANGED replies
  <2>1. Of(hand[1]) # {} BY <1>3 DEF Of
  <2>2. QueueInv' /\ Placed' = Placed BY <1>1, <1>2, <1>7, <2>1, QueueDeferred
  <2> QED BY <1>1, <1>2, <1>5, <1>6, <1>7, <2>2, PhaseFacts, MovedStep DEF RestType
<1>8. CASE /\ UNCHANGED queue /\ answered \subseteq answered' /\ errored \subseteq errored'
           /\ Ended' = Ended \cup {r}
  <2>1. QueueInv' /\ Placed' = Placed \ {r} BY <1>1, <1>3, <1>5, <1>8, HandledStep
  <2>2. r \in Placed BY <1>1, <1>3 DEF Placed
  <2>3. Steady BY <1>1, <1>8, PhaseFacts DEF Steady
  <2>4. \A q \in Requests : Steps(q) BY <1>1, <1>3, <1>8, <2>1, <2>2 DEF Steps
  <2>5. Board' BY <1>2, <2>3, <2>4, BoardStays
  <2>6. SlotType' BY <1>1, Parts, SlotTypeSame
  <2>7. Ended' \subseteq Ids BY <1>2, <1>4, <1>8 DEF RestType, Ended
  <2>8. RestType' BY <1>1, <1>2, <2>7, PhaseFacts DEF RestType, Ended
  <2> QED BY <1>5, <1>6, <2>1, <2>5, <2>6, <2>8, Assembled
<1>9. \/ Defer(hand[1]) /\ UNCHANGED replies
      \/ UNCHANGED queue /\ answered' = answered /\ errored' = errored \cup {r}
      \/ UNCHANGED queue /\ answered' = answered \cup {r} /\ errored' = errored
  BY <1>3 DEF ProcessSlotAction
<1> QED BY <1>7, <1>8, <1>9 DEF Ended

LEMMA PromptDoneInv == ASSUME SlotInv, PromptDone PROVE SlotInv'
<1>1. SlotDone /\ UNCHANGED <<queue, replies>> BY DEF PromptDone
<1>2. PICK s \in Slots :
       /\ AtSlot(s) /\ slot[s].state = "STARTED"
       /\ LET r == slot[s].task
              children == WaitingChildren(r)
          IN  /\ slot' = [i \in Slots |-> IF i \in children \cup {s}
                                          THEN [slot[i] EXCEPT !.state = "GENERATING"]
                                          ELSE slot[i]]
              /\ prompt' = [i \in Slots |-> IF i \in children \cup {s} THEN Conv[r]
                                            ELSE prompt[i]]
  BY DEF PromptDone
<1>3. /\ phase = "slots" /\ phase' = "slots" /\ cursor' \in 1..(NSlots + 1)
      /\ UNCHANGED <<hand, cache, client, cancelled>> /\ Hands /\ HandType'
  BY <1>1, <1>2, SlotTurn
<1>4. TypeOK /\ QueueInv /\ Board /\ SlotType /\ PromptType /\ RestType /\ Onward BY <1>3, Parts
<1>5. QueueInv' /\ Requeued(Queued, Deferred, HeldNext) BY <1>1, <1>3, <1>4, QueueSame
<1>6. Placed' = Placed BY <1>3, <1>5, PlacedIs DEF Requeued
<1>7. PromptOn(s) BY <1>1, <1>2, <1>3, <1>6, PhaseFacts DEF PromptOn
<1>8. Board' BY <1>4, <1>7, BoardPrompt
<1>9. slot[s].task \in Requests BY <1>2, <1>4 DEF Board, SlotTasks
<1> DEFINE W == WaitingChildren(slot[s].task) \cup {s}
<1>10. /\ slot' = [i \in Slots |-> IF i \in W THEN [slot[i] EXCEPT !.state = "GENERATING"]
                                   ELSE slot[i]]
       /\ prompt' = [i \in Slots |-> IF i \in W THEN Conv[slot[s].task] ELSE prompt[i]]
  BY <1>2
<1>11. \A i \in W : i \in Slots /\ slot[i].state # "IDLE" BY <1>2 DEF WaitingChildren
<1> HIDE DEF W
<1>12. SlotType' BY <1>4, <1>10, <1>11 DEF SlotType, SlotState
<1>13. Conv[slot[s].task] \in Conversations BY <1>9, RequestsAssumption
<1>14. PromptType' BY <1>4, <1>10, <1>13 DEF PromptType
<1>15. RestType' BY <1>1, <1>3, <1>4, PhaseFacts DEF RestType, replies
<1> QED BY <1>3, <1>5, <1>8, <1>12, <1>14, <1>15, Assembled

-----------------------------------------------------------------------------
(* The invariant. *)

LEMMA NoTasksYet ==
  ASSUME NEW deque, deque = <<>>
  PROVE  Good(deque) /\ Reqs(deque) = {} /\ Range(deque) = {}
<1>1. Range(deque) = {} /\ \A c, e : ~Before(deque, c, e) BY DEF Range, Before
<1> QED BY <1>1 DEF Good, Reqs

LEMMA InitInv == ASSUME Init PROVE SlotInv
<1>1. /\ phase = "wait" /\ phase \notin Holding /\ \A s \in Slots : slot[s] = IdleSlot
      /\ \A r \in Requests : client[r] = "new"
      /\ answered = {} /\ errored = {} /\ hand = <<>>
  BY PhaseFacts DEF Init, IdleSlot
<1>2. /\ Good(queue_tasks) /\ Queued = {} /\ Range(queue_tasks) = {}
      /\ Good(queue_tasks_deferred) /\ Deferred = {} /\ Range(queue_tasks_deferred) = {}
  BY NoTasksYet DEF Init, Queued, Deferred
<1>3. Held = {} /\ Placed = {} BY <1>1, <1>2 DEF Held, Placed
<1>4. QueueInv BY <1>1, <1>2, <1>3 DEF QueueInv, Origins, Lines
<1>5. IdleSlot.state = "IDLE" /\ IdleSlot.task = NoTask BY DEF IdleSlot
<1>6. \A id \in Ids : SlotOf(id) = {} BY <1>1, <1>5, RequestsAssumption DEF SlotOf
<1>7. Board
  <2>1. SlotTasks BY <1>1, <1>5 DEF SlotTasks
  <2>2. Places BY <1>1, <1>3, <1>6, Owners DEF Places, Ended, Ids
  <2>3. Kept BY <1>1 DEF Kept
  <2>4. NoStrandedChild /\ ChildrenHoldSlots
    BY <1>1, <1>5 DEF NoStrandedChild, ChildrenHoldSlots
  <2> QED BY <2>1, <2>2, <2>3, <2>4 DEF Board
<1>8. TypeOK
  <2>1. slot \in [Slots -> [state : SlotState, task : Ids \cup {NoTask}]]
    BY DEF Init, SlotState
  <2>2. \A s \in Slots : slot[s].task = NoTask <=> slot[s].state = "IDLE" BY <1>1, <1>5
  <2>3. cursor \in 1..(NSlots + 1) BY SlotsAssumption DEF Init
  <2>4. queue_tasks \in Seq(Task) /\ queue_tasks_deferred \in Seq(Task) BY <1>2 DEF Good
  <2>5. hand \in Seq(Task) /\ Len(hand) = 0 BY <1>1
  <2>6. /\ prompt \in [Slots -> Conversations \cup {Empty}] /\ cache \subseteq Conversations
        /\ client \in [Requests -> {"new", "waiting", "done"}]
        /\ answered \subseteq Ids /\ errored \subseteq Ids /\ cancelled \subseteq Ids
    BY DEF Init
  <2> QED BY <1>1, <2>1, <2>2, <2>3, <2>4, <2>5, <2>6, PhaseFacts DEF TypeOK
<1> QED BY <1>4, <1>7, <1>8 DEF SlotInv

LEMMA StutterInv == ASSUME SlotInv, UNCHANGED vars PROVE SlotInv'
<1>1. UNCHANGED <<queue, phase, hand, cursor, slot, prompt, cache, client, replies, cancelled>>
  BY DEF vars
<1>2. TypeOK /\ QueueInv /\ Board /\ HandType /\ SlotType /\ PromptType /\ RestType /\ Onward
  BY <1>1, Parts
<1>3. Hands BY <1>1 DEF Hands
<1>4. QueueInv' BY <1>1, <1>2, <1>3, QueueSame
<1>5. Placed' = Placed
  BY <1>1 DEF Placed, Queued, Deferred, Held, Reqs, Of, TaskOf, queue
<1>6. Ended' = Ended BY <1>1 DEF Ended, replies
<1>7. \A r \in Requests : Steps(r) BY <1>1, <1>5, <1>6 DEF Steps
<1> QED BY <1>1, <1>2, <1>4, <1>7, ClientStep DEF RestType

LEMMA MainInv == ASSUME SlotInv, MainNext PROVE SlotInv'
<1>1. CASE Pop \/ ProcessDeferred \/ UpdateBegin
  BY <1>1, PopInv, ProcessDeferredInv, UpdateBeginInv
<1>2. CASE ProcessLaunch \/ ProcessLaunchFails \/ ProcessSlotAction \/ PromptDone
  BY <1>2, ProcessLaunchInv, ProcessLaunchFailsInv, ProcessSlotActionInv, PromptDoneInv
<1>3. CASE UndoLaunch \/ ProcessCancel \/ SlotFinishes \/ SlotFails \/ AbortSlot
  BY <1>3, UndoLaunchInv, ProcessCancelInv, SlotFinishesInv, SlotFailsInv, AbortSlotInv
<1>4. CASE UndoEnds \/ ProcessNextResponse
  BY <1>4, UndoEndsInv, ProcessNextResponseInv
<1>5. CASE BatchFails \/ AbortEnds \/ PurgeIdleSlot \/ UpdateEnd \/ WaitEnd \/ SkipSlot
  BY <1>5, LoopInv
<1> QED BY <1>1, <1>2, <1>3, <1>4, <1>5, Zenon DEF MainNext

LEMMA NextInv == ASSUME SlotInv, [Next]_vars PROVE SlotInv'
<1>1. CASE MainNext BY <1>1, MainInv
<1>2. ASSUME NEW r \in Requests, Post(r) \/ ClientNext(r) \/ Disconnect(r) PROVE SlotInv'
  <2>1. Post(r) \/ Finish(r) \/ Stop(r) BY <1>2 DEF ClientNext, StopOnError, Disconnect
  <2> QED BY <2>1, PostInv, FinishInv, StopInv
<1>3. CASE UNCHANGED vars BY <1>3, StutterInv
<1> QED BY <1>1, <1>2, <1>3, Zenon DEF Next

LEMMA Inductive == Spec => []SlotInv
<1>1. Init => SlotInv BY InitInv
<1>2. SlotInv /\ [Next]_vars => SlotInv' BY NextInv
<1> QED BY <1>1, <1>2, PTL DEF Spec

-----------------------------------------------------------------------------
(* What follows. *)

(* The state of the main loop, of the slots and of the prompts stays typed: a slot *)
(* is idle exactly when it has no task, whatever is launched, released or aborted. *)
THEOREM TypeCorrect == Spec => []TypeOK
<1>1. SlotInv => TypeOK BY DEF SlotInv
<1> QED BY <1>1, Inductive, PTL

(* What is pending is what is placed. *)
LEMMA PendingPlaced ==
  ASSUME SlotInv
  PROVE  \A r \in Requests : r \in Pending <=> r \in Placed
<1> DEFINE line == Offered \o queue_tasks \o queue_tasks_deferred
<1>1. TypeOK /\ QueueInv BY DEF SlotInv
<1>2. Offered \in Seq(Task) /\ queue_tasks \in Seq(Task) /\ queue_tasks_deferred \in Seq(Task)
  BY <1>1 DEF TypeOK, Offered
<1>3. Range(line) = Range(Offered) \cup Range(queue_tasks) \cup Range(queue_tasks_deferred)
  <2>1. Offered \o queue_tasks \in Seq(Task)
        /\ Range(Offered \o queue_tasks) = Range(Offered) \cup Range(queue_tasks)
    BY <1>2, ConcatOrder
  <2> QED BY <1>2, <2>1, ConcatOrder
<1>4. /\ phase # "callback" => Range(Offered) = {}
      /\ phase = "callback" => Range(Offered) = {hand[1]}
  <2>1. CASE phase # "callback" BY <2>1 DEF Offered, Range
  <2>2. CASE phase = "callback"
    <3>1. hand \in Seq(Task) /\ Len(hand) = 1 BY <1>1, <2>2, PhaseFacts DEF TypeOK
    <3>2. DOMAIN hand = {1} BY <3>1
    <3> QED BY <2>2, <3>2 DEF Offered, Range
  <2> QED BY <2>1, <2>2
<1> HIDE DEF line
<1>5. \A t \in Range(line) : Made(t)
  BY <1>1, <1>3, <1>4, PhaseFacts DEF QueueInv, Origins, Of, Made
<1>6. \A r \in Requests : r \in Placed <=> TaskOf(r) \in Range(line)
  <2>1. phase = "callback" => \A r \in Requests : r \in Held <=> TaskOf(r) = hand[1]
    BY PhaseFacts DEF Held, Of
  <2> QED BY <1>3, <1>4, <2>1 DEF Placed, Queued, Deferred, Reqs
<1>7. ASSUME NEW r \in Requests, r \in Pending PROVE TaskOf(r) \in Range(line)
  <2>1. PICK t \in Range(line) : t.type \in {"completion", "erase"} /\ t.id = r
    BY <1>7 DEF Pending, line
  <2>2. Made(t) BY <1>5, <2>1
  <2>3. t # NextResponse BY <2>1, TaskFacts
  <2>4. \A q \in Requests : \A id \in IdsOf(q) : t # CancelOf(id) BY <2>1, TaskFacts, Owners
  <2>5. PICK q \in Requests : t = TaskOf(q) BY <2>2, <2>3, <2>4 DEF Made
  <2> QED BY <2>1, <2>5, TaskFacts
<1>8. ASSUME NEW r \in Requests, TaskOf(r) \in Range(line) PROVE r \in Pending
  BY <1>8, TaskFacts DEF Pending, line
<1> QED BY <1>6, <1>7, <1>8

(* No request is lost or worked on twice: through every deferral, launch, failed   *)
(* launch, abort and cancellation its task is queued, or on one slot, or ended, and *)
(* only one of these, and nothing a client waits for is dropped without an error.  *)
THEOREM RequestsAreKept == Spec => []RequestConservation
<1>1. ASSUME SlotInv PROVE RequestConservation
  <2>1. Board BY <1>1 DEF SlotInv
  <2>2. ASSUME NEW id \in Ids PROVE Cardinality(SlotOf(id)) <= 1
    <3>1. \A s, i \in SlotOf(id) : s = i
      BY <2>1, RequestsAssumption DEF Board, SlotTasks, SlotOf
    <3>2. CASE SlotOf(id) = {} BY <3>2, FS_EmptySet
    <3>3. CASE SlotOf(id) # {}
      <4>1. PICK s : s \in SlotOf(id) BY <3>3
      <4>2. SlotOf(id) = {s} BY <3>1, <4>1
      <4>3. Cardinality({s}) = 1 BY FS_Singleton
      <4> QED BY <4>2, <4>3
    <3> QED BY <3>2, <3>3
  <2>3. ASSUME NEW r \in Requests
        PROVE  /\ r \in Pending => SlotOf(r) = {} /\ r \notin Ended
               /\ SlotOf(r) # {} => r \notin Ended
               /\ client[r] = "waiting" =>
                    r \in Pending \cup Ended \/ SlotOf(r) # {} \/ IdsOf(r) \cap errored # {}
    <3>1. r \in Pending <=> r \in Placed BY <1>1, PendingPlaced
    <3>2. r \in IdsOf(r) BY Owners
    <3> QED BY <2>1, <3>1, <3>2 DEF Board, Places, Kept
  <2> QED BY <2>2, <2>3 DEF RequestConservation
<1> QED BY <1>1, Inductive, PTL

(* No child waits for a prompt nobody works on: as long as a client waits for the   *)
(* request, its STARTED slot is there or an error has been sent.                    *)
THEOREM NoChildIsStranded == Spec => []NoStrandedChild
<1>1. SlotInv => NoStrandedChild BY DEF SlotInv, Board
<1> QED BY <1>1, Inductive, PTL

(* A launch of n_cmpl > 1 is all or nothing: while the parent works on the prompt   *)
(* each child waits on a slot of its own, unless it was cancelled.                  *)
THEOREM ChildrenAreHeld == Spec => []ChildrenHoldSlots
<1>1. SlotInv => ChildrenHoldSlots BY DEF SlotInv, Board
<1> QED BY <1>1, Inductive, PTL

-----------------------------------------------------------------------------
(* The prompt of a generating slot.  A completion that names a slot may be given a *)
(* busy one, whose prompt the selection then saves and replaces before it finds    *)
(* the slot busy (run slots_busy_prompt): the theorem is about the rest.           *)

NoSlotNamed == \A r \in Requests : Kind[r] = "completion" => IdSlot[r] = NoSlot

LEMMA IdleCandidates ==
  ASSUME NoSlotNamed, NEW r \in Requests
  PROVE  CandidateSlots(TaskOf(r)) \subseteq IdleSlots
<1>1. TaskOf(r).id_slot = NoSlot BY RequestsAssumption DEF NoSlotNamed, TaskOf
<1> QED BY <1>1 DEF CandidateSlots, SimilarSlots

(* A slot that generates goes on with its task and its prompt. *)
GoesOn(s) ==
  slot'[s].state = "GENERATING" =>
    slot[s].state = "GENERATING" /\ slot'[s].task = slot[s].task /\ prompt'[s] = prompt[s]

LEMMA PromptKept ==
  ASSUME OwnPrompt, \A s \in Slots : GoesOn(s)
  PROVE  OwnPrompt'
<1>1. ASSUME NEW s \in Slots, slot'[s].state = "GENERATING"
      PROVE  prompt'[s] = Conv[RequestOf(slot'[s].task)]
  <2>1. /\ slot[s].state = "GENERATING" /\ slot'[s].task = slot[s].task
        /\ prompt'[s] = prompt[s]
    BY <1>1 DEF GoesOn
  <2> QED BY <2>1 DEF OwnPrompt
<1> QED BY <1>1 DEF OwnPrompt, RequestOf, IdsOf

(* Only the prompt of a slot that does not generate changes. *)
LEMMA OnePrompt ==
  ASSUME SlotInv, NEW s \in Slots, slot[s].state # "GENERATING", NEW p,
         prompt' = [prompt EXCEPT ![s] = p], slot' = slot
  PROVE  \A i \in Slots : GoesOn(i)
BY Parts DEF GoesOn, PromptType

LEMMA SamePrompts == UNCHANGED <<slot, prompt>> => \A i \in Slots : GoesOn(i)
BY DEF GoesOn

LEMMA ReleasedPrompts ==
  ASSUME SlotInv, NEW s \in Slots, FreeSlot(s),
         prompt' \in {PromptsAfterRelease(s), [prompt EXCEPT ![s] = Empty]}
  PROVE  \A i \in Slots : GoesOn(i)
<1>1. TypeOK /\ PromptType BY Parts
<1>2. slot'[s] = IdleSlot /\ \A i \in Slots \ {s} : slot'[i] = slot[i]
  BY <1>1, SlotFreed DEF FreeSlot
<1>3. \A i \in Slots \ {s} : prompt'[i] = prompt[i]
  BY <1>1 DEF PromptsAfterRelease, PromptType
<1> QED BY <1>2, <1>3 DEF GoesOn, IdleSlot

LEMMA LaunchPrompts ==
  ASSUME SlotInv, NoSlotNamed, ProcessDeferred \/ ProcessLaunch \/ ProcessLaunchFails
  PROVE  \A i \in Slots : GoesOn(i)
<1>1. phase = "callback" /\ hand[1].type = "completion"
  BY DEF ProcessDeferred, ProcessLaunch, ProcessLaunchFails
<1>2. TypeOK /\ QueueInv /\ PromptType BY Parts
<1>3. PICK r \in Requests : hand[1] = TaskOf(r) /\ hand[1].id = r
  BY <1>1, <1>2, HandTask, PhaseFacts
<1>4. \A s \in CandidateSlots(hand[1]) : s \in Slots /\ slot[s].state = "IDLE"
  BY <1>3, IdleCandidates DEF IdleSlots, Processing
<1>5. CASE ProcessDeferred
  <2>1. \/ UNCHANGED <<slot, prompt>>
        \/ \E s \in CandidateSlots(hand[1]) : \E o \in SelectionOutcomes(hand[1], s) :
             prompt' = [prompt EXCEPT ![s] = o.prompt] /\ slot' = slot
    BY <1>5 DEF ProcessDeferred
  <2>2. CASE UNCHANGED <<slot, prompt>> BY <2>2, SamePrompts
  <2>3. ASSUME NEW s \in CandidateSlots(hand[1]), NEW o \in SelectionOutcomes(hand[1], s),
               prompt' = [prompt EXCEPT ![s] = o.prompt], slot' = slot
        PROVE  \A i \in Slots : GoesOn(i)
    BY <1>4, <2>3, OnePrompt
  <2> QED BY <2>1, <2>2, <2>3
<1>6. ASSUME NEW s \in Slots, slot[s].state = "IDLE", NEW n, NEW i \in Slots
      PROVE  LET new == ChildrenLaunched(r, s, n)
             IN  new[i].state = "GENERATING" => new[i] = slot[i] /\ i # s
  BY <1>6 DEF ChildrenLaunched, FreeSlots
<1>7. CASE ProcessLaunch
  <2>1. PICK s \in CandidateSlots(hand[1]) : \E o \in SelectionOutcomes(hand[1], s) :
          /\ slot' = Launched(r, s)
          /\ prompt' = ClearedIdle(slot', [prompt EXCEPT ![s] = o.prompt])
    BY <1>3, <1>7 DEF ProcessLaunch
  <2>2. PICK o \in SelectionOutcomes(hand[1], s) :
          /\ slot' = Launched(r, s)
          /\ prompt' = ClearedIdle(slot', [prompt EXCEPT ![s] = o.prompt])
    BY <2>1
  <2>3. s \in Slots /\ slot[s].state = "IDLE" BY <1>4
  <2> DEFINE new == ChildrenLaunched(r, s, Len(ChildrenOf[r]))
  <2>4. \A i \in Slots : new[i].state = "GENERATING" => new[i] = slot[i] /\ i # s
    BY <1>6, <2>3
  <2>5. slot' = [new EXCEPT ![s] = [state |-> "STARTED", task |-> r]] /\ DOMAIN new = Slots
    BY <2>2 DEF Launched, ChildrenLaunched
  <2> HIDE DEF new
  <2>6. ASSUME NEW i \in Slots, slot'[i].state = "GENERATING"
        PROVE  i # s /\ slot'[i] = slot[i] /\ prompt'[i] = prompt[i]
    <3>1. i # s BY <2>3, <2>5, <2>6
    <3>2. slot'[i] = slot[i] BY <2>4, <2>5, <2>6, <3>1
    <3>3. prompt'[i] = prompt[i] BY <1>2, <2>2, <2>6, <3>1 DEF ClearedIdle, PromptType
    <3> QED BY <3>1, <3>2, <3>3
  <2> QED BY <2>6 DEF GoesOn
<1>8. CASE ProcessLaunchFails
  <2>1. PICK s \in CandidateSlots(hand[1]) : \E o \in SelectionOutcomes(hand[1], s) :
        \E n \in 0..Len(ChildrenOf[r]) :
          slot' = ChildrenLaunched(r, s, n) /\ prompt' = [prompt EXCEPT ![s] = o.prompt]
    BY <1>3, <1>8 DEF ProcessLaunchFails
  <2>2. PICK o \in SelectionOutcomes(hand[1], s) : \E n \in 0..Len(ChildrenOf[r]) :
          slot' = ChildrenLaunched(r, s, n) /\ prompt' = [prompt EXCEPT ![s] = o.prompt]
    BY <2>1
  <2>3. PICK n \in 0..Len(ChildrenOf[r]) :
          slot' = ChildrenLaunched(r, s, n) /\ prompt' = [prompt EXCEPT ![s] = o.prompt]
    BY <2>2
  <2>4. s \in Slots /\ slot[s].state = "IDLE" BY <1>4
  <2>5. \A i \in Slots : slot'[i].state = "GENERATING" => slot'[i] = slot[i] /\ i # s
    BY <1>6, <2>3, <2>4
  <2>6. \A i \in Slots : i # s => prompt'[i] = prompt[i] BY <1>2, <2>3 DEF PromptType
  <2> QED BY <2>5, <2>6 DEF GoesOn
<1> QED BY <1>5, <1>7, <1>8

(* A finished prompt is the prompt of the request and of the children that copy it. *)
LEMMA PromptDoneOwn ==
  ASSUME SlotInv, OwnPrompt, PromptDone
  PROVE  OwnPrompt'
<1>1. PICK s \in Slots :
       /\ slot[s].state = "STARTED"
       /\ LET r == slot[s].task
              children == WaitingChildren(r)
          IN  /\ slot' = [i \in Slots |-> IF i \in children \cup {s}
                                          THEN [slot[i] EXCEPT !.state = "GENERATING"]
                                          ELSE slot[i]]
              /\ prompt' = [i \in Slots |-> IF i \in children \cup {s} THEN Conv[r]
                                            ELSE prompt[i]]
  BY DEF PromptDone
<1> DEFINE r == slot[s].task
           W == WaitingChildren(r) \cup {s}
<1>2. TypeOK /\ Board /\ SlotType BY Parts DEF SlotInv
<1>3. r \in Requests BY <1>1, <1>2 DEF Board, SlotTasks
<1>4. \A i \in W : i \in Slots /\ slot[i].task \in IdsOf(r)
  BY <1>3, Owners DEF WaitingChildren, IdsOf
<1>5. /\ slot' = [i \in Slots |-> IF i \in W THEN [slot[i] EXCEPT !.state = "GENERATING"]
                                  ELSE slot[i]]
      /\ prompt' = [i \in Slots |-> IF i \in W THEN Conv[r] ELSE prompt[i]]
  BY <1>1
<1> HIDE DEF r, W
<1>6. \A i \in Slots : slot'[i].task = slot[i].task BY <1>2, <1>5 DEF SlotType
<1>7. ASSUME NEW i \in Slots, slot'[i].state = "GENERATING"
      PROVE  prompt'[i] = Conv[RequestOf(slot[i].task)]
  <2>1. CASE i \in W
    <3>1. RequestOf(slot[i].task) = r BY <1>3, <1>4, <2>1, Owners
    <3> QED BY <1>5, <2>1, <3>1
  <2>2. CASE i \notin W BY <1>5, <1>7, <2>2 DEF OwnPrompt
  <2> QED BY <2>1, <2>2
<1> QED BY <1>6, <1>7 DEF OwnPrompt, RequestOf, IdsOf

LEMMA OwnPromptMain ==
  ASSUME SlotInv, OwnPrompt, NoSlotNamed, MainNext
  PROVE  OwnPrompt'
<1>1. CASE PromptDone BY <1>1, PromptDoneOwn
<1>2. CASE ProcessDeferred \/ ProcessLaunch \/ ProcessLaunchFails
  BY <1>2, LaunchPrompts, PromptKept
<1>3. ASSUME NEW s \in Slots, FreeSlot(s),
             prompt' \in {PromptsAfterRelease(s), [prompt EXCEPT ![s] = Empty]}
      PROVE  OwnPrompt'
  BY <1>3, ReleasedPrompts, PromptKept
<1>4. CASE UNCHANGED <<slot, prompt>> BY <1>4, SamePrompts, PromptKept
<1>5. CASE UndoLaunch \/ SlotFinishes \/ SlotFails
  <2>1. \E s \in Slots : Release(s) BY <1>5 DEF UndoLaunch, SlotFinishes, SlotFails
  <2> QED BY <1>3, <2>1 DEF Release
<1>6. CASE ProcessCancel
  <2>1. UNCHANGED <<slot, prompt>> \/ \E s \in Slots : Release(s)
    BY <1>6 DEF ProcessCancel, IsFirst, SlotOf
  <2> QED BY <1>3, <1>4, <2>1 DEF Release
<1>7. CASE AbortSlot
  <2>1. \E s \in Slots : FreeSlot(s) /\ prompt' \in {PromptsAfterRelease(s), [prompt EXCEPT ![s] = Empty]}
    BY <1>7 DEF AbortSlot
  <2> QED BY <1>3, <2>1
<1>8. ASSUME NEW s \in Slots, slot[s].state = "IDLE", prompt' = [prompt EXCEPT ![s] = Empty],
             slot' = slot
      PROVE  OwnPrompt'
  BY <1>8, OnePrompt, PromptKept
<1>9. CASE PurgeIdleSlot
  <2>1. \E s \in Slots : slot[s].state = "IDLE" /\ prompt' = [prompt EXCEPT ![s] = Empty] /\ slot' = slot
    BY <1>9 DEF PurgeIdleSlot, IsFirst, IdleSlots, Processing
  <2> QED BY <1>8, <2>1
<1>10. CASE ProcessSlotAction
  <2>1. phase = "callback" /\ hand[1].type = "erase" BY <1>10 DEF ProcessSlotAction
  <2>2. PICK r \in Requests : hand[1].id = r BY <2>1, Parts, HandTask, PhaseFacts
  <2>3. IdSlot[r] = NoSlot \/ IdSlot[r] \in Slots BY RequestsAssumption
  <2>4. \/ UNCHANGED <<slot, prompt>>
        \/ \E s \in Slots : slot[s].state = "IDLE" /\ prompt' = [prompt EXCEPT ![s] = Empty] /\ slot' = slot
    BY <1>10, <2>2, <2>3 DEF ProcessSlotAction, Processing
  <2> QED BY <1>4, <1>8, <2>4
<1>11. CASE \/ Pop \/ UndoEnds \/ ProcessNextResponse \/ UpdateBegin \/ SkipSlot
            \/ BatchFails \/ AbortEnds \/ UpdateEnd \/ WaitEnd
  BY <1>4, <1>11
     DEF Pop, UndoEnds, ProcessNextResponse, UpdateBegin, SkipSlot, BatchFails, AbortEnds,
         UpdateEnd, WaitEnd
<1> QED BY <1>1, <1>2, <1>5, <1>6, <1>7, <1>9, <1>10, <1>11, Zenon DEF MainNext

(* As long as completions leave the choice of their slot to the server, the prompt  *)
(* of a slot that generates is that of its own request: neither the selection of a  *)
(* slot for another request, nor a slot action, nor the clearing of idle slots      *)
(* touches it.                                                                      *)
THEOREM OwnPromptCorrect ==
  ASSUME NoSlotNamed
  PROVE  Spec => []OwnPrompt
<1>1. Init => OwnPrompt BY InitInv DEF OwnPrompt, Init
<1>2. SlotInv /\ OwnPrompt /\ [Next]_vars => OwnPrompt'
  <2>1. ASSUME SlotInv, OwnPrompt, UNCHANGED <<slot, prompt>> PROVE OwnPrompt'
    BY <2>1, SamePrompts, PromptKept
  <2>2. ASSUME NEW r \in Requests, Post(r) \/ ClientNext(r) \/ Disconnect(r)
        PROVE  UNCHANGED <<slot, prompt>>
    BY <2>2 DEF Post, ClientNext, Finish, StopOnError, Disconnect, Stop
  <2> QED BY <2>1, <2>2, OwnPromptMain DEF Next, vars
<1> QED BY <1>1, <1>2, Inductive, PTL DEF Spec
=============================================================================
