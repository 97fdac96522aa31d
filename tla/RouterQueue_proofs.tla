-------------------------- MODULE RouterQueue_proofs --------------------------
(***************************************************************************)
(* The types of the router and the accounts of its queue, for every number *)
(* of models, calls, slots and unread lines.                               *)
(*                                                                         *)
(* The types are proved in groups, one for each part of the router, because *)
(* an action changes few of them.  The queue is then followed entry by     *)
(* entry: what a thread may do depends on whether its call is queued, so   *)
(* the invariant ties the flag to the place of the thread (OnlyQueued),    *)
(* an entry to the calls it counts (Accounts) and the mark of a claim to   *)
(* the one thread that loads (OneLoader).                                  *)
(***************************************************************************)
EXTENDS ServerModels, FiniteSetTheorems, SequenceTheorems, TLAPS

RegistryTypes ==
  /\ status \in [Models -> Statuses]
  /\ failed \in [Models -> BOOLEAN]
  /\ req_count \in [Models -> Nat]
  /\ is_reloading \in BOOLEAN

StopTypes  == stopping_models \subseteq Models /\ cmds \in Seq(Cmd)
QueueTypes == queue \in Seq(Entry)
ConvTypes  == conv_models \in [Convs -> Posts \cup {None}]

MonitorTypes ==
  /\ watched \subseteq Models /\ deadline \subseteq watched
  /\ reaped \in watched \cup {None}

ProcessTypes ==
  /\ child \in [Models -> Alive \cup Dead \cup {"none"}]
  /\ \A m \in Models : lines[m] \in Seq(Running) /\ Len(lines[m]) <= MaxLines

PlaceTypes == pc \in [Calls -> PCs]

FlagTypes ==
  /\ queued \in [Calls -> BOOLEAN] /\ did_load \in [Calls -> BOOLEAN]
  /\ saw_loading \in [Calls -> BOOLEAN]

NameTypes ==
  /\ victim \in [Calls -> Models \cup {None}]
  /\ names \in [Calls -> [gone : SUBSET Models, to_unload : SUBSET Models,
                          left : SUBSET Models]]

HistoryTypes == connected \subseteq Calls /\ cancelled \subseteq Calls /\ party \in Setting

\* lines is a function: the type invariant does not say so.
LinesDomain == lines \in [Models -> Seq(Running)]

\* Only a request registers a conversation.
RememberOnly == \A t \in Calls : pc[t] = "remember" => Op[t] = "post"

Typed ==
  /\ RegistryTypes /\ StopTypes /\ QueueTypes /\ ConvTypes /\ MonitorTypes
  /\ ProcessTypes /\ PlaceTypes /\ FlagTypes /\ NameTypes /\ HistoryTypes
  /\ LinesDomain /\ RememberOnly

LEMMA TypedIsTypeOK == Typed => TypeOK
BY DEF Typed, RegistryTypes, StopTypes, QueueTypes, ConvTypes, MonitorTypes, ProcessTypes,
   PlaceTypes, FlagTypes, NameTypes, HistoryTypes, TypeOK

-----------------------------------------------------------------------------
(* The groups that a step leaves alone                                      *)

LEMMA SameRegistry ==
  ASSUME RegistryTypes, UNCHANGED <<status, failed, req_count, is_reloading>>
  PROVE  RegistryTypes'
BY DEF RegistryTypes

LEMMA SameStops ==
  ASSUME StopTypes, UNCHANGED <<stopping_models, cmds>> PROVE StopTypes'
BY DEF StopTypes

LEMMA SameMonitor ==
  ASSUME MonitorTypes, UNCHANGED <<watched, deadline, reaped>> PROVE MonitorTypes'
BY DEF MonitorTypes

LEMMA SameProcess ==
  ASSUME ProcessTypes, LinesDomain, UNCHANGED <<child, lines>>
  PROVE  ProcessTypes' /\ LinesDomain'
BY DEF ProcessTypes, LinesDomain

LEMMA SameFlags ==
  ASSUME FlagTypes, UNCHANGED <<queued, did_load, saw_loading>> PROVE FlagTypes'
BY DEF FlagTypes

LEMMA SameNames ==
  ASSUME NameTypes, UNCHANGED <<victim, names>> PROVE NameTypes'
BY DEF NameTypes

LEMMA SameHistory ==
  ASSUME HistoryTypes, UNCHANGED <<connected, cancelled, party>> PROVE HistoryTypes'
BY DEF HistoryTypes

-----------------------------------------------------------------------------
(* The helpers                                                              *)

\* A function with one value replaced.
LEMMA Updated ==
  ASSUME NEW A, NEW B, NEW f \in [A -> B], NEW a, NEW b \in B
  PROVE  [f EXCEPT ![a] = b] \in [A -> B]
OBVIOUS

LEMMA SetToSeqType ==
  ASSUME NEW S, IsFiniteSet(S) PROVE SetToSeq(S) \in Seq(S)
<1>1. Cardinality(S) \in Nat /\ ExistsBijection(1..Cardinality(S), S)
  BY FS_CardinalityType
<1>2. \E f \in [1..Cardinality(S) -> S] : IsInjective(f)
  BY <1>1 DEF ExistsBijection, Bijection, Injection
<1>3. SetToSeq(S) \in [1..Cardinality(S) -> S] BY <1>2 DEF SetToSeq
<1> QED BY <1>1, <1>3, SeqDef

LEMMA StopsType ==
  ASSUME NEW V \in SUBSET Models, IsFiniteSet(Models), NEW send_exit \in BOOLEAN
  PROVE  Stops(V, send_exit) \in Seq(Cmd)
<1> DEFINE cmd(m) == [type |-> "STOP", model |-> m, send_exit |-> send_exit]
           T == {cmd(m) : m \in V}
           f == [m \in V |-> cmd(m)]
<1>1. IsFiniteSet(V) BY FS_Subset
<1>2. f \in Surjection(V, T) BY DEF Surjection
<1>3. T \subseteq Cmd BY DEF Cmd
<1> HIDE DEF f
<1>4. IsFiniteSet(T) BY <1>1, <1>2, FS_Surjection
<1>5. Stops(V, send_exit) = SetToSeq(T) BY DEF Stops
<1> HIDE DEF T
<1>6. SetToSeq(T) \in Seq(T) BY <1>4, SetToSeqType
<1> QED BY <1>3, <1>5, <1>6, SeqMonotonic

LEMMA TickTypes ==
  ASSUME StopTypes, IsFiniteSet(Models), NEW st, NEW q, NEW count,
         NEW stopping \in SUBSET Models, Tick(st, q, count, stopping)
  PROVE  StopTypes'
<1>1. PICK V \in Evictions(st, q, count, stopping) :
        stopping_models' = stopping \cup V /\ cmds' = cmds \o Stops(V, TRUE)
  BY DEF Tick
<1>2. V \in SUBSET Models BY DEF Evictions, Candidates
<1>3. Stops(V, TRUE) \in Seq(Cmd) BY <1>2, StopsType
<1>4. cmds' \in Seq(Cmd) BY <1>1, <1>3, ConcatProperties DEF StopTypes
<1> QED BY <1>1, <1>2, <1>4 DEF StopTypes

LEMMA StopKeepsTypes ==
  ASSUME StopTypes, ProcessTypes, LinesDomain, IsFiniteSet(Models), NEW V, Stop(V),
         UNCHANGED lines
  PROVE  StopTypes' /\ ProcessTypes' /\ LinesDomain' /\ connected' \subseteq connected
<1> DEFINE running == V \cap RunningModels(status)
           loading == {m \in running : status[m] = "LOADING"}
           asked   == running \ stopping_models
<1>1. /\ asked \in SUBSET Models
      /\ asked \cap loading \in SUBSET Models /\ asked \ loading \in SUBSET Models
  BY DEF RunningModels
<1>2. /\ stopping_models' = stopping_models \cup asked
      /\ cmds' = cmds \o Stops(asked \cap loading, FALSE) \o Stops(asked \ loading, TRUE)
      /\ child' = [m \in Models |-> IF m \in loading /\ child[m] \in Alive
                                    THEN "killed" ELSE child[m]]
      /\ connected' \subseteq connected
  BY DEF Stop
<1> HIDE DEF running, loading, asked
<1>3. /\ Stops(asked \cap loading, FALSE) \in Seq(Cmd)
      /\ Stops(asked \ loading, TRUE) \in Seq(Cmd)
  BY <1>1, StopsType
<1>4. cmds \o Stops(asked \cap loading, FALSE) \in Seq(Cmd)
  BY <1>3, ConcatProperties DEF StopTypes
<1>5. cmds' \in Seq(Cmd) BY <1>2, <1>3, <1>4, ConcatProperties
<1>6. child' \in [Models -> Alive \cup Dead \cup {"none"}]
  BY <1>2 DEF ProcessTypes, Dead
<1> QED BY <1>1, <1>2, <1>5, <1>6 DEF StopTypes, ProcessTypes, LinesDomain

\* What is left of a sequence without its i-th element.
LEMMA RemoveAtProperties ==
  ASSUME NEW S, NEW q \in Seq(S), NEW i \in 1..Len(q)
  PROVE  LET r == RemoveAt(q, i) IN
         /\ r \in Seq(S) /\ Len(r) = Len(q) - 1
         /\ \A j \in 1..Len(r) : r[j] = IF j < i THEN q[j] ELSE q[j + 1]
<1> DEFINE a == SubSeq(q, 1, i - 1)
           b == SubSeq(q, i + 1, Len(q))
           r == RemoveAt(q, i)
<1>1. Len(q) \in Nat /\ i \in Nat /\ 1 <= i /\ i <= Len(q) BY LenProperties
<1>2. \A j \in 1..Len(q) : q[j] \in S BY ElementOfSeq
<1>3. a \in Seq(S) /\ Len(a) = i - 1 /\ \A j \in 1..i - 1 : a[j] = q[j]
  <2>1. \A j \in 1..i - 1 : q[j] \in S BY <1>1, <1>2
  <2>2. /\ a \in Seq(S) /\ Len(a) = IF 1 <= i - 1 THEN i - 1 - 1 + 1 ELSE 0
        /\ \A j \in 1..i - 1 - 1 + 1 : a[j] = q[1 + j - 1]
    BY <1>1, <2>1, SubSeqProperties
  <2> HIDE DEF a
  <2> QED BY <1>1, <2>2
<1>4. b \in Seq(S) /\ Len(b) = Len(q) - i /\ \A j \in 1..Len(q) - i : b[j] = q[i + j]
  <2>1. \A j \in i + 1..Len(q) : q[j] \in S BY <1>1, <1>2
  <2>2. /\ b \in Seq(S)
        /\ Len(b) = IF i + 1 <= Len(q) THEN Len(q) - (i + 1) + 1 ELSE 0
        /\ \A j \in 1..Len(q) - (i + 1) + 1 : b[j] = q[i + 1 + j - 1]
    BY <1>1, <2>1, SubSeqProperties
  <2> HIDE DEF b
  <2> QED BY <1>1, <2>2
<1>5. r = a \o b BY DEF RemoveAt
<1> HIDE DEF a, b, r
<1>6. /\ r \in Seq(S) /\ Len(r) = Len(a) + Len(b)
      /\ \A j \in 1..Len(a) + Len(b) : r[j] = IF j <= Len(a) THEN a[j] ELSE b[j - Len(a)]
  BY <1>3, <1>4, <1>5, ConcatProperties
<1>7. Len(r) = Len(q) - 1 BY <1>1, <1>3, <1>4, <1>6
<1>8. ASSUME NEW j \in 1..Len(r) PROVE r[j] = IF j < i THEN q[j] ELSE q[j + 1]
  <2>1. r[j] = IF j <= i - 1 THEN a[j] ELSE b[j - (i - 1)]
    BY <1>1, <1>3, <1>4, <1>6, <1>7
  <2>2. j \in Nat /\ 1 <= j /\ j <= Len(q) - 1 BY <1>1, <1>7
  <2>3. CASE j < i BY <1>1, <1>3, <2>1, <2>2, <2>3
  <2>4. CASE j >= i
    <3>1. j - (i - 1) \in 1..Len(q) - i /\ i + (j - (i - 1)) = j + 1 BY <1>1, <2>2, <2>4
    <3>2. b[j - (i - 1)] = q[j + 1] BY <1>4, <3>1
    <3> QED BY <1>1, <2>1, <2>2, <2>4, <3>2
  <2> QED BY <1>1, <2>2, <2>3, <2>4
<1> QED BY <1>6, <1>7, <1>8 DEF r

\* No model has two entries.
Single(q) == \A i, j \in DOMAIN q : q[i].model = q[j].model => i = j

\* The entries of a model: one or none.
EntriesOf(q, m) == {q[i] : i \in Find(q, m)}

\* The entries of one model change and keep their places.
LEMMA ChangedEntry ==
  ASSUME NEW q \in Seq(Entry), Single(q), NEW m \in Models, NEW r \in [DOMAIN q -> Entry],
         \A i \in DOMAIN q : r[i].model = q[i].model,
         \A i \in DOMAIN q \ Find(q, m) : r[i] = q[i]
  PROVE  /\ r \in Seq(Entry) /\ Single(r)
         /\ \A n \in Models \ {m} : EntriesOf(r, n) = EntriesOf(q, n)
         /\ EntriesOf(r, m) = {r[i] : i \in Find(q, m)}
<1>1. Len(q) \in Nat /\ DOMAIN q = 1..Len(q) BY LenProperties
<1>2. r \in Seq(Entry) /\ DOMAIN r = DOMAIN q BY <1>1, SeqDef
<1>3. Single(r) BY <1>2 DEF Single
<1>4. \A n \in Models : Find(r, n) = Find(q, n) BY <1>2 DEF Find
<1>5. ASSUME NEW n \in Models \ {m} PROVE EntriesOf(r, n) = EntriesOf(q, n)
  <2>1. \A i \in Find(q, n) : r[i] = q[i] BY DEF Find
  <2> QED BY <1>4, <2>1 DEF EntriesOf
<1> QED BY <1>2, <1>3, <1>4, <1>5 DEF EntriesOf

\* What the operations make of an entry.
More == [e \in Entry |-> [e EXCEPT !.n_waiters = e.n_waiters + 1]]
Less == [e \in Entry |-> [e EXCEPT !.n_waiters = e.n_waiters - 1]]
Mark == [e \in Entry |-> [e EXCEPT !.loading = TRUE]]
Free == [e \in Entry |-> [e EXCEPT !.loading = FALSE]]

\* join_queue()
LEMMA JoinEntry ==
  ASSUME NEW q \in Seq(Entry), Single(q), NEW m \in Models
  PROVE  LET r == Join(q, m) IN
         /\ r \in Seq(Entry) /\ Single(r)
         /\ \A n \in Models \ {m} : EntriesOf(r, n) = EntriesOf(q, n)
         /\ EntriesOf(r, m) =
              IF EntriesOf(q, m) = {}
              THEN {[model |-> m, n_waiters |-> 1, loading |-> FALSE]}
              ELSE {More[e] : e \in EntriesOf(q, m)}
<1> DEFINE r == Join(q, m)
           new == [model |-> m, n_waiters |-> 1, loading |-> FALSE]
<1>1. Len(q) \in Nat /\ DOMAIN q = 1..Len(q) /\ \A i \in 1..Len(q) : q[i] \in Entry
  BY LenProperties, ElementOfSeq
<1>2. EntriesOf(q, m) = {} <=> Find(q, m) = {} BY DEF EntriesOf
<1>3. CASE Find(q, m) # {}
  <2>1. r = [i \in DOMAIN q |-> IF i \in Find(q, m) THEN More[q[i]] ELSE q[i]]
    <3>1. \A e \in Entry : More[e] = [e EXCEPT !.n_waiters = @ + 1] BY DEF More
    <3> QED BY <1>1, <1>3, <3>1 DEF Join
  <2>2. \A e \in Entry : More[e] \in Entry /\ More[e].model = e.model BY DEF More, Entry
  <2> HIDE DEF r
  <2>3. r \in [DOMAIN q -> Entry] BY <1>1, <2>1, <2>2
  <2>4. \A i \in DOMAIN q : r[i].model = q[i].model BY <1>1, <2>1, <2>2
  <2>5. \A i \in DOMAIN q \ Find(q, m) : r[i] = q[i] BY <2>1
  <2>6. \A i \in Find(q, m) : r[i] = More[q[i]] BY <2>1 DEF Find
  <2>7. {r[i] : i \in Find(q, m)} = {More[e] : e \in EntriesOf(q, m)}
    BY <2>6 DEF EntriesOf
  <2>8. /\ r \in Seq(Entry) /\ Single(r)
        /\ \A n \in Models \ {m} : EntriesOf(r, n) = EntriesOf(q, n)
        /\ EntriesOf(r, m) = {r[i] : i \in Find(q, m)}
    BY <2>3, <2>4, <2>5, ChangedEntry
  <2> QED BY <1>2, <1>3, <2>7, <2>8 DEF r
<1>4. CASE Find(q, m) = {}
  <2>1. r = Append(q, new) BY <1>4 DEF Join
  <2>2. new \in Entry BY DEF Entry
  <2>3. new.model = m OBVIOUS
  <2> HIDE DEF r, new
  <2>4. /\ r \in Seq(Entry) /\ Len(r) = Len(q) + 1
        /\ \A i \in 1..Len(q) : r[i] = q[i]
        /\ r[Len(q) + 1] = new
    BY <2>1, <2>2, AppendProperties
  <2>5. DOMAIN r = 1..Len(q) + 1 BY <2>4, LenProperties
  <2>6. \A i \in DOMAIN q : q[i].model # m BY <1>4 DEF Find
  <2>7. \A i \in DOMAIN r : (i \in DOMAIN q /\ r[i] = q[i]) \/ (i = Len(q) + 1 /\ r[i] = new)
    <3>1. \A i \in 1..Len(q) + 1 : i \in 1..Len(q) \/ i = Len(q) + 1 BY <1>1
    <3> QED BY <1>1, <2>4, <2>5, <3>1, Zenon
  <2>8. Single(r) BY <2>3, <2>6, <2>7 DEF Single
  <2>9. \A n \in Models \ {m} : Find(r, n) = Find(q, n)
    <3>1. \A i \in DOMAIN q : i \in DOMAIN r /\ r[i] = q[i] BY <1>1, <2>4, <2>5
    <3> QED BY <2>3, <2>7, <3>1 DEF Find
  <2>10. \A n \in Models \ {m} : EntriesOf(r, n) = EntriesOf(q, n)
    BY <1>1, <2>4, <2>9 DEF EntriesOf, Find
  <2>11. Find(r, m) = {Len(q) + 1}
    <3>1. Len(q) + 1 \in DOMAIN r BY <1>1, <2>5
    <3> QED BY <2>3, <2>4, <2>6, <2>7, <3>1 DEF Find
  <2>12. EntriesOf(r, m) = {new} BY <2>4, <2>11 DEF EntriesOf
  <2> QED BY <1>2, <1>4, <2>4, <2>8, <2>10, <2>12 DEF r, new
<1> QED BY <1>3, <1>4

\* A model with an entry has one.
LEMMA OneOf ==
  ASSUME NEW q, Single(q), NEW m, NEW i \in Find(q, m)
  PROVE  Find(q, m) = {i} /\ EntriesOf(q, m) = {q[i]}
BY DEF Single, Find, EntriesOf

\* leave_queue(): the last one takes the entry along.
LEMMA LeaveEntry ==
  ASSUME NEW q \in Seq(Entry), Single(q), NEW m \in Models
  PROVE  LET r == Leave(q, m) IN
         /\ r \in Seq(Entry) /\ Single(r)
         /\ \A n \in Models \ {m} : EntriesOf(r, n) = EntriesOf(q, n)
         /\ EntriesOf(r, m) = {Less[e] : e \in {x \in EntriesOf(q, m) : x.n_waiters > 1}}
<1> DEFINE r == Leave(q, m)
<1>1. Len(q) \in Nat /\ DOMAIN q = 1..Len(q) /\ \A i \in 1..Len(q) : q[i] \in Entry
  BY LenProperties, ElementOfSeq
<1>2. CASE Find(q, m) = {}
  <2>1. r = q BY <1>2 DEF Leave
  <2>2. EntriesOf(q, m) = {} BY <1>2 DEF EntriesOf
  <2> QED BY <2>1, <2>2
<1>3. CASE Find(q, m) # {}
  <2> DEFINE i == CHOOSE j \in Find(q, m) : TRUE
  <2>1. i \in Find(q, m) BY <1>3
  <2>2. r = IF q[i].n_waiters <= 1 THEN RemoveAt(q, i)
            ELSE [q EXCEPT ![i].n_waiters = @ - 1]
    BY <1>3 DEF Leave
  <2> HIDE DEF i, r
  <2>3. Find(q, m) = {i} /\ EntriesOf(q, m) = {q[i]} BY <2>1, OneOf
  <2>4. i \in 1..Len(q) /\ q[i].model = m /\ q[i] \in Entry /\ q[i].n_waiters \in Nat
    BY <1>1, <2>1 DEF Find, Entry
  <2>5. CASE q[i].n_waiters > 1
    <3>1. r = [q EXCEPT ![i] = Less[q[i]]] BY <1>1, <2>2, <2>4, <2>5 DEF Less
    <3>2. Less[q[i]] \in Entry /\ Less[q[i]].model = m BY <2>4, <2>5 DEF Less, Entry
    <3>3. r \in [DOMAIN q -> Entry] BY <1>1, <3>1, <3>2
    <3>4. \A j \in DOMAIN q : r[j].model = q[j].model BY <1>1, <2>4, <3>1, <3>2
    <3>5. \A j \in DOMAIN q \ Find(q, m) : r[j] = q[j] BY <1>1, <2>3, <3>1
    <3>6. r[i] = Less[q[i]] BY <1>1, <2>4, <3>1
    <3>7. /\ r \in Seq(Entry) /\ Single(r)
          /\ \A n \in Models \ {m} : EntriesOf(r, n) = EntriesOf(q, n)
          /\ EntriesOf(r, m) = {r[j] : j \in Find(q, m)}
      BY <3>3, <3>4, <3>5, ChangedEntry
    <3>8. EntriesOf(r, m) = {Less[q[i]]} BY <2>3, <3>6, <3>7
    <3>9. {Less[e] : e \in {x \in EntriesOf(q, m) : x.n_waiters > 1}} = {Less[q[i]]}
      BY <2>3, <2>5
    <3> QED BY <3>7, <3>8, <3>9 DEF r
  <2>6. CASE ~(q[i].n_waiters > 1)
    <3>1. r = RemoveAt(q, i) BY <2>2, <2>4, <2>6
    <3>2. /\ r \in Seq(Entry) /\ Len(r) = Len(q) - 1
          /\ \A j \in 1..Len(r) : r[j] = IF j < i THEN q[j] ELSE q[j + 1]
      BY <2>4, <3>1, RemoveAtProperties
    <3>3. DOMAIN r = 1..Len(q) - 1 BY <3>2, LenProperties
    <3> DEFINE f == [j \in 1..Len(q) - 1 |-> IF j < i THEN j ELSE j + 1]
    <3>4. /\ \A j \in 1..Len(q) - 1 : f[j] \in 1..Len(q) /\ f[j] # i
          /\ \A j, k \in 1..Len(q) - 1 : f[j] = f[k] => j = k
          /\ \A k \in 1..Len(q) : k # i => \E j \in 1..Len(q) - 1 : f[j] = k
      <4>1. i \in Nat /\ 1 <= i /\ i <= Len(q) BY <1>1, <2>4
      <4>2. \A j \in 1..Len(q) - 1 : f[j] \in 1..Len(q) /\ f[j] # i BY <1>1, <4>1
      <4>3. \A j, k \in 1..Len(q) - 1 : f[j] = f[k] => j = k BY <1>1, <4>1
      <4>4. ASSUME NEW k \in 1..Len(q), k # i
            PROVE  \E j \in 1..Len(q) - 1 : f[j] = k
        <5>1. CASE k < i
          <6>1. k \in 1..Len(q) - 1 BY <1>1, <4>1, <5>1
          <6> QED BY <5>1, <6>1
        <5>2. CASE k > i
          <6>1. k - 1 \in 1..Len(q) - 1 /\ ~(k - 1 < i) /\ k - 1 + 1 = k
            BY <1>1, <4>1, <5>2
          <6> QED BY <6>1
        <5> QED BY <1>1, <4>1, <4>4, <5>1, <5>2
      <4> QED BY <4>2, <4>3, <4>4
    <3>5. \A j \in 1..Len(q) - 1 : r[j] = q[f[j]] BY <3>2
    <3> HIDE DEF f
    <3>6. Single(r)
      <4>1. ASSUME NEW j \in DOMAIN r, NEW k \in DOMAIN r, r[j].model = r[k].model
            PROVE  j = k
        <5>1. f[j] \in DOMAIN q /\ f[k] \in DOMAIN q /\ r[j] = q[f[j]] /\ r[k] = q[f[k]]
          BY <1>1, <3>3, <3>4, <3>5
        <5>2. f[j] = f[k] BY <4>1, <5>1 DEF Single
        <5> QED BY <3>3, <3>4, <5>2
      <4> QED BY <4>1 DEF Single
    <3>7. ASSUME NEW n \in Models \ {m} PROVE EntriesOf(r, n) = EntriesOf(q, n)
      <4>1. ASSUME NEW j \in Find(r, n) PROVE r[j] \in EntriesOf(q, n)
        <5>1. j \in 1..Len(q) - 1 /\ r[j].model = n BY <3>3, <4>1 DEF Find
        <5>2. f[j] \in DOMAIN q /\ r[j] = q[f[j]] BY <1>1, <3>4, <3>5, <5>1
        <5> QED BY <5>1, <5>2 DEF Find, EntriesOf
      <4>2. ASSUME NEW k \in Find(q, n) PROVE q[k] \in EntriesOf(r, n)
        <5>1. k \in 1..Len(q) /\ q[k].model = n /\ k # i BY <1>1, <2>4, <4>2 DEF Find
        <5>2. PICK j \in 1..Len(q) - 1 : f[j] = k BY <3>4, <5>1
        <5>3. j \in DOMAIN r /\ r[j] = q[k] BY <3>3, <3>5, <5>2
        <5> QED BY <5>1, <5>3 DEF Find, EntriesOf
      <4> QED BY <4>1, <4>2 DEF EntriesOf
    <3>8. EntriesOf(r, m) = {}
      <4>1. ASSUME NEW j \in Find(r, m) PROVE FALSE
        <5>1. j \in 1..Len(q) - 1 /\ r[j].model = m BY <3>3, <4>1 DEF Find
        <5>2. f[j] \in DOMAIN q /\ r[j] = q[f[j]] /\ f[j] # i BY <1>1, <3>4, <3>5, <5>1
        <5> QED BY <2>3, <5>1, <5>2 DEF Find
      <4> QED BY <4>1 DEF EntriesOf
    <3>9. {Less[e] : e \in {x \in EntriesOf(q, m) : x.n_waiters > 1}} = {}
      BY <2>3, <2>6
    <3> QED BY <3>2, <3>6, <3>7, <3>8, <3>9 DEF r
  <2> QED BY <2>5, <2>6
<1> QED BY <1>2, <1>3

\* claim_done() of a load that failed gives the slot back.
LEMMA FreeEntry ==
  ASSUME NEW q \in Seq(Entry), Single(q), NEW m \in Models
  PROVE  LET r == ClaimDone(q, m, FALSE) IN
         /\ r \in Seq(Entry) /\ Single(r)
         /\ \A n \in Models \ {m} : EntriesOf(r, n) = EntriesOf(q, n)
         /\ EntriesOf(r, m) = {Free[e] : e \in EntriesOf(q, m)}
<1> DEFINE r == ClaimDone(q, m, FALSE)
<1>1. Len(q) \in Nat /\ DOMAIN q = 1..Len(q) /\ \A i \in 1..Len(q) : q[i] \in Entry
  BY LenProperties, ElementOfSeq
<1>2. r = [i \in DOMAIN q |-> IF i \in Find(q, m) THEN Free[q[i]] ELSE q[i]]
  BY <1>1 DEF ClaimDone, Free
<1>3. \A e \in Entry : Free[e] \in Entry /\ Free[e].model = e.model BY DEF Free, Entry
<1> HIDE DEF r
<1>4. r \in [DOMAIN q -> Entry] BY <1>1, <1>2, <1>3
<1>5. \A i \in DOMAIN q : r[i].model = q[i].model BY <1>1, <1>2, <1>3
<1>6. \A i \in DOMAIN q \ Find(q, m) : r[i] = q[i] BY <1>2
<1>7. \A i \in Find(q, m) : r[i] = Free[q[i]] BY <1>2 DEF Find
<1>8. {r[i] : i \in Find(q, m)} = {Free[e] : e \in EntriesOf(q, m)}
  BY <1>7 DEF EntriesOf
<1>9. /\ r \in Seq(Entry) /\ Single(r)
      /\ \A n \in Models \ {m} : EntriesOf(r, n) = EntriesOf(q, n)
      /\ EntriesOf(r, m) = {r[i] : i \in Find(q, m)}
  BY <1>4, <1>5, <1>6, ChangedEntry
<1> QED BY <1>8, <1>9 DEF r

\* try_claim() marks the first entry.
LEMMA MarkEntry ==
  ASSUME NEW q \in Seq(Entry), Single(q), NEW m \in Models, q # <<>>, Head(q).model = m
  PROVE  LET r == [q EXCEPT ![1].loading = TRUE] IN
         /\ r \in Seq(Entry) /\ Single(r)
         /\ \A n \in Models \ {m} : EntriesOf(r, n) = EntriesOf(q, n)
         /\ EntriesOf(q, m) = {Head(q)}
         /\ EntriesOf(r, m) = {Mark[Head(q)]}
<1> DEFINE r == [q EXCEPT ![1].loading = TRUE]
<1>1. Len(q) \in Nat \ {0} /\ DOMAIN q = 1..Len(q) /\ \A i \in 1..Len(q) : q[i] \in Entry
  BY LenProperties, ElementOfSeq, EmptySeq
<1>2. 1 \in DOMAIN q /\ Head(q) = q[1] BY <1>1
<1>3. r = [q EXCEPT ![1] = Mark[q[1]]] BY <1>1, <1>2 DEF Mark
<1>4. Mark[q[1]] \in Entry /\ Mark[q[1]].model = m BY <1>1, <1>2 DEF Mark, Entry
<1> HIDE DEF r
<1>5. 1 \in Find(q, m) BY <1>2 DEF Find
<1>6. Find(q, m) = {1} /\ EntriesOf(q, m) = {q[1]} BY <1>5, OneOf
<1>7. r \in [DOMAIN q -> Entry] BY <1>1, <1>3, <1>4
<1>8. \A i \in DOMAIN q : r[i].model = q[i].model BY <1>1, <1>2, <1>3, <1>4
<1>9. \A i \in DOMAIN q \ Find(q, m) : r[i] = q[i] BY <1>1, <1>3, <1>6
<1>10. r[1] = Mark[q[1]] BY <1>2, <1>3
<1>11. /\ r \in Seq(Entry) /\ Single(r)
       /\ \A n \in Models \ {m} : EntriesOf(r, n) = EntriesOf(q, n)
       /\ EntriesOf(r, m) = {r[i] : i \in Find(q, m)}
  BY <1>7, <1>8, <1>9, ChangedEntry
<1>12. EntriesOf(r, m) = {Mark[Head(q)]} /\ EntriesOf(q, m) = {Head(q)}
  BY <1>2, <1>6, <1>10, <1>11
<1>13. r = [q EXCEPT ![1].loading = TRUE] BY DEF r
<1> QED BY <1>11, <1>12, <1>13, Zenon

-----------------------------------------------------------------------------
(* The accounts of the queue                                                *)

Waiting(m) == {t \in Calls : queued[t] /\ Target[t] = m}
Loading(m) == {t \in Waiting(m) : pc[t] # "wait"}

Returned == {"load_ok", "load_failed"}
QueuedPC == {"wait", "unload_lru", "lru_unload", "lru_wait", "spawn"} \cup Returned

\* A call is queued while it waits or loads, and only a queued call claims.
QueuePlaces ==
  \A t \in Calls : /\ queued[t] => pc[t] \in QueuedPC
                   /\ pc[t] \in Returned => queued[t]

OneLoader == \A m \in Models : \A t, u \in Loading(m) : t = u

Account(q, m, W, L) ==
  /\ EntriesOf(q, m) = {} <=> W = {}
  /\ \A e \in EntriesOf(q, m) : e.n_waiters = Cardinality(W) /\ (L # {} => e.loading)

Accounts == \A m \in Models : Account(queue, m, Waiting(m), Loading(m))

QueueInv == QueueTypes /\ Single(queue) /\ QueuePlaces /\ OneLoader /\ Accounts

LEMMA QueueCountsHolds ==
  ASSUME QueueInv, IsFiniteSet(Calls)
  PROVE  QueueCounts
<1>1. SUFFICES ASSUME NEW m \in Models
      PROVE  /\ Cardinality(Find(queue, m)) = IF Waiting(m) = {} THEN 0 ELSE 1
             /\ Cardinality(Loading(m)) <= 1
             /\ \A i \in Find(queue, m) :
                  /\ queue[i].n_waiters = Cardinality(Waiting(m))
                  /\ Loading(m) # {} => queue[i].loading
  BY DEF QueueCounts, Waiting, Loading
<1>2. Account(queue, m, Waiting(m), Loading(m)) BY DEF QueueInv, Accounts
<1>3. Single(queue) BY DEF QueueInv
<1>4. \A i \in Find(queue, m) : queue[i] \in EntriesOf(queue, m) BY DEF EntriesOf
<1>5. Cardinality(Find(queue, m)) = IF Waiting(m) = {} THEN 0 ELSE 1
  <2>1. CASE Waiting(m) = {}
    <3>1. Find(queue, m) = {} BY <1>2, <1>4, <2>1 DEF Account
    <3> QED BY <2>1, <3>1, FS_EmptySet
  <2>2. CASE Waiting(m) # {}
    <3>1. PICK i \in Find(queue, m) : TRUE BY <1>2, <2>2 DEF Account, EntriesOf
    <3>2. Find(queue, m) = {i} BY <1>3, <3>1, OneOf
    <3> QED BY <2>2, <3>2, FS_Singleton
  <2> QED BY <2>1, <2>2
<1>6. Cardinality(Loading(m)) <= 1
  <2>1. CASE Loading(m) = {} BY <2>1, FS_EmptySet
  <2>2. ASSUME NEW t \in Loading(m) PROVE Cardinality(Loading(m)) <= 1
    <3>1. Loading(m) = {t} BY DEF QueueInv, OneLoader
    <3>2. Cardinality({t}) = 1 BY FS_Singleton, Zenon
    <3> QED BY <3>1, <3>2
  <2> QED BY <2>1, <2>2
<1> QED BY <1>2, <1>4, <1>5, <1>6 DEF Account

\* Steps that neither join nor leave the queue, nor begin or end a claimed load.
LEMMA SameQueue ==
  ASSUME QueueInv, UNCHANGED <<queue, queued>>,
         \A u \in Calls : /\ queued[u] => pc'[u] \in QueuedPC
                                        /\ (pc'[u] = "wait" <=> pc[u] = "wait")
                          /\ pc'[u] \in Returned => queued[u]
  PROVE  QueueInv'
<1>1. \A m \in Models : Waiting(m)' = Waiting(m) BY DEF Waiting
<1>2. \A m \in Models : Loading(m)' = Loading(m) BY <1>1 DEF Loading, Waiting
<1>3. QueuePlaces' BY DEF QueuePlaces
<1>4. OneLoader' BY <1>2 DEF QueueInv, OneLoader
<1>5. Accounts' BY <1>1, <1>2 DEF QueueInv, Accounts, Account, EntriesOf, Find
<1> QED BY <1>3, <1>4, <1>5 DEF QueueInv, QueueTypes, Single

\* A thread whose call is not queued goes its way; one that loads for the queue
\* stays among those.
LEMMA AsideQueue ==
  ASSUME QueueInv, DOMAIN pc = Calls, UNCHANGED <<queue, queued>>,
         NEW t \in Calls, NEW p, pc' = [pc EXCEPT ![t] = p],
         queued[t] => pc[t] # "wait" /\ p \in QueuedPC \ {"wait"},
         p \in Returned => queued[t]
  PROVE  QueueInv'
<1>1. ASSUME NEW u \in Calls
      PROVE  /\ queued[u] => pc'[u] \in QueuedPC /\ (pc'[u] = "wait" <=> pc[u] = "wait")
             /\ pc'[u] \in Returned => queued[u]
  <2>1. CASE u = t BY <2>1
  <2>2. CASE u # t
    <3>1. pc'[u] = pc[u] BY <2>2
    <3> QED BY <3>1 DEF QueueInv, QueuePlaces
  <2> QED BY <2>1, <2>2
<1> QED BY <1>1, SameQueue

\* Only the entry and the threads of one model change.
LEMMA OneAccount ==
  ASSUME QueueInv, queue' \in Seq(Entry), Single(queue'), NEW m \in Models,
         \A n \in Models \ {m} : /\ EntriesOf(queue', n) = EntriesOf(queue, n)
                                 /\ Waiting(n)' = Waiting(n) /\ Loading(n)' = Loading(n),
         \A t, u \in Loading(m)' : t = u,
         Account(queue', m, Waiting(m)', Loading(m)'),
         QueuePlaces'
  PROVE  QueueInv'
<1>1. OneLoader' BY DEF QueueInv, OneLoader
<1>2. \A n \in Models : Account(queue', n, Waiting(n)', Loading(n)')
  BY DEF QueueInv, Accounts, Account
<1>3. Accounts' BY <1>2 DEF Accounts, Account, EntriesOf, Find
<1> QED BY <1>1, <1>3 DEF QueueInv, QueueTypes, Single

\* What a step of a call of model m leaves alone.
LEMMA OtherAccounts ==
  ASSUME NEW t \in Calls, NEW p, DOMAIN pc = Calls, DOMAIN queued = Calls,
         pc' = [pc EXCEPT ![t] = p], NEW f, queued' = [queued EXCEPT ![t] = f]
  PROVE  /\ \A n \in Models \ {Target[t]} :
              Waiting(n)' = Waiting(n) /\ Loading(n)' = Loading(n)
         /\ Waiting(Target[t])' = IF f THEN Waiting(Target[t]) \cup {t}
                                  ELSE Waiting(Target[t]) \ {t}
         /\ Loading(Target[t])' = IF f /\ p # "wait" THEN Loading(Target[t]) \cup {t}
                                  ELSE Loading(Target[t]) \ {t}
<1>1. \A u \in Calls \ {t} : pc'[u] = pc[u] /\ queued'[u] = queued[u] OBVIOUS
<1>2. pc'[t] = p /\ queued'[t] = f OBVIOUS
<1> QED BY <1>1, <1>2 DEF Waiting, Loading

-----------------------------------------------------------------------------
(* The steps that join and leave the queue                                  *)

\* Every call counts once.
LEMMA WaitingFinite ==
  ASSUME IsFiniteSet(Calls), NEW m
  PROVE  IsFiniteSet(Waiting(m)) /\ Cardinality(Waiting(m)) \in Nat
         /\ (Cardinality(Waiting(m)) = 0 <=> Waiting(m) = {})
<1>1. Waiting(m) \in SUBSET Calls BY DEF Waiting
<1>2. IsFiniteSet(Waiting(m)) BY <1>1, FS_Subset
<1> QED BY <1>2, FS_CardinalityType, FS_EmptySet

LEMMA JoinCounts ==
  ASSUME QueueInv, FlagTypes, PlaceTypes, ModelsAssumption, NEW t \in Calls,
         EnsureQueues(t)
  PROVE  QueueInv'
<1> DEFINE m == Target[t]
           W == Waiting(m)
<1>1. m \in Models BY DEF ModelsAssumption
<1>2. /\ pc[t] = "ensure" /\ queue' = Join(queue, m)
      /\ queued' = [queued EXCEPT ![t] = TRUE] /\ pc' = [pc EXCEPT ![t] = "wait"]
  BY DEF EnsureQueues, Goto
<1>3. DOMAIN pc = Calls /\ DOMAIN queued = Calls BY DEF PlaceTypes, FlagTypes
<1>4. ~queued[t] BY <1>2 DEF QueueInv, QueuePlaces, QueuedPC, Returned
<1>5. t \notin W /\ t \notin Loading(m) BY <1>4 DEF Waiting, Loading
<1>6. /\ \A n \in Models \ {m} : Waiting(n)' = Waiting(n) /\ Loading(n)' = Loading(n)
      /\ Waiting(m)' = W \cup {t}
      /\ Loading(m)' = Loading(m) \ {t}
  BY <1>2, <1>3, OtherAccounts
<1>7. queue \in Seq(Entry) /\ Single(queue) /\ Account(queue, m, W, Loading(m))
  BY <1>1 DEF QueueInv, QueueTypes, Accounts
<1>8. /\ queue' \in Seq(Entry) /\ Single(queue')
      /\ \A n \in Models \ {m} : EntriesOf(queue', n) = EntriesOf(queue, n)
      /\ EntriesOf(queue', m) =
           IF EntriesOf(queue, m) = {}
           THEN {[model |-> m, n_waiters |-> 1, loading |-> FALSE]}
           ELSE {More[e] : e \in EntriesOf(queue, m)}
  BY <1>1, <1>2, <1>7, JoinEntry
<1>9. /\ Cardinality(W \cup {t}) = Cardinality(W) + 1
      /\ W = {} => Cardinality(W) = 0 /\ Loading(m) = {}
  BY <1>5, WaitingFinite, FS_AddElement DEF ModelsAssumption, Loading
<1>10. Loading(m)' = Loading(m) BY <1>5, <1>6
<1>11. Account(queue', m, W \cup {t}, Loading(m))
  <2>1. CASE EntriesOf(queue, m) = {}
    <3>1. W = {} BY <1>7, <2>1 DEF Account
    <3>2. \A e \in EntriesOf(queue', m) : e.n_waiters = 1 BY <1>8, <2>1
    <3>3. Cardinality(W \cup {t}) = 1 BY <1>9, <3>1
    <3>4. EntriesOf(queue', m) # {} BY <1>8, <2>1
    <3> HIDE DEF W
    <3> QED BY <1>9, <3>1, <3>2, <3>3, <3>4 DEF Account
  <2>2. CASE EntriesOf(queue, m) # {}
    <3>1. \A e \in EntriesOf(queue, m) :
            /\ e \in Entry /\ More[e].n_waiters = e.n_waiters + 1
            /\ More[e].loading = e.loading
      <4>1. \A e \in EntriesOf(queue, m) : e \in Entry
        BY <1>7, LenProperties, ElementOfSeq DEF EntriesOf, Find
      <4>2. \A e \in Entry : /\ More[e].n_waiters = e.n_waiters + 1
                             /\ More[e].loading = e.loading
        BY DEF More, Entry
      <4> QED BY <4>1, <4>2
    <3>2. \A e \in EntriesOf(queue', m) : \E x \in EntriesOf(queue, m) :
            e.n_waiters = x.n_waiters + 1 /\ e.loading = x.loading
      BY <1>8, <2>2, <3>1
    <3>3. EntriesOf(queue', m) # {}
      <4>1. PICK e \in EntriesOf(queue, m) : TRUE BY <2>2
      <4>2. More[e] \in EntriesOf(queue', m) BY <1>8, <2>2, <4>1
      <4> QED BY <4>2
    <3> HIDE DEF W
    <3> QED BY <1>7, <1>9, <3>2, <3>3 DEF Account
  <2> QED BY <2>1, <2>2
<1>12. QueuePlaces'
  <2>1. \A u \in Calls \ {t} : pc'[u] = pc[u] /\ queued'[u] = queued[u]
    BY <1>2, <1>3
  <2>2. pc'[t] = "wait" /\ queued'[t] BY <1>2, <1>3
  <2> QED BY <2>1, <2>2 DEF QueueInv, QueuePlaces, QueuedPC, Returned
<1>13. \A u, v \in Loading(m)' : u = v BY <1>1, <1>10 DEF QueueInv, OneLoader
<1>14. Account(queue', m, Waiting(m)', Loading(m)') BY <1>6, <1>10, <1>11
<1> HIDE DEF m, W
<1> QED BY <1>1, <1>6, <1>8, <1>12, <1>13, <1>14, OneAccount

\* leave_queue(), in each of the two ways out of the wait.
LEMMA LeaveCounts ==
  ASSUME QueueInv, FlagTypes, PlaceTypes, ModelsAssumption, NEW t \in Calls,
         LeaveQueue(t), pc[t] = "wait",
         NEW p, pc' = [pc EXCEPT ![t] = p], p \notin Returned
  PROVE  QueueInv'
<1> DEFINE m == Target[t]
           W == Waiting(m)
<1>1. m \in Models BY DEF ModelsAssumption
<1>2. /\ queue' = IF queued[t] THEN Leave(queue, m) ELSE queue
      /\ queued' = [queued EXCEPT ![t] = FALSE]
  BY DEF LeaveQueue
<1>3. DOMAIN pc = Calls /\ DOMAIN queued = Calls /\ queued[t] \in BOOLEAN
  BY DEF PlaceTypes, FlagTypes
<1>4. CASE ~queued[t]
  <2>1. queued' = queued
    <3>1. queued \in [Calls -> BOOLEAN] BY DEF FlagTypes
    <3>2. queued[t] = FALSE BY <3>1, <1>4
    <3>3. queued = [u \in Calls |-> queued[u]] BY <3>1
    <3>4. queued' = [u \in Calls |-> IF u = t THEN FALSE ELSE queued[u]] BY <1>2, <3>1
    <3> QED BY <3>2, <3>3, <3>4
  <2>2. queue' = queue BY <1>2, <1>4
  <2> QED BY <1>3, <1>4, <2>1, <2>2, AsideQueue
<1>5. CASE queued[t]
  <2>1. t \in W /\ t \notin Loading(m) BY <1>5 DEF Waiting, Loading
  <2>2. /\ \A n \in Models \ {m} : Waiting(n)' = Waiting(n) /\ Loading(n)' = Loading(n)
        /\ Waiting(m)' = W \ {t}
        /\ Loading(m)' = Loading(m) \ {t}
    BY <1>2, <1>3, OtherAccounts
  <2>3. queue \in Seq(Entry) /\ Single(queue) /\ Account(queue, m, W, Loading(m))
    BY <1>1 DEF QueueInv, QueueTypes, Accounts
  <2>4. /\ queue' \in Seq(Entry) /\ Single(queue')
        /\ \A n \in Models \ {m} : EntriesOf(queue', n) = EntriesOf(queue, n)
        /\ EntriesOf(queue', m)
             = {Less[e] : e \in {x \in EntriesOf(queue, m) : x.n_waiters > 1}}
    BY <1>1, <1>2, <1>5, <2>3, LeaveEntry
  <2>5. /\ Cardinality(W \ {t}) = Cardinality(W) - 1
        /\ Cardinality(W) \in Nat /\ Cardinality(W \ {t}) \in Nat
        /\ Cardinality(W \ {t}) = 0 <=> W \ {t} = {}
    <3>1. IsFiniteSet(W) /\ Cardinality(W) \in Nat
      BY WaitingFinite DEF ModelsAssumption
    <3> HIDE DEF W
    <3>2. IsFiniteSet(W \ {t}) /\ Cardinality(W \ {t}) = Cardinality(W) - 1
      BY <2>1, <3>1, FS_RemoveElement
    <3> QED BY <3>1, <3>2, FS_EmptySet, FS_CardinalityType
  <2>6. Loading(m)' = Loading(m) BY <2>1, <2>2
  <2>7. Account(queue', m, W \ {t}, Loading(m))
    <3> HIDE DEF W
    <3>1. PICK x \in EntriesOf(queue, m) : TRUE BY <2>1, <2>3 DEF Account
    <3>2. EntriesOf(queue, m) = {x} /\ x \in Entry
      <4>1. PICK i \in Find(queue, m) : x = queue[i] BY <3>1 DEF EntriesOf
      <4>2. EntriesOf(queue, m) = {x} BY <2>3, <4>1, OneOf
      <4>3. i \in 1..Len(queue) BY <2>3, <4>1, LenProperties DEF Find
      <4>4. queue[i] \in Entry BY <2>3, <4>3, ElementOfSeq
      <4> QED BY <4>1, <4>2, <4>4
    <3>3. x.n_waiters = Cardinality(W) /\ (Loading(m) # {} => x.loading)
      BY <2>3, <3>1 DEF Account
    <3>4. Less[x].n_waiters = x.n_waiters - 1 /\ Less[x].loading = x.loading
      BY <3>2 DEF Less, Entry
    <3>5. EntriesOf(queue', m) = IF x.n_waiters > 1 THEN {Less[x]} ELSE {}
      BY <2>4, <3>2
    <3>6. x.n_waiters > 1 <=> W \ {t} # {}
      <4> DEFINE c == Cardinality(W)
                 d == Cardinality(W \ {t})
      <4>1. c \in Nat /\ d = c - 1 /\ (d = 0 <=> W \ {t} = {}) /\ d \in Nat BY <2>5
      <4>2. x.n_waiters = c BY <3>3
      <4> HIDE DEF c, d
      <4>3. c > 1 <=> d # 0 BY <4>1
      <4> QED BY <4>1, <4>2, <4>3
    <3> QED BY <2>5, <3>3, <3>4, <3>5, <3>6 DEF Account
  <2>8. QueuePlaces'
    <3>1. \A u \in Calls \ {t} : pc'[u] = pc[u] /\ queued'[u] = queued[u]
      BY <1>2, <1>3
    <3>2. pc'[t] \notin Returned /\ ~queued'[t] BY <1>2, <1>3
    <3> QED BY <3>1, <3>2 DEF QueueInv, QueuePlaces
  <2>9. \A u, v \in Loading(m)' : u = v BY <1>1, <2>6 DEF QueueInv, OneLoader
  <2>10. Account(queue', m, Waiting(m)', Loading(m)') BY <2>2, <2>6, <2>7
  <2> HIDE DEF m, W
  <2> QED BY <1>1, <2>2, <2>4, <2>8, <2>9, <2>10, OneAccount
<1> QED BY <1>3, <1>4, <1>5

\* try_claim(): nobody loads the entry that is claimed.
LEMMA ClaimCounts ==
  ASSUME QueueInv, FlagTypes, PlaceTypes, ModelsAssumption, NEW t \in Calls,
         WaitClaims(t)
  PROVE  QueueInv'
<1> DEFINE m == Target[t]
           W == Waiting(m)
           h == Head(queue)
<1>1. m \in Models BY DEF ModelsAssumption
<1>2. /\ pc[t] = "wait" /\ queued[t]
      /\ queue # <<>> /\ h.model = m /\ ~h.loading
      /\ queue' = [queue EXCEPT ![1].loading = TRUE]
      /\ pc' = [pc EXCEPT ![t] = "unload_lru"] /\ queued' = queued
  BY DEF WaitClaims, TryClaim, Goto, locals
<1>3. DOMAIN pc = Calls /\ DOMAIN queued = Calls /\ queued' = [queued EXCEPT ![t] = TRUE]
  <2>1. queued \in [Calls -> BOOLEAN] BY DEF FlagTypes
  <2>2. queued[t] = TRUE BY <1>2, <2>1
  <2>3. queued = [queued EXCEPT ![t] = TRUE] BY <2>1, <2>2
  <2> QED BY <1>2, <2>1, <2>3 DEF PlaceTypes
<1>4. queue \in Seq(Entry) /\ Single(queue) /\ Account(queue, m, W, Loading(m))
  BY <1>1 DEF QueueInv, QueueTypes, Accounts
<1>5. /\ queue' \in Seq(Entry) /\ Single(queue')
      /\ \A n \in Models \ {m} : EntriesOf(queue', n) = EntriesOf(queue, n)
      /\ EntriesOf(queue, m) = {h}
      /\ EntriesOf(queue', m) = {Mark[h]}
  BY <1>1, <1>2, <1>4, MarkEntry
<1>6. /\ \A n \in Models \ {m} : Waiting(n)' = Waiting(n) /\ Loading(n)' = Loading(n)
      /\ Waiting(m)' = W \cup {t}
      /\ Loading(m)' = Loading(m) \cup {t}
  <2>1. pc' = [pc EXCEPT ![t] = "unload_lru"] BY <1>2
  <2>2. "unload_lru" # "wait" OBVIOUS
  <2>3. queued' = [queued EXCEPT ![t] = TRUE] BY <1>3
  <2>4. /\ \A n \in Models \ {m} : Waiting(n)' = Waiting(n) /\ Loading(n)' = Loading(n)
        /\ Waiting(m)' = IF TRUE THEN W \cup {t} ELSE W \ {t}
        /\ Loading(m)' = IF TRUE /\ "unload_lru" # "wait" THEN Loading(m) \cup {t}
                         ELSE Loading(m) \ {t}
    BY <1>3, <2>1, <2>3, OtherAccounts, Zenon
  <2> QED BY <2>2, <2>4
<1>7. t \in W BY <1>2 DEF Waiting
<1>8. Loading(m) = {} /\ h.n_waiters = Cardinality(W) BY <1>2, <1>4, <1>5 DEF Account
<1>9. Waiting(m)' = W /\ Loading(m)' = {t} BY <1>6, <1>7, <1>8
<1>10. Account(queue', m, W, {t})
  <2>1. h \in Entry BY <1>2, <1>4, HeadTailProperties
  <2>2. Mark[h].n_waiters = h.n_waiters /\ Mark[h].loading = TRUE BY <2>1 DEF Mark, Entry
  <2> HIDE DEF W, h
  <2> QED BY <1>5, <1>7, <1>8, <2>2 DEF Account
<1>11. QueuePlaces'
  <2>1. \A u \in Calls \ {t} : pc'[u] = pc[u] /\ queued'[u] = queued[u] BY <1>2, <1>3
  <2>2. pc'[t] = "unload_lru" /\ queued'[t] BY <1>2, <1>3
  <2> QED BY <2>1, <2>2 DEF QueueInv, QueuePlaces, QueuedPC, Returned
<1>12. \A u, v \in Loading(m)' : u = v BY <1>9
<1>13. Account(queue', m, Waiting(m)', Loading(m)') BY <1>9, <1>10
<1> HIDE DEF m, W, h
<1> QED BY <1>1, <1>5, <1>6, <1>11, <1>12, <1>13, OneAccount

\* claim_done(): whoever loads the entry is the one that returns.
LEMMA AfterLoadCounts ==
  ASSUME QueueInv, FlagTypes, PlaceTypes, ModelsAssumption, NEW t \in Calls,
         AfterLoad(t)
  PROVE  QueueInv'
<1> DEFINE m == Target[t]
           W == Waiting(m)
<1>1. m \in Models BY DEF ModelsAssumption
<1>2. /\ pc[t] \in Returned
      /\ queue' = ClaimDone(queue, m, pc[t] = "load_ok")
      /\ pc' = [pc EXCEPT ![t] = "wait"] /\ queued' = queued
  BY DEF AfterLoad, Returned, Goto
<1>3. queued[t] BY <1>2 DEF QueueInv, QueuePlaces
<1>4. DOMAIN pc = Calls /\ DOMAIN queued = Calls /\ queued' = [queued EXCEPT ![t] = TRUE]
  <2>1. queued \in [Calls -> BOOLEAN] BY DEF FlagTypes
  <2>2. queued[t] = TRUE BY <1>3, <2>1
  <2>3. queued = [queued EXCEPT ![t] = TRUE] BY <2>1, <2>2
  <2> QED BY <1>2, <2>1, <2>3 DEF PlaceTypes
<1>5. queue \in Seq(Entry) /\ Single(queue) /\ Account(queue, m, W, Loading(m))
  BY <1>1 DEF QueueInv, QueueTypes, Accounts
<1>6. /\ \A n \in Models \ {m} : Waiting(n)' = Waiting(n) /\ Loading(n)' = Loading(n)
      /\ Waiting(m)' = W \cup {t}
      /\ Loading(m)' = Loading(m) \ {t}
  BY <1>2, <1>4, OtherAccounts
<1>7. t \in W /\ t \in Loading(m) BY <1>2, <1>3 DEF Waiting, Loading, Returned
<1>8. Waiting(m)' = W /\ Loading(m)' = {}
  BY <1>1, <1>6, <1>7 DEF QueueInv, OneLoader
<1>9. /\ queue' \in Seq(Entry) /\ Single(queue')
      /\ \A n \in Models \ {m} : EntriesOf(queue', n) = EntriesOf(queue, n)
      /\ Account(queue', m, W, {})
  <2>1. CASE pc[t] = "load_ok"
    <3>1. queue' = queue BY <1>2, <2>1 DEF ClaimDone
    <3> QED BY <1>5, <3>1 DEF Account
  <2>2. CASE pc[t] # "load_ok"
    <3>1. queue' = ClaimDone(queue, m, FALSE) BY <1>2, <2>2 DEF ClaimDone
    <3>2. /\ queue' \in Seq(Entry) /\ Single(queue')
          /\ \A n \in Models \ {m} : EntriesOf(queue', n) = EntriesOf(queue, n)
          /\ EntriesOf(queue', m) = {Free[e] : e \in EntriesOf(queue, m)}
      BY <1>1, <1>5, <3>1, FreeEntry
    <3>3. \A e \in EntriesOf(queue, m) : Free[e].n_waiters = e.n_waiters
      <4>1. \A e \in EntriesOf(queue, m) : e \in Entry
        BY <1>5, LenProperties, ElementOfSeq DEF EntriesOf, Find
      <4>2. \A e \in Entry : Free[e].n_waiters = e.n_waiters BY DEF Free, Entry
      <4> QED BY <4>1, <4>2
    <3>4. EntriesOf(queue', m) # {}
      <4>1. PICK e \in EntriesOf(queue, m) : TRUE BY <1>5, <1>7 DEF Account
      <4>2. Free[e] \in EntriesOf(queue', m) BY <3>2
      <4> QED BY <4>2
    <3>5. \A e \in EntriesOf(queue', m) : e.n_waiters = Cardinality(W)
      BY <1>5, <3>2, <3>3 DEF Account
    <3>6. Account(queue', m, W, {}) BY <1>7, <3>4, <3>5 DEF Account
    <3> QED BY <3>2, <3>6
  <2> QED BY <2>1, <2>2
<1>10. QueuePlaces'
  <2>1. \A u \in Calls \ {t} : pc'[u] = pc[u] /\ queued'[u] = queued[u] BY <1>2, <1>4
  <2>2. pc'[t] = "wait" /\ queued'[t] BY <1>2, <1>4
  <2> QED BY <2>1, <2>2 DEF QueueInv, QueuePlaces, QueuedPC, Returned
<1>11. \A u, v \in Loading(m)' : u = v BY <1>8
<1>12. Account(queue', m, Waiting(m)', Loading(m)') BY <1>8, <1>9
<1> HIDE DEF m, W
<1> QED BY <1>1, <1>6, <1>9, <1>10, <1>11, <1>12, OneAccount

-----------------------------------------------------------------------------
(* One step                                                                 *)

Inv == Typed /\ QueueInv

Moves(t, P) == \E p \in P : pc' = [pc EXCEPT ![t] = p]

LEMMA MovesTypes ==
  ASSUME PlaceTypes, RememberOnly, NEW t \in Calls, NEW P,
         P \subseteq PCs \ {"remember"}, Moves(t, P)
  PROVE  PlaceTypes' /\ RememberOnly'
<1>1. PICK p \in P : pc' = [pc EXCEPT ![t] = p] BY DEF Moves
<1>2. p \in PCs /\ p # "remember" BY <1>1
<1>3. pc' \in [Calls -> PCs] BY <1>1, <1>2, Updated DEF PlaceTypes
<1>4. \A u \in Calls : pc'[u] = "remember" => pc[u] = "remember"
  BY <1>1, <1>2 DEF PlaceTypes
<1> QED BY <1>3, <1>4 DEF PlaceTypes, RememberOnly

\* A step of a call that is not queued, or that loads for the queue.
LEMMA MovesAside ==
  ASSUME Inv, UNCHANGED <<queue, queued>>, NEW t \in Calls, NEW P, Moves(t, P),
         \/ pc[t] \notin QueuedPC /\ P \cap Returned = {}
         \/ ~queued[t] /\ P \cap Returned = {}
         \/ queued[t] /\ pc[t] # "wait" /\ P \subseteq QueuedPC \ {"wait"}
  PROVE  QueueInv'
<1>1. PICK p \in P : pc' = [pc EXCEPT ![t] = p] BY DEF Moves
<1>2. /\ QueueInv /\ DOMAIN pc = Calls
      /\ pc[t] \notin QueuedPC => ~queued[t]
  BY DEF Inv, Typed, PlaceTypes, QueueInv, QueuePlaces
<1>3. /\ queued[t] => pc[t] # "wait" /\ p \in QueuedPC \ {"wait"}
      /\ p \in Returned => queued[t]
  BY <1>1, <1>2
<1> QED BY <1>1, <1>2, <1>3, AsideQueue

\* A step that no call takes.
LEMMA StandsAside ==
  ASSUME Inv, UNCHANGED <<queue, queued, pc>>
  PROVE  QueueInv' /\ PlaceTypes' /\ RememberOnly' /\ QueueTypes'
<1>1. QueueInv' BY SameQueue DEF Inv, QueueInv, QueuePlaces
<1> QED BY <1>1 DEF Inv, Typed, PlaceTypes, RememberOnly, QueueInv

\* The parts of the invariant after a step.
LEMMA Together ==
  ASSUME RegistryTypes', StopTypes', ConvTypes', MonitorTypes', ProcessTypes',
         LinesDomain', PlaceTypes', RememberOnly', FlagTypes', NameTypes',
         HistoryTypes', QueueInv'
  PROVE  Inv'
BY DEF Inv, Typed, QueueInv

\* What most steps leave alone.
LEMMA SameRest ==
  ASSUME Inv
  PROVE  /\ UNCHANGED <<status, failed, req_count, is_reloading>> => RegistryTypes'
         /\ UNCHANGED <<stopping_models, cmds>> => StopTypes'
         /\ UNCHANGED conv_models => ConvTypes'
         /\ UNCHANGED <<watched, deadline, reaped>> => MonitorTypes'
         /\ UNCHANGED <<child, lines>> => ProcessTypes' /\ LinesDomain'
         /\ UNCHANGED <<queued, did_load, saw_loading>> => FlagTypes'
         /\ UNCHANGED <<victim, names>> => NameTypes'
         /\ UNCHANGED <<connected, cancelled, party>> => HistoryTypes'
BY SameRegistry, SameStops, SameMonitor, SameProcess, SameFlags, SameNames, SameHistory
   DEF Inv, Typed, ConvTypes

\* What its caller does after load() (it raises did_load if it goes to wait).
LEMMA ReturnTypes ==
  ASSUME Inv, NEW t \in Calls, NEW ok \in BOOLEAN, LoadReturns(t, ok), UNCHANGED queued
  PROVE  /\ Moves(t, IF queued[t] THEN Returned ELSE {"wait", "done"})
         /\ did_load' \in [Calls -> BOOLEAN]
<1>1. Moves(t, IF queued[t] THEN Returned ELSE {"wait", "done"})
  <2>1. CASE queued[t] /\ ok
    BY <2>1 DEF LoadReturns, Goto, Moves, Returned
  <2>2. CASE queued[t] /\ ~ok
    BY <2>2 DEF LoadReturns, Goto, Moves, Returned
  <2>3. CASE ~queued[t] /\ Op[t] = "post" /\ ok
    <3>1. Goto(t, "wait") BY <2>3 DEF LoadReturns
    <3> QED BY <2>3, <3>1 DEF Goto, Moves
  <2>4. CASE ~queued[t] /\ ~(Op[t] = "post" /\ ok)
    <3>1. Goto(t, "done") BY <2>4 DEF LoadReturns
    <3> QED BY <2>4, <3>1 DEF Goto, Moves
  <2> QED BY <2>1, <2>2, <2>3, <2>4
<1>2. did_load' \in [Calls -> BOOLEAN]
  <2> DEFINE direct == ~queued[t] /\ Op[t] = "post" /\ ok
  <2>1. did_load' = [did_load EXCEPT ![t] = direct] BY DEF LoadReturns
  <2>2. direct \in BOOLEAN OBVIOUS
  <2>3. did_load \in [Calls -> BOOLEAN] BY DEF Inv, Typed, FlagTypes
  <2> HIDE DEF direct
  <2> QED BY <2>1, <2>2, <2>3, Updated
<1> QED BY <1>1, <1>2

\* mapping[name] makes an entry.
LEMMA EnteredTypes ==
  ASSUME RegistryTypes, NEW m, status' = Entered(m), UNCHANGED <<failed, is_reloading>>,
         req_count' \in [Models -> Nat]
  PROVE  RegistryTypes'
<1>1. status' \in [Models -> Statuses] BY DEF RegistryTypes, Entered, Statuses
<1> QED BY <1>1 DEF RegistryTypes

-----------------------------------------------------------------------------
(* The steps of a request                                                   *)

LEMMA RequestKeeps ==
  ASSUME Inv, ModelsAssumption, NEW t \in Calls, Request(t)
  PROVE  Inv'
<1> USE DEF registry, monitor, process, locals, history
<1> DEFINE Other == UNCHANGED <<failed, is_reloading, watched, deadline, reaped, child,
                                lines, victim, names, cancelled, party>>
<1>0. /\ Target[t] \in Models
      /\ PlaceTypes /\ RememberOnly /\ FlagTypes /\ StopTypes /\ QueueInv
  BY DEF Inv, Typed, ModelsAssumption
<1>1. CASE Remember(t)
  <2>1. pc[t] = "remember" /\ Moves(t, {"ensure"}) BY <1>1 DEF Remember, Goto, Moves
  <2>2. UNCHANGED <<registry, monitor, process, locals, history>> BY <1>1 DEF Remember
  <2>3. ConvTypes'
    <3>1. t \in Posts BY <1>0, <2>1 DEF RememberOnly, Posts
    <3>2. conv_models' = [conv_models EXCEPT ![Conv[t]] = t] BY <1>1 DEF Remember
    <3>3. conv_models \in [Convs -> Posts \cup {None}] BY DEF Inv, Typed, ConvTypes
    <3> QED BY <3>1, <3>2, <3>3, Updated DEF ConvTypes
  <2>4. PlaceTypes' /\ RememberOnly' BY <1>0, <2>1, MovesTypes DEF PCs
  <2>5. QueueInv' BY <2>1, <2>2, MovesAside DEF QueuedPC, Returned
  <2> QED BY <2>2, <2>3, <2>4, <2>5, SameRest, Together
<1>2. CASE EnsureSkips(t)
  <2>1. UNCHANGED <<registry, conv_models, monitor, process, locals, history>>
    BY <1>2 DEF EnsureSkips
  <2>2. pc[t] = "ensure" /\ Moves(t, {"done", "proxy", "alive", "wait"})
    <3>1. PICK p : /\ Goto(t, p)
                   /\ p = CASE status[Target[t]] = "absent" -> "done"
                            [] status[Target[t]] \in Ready  -> Forwarding(t)
                            [] OTHER                        -> "wait"
      BY <1>2 DEF EnsureSkips
    <3>2. p \in {"done", "wait", Forwarding(t)} BY <3>1
    <3> QED BY <1>2, <3>1, <3>2 DEF EnsureSkips, Goto, Moves, Forwarding
  <2>3. PlaceTypes' /\ RememberOnly' BY <1>0, <2>2, MovesTypes DEF PCs
  <2>4. QueueInv' BY <2>1, <2>2, MovesAside DEF QueuedPC, Returned
  <2> QED BY <2>1, <2>3, <2>4, SameRest, Together
<1>3. CASE EnsureLoads(t)
  <2>1. UNCHANGED <<registry, conv_models, monitor, process, locals, history>>
    BY <1>3 DEF EnsureLoads
  <2>2. pc[t] = "ensure" /\ Moves(t, {"unload_lru"}) BY <1>3 DEF EnsureLoads, Goto, Moves
  <2>3. PlaceTypes' /\ RememberOnly' BY <1>0, <2>2, MovesTypes DEF PCs
  <2>4. QueueInv' BY <2>1, <2>2, MovesAside DEF QueuedPC, Returned
  <2> QED BY <2>1, <2>3, <2>4, SameRest, Together
<1>4. CASE EnsureQueues(t)
  <2>1. Other /\ UNCHANGED <<status, req_count, conv_models, did_load, saw_loading, connected>>
    BY <1>4 DEF EnsureQueues
  <2>2. Moves(t, {"wait"}) BY <1>4 DEF EnsureQueues, Goto, Moves
  <2>3. PlaceTypes' /\ RememberOnly' BY <1>0, <2>2, MovesTypes DEF PCs
  <2>4. QueueInv' BY <1>0, <1>4, JoinCounts
  <2>5. StopTypes'
    <3>1. Tick(status, queue', req_count, stopping_models) BY <1>4 DEF EnsureQueues
    <3> QED BY <1>0, <3>1, TickTypes DEF StopTypes, ModelsAssumption
  <2>6. FlagTypes'
    <3>1. queued' = [queued EXCEPT ![t] = TRUE] BY <1>4 DEF EnsureQueues
    <3> QED BY <1>0, <2>1, <3>1 DEF FlagTypes
  <2> QED BY <2>1, <2>3, <2>4, <2>5, <2>6, SameRest, Together
<1>5. CASE WaitEnds(t)
  <2>1. Other /\ UNCHANGED <<status, req_count, stopping_models, cmds, conv_models, connected>>
    BY <1>5 DEF WaitEnds
  <2>2. pc[t] = "wait" /\ LeaveQueue(t) /\ pc' = [pc EXCEPT ![t] = Forwarding(t)]
    BY <1>5 DEF WaitEnds, Goto
  <2>3. Forwarding(t) \in {"proxy", "alive"} BY DEF Forwarding
  <2>4. Moves(t, {"proxy", "alive"}) BY <2>2, <2>3 DEF Moves
  <2>5. PlaceTypes' /\ RememberOnly' BY <1>0, <2>4, MovesTypes DEF PCs
  <2>6. QueueInv' BY <1>0, <2>2, <2>3, LeaveCounts DEF Returned
  <2>7. FlagTypes' BY <1>0, <2>2 DEF LeaveQueue, FlagTypes
  <2> QED BY <2>1, <2>5, <2>6, <2>7, SameRest, Together
<1>6. CASE WaitThrows(t)
  <2>1. Other /\ UNCHANGED <<status, req_count, conv_models, connected>>
    BY <1>6 DEF WaitThrows
  <2>2. pc[t] = "wait" /\ LeaveQueue(t) /\ pc' = [pc EXCEPT ![t] = "done"]
    BY <1>6 DEF WaitThrows, Goto
  <2>3. Moves(t, {"done"}) BY <2>2 DEF Moves
  <2>4. PlaceTypes' /\ RememberOnly' BY <1>0, <2>3, MovesTypes DEF PCs
  <2>5. QueueInv'
    <3>1. "done" \notin Returned BY DEF Returned
    <3> QED BY <1>0, <2>2, <3>1, LeaveCounts, Zenon
  <2>6. FlagTypes' BY <1>0, <2>2 DEF LeaveQueue, FlagTypes
  <2>7. StopTypes'
    <3>1. Tick(status, queue', req_count, stopping_models) BY <1>6 DEF WaitThrows
    <3> QED BY <1>0, <3>1, TickTypes DEF StopTypes, ModelsAssumption
  <2> QED BY <2>1, <2>4, <2>5, <2>6, <2>7, SameRest, Together
<1>7. CASE WaitSeesLoading(t)
  <2>1. Other /\ UNCHANGED <<registry, conv_models, cmds, pc, queued, did_load, connected>>
    BY <1>7 DEF WaitSeesLoading
  <2>2. FlagTypes'
    <3>1. saw_loading' = [saw_loading EXCEPT ![t] = TRUE] BY <1>7 DEF WaitSeesLoading
    <3> QED BY <1>0, <2>1, <3>1 DEF FlagTypes
  <2>3. QueueInv' /\ PlaceTypes' /\ RememberOnly' BY <2>1, StandsAside
  <2> QED BY <2>1, <2>2, <2>3, SameRest, Together
<1>8. CASE WaitClaims(t)
  <2>1. Other /\ UNCHANGED <<status, req_count, stopping_models, cmds, conv_models, queued,
                             did_load, saw_loading, connected>>
    BY <1>8 DEF WaitClaims
  <2>2. Moves(t, {"unload_lru"}) BY <1>8 DEF WaitClaims, Goto, Moves
  <2>3. PlaceTypes' /\ RememberOnly' BY <1>0, <2>2, MovesTypes DEF PCs
  <2>4. QueueInv' BY <1>0, <1>8, ClaimCounts
  <2> QED BY <2>1, <2>3, <2>4, SameRest, Together
<1>9. CASE AfterLoad(t)
  <2>1. Other /\ UNCHANGED <<status, req_count, conv_models, queued, saw_loading, connected>>
    BY <1>9 DEF AfterLoad
  <2>2. Moves(t, {"wait"}) BY <1>9 DEF AfterLoad, Goto, Moves
  <2>3. PlaceTypes' /\ RememberOnly' BY <1>0, <2>2, MovesTypes DEF PCs
  <2>4. QueueInv' BY <1>0, <1>9, AfterLoadCounts
  <2>5. StopTypes'
    <3>1. Tick(status, queue', req_count, stopping_models) BY <1>9 DEF AfterLoad
    <3> QED BY <1>0, <3>1, TickTypes DEF StopTypes, ModelsAssumption
  <2>6. FlagTypes'
    <3> DEFINE b == did_load[t] \/ pc[t] = "load_ok"
    <3>1. did_load' = [did_load EXCEPT ![t] = b] BY <1>9 DEF AfterLoad
    <3>2. did_load \in [Calls -> BOOLEAN] BY <1>0 DEF FlagTypes
    <3>3. b \in BOOLEAN OBVIOUS
    <3> HIDE DEF b
    <3>4. did_load' \in [Calls -> BOOLEAN] BY <3>1, <3>2, <3>3, Updated
    <3> QED BY <1>0, <2>1, <3>4 DEF FlagTypes
  <2> QED BY <2>1, <2>3, <2>4, <2>5, <2>6, SameRest, Together
<1>10. CASE CheckAlive(t)
  <2>1. UNCHANGED <<registry, conv_models, monitor, process, locals, history>>
    BY <1>10 DEF CheckAlive
  <2>2. pc[t] = "alive" /\ Moves(t, {"proxy", "done"})
    BY <1>10 DEF CheckAlive, Goto, Moves
  <2>3. PlaceTypes' /\ RememberOnly' BY <1>0, <2>2, MovesTypes DEF PCs
  <2>4. QueueInv' BY <2>1, <2>2, MovesAside DEF QueuedPC, Returned
  <2> QED BY <2>1, <2>3, <2>4, SameRest, Together
<1>11. CASE ReadMeta(t)
  <2>1. UNCHANGED <<registry, conv_models, monitor, process, locals, cancelled, party>>
    BY <1>11 DEF ReadMeta
  <2>2. pc[t] = "proxy" /\ Moves(t, {"count", "done"})
    BY <1>11 DEF ReadMeta, Goto, Moves
  <2>3. PlaceTypes' /\ RememberOnly' BY <1>0, <2>2, MovesTypes DEF PCs
  <2>4. QueueInv' BY <2>1, <2>2, MovesAside DEF QueuedPC, Returned
  <2>5. HistoryTypes'
    <3>1. connected' \in {connected, connected \cup {t}} BY <1>11 DEF ReadMeta
    <3> QED BY <2>1, <3>1 DEF Inv, Typed, HistoryTypes
  <2> QED BY <2>1, <2>3, <2>4, <2>5, SameRest, Together
<1>12. CASE Count(t)
  <2>1. Other /\ UNCHANGED <<stopping_models, queue, conv_models, cmds, queued, did_load,
                             saw_loading, connected>>
    BY <1>12 DEF Count
  <2>2. pc[t] = "count" /\ Moves(t, {"proxied"}) BY <1>12 DEF Count, Goto, Moves
  <2>3. PlaceTypes' /\ RememberOnly' BY <1>0, <2>2, MovesTypes DEF PCs
  <2>4. QueueInv' BY <2>1, <2>2, MovesAside DEF QueuedPC, Returned
  <2>5. RegistryTypes'
    <3>1. req_count \in [Models -> Nat] /\ RegistryTypes BY DEF Inv, Typed, RegistryTypes
    <3>2. req_count' = [req_count EXCEPT ![Target[t]] = req_count[Target[t]] + 1]
          /\ status' = Entered(Target[t])
      BY <1>12 DEF Count
    <3>3. req_count[Target[t]] + 1 \in Nat BY <1>0, <3>1
    <3>4. req_count' \in [Models -> Nat] BY <3>1, <3>2, <3>3, Updated
    <3> QED BY <2>1, <3>1, <3>2, <3>4, EnteredTypes
  <2> QED BY <2>1, <2>3, <2>4, <2>5, SameRest, Together
<1>13. CASE Cleanup(t)
  <2>1. Other /\ UNCHANGED <<status, queue, conv_models, queued, did_load, saw_loading>>
    BY <1>13 DEF Cleanup
  <2>2. pc[t] = "proxied" /\ Moves(t, {"done"}) BY <1>13 DEF Cleanup, Goto, Moves
  <2>3. PlaceTypes' /\ RememberOnly' BY <1>0, <2>2, MovesTypes DEF PCs
  <2>4. QueueInv' BY <2>1, <2>2, MovesAside DEF QueuedPC, Returned
  <2>5. req_count' \in [Models -> Nat]
    <3>1. req_count \in [Models -> Nat] BY DEF Inv, Typed, RegistryTypes
    <3>2. CASE Counted(Target[t])
      <4>1. req_count' = [req_count EXCEPT ![Target[t]] = req_count[Target[t]] - 1]
        BY <1>13, <3>2 DEF Cleanup
      <4>2. req_count[Target[t]] - 1 \in Nat BY <1>0, <3>1, <3>2 DEF Counted
      <4> QED BY <3>1, <4>1, <4>2, Updated
    <3>3. CASE ~Counted(Target[t])
      BY <1>13, <3>1, <3>3 DEF Cleanup
    <3> QED BY <3>2, <3>3
  <2>6. RegistryTypes' BY <2>1, <2>5 DEF Inv, Typed, RegistryTypes
  <2>7. StopTypes'
    <3>1. \/ Tick(status, queue, req_count', stopping_models)
          \/ UNCHANGED <<stopping_models, cmds>>
      BY <1>13 DEF Cleanup
    <3> QED BY <1>0, <3>1, TickTypes, SameStops DEF StopTypes, ModelsAssumption
  <2>8. HistoryTypes'
    <3>1. connected' = connected \ {t} BY <1>13 DEF Cleanup
    <3> QED BY <2>1, <3>1 DEF Inv, Typed, HistoryTypes
  <2> QED BY <2>1, <2>3, <2>4, <2>6, <2>7, <2>8, SameRest, Together
<1> QED BY <1>1, <1>2, <1>3, <1>4, <1>5, <1>6, <1>7, <1>8, <1>9, <1>10, <1>11,
           <1>12, <1>13 DEF Request

-----------------------------------------------------------------------------
(* The steps of a load                                                      *)

\* The place of a thread that loads, and of one that returns from a load.
LEMMA LoaderMoves ==
  ASSUME Inv, NEW t \in Calls, UNCHANGED <<queue, queued>>,
         pc[t] \in QueuedPC \ ({"wait"} \cup Returned),
         \/ \E ok \in BOOLEAN : LoadReturns(t, ok)
         \/ Moves(t, {"spawn", "lru_unload", "lru_wait"})
  PROVE  PlaceTypes' /\ RememberOnly' /\ QueueInv'
<1>0. PlaceTypes /\ RememberOnly BY DEF Inv, Typed
<1> DEFINE P == IF queued[t] THEN Returned ELSE {"wait", "done"}
<1>1. CASE Moves(t, {"spawn", "lru_unload", "lru_wait"})
  <2>1. PlaceTypes' /\ RememberOnly' BY <1>0, <1>1, MovesTypes DEF PCs
  <2>2. QueueInv' BY <1>1, MovesAside DEF QueuedPC, Returned
  <2> QED BY <2>1, <2>2
<1>2. CASE \E ok \in BOOLEAN : LoadReturns(t, ok)
  <2>1. Moves(t, P) BY <1>2, ReturnTypes
  <2>2. CASE queued[t]
    <3>1. Moves(t, Returned) BY <2>1, <2>2
    <3>2. PlaceTypes' /\ RememberOnly' BY <1>0, <3>1, MovesTypes DEF PCs, Returned
    <3>3. QueueInv' BY <2>2, <3>1, MovesAside DEF QueuedPC, Returned
    <3> QED BY <3>2, <3>3
  <2>3. CASE ~queued[t]
    <3>1. Moves(t, {"wait", "done"}) BY <2>1, <2>3
    <3>2. PlaceTypes' /\ RememberOnly' BY <1>0, <3>1, MovesTypes DEF PCs
    <3>3. QueueInv' BY <2>3, <3>1, MovesAside DEF Returned
    <3> QED BY <3>2, <3>3
  <2> QED BY <2>2, <2>3
<1> QED BY <1>1, <1>2

LEMMA LoadKeeps ==
  ASSUME Inv, ModelsAssumption, NEW t \in Calls, Load(t)
  PROVE  Inv'
<1> USE DEF registry, monitor, process, locals, history
<1>0. /\ Target[t] \in Models
      /\ PlaceTypes /\ RememberOnly /\ FlagTypes /\ StopTypes /\ NameTypes
      /\ RegistryTypes /\ ProcessTypes /\ LinesDomain
  BY DEF Inv, Typed, ModelsAssumption
<1>1. CASE LoadCall(t)
  <2>1. UNCHANGED <<registry, conv_models, monitor, process, locals, history>>
    BY <1>1 DEF LoadCall
  <2>2. pc[t] = "load" /\ Moves(t, {"unload_lru", "done"})
    BY <1>1 DEF LoadCall, Goto, Moves
  <2>3. PlaceTypes' /\ RememberOnly' BY <1>0, <2>2, MovesTypes DEF PCs
  <2>4. QueueInv' BY <2>1, <2>2, MovesAside DEF QueuedPC, Returned
  <2> QED BY <2>1, <2>3, <2>4, SameRest, Together
<1>2. CASE UnloadLru(t)
  <2>1. UNCHANGED <<registry, conv_models, monitor, process, queued, saw_loading, names,
                    history>>
    BY <1>2 DEF UnloadLru
  <2>2. pc[t] = "unload_lru" BY <1>2 DEF UnloadLru
  <2>3. \/ LoadReturns(t, FALSE) /\ UNCHANGED victim
        \/ Moves(t, {"spawn", "lru_unload", "lru_wait"}) /\ UNCHANGED did_load
    BY <1>2 DEF UnloadLru, Goto, Moves
  <2>4. PlaceTypes' /\ RememberOnly' /\ QueueInv'
    BY <2>1, <2>2, <2>3, LoaderMoves DEF QueuedPC, Returned
  <2>5. did_load' \in [Calls -> BOOLEAN]
    BY <1>0, <2>1, <2>3, ReturnTypes DEF FlagTypes
  <2>6. FlagTypes' BY <1>0, <2>1, <2>5 DEF FlagTypes
  <2>7. NameTypes'
    <3>1. \/ UNCHANGED victim
          \/ \E v \in Models : victim' = [victim EXCEPT ![t] = v]
      BY <1>2 DEF UnloadLru, Candidates
    <3>2. victim \in [Calls -> Models \cup {None}] BY <1>0 DEF NameTypes
    <3>3. victim' \in [Calls -> Models \cup {None}] BY <3>1, <3>2, Updated
    <3> QED BY <1>0, <2>1, <3>3 DEF NameTypes
  <2> QED BY <2>1, <2>4, <2>6, <2>7, SameRest, Together
<1>3. CASE UnloadVictim(t)
  <2>1. UNCHANGED <<status, failed, req_count, is_reloading, queue, conv_models, watched,
                    deadline, reaped, lines, locals, cancelled, party>>
    BY <1>3 DEF UnloadVictim
  <2>2. pc[t] = "lru_unload" /\ Stop({victim[t]}) /\ Moves(t, {"spawn", "lru_unload", "lru_wait"})
    BY <1>3 DEF UnloadVictim, Goto, Moves
  <2>3. PlaceTypes' /\ RememberOnly' /\ QueueInv'
    BY <2>1, <2>2, LoaderMoves DEF QueuedPC, Returned
  <2>4. StopTypes' /\ ProcessTypes' /\ LinesDomain' /\ connected' \subseteq connected
    BY <1>0, <2>1, <2>2, StopKeepsTypes DEF ModelsAssumption
  <2>5. HistoryTypes' BY <2>1, <2>4 DEF Inv, Typed, HistoryTypes
  <2> QED BY <2>1, <2>3, <2>4, <2>5, SameRest, Together
<1>4. CASE VictimUnloaded(t)
  <2>1. UNCHANGED <<failed, req_count, stopping_models, is_reloading, queue, conv_models,
                    monitor, process, queued, did_load, saw_loading, names, history>>
    BY <1>4 DEF VictimUnloaded
  <2>2. pc[t] = "lru_wait" /\ Moves(t, {"spawn", "lru_unload", "lru_wait"})
    BY <1>4 DEF VictimUnloaded, Goto, Moves
  <2>3. PlaceTypes' /\ RememberOnly' /\ QueueInv'
    BY <2>1, <2>2, LoaderMoves DEF QueuedPC, Returned
  <2>4. RegistryTypes'
    BY <1>0, <1>4, <2>1, EnteredTypes DEF VictimUnloaded, RegistryTypes
  <2>5. NameTypes'
    <3>1. victim' = [victim EXCEPT ![t] = None] BY <1>4 DEF VictimUnloaded
    <3> QED BY <1>0, <2>1, <3>1 DEF NameTypes
  <2> QED BY <2>1, <2>3, <2>4, <2>5, SameRest, Together
<1>5. CASE SpawnUnneeded(t)
  <2>1. UNCHANGED <<registry, conv_models, monitor, process, queued, saw_loading, victim,
                    names, history>>
    BY <1>5 DEF SpawnUnneeded
  <2>2. pc[t] = "spawn" /\ LoadReturns(t, TRUE) BY <1>5 DEF SpawnUnneeded
  <2>3. PlaceTypes' /\ RememberOnly' /\ QueueInv'
    BY <2>1, <2>2, LoaderMoves DEF QueuedPC, Returned
  <2>4. FlagTypes' BY <1>0, <2>1, <2>2, ReturnTypes DEF FlagTypes
  <2> QED BY <2>1, <2>3, <2>4, SameRest, Together
<1>6. CASE SpawnFails(t)
  <2>1. UNCHANGED <<failed, req_count, stopping_models, is_reloading, queue, conv_models,
                    monitor, process, queued, saw_loading, victim, names, connected,
                    cancelled>>
    BY <1>6 DEF SpawnFails
  <2>2. /\ pc[t] = "spawn" /\ LoadReturns(t, FALSE) /\ status' = Entered(Target[t])
        /\ party' = party \/ party' = [party EXCEPT !.faults = party.faults \ {"spawn"}]
    BY <1>6 DEF SpawnFails
  <2>3. PlaceTypes' /\ RememberOnly' /\ QueueInv'
    BY <2>1, <2>2, LoaderMoves DEF QueuedPC, Returned
  <2>4. FlagTypes' BY <1>0, <2>1, <2>2, ReturnTypes DEF FlagTypes
  <2>5. RegistryTypes' BY <1>0, <2>1, <2>2, EnteredTypes DEF RegistryTypes
  <2>6. HistoryTypes'
    <3>1. party' \in Setting BY <2>2 DEF Inv, Typed, HistoryTypes, Setting
    <3> QED BY <2>1, <3>1 DEF Inv, Typed, HistoryTypes
  <2> QED BY <2>1, <2>3, <2>4, <2>5, <2>6, SameRest, Together
<1>7. CASE Spawn(t)
  <2> DEFINE m == Target[t]
             cmd == [type |-> "WATCH", model |-> m, send_exit |-> FALSE]
  <2>1. UNCHANGED <<failed, stopping_models, is_reloading, queue, conv_models, watched,
                    deadline, reaped, queued, saw_loading, victim, names, history>>
    BY <1>7 DEF Spawn
  <2>2. /\ pc[t] = "spawn" /\ LoadReturns(t, TRUE)
        /\ status' = [status EXCEPT ![m] = "LOADING"]
        /\ req_count' = [req_count EXCEPT ![m] = 0]
        /\ child' = [child EXCEPT ![m] = "starting"]
        /\ lines' = [lines EXCEPT ![m] = <<>>]
        /\ cmds' = Append(cmds, cmd)
    BY <1>7 DEF Spawn
  <2>3. PlaceTypes' /\ RememberOnly' /\ QueueInv'
    BY <2>1, <2>2, LoaderMoves DEF QueuedPC, Returned
  <2>4. FlagTypes' BY <1>0, <2>1, <2>2, ReturnTypes DEF FlagTypes
  <2>5. RegistryTypes' BY <1>0, <2>1, <2>2 DEF RegistryTypes, Statuses
  <2>6. StopTypes'
    <3>1. cmd \in Cmd BY <1>0 DEF Cmd
    <3> HIDE DEF cmd
    <3>2. cmds' \in Seq(Cmd) BY <1>0, <2>2, <3>1, AppendProperties DEF StopTypes
    <3> QED BY <1>0, <2>1, <3>2 DEF StopTypes
  <2>7. ProcessTypes' /\ LinesDomain'
    <3>1. <<>> \in Seq(Running) /\ Len(<<>>) = 0 BY EmptySeq
    <3>2. child' \in [Models -> Alive \cup Dead \cup {"none"}]
      BY <1>0, <2>2 DEF ProcessTypes, Alive
    <3>3. lines' \in [Models -> Seq(Running)]
      BY <2>2, <3>1, <1>0, Updated DEF LinesDomain
    <3>4. \A n \in Models : Len(lines'[n]) <= MaxLines
      <4>1. \A n \in Models : lines'[n] = IF n = m THEN <<>> ELSE lines[n]
        BY <1>0, <2>2 DEF LinesDomain
      <4>2. 0 <= MaxLines BY DEF ModelsAssumption
      <4> QED BY <1>0, <3>1, <4>1, <4>2 DEF ProcessTypes
    <3> QED BY <3>2, <3>3, <3>4 DEF ProcessTypes, LinesDomain
  <2> QED BY <2>1, <2>3, <2>4, <2>5, <2>6, <2>7, SameRest, Together
<1> QED BY <1>1, <1>2, <1>3, <1>4, <1>5, <1>6, <1>7 DEF Load

-----------------------------------------------------------------------------
(* The steps of an administrator                                            *)

\* A thread whose call is never queued.
LEMMA AdminMoves ==
  ASSUME Inv, NEW t \in Calls, UNCHANGED <<queue, queued>>, pc[t] \notin QueuedPC,
         NEW P, P \subseteq PCs \ ({"remember"} \cup Returned), Moves(t, P)
  PROVE  PlaceTypes' /\ RememberOnly' /\ QueueInv'
<1>1. PlaceTypes' /\ RememberOnly' BY MovesTypes DEF Inv, Typed
<1>2. P \cap Returned = {} OBVIOUS
<1> QED BY <1>1, <1>2, MovesAside

\* One that stops models.
LEMMA StopperKeeps ==
  ASSUME Inv, ModelsAssumption, NEW V, Stop(V),
         UNCHANGED <<status, failed, req_count, is_reloading, conv_models, watched,
                     deadline, reaped, lines, queued, did_load, saw_loading, cancelled,
                     party>>,
         PlaceTypes', RememberOnly', QueueInv', NameTypes'
  PROVE  Inv'
<1>1. StopTypes' /\ ProcessTypes' /\ LinesDomain' /\ connected' \subseteq connected
  BY StopKeepsTypes DEF Inv, Typed, ModelsAssumption
<1>2. HistoryTypes' BY <1>1 DEF Inv, Typed, HistoryTypes
<1> QED BY <1>1, <1>2, SameRest, Together

LEMMA AdminKeeps ==
  ASSUME Inv, ModelsAssumption, NEW t \in Calls, Admin(t)
  PROVE  Inv'
<1> USE DEF registry, monitor, process, locals, history
<1>0. Target[t] \in Models /\ NameTypes /\ RegistryTypes
  BY DEF Inv, Typed, ModelsAssumption
<1>1. CASE UnloadCall(t)
  <2>1. pc[t] = "unload" /\ Moves(t, {"done"}) /\ Stop({Target[t]})
    BY <1>1 DEF UnloadCall, Goto, Moves
  <2>2. UNCHANGED <<status, failed, req_count, is_reloading, queue, conv_models, watched,
                    deadline, reaped, lines, locals, cancelled, party>>
    BY <1>1 DEF UnloadCall
  <2>3. PlaceTypes' /\ RememberOnly' /\ QueueInv'
    BY <2>1, <2>2, AdminMoves DEF QueuedPC, Returned, PCs
  <2>4. NameTypes' BY <2>2, SameRest
  <2> QED BY <2>1, <2>2, <2>3, <2>4, StopperKeeps
<1>2. CASE RemoveCall(t)
  <2>1. pc[t] = "remove" /\ Moves(t, {"done", "remove_wait"}) /\ Stop({Target[t]})
    BY <1>2 DEF RemoveCall, Goto, Moves
  <2>2. UNCHANGED <<status, failed, req_count, is_reloading, queue, conv_models, watched,
                    deadline, reaped, lines, locals, cancelled, party>>
    BY <1>2 DEF RemoveCall
  <2>3. PlaceTypes' /\ RememberOnly' /\ QueueInv'
    BY <2>1, <2>2, AdminMoves DEF QueuedPC, Returned, PCs
  <2>4. NameTypes' BY <2>2, SameRest
  <2> QED BY <2>1, <2>2, <2>3, <2>4, StopperKeeps
<1>3. CASE Removed(t)
  <2>1. UNCHANGED <<stopping_models, is_reloading, queue, conv_models, monitor, process,
                    locals, history>>
    BY <1>3 DEF Removed
  <2>2. pc[t] = "remove_wait" /\ Moves(t, {"done"}) BY <1>3 DEF Removed, Goto, Moves
  <2>3. PlaceTypes' /\ RememberOnly' /\ QueueInv'
    BY <2>1, <2>2, AdminMoves DEF QueuedPC, Returned, PCs
  <2>4. RegistryTypes'
    BY <1>0, <1>3, <2>1 DEF Removed, RegistryTypes, Statuses
  <2> QED BY <2>1, <2>3, <2>4, SameRest, Together
<1>4. CASE ReloadCall(t)
  <2>1. UNCHANGED <<status, failed, req_count, stopping_models, queue, conv_models, monitor,
                    process, queued, did_load, saw_loading, victim, history>>
    BY <1>4 DEF ReloadCall
  <2>2. pc[t] = "reload" /\ is_reloading' = TRUE /\ Moves(t, {"reload_unload"})
    BY <1>4 DEF ReloadCall, Goto, Moves
  <2>3. PlaceTypes' /\ RememberOnly' /\ QueueInv'
    BY <2>1, <2>2, AdminMoves DEF QueuedPC, Returned, PCs
  <2>4. RegistryTypes' BY <1>0, <2>1, <2>2 DEF RegistryTypes
  <2>5. NameTypes'
    <3> DEFINE Names == [gone : SUBSET Models, to_unload : SUBSET Models,
                         left : SUBSET Models]
    <3>1. PICK n \in Names : names' = [names EXCEPT ![t] = n]
      <4>1. PICK s \in Sources :
              LET out == (s.gone \cup s.changed) \cap RunningModels(status) IN
              names' = [names EXCEPT ![t] = [gone |-> s.gone, to_unload |-> out,
                                             left |-> out]]
        BY <1>4 DEF ReloadCall
      <4> DEFINE out == (s.gone \cup s.changed) \cap RunningModels(status)
      <4>2. s.gone \subseteq Models /\ out \subseteq Models
        BY DEF ModelsAssumption, RunningModels
      <4>3. [gone |-> s.gone, to_unload |-> out, left |-> out] \in Names BY <4>2
      <4> QED BY <4>1, <4>3
    <3>2. names \in [Calls -> Names] BY <1>0 DEF NameTypes
    <3> HIDE DEF Names
    <3>3. names' \in [Calls -> Names] BY <3>1, <3>2, Updated
    <3> QED BY <1>0, <2>1, <3>3 DEF NameTypes, Names
  <2> QED BY <2>1, <2>3, <2>4, <2>5, SameRest, Together
<1>5. CASE ReloadUnloads(t)
  <2>1. UNCHANGED <<status, failed, req_count, is_reloading, queue, conv_models, watched,
                    deadline, reaped, lines, queued, did_load, saw_loading, victim,
                    cancelled, party>>
    BY <1>5 DEF ReloadUnloads
  <2>2. PICK m \in names[t].left :
          /\ Stop({m})
          /\ names' = [names EXCEPT ![t].left = @ \ {m}]
          /\ Goto(t, IF names[t].left = {m} THEN "reload_wait" ELSE "reload_unload")
    BY <1>5 DEF ReloadUnloads
  <2>3. pc[t] = "reload_unload" /\ Moves(t, {"reload_wait", "reload_unload"})
    BY <1>5, <2>2 DEF ReloadUnloads, Goto, Moves
  <2>4. PlaceTypes' /\ RememberOnly' /\ QueueInv'
    BY <2>1, <2>3, AdminMoves DEF QueuedPC, Returned, PCs
  <2>5. NameTypes' BY <1>0, <2>1, <2>2 DEF NameTypes
  <2> QED BY <2>1, <2>2, <2>4, <2>5, StopperKeeps
<1>6. CASE Reloaded(t)
  <2>1. UNCHANGED <<stopping_models, queue, conv_models, monitor, process, locals, history>>
    BY <1>6 DEF Reloaded
  <2>2. pc[t] = "reload_wait" /\ Moves(t, {"done"}) BY <1>6 DEF Reloaded, Goto, Moves
  <2>3. PlaceTypes' /\ RememberOnly' /\ QueueInv'
    BY <2>1, <2>2, AdminMoves DEF QueuedPC, Returned, PCs
  <2>4. RegistryTypes'
    BY <1>0, <1>6, <2>1 DEF Reloaded, Reconcile, RegistryTypes, Statuses
  <2> QED BY <2>1, <2>3, <2>4, SameRest, Together
<1>7. CASE UnloadAll(t)
  <2>1. pc[t] = "unload_all" /\ Moves(t, {"all_wait"}) /\ Stop(Models)
    BY <1>7 DEF UnloadAll, Goto, Moves
  <2>2. UNCHANGED <<status, failed, req_count, is_reloading, queue, conv_models, watched,
                    deadline, reaped, lines, locals, cancelled, party>>
    BY <1>7 DEF UnloadAll
  <2>3. PlaceTypes' /\ RememberOnly' /\ QueueInv'
    BY <2>1, <2>2, AdminMoves DEF QueuedPC, Returned, PCs
  <2>4. NameTypes' BY <2>2, SameRest
  <2> QED BY <2>1, <2>2, <2>3, <2>4, StopperKeeps
<1>8. CASE AllUnloaded(t)
  <2>1. UNCHANGED <<registry, conv_models, monitor, process, locals, history>>
    BY <1>8 DEF AllUnloaded
  <2>2. pc[t] = "all_wait" /\ Moves(t, {"done"}) BY <1>8 DEF AllUnloaded, Goto, Moves
  <2>3. PlaceTypes' /\ RememberOnly' /\ QueueInv'
    BY <2>1, <2>2, AdminMoves DEF QueuedPC, Returned, PCs
  <2> QED BY <2>1, <2>3, SameRest, Together
<1>9. CASE CancelResolves(t)
  <2>1. UNCHANGED <<registry, conv_models, monitor, process, locals, history>>
    BY <1>9 DEF CancelResolves
  <2>2. pc[t] = "cancel" /\ Moves(t, {"forward", "forget"})
    BY <1>9 DEF CancelResolves, Goto, Moves
  <2>3. PlaceTypes' /\ RememberOnly' /\ QueueInv'
    BY <2>1, <2>2, AdminMoves DEF QueuedPC, Returned, PCs
  <2> QED BY <2>1, <2>3, SameRest, Together
<1>10. CASE CancelForwards(t)
  <2>1. UNCHANGED <<registry, conv_models, monitor, process, locals, cancelled, party>>
    BY <1>10 DEF CancelForwards
  <2>2. pc[t] = "forward" /\ Moves(t, {"forget"}) BY <1>10 DEF CancelForwards, Goto, Moves
  <2>3. PlaceTypes' /\ RememberOnly' /\ QueueInv'
    BY <2>1, <2>2, AdminMoves DEF QueuedPC, Returned, PCs
  <2>4. HistoryTypes'
    <3>1. connected' \subseteq connected BY <1>10 DEF CancelForwards
    <3> QED BY <2>1, <3>1 DEF Inv, Typed, HistoryTypes
  <2> QED BY <2>1, <2>3, <2>4, SameRest, Together
<1>11. CASE CancelForgets(t)
  <2>1. UNCHANGED <<registry, monitor, process, locals, connected, party>>
    BY <1>11 DEF CancelForgets
  <2>2. pc[t] = "forget" /\ Moves(t, {"done"}) BY <1>11 DEF CancelForgets, Goto, Moves
  <2>3. PlaceTypes' /\ RememberOnly' /\ QueueInv'
    BY <2>1, <2>2, AdminMoves DEF QueuedPC, Returned, PCs
  <2>4. ConvTypes'
    <3>1. conv_models' = [conv_models EXCEPT ![Conv[t]] = None] BY <1>11 DEF CancelForgets
    <3>2. conv_models \in [Convs -> Posts \cup {None}] BY DEF Inv, Typed, ConvTypes
    <3> QED BY <3>1, <3>2, Updated DEF ConvTypes
  <2>5. HistoryTypes'
    <3>1. cancelled' \subseteq cancelled \cup Posts BY <1>11 DEF CancelForgets
    <3> QED BY <2>1, <3>1 DEF Inv, Typed, HistoryTypes, Posts
  <2> QED BY <2>1, <2>3, <2>4, <2>5, SameRest, Together
<1>12. CASE ReloadAtOnce(t)
  <2>1. UNCHANGED <<stopping_models, queue, conv_models, monitor, process, locals, history>>
    BY <1>12 DEF ReloadAtOnce
  <2>2. pc[t] = "reload" /\ Moves(t, {"done"})
    BY <1>12 DEF ReloadAtOnce, Goto, Moves
  <2>3. PlaceTypes' /\ RememberOnly' /\ QueueInv'
    BY <2>1, <2>2, AdminMoves DEF QueuedPC, Returned, PCs
  <2>4. RegistryTypes'
    <3>1. PICK s \in Sources : Reconcile(s.gone) BY <1>12 DEF ReloadAtOnce
    <3>2. is_reloading' \in BOOLEAN BY <1>0, <1>12 DEF ReloadAtOnce, RegistryTypes
    <3> QED BY <1>0, <2>1, <3>1, <3>2 DEF Reconcile, RegistryTypes, Statuses
  <2> QED BY <2>1, <2>3, <2>4, SameRest, Together
<1> QED BY <1>1, <1>2, <1>3, <1>4, <1>5, <1>6, <1>7, <1>8, <1>9, <1>10, <1>11,
           <1>12 DEF Admin

-----------------------------------------------------------------------------
(* The steps of the monitor and of the children                             *)

LEMMA MonitorKeeps ==
  ASSUME Inv, ModelsAssumption, Monitor
  PROVE  Inv'
<1> USE DEF registry, monitor, process, locals, history
<1>0. /\ RegistryTypes /\ StopTypes /\ MonitorTypes /\ ProcessTypes /\ LinesDomain
      /\ HistoryTypes /\ cmds \in Seq(Cmd)
  BY DEF Inv, Typed, StopTypes
<1>1. CASE HandleWatch
  <2>1. UNCHANGED <<registry, conv_models, deadline, reaped, process, pc, locals, history>>
    BY <1>1 DEF HandleWatch
  <2>2. QueueInv' /\ PlaceTypes' /\ RememberOnly' BY <2>1, StandsAside
  <2>3. /\ cmds # <<>> /\ cmds' = Tail(cmds)
        /\ watched' = watched \cup {Head(cmds).model}
    BY <1>1 DEF HandleWatch
  <2>4. Head(cmds) \in Cmd /\ cmds' \in Seq(Cmd) BY <1>0, <2>3, HeadTailProperties
  <2>5. StopTypes' BY <1>0, <2>1, <2>4 DEF StopTypes
  <2>6. MonitorTypes'
    <3>1. Head(cmds).model \in Models BY <2>4 DEF Cmd
    <3> QED BY <1>0, <2>1, <2>3, <3>1 DEF MonitorTypes
  <2> QED BY <2>1, <2>2, <2>5, <2>6, SameRest, Together
<1>2. CASE HandleStop
  <2>1. UNCHANGED <<registry, conv_models, watched, reaped, lines, pc, locals, history>>
    BY <1>2 DEF HandleStop
  <2>2. QueueInv' /\ PlaceTypes' /\ RememberOnly' BY <2>1, StandsAside
  <2>3. /\ cmds # <<>> /\ cmds' = Tail(cmds)
        /\ deadline' = IF Head(cmds).model \in watched
                       THEN deadline \cup {Head(cmds).model} ELSE deadline
        /\ \/ child' = [child EXCEPT ![Head(cmds).model] = "exiting"]
           \/ child' = [child EXCEPT ![Head(cmds).model] = child[Head(cmds).model]]
    BY <1>2 DEF HandleStop, Armed
  <2>4. Head(cmds) \in Cmd /\ cmds' \in Seq(Cmd) BY <1>0, <2>3, HeadTailProperties
  <2>5. StopTypes' BY <1>0, <2>1, <2>4 DEF StopTypes
  <2>6. MonitorTypes' BY <1>0, <2>1, <2>3 DEF MonitorTypes
  <2>7. ProcessTypes' /\ LinesDomain'
    <3>1. Head(cmds).model \in Models BY <2>4 DEF Cmd
    <3>2. child' \in [Models -> Alive \cup Dead \cup {"none"}]
      BY <1>0, <2>3, <3>1 DEF ProcessTypes, Alive
    <3> QED BY <1>0, <2>1, <3>2 DEF ProcessTypes, LinesDomain
  <2> QED BY <2>1, <2>2, <2>5, <2>6, <2>7, SameRest, Together
<1>3. CASE ExitRecorded
  <2>1. UNCHANGED <<req_count, is_reloading, queue, conv_models, lines, pc, locals, history>>
    BY <1>3 DEF ExitRecorded
  <2>2. QueueInv' /\ PlaceTypes' /\ RememberOnly' BY <2>1, StandsAside
  <2>3. /\ reaped # None /\ reaped' = None
        /\ watched' = watched \ {reaped} /\ deadline' = deadline \ {reaped}
        /\ child' = [child EXCEPT ![reaped] = "none"]
    BY <1>3 DEF ExitRecorded, Idle
  <2>4. reaped \in Models BY <1>0, <2>3 DEF MonitorTypes
  <2>5. MonitorTypes' BY <1>0, <2>3 DEF MonitorTypes
  <2>6. ProcessTypes' /\ LinesDomain'
    BY <1>0, <2>1, <2>3 DEF ProcessTypes, LinesDomain
  <2>7. RegistryTypes' /\ StopTypes'
    <3>1. CASE status[reaped] = "absent"
      <4>1. UNCHANGED <<status, failed, stopping_models, cmds>>
        BY <1>3, <3>1 DEF ExitRecorded
      <4> QED BY <2>1, <4>1, SameRest
    <3>2. CASE status[reaped] # "absent"
      <4>1. /\ status' = [status EXCEPT ![reaped] = "UNLOADED"]
            /\ failed' = [failed EXCEPT ![reaped] = (child[reaped] = "killed")]
            /\ Tick(status', queue, req_count, stopping_models)
        BY <1>3, <3>2 DEF ExitRecorded
      <4>2. StopTypes' BY <1>0, <4>1, TickTypes DEF StopTypes, ModelsAssumption
      <4>3. status' \in [Models -> Statuses] /\ failed' \in [Models -> BOOLEAN]
        <5> DEFINE b == child[reaped] = "killed"
        <5>1. b \in BOOLEAN /\ failed' = [failed EXCEPT ![reaped] = b] BY <4>1
        <5>2. failed \in [Models -> BOOLEAN] BY <1>0 DEF RegistryTypes
        <5> HIDE DEF b
        <5>3. failed' \in [Models -> BOOLEAN] BY <5>1, <5>2, Updated
        <5>4. status' \in [Models -> Statuses] BY <1>0, <4>1 DEF RegistryTypes, Statuses
        <5> QED BY <5>3, <5>4
      <4> QED BY <1>0, <2>1, <4>2, <4>3 DEF RegistryTypes
    <3> QED BY <3>1, <3>2
  <2> QED BY <2>1, <2>2, <2>5, <2>6, <2>7, SameRest, Together
<1>4. ASSUME NEW m \in Models, ReadLine(m) PROVE Inv'
  <2>1. UNCHANGED <<req_count, is_reloading, queue, conv_models, watched, deadline, reaped,
                    child, pc, locals, history>>
    BY <1>4 DEF ReadLine
  <2>2. QueueInv' /\ PlaceTypes' /\ RememberOnly' BY <2>1, StandsAside
  <2>3. lines[m] # <<>> /\ lines' = [lines EXCEPT ![m] = Tail(lines[m])]
        /\ lines[m] \in Seq(Running) /\ Len(lines[m]) <= MaxLines
    BY <1>0, <1>4 DEF ReadLine, ProcessTypes
  <2>4. /\ Head(lines[m]) \in Running /\ Tail(lines[m]) \in Seq(Running)
        /\ Len(Tail(lines[m])) = Len(lines[m]) - 1
    BY <2>3, HeadTailProperties
  <2>5. Len(Tail(lines[m])) <= MaxLines
    <3>1. Len(lines[m]) \in Nat /\ MaxLines \in Nat
      BY <2>3, LenProperties DEF ModelsAssumption
    <3> QED BY <2>3, <2>4, <3>1
  <2>6. ProcessTypes' /\ LinesDomain'
    <3>1. lines' \in [Models -> Seq(Running)] BY <1>0, <2>3, <2>4, Updated DEF LinesDomain
    <3>2. \A n \in Models : lines'[n] = IF n = m THEN Tail(lines[m]) ELSE lines[n]
      BY <1>0, <2>3 DEF LinesDomain
    <3> QED BY <1>0, <2>1, <2>5, <3>1, <3>2 DEF ProcessTypes, LinesDomain
  <2>7. RegistryTypes' /\ StopTypes'
    <3>1. CASE status[m] = "absent"
      <4>1. UNCHANGED <<status, failed, stopping_models, cmds>>
        BY <1>4, <3>1 DEF ReadLine
      <4> QED BY <2>1, <4>1, SameRest
    <3>2. CASE status[m] # "absent"
      <4>1. /\ status' = [status EXCEPT ![m] = Head(lines[m])]
            /\ failed' = [failed EXCEPT ![m] = FALSE]
            /\ Tick(status', queue, req_count, stopping_models)
        BY <1>4, <3>2 DEF ReadLine
      <4>2. StopTypes' BY <1>0, <4>1, TickTypes DEF StopTypes, ModelsAssumption
      <4>3. Head(lines[m]) \in Statuses BY <2>4 DEF Running, Statuses
      <4> QED BY <1>0, <2>1, <4>1, <4>2, <4>3, Updated DEF RegistryTypes
    <3> QED BY <3>1, <3>2
  <2> QED BY <2>1, <2>2, <2>6, <2>7, SameRest, Together
<1>5. ASSUME NEW m \in Models, DeadlineKill(m) PROVE Inv'
  <2>1. UNCHANGED <<registry, conv_models, cmds, watched, reaped, lines, pc, locals,
                    cancelled, party>>
    BY <1>5 DEF DeadlineKill
  <2>2. QueueInv' /\ PlaceTypes' /\ RememberOnly' BY <2>1, StandsAside
  <2>3. /\ deadline' \subseteq deadline /\ connected' \subseteq connected
        /\ child' = [child EXCEPT ![m] = "killed"]
    BY <1>5 DEF DeadlineKill
  <2>4. MonitorTypes' BY <1>0, <2>1, <2>3 DEF MonitorTypes
  <2>5. ProcessTypes' /\ LinesDomain'
    BY <1>0, <2>1, <2>3 DEF ProcessTypes, LinesDomain, Dead
  <2>6. HistoryTypes' BY <1>0, <2>1, <2>3 DEF HistoryTypes
  <2> QED BY <2>1, <2>2, <2>4, <2>5, <2>6, SameRest, Together
<1>6. ASSUME NEW m \in Models, ChildReaped(m) PROVE Inv'
  <2>1. UNCHANGED <<status, failed, req_count, is_reloading, queue, conv_models, cmds,
                    lines, pc, locals, history>>
    BY <1>6 DEF ChildReaped
  <2>2. QueueInv' /\ PlaceTypes' /\ RememberOnly' BY <2>1, StandsAside
  <2>3. /\ reaped = None /\ m \in watched /\ stopping_models' = stopping_models \ {m}
        /\ \/ reaped' = m /\ UNCHANGED <<watched, deadline, child>>
           \/ /\ watched' = watched \ {m} /\ deadline' = deadline \ {m}
              /\ child' = [child EXCEPT ![m] = "none"] /\ UNCHANGED reaped
    BY <1>6 DEF ChildReaped, Idle
  <2>4. StopTypes' BY <1>0, <2>1, <2>3 DEF StopTypes
  <2>5. MonitorTypes' BY <1>0, <2>3 DEF MonitorTypes
  <2>6. ProcessTypes' /\ LinesDomain' BY <1>0, <2>1, <2>3 DEF ProcessTypes, LinesDomain
  <2> QED BY <2>1, <2>2, <2>4, <2>5, <2>6, SameRest, Together
<1> QED BY <1>1, <1>2, <1>3, <1>4, <1>5, <1>6 DEF Monitor

LEMMA ChildKeeps ==
  ASSUME Inv, ModelsAssumption, NEW m \in Models, Child(m)
  PROVE  Inv'
<1> USE DEF registry, monitor, process, locals, history
<1>0. ProcessTypes /\ LinesDomain /\ HistoryTypes BY DEF Inv, Typed
<1>1. UNCHANGED <<registry, conv_models, monitor, pc, locals, cancelled, party>>
  BY DEF Child, ChildLoads, ChildReady, ChildSleeps, ChildWakes, ChildEnds
<1>2. QueueInv' /\ PlaceTypes' /\ RememberOnly' BY <1>1, StandsAside
<1>3. connected' \subseteq connected
  BY DEF Child, ChildLoads, ChildReady, ChildSleeps, ChildWakes, ChildEnds
<1>4. HistoryTypes' BY <1>0, <1>1, <1>3 DEF HistoryTypes
<1>5. \E s \in Alive \cup Dead : child' = [child EXCEPT ![m] = s]
  <2>1. CASE ChildEnds(m) BY <2>1 DEF ChildEnds, Dead
  <2>2. CASE ~ChildEnds(m)
    BY <2>2 DEF Child, ChildLoads, ChildReady, ChildSleeps, ChildWakes, Alive
  <2> QED BY <2>1, <2>2
<1>6. child' \in [Models -> Alive \cup Dead \cup {"none"}]
  BY <1>0, <1>5 DEF ProcessTypes
<1>7. UNCHANGED lines \/ \E s \in Running : Say(m, s)
  BY DEF Child, ChildLoads, ChildReady, ChildSleeps, ChildWakes, ChildEnds, Running
<1>8. ProcessTypes' /\ LinesDomain'
  <2>1. CASE UNCHANGED lines BY <1>0, <1>6, <2>1 DEF ProcessTypes, LinesDomain
  <2>2. ASSUME NEW s \in Running, Say(m, s) PROVE ProcessTypes' /\ LinesDomain'
    <3>1. lines[m] \in Seq(Running) /\ Len(lines[m]) < MaxLines
          /\ lines' = [lines EXCEPT ![m] = Append(lines[m], s)]
      BY <1>0, <2>2 DEF Say, ProcessTypes
    <3>2. Append(lines[m], s) \in Seq(Running) /\ Len(Append(lines[m], s)) = Len(lines[m]) + 1
          /\ Len(lines[m]) \in Nat /\ MaxLines \in Nat
      BY <3>1, AppendProperties, LenProperties DEF ModelsAssumption
    <3>3. Len(Append(lines[m], s)) <= MaxLines BY <3>1, <3>2
    <3>4. lines' \in [Models -> Seq(Running)] BY <1>0, <3>1, <3>2, Updated DEF LinesDomain
    <3>5. \A n \in Models : lines'[n] = IF n = m THEN Append(lines[m], s) ELSE lines[n]
      BY <1>0, <3>1 DEF LinesDomain
    <3> QED BY <1>0, <1>6, <3>3, <3>4, <3>5 DEF ProcessTypes, LinesDomain
  <2> QED BY <1>7, <2>1, <2>2
<1> QED BY <1>1, <1>2, <1>4, <1>8, SameRest, Together

-----------------------------------------------------------------------------

LEMMA InitInv ==
  ASSUME ModelsAssumption, Init
  PROVE  Inv
<1>1. PlaceTypes /\ RememberOnly
  <2>1. \A t \in Calls : FirstPC(t) \in PCs /\ (FirstPC(t) = "remember" => Op[t] = "post")
    BY DEF FirstPC, PCs, Ops, ModelsAssumption
  <2> QED BY <2>1 DEF Init, PlaceTypes, RememberOnly, PCs
<1>2. RegistryTypes /\ ConvTypes /\ MonitorTypes /\ FlagTypes
  BY DEF Init, RegistryTypes, ConvTypes, MonitorTypes, FlagTypes, Statuses
<1>3. QueueTypes /\ StopTypes BY EmptySeq DEF Init, QueueTypes, StopTypes
<1>4. ProcessTypes /\ LinesDomain
  <2>1. <<>> \in Seq(Running) /\ Len(<<>>) = 0 BY EmptySeq
  <2> QED BY <2>1 DEF Init, ProcessTypes, LinesDomain, ModelsAssumption
<1>5. NameTypes /\ HistoryTypes
  BY DEF Init, NameTypes, HistoryTypes, ModelsAssumption
<1>6. QueueInv
  <2>1. queue = <<>> /\ DOMAIN queue = {} BY DEF Init
  <2>2. \A m \in Models : EntriesOf(queue, m) = {} BY <2>1 DEF EntriesOf, Find
  <2>3. \A m \in Models : Waiting(m) = {} BY DEF Init, Waiting
  <2>4. Accounts BY <2>2, <2>3 DEF Accounts, Account
  <2>5. OneLoader BY <2>3 DEF OneLoader, Loading
  <2>6. QueuePlaces
    <3>1. \A t \in Calls : FirstPC(t) \notin Returned
      BY DEF FirstPC, Ops, Returned, ModelsAssumption
    <3> QED BY <3>1 DEF Init, QueuePlaces, Returned
  <2>7. Single(queue) BY <2>1 DEF Single
  <2> QED BY <1>3, <2>4, <2>5, <2>6, <2>7 DEF QueueInv
<1> QED BY <1>1, <1>2, <1>3, <1>4, <1>5, <1>6 DEF Inv, Typed

LEMMA StepInv ==
  ASSUME ModelsAssumption, Inv, [Next]_vars
  PROVE  Inv'
<1>1. ASSUME NEW t \in Calls, Request(t) \/ Load(t) \/ Admin(t) PROVE Inv'
  BY <1>1, RequestKeeps, LoadKeeps, AdminKeeps
<1>2. CASE Monitor BY <1>2, MonitorKeeps
<1>3. ASSUME NEW m \in Models, Child(m) PROVE Inv' BY <1>3, ChildKeeps
<1>4. CASE UNCHANGED vars
  <2>1. UNCHANGED <<registry, conv_models, monitor, process, pc, locals, history>>
    BY <1>4 DEF vars
  <2> USE DEF registry, monitor, process, locals, history
  <2>2. QueueInv' /\ PlaceTypes' /\ RememberOnly' BY <2>1, StandsAside
  <2> QED BY <2>1, <2>2, SameRest, Together
<1> QED BY <1>1, <1>2, <1>3, <1>4 DEF Next

LEMMA InvAlways == Spec => []Inv
<1>1. Init => Inv BY ModelsAssumption, InitInv
<1>2. Inv /\ [Next]_vars => Inv' BY ModelsAssumption, StepInv
<1> QED BY <1>1, <1>2, PTL DEF Spec

\* Every variable of the router keeps its type.
THEOREM TypeCorrect == Spec => []TypeOK
<1>1. Inv => TypeOK BY TypedIsTypeOK DEF Inv
<1> QED BY <1>1, InvAlways, PTL

\* The queue of the router counts who waits: no model has two entries, an entry
\* is there exactly while somebody waits for its model and knows how many, and no
\* two threads carry out the load of one entry (server_lru_sched).
THEOREM QueueIsRight == Spec => []QueueCounts
<1>1. Inv => QueueCounts BY ModelsAssumption, QueueCountsHolds DEF Inv, ModelsAssumption
<1> QED BY <1>1, InvAlways, PTL
=============================================================================
