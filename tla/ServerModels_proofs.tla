-------------------------- MODULE ServerModels_proofs --------------------------
(***************************************************************************)
(* The registry of the router agrees with the child processes, and the     *)
(* processes never exceed the limit, for every number of models, calls and *)
(* pending lines.                                                          *)
(*                                                                         *)
(* The invariant has two halves.  Processes: a model runs in the registry  *)
(* exactly while it has a process, the dead leave no unread lines behind   *)
(* when they are recorded.  Reloads: the reload that is under way has      *)
(* asked every running model to stop that it is going to erase, and no     *)
(* model is spawned in the meantime.  This half needs ReloadsApart: a      *)
(* reload that begins during another one ends with is_reloading cleared,   *)
(* and a load passes.                                                      *)
(***************************************************************************)
EXTENDS ServerModels, TLAPS

States   == Alive \cup Dead \cup {"none"}
InReload == {"reload_unload", "reload_wait"}
live     == {m \in Models : child[m] # "none"}

ProcessTypes ==
  /\ status \in [Models -> Statuses]
  /\ child \in [Models -> States]
  /\ lines \in [Models -> Seq(Running)]
  /\ reaped \in Models \cup {None}

\* A model without a process has no unread lines.
NoGhostLines == \A m \in Models : child[m] = "none" => lines[m] = <<>>

\* A child whose exit is being recorded is dead and read to the end.
ReapedIsDead ==
  reaped # None => child[reaped] \in Dead /\ lines[reaped] = <<>>

Processes == ProcessTypes /\ RegistryMatches /\ NoGhostLines /\ ReapedIsDead

ReloadTypes ==
  /\ DOMAIN pc = Calls
  /\ names \in [Calls -> [gone : SUBSET Models, to_unload : SUBSET Models,
                          left : SUBSET Models]]

ReloadAlone ==
  \A t, u \in Calls : pc[t] \in InReload /\ pc[u] \in InReload => t = u

\* What a reload is going to erase is down, or was asked to stop.
ReloadHolds ==
  \A t \in Calls : pc[t] \in InReload =>
    /\ is_reloading
    /\ \A m \in names[t].gone : status[m] \in Running => m \in names[t].to_unload

Reloads == ReloadTypes /\ ReloadAlone /\ ReloadHolds

IInv == Processes /\ Reloads

\* A step of the pool or none.
PoolStep == [Pool!Next]_live

\* A reload that begins is alone: ReloadsApart, for one step.
Apart == \A t \in Calls : pc[t] = "reload" /\ pc'[t] # "reload" => Reloading = {}

-----------------------------------------------------------------------------

\* A step of the reload's half that neither starts models nor a reload.
Quiet ==
  /\ UNCHANGED <<names, is_reloading>>
  /\ \A m \in Models : status'[m] \in Running => status[m] \in Running
  /\ \/ UNCHANGED pc
     \/ \E t \in Calls : \E p \in PCs \ InReload : pc' = [pc EXCEPT ![t] = p]

LEMMA QuietKeepsReloads ==
  ASSUME Reloads, Quiet
  PROVE  Reloads'
<1>1. ReloadTypes' BY DEF Reloads, ReloadTypes, Quiet
<1>2. \A t \in Calls : pc'[t] \in InReload => pc[t] = pc'[t]
  BY DEF Reloads, ReloadTypes, Quiet
<1>3. ReloadAlone' BY <1>2 DEF Reloads, ReloadAlone
<1>4. ReloadHolds'
  <2> SUFFICES ASSUME NEW t \in Calls, pc'[t] \in InReload
               PROVE  /\ is_reloading'
                      /\ \A m \in names'[t].gone :
                           status'[m] \in Running => m \in names'[t].to_unload
    BY DEF ReloadHolds
  <2>1. pc[t] \in InReload BY <1>2
  <2>2. names[t].gone \subseteq Models BY DEF Reloads, ReloadTypes
  <2> QED BY <2>1, <2>2 DEF Reloads, ReloadHolds, Quiet
<1> QED BY <1>1, <1>3, <1>4 DEF Reloads

LEMMA SameProcesses ==
  ASSUME Processes, UNCHANGED <<status, child, lines, reaped>>
  PROVE  Processes' /\ PoolStep
BY DEF Processes, ProcessTypes, RegistryMatches, NoGhostLines, ReapedIsDead,
       PoolStep, live

\* A stop kills children that are loading: they are dead, and still there.
LEMMA StopKeepsProcesses ==
  ASSUME Processes, NEW V, Stop(V), UNCHANGED <<status, lines, reaped>>
  PROVE  Processes' /\ PoolStep
<1>1. /\ child' \in [Models -> States]
      /\ \A m \in Models : child'[m] = "none" <=> child[m] = "none"
      /\ \A m \in Models : child[m] \in Dead => child'[m] = child[m]
  BY DEF Stop, Processes, ProcessTypes, States, Alive, Dead
<1>2. live' = live BY <1>1 DEF live
<1>3. ReapedIsDead' BY <1>1 DEF Processes, ProcessTypes, ReapedIsDead
<1> QED BY <1>1, <1>2, <1>3
        DEF Processes, ProcessTypes, RegistryMatches, NoGhostLines, PoolStep

\* mapping[name] makes entries that do not run.
LEMMA EnteredKeepsProcesses ==
  ASSUME Processes, NEW m \in Models, status' = Entered(m),
         UNCHANGED <<child, lines, reaped>>
  PROVE  /\ Processes' /\ PoolStep
         /\ \A n \in Models : status'[n] \in Running <=> status[n] \in Running
<1>1. status' \in [Models -> Statuses]
  BY DEF Entered, Processes, ProcessTypes, Statuses
<1>2. \A n \in Models : status'[n] \in Running <=> status[n] \in Running
  BY DEF Entered, Processes, ProcessTypes, Running
<1> QED BY <1>1, <1>2 DEF Processes, ProcessTypes, RegistryMatches, NoGhostLines,
          ReapedIsDead, PoolStep, live

\* What most steps do to the reloads: nothing, and their thread does not enter one.
Walks(t) == \E p \in PCs \ InReload : pc' = [pc EXCEPT ![t] = p]

Holds == Processes' /\ Reloads' /\ PoolStep

LEMMA QuietStep ==
  ASSUME IInv, NEW t \in Calls, Walks(t) \/ UNCHANGED pc,
         UNCHANGED <<status, process, reaped, names, is_reloading>>
  PROVE  Holds
<1>1. Quiet BY DEF Quiet, Walks
<1> QED BY <1>1, QuietKeepsReloads, SameProcesses DEF IInv, Holds, process

LEMMA StopStep ==
  ASSUME IInv, NEW t \in Calls, Walks(t), NEW V, Stop(V),
         UNCHANGED <<status, lines, reaped, names, is_reloading>>
  PROVE  Holds
<1>1. Quiet BY DEF Quiet, Walks
<1> QED BY <1>1, QuietKeepsReloads, StopKeepsProcesses DEF IInv, Holds

LEMMA EnteredStep ==
  ASSUME IInv, NEW t \in Calls, Walks(t), NEW m \in Models,
         status' = Entered(m),
         UNCHANGED <<process, reaped, names, is_reloading>>
  PROVE  Holds
<1>1. Processes' /\ PoolStep
      /\ \A n \in Models : status'[n] \in Running <=> status[n] \in Running
  BY EnteredKeepsProcesses DEF IInv, process
<1>2. Quiet BY <1>1 DEF Quiet, Walks
<1> QED BY <1>1, <1>2, QuietKeepsReloads DEF IInv, Holds

\* load() returns to no reload.
LEMMA ReturnWalks ==
  ASSUME NEW t \in Calls, NEW ok \in BOOLEAN, LoadReturns(t, ok)
  PROVE  Walks(t)
<1>1. CASE queued[t] /\ ok
  BY <1>1 DEF LoadReturns, Goto, Walks, PCs, InReload
<1>2. CASE queued[t] /\ ~ok
  BY <1>2 DEF LoadReturns, Goto, Walks, PCs, InReload
<1>3. CASE ~queued[t] /\ Op[t] = "post" /\ ok
  <2>1. Goto(t, "wait") BY <1>3 DEF LoadReturns
  <2> QED BY <2>1 DEF Goto, Walks, PCs, InReload
<1>4. CASE ~queued[t] /\ ~(Op[t] = "post" /\ ok)
  <2>1. Goto(t, "done") BY <1>4 DEF LoadReturns
  <2> QED BY <2>1 DEF Goto, Walks, PCs, InReload
<1> QED BY <1>1, <1>2, <1>3, <1>4

-----------------------------------------------------------------------------

LEMMA RequestStep ==
  ASSUME IInv, ModelsAssumption, NEW t \in Calls, Request(t)
  PROVE  Holds
<1> DEFINE Still == UNCHANGED <<status, process, reaped, names, is_reloading>>
<1> USE DEF registry, monitor, process, locals, history, Goto
<1> USE DEF Walks, PCs, InReload
<1>1. CASE Remember(t)
  <2>1. Walks(t) /\ Still BY <1>1 DEF Remember
  <2> QED BY <2>1, QuietStep
<1>2. CASE EnsureSkips(t)
  <2>1. Still BY <1>2 DEF EnsureSkips
  <2>2. Target[t] \in Models /\ status[Target[t]] \in Statuses
    BY DEF IInv, Processes, ProcessTypes, ModelsAssumption
  <2>3. Walks(t)
    BY <1>2, <2>2 DEF EnsureSkips, Forwarding, Statuses, Ready
  <2> QED BY <2>1, <2>3, QuietStep
<1>3. CASE EnsureLoads(t)
  <2>1. Walks(t) /\ Still BY <1>3 DEF EnsureLoads
  <2> QED BY <2>1, QuietStep
<1>4. CASE EnsureQueues(t)
  <2>1. Walks(t) /\ Still BY <1>4 DEF EnsureQueues
  <2> QED BY <2>1, QuietStep
<1>5. CASE WaitEnds(t)
  <2>1. Walks(t) /\ Still BY <1>5 DEF WaitEnds, Forwarding
  <2> QED BY <2>1, QuietStep
<1>6. CASE WaitThrows(t)
  <2>1. Walks(t) /\ Still BY <1>6 DEF WaitThrows
  <2> QED BY <2>1, QuietStep
<1>7. CASE WaitSeesLoading(t)
  <2>1. UNCHANGED pc /\ Still BY <1>7 DEF WaitSeesLoading
  <2> QED BY <2>1, QuietStep
<1>8. CASE WaitClaims(t)
  <2>1. Walks(t) /\ Still BY <1>8 DEF WaitClaims
  <2> QED BY <2>1, QuietStep
<1>9. CASE AfterLoad(t)
  <2>1. Walks(t) /\ Still BY <1>9 DEF AfterLoad
  <2> QED BY <2>1, QuietStep
<1>10. CASE CheckAlive(t)
  <2>1. Walks(t) /\ Still BY <1>10 DEF CheckAlive
  <2> QED BY <2>1, QuietStep
<1>11. CASE ReadMeta(t)
  <2>1. Walks(t) /\ Still BY <1>11 DEF ReadMeta
  <2> QED BY <2>1, QuietStep
<1>12. CASE Count(t)
  <2>1. Target[t] \in Models BY DEF ModelsAssumption
  <2>2. Walks(t) BY <1>12 DEF Count
  <2> QED BY <1>12, <2>1, <2>2, EnteredStep DEF Count
<1>13. CASE Cleanup(t)
  <2>1. Walks(t) /\ Still BY <1>13 DEF Cleanup
  <2> QED BY <2>1, QuietStep
<1> QED BY <1>1, <1>2, <1>3, <1>4, <1>5, <1>6, <1>7, <1>8, <1>9, <1>10, <1>11,
           <1>12, <1>13 DEF Request

\* The instance has a copy of its own of the library's operator.
LEMMA PoolCardinality == \A S : Pool!Cardinality(S) = Cardinality(S)
BY DEF Cardinality, Pool!Cardinality

\* A spawn makes its model run and gives it a process, within the limit, and
\* no reload is under way.
LEMMA SpawnStep ==
  ASSUME IInv, ModelsAssumption, NEW t \in Calls, Spawn(t)
  PROVE  Holds
<1> DEFINE m == Target[t]
<1>1. m \in Models BY DEF ModelsAssumption
<1>2. /\ ~is_reloading /\ status[m] \notin Running /\ HasCapacity(status)
      /\ status' = [status EXCEPT ![m] = "LOADING"]
      /\ child' = [child EXCEPT ![m] = "starting"]
      /\ lines' = [lines EXCEPT ![m] = <<>>]
      /\ UNCHANGED <<reaped, names, is_reloading>>
  BY DEF Spawn, MayLoad, HasSlot, monitor
<1>3. Walks(t)
  BY ReturnWalks DEF Spawn
<1>4. child[m] = "none" BY <1>1, <1>2 DEF IInv, Processes, RegistryMatches
<1>5. Processes'
  <2>1. ProcessTypes'
    <3>1. <<>> \in Seq(Running) OBVIOUS
    <3> QED BY <1>1, <1>2, <3>1
            DEF IInv, Processes, ProcessTypes, Statuses, States, Alive
  <2>2. RegistryMatches'
    BY <1>1, <1>2 DEF IInv, Processes, ProcessTypes, RegistryMatches, Running
  <2>3. NoGhostLines'
    BY <1>1, <1>2 DEF IInv, Processes, ProcessTypes, NoGhostLines
  <2>4. ReapedIsDead'
    BY <1>1, <1>2, <1>4
    DEF IInv, Processes, ProcessTypes, ReapedIsDead, Dead
  <2> QED BY <2>1, <2>2, <2>3, <2>4 DEF Processes
<1>6. Reloads'
  <2>1. \A u \in Calls : pc'[u] \in InReload => pc[u] = pc'[u]
    BY <1>3 DEF Walks, IInv, Reloads, ReloadTypes
  <2>2. ReloadTypes' BY <1>2, <1>3 DEF Walks, IInv, Reloads, ReloadTypes
  <2>3. ReloadAlone' BY <2>1 DEF IInv, Reloads, ReloadAlone
  <2>4. ReloadHolds'
    BY <1>2, <2>1 DEF IInv, Reloads, ReloadHolds, InReload
  <2> QED BY <2>2, <2>3, <2>4 DEF Reloads
<1>7. Pool!Start(m)
  <2>1. m \notin live /\ live' = live \cup {m}
    BY <1>1, <1>2, <1>4 DEF live, IInv, Processes, ProcessTypes
  <2>2. live = RunningModels(status)
    BY DEF live, RunningModels, IInv, Processes, RegistryMatches
  <2>3. ModelsMax > 0 => Cardinality(live) < ModelsMax
    BY <1>2, <2>2 DEF HasCapacity, ModelsAssumption
  <2> QED BY <2>1, <2>3, PoolCardinality DEF Pool!Start, live
<1>8. PoolStep
  <2>1. Pool!Next BY <1>1, <1>7 DEF Pool!Next
  <2> QED BY <2>1 DEF PoolStep
<1> QED BY <1>5, <1>6, <1>8 DEF Holds

LEMMA LoadStep ==
  ASSUME IInv, ModelsAssumption, NEW t \in Calls, Load(t)
  PROVE  Holds
<1> DEFINE Still == UNCHANGED <<status, process, reaped, names, is_reloading>>
<1> USE DEF registry, monitor, process, locals, history
<1>1. CASE LoadCall(t)
  <2>1. Still BY <1>1 DEF LoadCall
  <2>2. Goto(t, "unload_lru") \/ Goto(t, "done") BY <1>1 DEF LoadCall
  <2>3. Walks(t) BY <2>2 DEF Walks, PCs, InReload, Goto
  <2> QED BY <2>1, <2>3, QuietStep
<1>2. CASE UnloadLru(t)
  <2>1. Still BY <1>2 DEF UnloadLru
  <2>2. Walks(t)
    <3>1. LoadReturns(t, FALSE) \/ Goto(t, "spawn") \/ Goto(t, "lru_unload")
      BY <1>2 DEF UnloadLru
    <3>2. Goto(t, "spawn") \/ Goto(t, "lru_unload") => Walks(t)
      BY DEF Walks, PCs, InReload, Goto
    <3> QED BY <3>1, <3>2, ReturnWalks
  <2> QED BY <2>1, <2>2, QuietStep
<1>3. CASE UnloadVictim(t)
  <2>1. Walks(t) BY <1>3 DEF UnloadVictim, Walks, PCs, InReload, Goto
  <2> QED BY <1>3, <2>1, StopStep DEF UnloadVictim
<1>4. CASE VictimUnloaded(t)
  <2>1. Walks(t) BY <1>4 DEF VictimUnloaded, Walks, PCs, InReload, Goto
  <2>2. CASE victim[t] \in Models
    BY <1>4, <2>1, <2>2, EnteredStep DEF VictimUnloaded
  <2>3. CASE victim[t] \notin Models
    <3>1. status' = status
      BY <1>4, <2>3 DEF VictimUnloaded, Entered, IInv, Processes, ProcessTypes
    <3>2. Still BY <1>4, <3>1 DEF VictimUnloaded
    <3> QED BY <2>1, <3>2, QuietStep
  <2> QED BY <2>2, <2>3
<1>5. CASE SpawnUnneeded(t)
  <2>1. Walks(t) /\ Still BY <1>5, ReturnWalks DEF SpawnUnneeded
  <2> QED BY <2>1, QuietStep
<1>6. CASE SpawnFails(t)
  <2>1. Walks(t) BY <1>6, ReturnWalks DEF SpawnFails
  <2>2. Target[t] \in Models BY DEF ModelsAssumption
  <2> QED BY <1>6, <2>1, <2>2, EnteredStep DEF SpawnFails
<1>7. CASE Spawn(t)
  BY <1>7, SpawnStep
<1> QED BY <1>1, <1>2, <1>3, <1>4, <1>5, <1>6, <1>7 DEF Load

-----------------------------------------------------------------------------

\* The reload finds what it has to stop.
LEMMA ReloadCallStep ==
  ASSUME IInv, ModelsAssumption, Apart, NEW t \in Calls, ReloadCall(t)
  PROVE  Holds
<1>1. /\ pc[t] = "reload" /\ is_reloading'
      /\ Goto(t, "reload_unload")
      /\ UNCHANGED <<status, process, reaped>>
  BY DEF ReloadCall, process, monitor
<1>2. PICK s \in Sources :
        LET out == (s.gone \cup s.changed) \cap RunningModels(status) IN
        names' = [names EXCEPT ![t] = [gone |-> s.gone, to_unload |-> out,
                                       left |-> out]]
  BY DEF ReloadCall
<1> DEFINE out == (s.gone \cup s.changed) \cap RunningModels(status)
<1>3. s.gone \subseteq Models /\ out \subseteq Models
  BY DEF ModelsAssumption, RunningModels
<1>4. pc'[t] # "reload" /\ \A u \in Calls \ {t} : pc'[u] = pc[u]
  BY <1>1 DEF IInv, Reloads, ReloadTypes, Goto
<1>5. /\ ReloadTypes'
      /\ names'[t].gone = s.gone /\ names'[t].to_unload = out
  BY <1>1, <1>2, <1>3 DEF IInv, Reloads, ReloadTypes, Goto
<1>6. \A u \in Calls : pc'[u] \in InReload => u = t
  BY <1>1, <1>4 DEF Apart, Reloading, InReload
<1>7. ReloadAlone' BY <1>6 DEF ReloadAlone
<1>8. ReloadHolds'
  <2>1. \A m \in s.gone : status[m] \in Running => m \in out
    BY <1>3 DEF RunningModels
  <2> QED BY <1>1, <1>5, <1>6, <2>1 DEF ReloadHolds
<1>9. Reloads' BY <1>5, <1>7, <1>8 DEF Reloads
<1> QED BY <1>1, <1>9, SameProcesses DEF IInv, Holds, process

LEMMA ReloadUnloadsStep ==
  ASSUME IInv, NEW t \in Calls, ReloadUnloads(t)
  PROVE  Holds
<1>1. PICK m \in names[t].left :
        /\ Stop({m})
        /\ names' = [names EXCEPT ![t].left = @ \ {m}]
        /\ Goto(t, IF names[t].left = {m} THEN "reload_wait" ELSE "reload_unload")
  BY DEF ReloadUnloads
<1>2. /\ pc[t] = "reload_unload"
      /\ UNCHANGED <<status, lines, reaped, is_reloading>>
  BY DEF ReloadUnloads
<1>3. Processes' /\ PoolStep
  BY <1>1, <1>2, StopKeepsProcesses DEF IInv
<1>4. Goto(t, "reload_wait") \/ Goto(t, "reload_unload") BY <1>1
<1>5. /\ ReloadTypes'
      /\ \A u \in Calls : /\ names'[u].gone = names[u].gone
                          /\ names'[u].to_unload = names[u].to_unload
      /\ \A u \in Calls \ {t} : pc'[u] = pc[u]
  BY <1>1, <1>4 DEF IInv, Reloads, ReloadTypes, Goto
<1>6. \A u \in Calls : pc'[u] \in InReload => pc[u] \in InReload
  BY <1>2, <1>5 DEF InReload
<1>7. ReloadAlone' BY <1>6 DEF IInv, Reloads, ReloadAlone
<1>8. ReloadHolds'
  BY <1>2, <1>5, <1>6 DEF IInv, Reloads, ReloadHolds
<1> QED BY <1>3, <1>5, <1>7, <1>8 DEF Reloads, Holds

\* A reload that does not run what it erases leaves the processes as they are.
LEMMA ReconcileKeeps ==
  ASSUME Processes, NEW gone, Reconcile(gone),
         \A m \in gone \cap Models : status[m] \notin Running,
         UNCHANGED <<process, reaped>>
  PROVE  Processes' /\ PoolStep
<1>1. /\ status' \in [Models -> Statuses]
      /\ \A m \in Models : status'[m] \in Running <=> status[m] \in Running
  BY DEF Reconcile, Processes, ProcessTypes, Statuses, Running
<1> QED BY <1>1 DEF Processes, ProcessTypes, RegistryMatches, NoGhostLines,
        ReapedIsDead, PoolStep, live, process

\* The end of the last reload: no other one is under way.
LEMMA NoReloadLeft ==
  ASSUME IInv, NEW t \in Calls, Goto(t, "done"), UNCHANGED names,
         \A u \in Calls : pc[u] \in InReload => u = t
  PROVE  Reloads'
<1>1. \A u \in Calls : pc'[u] \notin InReload
  BY DEF IInv, Reloads, ReloadTypes, Goto, InReload
<1>2. ReloadTypes' BY DEF IInv, Reloads, ReloadTypes, Goto
<1> QED BY <1>1, <1>2 DEF Reloads, ReloadAlone, ReloadHolds

\* Nothing of what is erased runs.
LEMMA ReloadAtOnceStep ==
  ASSUME IInv, ModelsAssumption, Apart, NEW t \in Calls, ReloadAtOnce(t)
  PROVE  Holds
<1>1. /\ pc[t] = "reload" /\ Goto(t, "done")
      /\ UNCHANGED <<process, reaped, names>>
  BY DEF ReloadAtOnce, monitor, locals
<1>2. PICK s \in Sources :
        /\ (s.gone \cup s.changed) \cap RunningModels(status) = {}
        /\ Reconcile(s.gone)
  BY DEF ReloadAtOnce
<1>3. \A m \in s.gone \cap Models : status[m] \notin Running
  BY <1>2 DEF RunningModels
<1>4. Processes' /\ PoolStep BY <1>1, <1>2, <1>3, ReconcileKeeps DEF IInv
<1>5. pc'[t] # "reload" BY <1>1 DEF IInv, Reloads, ReloadTypes, Goto
<1>6. \A u \in Calls : pc[u] \in InReload => u = t
  BY <1>1, <1>5 DEF Apart, Reloading, InReload
<1>7. Reloads' BY <1>1, <1>6, NoReloadLeft
<1> QED BY <1>4, <1>7 DEF Holds

\* The entries that are erased do not run: what ran was asked to stop, and what
\* was asked to stop is down.
LEMMA ReloadedStep ==
  ASSUME IInv, NEW t \in Calls, Reloaded(t)
  PROVE  Holds
<1>1. /\ pc[t] = "reload_wait"
      /\ names[t].to_unload \cap RunningModels(status) = {}
      /\ Reconcile(names[t].gone)
      /\ Goto(t, "done")
      /\ UNCHANGED <<process, reaped, names>>
  BY DEF Reloaded, monitor, locals
<1>2. \A m \in names[t].gone \cap Models : status[m] \notin Running
  BY <1>1 DEF IInv, Reloads, ReloadHolds, InReload, RunningModels
<1>3. Processes' /\ PoolStep BY <1>1, <1>2, ReconcileKeeps DEF IInv
<1>4. \A u \in Calls : pc[u] \in InReload => u = t
  BY <1>1 DEF IInv, Reloads, ReloadAlone, InReload
<1>5. Reloads' BY <1>1, <1>4, NoReloadLeft
<1> QED BY <1>3, <1>5 DEF Holds

LEMMA AdminStep ==
  ASSUME IInv, ModelsAssumption, Apart, NEW t \in Calls, Admin(t)
  PROVE  Holds
<1> DEFINE Still == UNCHANGED <<status, process, reaped, names, is_reloading>>
<1> USE DEF registry, monitor, process, locals, history
<1>1. CASE UnloadCall(t)
  <2>1. Walks(t) BY <1>1 DEF UnloadCall, Walks, PCs, InReload, Goto
  <2> QED BY <1>1, <2>1, StopStep DEF UnloadCall
<1>2. CASE RemoveCall(t)
  <2>1. Goto(t, "done") \/ Goto(t, "remove_wait") BY <1>2 DEF RemoveCall
  <2>2. Walks(t) BY <2>1 DEF Walks, PCs, InReload, Goto
  <2> QED BY <1>2, <2>2, StopStep DEF RemoveCall
<1>3. CASE Removed(t)
  <2>1. /\ Target[t] \in Models /\ Walks(t)
        /\ status[Target[t]] \notin Running
        /\ status' = [status EXCEPT ![Target[t]] = "absent"]
        /\ UNCHANGED <<child, lines, reaped, names, is_reloading>>
    BY <1>3 DEF Removed, Walks, PCs, InReload, Goto, ModelsAssumption, Running
  <2>2. /\ status' \in [Models -> Statuses]
        /\ \A m \in Models : status'[m] \in Running <=> status[m] \in Running
    BY <2>1 DEF IInv, Processes, ProcessTypes, Statuses, Running
  <2>3. Processes' /\ PoolStep
    BY <2>1, <2>2 DEF IInv, Processes, ProcessTypes, RegistryMatches,
       NoGhostLines, ReapedIsDead, PoolStep, live
  <2>4. Quiet BY <2>1, <2>2 DEF Quiet, Walks
  <2> QED BY <2>3, <2>4, QuietKeepsReloads DEF IInv, Holds
<1>4. CASE ReloadCall(t)    BY <1>4, ReloadCallStep
<1>5. CASE ReloadUnloads(t) BY <1>5, ReloadUnloadsStep
<1>6. CASE Reloaded(t)      BY <1>6, ReloadedStep
<1>7. CASE UnloadAll(t)
  <2>1. Walks(t) BY <1>7 DEF UnloadAll, Walks, PCs, InReload, Goto
  <2> QED BY <1>7, <2>1, StopStep DEF UnloadAll
<1>8. CASE AllUnloaded(t)
  <2>1. Walks(t) /\ Still BY <1>8 DEF AllUnloaded, Walks, PCs, InReload, Goto
  <2> QED BY <2>1, QuietStep
<1>9. CASE CancelResolves(t)
  <2>1. Goto(t, "forward") \/ Goto(t, "forget") BY <1>9 DEF CancelResolves
  <2>2. Walks(t) BY <2>1 DEF Walks, PCs, InReload, Goto
  <2>3. Still BY <1>9 DEF CancelResolves
  <2> QED BY <2>2, <2>3, QuietStep
<1>10. CASE CancelForwards(t)
  <2>1. Walks(t) /\ Still
    BY <1>10 DEF CancelForwards, Walks, PCs, InReload, Goto
  <2> QED BY <2>1, QuietStep
<1>11. CASE CancelForgets(t)
  <2>1. Walks(t) /\ Still
    BY <1>11 DEF CancelForgets, Walks, PCs, InReload, Goto
  <2> QED BY <2>1, QuietStep
<1>12. CASE ReloadAtOnce(t) BY <1>12, ReloadAtOnceStep
<1> QED BY <1>1, <1>2, <1>3, <1>4, <1>5, <1>6, <1>7, <1>8, <1>9, <1>10, <1>11,
           <1>12 DEF Admin

-----------------------------------------------------------------------------

\* A line comes from a child that is still there: a model that runs goes on
\* running.
LEMMA ReadLineStep ==
  ASSUME IInv, NEW m \in Models, ReadLine(m)
  PROVE  Holds
<1>1. /\ lines[m] # <<>> /\ lines' = [lines EXCEPT ![m] = Tail(@)]
      /\ UNCHANGED <<child, reaped, pc, names, is_reloading>>
  BY DEF ReadLine, locals
<1>2. lines[m] \in Seq(Running) BY DEF IInv, Processes, ProcessTypes
<1>3. Tail(lines[m]) \in Seq(Running) /\ Head(lines[m]) \in Running
  BY <1>1, <1>2
<1>4. child[m] # "none" BY <1>1 DEF IInv, Processes, NoGhostLines
<1>5. status[m] \in Running BY <1>4 DEF IInv, Processes, RegistryMatches
<1>6. status' = [status EXCEPT ![m] = Head(lines[m])]
  BY <1>5 DEF ReadLine, Running
<1>7. /\ status' \in [Models -> Statuses]
      /\ \A n \in Models : status'[n] \in Running <=> status[n] \in Running
  BY <1>3, <1>5, <1>6 DEF IInv, Processes, ProcessTypes, Statuses, Running
<1>8. Processes' /\ PoolStep
  <2>1. ProcessTypes'
    BY <1>1, <1>3, <1>7 DEF IInv, Processes, ProcessTypes
  <2>2. RegistryMatches'
    BY <1>1, <1>7 DEF IInv, Processes, RegistryMatches
  <2>3. NoGhostLines'
    BY <1>1, <1>4 DEF IInv, Processes, ProcessTypes, NoGhostLines
  <2>4. ReapedIsDead'
    BY <1>1 DEF IInv, Processes, ProcessTypes, ReapedIsDead
  <2>5. PoolStep BY <1>1 DEF PoolStep, live
  <2> QED BY <2>1, <2>2, <2>3, <2>4, <2>5 DEF Processes
<1>9. Quiet BY <1>1, <1>7 DEF Quiet
<1> QED BY <1>8, <1>9, QuietKeepsReloads DEF IInv, Holds

\* A step of the monitor or of a child that changes the states of children, but
\* takes no process away.
LEMMA ChildStateStep ==
  ASSUME IInv, UNCHANGED <<status, reaped, pc, names, is_reloading>>,
         child' \in [Models -> States], lines' \in [Models -> Seq(Running)],
         \A m \in Models : child'[m] = "none" <=> child[m] = "none",
         \A m \in Models : child[m] \in Dead => child'[m] \in Dead,
         \A m \in Models : child[m] \notin Alive => lines'[m] = lines[m]
  PROVE  Holds
<1>1. ProcessTypes' BY DEF IInv, Processes, ProcessTypes
<1>2. RegistryMatches' BY DEF IInv, Processes, RegistryMatches
<1>3. NoGhostLines' BY DEF IInv, Processes, NoGhostLines, Alive
<1>4. ReapedIsDead'
  BY DEF IInv, Processes, ProcessTypes, ReapedIsDead, Alive, Dead
<1>5. PoolStep BY DEF PoolStep, live
<1>6. Quiet BY DEF Quiet
<1> QED BY <1>1, <1>2, <1>3, <1>4, <1>5, <1>6, QuietKeepsReloads
        DEF IInv, Processes, Holds

\* The only step that takes a process away: its exit is recorded.
LEMMA ExitRecordedStep ==
  ASSUME IInv, ModelsAssumption, ExitRecorded
  PROVE  Holds
<1> DEFINE m == reaped
<1>1. m \in Models /\ child[m] \in Dead /\ lines[m] = <<>>
  BY DEF ExitRecorded, Idle, IInv, Processes, ProcessTypes, ReapedIsDead
<1>2. child[m] # "none" BY <1>1 DEF Dead
<1>3. status[m] \in Running
  BY <1>1, <1>2 DEF IInv, Processes, RegistryMatches
<1>4. /\ status' = [status EXCEPT ![m] = "UNLOADED"]
      /\ child' = [child EXCEPT ![m] = "none"]
      /\ reaped' = None
      /\ UNCHANGED <<lines, pc, names, is_reloading>>
  BY <1>3 DEF ExitRecorded, locals, Running
<1>5. Processes'
  <2>1. ProcessTypes'
    BY <1>1, <1>4 DEF IInv, Processes, ProcessTypes, Statuses, States
  <2>2. RegistryMatches'
    BY <1>1, <1>4 DEF IInv, Processes, ProcessTypes, RegistryMatches, Running
  <2>3. NoGhostLines'
    BY <1>1, <1>4 DEF IInv, Processes, ProcessTypes, NoGhostLines
  <2>4. ReapedIsDead' BY <1>4 DEF ReapedIsDead
  <2> QED BY <2>1, <2>2, <2>3, <2>4 DEF Processes
<1>6. Quiet
  BY <1>1, <1>4 DEF Quiet, IInv, Processes, ProcessTypes, Running
<1>7. PICK n \in Models : n = m BY <1>1
<1>8. Pool!End(n)
  BY <1>1, <1>2, <1>4, <1>7 DEF Pool!End, IInv, Processes, ProcessTypes
<1>9. PoolStep
  <2>1. Pool!Next BY <1>8 DEF Pool!Next
  <2> QED BY <2>1 DEF PoolStep
<1> QED BY <1>5, <1>6, <1>9, QuietKeepsReloads DEF IInv, Holds

LEMMA ChildReapedStep ==
  ASSUME IInv, NEW m \in Models, ChildReaped(m)
  PROVE  Holds
<1>1. /\ child[m] \in Dead /\ lines[m] = <<>>
      /\ UNCHANGED <<status, lines, pc, names, is_reloading>>
  BY DEF ChildReaped, locals
<1>2. status[m] # "absent"
  BY <1>1 DEF IInv, Processes, RegistryMatches, Running, Dead
<1>3. reaped' = m /\ UNCHANGED child BY <1>2 DEF ChildReaped
<1>4. Processes' /\ PoolStep
  BY <1>1, <1>3 DEF IInv, Processes, ProcessTypes, RegistryMatches, NoGhostLines,
     ReapedIsDead, PoolStep, live
<1>5. Quiet BY <1>1 DEF Quiet
<1> QED BY <1>4, <1>5, QuietKeepsReloads DEF IInv, Holds

LEMMA MonitorStep ==
  ASSUME IInv, ModelsAssumption, Monitor
  PROVE  Holds
<1> USE DEF registry, process, locals, history
<1> DEFINE Rest == UNCHANGED <<status, lines, reaped, pc, names, is_reloading>>
<1>0. /\ child \in [Models -> States] /\ lines \in [Models -> Seq(Running)]
  BY DEF IInv, Processes, ProcessTypes
<1>1. CASE HandleWatch
  <2>1. Rest /\ UNCHANGED child BY <1>1 DEF HandleWatch
  <2> QED BY <1>0, <2>1, ChildStateStep
<1>2. CASE HandleStop
  <2>1. Rest BY <1>2 DEF HandleStop
  <2>2. /\ child' \in [Models -> States]
        /\ \A m \in Models : child[m] \notin Alive => child'[m] = child[m]
        /\ \A m \in Models : child[m] \in Alive => child'[m] \in Alive
    BY <1>0, <1>2 DEF HandleStop, States, Alive
  <2> QED BY <1>0, <2>1, <2>2, ChildStateStep DEF Alive, Dead
<1>3. CASE ExitRecorded BY <1>3, ExitRecordedStep
<1>4. ASSUME NEW m \in Models, ReadLine(m) PROVE Holds
  BY <1>4, ReadLineStep
<1>5. ASSUME NEW m \in Models, DeadlineKill(m) PROVE Holds
  <2>1. Rest /\ child[m] \in Alive /\ child' = [child EXCEPT ![m] = "killed"]
    BY <1>5 DEF DeadlineKill
  <2>2. /\ child' \in [Models -> States]
        /\ \A n \in Models : child'[n] = "none" <=> child[n] = "none"
        /\ \A n \in Models : child[n] \in Dead => child'[n] \in Dead
    BY <1>0, <2>1 DEF States, Alive, Dead
  <2> QED BY <1>0, <2>1, <2>2, ChildStateStep
<1>6. ASSUME NEW m \in Models, ChildReaped(m) PROVE Holds
  BY <1>6, ChildReapedStep
<1> QED BY <1>1, <1>2, <1>3, <1>4, <1>5, <1>6 DEF Monitor

LEMMA ChildStep ==
  ASSUME IInv, NEW m \in Models, Child(m)
  PROVE  Holds
<1> DEFINE Rest == UNCHANGED <<status, reaped, pc, names, is_reloading>>
<1> USE DEF registry, monitor, locals, history
<1>1. /\ child \in [Models -> States] /\ lines \in [Models -> Seq(Running)]
  BY DEF IInv, Processes, ProcessTypes
<1>2. ASSUME NEW s \in Running, Say(m, s), child[m] \in Alive, Rest,
             child' = [child EXCEPT ![m] = "loading"]
               \/ child' = [child EXCEPT ![m] = "up"]
               \/ child' = [child EXCEPT ![m] = "asleep"]
      PROVE  Holds
  <2>1. lines[m] \in Seq(Running) BY <1>1
  <2>2. Append(lines[m], s) \in Seq(Running) BY <2>1
  <2>3. /\ lines' \in [Models -> Seq(Running)]
        /\ \A n \in Models : child[n] \notin Alive => lines'[n] = lines[n]
    BY <1>1, <1>2, <2>2 DEF Say
  <2>4. /\ child' \in [Models -> States]
        /\ \A n \in Models : child'[n] = "none" <=> child[n] = "none"
        /\ \A n \in Models : child[n] \in Dead => child'[n] \in Dead
    BY <1>1, <1>2 DEF States, Alive, Dead
  <2> QED BY <1>2, <2>3, <2>4, ChildStateStep
<1>3. CASE ChildLoads(m)
  <2>1. Say(m, "LOADING") /\ Rest /\ child[m] \in Alive
    BY <1>3 DEF ChildLoads, Alive
  <2> QED BY <1>2, <1>3, <2>1 DEF ChildLoads, Running
<1>4. CASE ChildReady(m)
  <2>1. Say(m, "LOADED") /\ Rest /\ child[m] \in Alive
    BY <1>4 DEF ChildReady, Alive
  <2> QED BY <1>2, <1>4, <2>1 DEF ChildReady, Running
<1>5. CASE ChildSleeps(m)
  <2>1. Say(m, "SLEEPING") /\ Rest /\ child[m] \in Alive
    BY <1>5 DEF ChildSleeps, Alive
  <2> QED BY <1>2, <1>5, <2>1 DEF ChildSleeps, Running
<1>6. CASE ChildWakes(m)
  <2>1. Say(m, "LOADED") /\ Rest /\ child[m] \in Alive
    BY <1>6 DEF ChildWakes, Alive
  <2> QED BY <1>2, <1>6, <2>1 DEF ChildWakes, Running
<1>7. CASE ChildEnds(m)
  <2>1. Rest /\ UNCHANGED lines /\ child[m] \in Alive
    BY <1>7 DEF ChildEnds, Alive
  <2>2. /\ child' \in [Models -> States]
        /\ \A n \in Models : child'[n] = "none" <=> child[n] = "none"
        /\ \A n \in Models : child[n] \in Dead => child'[n] \in Dead
    BY <1>1, <1>7, <2>1 DEF ChildEnds, States, Alive, Dead
  <2> QED BY <1>1, <2>1, <2>2, ChildStateStep
<1> QED BY <1>3, <1>4, <1>5, <1>6, <1>7 DEF Child

-----------------------------------------------------------------------------

LEMMA InitHolds ==
  ASSUME ModelsAssumption, Init
  PROVE  IInv /\ live = {}
<1>1. Processes
  <2>1. <<>> \in Seq(Running) OBVIOUS
  <2> QED BY <2>1 DEF Init, Processes, ProcessTypes, RegistryMatches,
          NoGhostLines, ReapedIsDead, Statuses, States, Running
<1>2. \A t \in Calls : pc[t] \notin InReload
  BY DEF Init, FirstPC, InReload, ModelsAssumption, Ops
<1>3. Reloads
  BY <1>2 DEF Init, Reloads, ReloadTypes, ReloadAlone, ReloadHolds
<1> QED BY <1>1, <1>3 DEF IInv, Init, live

LEMMA NextHolds ==
  ASSUME ModelsAssumption, Apart, IInv, [Next]_vars
  PROVE  Holds
<1>1. ASSUME NEW t \in Calls, Request(t) \/ Load(t) \/ Admin(t)
      PROVE  Holds
  BY <1>1, RequestStep, LoadStep, AdminStep
<1>2. ASSUME Monitor PROVE Holds BY <1>2, MonitorStep
<1>3. ASSUME NEW m \in Models, Child(m) PROVE Holds BY <1>3, ChildStep
<1>4. CASE UNCHANGED vars
  <2>1. Quiet
    BY <1>4 DEF Quiet, vars, registry, locals
  <2>2. UNCHANGED <<status, child, lines, reaped>>
    BY <1>4 DEF vars, registry, monitor, process
  <2> QED BY <2>1, <2>2, QuietKeepsReloads, SameProcesses DEF IInv, Holds
<1> QED BY <1>1, <1>2, <1>3, <1>4 DEF Next

\* The invariant of the registry and of a reload under way, for every number of
\* models, calls, slots, unread lines and reloads, of which no two overlap.
THEOREM Invariance == Spec /\ ReloadsApart => []IInv
<1>1. Init => IInv BY ModelsAssumption, InitHolds
<1>2. IInv /\ [Next]_vars /\ [Apart]_vars => IInv'
  <2>1. UNCHANGED vars => Apart BY DEF vars, Apart
  <2> QED BY <2>1, ModelsAssumption, NextHolds DEF Holds, IInv
<1>3. ReloadsApart => [][Apart]_vars BY PTL DEF ReloadsApart, Apart
<1> QED BY <1>1, <1>2, <1>3, PTL DEF Spec

\* The registry says that a model runs exactly while it has a process, whatever
\* loads, stops, crashes and reloads do to each other, as long as no reload
\* begins while another one is under way (server_models::load, update_status,
\* on_child_exit, load_models, remove).
THEOREM RegistryIsRight == Spec /\ ReloadsApart => []RegistryMatches
<1>1. IInv => RegistryMatches BY DEF IInv, Processes
<1> QED BY <1>1, Invariance, PTL

\* The router implements the pool: one process per model, and never more than
\* --models-max of them, as long as no reload begins while another one is under
\* way.
THEOREM RouterImplementsPool == Spec /\ ReloadsApart => ImplementsPool
<1>1. Init => Pool!Init
  BY ModelsAssumption, InitHolds DEF Pool!Init, live
<1>2. IInv /\ [Next]_vars /\ [Apart]_vars => [Pool!Next]_live
  <2>1. UNCHANGED vars => Apart BY DEF vars, Apart
  <2> QED BY <2>1, ModelsAssumption, NextHolds DEF Holds, PoolStep
<1>3. [Pool!Next]_live => [Pool!Next]_({m \in Models : child[m] # "none"})
  BY DEF live
<1>4. ReloadsApart => [][Apart]_vars BY PTL DEF ReloadsApart, Apart
<1> QED BY <1>1, <1>2, <1>3, <1>4, Invariance, PTL DEF Spec, ImplementsPool, Pool!Spec

\* A call that is past the capacity check of load() goes on only if no reload
\* is under way.
Waits == \A t \in Calls : pc[t] = "spawn" /\ pc'[t] # "spawn" => Reloading = {}

LEMMA LoaderWaits ==
  ASSUME DOMAIN pc = Calls, ReloadHolds, NEW t \in Calls,
         Request(t) \/ Load(t) \/ Admin(t), pc[t] = "spawn"
  PROVE  Reloading = {}
<1>1. ~Request(t)
  BY DEF Request, Remember, EnsureSkips, EnsureLoads, EnsureQueues, WaitEnds,
     WaitThrows, WaitSeesLoading, WaitClaims, AfterLoad, CheckAlive, ReadMeta,
     Count, Cleanup
<1>2. ~Admin(t)
  BY DEF Admin, UnloadCall, RemoveCall, Removed, ReloadCall, ReloadAtOnce,
     ReloadUnloads, Reloaded, UnloadAll, AllUnloaded, CancelResolves,
     CancelForwards, CancelForgets
<1>3. SpawnUnneeded(t) \/ SpawnFails(t) \/ Spawn(t)
  BY <1>1, <1>2 DEF Load, LoadCall, UnloadLru, UnloadVictim, VictimUnloaded
<1>4. ~is_reloading BY <1>3 DEF SpawnUnneeded, SpawnFails, Spawn, MayLoad
<1> QED BY <1>4 DEF ReloadHolds, Reloading, InReload

\* A call moves no thread but its own.
LEMMA OwnStep ==
  ASSUME DOMAIN pc = Calls, NEW t \in Calls, Request(t) \/ Load(t) \/ Admin(t)
  PROVE  \A u \in Calls \ {t} : pc'[u] = pc[u]
<1>1. UNCHANGED pc \/ \E p : Goto(t, p)
  <2>1. ASSUME NEW ok \in BOOLEAN, LoadReturns(t, ok) PROVE \E p : Goto(t, p)
    BY <2>1 DEF LoadReturns
  <2>2. CASE Request(t)
    BY <2>2 DEF Request, Remember, EnsureSkips, EnsureLoads, EnsureQueues,
       WaitEnds, WaitThrows, WaitSeesLoading, WaitClaims, AfterLoad, CheckAlive,
       ReadMeta, Count, Cleanup
  <2>3. CASE Load(t)
    BY <2>1, <2>3 DEF Load, LoadCall, UnloadLru, UnloadVictim, VictimUnloaded,
       SpawnUnneeded, SpawnFails, Spawn
  <2>4. CASE Admin(t)
    BY <2>4 DEF Admin, UnloadCall, RemoveCall, Removed, ReloadCall, ReloadAtOnce,
       ReloadUnloads, Reloaded, UnloadAll, AllUnloaded, CancelResolves,
       CancelForwards, CancelForgets
  <2> QED BY <2>2, <2>3, <2>4
<1> QED BY <1>1 DEF Goto

\* No load passes its wait during a reload, as long as no reload begins while
\* another one is under way (is_reloading in load() and load_models()).
THEOREM LoadsWait == Spec /\ ReloadsApart => LoadsWaitForReloads
<1>1. IInv /\ [Next]_vars => [Waits]_vars
  <2> SUFFICES ASSUME IInv, Next PROVE Waits OBVIOUS
  <2>1. DOMAIN pc = Calls /\ ReloadHolds BY DEF IInv, Reloads, ReloadTypes
  <2>2. ASSUME NEW t \in Calls, Request(t) \/ Load(t) \/ Admin(t) PROVE Waits
    BY <2>1, <2>2, LoaderWaits, OwnStep DEF Waits
  <2>3. CASE UNCHANGED pc BY <2>3 DEF Waits
  <2>4. Monitor \/ (\E m \in Models : Child(m)) => UNCHANGED pc
    BY DEF Monitor, HandleWatch, HandleStop, ExitRecorded, ReadLine, DeadlineKill,
       ChildReaped, Child, ChildLoads, ChildReady, ChildSleeps, ChildWakes,
       ChildEnds
  <2> QED BY <2>2, <2>3, <2>4 DEF Next
<1>2. [][Waits]_vars => LoadsWaitForReloads BY PTL DEF Waits, LoadsWaitForReloads
<1> QED BY <1>1, <1>2, Invariance, PTL DEF Spec

-----------------------------------------------------------------------------
(* A request that was stopped while it waited is not forwarded: its ticket  *)
(* is void, and it looks at it before it is forwarded.                      *)

Ended == Parked \cup {"done"}

Stopped ==
  /\ DOMAIN pc = Calls /\ DOMAIN conv_models = Convs
  /\ \A t \in cancelled : /\ t \in Posts /\ Conv[t] # None
                          /\ conv_models[Conv[t]] # t
                          /\ pc[t] \in Ended

\* A step of a call that has no say in the registrations.
LEMMA StaysStopped ==
  ASSUME Stopped, UNCHANGED <<conv_models, cancelled>>, NEW t \in Calls,
         NEW p, pc' = [pc EXCEPT ![t] = p],
         t \in cancelled => p \in Ended
  PROVE  Stopped'
BY DEF Stopped, Posts

LEMMA ReturnEnds ==
  ASSUME NEW t \in Calls, NEW ok \in BOOLEAN, LoadReturns(t, ok)
  PROVE  \E p \in Ended : pc' = [pc EXCEPT ![t] = p]
<1>1. Goto(t, "load_ok") \/ Goto(t, "load_failed") \/ Goto(t, "wait")
        \/ Goto(t, "done")
  <2>1. CASE queued[t] /\ ok  BY <2>1 DEF LoadReturns
  <2>2. CASE queued[t] /\ ~ok BY <2>2 DEF LoadReturns
  <2>3. CASE ~queued[t] /\ Op[t] = "post" /\ ok BY <2>3 DEF LoadReturns
  <2>4. CASE ~queued[t] /\ ~(Op[t] = "post" /\ ok) BY <2>4 DEF LoadReturns
  <2> QED BY <2>1, <2>2, <2>3, <2>4
<1> QED BY <1>1 DEF Goto, Ended, Parked

LEMMA StoppedRequest ==
  ASSUME Stopped, NEW t \in Calls, Request(t)
  PROVE  Stopped'
<1> USE DEF locals, history, Goto, Ended, Parked
<1> DEFINE Still == UNCHANGED <<conv_models, cancelled>>
<1>0. t \in cancelled => pc[t] \in Ended /\ Conv[t] # None /\ ~StillWanted(t)
  BY DEF Stopped, StillWanted
<1>1. CASE Remember(t)
  <2>1. /\ t \notin cancelled /\ UNCHANGED cancelled
        /\ pc' = [pc EXCEPT ![t] = "ensure"]
        /\ conv_models' = [conv_models EXCEPT ![Conv[t]] = t]
    BY <1>0, <1>1 DEF Remember
  <2> QED BY <2>1 DEF Stopped, Convs, Posts
<1>2. CASE EnsureSkips(t)
  <2>1. Still BY <1>2 DEF EnsureSkips
  <2>2. PICK p : /\ Goto(t, p)
                 /\ p = CASE status[Target[t]] = "absent" -> "done"
                          [] status[Target[t]] \in Ready  -> Forwarding(t)
                          [] OTHER                        -> "wait"
    BY <1>2 DEF EnsureSkips
  <2>3. p \in {"done", "wait", Forwarding(t)} BY <2>2
  <2>4. t \in cancelled => p \in Ended BY <1>0, <2>3 DEF Forwarding
  <2> QED BY <2>1, <2>2, <2>4, StaysStopped
<1>3. CASE EnsureLoads(t)
  BY <1>3, StaysStopped DEF EnsureLoads
<1>4. CASE EnsureQueues(t)
  BY <1>4, StaysStopped DEF EnsureQueues
<1>5. CASE WaitEnds(t)
  <2>1. Still /\ pc' = [pc EXCEPT ![t] = Forwarding(t)]
    BY <1>5 DEF WaitEnds
  <2>2. t \in cancelled => Forwarding(t) \in Ended BY <1>0 DEF Forwarding
  <2> QED BY <2>1, <2>2, StaysStopped
<1>6. CASE WaitThrows(t)
  BY <1>6, StaysStopped DEF WaitThrows
<1>7. CASE WaitSeesLoading(t)
  BY <1>7 DEF WaitSeesLoading, Stopped
<1>8. CASE WaitClaims(t)
  BY <1>8, StaysStopped DEF WaitClaims
<1>9. CASE AfterLoad(t)
  BY <1>9, StaysStopped DEF AfterLoad
<1>10. CASE CheckAlive(t)
  <2>1. Still /\ pc' = [pc EXCEPT ![t] = IF StillWanted(t) THEN "proxy" ELSE "done"]
    BY <1>10 DEF CheckAlive
  <2>2. t \in cancelled => (IF StillWanted(t) THEN "proxy" ELSE "done") \in Ended
    BY <1>0
  <2> QED BY <2>1, <2>2, StaysStopped
<1>11. CASE ReadMeta(t)
  <2>1. Still /\ t \notin cancelled BY <1>0, <1>11 DEF ReadMeta
  <2> QED BY <1>11, <2>1, StaysStopped DEF ReadMeta
<1>12. CASE Count(t)
  <2>1. Still /\ t \notin cancelled BY <1>0, <1>12 DEF Count
  <2> QED BY <1>12, <2>1, StaysStopped DEF Count
<1>13. CASE Cleanup(t)
  BY <1>13, StaysStopped DEF Cleanup
<1> QED BY <1>1, <1>2, <1>3, <1>4, <1>5, <1>6, <1>7, <1>8, <1>9, <1>10, <1>11,
           <1>12, <1>13 DEF Request

LEMMA StoppedLoad ==
  ASSUME Stopped, NEW t \in Calls, Load(t)
  PROVE  Stopped'
<1> USE DEF locals, history, Goto, Ended, Parked
<1> DEFINE Moves(p) == pc' = [pc EXCEPT ![t] = p]
<1>1. UNCHANGED <<conv_models, cancelled>>
  BY DEF Load, LoadCall, UnloadLru, UnloadVictim, VictimUnloaded, SpawnUnneeded,
     SpawnFails, Spawn
<1>2. CASE LoadCall(t)
  <2>1. Moves("unload_lru") \/ Moves("done") BY <1>2 DEF LoadCall
  <2> QED BY <1>1, <2>1, StaysStopped
<1>3. CASE UnloadLru(t)
  <2>1. LoadReturns(t, FALSE) \/ Moves("spawn") \/ Moves("lru_unload")
    BY <1>3 DEF UnloadLru
  <2> QED BY <1>1, <2>1, ReturnEnds, StaysStopped
<1>4. CASE UnloadVictim(t)
  BY <1>1, <1>4, StaysStopped DEF UnloadVictim
<1>5. CASE VictimUnloaded(t)
  BY <1>1, <1>5, StaysStopped DEF VictimUnloaded
<1>6. CASE SpawnUnneeded(t) \/ SpawnFails(t) \/ Spawn(t)
  <2>1. \E ok \in BOOLEAN : LoadReturns(t, ok)
    BY <1>6 DEF SpawnUnneeded, SpawnFails, Spawn
  <2> QED BY <1>1, <2>1, ReturnEnds, StaysStopped
<1> QED BY <1>2, <1>3, <1>4, <1>5, <1>6 DEF Load

LEMMA StoppedAdmin ==
  ASSUME Stopped, ModelsAssumption, NEW t \in Calls, Admin(t)
  PROVE  Stopped'
<1> USE DEF locals, history, Goto, Ended, Parked
<1> DEFINE Still == UNCHANGED <<conv_models, cancelled>>
<1> DEFINE Moves(p) == pc' = [pc EXCEPT ![t] = p]
<1>0. t \in cancelled => pc[t] \in Ended BY DEF Stopped
<1>1. CASE UnloadCall(t)
  BY <1>1, StaysStopped DEF UnloadCall
<1>2. CASE RemoveCall(t)
  <2>1. Still /\ t \notin cancelled BY <1>0, <1>2 DEF RemoveCall
  <2> QED BY <1>2, <2>1, StaysStopped DEF RemoveCall
<1>3. CASE Removed(t)
  BY <1>3, StaysStopped DEF Removed
<1>4. CASE ReloadCall(t)
  <2>1. Still /\ t \notin cancelled BY <1>0, <1>4 DEF ReloadCall
  <2>2. \E p : Moves(p) BY <1>4 DEF ReloadCall
  <2> QED BY <2>1, <2>2, StaysStopped
<1>5. CASE ReloadUnloads(t)
  <2>1. Still /\ t \notin cancelled BY <1>0, <1>5 DEF ReloadUnloads
  <2>2. \E p : Moves(p) BY <1>5 DEF ReloadUnloads
  <2> QED BY <2>1, <2>2, StaysStopped
<1>6. CASE Reloaded(t)
  BY <1>6, StaysStopped DEF Reloaded
<1>7. CASE UnloadAll(t)
  <2>1. Still /\ t \notin cancelled BY <1>0, <1>7 DEF UnloadAll
  <2> QED BY <1>7, <2>1, StaysStopped DEF UnloadAll
<1>8. CASE AllUnloaded(t)
  BY <1>8, StaysStopped DEF AllUnloaded
<1>9. CASE CancelResolves(t)
  <2>1. Still /\ t \notin cancelled BY <1>0, <1>9 DEF CancelResolves
  <2>2. \E p : Moves(p) BY <1>9 DEF CancelResolves
  <2> QED BY <2>1, <2>2, StaysStopped
<1>10. CASE CancelForwards(t)
  <2>1. Still /\ t \notin cancelled BY <1>0, <1>10 DEF CancelForwards
  <2> QED BY <1>10, <2>1, StaysStopped DEF CancelForwards
<1>11. CASE CancelForgets(t)
  <2>1. /\ pc[t] = "forget" /\ pc' = [pc EXCEPT ![t] = "done"]
        /\ conv_models' = [conv_models EXCEPT ![Conv[t]] = None]
        /\ cancelled' = cancelled \cup
             {u \in Posts : Conv[u] \in Convs \cap {Conv[t]} /\ pc[u] \in Parked}
    BY <1>11 DEF CancelForgets
  <2>2. DOMAIN pc' = Calls /\ DOMAIN conv_models' = Convs
    BY <2>1 DEF Stopped
  <2>3. ASSUME NEW u \in cancelled'
        PROVE  /\ u \in Posts /\ Conv[u] # None
               /\ conv_models'[Conv[u]] # u /\ pc'[u] \in Ended
    <3>1. u \in Posts /\ u \in Calls /\ pc[u] \in Ended
      BY <2>1, <2>3 DEF Stopped, Posts
    <3>2. u # t /\ pc'[u] = pc[u] BY <2>1, <3>1 DEF Stopped
    <3>3. CASE Conv[u] = Conv[t]
      <4>1. u # None BY <3>1 DEF ModelsAssumption
      <4>2. Conv[u] # None
        BY <2>1, <2>3, <3>3 DEF Stopped, Convs
      <4>3. Conv[u] \in Convs BY <3>1, <4>2 DEF Convs
      <4>4. conv_models'[Conv[u]] = None
        BY <2>1, <3>3, <4>3 DEF Stopped
      <4> QED BY <3>1, <3>2, <4>1, <4>2, <4>4
    <3>4. CASE Conv[u] # Conv[t]
      <4>1. u \in cancelled BY <2>1, <2>3, <3>4
      <4>2. Conv[u] # None /\ conv_models[Conv[u]] # u BY <4>1 DEF Stopped
      <4>3. Conv[u] \in Convs BY <3>1, <4>2 DEF Convs
      <4>4. conv_models'[Conv[u]] = conv_models[Conv[u]]
        BY <2>1, <3>4, <4>3 DEF Stopped
      <4> QED BY <3>1, <3>2, <4>2, <4>4
    <3> QED BY <3>3, <3>4
  <2> QED BY <2>2, <2>3 DEF Stopped
<1>12. CASE ReloadAtOnce(t)
  BY <1>12, StaysStopped DEF ReloadAtOnce
<1> QED BY <1>1, <1>2, <1>3, <1>4, <1>5, <1>6, <1>7, <1>8, <1>9, <1>10, <1>11,
           <1>12 DEF Admin

LEMMA StoppedElse ==
  ASSUME Stopped, Monitor \/ (\E m \in Models : Child(m)) \/ UNCHANGED vars
  PROVE  Stopped'
<1>1. UNCHANGED <<pc, conv_models, cancelled>>
  <2> USE DEF history, locals
  <2>1. CASE Monitor
    BY <2>1 DEF Monitor, HandleWatch, HandleStop, ExitRecorded, ReadLine,
       DeadlineKill, ChildReaped
  <2>2. ASSUME NEW m \in Models, Child(m)
        PROVE  UNCHANGED <<pc, conv_models, cancelled>>
    BY <2>2 DEF Child, ChildLoads, ChildReady, ChildSleeps, ChildWakes, ChildEnds
  <2> QED BY <2>1, <2>2 DEF vars
<1> QED BY <1>1 DEF Stopped

\* A request whose conversation was stopped while it waited for its model never
\* reaches a child (proxy_post, router_stream_delete, conv_model_tracker).
THEOREM StoppedIsNotForwarded == Spec => []CancelledNeverForwarded
<1>1. Init => Stopped BY DEF Init, Stopped
<1>2. Stopped /\ [Next]_vars => Stopped'
  BY ModelsAssumption, StoppedRequest, StoppedLoad, StoppedAdmin, StoppedElse
  DEF Next
<1>3. Stopped => CancelledNeverForwarded
  BY DEF Stopped, CancelledNeverForwarded, Ended, Parked
<1> QED BY <1>1, <1>2, <1>3, PTL DEF Spec
=============================================================================
