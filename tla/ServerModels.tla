----------------------------- MODULE ServerModels -----------------------------
(***************************************************************************)
(* The router (tools/server/server-models.cpp): one server process that    *)
(* starts, stops and evicts child servers, one per model, and forwards     *)
(* requests to them.                                                       *)
(*                                                                         *)
(* Threads: the HTTP threads (Calls), each of which carries out one call,  *)
(* and the monitor, which alone reads the children's output and reaps      *)
(* them.  An action is one critical section of server_models::mutex, or a  *)
(* step of a child process.  The wait loops poll (200 ms) or are notified  *)
(* under the lock, so an action that ends a wait is enabled whenever its   *)
(* condition holds.                                                        *)
(***************************************************************************)
EXTENDS Naturals, Sequences, FiniteSets, SequencesExt

CONSTANTS
  Models,
  None,          \* no model, no call
  Calls,         \* HTTP threads
  Parties,       \* bound: the calls, and the faults, that occur together
  Op,            \* what a call does, see Ops
  Target,        \* its model
  Conv,          \* its conversation, or None
  ModelsMax,     \* --models-max, 0: no limit
  Sources,       \* what a reload may find: sets of removed, changed models
  MaxLines       \* bound: lines of a child the monitor has not read

\* Children die; a spawn fails (once); idle children go to sleep; clients leave;
\* a reload begins while another one is under way.
Faults == {"crash", "spawn", "sleep", "leave", "overlap"}

Setting == [calls : SUBSET Calls, faults : SUBSET Faults]

Ops == {"post", "load", "unload", "remove", "reload", "cancel", "unload_all"}

ASSUME ModelsAssumption ==
  /\ None \notin Models \cup Calls
  /\ IsFiniteSet(Models) /\ IsFiniteSet(Calls)
  /\ Op \in [Calls -> Ops]
  /\ Target \in [Calls -> Models]
  /\ Parties \subseteq Setting
  /\ ModelsMax \in Nat /\ MaxLines \in Nat \ {0}
  /\ Sources \subseteq [gone : SUBSET Models, changed : SUBSET Models]

VARIABLES
  \* server_models, under its mutex
  status, failed, req_count, stopping_models, is_reloading, queue,
  \* conv_model_tracker
  conv_models,
  \* server_monitor
  cmds, watched, deadline, reaped,
  \* the child processes and their unread output
  child, lines,
  \* the HTTP threads and their local variables
  pc, queued, did_load, saw_loading, victim, names,
  \* history: calls whose port is that of a live process, calls that were
  \* stopped before they were forwarded
  connected, cancelled,
  party          \* the setting of this behaviour: calls and faults

Crashes     == "crash" \in party.faults
SleepIdle   == "sleep" \in party.faults
Disconnects == "leave" \in party.faults
Overlaps    == "overlap" \in party.faults

registry == <<status, failed, req_count, stopping_models, is_reloading, queue>>
monitor  == <<cmds, watched, deadline, reaped>>
process  == <<child, lines>>
locals   == <<queued, did_load, saw_loading, victim, names>>
history  == <<connected, cancelled, party>>
vars     == <<registry, conv_models, monitor, process, pc, locals, history>>

Statuses == {"absent", "UNLOADED", "LOADING", "LOADED", "SLEEPING"}
Running  == {"LOADING", "LOADED", "SLEEPING"}
Ready    == {"LOADED", "SLEEPING"}
Alive    == {"starting", "loading", "up", "asleep", "exiting"}
Dead     == {"exited", "killed"}

Entry == [model : Models, n_waiters : Nat, loading : BOOLEAN]
Cmd   == [type : {"WATCH", "STOP"}, model : Models, send_exit : BOOLEAN]

Posts == {t \in Calls : Op[t] = "post"}
Convs == {Conv[t] : t \in Calls} \ {None}

FirstPC(t) ==
  CASE Op[t] = "post" /\ Conv[t] # None -> "remember"
    [] Op[t] = "post"                   -> "ensure"
    [] OTHER                            -> Op[t]

PCs == Ops \cup {"remember", "ensure", "wait", "unload_lru", "lru_unload",
  "lru_wait", "spawn", "load_ok", "load_failed", "alive", "proxy", "count",
  "proxied", "remove_wait", "reload_unload", "reload_wait", "forward", "forget",
  "all_wait", "done"}

TypeOK ==
  /\ status \in [Models -> Statuses]
  /\ failed \in [Models -> BOOLEAN]
  /\ req_count \in [Models -> Nat]
  /\ stopping_models \subseteq Models
  /\ is_reloading \in BOOLEAN
  /\ queue \in Seq(Entry)
  /\ conv_models \in [Convs -> Posts \cup {None}]
  /\ cmds \in Seq(Cmd)
  /\ watched \subseteq Models /\ deadline \subseteq watched
  /\ reaped \in watched \cup {None}
  /\ child \in [Models -> Alive \cup Dead \cup {"none"}]
  /\ \A m \in Models : lines[m] \in Seq(Running) /\ Len(lines[m]) <= MaxLines
  /\ pc \in [Calls -> PCs]
  /\ queued \in [Calls -> BOOLEAN] /\ did_load \in [Calls -> BOOLEAN]
  /\ saw_loading \in [Calls -> BOOLEAN]
  /\ victim \in [Calls -> Models \cup {None}]
  /\ names \in [Calls -> [gone : SUBSET Models, to_unload : SUBSET Models,
                          left : SUBSET Models]]
  /\ connected \subseteq Calls /\ cancelled \subseteq Calls
  /\ party \in Setting

Init ==
  /\ status = [m \in Models |-> "UNLOADED"]
  /\ failed = [m \in Models |-> FALSE]
  /\ req_count = [m \in Models |-> 0]
  /\ stopping_models = {} /\ is_reloading = FALSE /\ queue = <<>>
  /\ conv_models = [c \in Convs |-> None]
  /\ cmds = <<>> /\ watched = {} /\ deadline = {} /\ reaped = None
  /\ child = [m \in Models |-> "none"]
  /\ lines = [m \in Models |-> <<>>]
  /\ party \in Parties
  /\ pc = [t \in Calls |-> IF t \in party.calls THEN FirstPC(t) ELSE "done"]
  /\ queued = [t \in Calls |-> FALSE] /\ did_load = [t \in Calls |-> FALSE]
  /\ saw_loading = [t \in Calls |-> FALSE]
  /\ victim = [t \in Calls |-> None]
  /\ names = [t \in Calls |-> [gone |-> {}, to_unload |-> {}, left |-> {}]]
  /\ connected = {} /\ cancelled = {}

-----------------------------------------------------------------------------
(* server_lru_sched.  The operators take the registry's fields they read,  *)
(* because a critical section changes some of them before it calls tick(). *)

RunningModels(st) == {m \in Models : st[m] \in Running}

HasCapacity(st) == ModelsMax = 0 \/ Cardinality(RunningModels(st)) < ModelsMax

Find(q, m) == {i \in DOMAIN q : q[i].model = m}

\* pick_victim(): idle, up, not already stopping and wanted by no queued
\* request.  Which of them was used least recently is left open.
Candidates(st, q, count, stopping) ==
  {m \in Models : /\ count[m] = 0
                  /\ st[m] \in Ready
                  /\ m \notin stopping
                  /\ Find(q, m) = {}}

\* Fault: every request gets an entry of its own.
JoinTwice(q, m) ==
  Append(q, [model |-> m, n_waiters |-> 1, loading |-> FALSE])

Join(q, m) ==
  IF Find(q, m) # {}
  THEN [i \in DOMAIN q |-> IF i \in Find(q, m)
                           THEN [q[i] EXCEPT !.n_waiters = @ + 1] ELSE q[i]]
  ELSE Append(q, [model |-> m, n_waiters |-> 1, loading |-> FALSE])

Leave(q, m) ==
  IF Find(q, m) = {} THEN q
  ELSE LET i == CHOOSE j \in Find(q, m) : TRUE
       IN  IF q[i].n_waiters <= 1 THEN RemoveAt(q, i)
           ELSE [q EXCEPT ![i].n_waiters = @ - 1]

TryClaim(st, q, m) ==
  /\ q # <<>> /\ Head(q).model = m /\ ~Head(q).loading
  /\ HasCapacity(st)

ClaimDone(q, m, ok) ==
  IF ok THEN q
  ELSE [i \in DOMAIN q |-> IF i \in Find(q, m)
                           THEN [q[i] EXCEPT !.loading = FALSE] ELSE q[i]]

\* tick(): how many models have to be given up for the queued requests, with
\* those that are going down or claimed but not spawned taken into account.
Shortage(st, q, stopping) ==
  LET running == RunningModels(st)
      needed  == {i \in DOMAIN q : ~q[i].loading}
      claimed == {i \in DOMAIN q : q[i].loading /\ st[q[i].model] = "UNLOADED"}
      wanted  == Cardinality(needed) + Cardinality(claimed)
                   + Cardinality(running \ stopping)
  IN  IF wanted > ModelsMax THEN wanted - ModelsMax ELSE 0

\* The sets of models one call of tick() may give up.
Evictions(st, q, count, stopping) ==
  IF ModelsMax = 0 \/ q = <<>> THEN {{}}
  ELSE LET idle == Candidates(st, q, count, stopping)
           n    == Shortage(st, q, stopping)
       IN  {V \in SUBSET idle :
              Cardinality(V) = IF n < Cardinality(idle) THEN n
                               ELSE Cardinality(idle)}

\* The commands of request_stop() for the models of V.
Stops(V, send_exit) ==
  SetToSeq({[type |-> "STOP", model |-> m, send_exit |-> send_exit] : m \in V})

\* The end of a critical section that calls tick(): st, q, count and stopping
\* are the registry as the section leaves it.
Tick(st, q, count, stopping) ==
  \E V \in Evictions(st, q, count, stopping) :
    /\ stopping_models' = stopping \cup V
    /\ cmds' = cmds \o Stops(V, TRUE)

Goto(t, p) == pc' = [pc EXCEPT ![t] = p]

\* request_stop(), for a set of models, by a caller that has force-killed those
\* that were still loading.
Stop(V) ==
  LET running == V \cap RunningModels(status)
      loading == {m \in running : status[m] = "LOADING"}
      asked   == running \ stopping_models
  IN  /\ stopping_models' = stopping_models \cup asked
      /\ cmds' = cmds \o Stops(asked \cap loading, FALSE)
                      \o Stops(asked \ loading, TRUE)
      /\ child' = [m \in Models |-> IF m \in loading /\ child[m] \in Alive
                                    THEN "killed" ELSE child[m]]
      /\ connected' = {t \in connected : child'[Target[t]] \in Alive}

-----------------------------------------------------------------------------
(* POST to a model: proxy_post(), ensure_model_ready(), proxy_request().    *)

\* The conversation is registered before the wait for the model.
Remember(t) ==
  /\ pc[t] = "remember"
  /\ conv_models' = [conv_models EXCEPT ![Conv[t]] = t]
  /\ Goto(t, "ensure")
  /\ UNCHANGED <<registry, monitor, process, locals, history>>

\* After the wait: only a request with a conversation can have been stopped.
Forwarding(t) == IF Conv[t] = None THEN "proxy" ELSE "alive"

\* The model is up, or absent, or somebody else is loading it.
EnsureSkips(t) ==
  /\ pc[t] = "ensure"
  /\ status[Target[t]] # "UNLOADED"
  /\ Goto(t, CASE status[Target[t]] = "absent"  -> "done"
               [] status[Target[t]] \in Ready   -> Forwarding(t)
               [] OTHER                         -> "wait")
  /\ UNCHANGED <<registry, conv_models, monitor, process, locals, history>>

EnsureLoads(t) ==
  /\ pc[t] = "ensure"
  /\ status[Target[t]] = "UNLOADED"
  /\ HasCapacity(status) /\ queue = <<>>
  /\ Goto(t, "unload_lru")
  /\ UNCHANGED <<registry, conv_models, monitor, process, locals, history>>

EnsureQueues(t) ==
  /\ pc[t] = "ensure"
  /\ status[Target[t]] = "UNLOADED"
  /\ ~HasCapacity(status) \/ queue # <<>>
  /\ queue' = Join(queue, Target[t])
  /\ queued' = [queued EXCEPT ![t] = TRUE]
  /\ Tick(status, queue', req_count, stopping_models)
  /\ Goto(t, "wait")
  /\ UNCHANGED <<status, failed, req_count, is_reloading, conv_models, watched,
                 deadline, reaped, process, did_load, saw_loading, victim,
                 names, history>>

\* leave_queue(), if the call is in the queue.  The wait's local variables go
\* out of scope.
LeaveQueue(t) ==
  /\ queue' = IF queued[t] THEN Leave(queue, Target[t]) ELSE queue
  /\ queued' = [queued EXCEPT ![t] = FALSE]
  /\ did_load' = [did_load EXCEPT ![t] = FALSE]
  /\ saw_loading' = [saw_loading EXCEPT ![t] = FALSE]

\* The wait is over: the model is up or gone, or it came up and went down
\* without an error, or the load somebody else started fell over.
WaitEnds(t) ==
  LET m == Target[t] IN
  /\ pc[t] = "wait"
  /\ \/ status[m] \in Ready \cup {"absent"}
     \/ /\ status[m] = "UNLOADED"
        /\ IF did_load[t] \/ saw_loading[t] THEN ~failed[m] ELSE ~queued[t]
  /\ LeaveQueue(t)
  /\ Goto(t, Forwarding(t))
  /\ UNCHANGED <<status, failed, req_count, stopping_models, is_reloading,
                 conv_models, monitor, process, victim, names, history>>

\* The exceptions of the wait: the load failed, or the client left (a request
\* with a conversation does not look at its client).
WaitThrows(t) ==
  LET m == Target[t] IN
  /\ pc[t] = "wait"
  /\ \/ status[m] = "UNLOADED" /\ (did_load[t] \/ saw_loading[t]) /\ failed[m]
     \/ /\ Disconnects /\ Conv[t] = None
        /\ \/ status[m] = "LOADING"
           \/ status[m] = "UNLOADED" /\ queued[t]
                /\ ~did_load[t] /\ ~saw_loading[t]
  /\ LeaveQueue(t)
  /\ Tick(status, queue', req_count, stopping_models)
  /\ Goto(t, "done")
  /\ UNCHANGED <<status, failed, req_count, is_reloading, conv_models, watched,
                 deadline, reaped, process, victim, names, history>>

WaitSeesLoading(t) ==
  /\ pc[t] = "wait"
  /\ status[Target[t]] = "LOADING" /\ ~saw_loading[t]
  /\ saw_loading' = [saw_loading EXCEPT ![t] = TRUE]
  /\ UNCHANGED <<registry, conv_models, monitor, process, pc, queued, did_load,
                 victim, names, history>>

WaitClaims(t) ==
  /\ pc[t] = "wait"
  /\ status[Target[t]] = "UNLOADED"
  /\ queued[t] /\ ~did_load[t] /\ ~saw_loading[t]
  /\ TryClaim(status, queue, Target[t])
  /\ queue' = [queue EXCEPT ![1].loading = TRUE]
  /\ Goto(t, "unload_lru")
  /\ UNCHANGED <<status, failed, req_count, stopping_models, is_reloading,
                 conv_models, monitor, process, locals, history>>

\* The claimed load returned or threw; the thread goes back to its wait.
AfterLoad(t) ==
  /\ pc[t] \in {"load_ok", "load_failed"}
  /\ queue' = ClaimDone(queue, Target[t], pc[t] = "load_ok")
  /\ Tick(status, queue', req_count, stopping_models)
  /\ did_load' = [did_load EXCEPT ![t] = @ \/ pc[t] = "load_ok"]
  /\ Goto(t, "wait")
  /\ UNCHANGED <<status, failed, req_count, is_reloading, conv_models, watched,
                 deadline, reaped, process, queued, saw_loading, victim, names,
                 history>>

\* Fault: a request is forwarded although it was stopped.
StillWantedAlways(t) == TRUE

\* A stop erases the registration of a request that waits for its model.
StillWanted(t) == Conv[t] # None => conv_models[Conv[t]] = t

CheckAlive(t) ==
  /\ pc[t] = "alive"
  /\ Goto(t, IF StillWanted(t) THEN "proxy" ELSE "done")
  /\ UNCHANGED <<registry, conv_models, monitor, process, locals, history>>

\* get_meta(): the port is read here ...
ReadMeta(t) ==
  LET m == Target[t] IN
  /\ pc[t] = "proxy"
  /\ Goto(t, IF status[m] \in Running THEN "count" ELSE "done")
  /\ connected' = IF child[m] \in Alive THEN connected \cup {t} ELSE connected
  /\ UNCHANGED <<registry, conv_models, monitor, process, locals, cancelled, party>>

\* mapping[name], which makes an entry of a name that has none
Entered(m) == [status EXCEPT ![m] = IF @ = "absent" THEN "UNLOADED" ELSE @]

\* ... and the request is counted here.
Count(t) ==
  LET m == Target[t] IN
  /\ pc[t] = "count"
  /\ status' = Entered(m)
  /\ req_count' = [req_count EXCEPT ![m] = @ + 1]
  /\ Goto(t, "proxied")
  /\ UNCHANGED <<failed, stopping_models, is_reloading, queue, conv_models,
                 monitor, process, locals, history>>

\* Fault: the count is not looked at.
CountedAlways(m) == status[m] # "absent"

\* An old request may end when the model has a new instance, which has not
\* counted it.
Counted(m) == status[m] # "absent" /\ req_count[m] > 0

\* Fault: the count is read before it is decremented.
LastEndsEarly(m) == req_count[m] = 0

LastEnds(m) == req_count[m] = 1

\* The response, or the connection, ends: proxy->cleanup.
Cleanup(t) ==
  LET m == Target[t] IN
  /\ pc[t] = "proxied"
  /\ child[m] # "asleep" \/ t \notin connected
  /\ IF Counted(m)
     THEN /\ req_count' = [req_count EXCEPT ![m] = @ - 1]
          /\ IF LastEnds(m)
             THEN Tick(status, queue, req_count', stopping_models)
             ELSE UNCHANGED <<stopping_models, cmds>>
     ELSE UNCHANGED <<req_count, stopping_models, cmds>>
  /\ connected' = connected \ {t}
  /\ Goto(t, "done")
  /\ UNCHANGED <<status, failed, is_reloading, queue, conv_models, watched,
                 deadline, reaped, process, locals, cancelled, party>>

-----------------------------------------------------------------------------
(* load(), called by a request, by a waiter that claimed the slot, and by   *)
(* POST /models/load, which first looks whether the model runs.             *)

\* load() returns or throws to its caller: the claimant in the queue goes on in
\* a critical section of its own, a request waits for the model or passes the
\* exception on.
LoadReturns(t, ok) ==
  LET direct == ~queued[t] /\ Op[t] = "post" /\ ok IN
  /\ Goto(t, CASE queued[t] /\ ok  -> "load_ok"
               [] queued[t] /\ ~ok -> "load_failed"
               [] direct            -> "wait"
               [] OTHER             -> "done")
  /\ did_load' = [did_load EXCEPT ![t] = direct]

LoadCall(t) ==
  /\ pc[t] = "load"
  /\ Goto(t, IF status[Target[t]] = "UNLOADED" THEN "unload_lru" ELSE "done")
  /\ UNCHANGED <<registry, conv_models, monitor, process, locals, history>>

\* unload_lru(), first critical section; has_model() is taken together with it.
UnloadLru(t) ==
  /\ pc[t] = "unload_lru"
  /\ IF status[Target[t]] = "absent"
     THEN LoadReturns(t, FALSE) /\ UNCHANGED victim
     ELSE LET idle == Candidates(status, queue, req_count, stopping_models)
          IN  IF HasCapacity(status) \/ idle = {}
              THEN Goto(t, "spawn") /\ UNCHANGED <<victim, did_load>>
              ELSE /\ Goto(t, "lru_unload")
                   /\ \E v \in idle : victim' = [victim EXCEPT ![t] = v]
                   /\ UNCHANGED did_load
  /\ UNCHANGED <<registry, conv_models, monitor, process, queued, saw_loading,
                 names, history>>

UnloadVictim(t) ==
  /\ pc[t] = "lru_unload"
  /\ Stop({victim[t]})
  /\ Goto(t, "lru_wait")
  /\ UNCHANGED <<status, failed, req_count, is_reloading, queue, conv_models,
                 watched, deadline, reaped, lines, locals, cancelled, party>>

\* The wait looks at mapping[victim], which makes an entry if there is none.
VictimUnloaded(t) ==
  /\ pc[t] = "lru_wait"
  /\ status[victim[t]] \in {"absent", "UNLOADED"}
  /\ status' = Entered(victim[t])
  /\ victim' = [victim EXCEPT ![t] = None]
  /\ Goto(t, "spawn")
  /\ UNCHANGED <<failed, req_count, stopping_models, is_reloading, queue,
                 conv_models, monitor, process, queued, did_load, saw_loading,
                 names, history>>

\* Fault: a load does not wait for a reload.
MayLoadAlways == TRUE

MayLoad == ~is_reloading

\* Fault: the capacity is not checked again under the lock.
HasSlotUnchecked(st) == TRUE

HasSlot(st) == HasCapacity(st)

\* The rest of load() is one critical section.  Somebody else has loaded it:
SpawnUnneeded(t) ==
  /\ pc[t] = "spawn" /\ MayLoad
  /\ status[Target[t]] \in Running
  /\ LoadReturns(t, TRUE)
  /\ UNCHANGED <<registry, conv_models, monitor, process, queued, saw_loading,
                 victim, names, history>>

\* no slot is left, or no port, or the process cannot be created:
SpawnFails(t) ==
  LET m == Target[t] IN
  /\ pc[t] = "spawn" /\ MayLoad
  /\ status[m] \notin Running
  /\ IF HasSlot(status)
     THEN /\ "spawn" \in party.faults
          /\ party' = [party EXCEPT !.faults = @ \ {"spawn"}]
     ELSE UNCHANGED party
  /\ status' = Entered(m)
  /\ LoadReturns(t, FALSE)
  /\ UNCHANGED <<failed, req_count, stopping_models, is_reloading, queue,
                 conv_models, monitor, process, queued, saw_loading, victim,
                 names, connected, cancelled>>

\* a new instance takes the name.
Spawn(t) ==
  LET m == Target[t] IN
  /\ pc[t] = "spawn" /\ MayLoad
  /\ status[m] \notin Running
  /\ HasSlot(status)
  /\ status' = [status EXCEPT ![m] = "LOADING"]
  /\ req_count' = [req_count EXCEPT ![m] = 0]
  /\ child' = [child EXCEPT ![m] = "starting"]
  /\ lines' = [lines EXCEPT ![m] = <<>>]
  /\ cmds' = Append(cmds, [type |-> "WATCH", model |-> m, send_exit |-> FALSE])
  /\ LoadReturns(t, TRUE)
  /\ UNCHANGED <<failed, stopping_models, is_reloading, queue, conv_models,
                 watched, deadline, reaped, queued, saw_loading, victim, names,
                 history>>

-----------------------------------------------------------------------------
(* POST /models/unload, DELETE of a model, GET /models?reload, the end.     *)

UnloadCall(t) ==
  /\ pc[t] = "unload"
  /\ Stop({Target[t]})
  /\ Goto(t, "done")
  /\ UNCHANGED <<status, failed, req_count, is_reloading, queue, conv_models,
                 watched, deadline, reaped, lines, locals, cancelled, party>>

RemoveCall(t) ==
  /\ pc[t] = "remove"
  /\ Stop({Target[t]})
  /\ Goto(t, IF status[Target[t]] = "absent" THEN "done" ELSE "remove_wait")
  /\ UNCHANGED <<status, failed, req_count, is_reloading, queue, conv_models,
                 watched, deadline, reaped, lines, locals, cancelled, party>>

Removed(t) ==
  LET m == Target[t] IN
  /\ pc[t] = "remove_wait"
  /\ status[m] \in {"UNLOADED", "absent"}
  /\ status' = [status EXCEPT ![m] = "absent"]
  /\ failed' = [failed EXCEPT ![m] = FALSE]
  /\ req_count' = [req_count EXCEPT ![m] = 0]
  /\ Goto(t, "done")
  /\ UNCHANGED <<stopping_models, is_reloading, queue, conv_models, monitor,
                 process, locals, history>>

\* The reloads that have released the lock and not yet finished.
Reloading == {t \in Calls : pc[t] \in {"reload_unload", "reload_wait"}}

\* Bound: in the other settings the reloads come one after the other.
MayReload == Overlaps \/ Reloading = {}

\* The entries follow the sources, in one critical section.
Reconcile(gone) ==
  LET new == {m \in Models \ gone : status[m] = "absent"} IN
  /\ status' = [m \in Models |-> IF m \in gone THEN "absent"
                                 ELSE IF m \in new THEN "UNLOADED" ELSE status[m]]
  /\ failed' = [m \in Models |-> failed[m] /\ status[m] \in Running /\ m \notin gone]
  /\ req_count' = [m \in Models |-> IF m \in gone THEN 0 ELSE req_count[m]]

\* load_models(): the sources are read without the lock.  Running models that
\* are gone or changed are unloaded one by one ...
ReloadCall(t) ==
  /\ pc[t] = "reload" /\ MayReload
  /\ is_reloading' = TRUE
  /\ \E s \in Sources :
       LET out == (s.gone \cup s.changed) \cap RunningModels(status) IN
       /\ out # {}
       /\ names' = [names EXCEPT ![t] = [gone |-> s.gone, to_unload |-> out,
                                         left |-> out]]
  /\ Goto(t, "reload_unload")
  /\ UNCHANGED <<status, failed, req_count, stopping_models, queue, conv_models,
                 monitor, process, queued, did_load, saw_loading, victim,
                 history>>

\* ... if there are none the lock is not released; an empty registry is filled
\* without a look at is_reloading.
ReloadAtOnce(t) ==
  /\ pc[t] = "reload" /\ MayReload
  /\ \E s \in Sources :
       /\ (s.gone \cup s.changed) \cap RunningModels(status) = {}
       /\ Reconcile(s.gone)
  /\ is_reloading' = (is_reloading /\ \A m \in Models : status[m] = "absent")
  /\ Goto(t, "done")
  /\ UNCHANGED <<stopping_models, queue, conv_models, monitor, process, locals,
                 history>>

ReloadUnloads(t) ==
  /\ pc[t] = "reload_unload"
  /\ \E m \in names[t].left :
       /\ Stop({m})
       /\ names' = [names EXCEPT ![t].left = @ \ {m}]
       /\ Goto(t, IF names[t].left = {m} THEN "reload_wait" ELSE "reload_unload")
  /\ UNCHANGED <<status, failed, req_count, is_reloading, queue, conv_models,
                 watched, deadline, reaped, lines, queued, did_load,
                 saw_loading, victim, cancelled, party>>

\* ... and when they are down the reload is finished.
Reloaded(t) ==
  /\ pc[t] = "reload_wait"
  /\ names[t].to_unload \cap RunningModels(status) = {}
  /\ Reconcile(names[t].gone)
  /\ is_reloading' = FALSE
  /\ Goto(t, "done")
  /\ UNCHANGED <<stopping_models, queue, conv_models, monitor, process, locals,
                 history>>

\* unload_all() runs when the HTTP threads have been joined.
UnloadAll(t) ==
  /\ pc[t] = "unload_all"
  /\ \A u \in Calls \ {t} : pc[u] = "done"
  /\ Stop(Models)
  /\ Goto(t, "all_wait")
  /\ UNCHANGED <<status, failed, req_count, is_reloading, queue, conv_models,
                 watched, deadline, reaped, lines, locals, cancelled, party>>

AllUnloaded(t) ==
  /\ pc[t] = "all_wait"
  /\ RunningModels(status) = {}
  /\ Goto(t, "done")
  /\ UNCHANGED <<registry, conv_models, monitor, process, locals, history>>

-----------------------------------------------------------------------------
(* DELETE of a conversation's stream: the child that has it is told, and    *)
(* the registration is erased.                                              *)

CancelResolves(t) ==
  LET owner == conv_models[Conv[t]] IN
  /\ pc[t] = "cancel"
  /\ Goto(t, IF owner # None /\ status[Target[owner]] = "LOADED"
             THEN "forward" ELSE "forget")
  /\ UNCHANGED <<registry, conv_models, monitor, process, locals, history>>

\* The child ends the generation it has for the conversation, if it has one.
CancelForwards(t) ==
  /\ pc[t] = "forward"
  /\ connected' = {u \in connected : ~(Conv[u] = Conv[t] /\ pc[u] = "proxied")}
  /\ Goto(t, "forget")
  /\ UNCHANGED <<registry, conv_models, monitor, process, locals, cancelled, party>>

Parked == {"ensure", "wait", "unload_lru", "lru_unload", "lru_wait", "spawn", "load_ok",
           "load_failed", "alive"}

CancelForgets(t) ==
  /\ pc[t] = "forget"
  /\ conv_models' = [conv_models EXCEPT ![Conv[t]] = None]
  /\ cancelled' = cancelled \cup
       {u \in Posts : Conv[u] \in Convs \cap {Conv[t]} /\ pc[u] \in Parked}
  /\ Goto(t, "done")
  /\ UNCHANGED <<registry, monitor, process, locals, connected, party>>

-----------------------------------------------------------------------------
(* server_monitor                                                           *)

Idle == reaped = None

HandleWatch ==
  /\ Idle /\ cmds # <<>> /\ Head(cmds).type = "WATCH"
  /\ cmds' = Tail(cmds)
  /\ watched' = watched \cup {Head(cmds).model}
  /\ UNCHANGED <<registry, conv_models, deadline, reaped, process, pc, locals,
                 history>>

\* Fault: only a child that is told to exit is force-killed.
ArmedIfTold(cmd) == deadline

\* The force-kill time of a child that is told to stop.
Armed(cmd) == deadline \cup {cmd.model}

\* A stop of a child that is not watched (any more) is dropped.
HandleStop ==
  LET m == Head(cmds).model IN
  /\ Idle /\ cmds # <<>> /\ Head(cmds).type = "STOP"
  /\ cmds' = Tail(cmds)
  /\ deadline' = IF m \in watched THEN Armed(Head(cmds)) ELSE deadline
  /\ child' = [child EXCEPT ![m] =
       IF m \in watched /\ Head(cmds).send_exit /\ @ \in Alive
       THEN "exiting" ELSE @]
  /\ UNCHANGED <<registry, conv_models, watched, reaped, lines, pc, locals,
                 history>>

\* A child reports its state: handle_child_state(), update_status().
ReadLine(m) ==
  /\ Idle /\ m \in watched /\ lines[m] # <<>>
  /\ lines' = [lines EXCEPT ![m] = Tail(@)]
  /\ IF status[m] = "absent"
     THEN UNCHANGED <<status, failed, stopping_models, cmds>>
     ELSE /\ status' = [status EXCEPT ![m] = Head(lines[m])]
          /\ failed' = [failed EXCEPT ![m] = FALSE]
          /\ Tick(status', queue, req_count, stopping_models)
  /\ UNCHANGED <<req_count, is_reloading, queue, conv_models, watched, deadline,
                 reaped, child, pc, locals, history>>

DeadlineKill(m) ==
  /\ Idle /\ m \in deadline /\ child[m] \in Alive
  /\ deadline' = deadline \ {m}
  /\ child' = [child EXCEPT ![m] = "killed"]
  /\ connected' = {t \in connected : Target[t] # m}
  /\ UNCHANGED <<registry, conv_models, cmds, watched, reaped, lines, pc, locals,
                 cancelled, party>>

\* on_child_exit(), first critical section ...
ChildReaped(m) ==
  /\ Idle /\ m \in watched /\ child[m] \in Dead /\ lines[m] = <<>>
  /\ stopping_models' = stopping_models \ {m}
  /\ IF status[m] # "absent"
     THEN reaped' = m /\ UNCHANGED <<watched, deadline, child>>
     ELSE /\ watched' = watched \ {m}
          /\ deadline' = deadline \ {m}
          /\ child' = [child EXCEPT ![m] = "none"]
          /\ UNCHANGED reaped
  /\ UNCHANGED <<status, failed, req_count, is_reloading, queue, conv_models,
                 cmds, lines, pc, locals, history>>

\* ... and second: update_status(UNLOADED).
ExitRecorded ==
  LET m == reaped IN
  /\ ~Idle
  /\ IF status[m] = "absent"
     THEN UNCHANGED <<status, failed, stopping_models, cmds>>
     ELSE /\ status' = [status EXCEPT ![m] = "UNLOADED"]
          /\ failed' = [failed EXCEPT ![m] = child[m] = "killed"]
          /\ Tick(status', queue, req_count, stopping_models)
  /\ reaped' = None
  /\ watched' = watched \ {m}
  /\ deadline' = deadline \ {m}
  /\ child' = [child EXCEPT ![m] = "none"]
  /\ UNCHANGED <<req_count, is_reloading, queue, conv_models, lines, pc, locals,
                 history>>

-----------------------------------------------------------------------------
(* The children                                                             *)

Say(m, s) ==
  /\ Len(lines[m]) < MaxLines
  /\ lines' = [lines EXCEPT ![m] = Append(@, s)]

\* The progress of a load, at most one report of it.
ChildLoads(m) ==
  /\ child[m] = "starting"
  /\ Say(m, "LOADING")
  /\ child' = [child EXCEPT ![m] = "loading"]
  /\ UNCHANGED <<registry, conv_models, monitor, pc, locals, history>>

ChildReady(m) ==
  /\ child[m] \in {"starting", "loading"}
  /\ Say(m, "LOADED")
  /\ child' = [child EXCEPT ![m] = "up"]
  /\ UNCHANGED <<registry, conv_models, monitor, pc, locals, history>>

Serving(m) == {t \in connected : Target[t] = m /\ pc[t] = "proxied"}

ChildSleeps(m) ==
  /\ SleepIdle /\ child[m] = "up" /\ Serving(m) = {}
  /\ Say(m, "SLEEPING")
  /\ child' = [child EXCEPT ![m] = "asleep"]
  /\ UNCHANGED <<registry, conv_models, monitor, pc, locals, history>>

ChildWakes(m) ==
  /\ child[m] = "asleep" /\ Serving(m) # {}
  /\ Say(m, "LOADED")
  /\ child' = [child EXCEPT ![m] = "up"]
  /\ UNCHANGED <<registry, conv_models, monitor, pc, locals, history>>

\* A child that was told to exit does, or hangs.
ChildEnds(m) ==
  /\ child[m] = "exiting" \/ (Crashes /\ child[m] \in Alive)
  /\ child' = [child EXCEPT ![m] = IF @ = "exiting" THEN "exited" ELSE "killed"]
  /\ connected' = {t \in connected : Target[t] # m}
  /\ UNCHANGED <<registry, conv_models, monitor, lines, pc, locals, cancelled, party>>

-----------------------------------------------------------------------------

Request(t) ==
  \/ Remember(t) \/ EnsureSkips(t) \/ EnsureLoads(t) \/ EnsureQueues(t)
  \/ WaitEnds(t) \/ WaitThrows(t) \/ WaitSeesLoading(t) \/ WaitClaims(t)
  \/ AfterLoad(t)
  \/ CheckAlive(t) \/ ReadMeta(t) \/ Count(t) \/ Cleanup(t)

Load(t) ==
  \/ LoadCall(t) \/ UnloadLru(t) \/ UnloadVictim(t) \/ VictimUnloaded(t)
  \/ SpawnUnneeded(t) \/ SpawnFails(t) \/ Spawn(t)

Admin(t) ==
  \/ UnloadCall(t) \/ RemoveCall(t) \/ Removed(t)
  \/ ReloadCall(t) \/ ReloadAtOnce(t) \/ ReloadUnloads(t) \/ Reloaded(t)
  \/ UnloadAll(t) \/ AllUnloaded(t)
  \/ CancelResolves(t) \/ CancelForwards(t) \/ CancelForgets(t)

Monitor ==
  \/ HandleWatch \/ HandleStop \/ ExitRecorded
  \/ \E m \in Models : ReadLine(m) \/ DeadlineKill(m) \/ ChildReaped(m)

Child(m) ==
  \/ ChildLoads(m) \/ ChildReady(m) \/ ChildSleeps(m) \/ ChildWakes(m)
  \/ ChildEnds(m)

Next ==
  \/ \E t \in Calls : Request(t) \/ Load(t) \/ Admin(t)
  \/ Monitor
  \/ \E m \in Models : Child(m)

\* Every HTTP thread and the monitor are scheduled; a generation ends.  A child
\* that was started gets ready or dies.  One that was told to exit may hang:
\* only the monitor's deadline ends it.
Fairness ==
  /\ \A t \in Calls : WF_vars(Request(t) \/ Load(t) \/ Admin(t))
  /\ WF_vars(Monitor)
  /\ \A m \in Models : WF_vars(ChildReady(m)) /\ WF_vars(ChildWakes(m))

Spec == Init /\ [][Next]_vars
FairSpec == Spec /\ Fairness

\* No reload begins while another one is under way; nothing in the code sees to
\* it.  Any number of them may follow one another.
ReloadsApart ==
  [][\A t \in Calls : pc[t] = "reload" /\ pc'[t] # "reload" => Reloading = {}]_vars

-----------------------------------------------------------------------------
(* Properties                                                               *)

\* The processes of the router never exceed the limit and no model has two,
\* however loads, evictions, crashes and reloads overlap: load() checks the
\* limit again under the lock, an entry counts until its child was reaped.
Pool == INSTANCE ModelPool WITH live <- {m \in Models : child[m] # "none"}

ImplementsPool == Pool!Spec

\* The registry and the operating system agree: a model counts as running
\* exactly while it has a process, so that every child is stopped at the end
\* and no request waits for a process that is gone.
RegistryMatches ==
  \A m \in Models : status[m] \in Running <=> child[m] # "none"

\* "block until any in-progress reload has finished": load() does not pass its
\* wait, and so starts no model, while a reload is under way (is_reloading).
LoadsWaitForReloads ==
  [][\A t \in Calls : pc[t] = "spawn" /\ pc'[t] # "spawn" => Reloading = {}]_vars

\* An entry of the queue counts the requests that wait for its model, no model
\* has two entries, and at most one thread carries out the load of an entry.
QueueCounts ==
  LET waiting(m) == {t \in Calls : queued[t] /\ Target[t] = m}
      loading(m) == {t \in waiting(m) : pc[t] # "wait"}
  IN  \A m \in Models :
        /\ Cardinality(Find(queue, m)) = IF waiting(m) = {} THEN 0 ELSE 1
        /\ Cardinality(loading(m)) <= 1
        /\ \A i \in Find(queue, m) :
             /\ queue[i].n_waiters = Cardinality(waiting(m))
             /\ loading(m) # {} => queue[i].loading

\* A request whose conversation was stopped while it waited for its model never
\* reaches a child.
CancelledNeverForwarded ==
  \A t \in cancelled : pc[t] \notin {"proxy", "count", "proxied"}

\* A model that was asked to stop counts as running until its exit is recorded
\* (server-models.h:133).
StoppingRuns == stopping_models \subseteq RunningModels(status)

\* A model that was asked to stop goes down: the command reaches the monitor
\* after the one that makes it watch the child, and a child that ignores it is
\* killed.  Unless the mark of an earlier stop was left behind.
StoppedModelEnds ==
  []StoppingRuns => \A m \in Models : m \in stopping_models ~> child[m] = "none"

\* An entry that is being loaded has somebody who loads it or waits for its load.
ClaimHeld ==
  \A i \in DOMAIN queue : queue[i].loading =>
    \E t \in Calls : /\ queued[t] /\ Target[t] = queue[i].model
                     /\ pc[t] # "wait" \/ did_load[t] \/ saw_loading[t]

\* Whoever queues for a model leaves the queue, with the model up or with an
\* error: the calls of a behaviour are finitely many, so the queue empties.
\* Unless a mark of a stop or a claim was left behind.
QueueEmpties ==
  [](StoppingRuns /\ ClaimHeld) => (queue # <<>> ~> queue = <<>>)
=============================================================================
