# TLA+ models of the CIRU runtime

The repository is a llama.cpp derivative that serves one model family (Qwen3.8 Flash)
on AMD Strix Halo: a C++ server (`tools/server`), the inference library (`src`), shared
helpers (`common`) and the ggml tensor library. Paths below are relative to the
repository's root. This directory models the part of it whose correctness depends on the
order of events: how requests travel through the router, the server's threads and the slots, and
how the memory of the model stays consistent under batches, drafts and the caches built on top of it.

Contents: [inventory](#inventory) - [modules](#modules) - [runs](#runs) -
[fairness](#fairness) - [proofs](#proofs) - [disagreements found](#disagreements-found) -
[not modelled](#what-is-not-modelled) - [plan](#plan) - [how to run](#how-to-run)

## Inventory

How the parts interact. HTTP threads (a pool of the vendored cpp-httplib) parse a
request, register the ids of its tasks with the **response queue**, and post the tasks
to the **task queue**. One thread, in `start_loop()`, pops tasks and hands them to the
**slot scheduler** (`process_single_task`), then calls `update_slots()`, which fills a
batch from the slots, calls `llama_decode()` and sends results. While it waits for the
device it lends the queue to a **worker** thread (`yield_to_queue`), which answers
requests for metrics and slot information only. Results travel back through the response queue; an HTTP thread may
copy them to a **resumable stream**, from which other HTTP threads replay them.
`llama_decode()` places each micro-batch in the **memory**: the KV cells of attention
and of the indexer, the recurrent states, and the cache of pooled indexer keys (the
**QSA prefix**). Started without a model the same program is a **router**: it runs one child server per model,
within a limit, and forwards requests to the children.

| Component | State it keeps | Operations | What is hard | What makes it correct |
|---|---|---|---|---|
| Server task queue (`server-queue.{h,cpp}`) | three deques, the flags `running`, `sleeping`, `req_stop_sleeping`, the flags of the worker | `post`, `defer`, `pop_deferred_task`, `yield_to_queue`, `start_loop`, `terminate`, `wait_until_no_sleep` | two threads and the clients on one mutex and two condition variables; a popped task is in no deque | no task is lost or handled twice, requests keep their order, one thread at a time runs the callback, everybody is woken |
| Slot scheduler (`server-context.cpp`) | slots with a state, a task and a prompt; the deferred queue | select, launch (with children), cancel, slot actions, release, update | a request needs several slots at once; one may fail half-way; cancellation overtakes | every request ends, in a slot or with an error; nobody waits for a parent that is gone; a slot keeps its own prompt while it runs |
| Server prompt cache (`server-task.cpp`) | saved prompts with their state | save, load, drop the oldest | what is saved and what the slot holds must not both be lost | a prompt is in its slot or in the cache; limits hold |
| Response queue and reader (`server-queue.cpp`) | ids waited for, results, readers | `send`, `recv_with_timeout`, `next`, `stop` | stopping takes three critical sections | results reach their reader in order; none stays behind |
| Resumable streams (`server-stream.cpp`) | sessions by conversation, each with a ring buffer and an end | `append`, `read_from`, `create_or_replace`, `evict`, `evict_and_cancel`, garbage collection, `on_complete` | the socket, the ring and the generation end at different times, by different threads | one live session per conversation, no gap in a replay, nothing generated is lost, everybody leaves |
| Hybrid indexer memory, QSA prefix (`llama-memory-hybrid-idx.cpp`, `qsa-prefix-state.h`) | mirror of the cells, number of ready blocks, pooled keys | memory edits, apply, recover, fill updates, commit | incremental cache over cells that any call may change; failed batches | the cache is invisible: the same keys are scored as without it |
| Recurrent state memory (`llama-memory-recurrent.cpp`) | cells with tails, source cells, rollback snapshots | `seq_*`, `find_slot`, `s_copy`, state read/write | partial rollback through snapshots that a later batch consumes | a sequence reads the state of its own last position |
| Attention KV cache (`llama-kv-cache.cpp`, `llama-kv-cells.h`) | cells with positions and sequence sets, heads, streams | `seq_*`, `find_slot`, `apply_ubatch`, copies between streams | bookkeeping in both directions | counts, positions and sets agree; a slot never takes a cell in use |
| Batch splitting (`llama-batch.cpp`) | the batch under construction | simple, equal and per-sequence splits | coupled sequences, remainders | every token is in exactly one micro-batch, in order |
| Decode and graphs (`llama-context.cpp`, `models/qwen4exp.cpp`) | scheduler, outputs, adapters | `decode`, `process_ubatch` | a batch fails between memory and graph | memory is rolled back to what was computed |
| Speculative decoding, MTP cost policy (`common/speculative.cpp`, `mtp_cost_policy.h`) | drafts, acceptance statistics | draft, verify, accept, roll back | several drafters, a rollback bounded by the snapshots | accepted tokens are those of plain decoding |
| N-gram drafters (`common/ngram-*.cpp`) | hash maps of token runs | begin, draft, accept | stale entries after a rollback | drafts refer to positions that exist |
| Router (`server-models.{h,cpp}`) | the registry of models, the queue for a slot, the set of models asked to stop, the monitor's commands and deadlines, the children | wait for a model, load, evict, unload, remove, reload, stop a conversation, shut down; the monitor reads, stops and reaps children | loads, evictions, exits and reloads overlap in many small critical sections; children crash or hang | one process per model and at most the limit, registry and processes agree, no request waits for a process that is gone, what was stopped goes down |
| Lazy weight reader (`llama-lazy-reader.h`) | queue of reads, workers | gather | exceptions in workers, shutdown | every wait ends with data or an error |
| Sampling, grammars, reasoning budget | sampler chains, automata | accept, apply | accept after a rollback | mostly numerical |
| MCP and tools, HTTP layer, tokenizer and chat parsers, GGUF and loading, ggml, command-line tools and UI | - | - | I/O, parsing, numerics | outside this project |

Some facts that follow from the distribution. The prefix cache is compiled in only for the HIP build and enabled
by `CIRU_QSA_CACHE`; it needs a unified KV cache or one stream and a model without a
sliding window. `seq_add` and `seq_div` are rejected for this architecture.

## Modules

| Module | Models | Uses |
|---|---|---|
| `TaskQueues` | the deque operations of `server_queue` | - |
| `ServerQueue` | the threads of `server_queue` | `TaskQueues` |
| `SlotScheduler` | `server_context` putting tasks on slots, with the prompt cache and the readers | `TaskQueues` |
| `ResumableStream` | sessions, rings, producers, readers, DELETE, shutdown; the response queue; the streaming branch of the completion handler | - |
| `IndexerMemory` | the indexer's memory without a cache: the abstract specification `PlainSpec` | - |
| `QsaPrefix` | the same memory with the incremental cache; refines `PlainSpec` | `IndexerMemory` |
| `SequenceStates` | what a memory of recurrent states promises: the abstract specification | - |
| `RecurrentMemory` | cells, tails, state rows and rollback snapshots; splitting a batch into micro-batches; refines `SequenceStates` | `SequenceStates` |
| `ModelPool` | one process per model, at most the limit: the abstract specification | - |
| `ServerModels` | the router with its HTTP threads, its monitor and its children; refines `ModelPool` | `ModelPool` |
| `MC*` | instances for TLC | their module |
| `TaskQueues_proofs`, `ServerQueue_proofs`, `SlotScheduler_proofs`, `QsaPrefix_proofs`, `ServerModels_proofs`, `RouterQueue_proofs`, `ResumableStream_proofs`, `RecurrentMemory_proofs` | theorems | their module, `TLAPS` |

**ServerQueue.** One action per critical section of `mutex_tasks`, for three kinds of
thread: the main thread, the worker and the clients. `pc[t]` says between which two
critical sections a thread is, `hand[t]` the task it has popped and not finished: in the
code that task is a local variable of `process_new_tasks()`, in no deque. A condition
variable is the set of threads blocked on it (`waiters` for `condition_tasks`;
`cv_waiting` for `worker.cv`, which has one waiter); `notify_one` removes any one of them,
and a thread that was woken evaluates its predicate again. `yield_to_queue` is
`BeginYield` (raise `busy` and `yielding`), `NotifyWorker`, `EndWork` (the device is
ready) and `YieldWake`; `worker_loop` is `WorkerTop` to `WorkerNotify`, with the callback
taking a task (`WorkerHandle`), throwing (`WorkerThrow`) or declining it
(`WorkerDecline`, then `WorkerSetAside` in the next critical section). An inference
client passes `wait_until_no_sleep` before it posts; a metrics client bypasses it.
`posted` and `offered` are history variables.

**SlotScheduler.** The main thread pops a task in one action and handles it in another,
because a client can cancel in between. `CandidateSlots`, `CacheUpdates` and
`AfterCacheUpdate` are `get_available_slot()`: selection by similarity, by id or least recently
used, and the exchange of the slot's prompt with the prompt cache, which happens *during
selection*. Prompts are abstracted to the conversation they belong to. `ProcessDeferred`,
`ProcessLaunch` and `ProcessLaunchFails` are the outcomes of a completion with or without
children; `Release` is `server_slot::release()` with its `pop_deferred_task`. Each release takes the queue's
mutex anew, so the loops that release several slots release one per action and a client may act in
between: `UndoLaunch` (`release_slots` after a failed launch) and `AbortSlot` (after `BatchFails`).
`PromptDone`, `SlotFinishes`, `SlotFails`, `BatchFails` and `PurgeIdleSlot` are the ends
of a slot's work in `update_slots()`, visited slot by slot with `cursor`. `Post`, `Finish`
and `Stop` are the HTTP side. Yields are left out: while one lasts every task of this
module is declined and put back in order, which is what `ServerQueue` establishes.

**ResumableStream.** POSTs of one conversation (`Requests`), GETs (`Readers`), DELETEs
(`Deleters`) and the thread that shuts down (`Main`). A critical section of the map's
mutex, of a session's mutex or of `mutex_results` is one action. A byte is its number in
the stream, so a gap or a repetition in a replay shows. `next_orig()` is `NextStopped`,
`NextFlush`, `NextDone` and `NextResult`, and `Tee` writes its chunk into the ring; the
socket is `Send`, which may fail, and `Dropped`; `on_complete()` drains
(`draining`), evicts (`EvictCurrent`, by conversation id, as the code does) or does
nothing; `StopRemove` and `StopCancel` are the critical sections of `stop()`; `Finalize`
is the producer's destructor. What the slots do for a task is the variable `generation`
with `Emit` and `HandleCancel`; module `SlotScheduler` has the detail. When exactly a
client left is not a variable: it stays away, so only the moment somebody notices
matters. The results of all tasks are one vector in the code, searched for the first one
of a task; here each task has its sequence. `cut` records that another thread than the producer ended a session.

**IndexerMemory and QsaPrefix.** `raw` is the cells with positions, sequences and keys; a
key is abstracted to the token it was computed from, and a pooled key to the tokens at
the positions of its block. `IndexerMemory` gives the memory as a caller may think of it:
`read` is what a sparse decode scores, pooled anew from the cells each time. `QsaPrefix`
adds what the code has: the mirror (`prefix`), the flag that asks for a recovery, the
number of `ready` blocks and the keys of the buffer (`key`). `Decode` is one
micro-batch: placing it, `qsa_apply`, and one of the three cases *no scoring*, *scoring
without the cache*, *bring the cache up to date and score it*. `DecodeFails` has the
failures before and after `qsa_commit()`, with keys written or not, the removal of the
failed micro-batch (which the recurrent memory may refuse) and, if `ClearsAfterError`,
the clearing that the server does. `QsaPrefix` EXTENDS the abstract module and shares
`raw` and `read` with it, so the refinement mapping is the identity and the refinement is
`ReadsAsPlain == PlainSpec`.

**SequenceStates and RecurrentMemory.** Abstractly a sequence *has the state of* some number
of its tokens, grows, is rewound, copied, written out and read back. The code keeps a row
of tensors per cell, and in further planes the rows of one, two, ... tokens earlier. A row
is abstracted to the set of pairs `<<s, n>>` it is the state of: after the first `n` tokens
of sequence `s`. What a decode reads and writes is then visible: it continues a sequence from
the row that `s_copy()` names (`SCopy`, with `rs_idx` and the source cell), and a sequence
whose row lacks its pair has *lost* its state, although the code reports no error.
`FindSlot` is `find_slot()` with its order: each sequence in turn gets a cell, a shared one being left to the
others (`Search`, `TakeCell`); the cells are made contiguous (`Gather`, `Swap`); the first fresh cell is zeroed
(`Zeroed`). The loops are recursive functions from the steps made to the memory then.
`Computed` is what the graph does to the rows (`build_rs()`): states and
snapshots of the micro-batch, and copies of the moved bystanders, whose snapshots are *not*
copied. `batch` is the order of the sequences in the batch, `left` what is still to be decoded of each. `NextUbatch` is `split_equal()` with the rule that keeps the last tokens of a sequence
together. The actions are the server's calls: `StartDecode` (generating slots with drafts, then
prompts), `DecodeUbatch`, `Accept` and `Reject` of a draft, `Clear`, `CopyState` to a child,
`Write` and `Read` of a state. Once the batch is decoded, drafts are settled before anything else, as
`post_decode()` does. The refinement mapping of `ImplementsStates` takes `known[s]` to the tokens of
`s` if its row has them, and to *lost* otherwise, which no step of `SequenceStates` allows.

**ModelPool and ServerModels.** One action per critical section of `server_models::mutex`;
`pc[t]` says where the HTTP thread `t` is between two of them. A request is `Remember` (its
conversation), `EnsureSkips`, `EnsureLoads` or `EnsureQueues` (`ensure_model_ready()`), the wait
for a slot (`WaitEnds`, `WaitThrows`, `WaitSeesLoading`, `WaitClaims`, `AfterLoad`), the test that
its conversation was not stopped (`CheckAlive`), and forwarding with a count
(`ReadMeta`, `Count`, `Cleanup`). `load()` is `LoadCall`, `UnloadLru`, `UnloadVictim`,
`VictimUnloaded` and one of `SpawnUnneeded`, `SpawnFails`, `Spawn`: eviction and start are separate
critical sections. `UnloadCall`, `RemoveCall`, `ReloadCall`, `UnloadAll` and `CancelResolves` start the other
calls; a reload that has nothing to unload keeps the lock and is `ReloadAtOnce`. The monitor's inbox is `cmds`; `HandleWatch`, `HandleStop`, `ReadLine`, `DeadlineKill`,
`ChildReaped` and `ExitRecorded` are its thread, the last two being the two critical sections in which an exit is
recorded. A child starts, reports its state in `lines`, which the monitor reads later, sleeps when
idle, and crashes, exits or hangs. `Tick` is the state change event that makes
the router look at the queue and evict for the first entry. `connected` and `cancelled` are history variables;
`ModelPool` has one variable, the models that have a process, and the mapping is
`{m : child[m] # "none"}`.

Definitions whose comment begins with "Fault" are variants with a plausible bug. No
specification uses them. Each stands next to the definition it is a variant of, and
putting it in that definition's place must make a property of the run fail.

## Runs

Counts are distinct states, times are with two workers.

| Run | Instance | Checks | Size |
|---|---|---|---|
| `queue_safety` | 2 inference clients, 1 metrics client, sleeping enabled, 1 yield per update; symmetry | `TypeOK` `TaskConservation` `FifoOrder` `CallbackExclusion` `YieldLeavesNothing` | 2,995,579, 37 s |
| `queue_liveness` | 1 + 1 clients | `YieldReturns` `TerminateStops` `PostedIsOffered` | 100,956 |
| `queue_sleep_race` | 1 inference client, no yield | `PostedWakesUp`, violated | 894 |
| `slots` | a completion, a completion with a child and another conversation, an erase of slot 1; 2 slots; failures, cancellations, unified KV | `TypeOK` `RequestConservation` `NoStrandedChild` `ChildrenHoldSlots` `OwnPrompt` `EveryRequestEnds` | 858,999, 142 s |
| `slots_cancel_race` | three completions, one with a child, one naming slot 1; cancellations | `CancelIsFinal`, violated | depth 11 |
| `slots_busy_prompt` | a completion and two that name slot 1 | `OwnPrompt`, violated | small |
| `qsa_prefix` | 3 cells, blocks of 1, 2 sequences, batches of 1-2, images, gaps, removals of tails and of the middle, failures, recurrent refusals | `TypeOK` `Mirror` `KeysFresh` `ReadsAsPlain` | 54,777, 99 s |
| `stream` | ring of 2 bytes; a stream with a reader and a DELETE, with a reader and a shutdown, and two of one conversation with a DELETE | `TypeOK` `OneLiveSession` `ReplayFaithful` `BufferedFirst` `DisconnectLosesNothing` `NoStaleResults` `CancelUnwinds` `ReadersLeave` | 457,380, 110 s |
| `router` | 2 models, limit 1; nine settings of up to three calls, with crashes, a failed spawn, sleeping children and clients that leave | `TypeOK` `RegistryMatches` `QueueCounts` `CancelledNeverForwarded` `ImplementsPool` `LoadsWaitForReloads` `StoppedModelEnds` `QueueEmpties` | 245,834, 200 s |
| `router_stale_stop` | the same, without fairness | `StoppingRuns`, violated | small |
| `memory` | up to 3 cells and sequences of up to 6 tokens, prompts of up to 2 per batch, 0 to 2 snapshots; seven settings | `TypeOK` `TailsAgree` `RollbackAccepted` `SnapshotsValid` `ImplementsStates` | 627,193, 125 s |
| `memory_snapshots` | three slots that draft, batches that are split | `SnapshotsValid`, violated | depth 7 |

Why the bounds are enough for the cases that matter:

- *Queue.* Two inference tasks are needed to see an order, a metrics task to see
  something overtake and to see the worker take a task, and one yield per update (any
  number over a behaviour) to see every interleaving of a yield with the clients, with
  sleep and with termination. The liveness run has one client of each kind, since each
  property is about one thread or one task.
- *Slots.* Two slots and a request that needs both, one that needs one, and a slot action on a
  named slot produce every reason to defer and every order of release; the child task makes a launch that fails
  half-way. `slots_cancel_race` and `slots_busy_prompt` have a third completion that names a slot instead.
- *QSA.* Three cells in blocks of one position make each cell a block: every removal,
  copy and recovery touches whole blocks, and two sequences compete for them. Batches of two
  tokens with gaps touch more blocks than a fast batch prepares. Edges inside a larger block
  (a batch that begins or ends in one, a tail cut in a ready one) are left to the proofs, where block size, cells and
  sequences are arbitrary: blocks of two positions with two sequences need six cells and are out of TLC's reach here.
- *Streams.* A ring of two bytes is filled by one final result and overrun by the next
  chunk; a first result can be partial, final or an error; a reader may start inside,
  at or behind what was dropped. Two requests of a conversation are needed to
  replace a session, a DELETE to race the replacement. Which threads act in one
  behaviour is the bound `Parties`.
- *Router.* With two models and one slot every load is an eviction or a wait, and three
  requests of two models make one wait behind another's load. The calls that occur together are
  the bound `Parties`, each chosen for a race: two streams of one conversation and a stop; two requests
  and an unload, a remove or a reload of a model they use; a request and two reloads, one after the other; a
  request, a load and the shutdown. A reload finds a model gone, or one changed and the other gone: the model that a
  load must not start meanwhile is the one that is gone and was not running. No reload begins
  during another one: the fault `overlap`, which lets it, is in no setting of the run (see below). A
  child has at most one unread line (`MaxLines`). Any number of models, calls and lines in the proofs.
- *Memory.* Two sequences are the fewest that share or exchange cells, three the fewest where one
  that is not in a micro-batch is moved by it. Two snapshots allow a partial and a full
  rollback. Where three slots draft, the settings (`MCMoves`) are those in which no cell moves while a draft is open;
  the remaining one is `memory_snapshots`, which fails.

What the less obvious properties say:

- `TaskConservation`: a task is in one deque or one thread's hand at a time, never both
  held and finished, and not dropped while its client waits. `FifoOrder`: inference
  requests that have not been offered to the callback for good are offered in the order
  they were posted, however often a yield has set them aside. `YieldLeavesNothing`: after a yield no
  declined task, no pending exception and no busy worker is left.
- `RequestConservation`: a request somebody waits for is queued, on a slot or ended, and
  only one of these. `NoStrandedChild`, `ChildrenHoldSlots`: a launch with children is
  all or nothing while the client waits. `OwnPrompt`: a generating slot holds its own
  request's prompt; it holds when only slot actions name a slot (`slots`) and
  fails when a completion names a busy slot (`slots_busy_prompt`). `EveryRequestEnds`: as long as no
  slot action is deferred, every request somebody waits for ends, whatever is cancelled, fails or is
  aborted. The condition is not for convenience: a release moves *one* deferred task to the queue, and a
  slot action takes no slot, so nothing is released after it and the completion behind it stays (see below).
- `Mirror`, `KeysFresh`, `ReadsAsPlain`: a valid mirror is exact, keys that count as
  ready are those of the cells, and a caller cannot tell the cache from no cache.
- `OneLiveSession`: a session that is still fed and not cancelled is reachable through
  the map, or the thread that took it out is about to end it. `DisconnectLosesNothing`: a
  stream nobody stopped ends with everything that was generated in its ring, whenever the
  client left. `NoStaleResults`: a result in the queue has a reader that waits for it or
  is about to remove it. `CancelUnwinds`: from the first result on a cancelled request and its generation
  end, and so do those of a client that leaves while it waits for the first result.
- `ImplementsPool`, `RegistryMatches`: one process per model, never more than the limit, and the
  registry agrees, although making room and starting are separate critical sections. `QueueCounts`:
  a model has one entry in the queue for a slot, which counts its waiters, and at most one of them loads it.
  `CancelledNeverForwarded`: a request whose conversation was stopped while it waited is not
  sent to a child. `StoppedModelEnds`: a model that was asked to stop loses its process, even if the
  child ignores the command. `QueueEmpties`: nobody waits for a slot for ever. The two liveness
  properties hold as long as no mark of a stop (`StoppingRuns`) and no claim of an entry
  (`ClaimHeld`) is left behind; the code can leave either. `LoadsWaitForReloads`: nothing is started while a
  reload is between its first critical section and its last.
- `ImplementsStates`: every sequence has the state of its own tokens, between any two
  micro-batches. `TailsAgree`: a sequence is in the cell its tail names and in no other.
  `RollbackAccepted`: the server never asks for a rollback that is refused, which would end the
  process. `SnapshotsValid`: the snapshots of an open draft hold what they stand for.

## Fairness

- *Queue.* Weak fairness per thread: the operating system schedules a thread that can
  run. A timed wait ends by itself, so its wake-up is always enabled. A client is not obliged to
  cancel, and nothing obliges a termination. Threads are enabled only when not blocked:
  no fairness hides a lost notification, and the sleep race is found because of it.
- *Slots.* Weak fairness for the main thread as one thread, and for each HTTP thread's handling of
  its result. Generation ends: each pass over a generating slot finishes it. Nobody is obliged to post or to leave.
- *Streams.* Weak fairness per HTTP thread, whose waits poll (200 ms in `read_from`, one
  second in `recv_with_timeout`), and for the handling of a posted CANCEL task. No
  fairness for the generation: `CancelUnwinds` needs none, and `ReadersLeave` starts when it has ended.
- *Router.* Weak fairness per HTTP thread, whose waits poll or are notified under the lock, and for the
  monitor as one thread. A child that was started gets ready or dies, and one with a request wakes up
  (`ChildReady`, `ChildWakes`). No fairness for a child that was told to exit: it may hang, and only the
  monitor's deadline ends it. Crashes and disconnects never have to happen.
- *Memory.* One thread; safety only.

## Proofs

`ServerQueue_proofs` (with `TaskQueues_proofs`), from `ThreadsAssumption` and
`BoundsAssumption` only, for any set of clients and any number of yields:

- `TypeCorrect`: `Spec => []TypeOK`. `TypeOK` includes that a thread has a task in hand exactly
  in the callback or about to set it aside.
- `ExclusionCorrect`: `Spec => []CallbackExclusion`, and `YieldCorrect`:
  `Spec => []YieldLeavesNothing`.
- `ConservationCorrect`: `Spec => []TaskConservation`, and `FifoCorrect`: `Spec => []FifoOrder`.

`CallbackExclusion` is not inductive: that the worker is in its callback only while the
main thread yields depends on how `busy`, `yielding`, `stop` and the two program counters
go together (the worker works only while `busy`; `busy` is raised only by `BeginYield` and lowered only
by the worker; the main thread leaves a yield only when it is down). The inductive
invariant `IInv` is `TypeOK` and this protocol, and it has one step per action.

The order of the tasks has an invariant of its own, `TaskInv`. `Pending` concatenates two
deques, two hands and the deferred tasks; the proof reads it as one line, of which only two things count: who is in it
(`Range`) and who stands before whom (`Before`). `PendingIsLine` says what both are
from the five parts, and the lemmas on the deque operations (`TaskQueues_proofs`) say what a
pop, a put-back, a deferral or a cancellation does to them. Neither property is
inductive. *Origins*: a task in the line or finished was made by the client it names, when that client posted
or cancelled, so what is pushed is not there yet. *FirstCome*: tasks never offered stand in the order of `posted`,
and every deferred task has been offered, so a deferred task that moves to the front overtakes nobody.

`SlotScheduler_proofs` (with `TaskQueues_proofs`), from `SlotsAssumption` and `RequestsAssumption`, for any
number of slots, any requests with any number of children, and every setting of the three flags:

- `TypeCorrect`: `Spec => []TypeOK`.
- `RequestsAreKept` (`RequestConservation`), `NoChildIsStranded` (`NoStrandedChild`) and `ChildrenAreHeld`
  (`ChildrenHoldSlots`).
- `OwnPromptCorrect` (`OwnPrompt`), assuming that no completion names a slot: one that does may be given a
  busy slot and exchange its prompt, which the run `slots_busy_prompt` shows.

The inductive invariant `SlotInv` is `TypeOK` and two halves. `QueueInv` is about the deques and the task in hand:
who made a task (*Origins*), and that the task of a request is in one of them and once (*Lines*), read through
`Range` and `Before` as for the queue; a resumed, deferred or cancelled task then changes sets of requests
only (`Requeued`). `Board` relates the slots to these sets: a task is on one slot, a parent works and a
child waits (*SlotTasks*); of a request that is still to be placed nothing is on a slot or has ended, and a launch that is
being undone has left children only (*Places*); what somebody waits for is not lost (*Kept*). None of the
properties is inductive alone: that a launch does not put a second copy on a slot follows from *Places*, and
that an undone launch strands nobody's child from the error sent before. A lemma for each kind of step on the slots (`BoardStays`,
`BoardReleased`, `BoardLaunched`, `BoardPrompt`) carries `Board` over all actions of that kind. That a launch
finds a slot for every child rests on `Ranks`: the free slots, counted from the first, have each number up to
their count once. `RequestsAssumption` says that ids are handed out once, also those of children.

`QsaPrefix_proofs`, for any number of cells, any block size, any sequences, tokens and
inputs:

- `TypeCorrect` and `MirrorCorrect`: `Spec => []TypeOK`, `Spec => []Mirror`.
- `KeysFreshCorrect`: `Spec => []KeysFresh`, assuming `ClearsAfterError`.
- `CacheInvisible`: `Spec => ReadsAsPlain`, under the same assumption: the cache refines
  the memory without one. The initial states map to initial states and every step to a
  step of `PlainSpec` or a stutter.

The inductive invariant `CacheInv` says that the cells are typed, the keys are typed and
the cache is *sound* for the cells: if valid, it is an exact mirror and no recovery is
pending. `Mirror` alone is not inductive, as a pending recovery of a valid mirror would
rebuild it; and cutting or extending the list of cells keeps it exact only together with the inverse
array of positions. For each operation one lemma says that the result is sound for the
new cells (`CutExact`, `AppendExact`, `RecoverExact`, `ReapplyExact`, `RemovalSound`, `FailSound`), and the step
lemmas combine them. `KeysFresh` then needs that an operation which changes a cell of a
ready block lowers the count below it, for which the mirror must be exact. The assumption
is necessary: a caller that decodes on after an error can score keys that were never computed (below).

`ServerModels_proofs`, from `ModelsAssumption`, for any number of models, calls and unread lines and any limit. The first
three hold of the behaviours with `ReloadsApart`: there are any number of reloads, and none begins while another one is
between its first critical section and its last. The code does not see to that, and without it each of the three
fails, as described under the disagreements.

- `RegistryIsRight`: `Spec /\ ReloadsApart => []RegistryMatches`.
- `RouterImplementsPool`: `Spec /\ ReloadsApart => ImplementsPool`: the initial states map to the empty pool, and every
  step to a start within the limit, an end, or a stutter.
- `LoadsWait`: `Spec /\ ReloadsApart => LoadsWaitForReloads`.
- `StoppedIsNotForwarded`: `Spec => []CancelledNeverForwarded`, whatever reloads do.

The inductive invariant `IInv` has two halves. *Processes*: with `RegistryMatches`, that a model without a
process has no unread lines (otherwise reading one would revive it in the registry) and that the child whose exit
is being recorded is dead and read to its end. *Reloads*: a reload erases entries, so what it will erase must be
down or asked to stop, and no model is spawned in the meantime: `is_reloading` holds while a reload is under way
(`ReloadHolds`), for which there must be one at a time (`ReloadAlone`), as each clears the flag when it ends. The limit
needs `IInv` too: `HasSlot` counts models of the registry, the pool counts processes. `StoppedIsNotForwarded` has an
invariant of its own: a stopped request is not the one its conversation is registered with, and at every place before
`CheckAlive` or at the end.

`RouterQueue_proofs`, from `ModelsAssumption` only, with any number of reloads, overlapping or not:

- `TypeCorrect`: `Spec => []TypeOK`, with the bounds of the counters.
- `QueueIsRight`: `Spec => []QueueCounts`.

The counts are cardinalities of sets of HTTP threads, which is why `ModelsAssumption` says that `Models` and
`Calls` are finite. The invariant `QueueInv` says that no model has two entries, where a queued thread can be
(`QueuePlaces`), that the thread which set `loading` is the only one past the wait (`OneLoader`), and that an entry
exists exactly for a model somebody waits for, with the right count (`Accounts`). One lemma each for joining, leaving and
changing an entry says what becomes of all entries; the actions then only name who joined or left.

`ResumableStream_proofs`, from `ThreadsAssumption` and `SizesAssumption`, for any number of requests,
readers and DELETEs, any size of the ring and of the results:

- `TypeCorrect`: `Spec => []TypeOK`, with the bound on every ring.
- `SessionsAreReachable` (`OneLiveSession`), `ReplayIsFaithful` (`ReplayFaithful`), `RingComesFirst`
  (`BufferedFirst`), `DisconnectIsHarmless` (`DisconnectLosesNothing`) and `ResultsAreCollected`
  (`NoStaleResults`).

The inductive invariant has a part for each of them. *Targets*: a thread holds a session it took from the map only
where it is about to end it, which `OneLiveSession` needs to survive the next take. *Stages*: where a request is
says what its reader and its queue can hold; in particular a result that ends a stream is the last one of its task,
and its generation has ended. *Flow*: the ring is numbered from `dropped` on, the chunk on its way follows the ring, the
queued results follow the chunk without a gap up to `emitted` (`Chain`), and when the last chunk is out nothing
is left. *Wire*: the socket is behind the ring by the chunk in flight. A replay is faithful
because `read_from()` takes a tail of a numbered ring, and nothing is lost because each step moves bytes from one
part of the flow to the next one. The lemma `Walk` carries all of it over the steps of other threads,
which can change of a request's state only the flags of its session.

`RecurrentMemory_proofs`, from `SizeAssumption` and `SettingsAssumption`, for any number of cells, tokens and
snapshots, any prompts, every way to split a batch and any mix of the calls:

- `TypeCorrect`: `Spec => []TypeOK`, with the count of used cells and the sources of the cells.
- `TailsCorrect` (`TailsAgree`) and `RollbackCorrect` (`RollbackAccepted`).
- `StatesLostThroughSnapshots`: `Spec /\ []SnapshotsValid => ImplementsStates`. In every context the only way to lose a
  state is a snapshot that is not valid when a draft is taken back.
- `SnapshotsCorrect` (`SnapshotsValid`) and `StatesCorrect` (`ImplementsStates`), in the contexts of `SnapshotsStay`: without
  snapshots, with one sequence per micro-batch, with two slots at most, or with unified batches of equal parts. The
  settings of the run `memory` are of these kinds; the one of `memory_snapshots` is not, and there a snapshot is
  lost.

The calls need one lemma about `find_slot()`, `FindSlotResult`: given a memory in order it gives each sequence of the
micro-batch a cell to itself, side by side from the head on, and leaves the others their tokens. Its two loops have
invariants of their own. While cells are searched, cells and tails agree except for the sequences
that were just given a cell (`Placed`), and the cursor comes to a cell that is free before it comes to one that was given away
but says nothing yet (`Ahead`). A free cell exists since there are as many cells as sequences: if a sequence shares its cell,
or has none, one cell is over (`SomeCellIsFree`). So the assertions of the loop hold (`NextIsFree`). While cells are gathered,
a swap is a permutation, and puts one more sequence in its place (`InPlace`). A second count of the same kind finds
the cell to be zeroed (`SomeCellToZero`): if each cell of the range were the source of a state, all of them would have one.
The invariant `Inv` adds three facts to the properties. *Batch*: a sequence with tokens left is in the
batch, once. *Fits*: what a sequence has and what is left of it fit the context. *Drafts*: a
draft is either not decoded to the end, or it is in a cell that no other sequence shares and the rollback before it is
used up. `RollbackAccepted` is not inductive without the last: only a micro-batch of the sequence itself is
sure to reset its rollback index, and a copy to a child while drafts of others are open must not touch their cells. Both
rest on `TailsAgree`: `s_copy()` resets the index of the first sequence of a cell.

The refinement rests on `StateInv`: the row that a sequence goes on from, in the plane of its rollback index, holds its
state; a cell without sequences that is its own source holds the empty state; and only a sequence with a cell to itself has a
rollback pending, so that the one index that `s_copy()` reads is right for all the sequences of a cell. `FindSlotResult` says
for it from which cell each cell of the graph is read (`Sourced`): that of the same sequence before, never the one that is
zeroed. Every action keeps `StateInv` except `Reject`, which needs `SnapshotsValid` for the
row that it selects. `SnapInv` gives that: the last tokens of a sequence, all its draft among them, are in one
micro-batch, which writes all their snapshots (the code's reason to keep them together), and what is decoded later
does not have the cell in its range. The second half is where `SnapshotsStay` is needed: a micro-batch of one sequence has a range of
one cell, two slots leave no third to be decoded together, and a batch of equal parts is one micro-batch.

Model-checked only: liveness and ENABLED, out of the prover's reach (`EveryRequestEnds` of the slots among them). Every
invariant, action property and refinement that a passing run checks has a theorem.

## Disagreements found

Each has a run that shows it, and an entry in `PROJECT.json` with the lines.

1. `queue_sleep_race` - a task posted between `wait_until_no_sleep()` and the moment the
   loop falls asleep stays in the queue of a sleeping server: the wait for the end of
   sleep looks at no deque. The documentation says any request wakes the server.
2. `slots_cancel_race` - a CANCEL searches the deques when posted and the slots when
   handled; a target in the hands of the main thread is in neither, is deferred afterwards and runs for nobody.
3. `slots_busy_prompt` - selecting a slot that was named by id exchanges its prompt before
   it is found busy: the running request loses its prompt.
4. `router_stale_stop` - the exit of a child is recorded in two critical sections. A stop between them
   marks the model as stopping again; nothing removes the mark, and no later instance of the model can be evicted,
   unloaded or removed.
5. `memory_snapshots` - a later micro-batch of one decode may move the cell of a slot that has just verified a draft.
   Its state moves along and its rollback snapshots do not: taking the draft back then selects a row with
   another state.

Others met while modelling, in the models but without a run of their own:

- `on_complete()` of a request that failed before it streamed evicts by conversation id
  (`server-stream.cpp:639`) and so ends the session of a newer request of the same
  conversation; that generation then can neither be resumed nor be stopped by a DELETE.
- Until the first result the completion handler looks at the connection and not at its session
  (`server-context.cpp:4424`): a client that leaves during the prompt ends its generation although it asked for one it can
  resume, against `README-dev.md:135` ("only a `DELETE` stops generation"), and a DELETE during the prompt takes
  effect with the first result. That only a cancelled session ends a generation is refuted in eight steps, through
  `FirstGivesUp`, and holds without that action.
- A reader that falls behind the ring gets a response that ends as if complete.
- The comment at `server-stream.cpp:311` says a DELETE does not interrupt the generation.
  It does, as `README-dev.md` says: the producer unwinds and its reader posts a CANCEL
  (`CancelUnwinds`).
- `terminate()` before `start_loop()` is undone (`server-queue.cpp:279`, `server.cpp:491`).
- A thread in `wait_until_no_sleep()` that finds the queue asleep again does not ask again.
- A release moves one deferred task to the queue (`server-queue.cpp:90`); if that is a slot action, which takes no slot, the
  completion behind it stays deferred while every slot is idle, until some other request is released.
- Blocks of the QSA prefix count as cached before the graph has computed them (`llama-memory-hybrid-idx.cpp:1001`), so a
  caller that keeps the context after a failed decode (which `llama.h:990` allows) can score stale keys. The server clears
  the sequences and is not affected (`ClearsAfterError`).
- A graph that fails after `find_slot()` (`llama-context.cpp:1849`) leaves idle sequences whose cells were moved with rows
  that were not copied; the server clears only the slots that are processing (`server-context.cpp:3751`).
- Router: `is_reloading` is one flag for all reloads, and nothing keeps two `GET /models?reload=1` apart. While a reload
  waits for the models it has stopped, a second one that finds nothing to stop ends and clears the flag
  (`server-models.cpp:989`), and a load that should wait for the first goes on, against the comment at `:1118`. If its
  model is one that the first has found gone, and not running, the first erases the entry of a running child (`:907`).
  With `Parties <- MCOverlap`, `Sources <- MCSourcesOverlap` and `ModelsMax = 2`, `LoadsWaitForReloads` fails in a trace
  of nine states and `RegistryMatches` in one of 14; with `ModelsMax = 1` and a third request `ImplementsPool` fails too.
- Router: the victim of an eviction is chosen and unloaded in two critical sections, so a model that became busy in
  between is evicted, although `tests/unit/test_router.py:195` says that the model serving a request survives.
- Router: a stop that resolves a conversation while its model is loading forgets it after the request has passed its test:
  the generation runs and can no longer be stopped.
- Router: a claim stays on a queue entry when its load failed and another waiter joined meanwhile (`ClaimHeld`); a
  request whose spawn keeps failing retries for ever; `mapping[name]` creates entries of unknown models.
- A batch that was halved copies a parent's state to its children although the rest of
  the prompt has not been decoded (`server-context.cpp:3798`).

## What is not modelled

- In the modelled components: contents of batches, sampling, checkpoints, context shift, LoRA, control
  vectors (slots); size and token limits of the prompt cache; the age of sessions, SSE pings, the lookup
  route (streams); `broadcast` and `recv` without a timeout (response queue); several streams of
  KV cells, several layers, partial restores that leave the indexer alone and whole-context restores (QSA).
- Router: downloads, aliases, `autoload=false`, models loaded at startup, the details of proxying, the lookup and replay
  routes, events for clients, and the order in which idle models are evicted (any of them may be).
- Recurrent memory: sequences coupled in one token, `seq_keep`, `seq_add`, `seq_div`, the state of a whole context,
  `prepare()`, micro-batches limited by `n_ubatch`, decodes that fail, and drafts with more tokens than there are snapshots,
  which the server takes back through a checkpoint.
- KV cells on their own, the other batch splits, speculative decoding, the cost policy and the lazy reader: planned below.
- Tokenizer, templates, grammars, GGUF, ggml kernels and back ends, the user interface, conversion and
  benchmarks: pure I/O, parsing or numerics, or third-party code.

## Plan

Order: the path of a request first (queue, slots, streams), then the memory it runs on,
then the algorithms.

1. Done: `TaskQueues`, `ServerQueue`, `SlotScheduler`, `IndexerMemory`, `QsaPrefix`,
   `ResumableStream`; then `ServerModels` over `ModelPool` and `RecurrentMemory` over `SequenceStates`; the proofs above.
2. `KVCells`: cells and their inverse indexes; `seq_*`, `find_slot`, `apply_ubatch`. An
   invariant relates both directions; proved for every size.
3. `SlotBatch` with `SpecDecode`: filling a batch from the slots, halving, children,
   draft, verify and rollback, with failed decodes, on `RecurrentMemory`. Abstract specification: plain decoding.
4. Operators with reference definitions: the simple and per-sequence splits, `MtpCostPolicy`, the prompt
   cache's limits and eviction.
5. `LazyReader`: workers that throw, and shutdown.
6. Proofs: the invariants of the modules to come.

## How to run

    tlc -workers 2 -config queue_safety.cfg MCServerQueue.tla
    tlapm QsaPrefix_proofs.tla

`PROJECT.json` lists for every run its module and configuration, for every property the
fault that breaks it, for every definition the lines of the source it stands for, and the hazards of
the code the properties are aimed at. `CHECK_DEADLOCK FALSE` is set for the slots, the streams, the
router and `memory_snapshots`, where every call may have been answered and nothing is left to do; the queue, the QSA prefix
and the run `memory` are checked for deadlock.
