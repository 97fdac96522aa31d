-------------------------- MODULE ResumableStream --------------------------
(***************************************************************************)
(* Streaming completions that survive their connection                     *)
(* (tools/server/server-stream.cpp).  An HTTP thread receives the results  *)
(* of its task from server_response, writes each chunk into the ring       *)
(* buffer of a session and then to its socket; when the client is gone it  *)
(* goes on for the ring alone.  Other threads replay the ring from an      *)
(* offset (GET /v1/stream), stop the stream (DELETE /v1/stream) or replace *)
(* it by a newer one, and the garbage collector and the shutdown drop      *)
(* sessions.                                                               *)
(*                                                                         *)
(*   Requests  POSTs of one conversation, each with a task and a session   *)
(*             of its own; conversations share nothing but the map         *)
(*   Readers, Deleters   GETs and DELETEs of that conversation             *)
(*   Main      the thread in clean_up()                                    *)
(*                                                                         *)
(* A critical section of map_mu, of a session's mutex or of mutex_results  *)
(* is one action.  A byte of a stream is its number in it.  Waits poll     *)
(* (200 ms, 1 s), so a wait is an action that is enabled again and again.  *)
(* The results of all tasks are one vector in the code, searched for the   *)
(* first one of a task: here they are a sequence per task.                 *)
(* SSE pings, one more kind of chunk, are left out.                        *)
(***************************************************************************)
EXTENDS Integers, Sequences, FiniteSets, SequencesExt

CONSTANTS
  Requests, Readers, Deleters, Main,
  Cap,          \* STREAM_SESSION_MAX_BYTES
  ResultSize,   \* [{"partial", "final", "error"} -> Nat \ {0}]: bytes of a result's chunk
  MaxPartials,  \* bound: [Requests -> Nat], partial results of a task
  Offsets,      \* where a reader may start
  Parties       \* bound: the sets of threads that act in one behaviour

Threads == Requests \cup Readers \cup Deleters \cup {Main}
NoSession == "none"

ASSUME ThreadsAssumption ==
  /\ Requests \cap Readers = {} /\ Requests \cap Deleters = {} /\ Readers \cap Deleters = {}
  /\ Main \notin Requests \cup Readers \cup Deleters
  /\ NoSession \notin Requests
  /\ Parties \subseteq SUBSET Threads
ASSUME SizesAssumption ==
  /\ Cap \in Nat \ {0} /\ MaxPartials \in [Requests -> Nat] /\ Offsets \subseteq Nat
  /\ ResultSize \in [{"partial", "final", "error"} -> Nat \ {0}]

VARIABLES
  waiting,        \* waiting_task_ids
  queue_results,  \* [Requests -> Seq(Result)]
  generation,     \* [Requests -> Phases], what the slots do for the task
  emitted,        \* [Requests -> Nat], bytes of the stream so far
  partials,       \* [Requests -> Nat], partial results sent
  current,        \* sessions[conversation_id]
  session,        \* [Requests -> stream_session]
  rd,             \* [Requests -> [finished, cancelled]], server_response_reader
  pc, target,     \* where a thread is, and the session it has taken from the map
  resume,         \* [Requests -> label], where stop() returns to
  chunk, last,    \* what next_orig() returned: bytes, and that nothing follows
  streamed,       \* requests that got as far as set_next()
  draining,       \* requests in the loop of on_complete()
  sent,           \* [Requests -> Nat], bytes written to the client's socket
  offset, got     \* [Readers -> Nat], [Readers -> Seq(Nat)]

results == <<waiting, queue_results>>
slots == <<generation, emitted, partials>>
store == <<current, session>>
control == <<pc, target, resume>>
producer == <<rd, chunk, last, streamed, draining, sent>>
replay == <<offset, got>>
vars == <<results, slots, store, control, producer, replay>>

Phases == {"none", "running", "cancelling", "ended"}
Running(r) == generation[r] \in {"running", "cancelling"}
Session == [cancelled : BOOLEAN, done : BOOLEAN, cut : BOOLEAN,
            dropped : Nat, buffer : Seq(Nat)]
NewSession == [cancelled |-> FALSE, done |-> FALSE, cut |-> FALSE,
               dropped |-> 0, buffer |-> <<>>]
Result == [kind : {"partial", "final", "error"}, bytes : Seq(Nat)]
Total(s) == session[s].dropped + Len(session[s].buffer)

RequestPC == {"start", "replace_cancel", "replace_finalize", "post", "first", "next", "tee",
              "send", "complete", "evict_finalize", "stop_remove", "stop_cancel", "finalize",
              "done"}
ReaderPC == {"start", "check", "read", "not_found", "offset_lost", "lost", "ended"}
DeleterPC == {"start", "cancel", "finalize", "done"}
Labels == RequestPC \cup ReaderPC \cup DeleterPC \cup {"absent"}

TypeOK ==
  /\ waiting \subseteq Requests /\ queue_results \in [Requests -> Seq(Result)]
  /\ generation \in [Requests -> Phases]
  /\ emitted \in [Requests -> Nat] /\ partials \in [Requests -> Nat]
  /\ current \in Requests \cup {NoSession} /\ session \in [Requests -> Session]
  /\ \A s \in Requests : Len(session[s].buffer) <= Cap
  /\ rd \in [Requests -> [finished : BOOLEAN, cancelled : BOOLEAN]]
  /\ pc \in [Threads -> Labels] /\ target \in [Threads -> Requests \cup {NoSession}]
  /\ resume \in [Requests -> Labels]
  /\ chunk \in [Requests -> Seq(Nat)] /\ last \in [Requests -> BOOLEAN]
  /\ streamed \subseteq Requests /\ draining \subseteq streamed
  /\ sent \in [Requests -> Nat]
  /\ offset \in [Readers -> Nat] /\ got \in [Readers -> Seq(Nat)]

Init ==
  /\ waiting = {} /\ queue_results = [r \in Requests |-> <<>>]
  /\ generation = [r \in Requests |-> "none"]
  /\ emitted = [r \in Requests |-> 0] /\ partials = [r \in Requests |-> 0]
  /\ current = NoSession /\ session = [r \in Requests |-> NewSession]
  /\ rd = [r \in Requests |-> [finished |-> FALSE, cancelled |-> FALSE]]
  /\ \E party \in Parties : pc = [t \in Threads |-> IF t \in party THEN "start" ELSE "absent"]
  /\ target = [t \in Threads |-> NoSession]
  /\ resume = [r \in Requests |-> "finalize"]
  /\ chunk = [r \in Requests |-> <<>>] /\ last = [r \in Requests |-> FALSE]
  /\ streamed = {} /\ draining = {} /\ sent = [r \in Requests |-> 0]
  /\ offset = [g \in Readers |-> 0] /\ got = [g \in Readers |-> <<>>]

-----------------------------------------------------------------------------
(* stream_session *)

(* Fault: the dropped bytes are not counted when a chunk fills the whole ring. *)
AppendedUncounted(s, data) ==
  IF s.done \/ data = <<>> THEN s
  ELSE IF Len(data) >= Cap
  THEN [s EXCEPT !.dropped = @ + Len(data) - Cap,
                 !.buffer = SubSeq(data, Len(data) - Cap + 1, Len(data))]
  ELSE LET over == Len(s.buffer) + Len(data) - Cap
           drop == IF over > 0 THEN over ELSE 0
       IN  [s EXCEPT !.dropped = @ + drop,
                     !.buffer = SubSeq(@, drop + 1, Len(@)) \o data]

(* Fault: room is made for nothing but what is there already. *)
AppendedWithoutRoom(s, data) ==
  IF s.done \/ data = <<>> THEN s
  ELSE LET over == Len(s.buffer) - Cap
           drop == IF over > 0 THEN over ELSE 0
       IN  [s EXCEPT !.dropped = @ + drop,
                     !.buffer = SubSeq(@, drop + 1, Len(@)) \o data]

(* append(): a finished session refuses; a chunk as big as the ring leaves its   *)
(* tail; else the oldest bytes make room.                                        *)
Appended(s, data) ==
  IF s.done \/ data = <<>> THEN s
  ELSE IF Len(data) >= Cap
  THEN [s EXCEPT !.dropped = @ + Len(s.buffer) + Len(data) - Cap,
                 !.buffer = SubSeq(data, Len(data) - Cap + 1, Len(data))]
  ELSE LET over == Len(s.buffer) + Len(data) - Cap
           drop == IF over > 0 THEN over ELSE 0
       IN  [s EXCEPT !.dropped = @ + drop,
                     !.buffer = SubSeq(@, drop + 1, Len(@)) \o data]

Release(t) == target' = [target EXCEPT ![t] = NoSession]
Goto(t, label) == pc' = [pc EXCEPT ![t] = label]
CancelSession(s) == session' = [session EXCEPT ![s].cancelled = TRUE]

(* finalize() by another thread than the session's producer: the stream is cut. *)
CutSession(s) ==
  session' = [session EXCEPT ![s].cut = @ \/ ~session[s].done, ![s].done = TRUE]

(* A session is taken out of the map, if there is one. *)
TakeCurrent(t, found, missing) ==
  /\ target' = [target EXCEPT ![t] = current]
  /\ current' = NoSession
  /\ Goto(t, IF current = NoSession THEN missing ELSE found)

-----------------------------------------------------------------------------
(* server_response and the slots *)

(* Fault: what was sent before the reader gave up stays in the queue. *)
KeptResults(r) == queue_results
WithoutResults(r) == [queue_results EXCEPT ![r] = <<>>]

Bytes(r, n) == [i \in 1..n |-> emitted[r] + i]

(* send(): a result nobody waits for is dropped. *)
Emit(r, kind) ==
  /\ Running(r)
  /\ kind = "partial" => partials[r] < MaxPartials[r]
  /\ LET bytes == Bytes(r, ResultSize[kind]) IN
       /\ queue_results' = IF r \in waiting
                           THEN [queue_results EXCEPT ![r] =
                                   Append(@, [kind |-> kind, bytes |-> bytes])]
                           ELSE queue_results
       /\ emitted' = [emitted EXCEPT ![r] = @ + Len(bytes)]
  /\ partials' = [partials EXCEPT ![r] = IF kind = "partial" THEN @ + 1 ELSE @]
  /\ generation' = [generation EXCEPT ![r] = IF kind = "partial" THEN @ ELSE "ended"]
  /\ UNCHANGED <<waiting, store, control, producer, replay>>

(* The CANCEL task of r is handled (module SlotScheduler). *)
HandleCancel(r) ==
  /\ generation[r] = "cancelling"
  /\ generation' = [generation EXCEPT ![r] = "ended"]
  /\ UNCHANGED <<results, emitted, partials, store, control, producer, replay>>

(* Fault: the newest result is taken. *)
NewestFor(r) == Len(queue_results[r])
OldestFor(r) == 1

(* recv_with_timeout() finds a result. *)
Received(r) == queue_results[r][OldestFor(r)]
Receive(r) ==
  /\ queue_results[r] # <<>>
  /\ queue_results' = [queue_results EXCEPT ![r] = RemoveAt(@, OldestFor(r))]

-----------------------------------------------------------------------------
(* A POST with a conversation id: set_req() and post_tasks() *)

(* Fault: the previous session is forgotten. *)
ReplaceForgets(r) == target' = target /\ Goto(r, "post")
ReplaceCurrent(r) ==
  /\ target' = [target EXCEPT ![r] = current]
  /\ Goto(r, IF current = NoSession THEN "post" ELSE "replace_cancel")

CreateOrReplace(r) ==
  /\ pc[r] = "start"
  /\ ReplaceCurrent(r)
  /\ current' = r
  /\ UNCHANGED <<results, slots, session, resume, producer, replay>>

ReplaceCancel(r) ==
  /\ pc[r] = "replace_cancel"
  /\ CancelSession(target[r])
  /\ Goto(r, "replace_finalize")
  /\ UNCHANGED <<results, slots, current, target, resume, producer, replay>>

ReplaceFinalize(r) ==
  /\ pc[r] = "replace_finalize"
  /\ CutSession(target[r]) /\ Release(r)
  /\ Goto(r, "post")
  /\ UNCHANGED <<results, slots, current, resume, producer, replay>>

PostTask(r) ==
  /\ pc[r] = "post"
  /\ waiting' = waiting \cup {r}
  /\ generation' = [generation EXCEPT ![r] = "running"]
  /\ Goto(r, "first")
  /\ UNCHANGED <<queue_results, emitted, partials, store, target, resume, producer,
                 replay>>

(* The parameters are invalid: an exception before the tasks are posted. *)
Reject(r) ==
  /\ pc[r] = "post"
  /\ Goto(r, "complete")
  /\ UNCHANGED <<results, slots, store, target, resume, producer, replay>>

StopThen(r, label) == resume' = [resume EXCEPT ![r] = label] /\ Goto(r, "stop_remove")

(* The first result: an error is answered without a stream. *)
FirstResult(r) ==
  /\ pc[r] = "first"
  /\ Receive(r)
  /\ LET result == Received(r) IN
       IF result.kind = "error"
       THEN StopThen(r, "complete") /\ UNCHANGED <<rd, chunk, streamed>>
       ELSE /\ rd' = [rd EXCEPT ![r].finished = result.kind = "final"]
            /\ chunk' = [chunk EXCEPT ![r] = result.bytes]
            /\ streamed' = streamed \cup {r}
            /\ Goto(r, "next") /\ UNCHANGED resume
  /\ UNCHANGED <<waiting, slots, store, target, last, draining, sent, replay>>

(* After a timeout the client is found gone, before the first result was taken.  *)
(* A client that is gone stays away, and nobody looks again after having noticed:*)
(* when it left does not matter, so it is not a variable.                        *)
FirstGivesUp(r) ==
  /\ pc[r] = "first"
  /\ Goto(r, "complete")
  /\ UNCHANGED <<results, slots, store, target, resume, producer, replay>>

-----------------------------------------------------------------------------
(* next_orig(), called for the socket or by on_complete() *)

Hand(r, bytes, final) ==
  chunk' = [chunk EXCEPT ![r] = bytes] /\ last' = [last EXCEPT ![r] = final]

(* The stream was cancelled: at the start, or when a wait for a result times out. *)
NextStopped(r) ==
  /\ pc[r] = "next" /\ session[r].cancelled
  /\ Hand(r, <<>>, TRUE)
  /\ Goto(r, "tee")
  /\ UNCHANGED <<results, slots, store, target, resume, rd, streamed, draining, sent,
                 replay>>

(* The first chunk is still in res->data. *)
NextFlush(r) ==
  /\ pc[r] = "next" /\ chunk[r] # <<>>
  /\ Goto(r, "tee")
  /\ UNCHANGED <<results, slots, store, target, resume, producer, replay>>

NextDone(r) ==
  /\ pc[r] = "next" /\ chunk[r] = <<>> /\ rd[r].finished
  /\ Hand(r, Bytes(r, 1), TRUE)
  /\ emitted' = [emitted EXCEPT ![r] = @ + 1]
  /\ Goto(r, "tee")
  /\ UNCHANGED <<results, generation, partials, store, target, resume, rd, streamed,
                 draining, sent, replay>>

NextResult(r) ==
  /\ pc[r] = "next" /\ chunk[r] = <<>> /\ ~rd[r].finished
  /\ Receive(r)
  /\ LET result == Received(r) IN
       /\ Hand(r, result.bytes, result.kind = "error")
       /\ IF result.kind = "error" THEN StopThen(r, "tee") /\ UNCHANGED rd
          ELSE /\ rd' = [rd EXCEPT ![r].finished = result.kind = "final"]
               /\ Goto(r, "tee") /\ UNCHANGED resume
  /\ UNCHANGED <<waiting, slots, store, target, streamed, draining, sent, replay>>

(* The chunk goes to the ring before it goes to the socket. *)
Tee(r) ==
  /\ pc[r] = "tee"
  /\ session' = [session EXCEPT ![r] = Appended(@, chunk[r])]
  /\ IF r \notin draining
     THEN Goto(r, "send") /\ UNCHANGED <<chunk, resume>>
     ELSE /\ chunk' = [chunk EXCEPT ![r] = <<>>]
          /\ IF last[r] THEN StopThen(r, "finalize")
                        ELSE Goto(r, "next") /\ UNCHANGED resume
  /\ UNCHANGED <<results, slots, current, target, rd, last, streamed, draining, sent, replay>>

Sent(r) ==
  /\ sent' = [sent EXCEPT ![r] = @ + Len(chunk[r])]
  /\ UNCHANGED draining
SendFails(r) ==
  /\ chunk[r] # <<>>
  /\ draining' = IF last[r] THEN draining ELSE draining \cup {r}
  /\ UNCHANGED sent

(* sink.write(); on_complete() has nothing to do once the last chunk was handed. *)
Send(r) ==
  /\ pc[r] = "send"
  /\ Sent(r) \/ SendFails(r)
  /\ chunk' = [chunk EXCEPT ![r] = <<>>]
  /\ IF last[r] THEN StopThen(r, "finalize") ELSE Goto(r, "next") /\ UNCHANGED resume
  /\ UNCHANGED <<results, slots, store, target, rd, last, streamed, replay>>

(* Fault: the rest of the stream is not drained into the ring. *)
DropWithoutDrain(r) == StopThen(r, "finalize") /\ UNCHANGED draining

(* on_complete() of a stream that was cut off: drain it, unless it was cancelled. *)
DrainRest(r) == draining' = draining \cup {r} /\ UNCHANGED <<pc, resume>>

(* The socket is not writable: the next chunk is not asked for. *)
Dropped(r) ==
  /\ pc[r] = "next" /\ r \notin draining
  /\ DrainRest(r)
  /\ UNCHANGED <<results, slots, store, target, rd, chunk, last, streamed, sent, replay>>

-----------------------------------------------------------------------------
(* on_complete() without a stream, and the end of the response *)

EvictCurrent(r) ==
  /\ pc[r] = "complete"
  /\ IF current = NoSession
     THEN StopThen(r, "finalize") /\ UNCHANGED <<current, target>>
     ELSE TakeCurrent(r, "evict_finalize", "stop_remove") /\ UNCHANGED resume
  /\ UNCHANGED <<results, slots, session, producer, replay>>

EvictFinalize(r) ==
  /\ pc[r] = "evict_finalize"
  /\ CutSession(target[r]) /\ Release(r)
  /\ StopThen(r, "finalize")
  /\ UNCHANGED <<results, slots, current, producer, replay>>

(* server_response_reader::stop(), also from the destructor *)
StopRemove(r) ==
  /\ pc[r] = "stop_remove"
  /\ waiting' = waiting \ {r}
  /\ Goto(r, IF generation[r] = "none" \/ rd[r].finished \/ rd[r].cancelled
             THEN resume[r] ELSE "stop_cancel")
  /\ UNCHANGED <<queue_results, slots, store, target, resume, producer, replay>>

(* Fault: no CANCEL task is posted. *)
CancelForgotten(r) == generation
CancelPosted(r) == [generation EXCEPT ![r] = IF @ = "running" THEN "cancelling" ELSE @]

StopCancel(r) ==
  /\ pc[r] = "stop_cancel"
  /\ rd' = [rd EXCEPT ![r].cancelled = TRUE]
  /\ queue_results' = WithoutResults(r)
  /\ generation' = CancelPosted(r)
  /\ Goto(r, resume[r])
  /\ UNCHANGED <<waiting, emitted, partials, store, target, resume, chunk, last,
                 streamed, draining, sent, replay>>

(* Fault: the destructor leaves the session open. *)
FinalizeNothing(r) == UNCHANGED session
FinalizeOwn(r) == session' = [session EXCEPT ![r].done = TRUE]

(* ~stream_pipe_producer() *)
Finalize(r) ==
  /\ pc[r] = "finalize"
  /\ FinalizeOwn(r)
  /\ Goto(r, "done")
  /\ UNCHANGED <<results, slots, current, target, resume, producer, replay>>

-----------------------------------------------------------------------------
(* GET /v1/stream *)

Lookup(g) ==
  /\ pc[g] = "start"
  /\ target' = [target EXCEPT ![g] = current]
  /\ \E from \in Offsets : offset' = [offset EXCEPT ![g] = from]
  /\ Goto(g, IF current = NoSession THEN "not_found" ELSE "check")
  /\ UNCHANGED <<results, slots, store, resume, producer, got>>

CheckOffset(g) ==
  /\ pc[g] = "check"
  /\ Goto(g, IF offset[g] < session[target[g]].dropped THEN "offset_lost" ELSE "read")
  /\ UNCHANGED <<results, slots, store, target, resume, producer, replay>>

(* read_from(): everything available from the offset on. *)
Read(g) ==
  /\ pc[g] = "read"
  /\ LET s == session[target[g]] IN
       /\ s.dropped <= offset[g] /\ offset[g] < Total(target[g])
       /\ got' = [got EXCEPT ![g] = @ \o SubSeq(s.buffer, offset[g] - s.dropped + 1,
                                                Len(s.buffer))]
       /\ offset' = [offset EXCEPT ![g] = Total(target[g])]
  /\ UNCHANGED <<results, slots, store, control, producer>>

(* The reader fell behind the ring, or reached the end of a finished session:    *)
(* the response ends.  A reader whose client is gone ends, too, and touches      *)
(* nothing more.                                                                 *)
ReadEnds(g) ==
  /\ pc[g] = "read"
  /\ \/ offset[g] < session[target[g]].dropped /\ Goto(g, "lost")
     \/ session[target[g]].done /\ Total(target[g]) <= offset[g] /\ Goto(g, "ended")
  /\ UNCHANGED <<results, slots, store, target, resume, producer, replay>>

-----------------------------------------------------------------------------
(* DELETE /v1/stream: evict_and_cancel() *)

DeleteTake(d) ==
  /\ pc[d] = "start"
  /\ TakeCurrent(d, "cancel", "done")
  /\ UNCHANGED <<results, slots, session, resume, producer, replay>>

DeleteCancel(d) ==
  /\ pc[d] = "cancel"
  /\ CancelSession(target[d])
  /\ Goto(d, "finalize")
  /\ UNCHANGED <<results, slots, current, target, resume, producer, replay>>

(* Also the shutdown, which cancels nothing. *)
FinalizeTaken(t) ==
  /\ pc[t] = "finalize"
  /\ CutSession(target[t]) /\ Release(t)
  /\ Goto(t, "done")
  /\ UNCHANGED <<results, slots, current, resume, producer, replay>>

(* stop_gc() *)
Shutdown ==
  /\ pc[Main] = "start"
  /\ TakeCurrent(Main, "finalize", "done")
  /\ UNCHANGED <<results, slots, session, resume, producer, replay>>

(* gc_loop(): a session that was completed long ago; how long is abstract. *)
CollectGarbage ==
  /\ pc[Main] \in {"start", "absent"}
  /\ current # NoSession /\ session[current].done
  /\ current' = NoSession
  /\ UNCHANGED <<results, slots, session, control, producer, replay>>

-----------------------------------------------------------------------------
(* Once it has been received, a request is worked on to its end. *)
RequestNext(r) ==
  \/ ReplaceCancel(r) \/ ReplaceFinalize(r) \/ PostTask(r) \/ Reject(r)
  \/ FirstResult(r)
  \/ NextStopped(r) \/ NextFlush(r) \/ NextDone(r) \/ NextResult(r) \/ Tee(r) \/ Send(r)
  \/ EvictCurrent(r) \/ EvictFinalize(r)
  \/ StopRemove(r) \/ StopCancel(r) \/ Finalize(r)
ReaderNext(g) == CheckOffset(g) \/ Read(g) \/ ReadEnds(g)
DeleterNext(d) == DeleteCancel(d) \/ FinalizeTaken(d)

Next ==
  \/ \E r \in Requests :
       \/ CreateOrReplace(r) \/ RequestNext(r) \/ HandleCancel(r)
       \/ FirstGivesUp(r) \/ Dropped(r)
       \/ \E kind \in {"partial", "final", "error"} : Emit(r, kind)
  \/ \E g \in Readers : Lookup(g) \/ ReaderNext(g)
  \/ \E d \in Deleters : DeleteTake(d) \/ DeleterNext(d)
  \/ Shutdown \/ FinalizeTaken(Main) \/ CollectGarbage

(* HTTP threads are scheduled and their waits poll; the slots handle a CANCEL    *)
(* task.  Nothing obliges a generation to end by itself, or a client to leave.   *)
Fairness ==
  /\ \A r \in Requests : WF_vars(RequestNext(r)) /\ WF_vars(HandleCancel(r))
  /\ \A g \in Readers : WF_vars(ReaderNext(g))
  /\ \A d \in Deleters : WF_vars(DeleterNext(d))

Spec == Init /\ [][Next]_vars
FairSpec == Spec /\ Fairness

-----------------------------------------------------------------------------
(* Properties *)

Live(s) == pc[s] \notin {"start", "absent"} /\ ~session[s].done /\ ~session[s].cancelled

(* "one conv = at most one live session": a session that is still fed and was    *)
(* not cancelled can be reached through the map, or the thread that took it out  *)
(* is about to end it (create_or_replace, evict, evict_and_cancel, stop_gc).     *)
OneLiveSession ==
  \A s \in Requests : Live(s) =>
    \/ current = s
    \/ \E t \in Threads \ Readers : target[t] = s

(* A reader gets the stream from its offset on without a gap or a repetition,    *)
(* however the results, the ring and the reads interleave (append, read_from).   *)
ReplayFaithful ==
  \A g \in Readers : \A i \in DOMAIN got[g] : got[g][i] = offset[g] - Len(got[g]) + i

(* "a chunk lost to a dead wire is already buffered": whatever was written to    *)
(* the socket has been in the ring, as long as nobody else ended the session.    *)
BufferedFirst ==
  \A r \in Requests : ~session[r].cut => sent[r] <= Total(r)

(* A stream that nobody stopped ends with all that was generated in its ring,    *)
(* whenever its client went away (on_complete).                                  *)
DisconnectLosesNothing ==
  \A r \in streamed : pc[r] = "done" /\ ~session[r].cancelled /\ ~session[r].cut =>
    Total(r) = emitted[r]

(* "make sure to clean up all pending results": results in the queue have a      *)
(* reader that waits for them, or is about to remove them (server_response).     *)
NoStaleResults ==
  \A r \in Requests : queue_results[r] # <<>> => r \in waiting \/ pc[r] = "stop_cancel"

(* "A DELETE stops work by raising the flag and letting the worker unwind": once  *)
(* the first result is there, a cancelled request ends, and so does its           *)
(* generation.  So does that of a client that left while it waited for the first  *)
(* result, where the session keeps nothing alive (server-context.cpp:4424).       *)
CancelUnwinds ==
  \A r \in Requests :
    (session[r].cancelled /\ emitted[r] > 0) \/ pc[r] = "complete" ~>
      pc[r] = "done" /\ generation[r] \in {"none", "ended"}

(* No reader hangs: once a generation is over the readers of its stream leave.   *)
ReadersLeave ==
  \A g \in Readers :
    pc[g] = "read" /\ generation[target[g]] = "ended" ~> pc[g] # "read"
=============================================================================
