------------------------ MODULE ResumableStream_proofs ------------------------
(***************************************************************************)
(* What a resumable stream promises, for every number of requests, readers *)
(* and DELETEs, every size of the ring and of the results.                 *)
(*                                                                         *)
(* The invariant has four parts.  Targets: a thread that has taken a       *)
(* session from the map is about to end it.  Stages: where a request is    *)
(* tells what its reader, its chunk and its results can be.  Flow: the     *)
(* bytes in the ring, in the chunk that is on its way to it and in the     *)
(* queue of results follow each other without a gap.  Replays: what a      *)
(* reader has got are the bytes before its offset.                         *)
(***************************************************************************)
EXTENDS ResumableStream, SequenceTheorems, TLAPS

SetUp   == {"absent", "start", "replace_cancel", "replace_finalize", "post"}
Streams == {"next", "tee", "send"}
Stops   == {"stop_remove", "stop_cancel"}
Replacing == {"replace_cancel", "replace_finalize", "evict_finalize"}

\* A thread holds a session only while it is about to end it; a reader looks at
\* a session it has found.
Targets ==
  /\ \A r \in Requests : target[r] # NoSession => pc[r] \in Replacing
  /\ \A t \in Deleters \cup {Main} : target[t] # NoSession => pc[t] \in {"cancel", "finalize"}
  /\ \A g \in Readers : pc[g] \in {"check", "read"} => target[g] \in Requests

\* stop() interrupts the stream for the chunk of an error.
StopsForTee(r) == pc[r] \in Stops /\ resume[r] = "tee"
Active(r) == pc[r] = "first" \/ pc[r] \in Streams \/ StopsForTee(r)

\* Before its task is posted nothing of a request exists.
SetUpIsFresh(r) ==
  pc[r] \in SetUp =>
    /\ generation[r] = "none" /\ r \notin waiting /\ r \notin streamed
    /\ ~rd[r].finished /\ ~rd[r].cancelled

\* Nothing was handed on yet.
Untouched(r) ==
  pc[r] \in SetUp \cup {"first"} =>
    /\ chunk[r] = <<>> /\ ~last[r] /\ sent[r] = 0
    /\ session[r].buffer = <<>> /\ session[r].dropped = 0

\* What its reader has seen of a request tells what can still come.
Reception(r) ==
  /\ rd[r].finished => generation[r] = "ended" /\ queue_results[r] = <<>>
  /\ rd[r].cancelled => r \notin waiting /\ queue_results[r] = <<>>
  /\ generation[r] = "none" => queue_results[r] = <<>> /\ emitted[r] = 0
  /\ \A i \in DOMAIN queue_results[r] : queue_results[r][i].kind # "partial" =>
       i = Len(queue_results[r]) /\ generation[r] = "ended"
  /\ queue_results[r] # <<>> => r \in waiting \/ pc[r] = "stop_cancel"
  /\ pc[r] = "stop_cancel" => r \notin waiting

Streaming(r) ==
  /\ pc[r] \in Streams \/ StopsForTee(r) => r \in streamed
  /\ pc[r] = "first" => r \notin streamed
  /\ Active(r) /\ ~last[r] => r \in waiting
  /\ pc[r] = "next" => ~last[r]
  /\ StopsForTee(r) => last[r]
  /\ session[r].done => session[r].cut \/ pc[r] = "done"
  /\ pc[r] = "send" => r \notin draining
  /\ resume[r] \in {"tee", "complete", "finalize"}

Stages(r) == SetUpIsFresh(r) /\ Untouched(r) /\ Reception(r) /\ Streaming(r)

\* b are the bytes that follow the first n of the stream.
Numbered(b, n) == \A k \in 1..Len(b) : b[k] = n + k

\* The results in q are the bytes from n to e.
Chain(q, n, e) ==
  /\ \A i \in DOMAIN q : q[i].bytes # <<>> /\ Numbered(q[i].bytes, q[i].bytes[1] - 1)
  /\ \A i \in 1..(Len(q) - 1) : q[i + 1].bytes[1] = q[i].bytes[1] + Len(q[i].bytes)
  /\ IF q = <<>> THEN e = n
     ELSE q[1].bytes[1] = n + 1 /\ e = q[Len(q)].bytes[1] - 1 + Len(q[Len(q)].bytes)

\* The chunk is not yet in the ring.
Untold(r) == pc[r] # "send"

\* The bytes of r that are in the ring or on their way to it.
Ahead(r) == Total(r) + IF Untold(r) THEN Len(chunk[r]) ELSE 0

Flow(r) ==
  /\ Numbered(session[r].buffer, session[r].dropped)
  /\ Active(r) /\ ~session[r].done =>
       /\ Untold(r) => Numbered(chunk[r], Total(r))
       /\ ~last[r] => Chain(queue_results[r], Ahead(r), emitted[r])
       /\ last[r] /\ ~session[r].cancelled =>
            generation[r] = "ended" /\ emitted[r] = Ahead(r)
  /\ r \in streamed /\ ~Active(r) /\ ~session[r].cancelled /\ ~session[r].cut =>
       generation[r] = "ended" /\ emitted[r] = Total(r)

\* What was written to the socket is in the ring, but for the chunk on its way.
Wire(r) == ~session[r].cut =>
  sent[r] + (IF pc[r] = "send" THEN Len(chunk[r]) ELSE 0) <= Total(r)

Right(r) == Stages(r) /\ Flow(r) /\ Wire(r)

\* A reader has nothing before its first read.
NothingRead == \A g \in Readers : pc[g] = "start" => got[g] = <<>>

IInv ==
  /\ TypeOK /\ Targets /\ OneLiveSession
  /\ \A r \in Requests : Right(r)
  /\ NothingRead /\ ReplayFaithful

-----------------------------------------------------------------------------
(* Sequences of bytes and of results                                        *)

LEMMA Suffix ==
  ASSUME NEW S, NEW q \in Seq(S), NEW m \in Nat \ {0}, m <= Len(q) + 1
  PROVE  /\ SubSeq(q, m, Len(q)) \in Seq(S)
         /\ Len(SubSeq(q, m, Len(q))) = Len(q) - m + 1
         /\ \A i \in 1..(Len(q) - m + 1) : SubSeq(q, m, Len(q))[i] = q[m + i - 1]
<1>1. Len(q) \in Nat BY LenProperties
<1>2. \A i \in m..Len(q) : q[i] \in S BY <1>1, ElementOfSeq
<1>3. /\ SubSeq(q, m, Len(q)) \in Seq(S)
      /\ Len(SubSeq(q, m, Len(q))) = IF m <= Len(q) THEN Len(q) - m + 1 ELSE 0
      /\ \A i \in 1..(Len(q) - m + 1) : SubSeq(q, m, Len(q))[i] = q[m + i - 1]
  BY <1>1, <1>2, SubSeqProperties
<1> QED BY <1>1, <1>3

LEMMA OldestRemoved ==
  ASSUME NEW S, NEW q \in Seq(S), q # <<>>
  PROVE  /\ RemoveAt(q, 1) \in Seq(S)
         /\ Len(RemoveAt(q, 1)) = Len(q) - 1
         /\ \A i \in 1..(Len(q) - 1) : RemoveAt(q, 1)[i] = q[i + 1]
<1>1. Len(q) \in Nat /\ Len(q) >= 1 BY EmptySeq
<1>2. SubSeq(q, 1, 0) = <<>> BY SubSeqEmpty
<1>3. /\ SubSeq(q, 2, Len(q)) \in Seq(S) /\ Len(SubSeq(q, 2, Len(q))) = Len(q) - 1
      /\ \A i \in 1..(Len(q) - 1) : SubSeq(q, 2, Len(q))[i] = q[i + 1]
  <2>1. 2 \in Nat \ {0} /\ 2 <= Len(q) + 1 /\ Len(q) - 2 + 1 = Len(q) - 1 BY <1>1
  <2>2. /\ SubSeq(q, 2, Len(q)) \in Seq(S)
        /\ Len(SubSeq(q, 2, Len(q))) = Len(q) - 2 + 1
        /\ \A i \in 1..(Len(q) - 2 + 1) : SubSeq(q, 2, Len(q))[i] = q[2 + i - 1]
    BY <2>1, Suffix
  <2> QED BY <1>1, <2>1, <2>2
<1>4. RemoveAt(q, 1) = SubSeq(q, 1, 0) \o SubSeq(q, 2, Len(q)) BY <1>1 DEF RemoveAt
<1>5. RemoveAt(q, 1) = SubSeq(q, 2, Len(q)) BY <1>2, <1>3, <1>4, ConcatEmptySeq
<1> QED BY <1>3, <1>5

LEMMA NumberedConcat ==
  ASSUME NEW a \in Seq(Nat), NEW b \in Seq(Nat), NEW n \in Nat,
         Numbered(a, n), Numbered(b, n + Len(a))
  PROVE  Numbered(a \o b, n)
<1>1. /\ Len(a) \in Nat /\ Len(b) \in Nat
  BY LenProperties
<1>5. a \o b \in Seq(Nat) /\ Len(a \o b) = Len(a) + Len(b) BY ConcatProperties
<1> SUFFICES ASSUME NEW k \in 1..(Len(a) + Len(b)) PROVE (a \o b)[k] = n + k
  BY <1>5 DEF Numbered
<1>2. (a \o b)[k] = IF k <= Len(a) THEN a[k] ELSE b[k - Len(a)]
  BY ConcatProperties, Zenon
<1>3. CASE k <= Len(a) BY <1>1, <1>2, <1>3 DEF Numbered
<1>4. CASE ~(k <= Len(a))
  <2>1. k - Len(a) \in 1..Len(b) BY <1>1, <1>4
  <2> QED BY <1>1, <1>2, <1>4, <2>1 DEF Numbered
<1> QED BY <1>3, <1>4

LEMMA NumberedTail ==
  ASSUME NEW a \in Seq(Nat), NEW n \in Nat, NEW m \in Nat \ {0}, m <= Len(a) + 1,
         Numbered(a, n)
  PROVE  Numbered(SubSeq(a, m, Len(a)), n + m - 1)
<1>1. Len(a) \in Nat BY LenProperties
<1> SUFFICES ASSUME NEW i \in 1..(Len(a) - m + 1)
             PROVE  SubSeq(a, m, Len(a))[i] = n + m - 1 + i
  BY Suffix DEF Numbered
<1>2. SubSeq(a, m, Len(a))[i] = a[m + i - 1] BY Suffix
<1>3. m + i - 1 \in 1..Len(a) BY <1>1
<1> QED BY <1>1, <1>2, <1>3 DEF Numbered

LEMMA BytesType ==
  ASSUME NEW r \in Requests, emitted \in [Requests -> Nat], NEW n \in Nat
  PROVE  /\ Bytes(r, n) \in Seq(Nat) /\ Len(Bytes(r, n)) = n
         /\ Numbered(Bytes(r, n), emitted[r])
         /\ n > 0 => Bytes(r, n)[1] = emitted[r] + 1
<1>1. Bytes(r, n) \in [1..n -> Nat]
  <2>1. \A i \in 1..n : emitted[r] + i \in Nat OBVIOUS
  <2> QED BY <2>1 DEF Bytes
<1>2. Bytes(r, n) \in Seq(Nat) BY <1>1
<1>3. Len(Bytes(r, n)) = n BY <1>1, <1>2, LenProperties
<1> QED BY <1>1, <1>2, <1>3 DEF Bytes, Numbered

LEMMA ChainAppend ==
  ASSUME NEW q \in Seq(Result), NEW n \in Nat, NEW e \in Nat, Chain(q, n, e),
         NEW x \in Result, x.bytes # <<>>, Numbered(x.bytes, e)
  PROVE  Chain(Append(q, x), n, e + Len(x.bytes))
<1> DEFINE p == Append(q, x)
<1>1. Len(q) \in Nat /\ x.bytes \in Seq(Nat) BY LenProperties DEF Result
<1>2. Len(x.bytes) \in Nat /\ Len(x.bytes) > 0 BY <1>1, EmptySeq
<1>3. x.bytes[1] = e + 1 BY <1>2 DEF Numbered
<1>4. /\ p \in Seq(Result) /\ p # <<>> /\ Len(p) = Len(q) + 1
      /\ \A i \in 1..Len(q) : p[i] = q[i]
      /\ p[Len(q) + 1] = x
  BY AppendProperties
<1>5. DOMAIN p = 1..(Len(q) + 1) /\ DOMAIN q = 1..Len(q) BY <1>4, LenProperties
<1>0. x.bytes[1] - 1 = e BY <1>3
<1> HIDE DEF p
<1>6. \A i \in DOMAIN p : p[i].bytes # <<>> /\ Numbered(p[i].bytes, p[i].bytes[1] - 1)
  <2> SUFFICES ASSUME NEW i \in 1..(Len(q) + 1)
               PROVE  p[i].bytes # <<>> /\ Numbered(p[i].bytes, p[i].bytes[1] - 1)
    BY <1>5
  <2>1. CASE i = Len(q) + 1 BY <1>0, <1>4, <2>1
  <2>2. CASE i \in 1..Len(q) BY <1>4, <1>5, <2>2, Zenon DEF Chain
  <2> QED BY <1>1, <2>1, <2>2
<1>7. ASSUME q # <<>>
      PROVE  Len(q) > 0 /\ q[Len(q)] \in Result /\ q[Len(q)].bytes \in Seq(Nat)
  <2>1. Len(q) \in 1..Len(q) BY <1>1, <1>7, EmptySeq
  <2>2. q[Len(q)] \in Result BY <2>1, ElementOfSeq
  <2> QED BY <2>1, <2>2 DEF Result
<1>8. \A i \in 1..(Len(p) - 1) : p[i + 1].bytes[1] = p[i].bytes[1] + Len(p[i].bytes)
  <2> SUFFICES ASSUME NEW i \in 1..Len(q)
               PROVE  p[i + 1].bytes[1] = p[i].bytes[1] + Len(p[i].bytes)
    BY <1>1, <1>4
  <2>1. CASE i = Len(q)
    <3>1. q # <<>> /\ p[i] = q[Len(q)] /\ p[i + 1] = x BY <1>1, <1>4, <2>1
    <3>2. e = q[Len(q)].bytes[1] - 1 + Len(q[Len(q)].bytes) BY <3>1 DEF Chain
    <3>3. q[Len(q)].bytes # <<>> BY <1>5, <2>1 DEF Chain
    <3>4. Len(q[Len(q)].bytes) \in Nat \ {0} BY <1>7, <3>1, <3>3, EmptySeq
    <3>5. q[Len(q)].bytes[1] \in Nat BY <1>7, <3>1, <3>4, ElementOfSeq
    <3> QED BY <1>3, <3>1, <3>2, <3>4, <3>5
  <2>2. CASE i \in 1..(Len(q) - 1)
    <3>1. p[i] = q[i] /\ p[i + 1] = q[i + 1] BY <1>1, <1>4, <2>2
    <3> QED BY <2>2, <3>1 DEF Chain
  <2> QED BY <1>1, <2>1, <2>2
<1>9. p[1].bytes[1] = n + 1
  <2>1. CASE q = <<>>
    <3>1. Len(q) = 0 /\ e = n BY <2>1 DEF Chain
    <3> QED BY <1>3, <1>4, <3>1
  <2>2. CASE q # <<>>
    <3>1. p[1] = q[1] BY <1>1, <1>4, <1>7, <2>2
    <3> QED BY <2>2, <3>1 DEF Chain
  <2> QED BY <2>1, <2>2
<1>10. e + Len(x.bytes) = p[Len(p)].bytes[1] - 1 + Len(p[Len(p)].bytes)
  <2>1. p[Len(p)] = x BY <1>1, <1>4
  <2> QED BY <1>0, <2>1
<1>11. Chain(p, n, e + Len(x.bytes)) BY <1>4, <1>6, <1>8, <1>9, <1>10 DEF Chain
<1> QED BY <1>11 DEF p

LEMMA ChainTake ==
  ASSUME NEW q \in Seq(Result), q # <<>>, NEW n \in Nat, NEW e \in Nat, Chain(q, n, e)
  PROVE  /\ q[1] \in Result /\ q[1].bytes # <<>> /\ Numbered(q[1].bytes, n)
         /\ Chain(RemoveAt(q, 1), n + Len(q[1].bytes), e)
         /\ Len(q) = 1 => e = n + Len(q[1].bytes)
<1> DEFINE p == RemoveAt(q, 1)
<1>1. Len(q) \in Nat \ {0} /\ DOMAIN q = 1..Len(q) BY EmptySeq, LenProperties
<1>2. /\ p \in Seq(Result) /\ Len(p) = Len(q) - 1
      /\ \A i \in 1..(Len(q) - 1) : p[i] = q[i + 1]
  BY OldestRemoved
<1>3. DOMAIN p = 1..(Len(q) - 1) BY <1>2, LenProperties
<1>4. q[1] \in Result /\ q[1].bytes[1] = n + 1 /\ q[1].bytes # <<>>
  BY <1>1, ElementOfSeq DEF Chain
<1>5. q[1].bytes[1] - 1 = n /\ Len(q[1].bytes) \in Nat
  BY <1>4, LenProperties DEF Result
<1>6. Numbered(q[1].bytes, n) BY <1>1, <1>5 DEF Chain
<1>7. Len(q) = 1 => e = n + Len(q[1].bytes) BY <1>5 DEF Chain
<1> HIDE DEF p
<1>8. \A i \in DOMAIN p : p[i].bytes # <<>> /\ Numbered(p[i].bytes, p[i].bytes[1] - 1)
  <2> SUFFICES ASSUME NEW i \in 1..(Len(q) - 1)
               PROVE  p[i].bytes # <<>> /\ Numbered(p[i].bytes, p[i].bytes[1] - 1)
    BY <1>3
  <2>1. p[i] = q[i + 1] /\ i + 1 \in DOMAIN q BY <1>1, <1>2
  <2> QED BY <2>1, Zenon DEF Chain
<1>9. \A i \in 1..(Len(p) - 1) : p[i + 1].bytes[1] = p[i].bytes[1] + Len(p[i].bytes)
  <2> SUFFICES ASSUME NEW i \in 1..(Len(q) - 2)
               PROVE  p[i + 1].bytes[1] = p[i].bytes[1] + Len(p[i].bytes)
    BY <1>1, <1>2
  <2>1. p[i] = q[i + 1] /\ p[i + 1] = q[(i + 1) + 1] /\ i + 1 \in 1..(Len(q) - 1)
    BY <1>1, <1>2
  <2> QED BY <2>1 DEF Chain
<1>10. IF p = <<>> THEN e = n + Len(q[1].bytes)
       ELSE /\ p[1].bytes[1] = n + Len(q[1].bytes) + 1
            /\ e = p[Len(p)].bytes[1] - 1 + Len(p[Len(p)].bytes)
  <2>1. CASE p = <<>>
    <3>1. Len(p) = 0 BY <2>1, EmptySeq
    <3>2. Len(q) = 1
      <4>1. Len(q) \in Nat /\ Len(p) = Len(q) - 1 BY <1>1, <1>2
      <4> QED BY <3>1, <4>1
    <3> QED BY <1>7, <2>1, <3>2
  <2>2. CASE p # <<>>
    <3>1. Len(p) >= 1 BY <1>2, <2>2, EmptySeq
    <3>2. p[1] = q[2] /\ p[Len(p)] = q[Len(q)] BY <1>1, <1>2, <3>1
    <3>3. q[1 + 1].bytes[1] = q[1].bytes[1] + Len(q[1].bytes)
      <4>1. 1 \in 1..(Len(q) - 1) BY <1>1, <1>2, <3>1
      <4> QED BY <4>1 DEF Chain
    <3>4. e = q[Len(q)].bytes[1] - 1 + Len(q[Len(q)].bytes) BY DEF Chain
    <3>5. p[1].bytes[1] = n + 1 + Len(q[1].bytes)
      <4>1. 1 + 1 = 2 OBVIOUS
      <4>2. q[2].bytes[1] = q[1].bytes[1] + Len(q[1].bytes) BY <3>3, <4>1
      <4> QED BY <1>4, <3>2, <4>2
    <3>6. p[1].bytes[1] = n + Len(q[1].bytes) + 1
      <4>1. Len(q[1].bytes) \in Nat BY <1>5
      <4>2. \A a, b \in Nat : a + 1 + b = a + b + 1 OBVIOUS
      <4> QED BY <3>5, <4>1, <4>2, Zenon
    <3> QED BY <2>2, <3>2, <3>4, <3>6
  <2> QED BY <2>1, <2>2
<1>11. Chain(p, n + Len(q[1].bytes), e) BY <1>8, <1>9, <1>10 DEF Chain
<1> QED BY <1>4, <1>6, <1>7, <1>11 DEF p

\* A function with one value replaced.
LEMMA Updated ==
  ASSUME NEW A, NEW B, NEW f \in [A -> B], NEW a \in A, NEW b \in B
  PROVE  [f EXCEPT ![a] = b] \in [A -> B]
OBVIOUS

\* append() keeps the bytes of the ring numbered, if the chunk follows them.
LEMMA AppendedRing ==
  ASSUME SizesAssumption, NEW s \in Session, Len(s.buffer) <= Cap, NEW data \in Seq(Nat)
  PROVE  LET t == Appended(s, data) IN
         /\ t \in Session /\ Len(t.buffer) <= Cap
         /\ t.cancelled = s.cancelled /\ t.done = s.done /\ t.cut = s.cut
         /\ s.done => t = s
         /\ s.dropped <= t.dropped
         /\ ~s.done => t.dropped + Len(t.buffer) = s.dropped + Len(s.buffer) + Len(data)
         /\ Numbered(s.buffer, s.dropped)
              /\ (s.done \/ Numbered(data, s.dropped + Len(s.buffer)))
            => Numbered(t.buffer, t.dropped)
<1> DEFINE t == Appended(s, data)
<1>1. /\ s.buffer \in Seq(Nat) /\ s.dropped \in Nat /\ Len(s.buffer) \in Nat
      /\ s.cancelled \in BOOLEAN /\ s.done \in BOOLEAN /\ s.cut \in BOOLEAN
      /\ Len(data) \in Nat /\ Cap \in Nat \ {0}
  BY LenProperties DEF Session, SizesAssumption
<1>2. CASE s.done \/ data = <<>>
  <2>1. t = s BY <1>2 DEF Appended
  <2>2. data = <<>> => Len(data) = 0 BY EmptySeq
  <2> QED BY <1>1, <1>2, <2>1, <2>2
<1>3. CASE ~s.done /\ data # <<>> /\ Len(data) >= Cap
  <2> DEFINE m == Len(data) - Cap + 1
             b == SubSeq(data, m, Len(data))
             d == s.dropped + Len(s.buffer) + Len(data) - Cap
  <2>1. m \in Nat \ {0} /\ m <= Len(data) + 1 /\ d \in Nat
    <3>1. m \in Nat \ {0} /\ m <= Len(data) + 1 BY <1>1, <1>3
    <3>2. d \in Nat
      <4>1. /\ s.dropped \in Nat /\ Len(s.buffer) \in Nat /\ Len(data) \in Nat
            /\ Cap \in Nat /\ Len(data) >= Cap
        BY <1>1, <1>3
      <4>2. \A k, l, n, c \in Nat : n >= c => k + l + n - c \in Nat OBVIOUS
      <4> QED BY <4>1, <4>2, Zenon
    <3> QED BY <3>1, <3>2
  <2>2. b \in Seq(Nat) /\ Len(b) = Cap
    <3>1. Len(data) - m + 1 = Cap BY <1>1
    <3> HIDE DEF m
    <3>2. b \in Seq(Nat) /\ Len(b) = Len(data) - m + 1 BY <2>1, Suffix
    <3> QED BY <3>1, <3>2
  <2>3. t = [s EXCEPT !.dropped = d, !.buffer = b] BY <1>3 DEF Appended
  <2>4. Numbered(data, s.dropped + Len(s.buffer)) => Numbered(b, d)
    <3>1. d = s.dropped + Len(s.buffer) + m - 1 BY <1>1
    <3> HIDE DEF b, m, d
    <3>2. s.dropped + Len(s.buffer) \in Nat BY <1>1
    <3> QED BY <2>1, <3>1, <3>2, NumberedTail DEF b
  <2> HIDE DEF b, d, m
  <2>5. /\ t \in Session /\ t.buffer = b /\ t.dropped = d
        /\ t.cancelled = s.cancelled /\ t.done = s.done /\ t.cut = s.cut
    BY <2>1, <2>2, <2>3 DEF Session
  <2>6. d + Cap = s.dropped + Len(s.buffer) + Len(data) /\ s.dropped <= d
    <3>1. s.dropped \in Nat /\ Len(s.buffer) \in Nat /\ Len(data) \in Nat /\ Cap \in Nat
      BY <1>1
    <3>2. Len(data) >= Cap BY <1>3
    <3>3. \A k, l, n, c \in Nat : n >= c => (k + l + n - c) + c = k + l + n /\ k <= k + l + n - c
      OBVIOUS
    <3> QED BY <3>1, <3>2, <3>3, Zenon DEF d
  <2> HIDE DEF t
  <2>7. Len(t.buffer) <= Cap /\ s.dropped <= t.dropped
        /\ t.dropped + Len(t.buffer) = s.dropped + Len(s.buffer) + Len(data)
    BY <1>1, <2>2, <2>5, <2>6
  <2>8. Numbered(data, s.dropped + Len(s.buffer)) => Numbered(t.buffer, t.dropped)
    BY <2>4, <2>5
  <2> QED BY <1>3, <2>5, <2>7, <2>8 DEF t
<1>4. CASE ~s.done /\ data # <<>> /\ Len(data) < Cap
  <2> DEFINE over == Len(s.buffer) + Len(data) - Cap
             drop == IF over > 0 THEN over ELSE 0
             kept == SubSeq(s.buffer, drop + 1, Len(s.buffer))
             b == kept \o data
  <2>1. drop \in Nat /\ drop <= Len(s.buffer) /\ Len(s.buffer) - drop + Len(data) <= Cap
    BY <1>1, <1>4
  <2>2. t = [s EXCEPT !.dropped = @ + drop, !.buffer = b] BY <1>4 DEF Appended
  <2> HIDE DEF drop
  <2>3. kept \in Seq(Nat) /\ Len(kept) = Len(s.buffer) - drop
    <3> HIDE DEF t, over
    <3>0. drop \in Nat /\ Len(s.buffer) \in Nat /\ drop <= Len(s.buffer) BY <1>1, <2>1
    <3>1. \A n, l \in Nat : n <= l =>
            /\ n + 1 \in Nat \ {0} /\ n + 1 <= l + 1
            /\ l - (n + 1) + 1 = l - n
      OBVIOUS
    <3>2. /\ drop + 1 \in Nat \ {0} /\ drop + 1 <= Len(s.buffer) + 1
          /\ Len(s.buffer) - (drop + 1) + 1 = Len(s.buffer) - drop
      BY <3>0, <3>1, Zenon
    <3>3. s.buffer \in Seq(Nat) BY <1>1
    <3>4. kept \in Seq(Nat) /\ Len(kept) = Len(s.buffer) - (drop + 1) + 1
      BY <3>2, <3>3, Suffix, Zenon
    <3> QED BY <3>2, <3>4, Zenon
  <2>4. Numbered(s.buffer, s.dropped) => Numbered(kept, s.dropped + drop)
    <3>1. drop + 1 \in Nat \ {0} /\ drop + 1 <= Len(s.buffer) + 1
          /\ s.dropped + (drop + 1) - 1 = s.dropped + drop
      BY <1>1, <2>1
    <3> QED BY <1>1, <3>1, NumberedTail
  <2> HIDE DEF kept
  <2>5. b \in Seq(Nat) /\ Len(b) = Len(s.buffer) - drop + Len(data)
    BY <2>3, ConcatProperties
  <2>6. Numbered(s.buffer, s.dropped) /\ Numbered(data, s.dropped + Len(s.buffer))
        => Numbered(b, s.dropped + drop)
    <3>1. s.dropped + drop \in Nat BY <1>1, <2>1
    <3>2. s.dropped + drop + Len(kept) = s.dropped + Len(s.buffer) BY <1>1, <2>1, <2>3
    <3> QED BY <2>3, <2>4, <3>1, <3>2, NumberedConcat
  <2> HIDE DEF b
  <2>7. /\ t \in Session /\ t.buffer = b /\ t.dropped = s.dropped + drop
        /\ t.cancelled = s.cancelled /\ t.done = s.done /\ t.cut = s.cut
    <3>1. s.dropped + drop \in Nat BY <1>1, <2>1
    <3>2. t = [s EXCEPT !.dropped = s.dropped + drop, !.buffer = b] BY <2>2
    <3> HIDE DEF t
    <3> QED BY <2>5, <3>1, <3>2 DEF Session
  <2> HIDE DEF t
  <2>8. Len(t.buffer) <= Cap /\ s.dropped <= t.dropped
        /\ t.dropped + Len(t.buffer) = s.dropped + Len(s.buffer) + Len(data)
    <3>1. /\ s.dropped \in Nat /\ Len(s.buffer) \in Nat /\ Len(data) \in Nat
          /\ drop \in Nat /\ drop <= Len(s.buffer)
      BY <1>1, <2>1
    <3>2. t.dropped = s.dropped + drop /\ Len(t.buffer) = Len(s.buffer) - drop + Len(data)
      BY <2>5, <2>7
    <3> QED BY <2>1, <3>1, <3>2
  <2>9. Numbered(s.buffer, s.dropped) /\ Numbered(data, s.dropped + Len(s.buffer))
        => Numbered(t.buffer, t.dropped)
    BY <2>6, <2>7
  <2> QED BY <1>4, <2>7, <2>8, <2>9 DEF t
<1> QED BY <1>1, <1>2, <1>3, <1>4

-----------------------------------------------------------------------------
(* What is true of one request                                              *)

\* Whatever belongs to r but its place and its session stays.
Rest(r) ==
  /\ generation'[r] = generation[r] /\ emitted'[r] = emitted[r]
  /\ queue_results'[r] = queue_results[r] /\ rd'[r] = rd[r]
  /\ chunk'[r] = chunk[r] /\ last'[r] = last[r] /\ sent'[r] = sent[r]
  /\ r \in waiting' <=> r \in waiting
  /\ r \in streamed' <=> r \in streamed
  /\ r \in draining' <=> r \in draining

\* Of the session of r only the flags change, as another thread may do.
Flagged(r) ==
  /\ session'[r].buffer = session[r].buffer /\ session'[r].dropped = session[r].dropped
  /\ session[r].cancelled => session'[r].cancelled
  /\ session[r].done => session'[r].done
  /\ session[r].cut => session'[r].cut
  /\ session'[r].done => session[r].done \/ session'[r].cut

\* A request that is on its way out, and does not wait for its CANCEL task.
Leaving(r) ==
  \/ pc[r] \in {"complete", "evict_finalize", "finalize"}
  \/ pc[r] = "stop_remove" /\ resume[r] # "tee"

Stays(r) == pc'[r] = pc[r] /\ resume'[r] = resume[r]
Walks(r) == \/ Stays(r)
            \/ pc[r] \in SetUp /\ pc'[r] \in SetUp /\ resume'[r] = resume[r]
            \/ Leaving(r) /\ Leaving(r)' /\ resume'[r] \in {"finalize", resume[r]}

LEMMA Walk ==
  ASSUME NEW r \in Requests, Right(r), Rest(r), Flagged(r), Walks(r)
  PROVE  Right(r)'
<1> USE DEF Rest, Flagged
<1>1. SetUpIsFresh(r)'
  BY DEF Right, Stages, SetUpIsFresh, Walks, Stays, Leaving, SetUp, Stops
<1>2. Untouched(r)'
  BY DEF Right, Stages, Untouched, Walks, Stays, Leaving, SetUp, Stops
<1>3. Reception(r)'
  BY DEF Right, Stages, Reception, SetUpIsFresh, Walks, Stays, Leaving, SetUp, Stops
<1>4. Active(r)' <=> Active(r)
  BY DEF Walks, Stays, Leaving, SetUp, Stops, Streams, Active, StopsForTee
<1>5. Active(r) => Stays(r)
  BY DEF Walks, Stays, Leaving, SetUp, Stops, Streams, Active, StopsForTee
<1>6. Streaming(r)'
  <2>1. CASE Stays(r)
    BY <2>1 DEF Right, Stages, Streaming, Stays, Active, StopsForTee
  <2>2. CASE ~Stays(r)
    <3>1. ~Active(r) /\ ~Active(r)' BY <1>4, <1>5, <2>2
    <3>2. pc[r] # "done" BY <2>2 DEF Walks, Leaving, SetUp
    <3>3. resume'[r] \in {"tee", "complete", "finalize"}
      BY <2>2 DEF Walks, Right, Stages, Streaming
    <3>4. pc'[r] # "send" BY <3>1 DEF Active, Streams
    <3> QED BY <3>1, <3>2, <3>3, <3>4 DEF Right, Stages, Streaming, Active, Streams
  <2> QED BY <2>1, <2>2
<1>7. Total(r)' = Total(r) BY DEF Total
<1>8. Flow(r)'
  <2>1. Active(r) => Untold(r)' = Untold(r) /\ Ahead(r)' = Ahead(r)
    BY <1>5, <1>7 DEF Untold, Ahead, Stays
  <2> QED BY <1>4, <1>7, <2>1 DEF Right, Flow
<1>9. Wire(r)'
  <2>1. pc[r] = "send" <=> pc'[r] = "send" BY DEF Walks, Stays, Leaving, SetUp
  <2> QED BY <1>7, <2>1 DEF Right, Wire
<1> QED BY <1>1, <1>2, <1>3, <1>6, <1>8, <1>9 DEF Right, Stages

-----------------------------------------------------------------------------
(* Types                                                                    *)

StoreTypes ==
  /\ current \in Requests \cup {NoSession} /\ session \in [Requests -> Session]
  /\ \A s \in Requests : Len(session[s].buffer) <= Cap

LEMMA FlagTypes ==
  ASSUME StoreTypes, NEW x, CancelSession(x) \/ CutSession(x)
  PROVE  /\ session' \in [Requests -> Session]
         /\ \A s \in Requests : Len(session'[s].buffer) <= Cap
         /\ \A s \in Requests : Flagged(s)
         /\ \A s \in Requests : session'[s].done \/ session'[s].cancelled =>
              session[s].done \/ session[s].cancelled \/ s = x
         /\ x \in Requests => session'[x].done \/ session'[x].cancelled
<1>0. session \in [Requests -> Session] /\ \A s \in Requests : Len(session[s].buffer) <= Cap
  BY DEF StoreTypes
<1>1. CASE CancelSession(x)
  <2>1. session' = [session EXCEPT ![x].cancelled = TRUE] BY <1>1 DEF CancelSession
  <2>2. session' \in [Requests -> Session] BY <1>0, <2>1 DEF Session
  <2>3. \A s \in Requests :
          /\ session'[s].buffer = session[s].buffer /\ session'[s].dropped = session[s].dropped
          /\ session'[s].done = session[s].done /\ session'[s].cut = session[s].cut
          /\ session'[s].cancelled <=> session[s].cancelled \/ s = x
    BY <1>0, <2>1 DEF Session
  <2> QED BY <1>0, <2>2, <2>3 DEF Flagged
<1>2. CASE CutSession(x)
  <2>1. session' = [session EXCEPT ![x].cut = session[x].cut \/ ~session[x].done,
                                   ![x].done = TRUE]
    BY <1>2 DEF CutSession
  <2>2. session' \in [Requests -> Session] BY <1>0, <2>1 DEF Session
  <2>3. \A s \in Requests :
          /\ session'[s].buffer = session[s].buffer /\ session'[s].dropped = session[s].dropped
          /\ session'[s].cancelled = session[s].cancelled
          /\ session'[s].done <=> session[s].done \/ s = x
          /\ session'[s].cut <=> session[s].cut \/ (s = x /\ ~session[s].done)
    BY <1>0, <2>1 DEF Session
  <2> QED BY <1>0, <2>2, <2>3 DEF Flagged
<1> QED BY <1>1, <1>2

LEMMA SetUpTypes ==
  ASSUME TypeOK, NEW r \in Requests,
         \/ CreateOrReplace(r) \/ ReplaceCancel(r) \/ ReplaceFinalize(r)
         \/ PostTask(r) \/ Reject(r)
  PROVE  TypeOK'
<1> USE DEF TypeOK, results, slots, store, control, producer, replay, Labels, RequestPC,
            Goto, Release, Threads
<1>0. StoreTypes BY DEF StoreTypes
<1>1. CASE CreateOrReplace(r) BY <1>1 DEF CreateOrReplace, ReplaceCurrent
<1>2. CASE ReplaceCancel(r) BY <1>0, <1>2, FlagTypes DEF ReplaceCancel
<1>3. CASE ReplaceFinalize(r) BY <1>0, <1>3, FlagTypes DEF ReplaceFinalize
<1>4. CASE PostTask(r) BY <1>4 DEF PostTask, Phases
<1>5. CASE Reject(r) BY <1>5 DEF Reject
<1> QED BY <1>1, <1>2, <1>3, <1>4, <1>5

LEMMA ReceiveTypes ==
  ASSUME queue_results \in [Requests -> Seq(Result)], NEW r \in Requests, Receive(r)
  PROVE  /\ queue_results' \in [Requests -> Seq(Result)]
         /\ queue_results'[r] = RemoveAt(queue_results[r], 1)
         /\ \A s \in Requests \ {r} : queue_results'[s] = queue_results[s]
         /\ queue_results[r] # <<>> /\ Received(r) = queue_results[r][1]
         /\ Received(r) \in Result
         /\ Received(r).kind \in {"partial", "final", "error"}
         /\ Received(r).bytes \in Seq(Nat)
<1>1. queue_results[r] \in Seq(Result) /\ queue_results[r] # <<>> BY DEF Receive
<1>2. RemoveAt(queue_results[r], 1) \in Seq(Result) BY <1>1, OldestRemoved
<1>3. queue_results' = [queue_results EXCEPT ![r] = RemoveAt(queue_results[r], 1)]
  BY DEF Receive, OldestFor
<1>4. 1 \in 1..Len(queue_results[r]) BY <1>1, EmptySeq
<1>5. Received(r) = queue_results[r][1] /\ Received(r) \in Result
  BY <1>1, <1>4, ElementOfSeq DEF Received, OldestFor
<1> QED BY <1>1, <1>2, <1>3, <1>5 DEF Result

LEMMA EmitTypes ==
  ASSUME TypeOK, SizesAssumption, NEW r \in Requests,
         NEW kind \in {"partial", "final", "error"}, Emit(r, kind)
  PROVE  TypeOK'
<1> DEFINE b == Bytes(r, ResultSize[kind])
           x == [kind |-> kind, bytes |-> b]
<1>1. ResultSize[kind] \in Nat \ {0} BY DEF SizesAssumption
<1>2. b \in Seq(Nat) /\ Len(b) \in Nat BY <1>1, BytesType, LenProperties DEF TypeOK
<1>3. x \in Result BY <1>2 DEF Result
<1>4. Append(queue_results[r], x) \in Seq(Result)
  BY <1>3, AppendProperties DEF TypeOK
<1>5. /\ queue_results' = IF r \in waiting
                          THEN [queue_results EXCEPT ![r] = Append(queue_results[r], x)]
                          ELSE queue_results
      /\ emitted' = [emitted EXCEPT ![r] = emitted[r] + Len(b)]
      /\ partials' = [partials EXCEPT ![r] = IF kind = "partial" THEN partials[r] + 1
                                             ELSE partials[r]]
  BY DEF Emit
<1> HIDE DEF b, x
<1>6. queue_results' \in [Requests -> Seq(Result)] BY <1>4, <1>5 DEF TypeOK
<1>7. emitted' \in [Requests -> Nat] /\ partials' \in [Requests -> Nat]
  <2>1. emitted \in [Requests -> Nat] /\ partials \in [Requests -> Nat] BY DEF TypeOK
  <2>2. emitted' \in [Requests -> Nat] BY <1>2, <1>5, <2>1
  <2>3. partials' \in [Requests -> Nat] BY <1>5, <2>1
  <2> QED BY <2>2, <2>3
<1>8. generation' \in [Requests -> Phases] BY DEF Emit, TypeOK, Phases
<1> QED BY <1>6, <1>7, <1>8 DEF Emit, TypeOK, store, control, producer, replay

\* A reader's "finished" is set to whether the result is the final one.
LEMMA ReaderTypes ==
  ASSUME rd \in [Requests -> [finished : BOOLEAN, cancelled : BOOLEAN]],
         NEW r \in Requests, NEW final \in BOOLEAN
  PROVE  [rd EXCEPT ![r].finished = final]
           \in [Requests -> [finished : BOOLEAN, cancelled : BOOLEAN]]
<1>1. [rd[r] EXCEPT !.finished = final] \in [finished : BOOLEAN, cancelled : BOOLEAN]
  OBVIOUS
<1>2. [rd EXCEPT ![r].finished = final] = [rd EXCEPT ![r] = [rd[r] EXCEPT !.finished = final]]
  OBVIOUS
<1> QED BY <1>1, <1>2

LEMMA StreamTypes ==
  ASSUME TypeOK, SizesAssumption, NEW r \in Requests, Right(r),
         \/ FirstResult(r) \/ FirstGivesUp(r) \/ NextStopped(r) \/ NextFlush(r)
         \/ NextDone(r) \/ NextResult(r) \/ Tee(r) \/ Send(r) \/ Dropped(r)
  PROVE  TypeOK'
<1> USE DEF TypeOK, results, slots, store, control, producer, replay, Labels, RequestPC,
            Goto, Release, Threads, StopThen, Hand
<1>0. pc[r] \in Streams => r \in streamed BY DEF Right, Stages, Streaming
<1>q. queue_results \in [Requests -> Seq(Result)] OBVIOUS
<1>rd. rd \in [Requests -> [finished : BOOLEAN, cancelled : BOOLEAN]] OBVIOUS
<1>1. CASE FirstResult(r)
  <2>1. Receive(r) BY <1>1 DEF FirstResult
  <2>2. queue_results' \in [Requests -> Seq(Result)] /\ Received(r).bytes \in Seq(Nat)
    BY <1>q, <2>1, ReceiveTypes
  <2>3. \/ chunk' = chunk /\ rd' = rd /\ streamed' = streamed
           /\ pc' = [pc EXCEPT ![r] = "stop_remove"]
           /\ resume' = [resume EXCEPT ![r] = "complete"]
        \/ /\ chunk' = [chunk EXCEPT ![r] = Received(r).bytes]
           /\ rd' = [rd EXCEPT ![r].finished = (Received(r).kind = "final")]
           /\ streamed' = streamed \cup {r}
           /\ pc' = [pc EXCEPT ![r] = "next"] /\ resume' = resume
    BY <1>1 DEF FirstResult
  <2>4. chunk' \in [Requests -> Seq(Nat)] BY <2>2, <2>3
  <2>5. rd' \in [Requests -> [finished : BOOLEAN, cancelled : BOOLEAN]]
    <3> DEFINE final == Received(r).kind = "final"
    <3>1. final \in BOOLEAN /\ (rd' = rd \/ rd' = [rd EXCEPT ![r].finished = final]) BY <2>3
    <3> HIDE DEF final
    <3>2. [rd EXCEPT ![r].finished = final]
            \in [Requests -> [finished : BOOLEAN, cancelled : BOOLEAN]]
      BY <1>rd, <3>1, ReaderTypes, Zenon
    <3> QED BY <1>rd, <3>1, <3>2, Zenon
  <2>6. streamed' \subseteq Requests /\ streamed \subseteq streamed' BY <2>3
  <2>7. pc' \in [Threads -> Labels] BY <2>3
  <2>8. resume' \in [Requests -> Labels] BY <2>3
  <2> QED BY <1>1, <2>8, <2>2, <2>4, <2>5, <2>6, <2>7 DEF FirstResult
<1>2. CASE FirstGivesUp(r) BY <1>2 DEF FirstGivesUp
<1>3. CASE NextStopped(r)
  <2>1. <<>> \in Seq(Nat) BY EmptySeq
  <2> QED BY <1>3, <2>1 DEF NextStopped
<1>4. CASE NextFlush(r) BY <1>4 DEF NextFlush
<1>5. CASE NextDone(r)
  <2>1. Bytes(r, 1) \in Seq(Nat) BY BytesType
  <2>2. chunk' \in [Requests -> Seq(Nat)] /\ last' \in [Requests -> BOOLEAN]
        /\ emitted' \in [Requests -> Nat] /\ pc' \in [Threads -> Labels]
    BY <1>5, <2>1 DEF NextDone
  <2> QED BY <1>5, <2>2 DEF NextDone
<1>6. CASE NextResult(r)
  <2>1. Receive(r) BY <1>6 DEF NextResult
  <2>2. queue_results' \in [Requests -> Seq(Result)] /\ Received(r).bytes \in Seq(Nat)
    BY <1>q, <2>1, ReceiveTypes
  <2>3. /\ chunk' = [chunk EXCEPT ![r] = Received(r).bytes]
        /\ last' = [last EXCEPT ![r] = (Received(r).kind = "error")]
        /\ \/ rd' = rd /\ pc' = [pc EXCEPT ![r] = "stop_remove"]
              /\ resume' = [resume EXCEPT ![r] = "tee"]
           \/ /\ rd' = [rd EXCEPT ![r].finished = (Received(r).kind = "final")]
              /\ pc' = [pc EXCEPT ![r] = "tee"] /\ resume' = resume
    BY <1>6 DEF NextResult
  <2>4. chunk' \in [Requests -> Seq(Nat)] BY <2>2, <2>3
  <2>5. last' \in [Requests -> BOOLEAN] BY <2>3
  <2>6. rd' \in [Requests -> [finished : BOOLEAN, cancelled : BOOLEAN]]
    <3> DEFINE final == Received(r).kind = "final"
    <3>1. final \in BOOLEAN /\ (rd' = rd \/ rd' = [rd EXCEPT ![r].finished = final]) BY <2>3
    <3> HIDE DEF final
    <3>2. [rd EXCEPT ![r].finished = final]
            \in [Requests -> [finished : BOOLEAN, cancelled : BOOLEAN]]
      BY <1>rd, <3>1, ReaderTypes, Zenon
    <3> QED BY <1>rd, <3>1, <3>2, Zenon
  <2>7. pc' \in [Threads -> Labels] /\ resume' \in [Requests -> Labels] BY <2>3
  <2> QED BY <1>6, <2>2, <2>4, <2>5, <2>6, <2>7 DEF NextResult
<1>7. CASE Tee(r)
  <2>1. Appended(session[r], chunk[r]) \in Session
        /\ Len(Appended(session[r], chunk[r]).buffer) <= Cap
    BY AppendedRing
  <2>2. session' = [session EXCEPT ![r] = Appended(session[r], chunk[r])]
    BY <1>7 DEF Tee
  <2>3. <<>> \in Seq(Nat) BY EmptySeq
  <2>4. session' \in [Requests -> Session]
        /\ \A s \in Requests : Len(session'[s].buffer) <= Cap
    BY <2>1, <2>2
  <2>5. \/ chunk' = chunk /\ resume' = resume /\ pc' = [pc EXCEPT ![r] = "send"]
        \/ /\ chunk' = [chunk EXCEPT ![r] = <<>>]
           /\ resume' = resume \/ resume' = [resume EXCEPT ![r] = "finalize"]
           /\ pc' = [pc EXCEPT ![r] = "stop_remove"] \/ pc' = [pc EXCEPT ![r] = "next"]
    BY <1>7 DEF Tee
  <2>6. chunk' \in [Requests -> Seq(Nat)]
    <3>1. chunk \in [Requests -> Seq(Nat)] OBVIOUS
    <3>2. [chunk EXCEPT ![r] = <<>>] \in [Requests -> Seq(Nat)] BY <2>3, <3>1, Updated, Zenon
    <3>3. chunk' = chunk \/ chunk' = [chunk EXCEPT ![r] = <<>>] BY <2>5
    <3> QED BY <3>1, <3>2, <3>3, Zenon
  <2>7. pc' \in [Threads -> Labels] BY <2>5
  <2>8. resume' \in [Requests -> Labels] BY <2>5
  <2> QED BY <1>7, <2>4, <2>6, <2>7, <2>8 DEF Tee
<1>8. CASE Send(r)
  <2>1. <<>> \in Seq(Nat) /\ Len(chunk[r]) \in Nat BY EmptySeq, LenProperties
  <2>2. PICK n \in Nat : sent' = [sent EXCEPT ![r] = n] \/ sent' = sent
    BY <1>8, <2>1 DEF Send, Sent, SendFails
  <2>3. sent' \in [Requests -> Nat] BY <2>2
  <2>4. draining' \subseteq streamed' BY <1>0, <1>8 DEF Send, Sent, SendFails, Streams
  <2>5. chunk' \in [Requests -> Seq(Nat)] BY <1>8, <2>1 DEF Send
  <2>6. pc' \in [Threads -> Labels]
    <3>1. pc' = [pc EXCEPT ![r] = "stop_remove"] \/ pc' = [pc EXCEPT ![r] = "next"]
      BY <1>8 DEF Send
    <3>2. /\ pc \in [Threads -> Labels] /\ r \in Threads
          /\ "stop_remove" \in Labels /\ "next" \in Labels
      OBVIOUS
    <3>3. /\ [pc EXCEPT ![r] = "stop_remove"] \in [Threads -> Labels]
          /\ [pc EXCEPT ![r] = "next"] \in [Threads -> Labels]
      BY <3>2, Updated, Zenon
    <3> QED BY <3>1, <3>3, Zenon
  <2>7. resume' \in [Requests -> Labels] BY <1>8 DEF Send
  <2> QED BY <1>8, <2>3, <2>4, <2>5, <2>6, <2>7 DEF Send
<1>9. CASE Dropped(r) BY <1>0, <1>9 DEF Dropped, DrainRest, Streams
<1> QED BY <1>1, <1>2, <1>3, <1>4, <1>5, <1>6, <1>7, <1>8, <1>9

LEMMA StopTypes ==
  ASSUME TypeOK, NEW r \in Requests,
         \/ EvictCurrent(r) \/ EvictFinalize(r) \/ StopRemove(r) \/ StopCancel(r)
         \/ Finalize(r) \/ HandleCancel(r)
  PROVE  TypeOK'
<1> USE DEF TypeOK, results, slots, store, control, producer, replay, Labels, RequestPC,
            Goto, Release, Threads, StopThen
<1>0. StoreTypes BY DEF StoreTypes
<1>1. CASE EvictCurrent(r)
  <2>1. /\ current' \in {current, NoSession}
        /\ target' = target \/ target' = [target EXCEPT ![r] = current]
        /\ pc' = [pc EXCEPT ![r] = "stop_remove"] \/ pc' = [pc EXCEPT ![r] = "evict_finalize"]
        /\ resume' = resume \/ resume' = [resume EXCEPT ![r] = "finalize"]
    BY <1>1 DEF EvictCurrent, TakeCurrent
  <2>2. pc' \in [Threads -> Labels] BY <2>1
  <2>3. resume' \in [Requests -> Labels] BY <2>1
  <2>4. target' \in [Threads -> Requests \cup {NoSession}]
    <3>1. /\ target \in [Threads -> Requests \cup {NoSession}]
          /\ current \in Requests \cup {NoSession} /\ r \in Threads
      OBVIOUS
    <3>2. [target EXCEPT ![r] = current] \in [Threads -> Requests \cup {NoSession}]
      BY <3>1, Updated, Zenon
    <3> QED BY <2>1, <3>1, <3>2, Zenon
  <2> QED BY <1>1, <2>1, <2>2, <2>3, <2>4 DEF EvictCurrent
<1>2. CASE EvictFinalize(r) BY <1>0, <1>2, FlagTypes DEF EvictFinalize
<1>3. CASE StopRemove(r) BY <1>3 DEF StopRemove
<1>4. CASE StopCancel(r)
  <2>1. <<>> \in Seq(Result) BY EmptySeq
  <2> QED BY <1>4, <2>1 DEF StopCancel, WithoutResults, CancelPosted, Phases
<1>5. CASE Finalize(r)
  <2>1. session' = [session EXCEPT ![r].done = TRUE] BY <1>5 DEF Finalize, FinalizeOwn
  <2>0. session \in [Requests -> Session] OBVIOUS
  <2>2. session' \in [Requests -> Session]
    <3>1. \A s \in Session : [s EXCEPT !.done = TRUE] \in Session
      BY DEF Session
    <3>2. session' = [session EXCEPT ![r] = [session[r] EXCEPT !.done = TRUE]] BY <2>1
    <3>3. session[r] \in Session BY <2>0
    <3>4. [session[r] EXCEPT !.done = TRUE] \in Session BY <3>1, <3>3, Zenon
    <3> QED BY <2>0, <3>2, <3>4, Updated, Zenon
  <2>3. \A s \in Requests : session'[s].buffer = session[s].buffer
    BY <2>0, <2>1 DEF Session
  <2>4. \A s \in Requests : Len(session'[s].buffer) <= Cap BY <2>3
  <2>5. pc' \in [Threads -> Labels] BY <1>5 DEF Finalize
  <2> QED BY <1>5, <2>2, <2>4, <2>5 DEF Finalize
<1>6. CASE HandleCancel(r) BY <1>6 DEF HandleCancel, Phases
<1> QED BY <1>1, <1>2, <1>3, <1>4, <1>5, <1>6

\* What read_from() returns are the bytes that follow the reader's offset.
LEMMA ReadStep ==
  ASSUME TypeOK, NEW g \in Readers, target[g] \in Requests, Read(g),
         Numbered(session[target[g]].buffer, session[target[g]].dropped)
  PROVE  \E b \in Seq(Nat) :
           /\ Numbered(b, offset[g])
           /\ got' = [got EXCEPT ![g] = got[g] \o b]
           /\ offset' = [offset EXCEPT ![g] = offset[g] + Len(b)]
<1> DEFINE s == session[target[g]]
           m == offset[g] - s.dropped + 1
           b == SubSeq(s.buffer, m, Len(s.buffer))
<1>1. /\ s.buffer \in Seq(Nat) /\ s.dropped \in Nat /\ offset[g] \in Nat
      /\ Len(s.buffer) \in Nat
  BY LenProperties DEF TypeOK, Session
<1>2. s.dropped <= offset[g] /\ offset[g] < s.dropped + Len(s.buffer) BY DEF Read, Total
<1>3. /\ m \in Nat \ {0} /\ m <= Len(s.buffer) + 1
      /\ offset[g] = s.dropped + m - 1
      /\ offset[g] + (Len(s.buffer) - m + 1) = s.dropped + Len(s.buffer)
  <2> DEFINE o == offset[g]
             d == s.dropped
             l == Len(s.buffer)
  <2>1. d \in Nat /\ o \in Nat /\ l \in Nat /\ d <= o /\ o < d + l /\ m = o - d + 1
    BY <1>1, <1>2
  <2> HIDE DEF o, d, l, m
  <2>2. /\ m \in Nat \ {0} /\ m <= l + 1 /\ o = d + m - 1
        /\ o + (l - m + 1) = d + l
    BY <2>1
  <2> QED BY <2>2 DEF o, d, l
<1>4. /\ got' = [got EXCEPT ![g] = got[g] \o b]
      /\ offset' = [offset EXCEPT ![g] = s.dropped + Len(s.buffer)]
  BY DEF Read, Total
<1>5. Numbered(s.buffer, s.dropped) OBVIOUS
<1> HIDE DEF m, s
<1>6. b \in Seq(Nat) /\ Len(b) = Len(s.buffer) - m + 1 BY <1>1, <1>3, Suffix
<1>7. Numbered(b, offset[g]) BY <1>1, <1>3, <1>5, NumberedTail
<1> HIDE DEF b
<1> QED BY <1>3, <1>4, <1>6, <1>7

LEMMA ReaderStepTypes ==
  ASSUME TypeOK, SizesAssumption, Targets, NEW g \in Readers,
         \A r \in Requests : Numbered(session[r].buffer, session[r].dropped),
         Lookup(g) \/ CheckOffset(g) \/ Read(g) \/ ReadEnds(g)
  PROVE  TypeOK'
<1> USE DEF TypeOK, results, slots, store, control, producer, replay, Labels, ReaderPC,
            Goto, Threads
<1>1. CASE Lookup(g)
  <2>1. PICK from \in Nat : offset' = [offset EXCEPT ![g] = from]
    BY <1>1 DEF Lookup, SizesAssumption
  <2> QED BY <1>1, <2>1 DEF Lookup
<1>2. CASE CheckOffset(g) BY <1>2 DEF CheckOffset
<1>3. CASE Read(g)
  <2>1. target[g] \in Requests BY <1>3 DEF Read, Targets
  <2>2. PICK b \in Seq(Nat) :
          /\ got' = [got EXCEPT ![g] = got[g] \o b]
          /\ offset' = [offset EXCEPT ![g] = offset[g] + Len(b)]
    BY <1>3, <2>1, ReadStep
  <2>3. got[g] \o b \in Seq(Nat) /\ Len(b) \in Nat
    <3>1. got[g] \in Seq(Nat) OBVIOUS
    <3> QED BY <3>1, ConcatProperties, LenProperties
  <2>4. got' \in [Readers -> Seq(Nat)] /\ offset' \in [Readers -> Nat] BY <2>2, <2>3
  <2> QED BY <1>3, <2>4 DEF Read
<1>4. CASE ReadEnds(g) BY <1>4 DEF ReadEnds
<1> QED BY <1>1, <1>2, <1>3, <1>4

LEMMA OtherTypes ==
  ASSUME TypeOK,
         \/ \E d \in Deleters : DeleteTake(d) \/ DeleteCancel(d) \/ FinalizeTaken(d)
         \/ Shutdown \/ FinalizeTaken(Main) \/ CollectGarbage
  PROVE  TypeOK'
<1> USE DEF TypeOK, results, slots, store, control, producer, replay, Labels, DeleterPC,
            Goto, Release, Threads
<1>0. StoreTypes BY DEF StoreTypes
<1>1. ASSUME NEW d \in Deleters, DeleteTake(d) PROVE TypeOK'
  BY <1>1 DEF DeleteTake, TakeCurrent
<1>2. ASSUME NEW d \in Deleters, DeleteCancel(d) PROVE TypeOK'
  BY <1>0, <1>2, FlagTypes DEF DeleteCancel
<1>3. ASSUME NEW t \in Deleters \cup {Main}, FinalizeTaken(t) PROVE TypeOK'
  BY <1>0, <1>3, FlagTypes DEF FinalizeTaken
<1>4. CASE Shutdown BY <1>4 DEF Shutdown, TakeCurrent
<1>5. CASE CollectGarbage BY <1>5 DEF CollectGarbage
<1> QED BY <1>1, <1>2, <1>3, <1>4, <1>5

-----------------------------------------------------------------------------
(* The map and the threads that have taken a session out of it              *)

\* No session is opened again.
FlagsStay == \A s \in Requests : /\ session[s].done => session'[s].done
                                 /\ session[s].cancelled => session'[s].cancelled

\* The thread t moves on in its own work.
Moves(t) == \E label : pc' = [pc EXCEPT ![t] = label]

LEMMA MoveKeeps ==
  ASSUME TypeOK, Targets, OneLiveSession, ThreadsAssumption, NEW r \in Requests,
         pc[r] \notin Replacing \cup {"start", "absent"}, Moves(r),
         current' = current, target' = target, FlagsStay
  PROVE  Targets' /\ OneLiveSession'
<1> USE DEF TypeOK, Threads, ThreadsAssumption, Moves
<1>1. target[r] = NoSession BY DEF Targets
<1>2. Targets' BY <1>1 DEF Targets
<1>3. \A s \in Requests : Live(s)' => Live(s) BY DEF Live, FlagsStay
<1>4. OneLiveSession' BY <1>3 DEF OneLiveSession
<1> QED BY <1>2, <1>4

LEMMA TakeKeeps ==
  ASSUME TypeOK, Targets, OneLiveSession, ThreadsAssumption, NEW t \in Threads \ Readers,
         target[t] = NoSession, NEW next,
         target' = [target EXCEPT ![t] = current], current' = next,
         session' = session, Moves(t),
         t \in Requests => pc[t] # "absent" /\ (pc[t] = "start" => next = t),
         t \in Requests /\ current # NoSession => pc'[t] \in Replacing,
         t \notin Requests /\ current # NoSession => pc'[t] \in {"cancel", "finalize"}
  PROVE  Targets' /\ OneLiveSession'
<1> USE DEF TypeOK, Threads, ThreadsAssumption, Moves
<1>1. Targets' BY DEF Targets
<1>2. OneLiveSession'
  <2> SUFFICES ASSUME NEW s \in Requests, Live(s)'
               PROVE  current' = s \/ \E u \in Threads \ Readers : target'[u] = s
    BY DEF OneLiveSession
  <2>1. CASE s = t /\ pc[s] = "start" BY <2>1
  <2>2. CASE ~(s = t /\ pc[s] = "start")
    <3>1. Live(s) BY <2>2 DEF Live
    <3>2. CASE current = s
      <4>1. target'[t] = s BY <3>2
      <4> QED BY <4>1
    <3>3. CASE \E u \in Threads \ Readers : target[u] = s
      <4>1. PICK u \in Threads \ Readers : target[u] = s BY <3>3
      <4>2. u # t BY <4>1
      <4>3. target'[u] = s BY <4>1, <4>2
      <4> QED BY <4>3
    <3> QED BY <3>1, <3>2, <3>3 DEF OneLiveSession
  <2> QED BY <2>1, <2>2
<1> QED BY <1>1, <1>2

LEMMA CancelKeeps ==
  ASSUME TypeOK, Targets, OneLiveSession, ThreadsAssumption,
         NEW t \in Threads \ Readers, NEW label, pc[t] # "start", pc[t] # "absent",
         CancelSession(target[t]), Goto(t, label), current' = current, target' = target,
         IF t \in Requests THEN label \in Replacing ELSE label = "finalize"
  PROVE  Targets' /\ OneLiveSession'
<1> USE DEF TypeOK, Threads, ThreadsAssumption, Goto
<1>0. StoreTypes BY DEF StoreTypes
<1>1. Targets' BY DEF Targets
<1>2. \A s \in Requests : Flagged(s) BY <1>0, FlagTypes
<1>3. \A s \in Requests : session[s].done => session'[s].done
  BY DEF CancelSession, Session
<1>4. \A s \in Requests : Live(s)' => Live(s) BY <1>2, <1>3 DEF Live, Flagged
<1>5. OneLiveSession' BY <1>4 DEF OneLiveSession
<1> QED BY <1>1, <1>5

LEMMA CutKeeps ==
  ASSUME TypeOK, Targets, OneLiveSession, ThreadsAssumption,
         NEW t \in Threads \ Readers, NEW label, pc[t] # "start", pc[t] # "absent",
         CutSession(target[t]), Release(t), Goto(t, label), current' = current
  PROVE  Targets' /\ OneLiveSession'
<1> USE DEF TypeOK, Threads, ThreadsAssumption, Goto, Release
<1>0. StoreTypes BY DEF StoreTypes
<1>1. Targets' BY DEF Targets
<1>2. /\ \A s \in Requests : Flagged(s)
      /\ \A s \in Requests : session'[s].done \/ session'[s].cancelled =>
           session[s].done \/ session[s].cancelled \/ s = target[t]
      /\ target[t] \in Requests => session'[target[t]].done \/ session'[target[t]].cancelled
  BY <1>0, FlagTypes
<1>3. OneLiveSession'
  <2> SUFFICES ASSUME NEW s \in Requests, Live(s)'
               PROVE  current' = s \/ \E u \in Threads \ Readers : target'[u] = s
    BY DEF OneLiveSession
  <2>1. Live(s) BY <1>2 DEF Live, Flagged
  <2>2. s # target[t] BY <1>2 DEF Live
  <2>3. CASE current = s BY <2>3
  <2>4. CASE \E u \in Threads \ Readers : target[u] = s
    <3>1. PICK u \in Threads \ Readers : target[u] = s BY <2>4
    <3>2. target'[u] = s BY <2>2, <3>1
    <3> QED BY <3>2
  <2> QED BY <2>1, <2>3, <2>4 DEF OneLiveSession
<1> QED BY <1>1, <1>3

LEMMA ReaderKeeps ==
  ASSUME TypeOK, Targets, OneLiveSession, ThreadsAssumption, NEW g \in Readers,
         Lookup(g) \/ CheckOffset(g) \/ Read(g) \/ ReadEnds(g)
  PROVE  Targets' /\ OneLiveSession'
<1> USE DEF TypeOK, Threads, ThreadsAssumption, Goto, store, control, Targets, OneLiveSession,
            Live
<1>1. CASE Lookup(g)
  <2>1. current' = current /\ session' = session /\ target' = [target EXCEPT ![g] = current]
        /\ pc' = [pc EXCEPT ![g] = IF current = NoSession THEN "not_found" ELSE "check"]
    BY <1>1 DEF Lookup
  <2>2. Targets' BY <2>1
  <2>3. OneLiveSession' BY <2>1
  <2> QED BY <2>2, <2>3
<1>2. CASE CheckOffset(g)
  <2>1. current' = current /\ session' = session /\ target' = target
        /\ \E label \in {"offset_lost", "read"} : pc' = [pc EXCEPT ![g] = label]
        /\ pc[g] = "check"
    BY <1>2 DEF CheckOffset
  <2> QED BY <2>1
<1>3. CASE Read(g) BY <1>3 DEF Read
<1>4. CASE ReadEnds(g)
  <2>1. current' = current /\ session' = session /\ target' = target
        /\ \E label \in {"lost", "ended"} : pc' = [pc EXCEPT ![g] = label]
        /\ pc[g] = "read"
    BY <1>4 DEF ReadEnds
  <2> QED BY <2>1
<1> QED BY <1>1, <1>2, <1>3, <1>4

\* The chunk of r reaches its ring, and no other session.
LEMMA TeeStep ==
  ASSUME TypeOK, SizesAssumption, NEW r \in Requests, Tee(r)
  PROVE  /\ session'[r] = Appended(session[r], chunk[r])
         /\ \A s \in Requests \ {r} : session'[s] = session[s]
         /\ FlagsStay
<1>1. session[r] \in Session /\ Len(session[r].buffer) <= Cap /\ chunk[r] \in Seq(Nat)
  BY DEF TypeOK
<1>2. session' = [session EXCEPT ![r] = Appended(session[r], chunk[r])] BY DEF Tee
<1>3. /\ Appended(session[r], chunk[r]).done = session[r].done
      /\ Appended(session[r], chunk[r]).cancelled = session[r].cancelled
  BY <1>1, AppendedRing
<1> QED BY <1>2, <1>3 DEF TypeOK, FlagsStay

LEMMA RequestKeeps ==
  ASSUME TypeOK, SizesAssumption, Targets, OneLiveSession, ThreadsAssumption,
         NEW r \in Requests,
         \/ CreateOrReplace(r) \/ RequestNext(r) \/ FirstGivesUp(r) \/ Dropped(r)
  PROVE  Targets' /\ OneLiveSession'
<1> USE DEF Threads, ThreadsAssumption, Goto, store, StopThen, Moves
<1>r. /\ r \in Threads \ Readers
      /\ pc[r] \notin Replacing => target[r] = NoSession
  BY DEF Targets
<1>1. CASE CreateOrReplace(r)
  <2>1. /\ pc[r] = "start" /\ current' = r /\ session' = session
        /\ target' = [target EXCEPT ![r] = current]
        /\ pc' = [pc EXCEPT ![r] = IF current = NoSession THEN "post" ELSE "replace_cancel"]
    BY <1>1 DEF CreateOrReplace, ReplaceCurrent
  <2>2. target[r] = NoSession BY <1>r, <2>1 DEF Replacing
  <2>3. current # NoSession => pc'[r] \in Replacing BY <2>1 DEF TypeOK, Replacing
  <2> QED BY <1>r, <2>1, <2>2, <2>3, TakeKeeps
<1>2. CASE ReplaceCancel(r)
  <2>1. /\ pc[r] = "replace_cancel" /\ current' = current /\ target' = target
        /\ CancelSession(target[r]) /\ Goto(r, "replace_finalize")
    BY <1>2 DEF ReplaceCancel
  <2>2. "replace_finalize" \in Replacing BY DEF Replacing
  <2> QED BY <1>r, <2>1, <2>2, CancelKeeps
<1>3. CASE ReplaceFinalize(r)
  <2>1. /\ pc[r] = "replace_finalize" /\ current' = current
        /\ CutSession(target[r]) /\ Release(r) /\ Goto(r, "post")
    BY <1>3 DEF ReplaceFinalize
  <2> QED BY <1>r, <2>1, CutKeeps
<1>4. CASE EvictFinalize(r)
  <2>1. /\ pc[r] = "evict_finalize" /\ current' = current
        /\ CutSession(target[r]) /\ Release(r) /\ Goto(r, "stop_remove")
    BY <1>4 DEF EvictFinalize
  <2> QED BY <1>r, <2>1, CutKeeps
<1>5. CASE EvictCurrent(r) /\ current # NoSession
  <2>1. /\ pc[r] = "complete" /\ current' = NoSession /\ session' = session
        /\ target' = [target EXCEPT ![r] = current]
        /\ pc' = [pc EXCEPT ![r] = "evict_finalize"]
    BY <1>5 DEF EvictCurrent, TakeCurrent
  <2>2. target[r] = NoSession BY <1>r, <2>1 DEF Replacing
  <2>3. pc'[r] \in Replacing BY <2>1 DEF TypeOK, Replacing
  <2> QED BY <1>r, <2>1, <2>2, <2>3, TakeKeeps
<1>6. CASE Tee(r)
  <2>1. FlagsStay BY <1>6, TeeStep
  <2>2. /\ pc[r] \notin Replacing \cup {"start", "absent"} /\ Moves(r)
        /\ current' = current /\ target' = target
    BY <1>6 DEF Tee, Replacing
  <2> QED BY <2>1, <2>2, MoveKeeps
<1>7. CASE Finalize(r)
  <2>1. session' = [session EXCEPT ![r].done = TRUE] BY <1>7 DEF Finalize, FinalizeOwn
  <2>2. FlagsStay BY <2>1 DEF TypeOK, Session, FlagsStay
  <2>3. /\ pc[r] \notin Replacing \cup {"start", "absent"} /\ Moves(r)
        /\ current' = current /\ target' = target
    BY <1>7 DEF Finalize, Replacing
  <2> QED BY <2>2, <2>3, MoveKeeps
<1>8. CASE Dropped(r)
  <2>1. pc' = pc /\ current' = current /\ target' = target /\ session' = session
    BY <1>8 DEF Dropped, DrainRest
  <2> QED BY <2>1 DEF Targets, OneLiveSession, Live
<1>9. CASE \/ PostTask(r) \/ Reject(r) \/ FirstResult(r) \/ FirstGivesUp(r) \/ NextStopped(r)
           \/ NextFlush(r) \/ NextDone(r) \/ NextResult(r) \/ Send(r)
           \/ (EvictCurrent(r) /\ current = NoSession) \/ StopRemove(r) \/ StopCancel(r)
  <2>1. current' = current /\ target' = target /\ session' = session
    BY <1>9 DEF PostTask, Reject, FirstResult, FirstGivesUp, NextStopped, NextFlush, NextDone,
                NextResult, Send, EvictCurrent, StopRemove, StopCancel
  <2>2. pc[r] \notin Replacing \cup {"start", "absent"}
    BY <1>9 DEF PostTask, Reject, FirstResult, FirstGivesUp, NextStopped, NextFlush, NextDone,
                NextResult, Send, EvictCurrent, StopRemove, StopCancel, Replacing
  <2>3. Moves(r)
    BY <1>9 DEF PostTask, Reject, FirstResult, FirstGivesUp, NextStopped, NextFlush, NextDone,
                NextResult, Send, EvictCurrent, StopRemove, StopCancel
  <2> QED BY <2>1, <2>2, <2>3, MoveKeeps DEF FlagsStay
<1> QED BY <1>1, <1>2, <1>3, <1>4, <1>5, <1>6, <1>7, <1>8, <1>9 DEF RequestNext

LEMMA OtherKeeps ==
  ASSUME TypeOK, Targets, OneLiveSession, ThreadsAssumption,
         \/ \E d \in Deleters : DeleteTake(d) \/ DeleteCancel(d) \/ FinalizeTaken(d)
         \/ Shutdown \/ FinalizeTaken(Main) \/ CollectGarbage
  PROVE  Targets' /\ OneLiveSession'
<1> USE DEF Threads, ThreadsAssumption, Goto, store, control
<1>t. \A t \in Deleters \cup {Main} :
        /\ t \in Threads \ Readers /\ t \notin Requests
        /\ pc[t] = "start" => target[t] = NoSession
  BY DEF Targets
<1>1. ASSUME NEW t \in Deleters \cup {Main}, NEW found \in {"cancel", "finalize"},
             pc[t] = "start", TakeCurrent(t, found, "done"), session' = session
      PROVE  Targets' /\ OneLiveSession'
  <2>1. /\ target' = [target EXCEPT ![t] = current] /\ current' = NoSession /\ Moves(t)
        /\ current # NoSession => pc'[t] \in {"cancel", "finalize"}
    BY <1>1, <1>t DEF TakeCurrent, Moves, TypeOK
  <2> QED BY <1>1, <1>t, <2>1, TakeKeeps
<1>2. ASSUME NEW d \in Deleters, DeleteTake(d) PROVE Targets' /\ OneLiveSession'
  BY <1>1, <1>2 DEF DeleteTake
<1>3. CASE Shutdown BY <1>1, <1>3 DEF Shutdown
<1>4. ASSUME NEW d \in Deleters, DeleteCancel(d) PROVE Targets' /\ OneLiveSession'
  <2>1. /\ pc[d] = "cancel" /\ current' = current /\ target' = target
        /\ CancelSession(target[d]) /\ Goto(d, "finalize")
    BY <1>4 DEF DeleteCancel
  <2> QED BY <1>t, <2>1, CancelKeeps
<1>5. ASSUME NEW t \in Deleters \cup {Main}, FinalizeTaken(t) PROVE Targets' /\ OneLiveSession'
  <2>1. /\ pc[t] = "finalize" /\ current' = current
        /\ CutSession(target[t]) /\ Release(t) /\ Goto(t, "done")
    BY <1>5 DEF FinalizeTaken
  <2> QED BY <1>t, <2>1, CutKeeps
<1>6. CASE CollectGarbage
  BY <1>6 DEF CollectGarbage, Targets, OneLiveSession, Live
<1> QED BY <1>2, <1>3, <1>4, <1>5, <1>6

-----------------------------------------------------------------------------
(* Replays                                                                  *)

LEMMA ReplayKeeps ==
  ASSUME TypeOK, Targets, NothingRead, ReplayFaithful, NEW g \in Readers,
         \A r \in Requests : Numbered(session[r].buffer, session[r].dropped),
         Lookup(g) \/ CheckOffset(g) \/ Read(g) \/ ReadEnds(g)
  PROVE  NothingRead' /\ ReplayFaithful'
<1> USE DEF ReplayFaithful
<1>0. NothingRead'
  <2>1. CASE Lookup(g) BY <2>1 DEF Lookup, Goto, TypeOK, Threads, NothingRead
  <2>2. CASE CheckOffset(g)
    BY <2>2 DEF CheckOffset, Goto, replay, TypeOK, Threads, NothingRead
  <2>3. CASE Read(g)
    <3>1. pc' = pc /\ pc[g] # "start" /\ \A h \in Readers \ {g} : got'[h] = got[h]
      BY <2>3 DEF Read, control, TypeOK
    <3> QED BY <3>1 DEF NothingRead
  <2>4. CASE ReadEnds(g)
    BY <2>4 DEF ReadEnds, Goto, replay, TypeOK, Threads, NothingRead
  <2> QED BY <2>1, <2>2, <2>3, <2>4
<1> SUFFICES ReplayFaithful' BY <1>0
<1>1. CASE Lookup(g)
  <2>1. got' = got /\ \A h \in Readers \ {g} : offset'[h] = offset[h]
    BY <1>1 DEF Lookup, TypeOK
  <2>2. got[g] = <<>> BY <1>1 DEF Lookup, NothingRead
  <2> QED BY <2>1, <2>2
<1>2. CASE CheckOffset(g) BY <1>2 DEF CheckOffset, replay
<1>3. CASE ReadEnds(g) BY <1>3 DEF ReadEnds, replay
<1>4. CASE Read(g)
  <2>1. target[g] \in Requests BY <1>4 DEF Read, Targets
  <2>2. PICK b \in Seq(Nat) :
          /\ Numbered(b, offset[g])
          /\ got' = [got EXCEPT ![g] = got[g] \o b]
          /\ offset' = [offset EXCEPT ![g] = offset[g] + Len(b)]
    BY <1>4, <2>1, ReadStep
  <2>3. /\ got[g] \in Seq(Nat) /\ offset[g] \in Nat
        /\ Len(got[g]) \in Nat /\ Len(b) \in Nat /\ DOMAIN got[g] = 1..Len(got[g])
    BY LenProperties DEF TypeOK
  <2>4. /\ got[g] \o b \in Seq(Nat) /\ Len(got[g] \o b) = Len(got[g]) + Len(b)
        /\ DOMAIN (got[g] \o b) = 1..(Len(got[g]) + Len(b))
        /\ \A i \in 1..(Len(got[g]) + Len(b)) :
             (got[g] \o b)[i] = IF i <= Len(got[g]) THEN got[g][i] ELSE b[i - Len(got[g])]
    BY <2>3, ConcatProperties, LenProperties
  <2>5. got'[g] = got[g] \o b /\ offset'[g] = offset[g] + Len(b)
    BY <2>2 DEF TypeOK
  <2>6. ASSUME NEW i \in DOMAIN got'[g]
        PROVE  got'[g][i] = offset'[g] - Len(got'[g]) + i
    <3>1. i \in 1..(Len(got[g]) + Len(b)) BY <2>4, <2>5
    <3>2. offset'[g] - Len(got'[g]) + i = offset[g] - Len(got[g]) + i
      BY <2>3, <2>4, <2>5, <3>1
    <3>3. CASE i <= Len(got[g])
      <4>1. i \in DOMAIN got[g] BY <2>3, <3>1, <3>3
      <4>2. got'[g][i] = got[g][i] BY <2>4, <2>5, <3>1, <3>3
      <4> QED BY <3>2, <4>1, <4>2
    <3>4. CASE ~(i <= Len(got[g]))
      <4>1. i - Len(got[g]) \in 1..Len(b) BY <2>3, <3>1, <3>4
      <4>2. got'[g][i] = b[i - Len(got[g])] BY <2>4, <2>5, <3>1, <3>4
      <4>3. b[i - Len(got[g])] = offset[g] + (i - Len(got[g])) BY <2>2, <4>1 DEF Numbered
      <4> QED BY <2>3, <3>1, <3>2, <4>2, <4>3
    <3> QED BY <3>3, <3>4
  <2>7. \A h \in Readers \ {g} : got'[h] = got[h] /\ offset'[h] = offset[h]
    BY <2>2 DEF TypeOK
  <2> QED BY <2>6, <2>7
<1> QED BY <1>0, <1>1, <1>2, <1>3, <1>4

-----------------------------------------------------------------------------
(* The steps of a request keep what is true of it                           *)

LEMMA SetUpRight ==
  ASSUME TypeOK, NEW r \in Requests, \A s \in Requests : Right(s),
         CreateOrReplace(r) \/ ReplaceCancel(r) \/ ReplaceFinalize(r)
  PROVE  \A s \in Requests : Right(s)'
<1> USE DEF results, slots, producer, control, Goto, Rest, Walks, Stays, SetUp
<1>0. StoreTypes BY DEF TypeOK, StoreTypes
<1>1. CASE CreateOrReplace(r)
  <2> SUFFICES ASSUME NEW s \in Requests PROVE Right(s)' OBVIOUS
  <2>1. Rest(s) BY <1>1 DEF CreateOrReplace
  <2>2. Flagged(s) BY <1>1 DEF CreateOrReplace, Flagged
  <2>3. Walks(s) BY <1>1 DEF CreateOrReplace, ReplaceCurrent, TypeOK, Threads
  <2> QED BY <2>1, <2>2, <2>3, Walk
<1>2. CASE ReplaceCancel(r)
  <2> SUFFICES ASSUME NEW s \in Requests PROVE Right(s)' OBVIOUS
  <2>1. Rest(s) BY <1>2 DEF ReplaceCancel
  <2>2. Flagged(s) BY <1>0, <1>2, FlagTypes DEF ReplaceCancel
  <2>3. Walks(s) BY <1>2 DEF ReplaceCancel, TypeOK, Threads
  <2> QED BY <2>1, <2>2, <2>3, Walk
<1>3. CASE ReplaceFinalize(r)
  <2> SUFFICES ASSUME NEW s \in Requests PROVE Right(s)' OBVIOUS
  <2>1. Rest(s) BY <1>3 DEF ReplaceFinalize
  <2>2. Flagged(s) BY <1>0, <1>3, FlagTypes DEF ReplaceFinalize
  <2>3. Walks(s) BY <1>3 DEF ReplaceFinalize, TypeOK, Threads
  <2> QED BY <2>1, <2>2, <2>3, Walk
<1> QED BY <1>1, <1>2, <1>3

LEMMA EvictRight ==
  ASSUME TypeOK, NEW r \in Requests, \A s \in Requests : Right(s),
         EvictCurrent(r) \/ EvictFinalize(r)
  PROVE  \A s \in Requests : Right(s)'
<1> USE DEF results, slots, producer, Goto, StopThen, Rest, Walks, Stays, Leaving
<1>0. StoreTypes BY DEF TypeOK, StoreTypes
<1>1. CASE EvictCurrent(r)
  <2> SUFFICES ASSUME NEW s \in Requests PROVE Right(s)' OBVIOUS
  <2>1. Rest(s) BY <1>1 DEF EvictCurrent
  <2>2. Flagged(s) BY <1>1 DEF EvictCurrent, Flagged
  <2>3. Walks(s) BY <1>1 DEF EvictCurrent, TakeCurrent, TypeOK, Threads
  <2> QED BY <2>1, <2>2, <2>3, Walk
<1>2. CASE EvictFinalize(r)
  <2> SUFFICES ASSUME NEW s \in Requests PROVE Right(s)' OBVIOUS
  <2>1. Rest(s) BY <1>2 DEF EvictFinalize
  <2>2. Flagged(s) BY <1>0, <1>2, FlagTypes DEF EvictFinalize
  <2>3. Walks(s) BY <1>2 DEF EvictFinalize, TypeOK, Threads
  <2> QED BY <2>1, <2>2, <2>3, Walk
<1> QED BY <1>1, <1>2

LEMMA OthersRight ==
  ASSUME TypeOK, ThreadsAssumption, \A s \in Requests : Right(s),
         \/ \E g \in Readers : Lookup(g) \/ CheckOffset(g) \/ Read(g) \/ ReadEnds(g)
         \/ \E d \in Deleters : DeleteTake(d) \/ DeleteCancel(d) \/ FinalizeTaken(d)
         \/ Shutdown \/ FinalizeTaken(Main) \/ CollectGarbage
  PROVE  \A s \in Requests : Right(s)'
<1> USE DEF results, slots, producer, store, control, Goto, ThreadsAssumption, TypeOK, Threads
<1> SUFFICES ASSUME NEW s \in Requests PROVE Right(s)' OBVIOUS
<1>0. StoreTypes BY DEF StoreTypes
<1>1. Rest(s)
  BY DEF Rest, Lookup, CheckOffset, Read, ReadEnds, DeleteTake, DeleteCancel, FinalizeTaken,
         Shutdown, CollectGarbage
<1>2. Stays(s)
  <2>1. resume' = resume
    BY DEF Lookup, CheckOffset, Read, ReadEnds, DeleteTake, DeleteCancel, FinalizeTaken,
           Shutdown, CollectGarbage
  <2>2. pc' = pc \/ \E t \in Threads \ Requests : \E label : pc' = [pc EXCEPT ![t] = label]
    <3>1. CASE \E g \in Readers : Lookup(g) \/ CheckOffset(g) \/ Read(g) \/ ReadEnds(g)
      BY <3>1 DEF Lookup, CheckOffset, Read, ReadEnds
    <3>2. CASE \E d \in Deleters : DeleteTake(d) \/ DeleteCancel(d) \/ FinalizeTaken(d)
      BY <3>2 DEF DeleteTake, DeleteCancel, FinalizeTaken, TakeCurrent
    <3>3. CASE Shutdown \/ FinalizeTaken(Main) \/ CollectGarbage
      BY <3>3 DEF Shutdown, FinalizeTaken, CollectGarbage, TakeCurrent
    <3> QED BY <3>1, <3>2, <3>3
  <2>3. pc'[s] = pc[s] BY <2>2
  <2> QED BY <2>1, <2>3 DEF Stays
<1>3. session' = session \/ \E x : CancelSession(x) \/ CutSession(x)
  BY DEF Lookup, CheckOffset, Read, ReadEnds, DeleteTake, DeleteCancel, FinalizeTaken,
         Shutdown, CollectGarbage
<1>4. Flagged(s) BY <1>0, <1>3, FlagTypes DEF Flagged
<1> QED BY <1>1, <1>2, <1>4, Walk DEF Walks

\* What a request or its task does with no other session leaves the other
\* requests alone.
LEMMA Apart ==
  ASSUME TypeOK, SizesAssumption, NEW r \in Requests, NEW s \in Requests \ {r}, Right(s),
         \/ PostTask(r) \/ Reject(r) \/ FirstResult(r) \/ FirstGivesUp(r) \/ NextStopped(r)
         \/ NextFlush(r) \/ NextDone(r) \/ NextResult(r) \/ Tee(r) \/ Send(r) \/ Dropped(r)
         \/ StopRemove(r) \/ StopCancel(r) \/ Finalize(r) \/ HandleCancel(r)
         \/ \E kind \in {"partial", "final", "error"} : Emit(r, kind)
  PROVE  Right(s)'
<1> USE DEF TypeOK, Threads, results, slots, store, control, producer, Goto, StopThen, Hand,
            Receive
<1>1. CASE PostTask(r) \/ Reject(r) \/ FirstGivesUp(r) \/ NextStopped(r) \/ NextFlush(r)
           \/ NextDone(r) \/ Dropped(r)
  <2>1. Rest(s)
    <3>1. CASE PostTask(r) \/ Reject(r) BY <3>1 DEF PostTask, Reject, Rest
    <3>2. CASE FirstGivesUp(r) BY <3>2 DEF FirstGivesUp, DrainRest, Rest
    <3>3. CASE NextStopped(r) \/ NextFlush(r) BY <3>3 DEF NextStopped, NextFlush, DrainRest, Rest
    <3>4. CASE NextDone(r) \/ Dropped(r) BY <3>4 DEF NextDone, Dropped, DrainRest, Rest
    <3> QED BY <1>1, <3>1, <3>2, <3>3, <3>4
  <2>2. Stays(s)
    <3>1. CASE PostTask(r) \/ Reject(r) BY <3>1 DEF PostTask, Reject, Stays
    <3>2. CASE FirstGivesUp(r) BY <3>2 DEF FirstGivesUp, DrainRest, Stays
    <3>3. CASE NextStopped(r) \/ NextFlush(r) BY <3>3 DEF NextStopped, NextFlush, DrainRest, Stays
    <3>4. CASE NextDone(r) \/ Dropped(r) BY <3>4 DEF NextDone, Dropped, DrainRest, Stays
    <3> QED BY <1>1, <3>1, <3>2, <3>3, <3>4
  <2>3. session' = session
    <3>1. CASE PostTask(r) \/ Reject(r) BY <3>1 DEF PostTask, Reject
    <3>2. CASE FirstGivesUp(r) BY <3>2 DEF FirstGivesUp
    <3>3. CASE NextStopped(r) \/ NextFlush(r) BY <3>3 DEF NextStopped, NextFlush
    <3>4. CASE NextDone(r) \/ Dropped(r) BY <3>4 DEF NextDone, Dropped
    <3> QED BY <1>1, <3>1, <3>2, <3>3, <3>4
  <2> QED BY <2>1, <2>2, <2>3, Walk DEF Walks, Flagged
<1>2. CASE FirstResult(r)
  <2>1. Rest(s) BY <1>2 DEF FirstResult, Rest
  <2>2. Stays(s) BY <1>2 DEF FirstResult, Stays
  <2>3. session' = session BY <1>2 DEF FirstResult
  <2> QED BY <2>1, <2>2, <2>3, Walk DEF Walks, Flagged
<1>3. CASE NextResult(r)
  <2>1. Rest(s) BY <1>3 DEF NextResult, Rest
  <2>2. Stays(s) BY <1>3 DEF NextResult, Stays
  <2>3. session' = session BY <1>3 DEF NextResult
  <2> QED BY <2>1, <2>2, <2>3, Walk DEF Walks, Flagged
<1>4. CASE Tee(r)
  <2>1. Rest(s) BY <1>4 DEF Tee, Rest
  <2>2. Stays(s) BY <1>4 DEF Tee, Stays
  <2>3. session'[s] = session[s] BY <1>4, TeeStep
  <2> QED BY <2>1, <2>2, <2>3, Walk DEF Walks, Flagged
<1>5. CASE Send(r)
  <2>1. Rest(s) BY <1>5 DEF Send, Sent, SendFails, Rest
  <2>2. Stays(s) BY <1>5 DEF Send, Stays
  <2>3. session' = session BY <1>5 DEF Send
  <2> QED BY <2>1, <2>2, <2>3, Walk DEF Walks, Flagged
<1>6. CASE StopRemove(r) \/ HandleCancel(r)
  <2>1. Rest(s) BY <1>6 DEF StopRemove, HandleCancel, Rest
  <2>2. Stays(s) BY <1>6 DEF StopRemove, HandleCancel, Stays
  <2>3. session' = session BY <1>6 DEF StopRemove, HandleCancel
  <2> QED BY <2>1, <2>2, <2>3, Walk DEF Walks, Flagged
<1>7. CASE StopCancel(r)
  <2>1. Rest(s) BY <1>7 DEF StopCancel, WithoutResults, CancelPosted, Rest
  <2>2. Stays(s) BY <1>7 DEF StopCancel, Stays
  <2>3. session' = session BY <1>7 DEF StopCancel
  <2> QED BY <2>1, <2>2, <2>3, Walk DEF Walks, Flagged
<1>8. CASE Finalize(r)
  <2>1. Rest(s) BY <1>8 DEF Finalize, Rest
  <2>2. Stays(s) BY <1>8 DEF Finalize, Stays
  <2>3. session'[s] = session[s] BY <1>8 DEF Finalize, FinalizeOwn
  <2> QED BY <2>1, <2>2, <2>3, Walk DEF Walks, Flagged
<1>9. CASE \E kind \in {"partial", "final", "error"} : Emit(r, kind)
  <2>1. Rest(s) BY <1>9 DEF Emit, Rest
  <2>2. Stays(s) BY <1>9 DEF Emit, Stays
  <2>3. session' = session BY <1>9 DEF Emit
  <2> QED BY <2>1, <2>2, <2>3, Walk DEF Walks, Flagged
<1> QED BY <1>1, <1>2, <1>3, <1>4, <1>5, <1>6, <1>7, <1>8, <1>9

\* A request before its first result: the task is posted, or there is none.
LEMMA PostRight ==
  ASSUME TypeOK, NEW r \in Requests, Right(r), PostTask(r) \/ Reject(r) \/ FirstGivesUp(r)
  PROVE  Right(r)'
<1> USE DEF TypeOK, Threads, results, slots, store, control, producer, Goto
<1>1. CASE PostTask(r)
  <2>1. /\ pc[r] = "post" /\ pc'[r] = "first" /\ session' = session /\ resume' = resume
        /\ generation'[r] = "running" /\ r \in waiting'
        /\ UNCHANGED <<queue_results, emitted, rd, chunk, last, streamed, draining, sent>>
    BY <1>1 DEF PostTask
  <2>2. /\ generation[r] = "none" /\ r \notin streamed /\ ~rd[r].finished /\ ~rd[r].cancelled
        /\ chunk[r] = <<>> /\ ~last[r] /\ sent[r] = 0
        /\ session[r].buffer = <<>> /\ session[r].dropped = 0
        /\ queue_results[r] = <<>> /\ emitted[r] = 0
    BY <2>1 DEF Right, Stages, SetUpIsFresh, Untouched, Reception, SetUp
  <2>3. Total(r) = 0 /\ Total(r)' = 0 BY <2>1, <2>2, EmptySeq DEF Total
  <2>4. SetUpIsFresh(r)' /\ Untouched(r)' BY <2>1, <2>2 DEF SetUpIsFresh, Untouched, SetUp
  <2>5. Reception(r)' BY <2>1, <2>2 DEF Reception
  <2>6. Streaming(r)'
    BY <2>1, <2>2 DEF Right, Stages, Streaming, Streams, StopsForTee, Stops, Active
  <2>7. Flow(r)'
    <3>1. Ahead(r)' = 0 BY <2>1, <2>2, <2>3, EmptySeq DEF Ahead
    <3>2. Chain(queue_results[r], 0, 0) BY <2>2, EmptySeq DEF Chain
    <3>3. Numbered(<<>>, 0) BY EmptySeq DEF Numbered
    <3>4. Active(r)' BY <2>1 DEF Active
    <3> QED BY <2>1, <2>2, <2>3, <3>1, <3>2, <3>3, <3>4 DEF Right, Flow
  <2>8. Wire(r)' BY <2>1, <2>2, <2>3 DEF Wire
  <2> QED BY <2>4, <2>5, <2>6, <2>7, <2>8 DEF Right, Stages
<1>2. CASE Reject(r) \/ FirstGivesUp(r)
  <2>1. /\ pc[r] \in {"post", "first"} /\ pc'[r] = "complete" /\ session' = session
        /\ UNCHANGED <<waiting, queue_results, generation, emitted, resume, rd, chunk, last,
                       streamed, draining, sent>>
    BY <1>2 DEF Reject, FirstGivesUp
  <2>2. r \notin streamed
    BY <2>1 DEF Right, Stages, SetUpIsFresh, Streaming, SetUp
  <2>3. SetUpIsFresh(r)' /\ Untouched(r)' BY <2>1 DEF SetUpIsFresh, Untouched, SetUp
  <2>4. Reception(r)' BY <2>1 DEF Right, Stages, Reception
  <2>5. Streaming(r)'
    BY <2>1 DEF Right, Stages, Streaming, Streams, StopsForTee, Stops, Active
  <2>6. Flow(r)'
    <3>1. ~Active(r)' BY <2>1 DEF Active, Streams, StopsForTee, Stops
    <3> QED BY <2>1, <2>2, <3>1 DEF Right, Flow
  <2>7. Wire(r)' BY <2>1 DEF Right, Wire, Total
  <2> QED BY <2>3, <2>4, <2>5, <2>6, <2>7 DEF Right, Stages
<1> QED BY <1>1, <1>2

\* What taking the oldest result means for the results that stay.
LEMMA TakenRight ==
  ASSUME TypeOK, NEW r \in Requests, Reception(r), Receive(r)
  PROVE  /\ r \in waiting \/ pc[r] = "stop_cancel"
         /\ ~rd[r].finished /\ ~rd[r].cancelled /\ generation[r] # "none"
         /\ Received(r).kind # "partial" =>
              queue_results'[r] = <<>> /\ Len(queue_results[r]) = 1 /\ generation[r] = "ended"
         /\ \A i \in DOMAIN queue_results'[r] : queue_results'[r][i].kind # "partial" =>
              i = Len(queue_results'[r]) /\ generation[r] = "ended"
<1> DEFINE q == queue_results[r]
           p == queue_results'[r]
<1>1. q \in Seq(Result) /\ queue_results \in [Requests -> Seq(Result)] BY DEF TypeOK
<1>2. q # <<>> /\ Received(r) = q[1] /\ p = RemoveAt(q, 1) BY <1>1, ReceiveTypes
<1>3. /\ p \in Seq(Result) /\ Len(p) = Len(q) - 1
      /\ \A i \in 1..(Len(q) - 1) : p[i] = q[i + 1]
  BY <1>1, <1>2, OldestRemoved
<1>4. Len(q) \in Nat /\ Len(q) > 0 /\ DOMAIN q = 1..Len(q) /\ DOMAIN p = 1..(Len(q) - 1)
  BY <1>1, <1>2, <1>3, EmptySeq, LenProperties
<1>5. /\ rd[r].finished => q = <<>>
      /\ rd[r].cancelled => q = <<>>
      /\ generation[r] = "none" => q = <<>>
      /\ \A i \in DOMAIN q : q[i].kind # "partial" => i = Len(q) /\ generation[r] = "ended"
      /\ q # <<>> => r \in waiting \/ pc[r] = "stop_cancel"
  BY DEF Reception
<1> HIDE DEF q, p
<1>6. Received(r).kind # "partial" => p = <<>> /\ Len(q) = 1 /\ generation[r] = "ended"
  <2>1. 1 \in DOMAIN q BY <1>4
  <2>2. Len(q) = 1 => p = <<>>
    <3>1. Len(q) = 1 => Len(p) = 0 BY <1>3
    <3> QED BY <1>3, <3>1, EmptySeq
  <2> QED BY <1>2, <1>5, <2>1, <2>2
<1>7. ASSUME NEW i \in DOMAIN p, p[i].kind # "partial"
      PROVE  i = Len(p) /\ generation[r] = "ended"
  <2>1. i \in 1..(Len(q) - 1) /\ i + 1 \in DOMAIN q BY <1>4
  <2>2. p[i] = q[i + 1] BY <1>3, <2>1
  <2>3. i + 1 = Len(q) /\ generation[r] = "ended" BY <1>5, <1>7, <2>1, <2>2
  <2> QED BY <1>3, <1>4, <2>1, <2>3
<1> QED BY <1>2, <1>5, <1>6, <1>7 DEF q, p

LEMMA FirstRight ==
  ASSUME TypeOK, NEW r \in Requests, Right(r), FirstResult(r)
  PROVE  Right(r)'
<1> DEFINE q == queue_results[r]
           x == Received(r)
<1>0. queue_results \in [Requests -> Seq(Result)] /\ Receive(r) BY DEF FirstResult, TypeOK
<1>1. /\ q \in Seq(Result) /\ q # <<>> /\ x = q[1] /\ x.bytes \in Seq(Nat)
      /\ queue_results'[r] = RemoveAt(q, 1)
  BY <1>0, ReceiveTypes DEF TypeOK
<1>2. Reception(r) BY DEF Right, Stages
<1>3. /\ r \in waiting \/ pc[r] = "stop_cancel"
      /\ ~rd[r].finished /\ ~rd[r].cancelled /\ generation[r] # "none"
      /\ x.kind # "partial" =>
           queue_results'[r] = <<>> /\ Len(q) = 1 /\ generation[r] = "ended"
      /\ \A i \in DOMAIN queue_results'[r] : queue_results'[r][i].kind # "partial" =>
           i = Len(queue_results'[r]) /\ generation[r] = "ended"
  BY <1>0, <1>2, TakenRight
<1>4. /\ pc[r] = "first" /\ session' = session
      /\ UNCHANGED <<waiting, generation, emitted, last, draining, sent>>
  BY DEF FirstResult, slots, store
<1>5. /\ r \notin streamed /\ ~last[r] /\ chunk[r] = <<>> /\ r \in waiting
      /\ session[r].done => session[r].cut
      /\ resume[r] \in {"tee", "complete", "finalize"}
  BY <1>4 DEF Right, Stages, Streaming, Untouched, Active
<1>6. Total(r) \in Nat /\ Len(session[r].buffer) \in Nat
  BY LenProperties DEF TypeOK, Session, Total
<1>w. Wire(r)'
  <2>1. pc'[r] # "send" BY <1>4 DEF FirstResult, TypeOK, Threads, Goto, StopThen
  <2> QED BY <1>4, <2>1 DEF Right, Wire, Total
<1>7. CASE x.kind = "error"
  <2>1. /\ pc'[r] = "stop_remove" /\ resume'[r] = "complete"
        /\ rd' = rd /\ chunk' = chunk /\ streamed' = streamed
    BY <1>7 DEF FirstResult, StopThen, Goto, TypeOK, Threads
  <2>2. SetUpIsFresh(r)' /\ Untouched(r)' BY <2>1 DEF SetUpIsFresh, Untouched, SetUp
  <2>3. Reception(r)' BY <1>3, <1>4, <1>5, <2>1 DEF Reception
  <2>4. ~Active(r)' BY <2>1 DEF Active, Streams, StopsForTee
  <2>5. Streaming(r)' BY <1>4, <1>5, <2>1, <2>4 DEF Streaming, Active, Streams
  <2>6. Flow(r)' BY <1>4, <1>5, <2>1, <2>4 DEF Right, Flow
  <2> QED BY <1>w, <2>2, <2>3, <2>5, <2>6 DEF Right, Stages
<1>8. CASE x.kind # "error"
  <2>1. /\ pc'[r] = "next" /\ resume' = resume
        /\ rd'[r] = [rd[r] EXCEPT !.finished = (x.kind = "final")]
        /\ chunk'[r] = x.bytes /\ r \in streamed'
    BY <1>8 DEF FirstResult, Goto, TypeOK, Threads
  <2>2. /\ rd'[r].finished => x.kind # "partial"
        /\ ~rd'[r].cancelled
    BY <1>3, <2>1 DEF TypeOK
  <2>3. SetUpIsFresh(r)' /\ Untouched(r)' BY <2>1 DEF SetUpIsFresh, Untouched, SetUp
  <2>4. Reception(r)' BY <1>3, <1>4, <1>5, <2>1, <2>2 DEF Reception
  <2>5. Active(r)' BY <2>1 DEF Active, Streams
  <2>6. Streaming(r)' BY <1>4, <1>5, <2>1 DEF Streaming, StopsForTee, Stops
  <2>7. Flow(r)'
    <3>1. Numbered(session[r].buffer, session[r].dropped) BY DEF Right, Flow
    <3>2. ASSUME ~session[r].done
          PROVE  /\ Numbered(chunk'[r], Total(r))
                 /\ Chain(queue_results'[r], Total(r) + Len(x.bytes), emitted[r])
      <4>1. Ahead(r) = Total(r)
        <5>1. Ahead(r) = Total(r) + 0 BY <1>4, <1>5, EmptySeq DEF Ahead, Untold
        <5> QED BY <1>6, <5>1
      <4>2. Chain(q, Total(r), emitted[r])
        BY <1>4, <1>5, <3>2, <4>1 DEF Right, Flow, Active
      <4>3. emitted[r] \in Nat BY DEF TypeOK
      <4> HIDE DEF q, x
      <4> QED BY <1>1, <1>6, <2>1, <4>2, <4>3, ChainTake
    <3>3. Total(r)' = Total(r) /\ Untold(r)' /\ Ahead(r)' = Total(r) + Len(x.bytes)
      BY <1>4, <2>1 DEF Total, Untold, Ahead
    <3> QED BY <1>4, <1>5, <2>1, <2>5, <3>1, <3>2, <3>3 DEF Flow
  <2> QED BY <1>w, <2>3, <2>4, <2>6, <2>7 DEF Right, Stages
<1> QED BY <1>7, <1>8

\* The next chunk, when no result is received for it.
LEMMA NextRight ==
  ASSUME TypeOK, NEW r \in Requests, Right(r),
         NextStopped(r) \/ NextFlush(r) \/ NextDone(r) \/ Dropped(r)
  PROVE  Right(r)'
<1> USE DEF TypeOK, Threads, results, slots, store, control, producer, Goto, Hand
<1>0. /\ pc[r] = "next" /\ session' = session /\ resume' = resume
      /\ UNCHANGED <<waiting, queue_results, generation, rd, streamed, sent>>
  BY DEF NextStopped, NextFlush, NextDone, Dropped, DrainRest
<1>1. /\ r \in streamed /\ ~last[r] /\ r \in waiting
      /\ session[r].done => session[r].cut
      /\ resume[r] \in {"tee", "complete", "finalize"}
  BY <1>0 DEF Right, Stages, Streaming, Streams, Active
<1>2. Total(r) \in Nat /\ Total(r)' = Total(r) /\ emitted[r] \in Nat
  <2>1. Len(session[r].buffer) \in Nat /\ session[r].dropped \in Nat
    BY LenProperties DEF Session
  <2> QED BY <1>0, <2>1 DEF Total
<1>3. Active(r) /\ Untold(r) /\ Ahead(r) = Total(r) + Len(chunk[r])
  BY <1>0 DEF Active, Streams, Untold, Ahead
<1>f. /\ Numbered(session[r].buffer, session[r].dropped)
      /\ ~session[r].done =>
           /\ Numbered(chunk[r], Total(r))
           /\ Chain(queue_results[r], Ahead(r), emitted[r])
  BY <1>1, <1>3 DEF Right, Flow
<1>w. /\ Wire(r) /\ Reception(r) BY DEF Right, Stages
<1>4. CASE NextStopped(r)
  <2>1. /\ pc'[r] = "tee" /\ chunk'[r] = <<>> /\ last'[r] /\ session[r].cancelled
        /\ emitted' = emitted
    BY <1>4 DEF NextStopped
  <2>2. SetUpIsFresh(r)' /\ Untouched(r)' BY <2>1 DEF SetUpIsFresh, Untouched, SetUp
  <2>3. Reception(r)' BY <1>0, <1>1, <1>w, <2>1 DEF Reception
  <2>4. Streaming(r)' BY <1>0, <1>1, <2>1 DEF Streaming, StopsForTee, Stops, Active
  <2>5. Flow(r)'
    <3>1. Numbered(<<>>, Total(r)) BY EmptySeq DEF Numbered
    <3>2. Active(r)' BY <2>1 DEF Active, Streams
    <3> QED BY <1>0, <1>2, <1>f, <2>1, <3>1, <3>2 DEF Flow
  <2>6. Wire(r)' BY <1>0, <1>2, <1>w, <2>1 DEF Wire
  <2> QED BY <2>2, <2>3, <2>4, <2>5, <2>6 DEF Right, Stages
<1>5. CASE NextFlush(r) \/ Dropped(r)
  <2>1. /\ pc'[r] \in {"next", "tee"} /\ chunk' = chunk /\ last' = last
        /\ emitted' = emitted
    BY <1>0, <1>5 DEF NextFlush, Dropped, DrainRest
  <2>2. SetUpIsFresh(r)' /\ Untouched(r)' BY <2>1 DEF SetUpIsFresh, Untouched, SetUp
  <2>3. Reception(r)' BY <1>0, <1>1, <1>w, <2>1 DEF Reception
  <2>4. Streaming(r)' BY <1>0, <1>1, <2>1 DEF Streaming, StopsForTee, Stops, Active
  <2>5. Active(r)' /\ Ahead(r)' = Ahead(r)
    BY <1>0, <1>2, <1>3, <2>1 DEF Active, Streams, Ahead, Untold
  <2>6. Flow(r)' BY <1>0, <1>1, <1>2, <1>f, <2>1, <2>5 DEF Flow
  <2>7. Wire(r)' BY <1>0, <1>2, <1>w, <2>1 DEF Wire
  <2> QED BY <2>2, <2>3, <2>4, <2>6, <2>7 DEF Right, Stages
<1>6. CASE NextDone(r)
  <2>1. /\ pc'[r] = "tee" /\ chunk[r] = <<>> /\ rd[r].finished
        /\ chunk' = [chunk EXCEPT ![r] = Bytes(r, 1)] /\ last'[r]
        /\ emitted'[r] = emitted[r] + 1
    BY <1>6 DEF NextDone
  <2>2. chunk'[r] = Bytes(r, 1) BY <2>1
  <2>3. generation[r] = "ended" /\ queue_results[r] = <<>> BY <1>w, <2>1 DEF Reception
  <2>4. /\ Len(Bytes(r, 1)) = 1 /\ Numbered(Bytes(r, 1), emitted[r]) BY BytesType
  <2>5. SetUpIsFresh(r)' /\ Untouched(r)' BY <2>1 DEF SetUpIsFresh, Untouched, SetUp
  <2>6. Reception(r)' BY <1>0, <1>1, <1>w, <2>1, <2>3 DEF Reception
  <2>7. Streaming(r)' BY <1>0, <1>1, <2>1 DEF Streaming, StopsForTee, Stops, Active
  <2>8. ~session[r].done => emitted[r] = Total(r)
    <3>1. Ahead(r) = Total(r)
      <4>1. Len(chunk[r]) = 0 BY <2>1, EmptySeq
      <4> QED BY <1>2, <1>3, <4>1
    <3> QED BY <1>f, <2>3, <3>1 DEF Chain
  <2>9. Flow(r)'
    <3>1. Active(r)' /\ Ahead(r)' = Total(r) + 1
      BY <1>2, <2>1, <2>2, <2>4 DEF Active, Streams, Ahead, Untold
    <3>2. session[r].done \/ Numbered(chunk'[r], Total(r)) BY <2>2, <2>4, <2>8
    <3>3. session[r].done \/ emitted'[r] = Ahead(r)' BY <2>1, <2>8, <3>1
    <3> QED BY <1>0, <1>2, <1>f, <2>1, <2>3, <3>1, <3>2, <3>3 DEF Flow
  <2>10. Wire(r)' BY <1>0, <1>2, <1>w, <2>1 DEF Wire
  <2> QED BY <2>5, <2>6, <2>7, <2>9, <2>10 DEF Right, Stages
<1> QED BY <1>4, <1>5, <1>6

LEMMA ResultRight ==
  ASSUME TypeOK, NEW r \in Requests, Right(r), NextResult(r)
  PROVE  Right(r)'
<1> DEFINE q == queue_results[r]
           x == Received(r)
<1>0. queue_results \in [Requests -> Seq(Result)] /\ Receive(r) BY DEF NextResult, TypeOK
<1>1. /\ q \in Seq(Result) /\ q # <<>> /\ x = q[1] /\ x.bytes \in Seq(Nat)
      /\ queue_results'[r] = RemoveAt(q, 1)
  BY <1>0, ReceiveTypes DEF TypeOK
<1>2. Reception(r) BY DEF Right, Stages
<1>3. /\ ~rd[r].finished /\ ~rd[r].cancelled /\ generation[r] # "none"
      /\ x.kind # "partial" =>
           queue_results'[r] = <<>> /\ Len(q) = 1 /\ generation[r] = "ended"
      /\ \A i \in DOMAIN queue_results'[r] : queue_results'[r][i].kind # "partial" =>
           i = Len(queue_results'[r]) /\ generation[r] = "ended"
  BY <1>0, <1>2, TakenRight
<1>4. /\ pc[r] = "next" /\ session' = session /\ chunk[r] = <<>>
      /\ UNCHANGED <<waiting, generation, emitted, streamed, draining, sent>>
      /\ chunk'[r] = x.bytes /\ last'[r] = (x.kind = "error")
      /\ \/ x.kind = "error" /\ rd' = rd /\ pc'[r] = "stop_remove" /\ resume'[r] = "tee"
         \/ /\ x.kind # "error" /\ pc'[r] = "tee" /\ resume' = resume
            /\ rd'[r] = [rd[r] EXCEPT !.finished = (x.kind = "final")]
  BY DEF NextResult, slots, store, Hand, Goto, StopThen, TypeOK, Threads
<1>5. /\ r \in streamed /\ ~last[r] /\ r \in waiting
      /\ session[r].done => session[r].cut
      /\ resume[r] \in {"tee", "complete", "finalize"}
  BY <1>4 DEF Right, Stages, Streaming, Streams, Active
<1>6. /\ rd'[r].finished => x.kind # "partial"
      /\ ~rd'[r].cancelled
  <2>1. CASE x.kind = "error" BY <1>3, <1>4, <2>1 DEF TypeOK
  <2>2. CASE x.kind # "error" BY <1>3, <1>4, <2>2 DEF TypeOK
  <2> QED BY <2>1, <2>2
<1>7. SetUpIsFresh(r)' /\ Untouched(r)' BY <1>4 DEF SetUpIsFresh, Untouched, SetUp
<1>8. Reception(r)' BY <1>3, <1>4, <1>5, <1>6 DEF Reception
<1>9. Streaming(r)' BY <1>4, <1>5 DEF Streaming, StopsForTee, Stops, Active
<1>10. Total(r) \in Nat /\ Total(r)' = Total(r)
  <2>1. Len(session[r].buffer) \in Nat /\ session[r].dropped \in Nat
    BY LenProperties DEF TypeOK, Session
  <2> QED BY <1>4, <2>1 DEF Total
<1>11. Wire(r)' BY <1>4, <1>10 DEF Right, Wire
<1>12. Flow(r)'
  <2>1. Numbered(session[r].buffer, session[r].dropped) BY DEF Right, Flow
  <2>2. Active(r)' BY <1>4 DEF Active, Streams, StopsForTee, Stops
  <2>3. Untold(r)' /\ Ahead(r)' = Total(r) + Len(x.bytes)
    BY <1>4, <1>10 DEF Untold, Ahead
  <2>4. ASSUME ~session[r].done
        PROVE  /\ Numbered(x.bytes, Total(r))
               /\ Chain(queue_results'[r], Total(r) + Len(x.bytes), emitted[r])
               /\ Len(q) = 1 => emitted[r] = Total(r) + Len(x.bytes)
    <3>1. Ahead(r) = Total(r)
      <4>1. Ahead(r) = Total(r) + 0 BY <1>4, EmptySeq DEF Ahead, Untold
      <4> QED BY <1>10, <4>1
    <3>2. Active(r) BY <1>4 DEF Active, Streams
    <3>3. Chain(q, Total(r), emitted[r]) BY <1>5, <2>4, <3>1, <3>2 DEF Right, Flow
    <3>4. emitted[r] \in Nat BY DEF TypeOK
    <3> HIDE DEF q, x
    <3> QED BY <1>1, <1>10, <3>3, <3>4, ChainTake
  <2>5. last'[r] => generation[r] = "ended" /\ Len(q) = 1 BY <1>3, <1>4
  <2> HIDE DEF q, x
  <2> QED BY <1>4, <1>5, <1>10, <2>1, <2>2, <2>3, <2>4, <2>5 DEF Flow
<1> QED BY <1>7, <1>8, <1>9, <1>11, <1>12 DEF Right, Stages

LEMMA TeeRight ==
  ASSUME TypeOK, SizesAssumption, NEW r \in Requests, Right(r), Tee(r)
  PROVE  Right(r)'
<1> DEFINE s == session[r]
           t == session'[r]
           data == chunk[r]
<1>1. s \in Session /\ Len(s.buffer) <= Cap /\ data \in Seq(Nat) BY DEF TypeOK
<1>2. t = Appended(s, data) BY TeeStep
<1>3. /\ s.buffer \in Seq(Nat) /\ s.dropped \in Nat /\ Len(s.buffer) \in Nat
      /\ Len(data) \in Nat /\ sent[r] \in Nat
  BY <1>1, LenProperties DEF Session, TypeOK
<1>4. /\ pc[r] = "tee"
      /\ UNCHANGED <<waiting, queue_results, generation, emitted, rd, last, streamed, draining,
                     sent>>
      /\ \/ r \notin draining /\ pc'[r] = "send" /\ chunk' = chunk /\ resume' = resume
         \/ last[r] /\ pc'[r] = "stop_remove" /\ chunk'[r] = <<>> /\ resume'[r] = "finalize"
         \/ ~last[r] /\ pc'[r] = "next" /\ chunk'[r] = <<>> /\ resume' = resume
  BY DEF Tee, results, slots, Goto, StopThen, TypeOK, Threads
<1>5. /\ r \in streamed /\ (~last[r] => r \in waiting) /\ (s.done => s.cut)
      /\ resume[r] \in {"tee", "complete", "finalize"}
  BY <1>4 DEF Right, Stages, Streaming, Streams, Active
<1>6. Active(r) /\ Untold(r) /\ Ahead(r) = Total(r) + Len(data)
  BY <1>4 DEF Active, Streams, Untold, Ahead
<1>f. /\ Numbered(s.buffer, s.dropped)
      /\ ~s.done =>
           /\ Numbered(data, s.dropped + Len(s.buffer))
           /\ ~last[r] => Chain(queue_results[r], Ahead(r), emitted[r])
           /\ last[r] /\ ~s.cancelled => generation[r] = "ended" /\ emitted[r] = Ahead(r)
  BY <1>6 DEF Right, Flow, Total
<1>w. /\ ~s.cut => sent[r] <= Total(r)
      /\ Reception(r)
  <2>1. ~s.cut => sent[r] + 0 <= Total(r) BY <1>4 DEF Right, Wire
  <2> QED BY <1>3, <2>1 DEF Right, Stages
<1>7. Total(r) = s.dropped + Len(s.buffer) /\ Total(r)' = t.dropped + Len(t.buffer)
  BY DEF Total
<1> HIDE DEF s, t, data
<1>8. /\ t.cancelled = s.cancelled /\ t.done = s.done /\ t.cut = s.cut
      /\ Numbered(t.buffer, t.dropped)
      /\ ~s.done => t.dropped + Len(t.buffer) = s.dropped + Len(s.buffer) + Len(data)
  BY <1>1, <1>2, <1>f, AppendedRing
<1>9. ~s.done => Total(r)' = Ahead(r) BY <1>6, <1>7, <1>8
<1>10. SetUpIsFresh(r)' /\ Untouched(r)' BY <1>4 DEF SetUpIsFresh, Untouched, SetUp
<1>11. Reception(r)' BY <1>4, <1>5, <1>w DEF Reception
<1>12. Streaming(r)'
  BY <1>4, <1>5, <1>8 DEF Streaming, StopsForTee, Stops, Active, Streams, s, t
<1>13. ~s.done /\ pc'[r] # "stop_remove" => Ahead(r)' = Ahead(r)
  <2>1. Len(<<>>) = 0 BY EmptySeq
  <2>2. ~s.done => Total(r)' \in Nat BY <1>3, <1>7, <1>8
  <2> QED BY <1>4, <1>9, <2>1, <2>2 DEF Ahead, Untold
<1>14. Flow(r)'
  <2>1. pc'[r] = "stop_remove" <=> ~Active(r)'
    BY <1>4 DEF Active, Streams, StopsForTee, Stops
  <2>2. Untold(r)' => Numbered(chunk'[r], Total(r)')
    BY <1>4, EmptySeq DEF Untold, Numbered
  <2>3. session'[r].cancelled = s.cancelled /\ session'[r].cut = s.cut
        /\ session'[r].done = s.done /\ Numbered(session'[r].buffer, session'[r].dropped)
    BY <1>8 DEF t
  <2> QED BY <1>4, <1>5, <1>9, <1>13, <1>f, <2>1, <2>2, <2>3 DEF Flow
<1>15. Wire(r)'
  <2> SUFFICES ASSUME ~s.cut
               PROVE  sent[r] + (IF pc'[r] = "send" THEN Len(chunk'[r]) ELSE 0) <= Total(r)'
    BY <1>4, <1>8 DEF Wire, t
  <2>1. ~s.done BY <1>5
  <2>2. Total(r)' = Total(r) + Len(data) /\ Total(r) \in Nat
    BY <1>3, <1>6, <1>7, <1>9, <2>1
  <2>3. pc'[r] = "send" => Len(chunk'[r]) = Len(data) BY <1>4 DEF data
  <2> QED BY <1>3, <1>w, <2>2, <2>3
<1> QED BY <1>10, <1>11, <1>12, <1>14, <1>15 DEF Right, Stages

LEMMA SendRight ==
  ASSUME TypeOK, NEW r \in Requests, Right(r), Send(r)
  PROVE  Right(r)'
<1>1. /\ pc[r] = "send" /\ session' = session
      /\ UNCHANGED <<waiting, queue_results, generation, emitted, rd, last, streamed>>
      /\ chunk'[r] = <<>>
      /\ sent'[r] = sent[r] + Len(chunk[r]) \/ sent'[r] = sent[r]
      /\ \/ last[r] /\ pc'[r] = "stop_remove" /\ resume'[r] = "finalize"
         \/ ~last[r] /\ pc'[r] = "next" /\ resume' = resume
  BY DEF Send, Sent, SendFails, results, slots, store, Goto, StopThen, TypeOK, Threads
<1>2. /\ r \in streamed /\ (~last[r] => r \in waiting)
      /\ session[r].done => session[r].cut
      /\ resume[r] \in {"tee", "complete", "finalize"}
  BY <1>1 DEF Right, Stages, Streaming, Streams, Active
<1>3. Total(r) \in Nat /\ Total(r)' = Total(r) /\ Len(chunk[r]) \in Nat /\ sent[r] \in Nat
  <2>1. Len(session[r].buffer) \in Nat /\ session[r].dropped \in Nat
    BY LenProperties DEF TypeOK, Session
  <2> QED BY <1>1, <2>1, LenProperties DEF Total, TypeOK
<1>4. Active(r) /\ Ahead(r) = Total(r)
  <2>1. Ahead(r) = Total(r) + 0 BY <1>1 DEF Ahead, Untold
  <2> QED BY <1>1, <1>3, <2>1 DEF Active, Streams
<1>5. SetUpIsFresh(r)' /\ Untouched(r)' BY <1>1 DEF SetUpIsFresh, Untouched, SetUp
<1>6. Reception(r)' BY <1>1, <1>2 DEF Right, Stages, Reception
<1>7. Streaming(r)' BY <1>1, <1>2 DEF Streaming, StopsForTee, Stops, Active, Streams
<1>8. Flow(r)'
  <2>1. pc'[r] = "stop_remove" <=> ~Active(r)'
    BY <1>1 DEF Active, Streams, StopsForTee, Stops
  <2>2. Numbered(<<>>, Total(r)) BY EmptySeq DEF Numbered
  <2>3. pc'[r] = "next" => Ahead(r)' = Total(r)
    <3>1. Len(<<>>) = 0 BY EmptySeq
    <3> QED BY <1>1, <1>3, <3>1 DEF Ahead, Untold
  <2>4. /\ Numbered(session[r].buffer, session[r].dropped)
        /\ ~session[r].done =>
             /\ ~last[r] => Chain(queue_results[r], Total(r), emitted[r])
             /\ last[r] /\ ~session[r].cancelled =>
                  generation[r] = "ended" /\ emitted[r] = Total(r)
    BY <1>4 DEF Right, Flow
  <2> QED BY <1>1, <1>2, <1>3, <2>1, <2>2, <2>3, <2>4 DEF Flow
<1>9. Wire(r)'
  <2>1. ~session[r].cut => sent[r] + Len(chunk[r]) <= Total(r) BY <1>1 DEF Right, Wire
  <2>2. ~session[r].cut => sent'[r] + 0 <= Total(r) BY <1>1, <1>3, <2>1
  <2>3. pc'[r] # "send" BY <1>1
  <2> QED BY <1>1, <1>3, <2>2, <2>3 DEF Wire
<1> QED BY <1>5, <1>6, <1>7, <1>8, <1>9 DEF Right, Stages

\* stop(), the end of the response, and the CANCEL task.
LEMMA StopRight ==
  ASSUME TypeOK, NEW r \in Requests, Right(r),
         StopRemove(r) \/ StopCancel(r) \/ Finalize(r) \/ HandleCancel(r)
  PROVE  Right(r)'
<1> USE DEF TypeOK, Threads, results, slots, store, control, producer, Goto
<1>s. Stages(r) /\ Flow(r) /\ Wire(r) BY DEF Right
<1>1. CASE StopRemove(r)
  <2>1. /\ pc[r] = "stop_remove" /\ session' = session /\ resume' = resume
        /\ UNCHANGED <<queue_results, generation, emitted, rd, chunk, last, streamed, draining,
                       sent>>
        /\ waiting' = waiting \ {r}
        /\ \/ pc'[r] = "stop_cancel"
           \/ /\ generation[r] = "none" \/ rd[r].finished \/ rd[r].cancelled
              /\ pc'[r] = resume[r]
    BY <1>1 DEF StopRemove
  <2>2. resume[r] \in {"tee", "complete", "finalize"} BY <1>s DEF Stages, Streaming
  <2>3. SetUpIsFresh(r)' /\ Untouched(r)' BY <2>1, <2>2 DEF SetUpIsFresh, Untouched, SetUp
  <2>4. Reception(r)' BY <1>s, <2>1 DEF Stages, Reception
  <2>5. /\ Active(r) <=> resume[r] = "tee"
        /\ Active(r)' <=> resume[r] = "tee"
        /\ Untold(r) /\ Untold(r)'
    BY <2>1, <2>2 DEF Active, Streams, StopsForTee, Stops, Untold
  <2>6. Streaming(r)'
    BY <1>s, <2>1, <2>2, <2>5 DEF Stages, Streaming, StopsForTee, Stops, Streams
  <2>7. Total(r)' = Total(r) /\ Ahead(r)' = Ahead(r) BY <2>1, <2>5 DEF Total, Ahead
  <2>8. Flow(r)' BY <1>s, <2>1, <2>5, <2>7 DEF Flow
  <2>9. Wire(r)' BY <1>s, <2>1, <2>2, <2>7 DEF Wire
  <2> QED BY <2>3, <2>4, <2>6, <2>8, <2>9 DEF Right, Stages
<1>2. CASE StopCancel(r)
  <2>1. /\ pc[r] = "stop_cancel" /\ pc'[r] = resume[r] /\ session' = session
        /\ resume' = resume
        /\ UNCHANGED <<waiting, emitted, chunk, last, streamed, draining, sent>>
        /\ rd'[r].finished = rd[r].finished /\ rd'[r].cancelled
        /\ queue_results'[r] = <<>>
        /\ generation'[r] = IF generation[r] = "running" THEN "cancelling" ELSE generation[r]
    BY <1>2 DEF StopCancel, WithoutResults, CancelPosted
  <2>2. resume[r] \in {"tee", "complete", "finalize"} /\ r \notin waiting
    BY <1>s, <2>1 DEF Stages, Streaming, Reception
  <2>3. SetUpIsFresh(r)' /\ Untouched(r)' BY <2>1, <2>2 DEF SetUpIsFresh, Untouched, SetUp
  <2>4. Reception(r)'
    <3>1. DOMAIN queue_results'[r] = {} BY <2>1
    <3> QED BY <1>s, <2>1, <2>2, <3>1 DEF Stages, Reception
  <2>5. /\ Active(r) <=> resume[r] = "tee"
        /\ Active(r)' <=> resume[r] = "tee"
        /\ Untold(r) /\ Untold(r)'
    BY <2>1, <2>2 DEF Active, Streams, StopsForTee, Stops, Untold
  <2>6. Active(r) => last[r]
    BY <1>s, <2>1, <2>5 DEF Stages, Streaming, StopsForTee, Stops
  <2>7. Streaming(r)'
    BY <1>s, <2>1, <2>2, <2>5, <2>6 DEF Stages, Streaming, StopsForTee, Stops, Streams
  <2>8. Total(r)' = Total(r) /\ Ahead(r)' = Ahead(r) BY <2>1, <2>5 DEF Total, Ahead
  <2>9. Flow(r)' BY <1>s, <2>1, <2>5, <2>6, <2>8 DEF Flow
  <2>10. Wire(r)' BY <1>s, <2>1, <2>2, <2>8 DEF Wire
  <2> QED BY <2>3, <2>4, <2>7, <2>9, <2>10 DEF Right, Stages
<1>3. CASE Finalize(r)
  <2>1. /\ pc[r] = "finalize" /\ pc'[r] = "done" /\ resume' = resume
        /\ UNCHANGED <<waiting, queue_results, generation, emitted, rd, chunk, last, streamed,
                       draining, sent>>
        /\ session' = [session EXCEPT ![r].done = TRUE]
    BY <1>3 DEF Finalize, FinalizeOwn
  <2>2. /\ session'[r].buffer = session[r].buffer /\ session'[r].dropped = session[r].dropped
        /\ session'[r].cancelled = session[r].cancelled /\ session'[r].cut = session[r].cut
    BY <2>1 DEF Session
  <2>3. SetUpIsFresh(r)' /\ Untouched(r)' BY <2>1 DEF SetUpIsFresh, Untouched, SetUp
  <2>4. Reception(r)' BY <1>s, <2>1 DEF Stages, Reception
  <2>5. ~Active(r) /\ ~Active(r)' BY <2>1 DEF Active, Streams, StopsForTee, Stops
  <2>6. Streaming(r)'
    BY <1>s, <2>1, <2>5 DEF Stages, Streaming, StopsForTee, Stops, Streams
  <2>7. Total(r)' = Total(r) BY <2>2 DEF Total
  <2>8. Flow(r)' BY <1>s, <2>1, <2>2, <2>5, <2>7 DEF Flow
  <2>9. Wire(r)' BY <1>s, <2>1, <2>2, <2>7 DEF Wire
  <2> QED BY <2>3, <2>4, <2>6, <2>8, <2>9 DEF Right, Stages
<1>4. CASE HandleCancel(r)
  <2>1. /\ generation[r] = "cancelling" /\ generation'[r] = "ended"
        /\ pc' = pc /\ resume' = resume /\ session' = session
        /\ UNCHANGED <<waiting, queue_results, emitted, rd, chunk, last, streamed, draining,
                       sent>>
    BY <1>4 DEF HandleCancel
  <2>2. SetUpIsFresh(r)' /\ Untouched(r)' /\ Reception(r)'
    BY <1>s, <2>1 DEF Stages, SetUpIsFresh, Untouched, Reception
  <2>3. Streaming(r)'
    BY <1>s, <2>1 DEF Stages, Streaming, StopsForTee, Active
  <2>4. /\ Active(r)' <=> Active(r)
        /\ Untold(r)' <=> Untold(r)
        /\ Total(r)' = Total(r) /\ Ahead(r)' = Ahead(r)
    BY <2>1 DEF Active, StopsForTee, Untold, Total, Ahead
  <2>5. Flow(r)' BY <1>s, <2>1, <2>4 DEF Flow
  <2>6. Wire(r)' BY <1>s, <2>1, <2>4 DEF Wire
  <2> QED BY <2>2, <2>3, <2>5, <2>6 DEF Right, Stages
<1> QED BY <1>1, <1>2, <1>3, <1>4

\* The slots send one more result.
LEMMA EmitRight ==
  ASSUME TypeOK, SizesAssumption, NEW r \in Requests, Right(r),
         NEW kind \in {"partial", "final", "error"}, Emit(r, kind)
  PROVE  Right(r)'
<1> DEFINE q == queue_results[r]
           b == Bytes(r, ResultSize[kind])
           x == [kind |-> kind, bytes |-> b]
<1>1. /\ Running(r)
      /\ queue_results'[r] = IF r \in waiting THEN Append(q, x) ELSE q
      /\ emitted'[r] = emitted[r] + Len(b)
      /\ generation'[r] = IF kind = "partial" THEN generation[r] ELSE "ended"
      /\ pc' = pc /\ resume' = resume /\ session' = session
      /\ UNCHANGED <<waiting, rd, chunk, last, streamed, draining, sent>>
  BY DEF Emit, store, control, producer, TypeOK
<1>2. generation[r] \notin {"none", "ended"} /\ generation'[r] # "none"
  BY <1>1 DEF Running
<1>3. ResultSize[kind] \in Nat \ {0} /\ emitted \in [Requests -> Nat]
  BY DEF SizesAssumption, TypeOK
<1>4. b \in Seq(Nat) /\ Len(b) \in Nat \ {0} /\ Numbered(b, emitted[r]) BY <1>3, BytesType
<1>5. b # <<>> BY <1>4, EmptySeq
<1>6. q \in Seq(Result) BY DEF TypeOK
<1> HIDE DEF b, q
<1>7. x \in Result /\ x.bytes = b /\ x.kind = kind BY <1>4 DEF Result
<1> HIDE DEF x
<1>s. Stages(r) /\ Flow(r) /\ Wire(r) BY DEF Right
<1>8. SetUpIsFresh(r)' /\ Untouched(r)'
  BY <1>s, <1>1, <1>2 DEF Stages, SetUpIsFresh, Untouched
<1>9. \A i \in DOMAIN q : q[i].kind = "partial"
  BY <1>s, <1>2 DEF Stages, Reception, q
<1>10. Reception(r)'
  <2>1. ~rd[r].finished BY <1>s, <1>2 DEF Stages, Reception
  <2>2. rd[r].cancelled => r \notin waiting /\ q = <<>> BY <1>s DEF Stages, Reception, q
  <2>3. q # <<>> => r \in waiting \/ pc[r] = "stop_cancel"
    BY <1>s DEF Stages, Reception, q
  <2>4. pc[r] = "stop_cancel" => r \notin waiting BY <1>s DEF Stages, Reception
  <2>5. \A i \in DOMAIN queue_results'[r] : queue_results'[r][i].kind # "partial" =>
          i = Len(queue_results'[r]) /\ generation'[r] = "ended"
    <3>1. CASE r \in waiting
      <4>1. /\ queue_results'[r] = Append(q, x) /\ Len(Append(q, x)) = Len(q) + 1
            /\ DOMAIN Append(q, x) = 1..(Len(q) + 1) /\ DOMAIN q = 1..Len(q)
            /\ \A i \in 1..Len(q) : Append(q, x)[i] = q[i]
            /\ Append(q, x)[Len(q) + 1] = x
            /\ Len(q) \in Nat
        BY <1>1, <1>6, <1>7, <3>1, AppendProperties, LenProperties
      <4> SUFFICES ASSUME NEW i \in 1..(Len(q) + 1), Append(q, x)[i].kind # "partial"
                   PROVE  i = Len(q) + 1 /\ generation'[r] = "ended"
        BY <4>1
      <4>2. i \notin 1..Len(q) BY <1>9, <4>1
      <4>3. i = Len(q) + 1 BY <4>1, <4>2
      <4> QED BY <1>1, <1>7, <4>1, <4>3
    <3>2. CASE r \notin waiting BY <1>1, <1>9, <3>2
    <3> QED BY <3>1, <3>2
  <2> QED BY <1>1, <1>2, <2>1, <2>2, <2>3, <2>4, <2>5 DEF Reception
<1>11. Streaming(r)' BY <1>s, <1>1 DEF Stages, Streaming, StopsForTee, Active
<1>12. /\ Active(r)' <=> Active(r)
       /\ Untold(r)' <=> Untold(r)
       /\ Total(r)' = Total(r) /\ Ahead(r)' = Ahead(r)
  BY <1>1 DEF Active, StopsForTee, Untold, Total, Ahead
<1>13. Flow(r)'
  <2>1. ASSUME Active(r), ~session[r].done, ~last[r]
        PROVE  Chain(queue_results'[r], Ahead(r), emitted'[r])
    <3>1. r \in waiting BY <1>s, <2>1 DEF Stages, Streaming
    <3>2. Chain(q, Ahead(r), emitted[r]) BY <1>s, <2>1 DEF Flow, q
    <3>3. Ahead(r) \in Nat /\ emitted[r] \in Nat
      <4>1. /\ Len(session[r].buffer) \in Nat /\ session[r].dropped \in Nat
            /\ Len(chunk[r]) \in Nat /\ emitted[r] \in Nat
        BY LenProperties DEF TypeOK, Session
      <4>2. Total(r) \in Nat BY <4>1 DEF Total
      <4>3. CASE Untold(r)
        <5>1. Ahead(r) = Total(r) + Len(chunk[r]) BY <4>3 DEF Ahead
        <5> QED BY <4>1, <4>2, <5>1
      <4>4. CASE ~Untold(r)
        <5>1. Ahead(r) = Total(r) + 0 BY <4>4 DEF Ahead
        <5> QED BY <4>1, <4>2, <5>1
      <4> QED BY <4>3, <4>4
    <3>4. Chain(Append(q, x), Ahead(r), emitted[r] + Len(b))
      BY <1>4, <1>5, <1>6, <1>7, <3>2, <3>3, ChainAppend
    <3> QED BY <1>1, <3>1, <3>4
  <2> QED BY <1>s, <1>1, <1>2, <1>12, <2>1 DEF Flow
<1>14. Wire(r)' BY <1>s, <1>1, <1>12 DEF Wire
<1> QED BY <1>8, <1>10, <1>11, <1>13, <1>14 DEF Right, Stages

-----------------------------------------------------------------------------
(* The invariant                                                            *)

LEMMA InitRight ==
  ASSUME SizesAssumption, ThreadsAssumption, Init
  PROVE  IInv
<1> USE DEF Init
<1>p. \A t \in Threads : pc[t] \in {"start", "absent"}
  OBVIOUS
<1>1. TypeOK
  <2>1. pc \in [Threads -> Labels] BY DEF Labels, RequestPC
  <2>2. <<>> \in Seq(Nat) /\ <<>> \in Seq(Result) /\ Len(<<>>) = 0 BY EmptySeq
  <2>3. NewSession \in Session BY <2>2 DEF NewSession, Session
  <2>4. NewSession.buffer = <<>> BY DEF NewSession
  <2> QED BY <2>1, <2>2, <2>3, <2>4 DEF TypeOK, SizesAssumption, Phases, Labels, RequestPC,
                                        Threads
<1>2. Targets BY <1>p DEF Targets, Threads
<1>3. OneLiveSession BY <1>p DEF OneLiveSession, Live, Threads
<1>4. ASSUME NEW r \in Requests PROVE Right(r)
  <2>1. /\ pc[r] \in SetUp /\ pc[r] \in {"start", "absent"}
        /\ session[r].buffer = <<>> /\ session[r].dropped = 0
        /\ ~session[r].done /\ Total(r) = 0 /\ Len(<<>>) = 0
    BY <1>p, EmptySeq DEF Threads, SetUp, NewSession, Total
  <2>2. SetUpIsFresh(r) /\ Untouched(r) /\ Reception(r)
    BY <2>1 DEF SetUpIsFresh, Untouched, Reception
  <2>3. ~Active(r) BY <2>1 DEF Active, Streams, StopsForTee, Stops
  <2>4. Streaming(r) BY <2>1, <2>3 DEF Streaming, Active, StopsForTee, Streams, Stops
  <2>5. Flow(r) BY <2>1, <2>3 DEF Flow, Numbered
  <2>6. Wire(r) BY <2>1 DEF Wire
  <2> QED BY <2>2, <2>4, <2>5, <2>6 DEF Right, Stages
<1>5. NothingRead /\ ReplayFaithful BY DEF NothingRead, ReplayFaithful
<1> QED BY <1>1, <1>2, <1>3, <1>4, <1>5 DEF IInv

\* One step of the system.
LEMMA StepTypes ==
  ASSUME SizesAssumption, IInv, Next
  PROVE  TypeOK'
<1> USE DEF IInv
<1>0. \A r \in Requests : Numbered(session[r].buffer, session[r].dropped)
  BY DEF Right, Flow
<1>1. ASSUME NEW r \in Requests,
             CreateOrReplace(r) \/ RequestNext(r) \/ HandleCancel(r) \/ FirstGivesUp(r)
               \/ Dropped(r)
      PROVE  TypeOK'
  BY <1>1, SetUpTypes, StreamTypes, StopTypes DEF RequestNext
<1>2. ASSUME NEW r \in Requests, NEW kind \in {"partial", "final", "error"}, Emit(r, kind)
      PROVE  TypeOK'
  BY <1>2, EmitTypes
<1>3. ASSUME NEW g \in Readers, Lookup(g) \/ ReaderNext(g) PROVE TypeOK'
  BY <1>0, <1>3, ReaderStepTypes DEF ReaderNext
<1>4. CASE \/ \E d \in Deleters : DeleteTake(d) \/ DeleterNext(d)
           \/ Shutdown \/ FinalizeTaken(Main) \/ CollectGarbage
  BY <1>4, OtherTypes DEF DeleterNext
<1> QED BY <1>1, <1>2, <1>3, <1>4 DEF Next

LEMMA StepKeeps ==
  ASSUME SizesAssumption, ThreadsAssumption, IInv, Next
  PROVE  Targets' /\ OneLiveSession'
<1> USE DEF IInv
<1>1. ASSUME NEW r \in Requests,
             CreateOrReplace(r) \/ RequestNext(r) \/ FirstGivesUp(r) \/ Dropped(r)
      PROVE  Targets' /\ OneLiveSession'
  BY <1>1, RequestKeeps
<1>2. ASSUME NEW r \in Requests,
             HandleCancel(r) \/ \E kind \in {"partial", "final", "error"} : Emit(r, kind)
      PROVE  Targets' /\ OneLiveSession'
  <2>1. UNCHANGED <<store, control>> BY <1>2 DEF HandleCancel, Emit
  <2> QED BY <2>1 DEF store, control, Targets, OneLiveSession, Live
<1>3. ASSUME NEW g \in Readers, Lookup(g) \/ ReaderNext(g) PROVE Targets' /\ OneLiveSession'
  BY <1>3, ReaderKeeps DEF ReaderNext
<1>4. CASE \/ \E d \in Deleters : DeleteTake(d) \/ DeleterNext(d)
           \/ Shutdown \/ FinalizeTaken(Main) \/ CollectGarbage
  BY <1>4, OtherKeeps DEF DeleterNext
<1> QED BY <1>1, <1>2, <1>3, <1>4 DEF Next

LEMMA StepRight ==
  ASSUME SizesAssumption, ThreadsAssumption, IInv, Next
  PROVE  \A s \in Requests : Right(s)'
<1> USE DEF IInv
<1>1. ASSUME NEW r \in Requests,
             \/ CreateOrReplace(r) \/ ReplaceCancel(r) \/ ReplaceFinalize(r)
             \/ EvictCurrent(r) \/ EvictFinalize(r)
      PROVE  \A s \in Requests : Right(s)'
  BY <1>1, SetUpRight, EvictRight
<1>2. ASSUME NEW r \in Requests,
             \/ PostTask(r) \/ Reject(r) \/ FirstResult(r) \/ FirstGivesUp(r) \/ NextStopped(r)
             \/ NextFlush(r) \/ NextDone(r) \/ NextResult(r) \/ Tee(r) \/ Send(r) \/ Dropped(r)
             \/ StopRemove(r) \/ StopCancel(r) \/ Finalize(r) \/ HandleCancel(r)
             \/ \E kind \in {"partial", "final", "error"} : Emit(r, kind)
      PROVE  \A s \in Requests : Right(s)'
  <2>1. \A s \in Requests \ {r} : Right(s)' BY <1>2, Apart
  <2>2. Right(r)'
    BY <1>2, PostRight, FirstRight, NextRight, ResultRight, TeeRight, SendRight, StopRight,
       EmitRight
  <2> QED BY <2>1, <2>2
<1>3. CASE \/ \E g \in Readers : Lookup(g) \/ ReaderNext(g)
           \/ \E d \in Deleters : DeleteTake(d) \/ DeleterNext(d)
           \/ Shutdown \/ FinalizeTaken(Main) \/ CollectGarbage
  BY <1>3, OthersRight DEF ReaderNext, DeleterNext
<1> QED BY <1>1, <1>2, <1>3 DEF Next, RequestNext

LEMMA StepReplays ==
  ASSUME ThreadsAssumption, IInv, Next
  PROVE  NothingRead' /\ ReplayFaithful'
<1> USE DEF IInv
<1>0. \A r \in Requests : Numbered(session[r].buffer, session[r].dropped)
  BY DEF Right, Flow
<1>1. ASSUME NEW g \in Readers, Lookup(g) \/ ReaderNext(g)
      PROVE  NothingRead' /\ ReplayFaithful'
  BY <1>0, <1>1, ReplayKeeps DEF ReaderNext
<1>2. ASSUME UNCHANGED replay, \A g \in Readers : pc'[g] = pc[g]
      PROVE  NothingRead' /\ ReplayFaithful'
  BY <1>2 DEF replay, NothingRead, ReplayFaithful
<1>3. ASSUME NEW r \in Requests,
             CreateOrReplace(r) \/ RequestNext(r) \/ FirstGivesUp(r) \/ Dropped(r)
      PROVE  NothingRead' /\ ReplayFaithful'
  <2>1. UNCHANGED replay
    BY <1>3 DEF CreateOrReplace, RequestNext, FirstGivesUp, Dropped, ReplaceCancel,
         ReplaceFinalize, PostTask, Reject, FirstResult, NextStopped, NextFlush, NextDone,
         NextResult, Tee, Send, EvictCurrent, EvictFinalize, StopRemove, StopCancel, Finalize
  <2>2. pc' = pc \/ Moves(r)
    <3>1. CASE \/ CreateOrReplace(r) \/ ReplaceCancel(r) \/ ReplaceFinalize(r) \/ PostTask(r)
               \/ Reject(r) \/ FirstGivesUp(r) \/ Dropped(r) \/ EvictCurrent(r)
               \/ EvictFinalize(r)
      BY <3>1 DEF CreateOrReplace, ReplaceCurrent, ReplaceCancel, ReplaceFinalize, PostTask,
           Reject, FirstGivesUp, Dropped, DrainRest, EvictCurrent, EvictFinalize, TakeCurrent,
           StopThen, Goto, Moves
    <3>2. CASE FirstResult(r) \/ NextResult(r)
      BY <3>2 DEF FirstResult, NextResult, StopThen, Goto, Moves
    <3>3. CASE \/ NextStopped(r) \/ NextFlush(r) \/ NextDone(r) \/ Tee(r) \/ Send(r)
               \/ StopRemove(r) \/ StopCancel(r) \/ Finalize(r)
      BY <3>3 DEF NextStopped, NextFlush, NextDone, Tee, Send, StopRemove, StopCancel,
           Finalize, StopThen, Goto, Moves
    <3> QED BY <1>3, <3>1, <3>2, <3>3 DEF RequestNext
  <2>3. \A g \in Readers : pc'[g] = pc[g]
    BY <2>2 DEF Moves, TypeOK, Threads, ThreadsAssumption
  <2> QED BY <1>2, <2>1, <2>3
<1>4. ASSUME NEW r \in Requests,
             HandleCancel(r) \/ \E kind \in {"partial", "final", "error"} : Emit(r, kind)
      PROVE  NothingRead' /\ ReplayFaithful'
  <2>1. UNCHANGED <<replay, control>> BY <1>4 DEF HandleCancel, Emit
  <2> QED BY <1>2, <2>1 DEF control
<1>5. CASE \/ \E d \in Deleters : DeleteTake(d) \/ DeleterNext(d)
           \/ Shutdown \/ FinalizeTaken(Main) \/ CollectGarbage
  <2>1. UNCHANGED replay
    BY <1>5 DEF DeleteTake, DeleterNext, DeleteCancel, FinalizeTaken, Shutdown,
         CollectGarbage
  <2>2. pc' = pc \/ \E t \in Deleters \cup {Main} : Moves(t)
    BY <1>5 DEF DeleteTake, DeleterNext, DeleteCancel, FinalizeTaken, Shutdown,
         CollectGarbage, TakeCurrent, Goto, Moves, control
  <2>3. \A g \in Readers : pc'[g] = pc[g]
    BY <2>2 DEF Moves, TypeOK, Threads, ThreadsAssumption
  <2> QED BY <1>2, <2>1, <2>3
<1> QED BY <1>1, <1>3, <1>4, <1>5 DEF Next

LEMMA StutterHolds ==
  ASSUME IInv, UNCHANGED vars
  PROVE  IInv'
<1> USE DEF vars, results, slots, store, control, producer, replay
<1>1. TypeOK' BY DEF IInv, TypeOK, Total
<1>2. Targets' /\ OneLiveSession' BY DEF IInv, Targets, OneLiveSession, Live
<1>3. ASSUME NEW r \in Requests PROVE Right(r)'
  <2>1. Rest(r) /\ Flagged(r) /\ Walks(r) BY DEF Rest, Flagged, Walks, Stays
  <2> QED BY <2>1, Walk DEF IInv
<1>4. NothingRead' /\ ReplayFaithful' BY DEF IInv, NothingRead, ReplayFaithful
<1> QED BY <1>1, <1>2, <1>3, <1>4 DEF IInv

THEOREM Invariance == Spec => []IInv
<1>1. Init => IInv BY SizesAssumption, ThreadsAssumption, InitRight
<1>2. IInv /\ [Next]_vars => IInv'
  <2>1. CASE UNCHANGED vars BY <2>1, StutterHolds
  <2>2. CASE Next
    <3> SUFFICES ASSUME IInv PROVE IInv' BY <2>2
    <3>1. TypeOK' BY <2>2, SizesAssumption, StepTypes
    <3>2. Targets' /\ OneLiveSession' BY <2>2, SizesAssumption, ThreadsAssumption, StepKeeps
    <3>3. \A r \in Requests : Right(r)' BY <2>2, SizesAssumption, ThreadsAssumption, StepRight
    <3>4. NothingRead' /\ ReplayFaithful' BY <2>2, ThreadsAssumption, StepReplays
    <3> QED BY <3>1, <3>2, <3>3, <3>4 DEF IInv
  <2> QED BY <2>1, <2>2
<1> QED BY <1>1, <1>2, PTL DEF Spec

\* Every variable keeps its type, and no ring grows beyond its size, whatever
\* the sizes of the chunks (stream_session::append).
THEOREM TypeCorrect == Spec => []TypeOK
<1>1. IInv => TypeOK BY DEF IInv
<1> QED BY <1>1, Invariance, PTL

\* A stream that is still fed and was not cancelled can be reached through the
\* map, or is about to be ended by the thread that took it out: no number of
\* POSTs, DELETEs, collections and shutdowns of one conversation leaves another
\* session behind (create_or_replace, evict, evict_and_cancel, stop_gc).
THEOREM SessionsAreReachable == Spec => []OneLiveSession
<1>1. IInv => OneLiveSession BY DEF IInv
<1> QED BY <1>1, Invariance, PTL

\* What a reader has got is the stream before its offset without a gap, a
\* repetition or a swap, for every size of the ring and of the chunks (append,
\* read_from).
THEOREM ReplayIsFaithful == Spec => []ReplayFaithful
<1>1. IInv => ReplayFaithful BY DEF IInv
<1> QED BY <1>1, Invariance, PTL

\* The socket never gets a byte that the ring has not had, as long as nobody
\* else ended the session (the tee of stream_pipe_producer).
THEOREM RingComesFirst == Spec => []BufferedFirst
<1>1. IInv => BufferedFirst
  <2> SUFFICES ASSUME IInv, NEW r \in Requests, ~session[r].cut PROVE sent[r] <= Total(r)
    BY DEF BufferedFirst
  <2>1. sent[r] \in Nat /\ Len(chunk[r]) \in Nat /\ Len(session[r].buffer) \in Nat
        /\ session[r].dropped \in Nat
    BY LenProperties DEF IInv, TypeOK, Session
  <2>2. sent[r] + (IF pc[r] = "send" THEN Len(chunk[r]) ELSE 0) <= Total(r)
    BY DEF IInv, Right, Wire
  <2> QED BY <2>1, <2>2 DEF Total
<1> QED BY <1>1, Invariance, PTL

\* A stream that nobody stopped ends with everything that was generated in its
\* ring, whenever its client went away and however the results came (on_complete,
\* next_orig).
THEOREM DisconnectIsHarmless == Spec => []DisconnectLosesNothing
<1>1. IInv => DisconnectLosesNothing
  <2> SUFFICES ASSUME IInv, NEW r \in Requests, r \in streamed, pc[r] = "done",
                      ~session[r].cancelled, ~session[r].cut
               PROVE  Total(r) = emitted[r]
    BY DEF DisconnectLosesNothing, IInv, TypeOK
  <2>1. ~Active(r) BY DEF Active, Streams, StopsForTee, Stops
  <2> QED BY <2>1 DEF IInv, Right, Flow
<1> QED BY <1>1, Invariance, PTL

\* A result in the queue has a reader that waits for it or is about to remove it:
\* nothing a finished request asked for stays in server_response.
THEOREM ResultsAreCollected == Spec => []NoStaleResults
<1>1. IInv => NoStaleResults BY DEF IInv, Right, Stages, Reception, NoStaleResults
<1> QED BY <1>1, Invariance, PTL
=============================================================================
