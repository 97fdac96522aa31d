----------------------------- MODULE QsaPrefix ------------------------------
(***************************************************************************)
(* The incremental cache of pooled indexer keys in                         *)
(* llama_memory_hybrid_idx (src/llama-memory-hybrid-idx.cpp) and its       *)
(* qsa_prefix_state (src/qsa-prefix-state.h).  The prefix state mirrors    *)
(* which cell holds which position of the one sequence in the cache; a     *)
(* decode that continues that sequence pools the keys of the blocks it     *)
(* touches and reads the others from the cache.  Every memory operation    *)
(* has to keep the mirror and the count of cached blocks right, or give    *)
(* them up and rebuild them later from the cells.                          *)
(*                                                                         *)
(* The key cache is modelled for one layer; layers are alike.  A block's   *)
(* position is always its index times Block, so block_positions is left    *)
(* out; begin, end and previous_size describe the batch that was applied   *)
(* last and are only read while it is decoded, so they are values of that  *)
(* decode; and nothing else of an invalid state is read, so it is dropped. *)
(* llama_decode() runs on one thread: no other call sees its steps.        *)
(***************************************************************************)
EXTENDS IndexerMemory

CONSTANT MaxFast    \* tokens of the largest batch that may use the cache

ASSUME FastAssumption == MaxFast \in Nat

VARIABLES
  prefix,           \* qsa_prefix
  recover_pending,  \* qsa_recover_pending
  ready,            \* qsa_ready: cached blocks
  key               \* qsa_keys: [block -> pooled key]

qsa == <<prefix, recover_pending, ready, key>>
vars == <<memory, qsa>>

NoSeq == "none"
ASSUME NoSeqAssumption == NoSeq \notin Seqs
NoPos == -1
NoKey == [i \in 0..(Block - 1) |-> {}]    \* the cleared buffer
KeyBlocks == 0..((KvSize - 1) \div Block)

PrefixState ==
  [valid : BOOLEAN, sequence : Seqs \cup {NoSeq}, cells : Seq(Cells), positions : [Cells -> Int]]
PooledKey == [0..(Block - 1) -> SUBSET (Tokens \cup {Unset})]

(* The variables have their types; a valid mirror never waits for a recovery. *)
TypeOK ==
  /\ raw \in [Cells -> Cell]
  /\ prefix \in PrefixState
  /\ recover_pending \in BOOLEAN
  /\ ready \in Nat
  /\ key \in [KeyBlocks -> PooledKey]
  /\ prefix.valid => ~recover_pending

-----------------------------------------------------------------------------
(* qsa_prefix_state *)

Fresh == [valid |-> TRUE, sequence |-> NoSeq, cells |-> <<>>, positions |-> [c \in Cells |-> NoPos]]

Invalid == [Fresh EXCEPT !.valid = FALSE]

(* Fault: the cells that are cut off keep their positions. *)
TruncatedCellsOnly(p, size) ==
  IF size >= Len(p.cells) THEN p
  ELSE [p EXCEPT !.cells = SubSeq(@, 1, size), !.sequence = IF size = 0 THEN NoSeq ELSE @]

Truncated(p, size) ==
  IF size >= Len(p.cells) THEN p
  ELSE [p EXCEPT
         !.cells = SubSeq(@, 1, size),
         !.positions = [c \in Cells |-> IF @[c] >= size THEN NoPos ELSE @[c]],
         !.sequence = IF size = 0 THEN NoSeq ELSE @]

(* apply(): may the mirror be extended by a run at start in these cells? *)
CanApply(p, s, start, slots) ==
  LET finish == start + Len(slots) IN
    /\ p.valid /\ slots # <<>>
    /\ start <= Len(p.cells) /\ finish <= KvSize
    /\ p.sequence \in {NoSeq, s}
    /\ \A i \in DOMAIN slots :
         p.positions[slots[i]] # NoPos => p.positions[slots[i]] \in start..(finish - 1)
    /\ \A i \in DOMAIN slots : start + i <= Len(p.cells) => p.cells[start + i] = slots[i]

Applied(p, s, start, slots) ==
  LET finish == start + Len(slots)
      size == IF finish > Len(p.cells) THEN finish ELSE Len(p.cells)
  IN  [valid |-> TRUE, sequence |-> s,
       cells |-> [i \in 1..size |-> IF i > start /\ i <= finish THEN slots[i - start]
                                    ELSE p.cells[i]],
       positions |-> [c \in Cells |-> IF \E i \in DOMAIN slots : slots[i] = c
                                      THEN start - 1 + CHOOSE i \in DOMAIN slots : slots[i] = c
                                      ELSE p.positions[c]]]

-----------------------------------------------------------------------------
(* llama_memory_hybrid_idx: the cache that goes with the cells m is the record   *)
(* [prefix, pending, ready].                                                     *)

Cache == [prefix |-> prefix, pending |-> recover_pending, ready |-> ready]
SetCache(q) == prefix' = q.prefix /\ recover_pending' = q.pending /\ ready' = q.ready

(* Fault: the number of cached blocks survives. *)
InvalidatedReadyKept == [prefix |-> Invalid, pending |-> TRUE, ready |-> ready]

(* qsa_invalidate() *)
Invalidated == [prefix |-> Invalid, pending |-> TRUE, ready |-> 0]
Rejected == [Invalidated EXCEPT !.pending = FALSE]

(* Fault: a recovery is asked for although the mirror is valid. *)
AfterRemovalPending(q, s, p0, p1) ==
  IF q.prefix.valid /\ s # q.prefix.sequence THEN [q EXCEPT !.pending = TRUE]
  ELSE Invalidated

(* seq_rm() once the recurrent memory has agreed *)
AfterRemoval(q, s, p0, p1) ==
  IF ~q.prefix.valid THEN [q EXCEPT !.pending = TRUE]
  ELSE IF s # q.prefix.sequence THEN q
  ELSE IF p1 >= 0 /\ p1 < Len(q.prefix.cells) THEN Invalidated
  ELSE LET p == Truncated(q.prefix, p0)
           complete == Len(p.cells) \div Block
       IN  [prefix |-> p, pending |-> q.pending,
            ready |-> IF complete < q.ready THEN complete ELSE q.ready]

(* Fault: cells that are shared with another sequence are taken as well. *)
CanRecoverShared(m, s) ==
  LET used == UsedCells(m) IN
    /\ \A c \in used : s \in m[c].seqs /\ m[c].flat /\ m[c].pos < Cardinality(used)
    /\ \A c, d \in used : m[c].pos = m[d].pos => c = d

(* qsa_recover(): every used cell holds one position of s alone, without gaps. *)
CanRecover(m, s) ==
  LET used == UsedCells(m) IN
    /\ \A c \in used : m[c].seqs = {s} /\ m[c].flat /\ m[c].pos < Cardinality(used)
    /\ \A c, d \in used : m[c].pos = m[d].pos => c = d
Recovered(m, s) ==
  [valid |-> TRUE, sequence |-> s,
   cells |-> [i \in 1..Cardinality(UsedCells(m)) |->
                CHOOSE c \in UsedCells(m) : m[c].pos = i - 1],
   positions |-> [c \in Cells |-> IF c \in UsedCells(m) THEN m[c].pos ELSE NoPos]]

(* qsa_apply(), after the cells of the batch are in m *)
Base(q, m, s) == IF q.prefix.valid THEN q.prefix ELSE Recovered(m, s)
AfterApply(q, m, b, slots) ==
  LET s == b.seq[1]
      p == Base(q, m, s)
  IN  IF ~IsRun(b) THEN Rejected
      ELSE IF ~q.prefix.valid /\ (~q.pending \/ ~CanRecover(m, s))
      THEN [q EXCEPT !.pending = FALSE]
      ELSE IF CanApply(p, s, b.pos[1], slots)
      THEN [prefix |-> Applied(p, s, b.pos[1], slots), pending |-> FALSE, ready |-> q.ready]
      ELSE Rejected

Complete(p) == Len(p.cells) \div Block

(* The key of a block, pooled from its cells in m. *)
PooledFrom(p, m, b) == [i \in 0..(Block - 1) |-> {m[p.cells[b * Block + i + 1]].tok}]

(* Rows a fast batch prepares: one more than the blocks n tokens can touch. *)
FastRows(n) == (n + Block - 1) \div Block + 1

(* Fault: the blocks cached before the batch are not asked for. *)
FastUnprepared(q, previous, n) == n <= MaxFast /\ Complete(q.prefix) >= FastRows(n)

(* qsa_fast() for a batch of n tokens, applied to a mirror of previous cells *)
Fast(q, previous, n) ==
  /\ n <= MaxFast
  /\ q.ready >= previous \div Block
  /\ Complete(q.prefix) >= FastRows(n)

(* qsa_fill_updates(): the blocks of the batch, then others to fill the rows. *)
Updated(p, begin, n) ==
  LET first == begin \div Block
      last == Min({Complete(p), (begin + n + Block - 1) \div Block})
      others == {b \in 0..(Complete(p) - 1) : b < first \/ b >= last}
      missing == FastRows(n) - (last - first)
  IN  (first..(last - 1)) \cup {b \in others : Cardinality({a \in others : a < b}) < missing}

(* The keys once the graph of batch b has been computed on the cells m. *)
KeysAfter(q, m, b) ==
  LET n == Len(b.tok)
      previous == Len(Base(Cache, m, b.seq[1]).cells)
      rows == IF Fast(q, previous, n) THEN Updated(q.prefix, b.pos[1], n)
              ELSE 0..(Complete(q.prefix) - 1)
  IN  [k \in KeyBlocks |-> IF k \in rows THEN PooledFrom(q.prefix, m, k) ELSE key[k]]

(* qsa_commit() *)
Committed(q) == [q EXCEPT !.ready = Complete(q.prefix)]

-----------------------------------------------------------------------------
Init ==
  /\ PlainInit
  /\ prefix = Fresh /\ recover_pending = FALSE /\ ready = 0
  /\ key = [b \in KeyBlocks |-> NoKey]

(* clear(data): the keys are cleared with the data. *)
Clear ==
  /\ raw' = Empty /\ read' = <<>>
  /\ prefix' = Fresh /\ recover_pending' = FALSE /\ ready' = 0
  /\ \/ key' = [b \in KeyBlocks |-> NoKey]
     \/ UNCHANGED key

(* seq_rm(): the recurrent memory may refuse to cut its newest states off. *)
SeqRm(s, p0, p1) ==
  /\ raw' = Removed(raw, s, p0, p1)
  /\ SetCache(AfterRemoval(Cache, s, p0, p1))
  /\ read' = <<>>
  /\ UNCHANGED key

SeqCp(src, dst) ==
  /\ raw' = Copied(raw, src, dst)
  /\ SetCache(Invalidated)
  /\ read' = <<>>
  /\ UNCHANGED key

SeqKeep(s) ==
  /\ raw' = Kept(raw, s)
  /\ SetCache(IF ~prefix.valid \/ prefix.sequence \notin {NoSeq, s} THEN Invalidated
              ELSE Cache)
  /\ read' = <<>>
  /\ UNCHANGED key

(* state_read(): the cache is invalid before the cells change, also when the     *)
(* restore fails and state_drop() removes the sequence.                          *)
StateRead(s) ==
  /\ raw' \in Restored(raw, s)
  /\ SetCache(Invalidated)
  /\ read' = <<>>
  /\ UNCHANGED key

(* A micro-batch of llama_decode().  Whether the graph scores blocks at all      *)
(* depends on the size of the cache; if it does, and the mirror covers the       *)
(* batch, the keys of the cache are brought up to date and scored.               *)
Decode ==
  \E b \in Batches(raw) : \E slots \in Placements(raw, Len(b.tok)) :
    LET m == Placed(raw, b, slots, TRUE)
        q == AfterApply(Cache, m, b, slots)
    IN  /\ raw' = m
        /\ \/ SetCache(q) /\ read' = <<>> /\ UNCHANGED key
           \/ IsRun(b) /\ ~q.prefix.valid
              /\ SetCache(q) /\ read' = Pooled(m, b.seq[1]) /\ UNCHANGED key
           \/ q.prefix.valid
              /\ key' = KeysAfter(q, m, b)
              /\ SetCache(Committed(q))
              /\ read' = [k \in 0..(Complete(q.prefix) - 1) |-> key'[k]]

(* The removal of a failed micro-batch from sequence s, and the clearing of the  *)
(* sequence by its caller.                                                       *)
AfterFailure(q, b, s, refused) ==
  LET r == IF s \in refused THEN q ELSE AfterRemoval(q, s, FirstPos(b, s), -1)
  IN  IF ClearsAfterError THEN AfterRemoval(r, s, 0, -1) ELSE r

(* A batch has tokens of one sequence or of two.                                 *)
Failed(q, b, refused) ==
  LET last == b.seq[Len(b.tok)]
      done == AfterFailure(q, b, b.seq[1], refused)
  IN  IF last = b.seq[1] THEN done ELSE AfterFailure(done, b, last, refused)

(* A micro-batch fails before or after the commit of the cache, and the graph    *)
(* may or may not have written the keys by then.                                 *)
FailedDecode(b, slots, refused, written, sparse) ==
  LET m == Placed(raw, b, slots, written)
      q == AfterApply(Cache, m, b, slots)
      cached == sparse /\ q.prefix.valid
  IN  /\ raw' = AfterError(m, b, refused)
      /\ key' = IF cached /\ written THEN KeysAfter(q, m, b) ELSE key
      /\ SetCache(Failed(IF cached THEN Committed(q) ELSE q, b, refused))
      /\ read' = <<>>

DecodeFails ==
  \E b \in Batches(raw) : \E slots \in Placements(raw, Len(b.tok)) :
  \E refused \in Refusals(b), written, sparse \in BOOLEAN :
    FailedDecode(b, slots, refused, written, sparse)

Next ==
  \/ Clear
  \/ \E s \in Seqs, r \in Ranges : SeqRm(s, r[1], r[2])
  \/ \E src, dst \in Seqs : SeqCp(src, dst)
  \/ \E s \in Seqs : SeqKeep(s) \/ StateRead(s)
  \/ Decode \/ DecodeFails

Spec == Init /\ [][Next]_vars

-----------------------------------------------------------------------------
(* Properties *)

(* The mirror p is exact: the used cells of m are those it lists, each with its  *)
(* position and its sequence alone, and positions is its inverse.                *)
MirrorOf(p, m) ==
  /\ IsInjective(p.cells) /\ Range(p.cells) = UsedCells(m)
  /\ \A i \in DOMAIN p.cells :
       m[p.cells[i]].seqs = {p.sequence} /\ m[p.cells[i]].pos = i - 1
  /\ \A c \in Cells : p.positions[c] = IF c \in UsedCells(m) THEN m[c].pos ELSE NoPos

(* A valid mirror is exact, whatever was removed, copied, restored, lost with a  *)
(* failed batch or recovered (qsa_prefix_state, qsa_recover).                    *)
Mirror == prefix.valid => MirrorOf(prefix, raw)

FreshKeys(p, m, n, k) ==
  /\ n * Block <= Len(p.cells)
  /\ \A b \in 0..(n - 1) : k[b] = PooledFrom(p, m, b)

(* The cached keys that count as ready are those of the cells as they are, and   *)
(* an invalid mirror vouches for no key (qsa_ready).                             *)
KeysFresh == IF prefix.valid THEN FreshKeys(prefix, raw, ready, key) ELSE ready = 0

(* The cache is invisible: every sparse decode scores the keys it would have     *)
(* pooled anew (build_qsa_top_k, qsa_fast, qsa_fill_updates).                    *)
ReadsAsPlain == PlainSpec
=============================================================================
