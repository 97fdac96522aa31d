--------------------------- MODULE IndexerMemory ----------------------------
(***************************************************************************)
(* The indexer's memory of llama_memory_hybrid_idx as a caller may think   *)
(* of it: cells with a position, a set of sequences and a raw key, changed *)
(* by the llama_memory_* calls and by llama_decode(), and the pooled keys  *)
(* a sparse decode scores, one per complete block of positions.  Here they *)
(* are always pooled anew from the cells; module QsaPrefix, which extends  *)
(* this one, keeps them in a cache between decodes.                        *)
(*                                                                         *)
(* All sequences share one stream (a unified KV cache).  A raw key is      *)
(* abstracted to the token it was computed from, a pooled key to the       *)
(* tokens at the positions of its block.  seq_add() and seq_div() are      *)
(* rejected for this architecture (n_pos_per_embd() # 1) and left out.     *)
(***************************************************************************)
EXTENDS Integers, Sequences, FiniteSets, FiniteSetsExt, Functions

CONSTANTS
  KvSize,     \* cells of the KV cache
  Block,      \* positions of a block; the code has 4
  Seqs,       \* sequence ids
  Tokens,
  MaxPos,     \* bound: [Seqs -> Nat], the last position decoded in a sequence
  Runs,       \* what a text batch carries: sequences of tokens
  Gaps,       \* positions a text batch may leave out
  Ranges,     \* the ranges <<p0, p1>> removed; p1 = -1 for no upper end
  RecurrentState,   \* there is recurrent state, which may refuse to be cut short
  ClearsAfterError  \* the caller clears the sequences of a decode that failed

ASSUME SizesAssumption ==
  /\ KvSize \in Nat \ {0} /\ Block \in Nat \ {0}
  /\ MaxPos \in [Seqs -> Nat]
ASSUME InputsAssumption ==
  /\ Runs \subseteq Seq(Tokens) \ {<<>>}
  /\ Gaps \subseteq Nat
  /\ Ranges \subseteq Nat \X Int
ASSUME CallerAssumption == RecurrentState \in BOOLEAN /\ ClearsAfterError \in BOOLEAN

Cells == 0..(KvSize - 1)
Unset == "unset"       \* the key of a cell that was reserved and not computed

VARIABLES
  raw,    \* [Cells -> [seqs, pos, tok, flat]]: llama_kv_cells and the raw keys
  read    \* pooled keys scored by the last decode, <<>> if there were none

memory == <<raw, read>>

Cell == [seqs : SUBSET Seqs, pos : Nat, tok : Tokens \cup {Unset}, flat : BOOLEAN]
EmptyCell == [seqs |-> {}, pos |-> 0, tok |-> Unset, flat |-> TRUE]

-----------------------------------------------------------------------------
(* Operators on the cells, a memory m being a value of raw *)

FreeCells(m) == {c \in Cells : m[c].seqs = {}}
UsedCells(m) == Cells \ FreeCells(m)
CellsOf(m, s) == {c \in Cells : s \in m[c].seqs}

NextPos(m, s) ==
  IF CellsOf(m, s) = {} THEN 0 ELSE Max({m[c].pos : c \in CellsOf(m, s)}) + 1

InRange(pos, p0, p1) == p0 <= pos /\ (p1 < 0 \/ pos < p1)

WithoutSeq(cell, s) ==
  IF cell.seqs \subseteq {s} THEN EmptyCell ELSE [cell EXCEPT !.seqs = @ \ {s}]

Removed(m, s, p0, p1) ==
  [c \in Cells |-> IF s \in m[c].seqs /\ InRange(m[c].pos, p0, p1)
                   THEN WithoutSeq(m[c], s) ELSE m[c]]
RemovedAll(m, ss) ==
  [c \in Cells |-> IF m[c].seqs # {} /\ m[c].seqs \subseteq ss THEN EmptyCell
                   ELSE [m[c] EXCEPT !.seqs = @ \ ss]]
Copied(m, src, dst) ==
  [c \in Cells |-> IF src \in m[c].seqs THEN [m[c] EXCEPT !.seqs = @ \cup {dst}] ELSE m[c]]
Kept(m, s) ==
  [c \in Cells |-> IF s \in m[c].seqs THEN [m[c] EXCEPT !.seqs = {s}] ELSE EmptyCell]

(* find_slot(): the first n free cells, in order. *)
FirstFree(m, n) ==
  {c \in FreeCells(m) : Cardinality({d \in FreeCells(m) : d < c}) < n}
Placements(m, n) ==
  {slots \in [1..n -> FirstFree(m, n)] : \A i, j \in 1..n : i < j => slots[i] < slots[j]}

(***************************************************************************)
(* A micro-batch: for its i-th token the sequence, the position and the    *)
(* token.  Text is a run of one sequence that may leave positions out; the *)
(* patches of an image share one position; a mixed batch has one token of  *)
(* several sequences.  The last two never use a cache of pooled keys.      *)
(***************************************************************************)
TextBatch(m, s, toks, gap) ==
  [text |-> TRUE, flat |-> TRUE, tok |-> toks,
   seq |-> [i \in DOMAIN toks |-> s],
   pos |-> [i \in DOMAIN toks |-> NextPos(m, s) + gap + i - 1]]
ImageBatch(m, s, toks, flat) ==
  [text |-> FALSE, flat |-> flat, tok |-> toks,
   seq |-> [i \in DOMAIN toks |-> s],
   pos |-> [i \in DOMAIN toks |-> NextPos(m, s)]]
MixedBatch(m, s, t, toks) ==
  [text |-> TRUE, flat |-> TRUE, tok |-> toks,
   seq |-> <<s, t>>, pos |-> <<NextPos(m, s), NextPos(m, t)>>]

TextBatches(m) == {TextBatch(m, s, toks, gap) : s \in Seqs, toks \in Runs, gap \in Gaps}
ImageBatches(m) ==
  {ImageBatch(m, s, <<tok, tok>>, flat) : s \in Seqs, tok \in Tokens, flat \in BOOLEAN}
MixedBatches(m) ==
  UNION {{MixedBatch(m, s, t, <<tok, tok>>) : t \in Seqs \ {s}, tok \in Tokens} : s \in Seqs}
Batches(m) ==
  {b \in TextBatches(m) \cup ImageBatches(m) \cup MixedBatches(m) :
     \A i \in DOMAIN b.pos : b.pos[i] \in 0..MaxPos[b.seq[i]]}

SeqsOf(b) == Range(b.seq)

(* The cells once the batch is applied and, if written, its keys computed. *)
Placed(m, b, slots, written) ==
  [c \in Cells |->
     IF \E i \in DOMAIN slots : slots[i] = c
     THEN LET i == CHOOSE k \in DOMAIN slots : slots[k] = c
          IN  [seqs |-> {b.seq[i]}, pos |-> b.pos[i],
               tok |-> IF written THEN b.tok[i] ELSE Unset, flat |-> b.flat]
     ELSE m[c]]

(***************************************************************************)
(* What llama_decode() leaves of a micro-batch that failed: it is removed  *)
(* from the sequences whose recurrent state does not refuse it.  A caller  *)
(* that clears after an error removes all of its sequences.                *)
(***************************************************************************)
Refusals(b) == IF RecurrentState THEN SUBSET SeqsOf(b) ELSE {{}}
FirstPos(b, s) == Min({b.pos[i] : i \in {k \in DOMAIN b.seq : b.seq[k] = s}})
RolledBack(m, b, refused) ==
  [c \in Cells |->
     LET gone == {s \in m[c].seqs \cap (SeqsOf(b) \ refused) : m[c].pos >= FirstPos(b, s)}
     IN  IF gone = {} THEN m[c]
         ELSE IF m[c].seqs = gone THEN EmptyCell ELSE [m[c] EXCEPT !.seqs = @ \ gone]]
AfterError(m, b, refused) ==
  IF ClearsAfterError THEN RemovedAll(m, SeqsOf(b)) ELSE RolledBack(m, b, refused)

(* The pooled keys of the complete blocks of a sequence. *)
KeyAt(m, s, pos) == {m[c].tok : c \in {d \in CellsOf(m, s) : m[d].pos = pos}}
Blocks(m, s) ==
  {b \in 0..(KvSize \div Block) : \A i \in 0..(Block - 1) : KeyAt(m, s, b * Block + i) # {}}
Pooled(m, s) == [b \in Blocks(m, s) |-> [i \in 0..(Block - 1) |-> KeyAt(m, s, b * Block + i)]]

IsRun(b) ==
  /\ b.text
  /\ \A i \in DOMAIN b.seq : b.seq[i] = b.seq[1] /\ b.pos[i] = b.pos[1] + i - 1

-----------------------------------------------------------------------------
Empty == [c \in Cells |-> EmptyCell]

PlainInit == raw = Empty /\ read = <<>>

PlainEdit ==
  /\ \/ raw' = Empty
     \/ \E s \in Seqs, r \in Ranges : raw' = Removed(raw, s, r[1], r[2])
     \/ \E src, dst \in Seqs : raw' = Copied(raw, src, dst)
     \/ \E s \in Seqs : raw' = Kept(raw, s)
  /\ read' = <<>>

(* A restored state, as one batch would leave it, replaces the sequence.  If it  *)
(* cannot be read the sequence is lost.                                          *)
Restored(m, s) ==
  LET cleared == RemovedAll(m, {s})
  IN  {cleared} \cup
      UNION {{Placed(cleared, b, slots, TRUE) : slots \in Placements(cleared, Len(b.tok))}
             : b \in {x \in Batches(cleared) : SeqsOf(x) = {s}}}

PlainRestore ==
  /\ \E s \in Seqs : raw' \in Restored(raw, s)
  /\ read' = <<>>

PlainDecode ==
  \E b \in Batches(raw) : \E slots \in Placements(raw, Len(b.tok)) :
    /\ raw' = Placed(raw, b, slots, TRUE)
    /\ read' \in {<<>>} \cup (IF IsRun(b) THEN {Pooled(raw', b.seq[1])} ELSE {})

PlainDecodeFails ==
  \E b \in Batches(raw) : \E slots \in Placements(raw, Len(b.tok)) :
    /\ \E written \in BOOLEAN, refused \in Refusals(b) :
         raw' = AfterError(Placed(raw, b, slots, written), b, refused)
    /\ read' = <<>>

PlainNext == PlainEdit \/ PlainRestore \/ PlainDecode \/ PlainDecodeFails

(* The abstract specification: every sparse decode of a run scores the keys of   *)
(* the cells as they are.                                                        *)
PlainSpec == PlainInit /\ [][PlainNext]_memory
=============================================================================
