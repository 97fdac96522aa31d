--------------------------- MODULE RecurrentMemory ---------------------------
(***************************************************************************)
(* The recurrent half of a model's memory, llama_memory_recurrent          *)
(* (src/llama-memory-recurrent.cpp), under the calls that the server makes *)
(* (tools/server/server-context.cpp).  A cell holds the state of one       *)
(* sequence, or of several that have not diverged yet.  Its row in the     *)
(* first plane of the state tensors is the state after all its tokens, its *)
(* rows in the n_rs_seq further planes the states one, two, ... tokens     *)
(* earlier: the snapshots from which a rejected draft is taken back.       *)
(*                                                                         *)
(* What a row holds is abstracted to the prefixes it is the state of: a    *)
(* pair <<s, n>> says that the row is the state after the first n tokens   *)
(* of s.  A row with no pair holds something else, and the decode that     *)
(* reads it gives a wrong answer without an error.                         *)
(*                                                                         *)
(* The layers, and the r and s tensors of one layer, are alike and are one *)
(* row.  Tokens belong to one sequence each, as in all of the server's     *)
(* batches.  prepare() tries find_slot() and restores the cells, and is    *)
(* left out; a micro-batch holds any batch of the model, so n_ubatch is.   *)
(* src0 and n are used up by the decode that sets them and are its values. *)
(***************************************************************************)
EXTENDS Integers, Sequences, FiniteSets, SequencesExt

CONSTANTS
  NSeqMax,     \* n_seq_max, also the number of cells
  Settings,    \* the contexts and their uses: see setting
  MaxTokens,   \* bound: tokens of a sequence in any context
  MaxPrompt    \* bound: prompt tokens of a sequence in one batch

ASSUME SizeAssumption == NSeqMax \in Nat \ {0} /\ MaxTokens \in Nat /\ MaxPrompt \in Nat
ASSUME SettingsAssumption ==
  Settings \subseteq [rs : Nat, slots : SUBSET (0..(NSeqMax - 1)), max : 1..MaxTokens, even : BOOLEAN,
    calls : SUBSET {"clear", "state", "copy"}, split : {"serial", "sequential", "unified"}]

Cells == 0..(NSeqMax - 1)
Seqs  == Cells    \* the tail of sequence s is kept in cell s
None  == -1
Saved == NSeqMax           \* a state that was written out, as a sequence of its own
SavedRow == <<None, None>>
Empty == [pos |-> None, src |-> None, seqs |-> {}]

VARIABLES
  setting,   \* rs: n_rs_seq; split: one sequence per micro-batch, those of
             \* consecutive ids, or any; slots: the sequences in use;
             \* max: bound on their tokens; calls: made besides decoding;
             \* even: only batches with equally many tokens of each sequence
  mem,       \* cells, tail, head and used
  rs_idx,    \* rs_idx[s]: the snapshot that s continues from, 0 its newest state
  data,      \* the rows of the state tensors, and the row of a written state
  saved,     \* tokens of the state that was written out last
  batch,     \* the sequences of the batch being decoded, in order
  left,      \* left[s]: tokens of s in the batch that are not decoded yet
  drafted    \* drafted[s]: tokens of s in the last batch that may be taken back

vars == <<setting, mem, rs_idx, data, saved, batch, left, drafted>>

Planes == 0..setting.rs
Rows == (Planes \X Cells) \cup {SavedRow}
Zero == {<<s, 0>> : s \in Seqs \cup {Saved}}    \* the state before the first token

Tokens(s) == IF mem.tail[s] = None THEN 0 ELSE mem.cells[mem.tail[s]].pos + 1

-----------------------------------------------------------------------------
(* The sequences' prefixes are renamed when their tokens change. *)

Shorten(d, s, n) == [r \in DOMAIN d |-> {p \in d[r] : p[1] # s \/ p[2] <= n}]

(* s becomes the first n tokens of o. *)
Become(d, s, o, n) ==
  LET e == Shorten(d, s, 0)
  IN [r \in DOMAIN d |-> e[r] \cup {<<s, p[2]>> : p \in {q \in e[r] : q[1] = o /\ q[2] <= n}}]

-----------------------------------------------------------------------------
(* seq_rm() of a whole sequence, and seq_cp(). *)

(* Fault: a shared cell is emptied with one of its sequences. *)
FreedBySharer(m, s) == {c \in Cells : s \in m.cells[c].seqs}
FreedBy(m, s) == {c \in Cells : m.cells[c].seqs = {s}}

SeqRmAll(m, s) ==
  LET freed == FreedBy(m, s)
  IN [cells |-> [c \in Cells |-> IF c \in freed THEN Empty
                                 ELSE [m.cells[c] EXCEPT !.seqs = @ \ {s}]],
      tail  |-> [m.tail EXCEPT ![s] = None],
      used  |-> m.used - Cardinality(freed),
      head  |-> IF freed = {} THEN m.head ELSE Min(freed \cup {m.head})]

SeqCp(m, a, b) ==
  LET gone == IF m.tail[b] = None \/ m.cells[m.tail[b]].seqs # {b} THEN {} ELSE {m.tail[b]}
      rest == [c \in Cells |-> IF c \in gone THEN Empty
                               ELSE [m.cells[c] EXCEPT !.seqs = @ \ {b}]]
  IN [m EXCEPT !.tail[b] = m.tail[a],
               !.used = @ - Cardinality(gone),
               !.cells = IF m.tail[a] = None THEN rest
                         ELSE [rest EXCEPT ![m.tail[a]].seqs = @ \cup {b}]]

-----------------------------------------------------------------------------
(* find_slot(): the cells of the micro-batch's sequences, side by side. *)

Wrapped(c) == IF c >= NSeqMax THEN c - NSeqMax ELSE c

EmptyFrom(cells, from) ==
  LET steps == {k \in Cells : cells[Wrapped(from + k)].seqs = {}}
  IN IF steps = {} THEN Wrapped(from) ELSE Wrapped(from + Min(steps))

(* A sequence that shares its cell, or has none, takes the next empty one.   *)
(* Fault: a sequence goes on in the cell that it shares.                     *)
OwnsShare(m, s) == m.tail[s] # None
Owns(m, s) == m.tail[s] # None /\ m.cells[m.tail[s]].seqs = {s}

TakeCell(m, s) ==
  IF Owns(m, s) THEN m
  ELSE LET old == m.tail[s]
           copy == [m.cells EXCEPT ![m.next] = [m.cells[old] EXCEPT !.seqs = {s}]]
           cells == IF old = None THEN m.cells ELSE [copy EXCEPT ![old].seqs = @ \ {s}]
       IN [cells |-> cells, tail |-> [m.tail EXCEPT ![s] = m.next],
           next |-> EmptyFrom(cells, m.next + 1)]

(* The cells i and j change places. *)
Swap(m, i, j) ==
  [m EXCEPT !.cells = [@ EXCEPT ![i] = m.cells[j], ![j] = m.cells[i]],
            !.tail = [s \in Seqs |-> CASE @[s] = i -> j [] @[s] = j -> i [] OTHER -> @[s]]]

(* A cell for each sequence of u, in turn. *)
Search(m, u) ==
  LET start == IF m.head > m.used + 2 * Len(u) THEN 0 ELSE m.head
      after[k \in 0..Len(u)] ==
        IF k = 0 THEN [cells |-> m.cells, tail |-> m.tail, next |-> EmptyFrom(m.cells, start)]
        ELSE TakeCell(after[k - 1], u[k])
  IN after[Len(u)]

(* The cells are gathered from min on, in the order of u. *)
Gather(m, u, min) ==
  LET after[k \in 0..Len(u)] ==
        IF k = 0 THEN m
        ELSE LET a == after[k - 1] IN Swap(a, a.tail[u[k]], min + k - 1)
  IN after[Len(u)]

(* Each cell of the graph becomes the source of its own state.               *)
(* Fault: it stays to be copied, or zeroed, once more.                       *)
SettleLater(cells, range) == cells
Settle(cells, range) ==
  [c \in Cells |-> IF c \in range THEN [cells[c] EXCEPT !.src = c] ELSE cells[c]]

(* Of the sequences u, with their last positions: the memory, the cells of   *)
(* the graph, the cell to be zeroed, and the cell each state is read from.   *)
FindSlot(m, u, last) ==
  LET taken == Search(m, u)
      used  == {taken.tail[u[k]] : k \in DOMAIN u}
      min   == Min(used)
      range == min..Max(used)
      placed == Gather(taken, u, min)
      cells == [c \in Cells |->
                  IF c \in min..(min + Len(u) - 1)
                  THEN [placed.cells[c] EXCEPT !.pos = last[u[c - min + 1]], !.seqs = {u[c - min + 1]}]
                  ELSE placed.cells[c]]
      free  == {c \in range : \A d \in Cells : cells[d].src # c}
      zero  == IF free = {} THEN None ELSE Min(free)
      next  == Settle(cells, range)
  IN [mem |-> [cells |-> next, tail |-> placed.tail, head |-> min,
               used |-> Cardinality({c \in Cells : next[c].seqs # {}})],
      range |-> range, zero |-> zero,
      src0 |-> [c \in range |-> IF cells[c].src = None THEN zero ELSE cells[c].src]]

-----------------------------------------------------------------------------
(* init_batch(): the sequences and the number of tokens of the next          *)
(* micro-batch (split_equal()).  n_keep_tail leaves the last tokens of a     *)
(* sequence together, so that all the snapshots are taken by one graph.      *)

(* The sequences of the batch that have tokens left; with consecutive ids if *)
(* the split is sequential, the first one alone if it is serial.             *)
Joins(g, s) ==
  /\ left[s] > 0
  /\ g # <<>> => setting.split = "unified" \/ (setting.split = "sequential" /\ s = Last(g) + 1)

Group ==
  LET after[k \in 0..Len(batch)] ==
        IF k = 0 THEN <<>>
        ELSE LET g == after[k - 1] IN IF Joins(g, batch[k]) THEN Append(g, batch[k]) ELSE g
  IN after[Len(batch)]

(* Fault: the last tokens of a sequence are split like the others. *)
KeepsAny(n) == TRUE
KeepsTail(n) == setting.rs = 0 \/ n = 0 \/ n > setting.rs

NextUbatch ==
  LET g    == Group
      m    == Min({left[g[k]] : k \in DOMAIN g})
      keep == Max({j \in 0..Len(g) : \A k \in 1..j : KeepsTail(left[g[k]] - m)})
  IN IF keep = 0 THEN [seqs |-> <<g[1]>>, tokens |-> left[g[1]]]
     ELSE [seqs |-> SubSeq(g, 1, keep), tokens |-> m]

-----------------------------------------------------------------------------
(* The graph.  s_copy() names the row each cell of the range is read from    *)
(* and uses up the rollback of the cell's first sequence; build_rs() zeroes  *)
(* a row, reads the rows, copies those of the other cells in the range; the  *)
(* model writes its newest states, as many as there are tokens and planes.   *)

First(c) == Min(c.seqs)

SCopy(f, c) ==
  <<IF setting.rs = 0 \/ f.mem.cells[c].seqs = {} THEN 0 ELSE rs_idx[First(f.mem.cells[c])], f.src0[c]>>

(* Fault: the rollback is not used up. *)
UsedNone(f) == {}
Used(f) == {First(f.mem.cells[c]) : c \in {d \in f.range : f.mem.cells[d].seqs # {}}}

(* Fault: a new sequence continues from what the row held. *)
NotZeroed(f) == data
Zeroed(f) == IF f.zero = None THEN data ELSE [data EXCEPT ![<<0, f.zero>>] = Zero]

Computed(f, u) ==
  LET old   == Zeroed(f)
      n(s)  == Tokens(s) + u.tokens
      State(s, c, g) == IF g < u.tokens /\ <<s, Tokens(s)>> \in old[SCopy(f, c)]
                        THEN {<<s, n(s) - g>>} ELSE {}
      main  == f.mem.head..(f.mem.head + Len(u.seqs) - 1)
  IN [r \in Rows |->
        CASE r[2] \in main -> State(u.seqs[r[2] - f.mem.head + 1], r[2], r[1])
          [] r[1] = 0 /\ r[2] \in f.range \ main -> old[SCopy(f, r[2])]
          [] OTHER -> old[r]]

-----------------------------------------------------------------------------
(* The calls of the server. *)

Init ==
  /\ setting \in Settings
  /\ mem = [cells |-> [c \in Cells |-> Empty], tail |-> [s \in Seqs |-> None],
            head |-> 0, used |-> 0]
  /\ rs_idx = [s \in Seqs |-> 0]
  /\ data = [r \in Rows |-> Zero]
  /\ saved = 0
  /\ batch = <<>> /\ left = [s \in Seqs |-> 0]
  /\ drafted = [s \in Seqs |-> 0]

Settled == batch = <<>> /\ \A s \in Seqs : drafted[s] = 0

(* update_slots(): the slots that generate, each with its sampled token and  *)
(* a draft, then pieces of the prompts of others.                            *)
Nth(S, k) == CHOOSE s \in S : Cardinality({t \in S : t <= s}) = k
Ascending(S) == [k \in 1..Cardinality(S) |-> Nth(S, k)]

StartDecode(gens, d, prompts, p) ==
  LET tokens(s) == IF s \in gens THEN d[s] + 1 ELSE p[s]
  IN /\ Settled
     /\ gens \cup prompts # {}
     /\ \A s \in gens : Tokens(s) > 0
     /\ \A s \in gens \cup prompts : Tokens(s) + tokens(s) <= setting.max
     /\ setting.even => \A s, t \in gens \cup prompts : tokens(s) = tokens(t)
     /\ batch' = Ascending(gens) \o Ascending(prompts)
     /\ left' = [s \in Seqs |-> IF s \in gens \cup prompts THEN tokens(s) ELSE 0]
     /\ drafted' = [s \in Seqs |-> IF s \in gens THEN d[s] ELSE 0]
     /\ UNCHANGED <<setting, mem, rs_idx, data, saved>>

(* llama_decode(): one micro-batch is placed and computed. *)
DecodeUbatch ==
  /\ batch # <<>>
  /\ LET u == NextUbatch
         f == FindSlot(mem, u.seqs, [s \in Seqs |-> Tokens(s) + u.tokens - 1])
     IN /\ mem' = f.mem
        /\ data' = Computed(f, u)
        /\ rs_idx' = [s \in Seqs |-> IF s \in Used(f) THEN 0 ELSE rs_idx[s]]
        /\ left' = [s \in Seqs |-> IF s \in Range(u.seqs) THEN left[s] - u.tokens ELSE left[s]]
        /\ batch' = IF \A s \in Seqs : left'[s] = 0 THEN <<>> ELSE batch
  /\ UNCHANGED <<setting, saved, drafted>>

(* post_decode(): the sampler takes the draft of s, or rejects its last k    *)
(* tokens: seq_rm() of the end of a sequence.  A refusal ends the process    *)
(* (RollbackAccepted).  The drafts are dealt with before anything but the    *)
(* copies to children.                                                       *)
Accept(s) ==
  /\ batch = <<>>
  /\ drafted[s] > 0
  /\ drafted' = [drafted EXCEPT ![s] = 0]
  /\ UNCHANGED <<setting, mem, rs_idx, data, saved, batch, left>>

Accepts(s, k) == rs_idx[s] = 0 /\ k \in 1..setting.rs

Reject(s, k) ==
  /\ batch = <<>>
  /\ k <= drafted[s]
  /\ Accepts(s, k)
  /\ mem' = [mem EXCEPT !.cells[mem.tail[s]].pos = @ - k]
  /\ rs_idx' = [rs_idx EXCEPT ![s] = k]
  /\ data' = Shorten(data, s, Tokens(s) - k)
  /\ drafted' = [drafted EXCEPT ![s] = 0]
  /\ UNCHANGED <<setting, saved, batch, left>>

(* prompt_clear() of a slot. *)
Clear(s) ==
  /\ Settled
  /\ mem' = SeqRmAll(mem, s)
  /\ rs_idx' = [rs_idx EXCEPT ![s] = 0]
  /\ data' = Shorten(data, s, 0)
  /\ UNCHANGED <<setting, saved, batch, left, drafted>>

(* copy_state_to(): the child b gets the state of the parent a, whose prompt *)
(* has just been decoded: nothing of it was drafted or is rolled back.       *)
CopyState(a, b) ==
  /\ batch = <<>>
  /\ a # b
  /\ Tokens(a) > 0 /\ rs_idx[a] = 0 /\ drafted[a] = 0
  /\ mem' = SeqCp(SeqRmAll(mem, b), a, b)
  /\ rs_idx' = [rs_idx EXCEPT ![b] = 0]
  /\ data' = Become(data, b, a, Tokens(a))
  /\ drafted' = [drafted EXCEPT ![b] = 0]
  /\ UNCHANGED <<setting, saved, batch, left>>

(* state_write(): of a prompt into the cache, a checkpoint, or a file. *)
(* Fault: the newest row is written, whatever was rolled back.         *)
NewestRowOf(s) ==
  LET c == mem.tail[s]
  IN <<0, IF mem.cells[c].src = None THEN c ELSE mem.cells[c].src>>
RowOf(s) ==
  LET c == mem.tail[s]
  IN <<rs_idx[s], IF mem.cells[c].src = None THEN c ELSE mem.cells[c].src>>

Write(s) ==
  /\ Settled
  /\ Tokens(s) > 0
  /\ saved' = Tokens(s)
  /\ data' = Become([data EXCEPT ![SavedRow] = data[RowOf(s)]], Saved, s, Tokens(s))
  /\ UNCHANGED <<setting, mem, rs_idx, batch, left, drafted>>

(* state_read() into any slot. *)
Read(s) ==
  LET f == FindSlot(SeqRmAll(mem, s), <<s>>, [t \in Seqs |-> saved - 1])
  IN /\ Settled
     /\ saved > 0
     /\ mem' = [f.mem EXCEPT !.cells[f.mem.head].src = f.mem.head]
     /\ rs_idx' = [rs_idx EXCEPT ![s] = 0]
     /\ data' = Become([data EXCEPT ![<<0, f.mem.head>>] = data[SavedRow]], s, Saved, saved)
     /\ UNCHANGED <<setting, saved, batch, left, drafted>>

Next ==
  \/ \E gens, prompts \in SUBSET setting.slots :
       /\ gens \cap prompts = {}
       /\ \E d \in [gens -> 0..setting.rs], p \in [prompts -> 1..MaxPrompt] :
            StartDecode(gens, d, prompts, p)
  \/ DecodeUbatch
  \/ \E s \in setting.slots :
       \/ Accept(s)
       \/ \E k \in 1..setting.rs : Reject(s, k)
       \/ "clear" \in setting.calls /\ Clear(s)
       \/ "state" \in setting.calls /\ (Write(s) \/ Read(s))
       \/ "copy" \in setting.calls /\ \E b \in setting.slots : CopyState(s, b)

Spec == Init /\ [][Next]_vars

-----------------------------------------------------------------------------
(* The variables have their types; the count of used cells is right, and a *)
(* cell that is used is the source of its own state between two decodes.   *)
Cell == [pos : None..(MaxTokens - 1), src : Cells \cup {None}, seqs : SUBSET Seqs]
Memory == [cells : [Cells -> Cell], tail : [Seqs -> Cells \cup {None}],
           head : Cells, used : 0..NSeqMax]
StatePairs == (Seqs \cup {Saved}) \X (0..MaxTokens)

TypeOK ==
  /\ setting \in Settings
  /\ mem \in Memory
  /\ \A c \in Cells : /\ mem.cells[c].src \in {None, c}
                      /\ mem.cells[c].seqs # {} => mem.cells[c].src = c
  /\ mem.used = Cardinality({c \in Cells : mem.cells[c].seqs # {}})
  /\ rs_idx \in [Seqs -> Planes]
  /\ data \in [Rows -> SUBSET StatePairs]
  /\ saved \in 0..MaxTokens
  /\ batch \in Seq(Seqs)
  /\ left \in [Seqs -> 0..MaxTokens]
  /\ drafted \in [Seqs -> Planes]

(* A sequence is in the cell that its tail names and in no other: what the *)
(* debug build of find_slot() verifies and reports as a wrong or duplicate *)
(* tail (llama-memory-recurrent.cpp:557).                                  *)
TailsAgree ==
  \A s \in Seqs : {c \in Cells : s \in mem.cells[c].seqs}
                  = IF mem.tail[s] = None THEN {} ELSE {mem.tail[s]}

(* The server never asks for a rollback that seq_rm() refuses, which would *)
(* end the process (common_context_seq_rm() in common/common.cpp): each    *)
(* draft was decoded after the last rollback and used that up.             *)
RollbackAccepted ==
  batch = <<>> => \A s \in Seqs : \A k \in 1..drafted[s] : Accepts(s, k)

(* The state of s, of as many tokens as its cell says, is where the next   *)
(* decode, a copy or a save will look for it.  Otherwise it is lost.       *)
Lost == -1
StateOf(s) ==
  CASE Tokens(s) = 0 -> 0
    [] Tokens(s) > 0 /\ <<s, Tokens(s)>> \in data[RowOf(s)] -> Tokens(s)
    [] OTHER -> Lost

(* Every sequence has the state of its tokens: whatever micro-batches are  *)
(* made, cells shared, moved and zeroed, drafts taken back and states      *)
(* written and read, no sequence is given another's state, an older one or *)
(* one that was taken back (llama-memory-recurrent.cpp and its test,       *)
(* test-recurrent-state-rollback.cpp).                                     *)
States == INSTANCE SequenceStates WITH
  known <- [s \in Seqs |-> StateOf(s)],
  written <- IF <<Saved, saved>> \in data[SavedRow] THEN saved ELSE Lost
ImplementsStates == States!Spec

(* The snapshots from which a draft may be taken back hold the states they *)
(* stand for when the batch is done.  The comment at [TAG_RECURRENT_       *)
(* ROLLBACK_SPLITS] (llama-memory-recurrent.cpp:442) says of the split     *)
(* that the last tokens of a sequence stay in one micro-batch "so that the *)
(* rollback snapshots remain valid".                                       *)
SnapshotsValid ==
  batch = <<>> =>
    \A s \in Seqs : \A k \in 1..drafted[s] : <<s, Tokens(s) - k>> \in data[<<k, mem.tail[s]>>]
=============================================================================
