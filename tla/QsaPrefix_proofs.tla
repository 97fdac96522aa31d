-------------------------- MODULE QsaPrefix_proofs --------------------------
(***************************************************************************)
(* Proofs about QsaPrefix for any number of cells and sequences, any size  *)
(* of a block and any batches: the variables have their types, a valid     *)
(* mirror is exact, the keys that count as cached are those of the cells,  *)
(* and the cache is invisible to the caller.                               *)
(***************************************************************************)
EXTENDS QsaPrefix, FiniteSetTheorems, SequenceTheorems, TLAPS

CellMaps == [Cells -> Cell]
CacheRecords == [prefix : PrefixState, pending : BOOLEAN, ready : Nat]

(* MirrorOf without existential quantifiers.                                     *)
Exact(p, m) ==
  /\ \A i \in 1..Len(p.cells) : /\ m[p.cells[i]].seqs = {p.sequence}
                                /\ m[p.cells[i]].pos = i - 1
  /\ \A c \in UsedCells(m) : m[c].pos < Len(p.cells) /\ p.cells[m[c].pos + 1] = c
  /\ \A c \in Cells : p.positions[c] = IF c \in UsedCells(m) THEN m[c].pos ELSE NoPos

(* The cache q is sound for the cells m.                                         *)
Sound(q, m) ==
  /\ q \in CacheRecords
  /\ q.prefix.valid => Exact(q.prefix, m) /\ ~q.pending

-----------------------------------------------------------------------------
(* Types *)

LEMMA DivFacts ==
  ASSUME NEW n \in Nat, NEW d \in Nat \ {0}
  PROVE  n \div d \in Nat /\ (n \div d) * d <= n /\ n < (n \div d) * d + d
OBVIOUS

LEMMA EmptyCellType == EmptyCell \in Cell
BY DEF EmptyCell, Cell

LEMMA PrefixType ==
  ASSUME NEW p \in PrefixState
  PROVE  /\ p.valid \in BOOLEAN /\ p.sequence \in Seqs \cup {NoSeq}
         /\ p.cells \in Seq(Cells) /\ Len(p.cells) \in Nat
         /\ DOMAIN p.cells = 1..Len(p.cells)
         /\ \A i \in 1..Len(p.cells) : p.cells[i] \in Cells
         /\ p.positions \in [Cells -> Int]
<1>1. p.cells \in Seq(Cells)
  BY DEF PrefixState
<1>2. QED BY <1>1 DEF PrefixState

LEMMA InvalidType == Invalid \in PrefixState /\ Fresh \in PrefixState /\ ~Invalid.valid
<1>1. <<>> \in Seq(Cells)
  OBVIOUS
<1>2. [c \in Cells |-> NoPos] \in [Cells -> Int]
  BY DEF NoPos
<1>3. Fresh \in PrefixState
  BY <1>1, <1>2 DEF Fresh, PrefixState
<1>4. QED BY <1>3 DEF Invalid, Fresh, PrefixState

(* A mirror that gives up is sound whatever the cells are.                       *)
LEMMA InvalidSound ==
  ASSUME NEW m
  PROVE  Sound(Invalidated, m) /\ Sound(Rejected, m)
BY InvalidType DEF Sound, Invalidated, Rejected, CacheRecords

LEMMA InvalidStaysSound ==
  ASSUME NEW q, NEW m, NEW w \in BOOLEAN, NEW n, Sound(q, n), ~q.prefix.valid
  PROVE  Sound([q EXCEPT !.pending = w], m)
BY DEF Sound, CacheRecords

(* Without existential quantifiers the exactness of a mirror says the same.      *)
LEMMA MirrorIsExact ==
  ASSUME NEW p \in PrefixState, NEW m \in CellMaps
  PROVE  MirrorOf(p, m) <=> Exact(p, m)
<1>1. \A c \in Cells : m[c].pos \in Nat
  BY DEF CellMaps, Cell
<1>2. ASSUME MirrorOf(p, m) PROVE Exact(p, m)
  <2>1. ASSUME NEW c \in UsedCells(m) 
        PROVE  m[c].pos < Len(p.cells) /\ p.cells[m[c].pos + 1] = c
    <3>1. PICK i \in 1..Len(p.cells) : p.cells[i] = c
      BY <1>2, PrefixType DEF MirrorOf, Range
    <3>2. m[c].pos = i - 1
      BY <1>2, <3>1, PrefixType DEF MirrorOf
    <3>3. QED BY <3>1, <3>2, PrefixType
  <2>2. QED BY <1>2, <2>1, PrefixType DEF MirrorOf, Exact
<1>3. ASSUME Exact(p, m) PROVE MirrorOf(p, m)
  <2>1. IsInjective(p.cells)
    <3>1. ASSUME NEW i \in 1..Len(p.cells), NEW j \in 1..Len(p.cells), p.cells[i] = p.cells[j]
          PROVE  i = j
      <4>1. m[p.cells[i]].pos = i - 1 /\ m[p.cells[j]].pos = j - 1
        BY <1>3 DEF Exact
      <4>2. QED BY <3>1, <4>1
    <3>2. DOMAIN p.cells = 1..Len(p.cells)
      BY PrefixType
    <3>3. QED BY <3>1, <3>2 DEF IsInjective
  <2>2. ASSUME NEW i \in 1..Len(p.cells) PROVE p.cells[i] \in UsedCells(m)
    BY <1>3, PrefixType DEF Exact, UsedCells, FreeCells
  <2>3. ASSUME NEW c \in UsedCells(m) PROVE \E i \in 1..Len(p.cells) : p.cells[i] = c
    <3>1. m[c].pos + 1 \in 1..Len(p.cells)
      BY <1>1, <1>3, PrefixType DEF Exact, UsedCells
    <3>2. QED BY <1>3, <3>1 DEF Exact
  <2>4. Range(p.cells) = UsedCells(m)
    BY <2>2, <2>3, PrefixType DEF Range
  <2>5. QED BY <1>3, <2>1, <2>4, PrefixType DEF MirrorOf, Exact
<1>4. QED BY <1>2, <1>3

-----------------------------------------------------------------------------
(* Removal *)

(* The mirror may be cut where the cells are cut.                                *)
LEMMA CutExact ==
  ASSUME NEW p \in PrefixState, NEW m \in CellMaps, NEW m2 \in CellMaps, NEW size \in Nat,
         Exact(p, m),
         \A c \in Cells : IF c \in UsedCells(m) /\ m[c].pos < size THEN m2[c] = m[c]
                          ELSE m2[c].seqs = {}
  PROVE  /\ Truncated(p, size) \in PrefixState
         /\ Truncated(p, size).valid = p.valid
         /\ Exact(Truncated(p, size), m2)
         /\ Len(Truncated(p, size).cells) = IF size < Len(p.cells) THEN size ELSE Len(p.cells)
<1>1. \A c \in Cells : m[c].pos \in Nat
  BY DEF CellMaps, Cell
<1>2. UsedCells(m2) = {c \in UsedCells(m) : m[c].pos < size}
  BY DEF UsedCells, FreeCells
<1>3. CASE size >= Len(p.cells)
  <2>1. UsedCells(m2) = UsedCells(m)
    BY <1>1, <1>2, <1>3, PrefixType DEF Exact, UsedCells
  <2>2. \A c \in UsedCells(m) : m2[c] = m[c]
    BY <1>2, <2>1 DEF UsedCells
  <2>3. \A i \in 1..Len(p.cells) : p.cells[i] \in UsedCells(m)
    BY PrefixType DEF Exact, UsedCells, FreeCells
  <2>4. Exact(p, m2)
    BY <2>1, <2>2, <2>3 DEF Exact
  <2>5. QED BY <1>3, <2>4, PrefixType DEF Truncated
<1>4. CASE size < Len(p.cells)
  <2> DEFINE t == Truncated(p, size)
  <2>1. /\ SubSeq(p.cells, 1, size) \in Seq(Cells)
        /\ Len(SubSeq(p.cells, 1, size)) = size
        /\ \A i \in 1..size : SubSeq(p.cells, 1, size)[i] = p.cells[i]
    BY <1>4, PrefixType, SubSeqProperties
  <2> DEFINE cells == SubSeq(p.cells, 1, size)
             positions == [c \in Cells |-> IF p.positions[c] >= size THEN NoPos
                                           ELSE p.positions[c]]
             sequence == IF size = 0 THEN NoSeq ELSE p.sequence
  <2>2. t = [valid |-> p.valid, sequence |-> sequence, cells |-> cells, positions |-> positions]
    <3>1. t = [p EXCEPT !.cells = cells, !.positions = positions, !.sequence = sequence]
      BY <1>4, PrefixType DEF Truncated
    <3> HIDE DEF cells, positions, sequence, t
    <3>2. QED BY <3>1 DEF PrefixState
  <2>3. positions \in [Cells -> Int]
    BY PrefixType DEF NoPos
  <2>4. sequence \in Seqs \cup {NoSeq}
    BY PrefixType
  <2>5. t \in PrefixState
    <3> HIDE DEF cells, positions, sequence, t
    <3>1. p.valid \in BOOLEAN
      BY PrefixType
    <3>2. QED BY <2>1, <2>2, <2>3, <2>4, <3>1 DEF PrefixState, cells
  <2>6. ASSUME NEW i \in 1..size
        PROVE  m2[t.cells[i]].seqs = {t.sequence} /\ m2[t.cells[i]].pos = i - 1
    <3>1. t.cells[i] = p.cells[i] /\ p.cells[i] \in Cells
      BY <1>4, <2>1, <2>2, PrefixType
    <3>2. m[p.cells[i]].seqs = {p.sequence} /\ m[p.cells[i]].pos = i - 1
      <4>1. i \in 1..Len(p.cells)
        BY <1>4, PrefixType
      <4>2. QED BY <4>1 DEF Exact
    <3>3. m2[p.cells[i]] = m[p.cells[i]]
      <4>1. p.cells[i] \in UsedCells(m)
        BY <3>1, <3>2 DEF UsedCells, FreeCells
      <4>2. m[p.cells[i]].pos < size
        BY <3>2
      <4> HIDE DEF t
      <4>3. QED BY <3>1, <4>1, <4>2
    <3>4. QED BY <2>2, <3>1, <3>2, <3>3
  <2>7. ASSUME NEW c \in UsedCells(m2)
        PROVE  m2[c].pos < size /\ t.cells[m2[c].pos + 1] = c
    <3>1. c \in UsedCells(m) /\ m[c].pos < size /\ m2[c] = m[c]
      BY <1>2 DEF UsedCells
    <3>2. m[c].pos + 1 \in 1..size /\ p.cells[m[c].pos + 1] = c
      BY <1>1, <3>1 DEF Exact, UsedCells
    <3>3. QED BY <2>1, <2>2, <3>1, <3>2
  <2>8. ASSUME NEW c \in Cells
        PROVE  t.positions[c] = IF c \in UsedCells(m2) THEN m2[c].pos ELSE NoPos
    <3>1. p.positions[c] = IF c \in UsedCells(m) THEN m[c].pos ELSE NoPos
      BY DEF Exact
    <3>2. QED BY <1>1, <1>2, <2>2, <3>1 DEF NoPos, UsedCells
  <2>9. Exact(t, m2)
    <3>1. Len(t.cells) = size
      BY <2>1, <2>2
    <3> HIDE DEF t
    <3>2. QED BY <2>6, <2>7, <2>8, <3>1 DEF Exact
  <2>10. QED BY <1>4, <2>1, <2>2, <2>5, <2>9
<1>5. QED BY <1>3, <1>4, PrefixType

(* The cells after a removal have their types.                                   *)
LEMMA RemovalTypes ==
  ASSUME NEW m \in CellMaps
  PROVE  /\ Empty \in CellMaps
         /\ \A s, p0, p1 : Removed(m, s, p0, p1) \in CellMaps
         /\ \A ss : RemovedAll(m, ss) \in CellMaps
         /\ \A s \in Seqs : Kept(m, s) \in CellMaps
         /\ \A src, dst \in Seqs : Copied(m, src, dst) \in CellMaps
         /\ \A b, refused : RolledBack(m, b, refused) \in CellMaps
<1>1. ASSUME NEW c \in Cells, NEW ss \in SUBSET Seqs
      PROVE  [m[c] EXCEPT !.seqs = ss] \in Cell
  BY DEF CellMaps, Cell
<1>2. \A c \in Cells : m[c] \in Cell /\ m[c].seqs \in SUBSET Seqs
  BY DEF CellMaps, Cell
<1>3. \A c \in Cells : \A ss : m[c].seqs \ ss \in SUBSET Seqs
  BY <1>2
<1>4. Empty \in CellMaps
  BY EmptyCellType DEF Empty, CellMaps
<1>5. ASSUME NEW s, NEW p0, NEW p1 PROVE Removed(m, s, p0, p1) \in CellMaps
  <2>1. \A c \in Cells : WithoutSeq(m[c], s) \in Cell
    BY <1>1, <1>3, EmptyCellType DEF WithoutSeq
  <2>2. QED BY <1>2, <2>1 DEF Removed, CellMaps
<1>6. ASSUME NEW ss PROVE RemovedAll(m, ss) \in CellMaps
  <2>1. \A c \in Cells : [m[c] EXCEPT !.seqs = @ \ ss] \in Cell
    BY <1>1, <1>3
  <2>2. QED BY <2>1, EmptyCellType DEF RemovedAll, CellMaps
<1>7. ASSUME NEW s \in Seqs PROVE Kept(m, s) \in CellMaps
  <2>1. \A c \in Cells : [m[c] EXCEPT !.seqs = {s}] \in Cell
    BY <1>1
  <2>2. QED BY <2>1, EmptyCellType DEF Kept, CellMaps
<1>8. ASSUME NEW src \in Seqs, NEW dst \in Seqs PROVE Copied(m, src, dst) \in CellMaps
  <2>1. \A c \in Cells : m[c].seqs \cup {dst} \in SUBSET Seqs
    BY <1>2
  <2>2. \A c \in Cells : [m[c] EXCEPT !.seqs = @ \cup {dst}] \in Cell
    BY <1>1, <2>1
  <2>3. QED BY <1>2, <2>2 DEF Copied, CellMaps
<1>9. ASSUME NEW b, NEW refused PROVE RolledBack(m, b, refused) \in CellMaps
  <2> DEFINE Gone(c) ==
        {s \in m[c].seqs \cap (SeqsOf(b) \ refused) : m[c].pos >= FirstPos(b, s)}
  <2>1. \A c \in Cells : [m[c] EXCEPT !.seqs = @ \ Gone(c)] \in Cell
    <3> HIDE DEF Gone
    <3>1. QED BY <1>1, <1>3
  <2>2. RolledBack(m, b, refused) =
          [c \in Cells |-> IF Gone(c) = {} THEN m[c]
                           ELSE IF m[c].seqs = Gone(c) THEN EmptyCell
                           ELSE [m[c] EXCEPT !.seqs = @ \ Gone(c)]]
    BY DEF RolledBack
  <2> HIDE DEF Gone
  <2>3. QED BY <1>2, <2>1, <2>2, EmptyCellType DEF CellMaps
<1>10. QED BY <1>4, <1>5, <1>6, <1>7, <1>8, <1>9

(* The used cells of an exact mirror belong to its sequence alone.               *)
LEMMA ExactOwner ==
  ASSUME NEW p \in PrefixState, NEW m \in CellMaps, Exact(p, m)
  PROVE  /\ \A c \in UsedCells(m) : m[c].seqs = {p.sequence}
         /\ p.sequence = NoSeq => Len(p.cells) = 0
         /\ \A i \in 1..Len(p.cells) : p.cells[i] \in UsedCells(m)
         /\ \A c \in UsedCells(m) : m[c].pos + 1 \in 1..Len(p.cells)
<1>1. \A c \in Cells : m[c].pos \in Nat /\ m[c].seqs \subseteq Seqs
  BY DEF CellMaps, Cell
<1>2. ASSUME NEW i \in 1..Len(p.cells)
      PROVE  p.cells[i] \in UsedCells(m) /\ m[p.cells[i]].seqs = {p.sequence}
  <2>1. m[p.cells[i]].seqs = {p.sequence}
    BY DEF Exact
  <2>2. p.cells[i] \in Cells
    BY PrefixType
  <2>3. QED BY <2>1, <2>2 DEF UsedCells, FreeCells
<1>3. ASSUME NEW c \in UsedCells(m)
      PROVE  m[c].pos + 1 \in 1..Len(p.cells) /\ m[c].seqs = {p.sequence}
  <2>1. c \in Cells /\ m[c].pos \in Nat
    BY <1>1 DEF UsedCells
  <2>2. m[c].pos < Len(p.cells) /\ p.cells[m[c].pos + 1] = c
    BY DEF Exact
  <2>3. m[c].pos + 1 \in 1..Len(p.cells)
    BY <2>1, <2>2, PrefixType
  <2>4. QED BY <1>2, <2>2, <2>3
<1>4. ASSUME p.sequence = NoSeq, Len(p.cells) # 0 PROVE FALSE
  <2>1. 1 \in 1..Len(p.cells)
    BY <1>4, PrefixType
  <2>2. p.cells[1] \in UsedCells(m) /\ m[p.cells[1]].seqs = {NoSeq}
    BY <1>2, <1>4, <2>1
  <2>3. NoSeq \in Seqs
    BY <1>1, <2>2 DEF UsedCells
  <2>4. QED BY <2>3, NoSeqAssumption
<1>5. QED BY <1>2, <1>3, <1>4

(* seq_rm() keeps the cache sound.                                               *)
LEMMA RemovalSound ==
  ASSUME NEW m \in CellMaps, NEW q, Sound(q, m),
         NEW s \in Seqs, NEW p0 \in Nat, NEW p1 \in Int
  PROVE  Sound(AfterRemoval(q, s, p0, p1), Removed(m, s, p0, p1))
<1> DEFINE m2 == Removed(m, s, p0, p1)
<1>1. m2 \in CellMaps
  BY RemovalTypes
<1>2. q.prefix \in PrefixState /\ q.pending \in BOOLEAN /\ q.ready \in Nat
  BY DEF Sound, CacheRecords
<1>3. CASE ~q.prefix.valid
  BY <1>3, InvalidStaysSound DEF AfterRemoval
<1>4. CASE q.prefix.valid /\ s # q.prefix.sequence
  <2>1. Exact(q.prefix, m)
    BY <1>4 DEF Sound
  <2>2. \A c \in Cells : s \notin m[c].seqs
    BY <1>2, <1>4, <2>1, ExactOwner DEF UsedCells, FreeCells
  <2>3. \A c \in Cells : m2[c] = m[c]
    BY <2>2 DEF Removed
  <2>4. m2 = m
    BY <1>1, <2>3 DEF CellMaps
  <2>5. QED BY <1>4, <2>4 DEF AfterRemoval
<1>5. CASE q.prefix.valid /\ s = q.prefix.sequence /\ p1 >= 0 /\ p1 < Len(q.prefix.cells)
  BY <1>5, InvalidSound DEF AfterRemoval
<1>6. CASE q.prefix.valid /\ s = q.prefix.sequence /\ ~(p1 >= 0 /\ p1 < Len(q.prefix.cells))
  <2> DEFINE t == Truncated(q.prefix, p0)
             complete == Len(t.cells) \div Block
             r == IF complete < q.ready THEN complete ELSE q.ready
  <2>1. Exact(q.prefix, m) /\ ~q.pending
    BY <1>6 DEF Sound
  <2>2. ASSUME NEW c \in Cells
        PROVE  IF c \in UsedCells(m) /\ m[c].pos < p0 THEN m2[c] = m[c] ELSE m2[c].seqs = {}
    <3>1. m2[c] = IF s \in m[c].seqs /\ InRange(m[c].pos, p0, p1) THEN WithoutSeq(m[c], s)
                  ELSE m[c]
      BY DEF Removed
    <3>2. CASE c \notin UsedCells(m)
      BY <3>1, <3>2 DEF UsedCells, FreeCells
    <3>3. CASE c \in UsedCells(m)
      <4>1. m[c].seqs = {s} /\ m[c].pos \in Nat
        BY <1>2, <1>6, <2>1, <3>3, ExactOwner DEF CellMaps, Cell
      <4>2. m[c].pos < Len(q.prefix.cells) /\ Len(q.prefix.cells) \in Nat
        BY <1>2, <2>1, <3>3, PrefixType DEF Exact
      <4>3. InRange(m[c].pos, p0, p1) <=> m[c].pos >= p0
        BY <1>6, <4>1, <4>2 DEF InRange
      <4>4. WithoutSeq(m[c], s).seqs = {}
        BY <4>1 DEF WithoutSeq, EmptyCell
      <4>5. QED BY <3>1, <3>3, <4>1, <4>3, <4>4
    <3>4. QED BY <3>2, <3>3
  <2>3. t \in PrefixState /\ t.valid /\ Exact(t, m2)
    BY <1>1, <1>2, <1>6, <2>1, <2>2, CutExact
  <2>4. complete \in Nat
    BY <2>3, PrefixType, DivFacts, SizesAssumption
  <2>5. AfterRemoval(q, s, p0, p1) = [prefix |-> t, pending |-> q.pending, ready |-> r]
    BY <1>6 DEF AfterRemoval
  <2>6. r \in Nat
    BY <1>2, <2>4
  <2> HIDE DEF t, r, complete
  <2>7. QED BY <1>2, <2>1, <2>3, <2>5, <2>6 DEF Sound, CacheRecords
<1>7. QED BY <1>2, <1>3, <1>4, <1>5, <1>6, PrefixType

-----------------------------------------------------------------------------
(* Batches and their cells *)

BatchTypes(b) ==
  /\ b.text \in BOOLEAN /\ b.flat \in BOOLEAN
  /\ b.tok \in Seq(Tokens) /\ Len(b.tok) \in Nat \ {0}
  /\ DOMAIN b.tok = 1..Len(b.tok) /\ DOMAIN b.seq = 1..Len(b.tok)
  /\ \A i \in 1..Len(b.tok) : /\ b.tok[i] \in Tokens
                              /\ b.seq[i] \in Seqs /\ b.pos[i] \in Nat

LEMMA BatchesTyped ==
  ASSUME NEW m, NEW b \in Batches(m)
  PROVE  BatchTypes(b)
<1> USE SizesAssumption
<1>0. \A i \in DOMAIN b.pos : b.pos[i] \in 0..MaxPos[b.seq[i]]
  BY DEF Batches
<1>1. ASSUME NEW s \in Seqs, NEW toks \in Runs, NEW gap \in Gaps, b = TextBatch(m, s, toks, gap)
      PROVE  BatchTypes(b)
  <2>1. toks \in Seq(Tokens) /\ toks # <<>>
    BY InputsAssumption
  <2>2. Len(toks) \in Nat \ {0} /\ DOMAIN toks = 1..Len(toks)
        /\ \A i \in 1..Len(toks) : toks[i] \in Tokens
    BY <2>1
  <2>3. b.text = TRUE /\ b.flat = TRUE /\ b.tok = toks
        /\ b.seq = [i \in DOMAIN toks |-> s]
        /\ b.pos = [i \in DOMAIN toks |-> NextPos(m, s) + gap + i - 1]
    BY <1>1 DEF TextBatch
  <2>4. \A i \in 1..Len(toks) : b.pos[i] \in 0..MaxPos[s]
    BY <1>0, <2>2, <2>3
  <2>5. \A i \in 1..Len(toks) : b.pos[i] \in Nat
    BY <2>4, SizesAssumption
  <2>6. QED BY <2>1, <2>2, <2>3, <2>5 DEF BatchTypes
<1>2. ASSUME NEW s \in Seqs, NEW tok \in Tokens, NEW flat \in BOOLEAN,
             b = ImageBatch(m, s, <<tok, tok>>, flat)
      PROVE  BatchTypes(b)
  <2>1. <<tok, tok>> \in Seq(Tokens) /\ Len(<<tok, tok>>) = 2
        /\ DOMAIN <<tok, tok>> = 1..2 /\ \A i \in 1..2 : <<tok, tok>>[i] \in Tokens
    OBVIOUS
  <2>2. b.text = FALSE /\ b.flat = flat /\ b.tok = <<tok, tok>>
        /\ b.seq = [i \in 1..2 |-> s] /\ b.pos = [i \in 1..2 |-> NextPos(m, s)]
    BY <1>2, <2>1 DEF ImageBatch
  <2>3. \A i \in 1..2 : b.pos[i] \in 0..MaxPos[s]
    BY <1>0, <2>2
  <2>4. \A i \in 1..2 : b.pos[i] \in Nat
    BY <2>3, SizesAssumption
  <2>5. b.tok \in Seq(Tokens) /\ Len(b.tok) = 2 /\ DOMAIN b.tok = 1..2
        /\ \A i \in 1..2 : b.tok[i] \in Tokens
    BY <2>1, <2>2
  <2>6. b.text \in BOOLEAN /\ b.flat \in BOOLEAN
    BY <2>2, Zenon
  <2>7. DOMAIN b.seq = 1..2 /\ \A i \in 1..2 : b.seq[i] \in Seqs
    BY <2>2
  <2>8. QED BY <2>4, <2>5, <2>6, <2>7 DEF BatchTypes
<1>3. ASSUME NEW s \in Seqs, NEW t \in Seqs, NEW tok \in Tokens,
             b = MixedBatch(m, s, t, <<tok, tok>>)
      PROVE  BatchTypes(b)
  <2>1. <<tok, tok>> \in Seq(Tokens) /\ Len(<<tok, tok>>) = 2
        /\ DOMAIN <<tok, tok>> = 1..2 /\ \A i \in 1..2 : <<tok, tok>>[i] \in Tokens
    OBVIOUS
  <2>2. b.text = TRUE /\ b.flat = TRUE /\ b.tok = <<tok, tok>>
        /\ b.seq = <<s, t>> /\ b.pos = <<NextPos(m, s), NextPos(m, t)>>
    BY <1>3 DEF MixedBatch
  <2>3. DOMAIN b.seq = 1..2 /\ \A i \in 1..2 : b.seq[i] \in Seqs
    BY <2>2
  <2>4. \A i \in 1..2 : b.pos[i] \in 0..MaxPos[b.seq[i]]
    BY <1>0, <2>2
  <2>5. \A i \in 1..2 : b.pos[i] \in Nat
    BY <2>3, <2>4, SizesAssumption
  <2>6. b.tok \in Seq(Tokens) /\ Len(b.tok) = 2 /\ DOMAIN b.tok = 1..2
        /\ \A i \in 1..2 : b.tok[i] \in Tokens
    BY <2>1, <2>2
  <2>7. b.text \in BOOLEAN /\ b.flat \in BOOLEAN
    BY <2>2, Zenon
  <2>8. QED BY <2>3, <2>5, <2>6, <2>7 DEF BatchTypes
<1>4. CASE b \in TextBatches(m)
  BY <1>1, <1>4 DEF TextBatches
<1>5. CASE b \in ImageBatches(m)
  <2>1. PICK s \in Seqs, tok \in Tokens, flat \in BOOLEAN : b = ImageBatch(m, s, <<tok, tok>>, flat)
    BY <1>5 DEF ImageBatches
  <2>2. QED BY <1>2, <2>1, Zenon
<1>6. CASE b \in MixedBatches(m)
  <2>1. PICK s \in Seqs, t \in Seqs, tok \in Tokens : b = MixedBatch(m, s, t, <<tok, tok>>)
    BY <1>6 DEF MixedBatches
  <2>2. QED BY <1>3, <2>1, Zenon
<1>7. QED BY <1>4, <1>5, <1>6 DEF Batches

(* A batch is placed in free cells, one for each token.                          *)
LEMMA PlacementFacts ==
  ASSUME NEW m, NEW n \in Nat, NEW slots \in Placements(m, n)
  PROVE  /\ slots \in Seq(Cells) /\ Len(slots) = n /\ DOMAIN slots = 1..n
         /\ \A i \in 1..n : slots[i] \in Cells /\ slots[i] \notin UsedCells(m)
         /\ \A i, j \in 1..n : slots[i] = slots[j] => i = j
<1>1. slots \in [1..n -> FirstFree(m, n)]
      /\ \A i, j \in 1..n : i < j => slots[i] < slots[j]
  BY DEF Placements
<1>2. \A i \in 1..n : slots[i] \in Cells /\ slots[i] \notin UsedCells(m)
  BY <1>1 DEF FirstFree, FreeCells, UsedCells
<1>3. slots \in [1..n -> Cells]
  BY <1>1, <1>2
<1>4. slots \in Seq(Cells) /\ Len(slots) = n
  BY <1>3
<1>5. ASSUME NEW i \in 1..n, NEW j \in 1..n, slots[i] = slots[j] PROVE i = j
  <2>1. slots[i] \in Int /\ slots[j] \in Int
    BY <1>2, SizesAssumption DEF Cells
  <2>2. ~(i < j) /\ ~(j < i)
    BY <1>1, <1>5, <2>1
  <2>3. QED BY <2>2
<1>6. QED BY <1>2, <1>3, <1>4, <1>5

LEMMA PlacedFacts ==
  ASSUME NEW m \in CellMaps, NEW b, BatchTypes(b),
         NEW slots \in Placements(m, Len(b.tok)), NEW written \in BOOLEAN
  PROVE  LET m2 == Placed(m, b, slots, written) IN
         /\ m2 \in CellMaps
         /\ \A i \in 1..Len(b.tok) :
              /\ m2[slots[i]].seqs = {b.seq[i]} /\ m2[slots[i]].pos = b.pos[i]
         /\ \A c \in Cells : (\A i \in 1..Len(b.tok) : slots[i] # c) => m2[c] = m[c]
         /\ UsedCells(m2) = UsedCells(m) \cup {slots[i] : i \in 1..Len(b.tok)}
<1> DEFINE n == Len(b.tok)
           m2 == Placed(m, b, slots, written)
           New(i) == [seqs |-> {b.seq[i]}, pos |-> b.pos[i],
                      tok |-> IF written THEN b.tok[i] ELSE Unset, flat |-> b.flat]
<1>1. /\ DOMAIN slots = 1..n /\ n \in Nat
      /\ \A i \in 1..n : slots[i] \in Cells /\ slots[i] \notin UsedCells(m)
      /\ \A i, j \in 1..n : slots[i] = slots[j] => i = j
  BY PlacementFacts DEF BatchTypes
<1>2. \A i \in 1..n : New(i) \in Cell
  BY DEF BatchTypes, Cell
<1>3. ASSUME NEW i \in 1..n PROVE m2[slots[i]] = New(i)
  <2>1. (CHOOSE k \in DOMAIN slots : slots[k] = slots[i]) = i
    BY <1>1
  <2>2. QED BY <1>1, <2>1 DEF Placed
<1>4. ASSUME NEW c \in Cells, \A i \in 1..n : slots[i] # c PROVE m2[c] = m[c]
  BY <1>1, <1>4 DEF Placed
<1>5. DOMAIN m2 = Cells
  BY DEF Placed
<1>6. ASSUME NEW c \in Cells PROVE m2[c] \in Cell
  <2>1. CASE \E i \in 1..n : slots[i] = c
    BY <1>2, <1>3, <2>1
  <2>2. CASE \A i \in 1..n : slots[i] # c
    BY <1>4, <2>2 DEF CellMaps
  <2>3. QED BY <2>1, <2>2
<1>7. m2 \in CellMaps
  <2>1. m2 = [c \in Cells |-> m2[c]]
    BY <1>5 DEF Placed
  <2> HIDE DEF m2
  <2>2. QED BY <1>6, <2>1 DEF CellMaps
<1>8. ASSUME NEW i \in 1..n PROVE m2[slots[i]].seqs = {b.seq[i]} /\ m2[slots[i]].pos = b.pos[i]
  <2>1. New(i).seqs = {b.seq[i]} /\ New(i).pos = b.pos[i]
    OBVIOUS
  <2> HIDE DEF m2, New
  <2>2. QED BY <1>3, <2>1
<1>9. UsedCells(m2) = UsedCells(m) \cup {slots[i] : i \in 1..n}
  <2>1. ASSUME NEW c \in Cells
        PROVE  m2[c].seqs # {} <=> (m[c].seqs # {} \/ \E i \in 1..n : slots[i] = c)
    <3> HIDE DEF m2
    <3>1. CASE \E i \in 1..n : slots[i] = c
      BY <1>8, <3>1
    <3>2. CASE \A i \in 1..n : slots[i] # c
      BY <1>4, <3>2
    <3>3. QED BY <3>1, <3>2
  <2> HIDE DEF m2
  <2>2. QED BY <1>1, <2>1 DEF UsedCells, FreeCells
<1> HIDE DEF m2, New
<1>10. QED BY <1>4, <1>7, <1>8, <1>9 DEF m2

(* A run is one of its sequence, at consecutive positions.                       *)
LEMMA RunFacts ==
  ASSUME NEW b, BatchTypes(b), IsRun(b)
  PROVE  /\ b.seq[1] \in Seqs /\ b.pos[1] \in Nat
         /\ \A i \in 1..Len(b.tok) : b.seq[i] = b.seq[1] /\ b.pos[i] = b.pos[1] + i - 1
         /\ SeqsOf(b) = {b.seq[1]}
BY DEF BatchTypes, IsRun, SeqsOf, Range

-----------------------------------------------------------------------------
(* A decoded batch *)

AppliedShape(p, s, start, slots) ==
  LET r == Applied(p, s, start, slots)
      finish == start + Len(slots)
  IN  /\ r \in PrefixState /\ r.valid /\ r.sequence = s
      /\ Len(r.cells) = IF finish > Len(p.cells) THEN finish ELSE Len(p.cells)
      /\ \A i \in 1..Len(r.cells) :
           r.cells[i] = IF i > start /\ i <= finish THEN slots[i - start] ELSE p.cells[i]
      /\ \A i \in 1..Len(slots) : r.positions[slots[i]] = start - 1 + i
      /\ \A c \in Cells : (\A i \in 1..Len(slots) : slots[i] # c) =>
                             r.positions[c] = p.positions[c]

LEMMA AppliedFacts ==
  ASSUME NEW p \in PrefixState, NEW s \in Seqs, NEW start \in Nat, NEW slots \in Seq(Cells),
         \A i, j \in 1..Len(slots) : slots[i] = slots[j] => i = j,
         start <= Len(p.cells)
  PROVE  AppliedShape(p, s, start, slots)
<1> DEFINE finish == start + Len(slots)
           size == IF finish > Len(p.cells) THEN finish ELSE Len(p.cells)
           At(i) == IF i > start /\ i <= finish THEN slots[i - start] ELSE p.cells[i]
           cells == [i \in 1..size |-> At(i)]
           Pos(c) == IF \E i \in DOMAIN slots : slots[i] = c
                     THEN start - 1 + CHOOSE i \in DOMAIN slots : slots[i] = c
                     ELSE p.positions[c]
           positions == [c \in Cells |-> Pos(c)]
           r == Applied(p, s, start, slots)
<1>1. /\ Len(slots) \in Nat /\ DOMAIN slots = 1..Len(slots)
      /\ \A i \in 1..Len(slots) : slots[i] \in Cells
  OBVIOUS
<1>2. Len(p.cells) \in Nat /\ size \in Nat /\ finish \in Nat
  BY <1>1, PrefixType
<1>3. ASSUME NEW i \in 1..size PROVE At(i) \in Cells
  <2>1. CASE i > start /\ i <= finish
    <3>1. i - start \in 1..Len(slots)
      BY <1>1, <2>1
    <3>2. QED BY <1>1, <2>1, <3>1
  <2>2. CASE ~(i > start /\ i <= finish)
    <3>1. i \in 1..Len(p.cells)
      BY <1>1, <1>2, <2>2
    <3>2. QED BY <2>2, <3>1, PrefixType
  <2>3. QED BY <2>1, <2>2
<1>4. cells \in Seq(Cells) /\ Len(cells) = size /\ \A i \in 1..size : cells[i] = At(i)
  <2> HIDE DEF At, size
  <2>1. cells \in [1..size -> Cells]
    BY <1>3
  <2> HIDE DEF cells
  <2>2. cells \in Seq(Cells) /\ Len(cells) = size
    BY <1>2, <2>1
  <2>3. QED BY <2>2 DEF cells
<1>5. ASSUME NEW i \in 1..Len(slots) PROVE Pos(slots[i]) = start - 1 + i
  <2>1. (CHOOSE k \in DOMAIN slots : slots[k] = slots[i]) = i
    BY <1>1
  <2>2. QED BY <1>1, <2>1
<1>6. ASSUME NEW c \in Cells, \A i \in 1..Len(slots) : slots[i] # c PROVE Pos(c) = p.positions[c]
  BY <1>1, <1>6
<1>7. positions \in [Cells -> Int]
  <2>1. ASSUME NEW c \in Cells PROVE Pos(c) \in Int
    <3>1. CASE \E i \in 1..Len(slots) : slots[i] = c
      <4>1. PICK i \in 1..Len(slots) : slots[i] = c
        BY <3>1
      <4>2. Pos(c) = start - 1 + i
        BY <1>5, <4>1
      <4> HIDE DEF Pos
      <4>3. QED BY <1>1, <4>2
    <3>2. CASE \A i \in 1..Len(slots) : slots[i] # c
      BY <1>6, <3>2, PrefixType
    <3>3. QED BY <3>1, <3>2
  <2> HIDE DEF Pos
  <2>2. QED BY <2>1
<1>8. r = [valid |-> TRUE, sequence |-> s, cells |-> cells, positions |-> positions]
  BY DEF Applied
<1>9. r \in PrefixState
  <2> HIDE DEF cells, positions, r
  <2>1. QED BY <1>4, <1>7, <1>8 DEF PrefixState
<1>10. /\ r.valid /\ r.sequence = s /\ r.cells = cells
       /\ \A c \in Cells : r.positions[c] = Pos(c)
  <2> HIDE DEF cells, Pos, r
  <2>1. QED BY <1>8
<1> HIDE DEF cells, Pos, r, positions
<1>11. \A i \in 1..Len(slots) : r.positions[slots[i]] = start - 1 + i
  BY <1>1, <1>5, <1>10
<1>12. \A c \in Cells : (\A i \in 1..Len(slots) : slots[i] # c) => r.positions[c] = p.positions[c]
  BY <1>6, <1>10
<1>13. QED BY <1>4, <1>9, <1>10, <1>11, <1>12 DEF AppliedShape, r

(* The mirror r extends the mirror p by the run b; m2 are the cells with it.     *)
Appended(r, p, b, m2) ==
  /\ r \in PrefixState /\ r.valid
  /\ b.pos[1] = Len(p.cells)
  /\ Len(r.cells) = Len(p.cells) + Len(b.tok)
  /\ \A i \in 1..Len(p.cells) : r.cells[i] = p.cells[i]
  /\ Exact(r, m2)

(* A mirror that is valid before a run is extended by it, at its end.            *)
LEMMA AppendExact ==
  ASSUME NEW p \in PrefixState, NEW m \in CellMaps,
         NEW b, BatchTypes(b), IsRun(b), NEW written \in BOOLEAN,
         NEW slots \in Placements(m, Len(b.tok)),
         Exact(p, m), CanApply(p, b.seq[1], b.pos[1], slots),
         NEW r, r = Applied(p, b.seq[1], b.pos[1], slots)
  PROVE  Appended(r, p, b, Placed(m, b, slots, written))
<1> DEFINE s == b.seq[1]
           n == Len(b.tok)
           len == Len(p.cells)
           m2 == Placed(m, b, slots, written)
<1>1. /\ slots \in Seq(Cells) /\ Len(slots) = n /\ DOMAIN slots = 1..n /\ n \in Nat \ {0}
      /\ \A i \in 1..n : slots[i] \in Cells /\ slots[i] \notin UsedCells(m)
      /\ \A i, j \in 1..n : slots[i] = slots[j] => i = j
  BY PlacementFacts DEF BatchTypes
<1>2. /\ s \in Seqs /\ b.pos[1] \in Nat
      /\ \A i \in 1..n : b.seq[i] = s /\ b.pos[i] = b.pos[1] + i - 1
  BY RunFacts
<1>3. /\ len \in Nat /\ \A i \in 1..len : p.cells[i] \in Cells
      /\ \A c \in Cells : m[c].pos \in Nat
  BY PrefixType DEF CellMaps, Cell
<1>4. b.pos[1] = len
  <2>1. b.pos[1] <= len
    BY DEF CanApply
  <2>2. ASSUME b.pos[1] < len PROVE FALSE
    <3>1. b.pos[1] + 1 \in 1..len /\ 1 \in DOMAIN slots
      BY <1>1, <1>2, <1>3, <2>2
    <3>2. p.cells[b.pos[1] + 1] = slots[1]
      BY <1>3, <3>1 DEF CanApply
    <3>3. p.cells[b.pos[1] + 1] \in UsedCells(m)
      BY <3>1, ExactOwner
    <3>4. QED BY <1>1, <3>1, <3>2, <3>3
  <2>3. QED BY <1>2, <1>3, <2>1, <2>2
<1>5. AppliedShape(p, s, len, slots) /\ r = Applied(p, s, len, slots)
  <2>1. /\ s \in Seqs /\ len \in Nat /\ len <= Len(p.cells) /\ slots \in Seq(Cells)
        /\ \A i, j \in 1..Len(slots) : slots[i] = slots[j] => i = j
    <3>1. len <= Len(p.cells)
      BY <1>3
    <3> HIDE DEF s, n, len
    <3>2. QED BY <1>1, <1>2, <1>3, <3>1
  <2>2. AppliedShape(p, s, len, slots)
    BY <2>1, AppliedFacts
  <2>3. r = Applied(p, s, len, slots)
    BY <1>4
  <2>4. QED BY <2>2, <2>3
<1>6. /\ r \in PrefixState /\ r.valid /\ r.sequence = s
      /\ Len(r.cells) = len + n
      /\ \A i \in 1..(len + n) : r.cells[i] = IF i > len THEN slots[i - len] ELSE p.cells[i]
      /\ \A i \in 1..n : r.positions[slots[i]] = len - 1 + i
      /\ \A c \in Cells : (\A i \in 1..n : slots[i] # c) => r.positions[c] = p.positions[c]
  <2> HIDE DEF len, n
  <2>1. len + n > len
    BY <1>1, <1>3
  <2>2. /\ r \in PrefixState /\ r.valid /\ r.sequence = s
        /\ Len(r.cells) = len + n
        /\ \A i \in 1..(len + n) :
             r.cells[i] = IF i > len /\ i <= len + n THEN slots[i - len] ELSE p.cells[i]
        /\ \A i \in 1..n : r.positions[slots[i]] = len - 1 + i
        /\ \A c \in Cells : (\A i \in 1..n : slots[i] # c) => r.positions[c] = p.positions[c]
    BY <1>1, <1>5, <2>1 DEF AppliedShape, len
  <2>3. QED BY <1>1, <1>3, <2>2
<1>7. /\ m2 \in CellMaps
      /\ \A i \in 1..n : m2[slots[i]].seqs = {s} /\ m2[slots[i]].pos = len + i - 1
      /\ \A c \in Cells : (\A i \in 1..n : slots[i] # c) => m2[c] = m[c]
      /\ UsedCells(m2) = UsedCells(m) \cup {slots[i] : i \in 1..n}
  <2>1. /\ m2 \in CellMaps
        /\ \A i \in 1..n : m2[slots[i]].seqs = {b.seq[i]} /\ m2[slots[i]].pos = b.pos[i]
        /\ \A c \in Cells : (\A i \in 1..n : slots[i] # c) => m2[c] = m[c]
        /\ UsedCells(m2) = UsedCells(m) \cup {slots[i] : i \in 1..n}
    BY PlacedFacts
  <2> HIDE DEF m2, len, n
  <2>2. QED BY <1>2, <1>4, <2>1
<1> HIDE DEF m2, len, n
<1>8. ASSUME NEW c \in UsedCells(m)
      PROVE  m2[c] = m[c] /\ r.positions[c] = p.positions[c] /\ c \in Cells
  <2>1. c \in Cells /\ \A i \in 1..n : slots[i] # c
    BY <1>1 DEF UsedCells
  <2>2. QED BY <1>6, <1>7, <2>1
<1>9. ASSUME NEW i \in 1..len
      PROVE  /\ r.cells[i] = p.cells[i] /\ m2[p.cells[i]].seqs = {s}
             /\ m2[p.cells[i]].pos = i - 1
  <2>1. r.cells[i] = p.cells[i]
    <3>1. i \in 1..(len + n) /\ ~(i > len)
      BY <1>1, <1>3
    <3>2. QED BY <1>6, <3>1
  <2>2. m2[p.cells[i]] = m[p.cells[i]]
    BY <1>8, ExactOwner DEF len
  <2>3. m[p.cells[i]].seqs = {p.sequence} /\ m[p.cells[i]].pos = i - 1
    BY DEF Exact, len
  <2>4. p.sequence # NoSeq
    BY <1>3, ExactOwner DEF len
  <2>5. p.sequence = s
    BY <2>4 DEF CanApply
  <2>6. QED BY <2>1, <2>2, <2>3, <2>5
<1>10. ASSUME NEW i \in 1..(len + n)
       PROVE  m2[r.cells[i]].seqs = {r.sequence} /\ m2[r.cells[i]].pos = i - 1
  <2>1. CASE i <= len
    <3>1. i \in 1..len
      BY <1>1, <1>3, <2>1
    <3>2. QED BY <1>6, <1>9, <3>1
  <2>2. CASE i > len
    <3>1. i - len \in 1..n
      BY <1>1, <1>3, <2>2
    <3>2. r.cells[i] = slots[i - len]
      BY <1>6, <2>2
    <3>3. m2[slots[i - len]].pos = len + (i - len) - 1
      BY <1>7, <3>1
    <3>4. len + (i - len) - 1 = i - 1
      BY <1>3
    <3>5. m2[slots[i - len]].seqs = {s}
      BY <1>7, <3>1
    <3>6. QED BY <1>6, <3>2, <3>3, <3>4, <3>5
  <2>3. i <= len \/ i > len
    BY <1>3
  <2>4. QED BY <2>1, <2>2, <2>3, Zenon
<1>11. ASSUME NEW c \in UsedCells(m2)
       PROVE  /\ m2[c].pos < len + n /\ r.cells[m2[c].pos + 1] = c
              /\ r.positions[c] = m2[c].pos
  <2>1. CASE c \in UsedCells(m)
    <3>1. m[c].pos + 1 \in 1..len /\ m[c].pos < len /\ p.cells[m[c].pos + 1] = c
      BY <2>1, ExactOwner DEF Exact, len
    <3>2. p.positions[c] = m[c].pos
      BY <1>8, <2>1 DEF Exact
    <3>3. m[c].pos < len + n
      BY <1>1, <1>3, <1>8, <2>1, <3>1
    <3>4. QED BY <1>8, <1>9, <2>1, <3>1, <3>2, <3>3
  <2>2. CASE \E i \in 1..n : slots[i] = c
    <3>1. PICK i \in 1..n : slots[i] = c
      BY <2>2
    <3>2. m2[c].pos = len + i - 1 /\ r.positions[c] = len - 1 + i
      BY <1>6, <1>7, <3>1
    <3>3. len + i \in 1..(len + n) /\ len + i > len /\ (len + i) - len = i
      BY <1>1, <1>3
    <3>4. r.cells[len + i] = slots[i]
      BY <1>6, <3>3
    <3>5. QED BY <1>1, <1>3, <3>1, <3>2, <3>4
  <2>3. QED BY <1>7, <2>1, <2>2
<1>12. ASSUME NEW c \in Cells, c \notin UsedCells(m2) PROVE r.positions[c] = NoPos
  <2>1. c \notin UsedCells(m) /\ \A i \in 1..n : slots[i] # c
    BY <1>7, <1>12
  <2>2. QED BY <1>6, <2>1 DEF Exact
<1>13. Exact(r, m2)
  <2>1. Len(r.cells) = len + n
    BY <1>6
  <2>2. \A i \in 1..Len(r.cells) :
          m2[r.cells[i]].seqs = {r.sequence} /\ m2[r.cells[i]].pos = i - 1
    BY <1>10, <2>1, Zenon
  <2>3. \A c \in UsedCells(m2) : m2[c].pos < Len(r.cells) /\ r.cells[m2[c].pos + 1] = c
    BY <1>11, <2>1, Zenon
  <2>4. \A c \in Cells : r.positions[c] = IF c \in UsedCells(m2) THEN m2[c].pos ELSE NoPos
    BY <1>11, <1>12, Zenon
  <2>5. QED BY <2>2, <2>3, <2>4, Zenon DEF Exact
<1>14. QED BY <1>4, <1>6, <1>9, <1>13 DEF Appended, m2, len, n

(* qsa_recover() finds the cells of every position: as many cells as positions.  *)
LEMMA RecoverExact ==
  ASSUME NEW m \in CellMaps, NEW s \in Seqs, CanRecover(m, s)
  PROVE  /\ Recovered(m, s) \in PrefixState
         /\ Recovered(m, s).valid
         /\ Recovered(m, s).sequence = s
         /\ Exact(Recovered(m, s), m)
<1> DEFINE used == UsedCells(m)
           n == Cardinality(used)
           CellAt(i) == CHOOSE c \in used : m[c].pos = i - 1
           cells == [i \in 1..n |-> CellAt(i)]
           positions == [c \in Cells |-> IF c \in used THEN m[c].pos ELSE NoPos]
           r == Recovered(m, s)
           f == [c \in used |-> m[c].pos]
<1>1. IsFiniteSet(Cells) /\ used \subseteq Cells
  BY FS_Interval, SizesAssumption DEF Cells, UsedCells
<1>2. IsFiniteSet(used) /\ n \in Nat
  BY <1>1, FS_Subset, FS_CardinalityType
<1>3. /\ \A c \in used : m[c].seqs = {s} /\ m[c].pos < n /\ m[c].pos \in Nat
      /\ \A c, d \in used : m[c].pos = m[d].pos => c = d
  BY <1>1 DEF CanRecover, CellMaps, Cell
<1>4. IsFiniteSet(0..(n - 1)) /\ Cardinality(0..(n - 1)) = n
  BY <1>2, FS_Interval
<1>5. f \in Injection(used, 0..(n - 1))
  <2> HIDE DEF n, used
  <2>1. f \in [used -> 0..(n - 1)]
    BY <1>2, <1>3
  <2>2. IsInjective(f)
    BY <1>3 DEF IsInjective
  <2>3. QED BY <2>1, <2>2 DEF Injection
<1>6. f \in Surjection(used, 0..(n - 1))
  BY <1>4, <1>5, FS_Injection
<1> HIDE DEF n, used
<1>7. ASSUME NEW i \in 1..n PROVE CellAt(i) \in used /\ m[CellAt(i)].pos = i - 1
  <2>1. i - 1 \in 0..(n - 1)
    BY <1>2
  <2>2. \E c \in used : f[c] = i - 1
    BY <1>6, <2>1 DEF Surjection
  <2>3. \E c \in used : m[c].pos = i - 1
    BY <2>2
  <2>4. QED BY <2>3
<1>8. cells \in Seq(Cells) /\ Len(cells) = n /\ \A i \in 1..n : cells[i] = CellAt(i)
  <2>1. \A i \in 1..n : CellAt(i) \in Cells
    BY <1>1, <1>7
  <2> HIDE DEF CellAt
  <2>2. cells \in [1..n -> Cells]
    BY <2>1
  <2> HIDE DEF cells
  <2>3. cells \in Seq(Cells) /\ Len(cells) = n
    BY <1>2, <2>2
  <2>4. QED BY <2>3 DEF cells
<1>9. positions \in [Cells -> Int]
  BY <1>3 DEF NoPos
<1>10. r = [valid |-> TRUE, sequence |-> s, cells |-> cells, positions |-> positions]
  BY DEF Recovered, n, used
<1>11. r \in PrefixState
  <2> HIDE DEF cells, positions, r
  <2>1. QED BY <1>8, <1>9, <1>10 DEF PrefixState
<1>12. /\ r.valid /\ r.sequence = s /\ r.cells = cells /\ r.positions = positions
  <2> HIDE DEF cells, positions, r
  <2>1. QED BY <1>10
<1> HIDE DEF CellAt, cells, r
<1>13. \A i \in 1..n : m[cells[i]].seqs = {s} /\ m[cells[i]].pos = i - 1
  BY <1>3, <1>7, <1>8
<1>14. ASSUME NEW c \in used PROVE cells[m[c].pos + 1] = c
  <2>1. m[c].pos + 1 \in 1..n
    BY <1>2, <1>3
  <2>2. CellAt(m[c].pos + 1) \in used /\ m[CellAt(m[c].pos + 1)].pos = (m[c].pos + 1) - 1
    BY <1>7, <2>1
  <2>3. (m[c].pos + 1) - 1 = m[c].pos
    BY <1>3
  <2>4. CellAt(m[c].pos + 1) = c
    BY <1>3, <2>2, <2>3
  <2>5. QED BY <1>8, <2>1, <2>4
<1>15. Exact(r, m)
  BY <1>3, <1>8, <1>12, <1>13, <1>14 DEF Exact, used
<1>16. QED BY <1>11, <1>12, <1>15 DEF r

(* A mirror recovered after the batch was placed already has its cells.          *)
LEMMA ReapplyExact ==
  ASSUME NEW p \in PrefixState, NEW m \in CellMaps,
         NEW b, BatchTypes(b), IsRun(b), NEW written \in BOOLEAN,
         NEW slots \in Placements(m, Len(b.tok)),
         p.sequence = b.seq[1], Exact(p, Placed(m, b, slots, written)),
         CanApply(p, b.seq[1], b.pos[1], slots)
  PROVE  LET r == Applied(p, b.seq[1], b.pos[1], slots) IN
         /\ r \in PrefixState /\ r.valid
         /\ Len(r.cells) = Len(p.cells)
         /\ Exact(r, Placed(m, b, slots, written))
<1> DEFINE s == b.seq[1]
           n == Len(b.tok)
           len == Len(p.cells)
           start == b.pos[1]
           r == Applied(p, s, start, slots)
           m2 == Placed(m, b, slots, written)
<1>1. /\ slots \in Seq(Cells) /\ Len(slots) = n /\ n \in Nat \ {0}
      /\ \A i \in 1..n : slots[i] \in Cells
      /\ \A i, j \in 1..n : slots[i] = slots[j] => i = j
  BY PlacementFacts DEF BatchTypes
<1>2. /\ s \in Seqs /\ start \in Nat
      /\ \A i \in 1..n : b.pos[i] = start + i - 1
  BY RunFacts
<1>3. len \in Nat /\ start <= len
  BY PrefixType DEF CanApply
<1>4. AppliedShape(p, s, start, slots)
  BY <1>1, <1>2, <1>3, AppliedFacts
<1>5. /\ m2 \in CellMaps
      /\ \A i \in 1..n : m2[slots[i]].pos = start + i - 1 /\ slots[i] \in UsedCells(m2)
  <2>1. /\ m2 \in CellMaps
        /\ \A i \in 1..n : m2[slots[i]].pos = b.pos[i]
        /\ UsedCells(m2) = UsedCells(m) \cup {slots[i] : i \in 1..n}
    BY PlacedFacts
  <2> HIDE DEF m2, n, start
  <2>2. QED BY <1>2, <2>1
<1>6. ASSUME NEW i \in 1..n
      PROVE  start + i \in 1..len /\ p.cells[start + i] = slots[i]
             /\ p.positions[slots[i]] = start - 1 + i
  <2> HIDE DEF m2, len, n, start
  <2>1. m2[slots[i]].pos + 1 \in 1..len /\ p.cells[m2[slots[i]].pos + 1] = slots[i]
    BY <1>5, ExactOwner DEF Exact, m2, len
  <2>2. m2[slots[i]].pos + 1 = start + i /\ m2[slots[i]].pos = start - 1 + i
    BY <1>2, <1>5
  <2>3. p.positions[slots[i]] = m2[slots[i]].pos
    BY <1>1, <1>5 DEF Exact, m2
  <2>4. QED BY <2>1, <2>2, <2>3
<1> HIDE DEF r, m2, len, n, start
<1>7. start + n <= len
  <2>1. n \in 1..n
    BY <1>1
  <2>2. start + n \in 1..len
    BY <1>6, <2>1
  <2>3. QED BY <1>3, <2>2
<1>8. /\ r \in PrefixState /\ r.valid /\ r.sequence = s /\ Len(r.cells) = len
      /\ \A i \in 1..len :
           r.cells[i] = IF i > start /\ i <= start + n THEN slots[i - start] ELSE p.cells[i]
      /\ \A i \in 1..n : r.positions[slots[i]] = start - 1 + i
      /\ \A c \in Cells : (\A i \in 1..n : slots[i] # c) => r.positions[c] = p.positions[c]
  <2>1. ~(start + n > len)
    BY <1>1, <1>2, <1>3, <1>7
  <2>2. QED BY <1>1, <1>4, <2>1 DEF AppliedShape, r, len
<1>9. ASSUME NEW i \in 1..len PROVE r.cells[i] = p.cells[i]
  <2>1. CASE i > start /\ i <= start + n
    <3>1. i - start \in 1..n /\ start + (i - start) = i
      BY <1>1, <1>2, <1>3, <2>1
    <3>2. QED BY <1>6, <1>8, <2>1, <3>1
  <2>2. CASE ~(i > start /\ i <= start + n)
    BY <1>8, <2>2
  <2>3. QED BY <2>1, <2>2
<1>10. ASSUME NEW c \in Cells PROVE r.positions[c] = p.positions[c]
  BY <1>6, <1>8
<1>11. \A c \in UsedCells(m2) : m2[c].pos + 1 \in 1..len
  BY <1>5, ExactOwner DEF m2, len
<1>12. Exact(r, m2)
  <2>1. Exact(p, m2)
    BY DEF m2
  <2>2. \A i \in 1..len : m2[r.cells[i]].seqs = {s} /\ m2[r.cells[i]].pos = i - 1
    BY <1>9, <2>1 DEF Exact, len
  <2>3. \A c \in UsedCells(m2) : m2[c].pos < len /\ r.cells[m2[c].pos + 1] = c
    BY <1>9, <1>11, <2>1 DEF Exact, len
  <2>4. QED BY <1>8, <1>10, <2>1, <2>2, <2>3 DEF Exact
<1>13. QED BY <1>8, <1>12 DEF r, m2, len, start

(* What a cache a after a batch has of the cache q before it.                    *)
Follows(a, q, b, m2) ==
  /\ ~a.prefix.valid => a.ready = 0 \/ (~q.prefix.valid /\ a.ready = q.ready)
  /\ a.prefix.valid =>
       /\ IsRun(b) /\ a.prefix.sequence = b.seq[1] /\ a.ready = q.ready
       /\ q.prefix.valid => Appended(a.prefix, q.prefix, b, m2)
       /\ ~q.prefix.valid => Len(a.prefix.cells) = Len(Recovered(m2, b.seq[1]).cells)

(* qsa_apply() keeps the cache sound.                                            *)
LEMMA ApplySound ==
  ASSUME NEW m \in CellMaps, NEW q, Sound(q, m), NEW b, BatchTypes(b),
         NEW written \in BOOLEAN, NEW slots \in Placements(m, Len(b.tok))
  PROVE  LET m2 == Placed(m, b, slots, written)
             a == AfterApply(q, m2, b, slots)
         IN  Sound(a, m2) /\ Follows(a, q, b, m2)
<1> DEFINE m2 == Placed(m, b, slots, written)
           s == b.seq[1]
           p == Base(q, m2, s)
           a == AfterApply(q, m2, b, slots)
           r == Applied(p, s, b.pos[1], slots)
<1>1. q \in CacheRecords /\ q.prefix \in PrefixState /\ q.ready \in Nat
  BY DEF Sound, CacheRecords
<1>2. m2 \in CellMaps
  BY PlacedFacts
<1>3. Sound(Rejected, m2) /\ ~Rejected.prefix.valid /\ Rejected.ready = 0
  BY InvalidSound, InvalidType DEF Rejected, Invalidated
<1>4. CASE ~IsRun(b)
  BY <1>3, <1>4 DEF AfterApply, Follows
<1>5. CASE IsRun(b) /\ ~q.prefix.valid /\ (~q.pending \/ ~CanRecover(m2, s))
  <2>1. a = [q EXCEPT !.pending = FALSE]
    BY <1>5 DEF AfterApply
  <2>2. a.prefix = q.prefix /\ a.ready = q.ready
    <3> HIDE DEF a
    <3>1. QED BY <1>1, <2>1 DEF CacheRecords
  <2>3. Sound(a, m2)
    <3>1. Sound([q EXCEPT !.pending = FALSE], m2)
      BY <1>5, InvalidStaysSound
    <3> HIDE DEF a
    <3>2. QED BY <2>1, <3>1
  <2> HIDE DEF a
  <2>4. QED BY <1>5, <2>2, <2>3 DEF a, Follows
<1>6. CASE IsRun(b) /\ (q.prefix.valid \/ CanRecover(m2, s)) /\ ~CanApply(p, s, b.pos[1], slots)
  BY <1>3, <1>5, <1>6 DEF AfterApply, Follows
<1>7. CASE /\ IsRun(b) /\ (q.prefix.valid \/ (q.pending /\ CanRecover(m2, s)))
           /\ CanApply(p, s, b.pos[1], slots)
  <2>1. a = [prefix |-> r, pending |-> FALSE, ready |-> q.ready]
    BY <1>7 DEF AfterApply
  <2>2. s \in Seqs
    BY <1>7, RunFacts
  <2>3. /\ r \in PrefixState /\ r.valid /\ Exact(r, m2)
        /\ q.prefix.valid => Appended(r, q.prefix, b, m2)
        /\ ~q.prefix.valid => Len(r.cells) = Len(Recovered(m2, s).cells)
    <3>1. CASE q.prefix.valid
      <4>1. p = q.prefix /\ Exact(q.prefix, m)
        BY <3>1 DEF Base, Sound
      <4>2. /\ p \in PrefixState /\ IsRun(b) /\ Exact(p, m)
            /\ CanApply(p, b.seq[1], b.pos[1], slots)
            /\ r = Applied(p, b.seq[1], b.pos[1], slots)
        BY <1>1, <1>7, <4>1
      <4> HIDE DEF r, p
      <4>3. Appended(r, p, b, Placed(m, b, slots, written))
        BY <4>2, AppendExact
      <4>4. QED BY <3>1, <4>1, <4>3 DEF Appended
    <3>2. CASE ~q.prefix.valid
      <4>1. p = Recovered(m2, s) /\ CanRecover(m2, s)
        BY <1>7, <3>2 DEF Base
      <4>2. p \in PrefixState /\ p.sequence = s /\ Exact(p, m2)
        BY <1>2, <2>2, <4>1, RecoverExact
      <4>3. r = Applied(p, s, b.pos[1], slots) /\ CanApply(p, s, b.pos[1], slots)
        BY <1>7
      <4> HIDE DEF p, r
      <4> DEFINE x == Applied(p, b.seq[1], b.pos[1], slots)
      <4>4. /\ x \in PrefixState /\ x.valid /\ Exact(x, Placed(m, b, slots, written))
            /\ Len(x.cells) = Len(p.cells)
        BY <1>7, <4>2, <4>3, ReapplyExact
      <4>5. r = x
        BY <4>3
      <4> HIDE DEF x
      <4>6. QED BY <3>2, <4>1, <4>4, <4>5
    <3>3. QED BY <3>1, <3>2
  <2>4. r.sequence = s
    BY DEF Applied
  <2>5. a.prefix = r /\ a.ready = q.ready /\ ~a.pending /\ a \in CacheRecords
    <3> HIDE DEF r, a
    <3>1. QED BY <1>1, <2>1, <2>3 DEF CacheRecords
  <2>6. Sound(a, m2)
    <3> HIDE DEF r, a, m2
    <3>1. QED BY <2>3, <2>5 DEF Sound
  <2>7. Follows(a, q, b, m2)
    <3> HIDE DEF r, a, m2
    <3>1. QED BY <1>7, <2>3, <2>4, <2>5 DEF Follows
  <2>8. QED BY <2>6, <2>7
<1>8. QED BY <1>4, <1>5, <1>6, <1>7

-----------------------------------------------------------------------------
(* A batch that failed *)

LEMMA RunFirstPos ==
  ASSUME NEW b, BatchTypes(b), IsRun(b)
  PROVE  FirstPos(b, b.seq[1]) = b.pos[1]
<1> DEFINE S == {b.pos[i] : i \in {k \in DOMAIN b.seq : b.seq[k] = b.seq[1]}}
<1>1. \A x \in S : x \in Int /\ b.pos[1] <= x
  BY RunFacts DEF BatchTypes
<1>2. b.pos[1] \in S
  BY DEF BatchTypes
<1> HIDE DEF S
<1>3. \A x \in S : (\A y \in S : x <= y) => x = b.pos[1]
  BY <1>1, <1>2
<1>4. (CHOOSE x \in S : \A y \in S : x <= y) = b.pos[1]
  BY <1>1, <1>2, <1>3
<1>5. QED BY <1>4 DEF FirstPos, Min, S

(* Removed in one go or in two, the sequence is gone.                            *)
LEMMA ClearedCells ==
  ASSUME NEW m \in CellMaps, NEW s \in Seqs, NEW p0 \in Nat
  PROVE  /\ Removed(m, s, 0, -1) = RemovedAll(m, {s})
         /\ Removed(Removed(m, s, p0, -1), s, 0, -1) = RemovedAll(m, {s})
<1> DEFINE x == Removed(m, s, p0, -1)
<1>1. ASSUME NEW c \in Cells
      PROVE  IF s \in m[c].seqs THEN RemovedAll(m, {s})[c] = WithoutSeq(m[c], s)
             ELSE RemovedAll(m, {s})[c] = m[c]
  <2>1. m[c] \in Cell
    BY DEF CellMaps
  <2>2. CASE s \in m[c].seqs
    BY <2>2 DEF RemovedAll, WithoutSeq
  <2>3. CASE s \notin m[c].seqs
    <3>1. m[c].seqs \ {s} = m[c].seqs
      BY <2>3
    <3>2. [m[c] EXCEPT !.seqs = @ \ {s}] = m[c]
      BY <2>1, <3>1 DEF Cell
    <3>3. ~(m[c].seqs # {} /\ m[c].seqs \subseteq {s})
      BY <2>3
    <3>4. QED BY <2>3, <3>2, <3>3 DEF RemovedAll
  <2>4. QED BY <2>2, <2>3
<1>2. \A c \in Cells : m[c].pos \in Nat /\ x[c].pos \in Nat /\ x[c] \in Cell
  BY RemovalTypes DEF CellMaps, Cell
<1>3. \A c \in Cells : InRange(m[c].pos, 0, -1) /\ InRange(x[c].pos, 0, -1)
  BY <1>2 DEF InRange
<1>4. ASSUME NEW c \in Cells
      PROVE  x[c] = IF s \in m[c].seqs /\ p0 <= m[c].pos THEN WithoutSeq(m[c], s) ELSE m[c]
  BY DEF Removed, InRange
<1>5. ASSUME NEW c \in Cells PROVE s \notin WithoutSeq(m[c], s).seqs
  <2>1. m[c] \in Cell
    BY DEF CellMaps
  <2>2. QED BY <2>1 DEF WithoutSeq, EmptyCell, Cell
<1> HIDE DEF x
<1>6. Removed(m, s, 0, -1) = RemovedAll(m, {s})
  BY <1>1, <1>3 DEF Removed, RemovedAll
<1>7. ASSUME NEW c \in Cells PROVE Removed(x, s, 0, -1)[c] = RemovedAll(m, {s})[c]
  BY <1>1, <1>3, <1>4, <1>5 DEF Removed
<1>8. Removed(x, s, 0, -1) = RemovedAll(m, {s})
  BY <1>7 DEF Removed, RemovedAll
<1>9. QED BY <1>6, <1>8 DEF x

LEMMA RolledBackRun ==
  ASSUME NEW m \in CellMaps, NEW b, NEW s \in Seqs, SeqsOf(b) = {s}
  PROVE  /\ RolledBack(m, b, {}) = Removed(m, s, FirstPos(b, s), -1)
         /\ RolledBack(m, b, {s}) = m
<1> DEFINE F == FirstPos(b, s)
           Gone(c) == {t \in m[c].seqs \cap (SeqsOf(b) \ {}) : m[c].pos >= FirstPos(b, t)}
           None(c) == {t \in m[c].seqs \cap (SeqsOf(b) \ {s}) : m[c].pos >= FirstPos(b, t)}
<1>1. ASSUME NEW c \in Cells
      PROVE  Gone(c) = IF s \in m[c].seqs /\ m[c].pos >= F THEN {s} ELSE {}
  OBVIOUS
<1>2. \A c \in Cells : None(c) = {}
  OBVIOUS
<1>3. RolledBack(m, b, {}) =
        [c \in Cells |-> IF Gone(c) = {} THEN m[c] ELSE IF m[c].seqs = Gone(c) THEN EmptyCell
                         ELSE [m[c] EXCEPT !.seqs = @ \ Gone(c)]]
  BY DEF RolledBack
<1>4. RolledBack(m, b, {s}) =
        [c \in Cells |-> IF None(c) = {} THEN m[c] ELSE IF m[c].seqs = None(c) THEN EmptyCell
                         ELSE [m[c] EXCEPT !.seqs = @ \ None(c)]]
  BY DEF RolledBack
<1> HIDE DEF F, Gone, None
<1>5. RolledBack(m, b, {s}) = m
  BY <1>2, <1>4 DEF CellMaps
<1>6. ASSUME NEW c \in Cells
      PROVE  RolledBack(m, b, {})[c] = Removed(m, s, F, -1)[c]
  <2>1. InRange(m[c].pos, F, -1) <=> m[c].pos >= F
    BY DEF InRange
  <2>2. CASE s \in m[c].seqs /\ m[c].pos >= F
    <3>1. Gone(c) = {s}
      BY <1>1, <2>2
    <3>2. m[c].seqs = {s} <=> m[c].seqs \subseteq {s}
      BY <2>2
    <3>3. RolledBack(m, b, {})[c] = WithoutSeq(m[c], s)
      BY <1>3, <3>1, <3>2 DEF WithoutSeq
    <3>4. QED BY <2>1, <2>2, <3>3 DEF Removed
  <2>3. CASE ~(s \in m[c].seqs /\ m[c].pos >= F)
    BY <1>1, <1>3, <2>1, <2>3 DEF Removed
  <2>4. QED BY <2>2, <2>3
<1>7. RolledBack(m, b, {}) = Removed(m, s, F, -1)
  BY <1>3, <1>6 DEF Removed
<1>8. QED BY <1>5, <1>7 DEF F

(* An invalid mirror stays invalid and vouches for no more keys than before.     *)
LEMMA FailInvalid ==
  ASSUME NEW q, NEW n, Sound(q, n), ~q.prefix.valid, NEW m, NEW b, NEW refused
  PROVE  /\ Sound(Failed(q, b, refused), m)
         /\ ~Failed(q, b, refused).prefix.valid
         /\ Failed(q, b, refused).ready = q.ready
<1> DEFINE Gone(x) == Sound(x, m) /\ ~x.prefix.valid /\ x.ready = q.ready
<1>1. ASSUME NEW x, Sound(x, m), ~x.prefix.valid, x.ready = q.ready
      PROVE  Gone([x EXCEPT !.pending = TRUE])
  <2>1. x \in CacheRecords
    BY <1>1 DEF Sound
  <2>2. [x EXCEPT !.pending = TRUE].prefix = x.prefix /\ [x EXCEPT !.pending = TRUE].ready = x.ready
    BY <2>1 DEF CacheRecords
  <2>3. Sound([x EXCEPT !.pending = TRUE], m)
    BY <1>1, InvalidStaysSound
  <2>4. QED BY <1>1, <2>2, <2>3
<1>2. Gone(q)
  BY DEF Sound
<1>3. ASSUME NEW x, Gone(x), NEW s, NEW p0, NEW p1 PROVE Gone(AfterRemoval(x, s, p0, p1))
  BY <1>1, <1>3 DEF AfterRemoval
<1> HIDE DEF Gone
<1>4. ASSUME NEW x, Gone(x), NEW s PROVE Gone(AfterFailure(x, b, s, refused))
  <2> DEFINE r == IF s \in refused THEN x ELSE AfterRemoval(x, s, FirstPos(b, s), -1)
  <2>1. Gone(r)
    BY <1>3, <1>4
  <2>2. Gone(AfterRemoval(r, s, 0, -1))
    BY <1>3, <2>1
  <2>3. AfterFailure(x, b, s, refused) = IF ClearsAfterError THEN AfterRemoval(r, s, 0, -1) ELSE r
    BY DEF AfterFailure
  <2> HIDE DEF r
  <2>4. QED BY <2>1, <2>2, <2>3
<1>5. Gone(Failed(q, b, refused))
  BY <1>2, <1>4 DEF Failed
<1>6. QED BY <1>5 DEF Gone

(* The removal of a failed run from its sequence keeps the cache sound.          *)
LEMMA FailRun ==
  ASSUME NEW m \in CellMaps, NEW b, BatchTypes(b), IsRun(b), NEW q, Sound(q, m),
         NEW refused, refused \subseteq SeqsOf(b)
  PROVE  Sound(Failed(q, b, refused), AfterError(m, b, refused))
<1> DEFINE s == b.seq[1]
           F == FirstPos(b, s)
           r == IF s \in refused THEN q ELSE AfterRemoval(q, s, F, -1)
           x == RolledBack(m, b, refused)
<1>1. s \in Seqs /\ SeqsOf(b) = {s} /\ b.seq[Len(b.tok)] = s /\ F \in Nat
  BY RunFacts, RunFirstPos DEF BatchTypes
<1>2. refused = {} \/ refused = {s}
  BY <1>1
<1>3. Failed(q, b, refused) = IF ClearsAfterError THEN AfterRemoval(r, s, 0, -1) ELSE r
  BY <1>1 DEF Failed, AfterFailure
<1>4. /\ refused = {} => x = Removed(m, s, F, -1)
      /\ refused = {s} => x = m
  <2> HIDE DEF s
  <2>1. RolledBack(m, b, {}) = Removed(m, s, F, -1) /\ RolledBack(m, b, {s}) = m
    BY <1>1, RolledBackRun
  <2>2. QED BY <2>1
<1> HIDE DEF F, x
<1>5. Sound(r, x)
  BY <1>1, <1>2, <1>4, RemovalSound
<1>6. CASE ~ClearsAfterError
  BY <1>3, <1>5, <1>6 DEF AfterError, x
<1>7. CASE ClearsAfterError
  <2>1. x \in CellMaps
    BY RemovalTypes DEF x
  <2>2. Sound(AfterRemoval(r, s, 0, -1), Removed(x, s, 0, -1))
    <3> HIDE DEF r
    <3>1. QED BY <1>1, <1>5, <2>1, RemovalSound
  <2>3. Removed(x, s, 0, -1) = RemovedAll(m, {s})
    BY <1>1, <1>2, <1>4, ClearedCells
  <2>4. QED BY <1>1, <1>3, <1>7, <2>2, <2>3 DEF AfterError
<1>8. QED BY <1>6, <1>7

(* A failed batch leaves a sound cache, whether the cache was committed or not.  *)
LEMMA FailSound ==
  ASSUME NEW m \in CellMaps, NEW b, BatchTypes(b), NEW q, Sound(q, m),
         q.prefix.valid => IsRun(b), NEW refused, refused \subseteq SeqsOf(b)
  PROVE  Sound(Failed(q, b, refused), AfterError(m, b, refused))
BY FailRun, FailInvalid

(* The keys of complete blocks are those of cells.                               *)
LEMMA CommitSound ==
  ASSUME NEW m, NEW q, Sound(q, m)
  PROVE  /\ Sound(Committed(q), m)
         /\ Committed(q).prefix = q.prefix
         /\ Committed(q).ready = Complete(q.prefix)
         /\ Complete(q.prefix) \in Nat
<1>1. q \in CacheRecords /\ q.prefix \in PrefixState
  BY DEF Sound, CacheRecords
<1>2. Complete(q.prefix) \in Nat
  BY <1>1, PrefixType, DivFacts, SizesAssumption DEF Complete
<1> DEFINE n == Complete(q.prefix)
           c == [q EXCEPT !.ready = n]
<1> HIDE DEF n
<1>3. c \in CacheRecords /\ c.prefix = q.prefix /\ c.ready = n /\ c.pending = q.pending
  BY <1>1, <1>2 DEF CacheRecords, n
<1>4. c = Committed(q)
  BY DEF Committed, n
<1> HIDE DEF c
<1>5. QED BY <1>2, <1>3, <1>4 DEF Sound, n

-----------------------------------------------------------------------------
(* Keys *)

(* The cells of a complete block are cells of the mirror.                        *)
LEMMA BlockCells ==
  ASSUME NEW p \in PrefixState, NEW k \in 0..(Complete(p) - 1), NEW i \in 0..(Block - 1)
  PROVE  k * Block + i + 1 \in 1..Len(p.cells)
<1> USE SizesAssumption
<1> DEFINE n == Complete(p)
<1>1. n \in Nat /\ n * Block <= Len(p.cells) /\ Len(p.cells) \in Nat
  BY PrefixType, DivFacts DEF Complete
<1> HIDE DEF n
<1>2. k \in Nat /\ k + 1 <= n
  BY <1>1 DEF n
<1>3. (k + 1) * Block <= n * Block
  BY <1>1, <1>2
<1>4. (k + 1) * Block = k * Block + Block /\ k * Block \in Nat
  BY <1>2
<1>5. QED BY <1>1, <1>3, <1>4

(* The rows of a fast batch are complete blocks.                                 *)
LEMMA UpdatedRows ==
  ASSUME NEW p \in PrefixState, NEW begin \in Nat, NEW n \in Nat
  PROVE  Updated(p, begin, n) \subseteq 0..(Complete(p) - 1)
<1> USE SizesAssumption
<1> DEFINE first == begin \div Block
           x == (begin + n + Block - 1) \div Block
           last == Min({Complete(p), x})
           others == {k \in 0..(Complete(p) - 1) : k < first \/ k >= last}
           missing == FastRows(n) - (last - first)
<1>1. Complete(p) \in Nat /\ x \in Nat /\ first \in Nat
  <2>1. Complete(p) \in Nat
    BY PrefixType, DivFacts DEF Complete
  <2>2. begin + n + Block - 1 \in Nat
    OBVIOUS
  <2>3. QED BY <2>1, <2>2, DivFacts
<1> HIDE DEF first, x
<1>2. last \in Nat /\ last <= Complete(p)
  <2>1. \E y \in {Complete(p), x} : \A z \in {Complete(p), x} : y <= z
    BY <1>1
  <2>2. QED BY <1>1, <2>1 DEF Min
<1> HIDE DEF last
<1>3. Updated(p, begin, n) = (first..(last - 1)) \cup {k \in others : Cardinality({a \in others : a < k}) < missing}
  BY DEF Updated, first, x, last
<1>4. first..(last - 1) \subseteq 0..(Complete(p) - 1)
  BY <1>1, <1>2
<1>5. others \subseteq 0..(Complete(p) - 1)
  OBVIOUS
<1> HIDE DEF others, missing
<1>6. QED BY <1>3, <1>4, <1>5

LEMMA PooledType ==
  ASSUME NEW p \in PrefixState, NEW m \in CellMaps, NEW k \in 0..(Complete(p) - 1)
  PROVE  PooledFrom(p, m, k) \in PooledKey
<1>1. ASSUME NEW i \in 0..(Block - 1) PROVE m[p.cells[k * Block + i + 1]].tok \in Tokens \cup {Unset}
  <2>1. p.cells[k * Block + i + 1] \in Cells
    BY BlockCells, PrefixType
  <2>2. QED BY <2>1 DEF CellMaps, Cell
<1>2. QED BY <1>1 DEF PooledFrom, PooledKey

(* Once a batch is computed, rows of the cache are pooled and the others kept.   *)
LEMMA KeysAfterType ==
  ASSUME key \in [KeyBlocks -> PooledKey], NEW q, q.prefix \in PrefixState,
         NEW m \in CellMaps, NEW b, BatchTypes(b)
  PROVE  KeysAfter(q, m, b) \in [KeyBlocks -> PooledKey]
<1> DEFINE n == Len(b.tok)
           previous == Len(Base(Cache, m, b.seq[1]).cells)
           rows == IF Fast(q, previous, n) THEN Updated(q.prefix, b.pos[1], n)
                   ELSE 0..(Complete(q.prefix) - 1)
<1>1. b.pos[1] \in Nat /\ n \in Nat
  BY DEF BatchTypes
<1>2. rows \subseteq 0..(Complete(q.prefix) - 1)
  BY <1>1, UpdatedRows
<1>3. KeysAfter(q, m, b) = [k \in KeyBlocks |-> IF k \in rows THEN PooledFrom(q.prefix, m, k) ELSE key[k]]
  BY DEF KeysAfter
<1> HIDE DEF rows
<1>4. QED BY <1>2, <1>3, PooledType

-----------------------------------------------------------------------------
(* The mirror: the inductive invariant says that the cache is sound for the      *)
(* cells.  It does not depend on what the caller does after an error.            *)

CacheInv ==
  /\ raw \in CellMaps
  /\ key \in [KeyBlocks -> PooledKey]
  /\ Sound(Cache, raw)

LEMMA CacheSet ==
  ASSUME NEW q, SetCache(q), q \in CacheRecords
  PROVE  Cache' = q
BY DEF SetCache, Cache, CacheRecords

LEMMA NoKeys == [k \in KeyBlocks |-> NoKey] \in [KeyBlocks -> PooledKey]
BY DEF NoKey, PooledKey

LEMMA FreshSound ==
  LET q == [prefix |-> Fresh, pending |-> FALSE, ready |-> 0]
  IN  Sound(q, Empty) /\ q \in CacheRecords
<1>1. UsedCells(Empty) = {}
  BY DEF Empty, EmptyCell, UsedCells, FreeCells
<1>2. Exact(Fresh, Empty)
  BY <1>1 DEF Exact, Fresh, NoPos
<1>3. QED BY <1>2, InvalidType DEF Sound, CacheRecords

LEMMA CacheInvInit == Init => CacheInv
<1> SUFFICES ASSUME Init PROVE CacheInv
  OBVIOUS
<1>1. raw = Empty /\ Empty \in CellMaps
  BY EmptyCellType DEF Init, PlainInit, CellMaps, Empty
<1>2. Cache = [prefix |-> Fresh, pending |-> FALSE, ready |-> 0]
  BY DEF Init, Cache
<1>3. key \in [KeyBlocks -> PooledKey]
  BY NoKeys DEF Init
<1>4. QED BY <1>1, <1>2, <1>3, FreshSound DEF CacheInv

(* A mirror of the sequence that is kept stays as it is.                         *)
LEMMA KeptSound ==
  ASSUME NEW m \in CellMaps, NEW q, Sound(q, m), NEW s \in Seqs,
         q.prefix.valid, q.prefix.sequence \in {NoSeq, s}
  PROVE  Sound(q, Kept(m, s))
<1>1. Exact(q.prefix, m) /\ q.prefix \in PrefixState
  BY DEF Sound, CacheRecords
<1>2. \A c \in UsedCells(m) : m[c].seqs = {s}
  <2>1. CASE q.prefix.sequence = s
    BY <1>1, <2>1, ExactOwner
  <2>2. CASE q.prefix.sequence = NoSeq
    <3>1. Len(q.prefix.cells) = 0 /\ \A c \in UsedCells(m) : m[c].pos + 1 \in 1..0
      BY <1>1, <2>2, ExactOwner
    <3>2. QED BY <3>1
  <2>3. QED BY <2>1, <2>2
<1>3. ASSUME NEW c \in Cells PROVE /\ c \in UsedCells(Kept(m, s)) <=> c \in UsedCells(m)
                                   /\ c \in UsedCells(m) => Kept(m, s)[c] = m[c]
  <2>1. CASE c \in UsedCells(m)
    <3>1. m[c].seqs = {s} /\ m[c] \in Cell
      BY <1>2, <2>1 DEF CellMaps
    <3>2. [m[c] EXCEPT !.seqs = {s}] = m[c]
      BY <3>1 DEF Cell
    <3>3. Kept(m, s)[c] = m[c]
      BY <3>1, <3>2 DEF Kept
    <3>4. QED BY <2>1, <3>1, <3>3 DEF UsedCells, FreeCells
  <2>2. CASE c \notin UsedCells(m)
    BY <2>2 DEF Kept, UsedCells, FreeCells, EmptyCell
  <2>3. QED BY <2>1, <2>2
<1> DEFINE m2 == Kept(m, s)
<1> HIDE DEF m2
<1>4. UsedCells(m2) = UsedCells(m) /\ \A c \in UsedCells(m) : m2[c] = m[c]
  BY <1>3 DEF m2, UsedCells
<1>5. \A i \in 1..Len(q.prefix.cells) : q.prefix.cells[i] \in UsedCells(m)
  BY <1>1, ExactOwner
<1>6. Exact(q.prefix, m2)
  BY <1>1, <1>4, <1>5 DEF Exact
<1>7. QED BY <1>6 DEF Sound, m2

(* Cells that are set, and a cache that is sound for them.                       *)
LEMMA CacheStep ==
  ASSUME raw' \in CellMaps, NEW q, SetCache(q), Sound(q, raw'),
         key' \in [KeyBlocks -> PooledKey]
  PROVE  CacheInv'
<1>1. Cache' = q
  BY CacheSet DEF Sound
<1>2. Sound(Cache', raw')
  BY <1>1
<1>3. QED BY <1>2 DEF CacheInv

LEMMA ClearStep ==
  ASSUME CacheInv, Clear
  PROVE  CacheInv'
<1> DEFINE q == [prefix |-> Fresh, pending |-> FALSE, ready |-> 0]
<1>1. SetCache(q)
  BY DEF Clear, SetCache
<1>2. Sound(q, Empty)
  BY FreshSound
<1>3. raw' = Empty /\ Empty \in CellMaps
  BY EmptyCellType DEF Clear, CellMaps, Empty
<1>4. key' \in [KeyBlocks -> PooledKey]
  BY NoKeys DEF Clear, CacheInv
<1> HIDE DEF q
<1>5. QED BY <1>1, <1>2, <1>3, <1>4, CacheStep

LEMMA SeqRmStep ==
  ASSUME CacheInv, NEW s \in Seqs, NEW r \in Ranges, SeqRm(s, r[1], r[2])
  PROVE  CacheInv'
<1>1. r[1] \in Nat /\ r[2] \in Int
  BY InputsAssumption
<1>2. Sound(AfterRemoval(Cache, s, r[1], r[2]), raw')
  BY <1>1, RemovalSound DEF CacheInv, SeqRm
<1>3. raw' \in CellMaps
  BY RemovalTypes DEF CacheInv, SeqRm
<1>4. QED BY <1>2, <1>3, CacheStep DEF SeqRm, CacheInv

LEMMA SeqCpStep ==
  ASSUME CacheInv, NEW src \in Seqs, NEW dst \in Seqs, SeqCp(src, dst)
  PROVE  CacheInv'
<1>1. raw' \in CellMaps
  BY RemovalTypes DEF CacheInv, SeqCp
<1>2. QED BY <1>1, InvalidSound, CacheStep DEF SeqCp, CacheInv

LEMMA SeqKeepStep ==
  ASSUME CacheInv, NEW s \in Seqs, SeqKeep(s)
  PROVE  CacheInv'
<1>1. raw' \in CellMaps /\ raw' = Kept(raw, s) /\ key' = key
  BY RemovalTypes DEF CacheInv, SeqKeep
<1>2. Cache.prefix = prefix
  BY DEF Cache
<1>3. CASE ~prefix.valid \/ prefix.sequence \notin {NoSeq, s}
  <2>1. SetCache(Invalidated)
    BY <1>3 DEF SeqKeep
  <2>2. QED BY <1>1, <2>1, InvalidSound, CacheStep DEF CacheInv
<1>4. CASE prefix.valid /\ prefix.sequence \in {NoSeq, s}
  <2>1. SetCache(Cache)
    BY <1>4 DEF SeqKeep
  <2>2. Sound(Cache, raw')
    BY <1>1, <1>2, <1>4, KeptSound DEF CacheInv
  <2>3. QED BY <1>1, <2>1, <2>2, CacheStep DEF CacheInv
<1>5. QED BY <1>3, <1>4

LEMMA StateReadStep ==
  ASSUME CacheInv, NEW s \in Seqs, StateRead(s)
  PROVE  CacheInv'
<1> DEFINE cleared == RemovedAll(raw, {s})
<1>1. cleared \in CellMaps
  BY RemovalTypes DEF CacheInv
<1> HIDE DEF cleared
<1>2. ASSUME NEW b \in Batches(cleared), NEW slots \in Placements(cleared, Len(b.tok))
      PROVE  Placed(cleared, b, slots, TRUE) \in CellMaps
  BY <1>1, BatchesTyped, PlacedFacts
<1>3. raw' = cleared \/ \E b \in Batches(cleared) : \E slots \in Placements(cleared, Len(b.tok)) :
                            raw' = Placed(cleared, b, slots, TRUE)
  BY DEF StateRead, Restored, cleared
<1>4. raw' \in CellMaps
  BY <1>1, <1>2, <1>3
<1>5. QED BY <1>4, InvalidSound, CacheStep DEF StateRead, CacheInv

(* What a decode of b in these cells does to the cells and the cache.            *)
DecodesIn(b, slots) ==
  LET m == Placed(raw, b, slots, TRUE)
      q == AfterApply(Cache, m, b, slots)
  IN  /\ raw' = m
      /\ \/ SetCache(q) /\ key' = key
         \/ q.prefix.valid /\ key' = KeysAfter(q, m, b) /\ SetCache(Committed(q))

LEMMA DecodeForm ==
  Decode => \E b \in Batches(raw) : \E slots \in Placements(raw, Len(b.tok)) : DecodesIn(b, slots)
BY Zenon DEF Decode, DecodesIn

LEMMA DecodeStep ==
  ASSUME CacheInv, NEW b \in Batches(raw), NEW slots \in Placements(raw, Len(b.tok)),
         DecodesIn(b, slots)
  PROVE  CacheInv'
<1> DEFINE m == Placed(raw, b, slots, TRUE)
           q == AfterApply(Cache, m, b, slots)
<1>1. m \in CellMaps /\ BatchTypes(b)
  BY BatchesTyped, PlacedFacts DEF CacheInv
<1>2. Sound(q, m)
  BY <1>1, ApplySound DEF CacheInv
<1>3. Sound(Committed(q), m)
  BY <1>2, CommitSound
<1>4. KeysAfter(q, m, b) \in [KeyBlocks -> PooledKey]
  <2>1. q.prefix \in PrefixState
    BY <1>2 DEF Sound, CacheRecords
  <2> HIDE DEF q, m
  <2>2. QED BY <1>1, <2>1, KeysAfterType DEF CacheInv
<1>5. /\ raw' = m
      /\ \/ SetCache(q) /\ key' = key
         \/ SetCache(Committed(q)) /\ key' = KeysAfter(q, m, b)
  BY DEF DecodesIn
<1> HIDE DEF q, m
<1>6. QED BY <1>1, <1>2, <1>3, <1>4, <1>5, CacheStep DEF CacheInv

LEMMA DecodeFailsStep ==
  ASSUME CacheInv, NEW b \in Batches(raw), NEW slots \in Placements(raw, Len(b.tok)),
         NEW refused \in Refusals(b), NEW written \in BOOLEAN, NEW sparse \in BOOLEAN,
         FailedDecode(b, slots, refused, written, sparse)
  PROVE  CacheInv'
<1> DEFINE m == Placed(raw, b, slots, written)
           q == AfterApply(Cache, m, b, slots)
           c == IF sparse /\ q.prefix.valid THEN Committed(q) ELSE q
<1>1. m \in CellMaps /\ BatchTypes(b)
  BY BatchesTyped, PlacedFacts DEF CacheInv
<1>2. Sound(q, m) /\ (q.prefix.valid => IsRun(b))
  BY <1>1, ApplySound DEF CacheInv, Follows
<1>3. Sound(c, m) /\ c.prefix = q.prefix
  <2> HIDE DEF q, m
  <2>1. QED BY <1>2, CommitSound
<1>4. KeysAfter(q, m, b) \in [KeyBlocks -> PooledKey]
  <2>1. q.prefix \in PrefixState
    BY <1>2 DEF Sound, CacheRecords
  <2> HIDE DEF q, m
  <2>2. QED BY <1>1, <2>1, KeysAfterType DEF CacheInv
<1>5. refused \subseteq SeqsOf(b)
  BY DEF Refusals
<1>6. /\ raw' = AfterError(m, b, refused)
      /\ key' = KeysAfter(q, m, b) \/ key' = key
      /\ SetCache(Failed(c, b, refused))
  BY DEF FailedDecode
<1> HIDE DEF q, m, c
<1>7. Sound(Failed(c, b, refused), raw')
  BY <1>1, <1>2, <1>3, <1>5, <1>6, FailSound
<1>8. raw' \in CellMaps
  BY <1>1, <1>6, RemovalTypes DEF AfterError
<1>9. QED BY <1>4, <1>6, <1>7, <1>8, CacheStep DEF CacheInv

LEMMA CacheInvNext == CacheInv /\ [Next]_vars => CacheInv'
<1> SUFFICES ASSUME CacheInv, [Next]_vars PROVE CacheInv'
  OBVIOUS
<1>1. CASE Clear
  BY <1>1, ClearStep
<1>2. ASSUME NEW s \in Seqs, NEW r \in Ranges, SeqRm(s, r[1], r[2]) PROVE CacheInv'
  BY <1>2, SeqRmStep
<1>3. ASSUME NEW src \in Seqs, NEW dst \in Seqs, SeqCp(src, dst) PROVE CacheInv'
  BY <1>3, SeqCpStep
<1>4. ASSUME NEW s \in Seqs, SeqKeep(s) PROVE CacheInv'
  BY <1>4, SeqKeepStep
<1>5. ASSUME NEW s \in Seqs, StateRead(s) PROVE CacheInv'
  BY <1>5, StateReadStep
<1>6. CASE Decode
  BY <1>6, DecodeForm, DecodeStep
<1>7. CASE DecodeFails
  BY <1>7, DecodeFailsStep DEF DecodeFails
<1>8. CASE UNCHANGED vars
  BY <1>8 DEF vars, memory, qsa, CacheInv, Cache
<1>9. QED BY <1>1, <1>2, <1>3, <1>4, <1>5, <1>6, <1>7, <1>8 DEF Next

LEMMA CacheInvImplies == CacheInv => TypeOK /\ Mirror
<1> SUFFICES ASSUME CacheInv PROVE TypeOK /\ Mirror
  OBVIOUS
<1>1. /\ prefix \in PrefixState /\ recover_pending \in BOOLEAN /\ ready \in Nat
      /\ prefix.valid => Exact(prefix, raw) /\ ~recover_pending
  BY DEF CacheInv, Sound, Cache, CacheRecords
<1>2. Mirror
  BY <1>1, MirrorIsExact DEF CacheInv, Mirror
<1>3. QED BY <1>1, <1>2 DEF CacheInv, CellMaps, TypeOK

(* The variables have their types, and no recovery is asked for while the        *)
(* mirror is valid, whatever the memory calls and however decodes fail.          *)
THEOREM TypeCorrect == Spec => []TypeOK
<1>1. Spec => []CacheInv
  BY CacheInvInit, CacheInvNext, PTL DEF Spec
<1>2. QED BY <1>1, CacheInvImplies, PTL

(* A valid mirror (qsa_prefix_state) lists exactly the used cells, with their    *)
(* positions, also after removals, failed decodes and recoveries.                *)
THEOREM MirrorCorrect == Spec => []Mirror
<1>1. Spec => []CacheInv
  BY CacheInvInit, CacheInvNext, PTL DEF Spec
<1>2. QED BY <1>1, CacheInvImplies, PTL

-----------------------------------------------------------------------------
(* The keys that count as cached, for a caller that clears after an error        *)

Vouched(q, m, k) ==
  IF q.prefix.valid THEN FreshKeys(q.prefix, m, q.ready, k) ELSE q.ready = 0

LEMMA NothingVouched ==
  ASSUME NEW q \in CacheRecords, q.ready = 0, NEW m, NEW k
  PROVE  Vouched(q, m, k)
<1>1. q.prefix \in PrefixState
  BY DEF CacheRecords
<1>2. 0 * Block <= Len(q.prefix.cells)
  BY <1>1, PrefixType, SizesAssumption
<1>3. QED BY <1>2 DEF Vouched, FreshKeys

(* Positions of the first n blocks.                                              *)
LEMMA BlockPositions ==
  ASSUME NEW n \in Nat, NEW k \in 0..(n - 1), NEW i \in 0..(Block - 1)
  PROVE  k * Block + i + 1 \in 1..(n * Block)
<1> USE SizesAssumption
<1>1. k \in Nat /\ k + 1 <= n
  OBVIOUS
<1>2. (k + 1) * Block <= n * Block
  BY <1>1
<1>3. (k + 1) * Block = k * Block + Block /\ k * Block \in Nat
  BY <1>1
<1>4. QED BY <1>2, <1>3

(* Keys stay fresh in a mirror and in cells that agree with the former ones.     *)
LEMMA StillFresh ==
  ASSUME NEW p, NEW p2, NEW m, NEW m2, NEW n \in Nat, NEW n2 \in Nat, NEW k,
         FreshKeys(p, m, n, k), n2 <= n, n2 * Block <= Len(p2.cells),
         \A j \in 1..(n2 * Block) : /\ p2.cells[j] = p.cells[j]
                                    /\ m2[p.cells[j]].tok = m[p.cells[j]].tok
  PROVE  FreshKeys(p2, m2, n2, k)
<1>1. ASSUME NEW x \in 0..(n2 - 1) PROVE k[x] = PooledFrom(p2, m2, x)
  <2>1. x \in 0..(n - 1)
    OBVIOUS
  <2>2. k[x] = PooledFrom(p, m, x)
    BY <2>1 DEF FreshKeys
  <2>3. \A i \in 0..(Block - 1) : m2[p2.cells[x * Block + i + 1]].tok = m[p.cells[x * Block + i + 1]].tok
    BY BlockPositions
  <2>4. QED BY <2>2, <2>3 DEF PooledFrom
<1>2. QED BY <1>1 DEF FreshKeys

LEMMA ReadyPositions ==
  ASSUME NEW p \in PrefixState, NEW m, NEW k, NEW n \in Nat, FreshKeys(p, m, n, k)
  PROVE  \A j \in 1..(n * Block) : j \in 1..Len(p.cells)
<1>1. Len(p.cells) \in Nat /\ n * Block \in Nat /\ n * Block <= Len(p.cells)
  BY PrefixType, SizesAssumption DEF FreshKeys
<1>2. QED BY <1>1

(* What a cut leaves of a mirror.                                                *)
LEMMA CutCells ==
  ASSUME NEW p \in PrefixState, NEW size \in Nat
  PROVE  /\ Len(Truncated(p, size).cells) = IF size < Len(p.cells) THEN size ELSE Len(p.cells)
         /\ \A j \in 1..Len(Truncated(p, size).cells) :
              Truncated(p, size).cells[j] = p.cells[j] /\ (size < Len(p.cells) => j <= size)
         /\ Truncated(p, size).valid = p.valid
         /\ Truncated(p, size).sequence = p.sequence
            \/ (size = 0 /\ Truncated(p, size).sequence = NoSeq /\ Len(Truncated(p, size).cells) = 0)
<1>1. Len(p.cells) \in Nat /\ p.cells \in Seq(Cells)
  BY PrefixType
<1>2. CASE size >= Len(p.cells)
  BY <1>1, <1>2 DEF Truncated
<1>3. CASE size < Len(p.cells)
  <2> DEFINE cells == SubSeq(p.cells, 1, size)
             positions == [c \in Cells |-> IF p.positions[c] >= size THEN NoPos
                                           ELSE p.positions[c]]
             sequence == IF size = 0 THEN NoSeq ELSE p.sequence
             t == Truncated(p, size)
  <2>1. Len(cells) = size /\ \A i \in 1..size : cells[i] = p.cells[i]
    BY <1>1, <1>3, SubSeqProperties
  <2>2. t = [p EXCEPT !.cells = cells, !.positions = positions, !.sequence = sequence]
    BY <1>3, PrefixType DEF Truncated
  <2>3. t.cells = cells /\ t.sequence = sequence /\ t.valid = p.valid
    <3> HIDE DEF cells, positions, sequence, t
    <3>1. QED BY <2>2 DEF PrefixState
  <2> HIDE DEF cells, positions, t
  <2>4. QED BY <1>1, <1>3, <2>1, <2>3 DEF t
<1>4. QED BY <1>1, <1>2, <1>3

LEMMA RemovalVouched ==
  ASSUME NEW m \in CellMaps, NEW q, Sound(q, m), NEW k, Vouched(q, m, k),
         NEW s \in Seqs, NEW p0 \in Nat, NEW p1 \in Int
  PROVE  Vouched(AfterRemoval(q, s, p0, p1), Removed(m, s, p0, p1), k)
<1> DEFINE m2 == Removed(m, s, p0, p1)
           a == AfterRemoval(q, s, p0, p1)
<1>1. q.prefix \in PrefixState /\ q.pending \in BOOLEAN /\ q.ready \in Nat /\ q \in CacheRecords
  BY DEF Sound, CacheRecords
<1>2. a \in CacheRecords
  BY RemovalSound DEF Sound
<1>3. CASE ~q.prefix.valid
  <2>1. a = [q EXCEPT !.pending = TRUE]
    BY <1>3 DEF AfterRemoval
  <2>2. a.ready = q.ready
    <3> HIDE DEF a
    <3>1. QED BY <1>1, <2>1 DEF CacheRecords
  <2>3. a.ready = 0
    BY <1>3, <2>2 DEF Vouched
  <2> HIDE DEF a
  <2>4. QED BY <1>2, <2>3, NothingVouched DEF a
<1>4. CASE q.prefix.valid /\ s # q.prefix.sequence
  <2>1. Exact(q.prefix, m)
    BY <1>4 DEF Sound
  <2>2. \A c \in Cells : s \notin m[c].seqs
    BY <1>1, <1>4, <2>1, ExactOwner DEF UsedCells, FreeCells
  <2>3. \A c \in Cells : m2[c] = m[c]
    BY <2>2 DEF Removed
  <2>4. m2 = m
    BY <2>3, RemovalTypes DEF CellMaps
  <2>5. QED BY <1>4, <2>4 DEF AfterRemoval
<1>5. CASE q.prefix.valid /\ s = q.prefix.sequence /\ p1 >= 0 /\ p1 < Len(q.prefix.cells)
  <2>1. a.ready = 0
    BY <1>5 DEF AfterRemoval, Invalidated
  <2> HIDE DEF a
  <2>2. QED BY <1>2, <2>1, NothingVouched DEF a
<1>6. CASE q.prefix.valid /\ s = q.prefix.sequence /\ ~(p1 >= 0 /\ p1 < Len(q.prefix.cells))
  <2> DEFINE t == Truncated(q.prefix, p0)
             complete == Len(t.cells) \div Block
             r == IF complete < q.ready THEN complete ELSE q.ready
  <2>1. /\ Exact(q.prefix, m) /\ FreshKeys(q.prefix, m, q.ready, k)
        /\ q.ready * Block <= Len(q.prefix.cells)
    BY <1>6 DEF Sound, Vouched, FreshKeys
  <2>2. a = [prefix |-> t, pending |-> q.pending, ready |-> r]
    BY <1>6 DEF AfterRemoval
  <2>3. a.prefix = t /\ a.ready = r
    <3> HIDE DEF a, t, r
    <3>1. QED BY <2>2
  <2>4. t \in PrefixState /\ r \in Nat /\ t.valid
    BY <1>1, <1>2, <1>6, <2>3, CutCells DEF CacheRecords
  <2>5. Len(t.cells) \in Nat
    BY <2>4, PrefixType
  <2>6. /\ Len(t.cells) = IF p0 < Len(q.prefix.cells) THEN p0 ELSE Len(q.prefix.cells)
        /\ \A j \in 1..Len(t.cells) :
             t.cells[j] = q.prefix.cells[j] /\ (p0 < Len(q.prefix.cells) => j <= p0)
    BY <1>1, CutCells
  <2>7. complete \in Nat /\ complete * Block <= Len(t.cells)
    BY <2>5, DivFacts, SizesAssumption
  <2>8. Len(q.prefix.cells) \in Nat
    BY <1>1, PrefixType
  <2> HIDE DEF a, t, complete
  <2>9. r <= q.ready /\ r * Block <= Len(t.cells) /\ r * Block \in Nat
    <3>1. CASE complete < q.ready
      BY <1>1, <2>7, <3>1, SizesAssumption
    <3>2. CASE ~(complete < q.ready)
      <4>1. q.ready <= complete
        BY <1>1, <2>7, <3>2
      <4>2. q.ready * Block <= complete * Block /\ q.ready * Block \in Nat
        BY <1>1, <2>7, <4>1, SizesAssumption
      <4>3. complete * Block \in Nat
        BY <2>7, SizesAssumption
      <4>4. QED BY <1>1, <2>5, <2>7, <3>2, <4>2, <4>3
    <3>3. QED BY <3>1, <3>2
  <2> HIDE DEF r
  <2>10. ASSUME NEW j \in 1..(r * Block)
         PROVE  t.cells[j] = q.prefix.cells[j] /\ m2[q.prefix.cells[j]].tok = m[q.prefix.cells[j]].tok
    <3>1. j \in 1..Len(t.cells) /\ j \in 1..Len(q.prefix.cells)
      BY <2>5, <2>6, <2>8, <2>9
    <3>2. t.cells[j] = q.prefix.cells[j] /\ j - 1 < p0
      BY <2>6, <2>8, <3>1
    <3>3. m[q.prefix.cells[j]].pos = j - 1 /\ q.prefix.cells[j] \in Cells
      BY <1>1, <2>1, <3>1, PrefixType DEF Exact
    <3>4. ~InRange(m[q.prefix.cells[j]].pos, p0, p1)
      BY <3>2, <3>3 DEF InRange
    <3>5. m2[q.prefix.cells[j]] = m[q.prefix.cells[j]]
      BY <3>3, <3>4 DEF Removed
    <3>6. QED BY <3>2, <3>5
  <2> HIDE DEF m2
  <2>11. FreshKeys(t, m2, r, k)
    BY <1>1, <2>1, <2>4, <2>9, <2>10, StillFresh
  <2>12. QED BY <2>3, <2>4, <2>11 DEF Vouched, a, m2
<1>7. QED BY <1>1, <1>3, <1>4, <1>5, <1>6, PrefixType

(* A failed batch whose sequences are cleared leaves no cached key.              *)
LEMMA FailedReady ==
  ASSUME ClearsAfterError, NEW m \in CellMaps, NEW b, BatchTypes(b), NEW q, Sound(q, m),
         IF q.prefix.valid THEN IsRun(b) /\ q.prefix.sequence = b.seq[1] ELSE q.ready = 0,
         NEW refused
  PROVE  Failed(q, b, refused).ready = 0
<1> DEFINE s == b.seq[1]
<1>1. CASE ~q.prefix.valid
  BY <1>1, FailInvalid
<1>2. CASE q.prefix.valid
  <2> DEFINE F == FirstPos(b, s)
             r == IF s \in refused THEN q ELSE AfterRemoval(q, s, F, -1)
             Low(x) == x.ready \in Nat /\ x.prefix \in PrefixState /\ x.prefix.valid
  <2>1. s \in Seqs /\ b.seq[Len(b.tok)] = s /\ F \in Nat
    BY <1>2, RunFacts, RunFirstPos DEF BatchTypes
  <2>2. Failed(q, b, refused) = AfterRemoval(r, s, 0, -1)
    BY <2>1 DEF Failed, AfterFailure
  <2>3. ASSUME NEW x, Low(x), x.prefix.sequence = s, NEW p0 \in Nat
        PROVE  LET y == AfterRemoval(x, s, p0, -1) IN
               /\ y.prefix = Truncated(x.prefix, p0)
               /\ y.ready = IF Len(y.prefix.cells) \div Block < x.ready
                            THEN Len(y.prefix.cells) \div Block ELSE x.ready
    BY <2>3 DEF AfterRemoval
  <2>4. 0 \div Block = 0
    BY SizesAssumption
  <2>5. ASSUME NEW x, Low(x), x.prefix.sequence = s PROVE AfterRemoval(x, s, 0, -1).ready = 0
    <3> DEFINE y == AfterRemoval(x, s, 0, -1)
    <3>1. /\ y.prefix = Truncated(x.prefix, 0)
          /\ y.ready = IF Len(y.prefix.cells) \div Block < x.ready
                       THEN Len(y.prefix.cells) \div Block ELSE x.ready
      BY <2>3, <2>5
    <3>2. Len(x.prefix.cells) \in Nat
      BY <2>5, PrefixType
    <3> HIDE DEF y
    <3>3. Len(y.prefix.cells) = 0
      BY <2>5, <3>1, <3>2, CutCells
    <3>4. QED BY <2>4, <2>5, <3>1, <3>3 DEF y
  <2>6. Low(q) /\ q.prefix.sequence = s
    BY <1>2 DEF Sound, CacheRecords
  <2>7. CASE s \in refused
    BY <2>2, <2>5, <2>6, <2>7
  <2>8. CASE s \notin refused
    <3> DEFINE y == AfterRemoval(q, s, F, -1)
    <3>1. /\ y.prefix = Truncated(q.prefix, F)
          /\ y.ready = IF Len(y.prefix.cells) \div Block < q.ready
                       THEN Len(y.prefix.cells) \div Block ELSE q.ready
      BY <2>1, <2>3, <2>6
    <3>2. Sound(y, Removed(m, s, F, -1))
      BY <2>1, RemovalSound
    <3> HIDE DEF y, F
    <3>3. y.ready \in Nat /\ y.prefix \in PrefixState
      BY <3>2 DEF Sound, CacheRecords
    <3>4. y.prefix.valid
      BY <2>1, <2>6, <3>1, CutCells DEF F
    <3>5. y.prefix.sequence = s \/ (Len(y.prefix.cells) = 0 /\ y.prefix.sequence = NoSeq)
      BY <2>1, <2>6, <3>1, CutCells DEF F
    <3>6. CASE y.prefix.sequence = s
      BY <2>2, <2>5, <2>8, <3>3, <3>4, <3>6 DEF y, F
    <3>7. CASE Len(y.prefix.cells) = 0 /\ y.prefix.sequence = NoSeq
      <4>1. s # NoSeq
        BY <2>1, NoSeqAssumption
      <4>2. AfterRemoval(y, s, 0, -1) = y
        BY <3>4, <3>7, <4>1 DEF AfterRemoval
      <4>3. y.ready = 0
        BY <2>4, <2>6, <3>1, <3>7
      <4>4. QED BY <2>2, <2>8, <4>2, <4>3 DEF y, F
    <3>8. QED BY <3>5, <3>6, <3>7
  <2>9. QED BY <2>7, <2>8
<1>3. QED BY <1>1, <1>2

(* A mirror has at most as many positions as there are cells.                    *)
LEMMA MirrorFits ==
  ASSUME NEW p \in PrefixState, NEW m \in CellMaps, Exact(p, m)
  PROVE  Len(p.cells) <= KvSize
<1> DEFINE len == Len(p.cells)
           f == [i \in 1..len |-> p.cells[i]]
<1>1. len \in Nat /\ \A i \in 1..len : p.cells[i] \in Cells
  BY PrefixType
<1>2. IsFiniteSet(Cells) /\ Cardinality(Cells) = KvSize
  BY FS_Interval, SizesAssumption DEF Cells
<1>3. IsFiniteSet(1..len) /\ Cardinality(1..len) = len
  BY <1>1, FS_Interval
<1>4. ASSUME NEW i \in 1..len, NEW j \in 1..len, p.cells[i] = p.cells[j] PROVE i = j
  <2>1. m[p.cells[i]].pos = i - 1 /\ m[p.cells[j]].pos = j - 1
    BY DEF Exact
  <2>2. QED BY <1>4, <2>1
<1> HIDE DEF len
<1>5. f \in [1..len -> Cells]
  BY <1>1
<1>6. IsInjective(f)
  BY <1>4 DEF IsInjective
<1>7. f \in Injection(1..len, Cells)
  BY <1>5, <1>6 DEF Injection
<1>8. Cardinality(1..len) <= Cardinality(Cells)
  <2> HIDE DEF f
  <2>1. QED BY <1>2, <1>3, <1>7, FS_Injection
<1>9. QED BY <1>2, <1>3, <1>8 DEF len

LEMMA CompleteBlocks ==
  ASSUME NEW p \in PrefixState, Len(p.cells) <= KvSize, NEW k \in 0..(Complete(p) - 1)
  PROVE  k \in KeyBlocks
<1> USE SizesAssumption
<1> DEFINE n == Complete(p)
           d == (KvSize - 1) \div Block
<1>1. n \in Nat /\ n * Block <= Len(p.cells) /\ Len(p.cells) \in Nat
  BY PrefixType, DivFacts DEF Complete
<1>2. KvSize - 1 \in Nat
  OBVIOUS
<1>3. d \in Nat /\ KvSize - 1 < d * Block + Block
  BY <1>2, DivFacts
<1>4. d \in 0..d /\ KeyBlocks = 0..d
  BY <1>3 DEF KeyBlocks
<1> HIDE DEF n, d
<1>5. k \in Nat /\ k + 1 <= n
  BY <1>1 DEF n
<1>6. (k + 1) * Block <= n * Block
  BY <1>1, <1>5
<1>7. (k + 1) * Block <= KvSize /\ (k + 1) * Block = k * Block + Block /\ k * Block \in Nat
  BY <1>1, <1>5, <1>6
<1>8. ASSUME d < k PROVE FALSE
  <2>1. d + 1 <= k
    BY <1>3, <1>5, <1>8
  <2>2. (d + 1) * Block <= k * Block /\ (d + 1) * Block = d * Block + Block
    BY <1>3, <1>5, <2>1
  <2>3. d * Block \in Nat
    BY <1>3
  <2>4. QED BY <1>3, <1>7, <2>2, <2>3
<1>9. QED BY <1>3, <1>4, <1>5, <1>8

(* The keys of positions before the batch are as they were.                      *)
LEMMA OldKeys ==
  ASSUME NEW m \in CellMaps, NEW p \in PrefixState, Exact(p, m), NEW b, BatchTypes(b),
         NEW written \in BOOLEAN, NEW slots \in Placements(m, Len(b.tok))
  PROVE  \A j \in 1..Len(p.cells) : Placed(m, b, slots, written)[p.cells[j]] = m[p.cells[j]]
<1> DEFINE n == Len(b.tok)
           m2 == Placed(m, b, slots, written)
<1>1. n \in Nat /\ \A i \in 1..n : slots[i] \notin UsedCells(m)
  BY PlacementFacts DEF BatchTypes
<1>2. m2 \in CellMaps /\ \A c \in Cells : (\A i \in 1..n : slots[i] # c) => m2[c] = m[c]
  BY PlacedFacts
<1>3. \A j \in 1..Len(p.cells) : p.cells[j] \in UsedCells(m) /\ p.cells[j] \in Cells
  BY ExactOwner, PrefixType
<1> HIDE DEF n, m2
<1>4. \A j \in 1..Len(p.cells) : m2[p.cells[j]] = m[p.cells[j]]
  BY <1>1, <1>2, <1>3
<1>5. QED BY <1>4 DEF m2

LEMMA FreshAfterBatch ==
  ASSUME NEW m \in CellMaps, NEW p \in PrefixState, Exact(p, m), NEW n \in Nat, NEW k,
         FreshKeys(p, m, n, k), NEW b, BatchTypes(b), NEW written \in BOOLEAN,
         NEW slots \in Placements(m, Len(b.tok)), NEW r, Appended(r, p, b, Placed(m, b, slots, written))
  PROVE  FreshKeys(r, Placed(m, b, slots, written), n, k)
<1> DEFINE m2 == Placed(m, b, slots, written)
<1>1. /\ Len(p.cells) \in Nat /\ Len(b.tok) \in Nat /\ n * Block \in Nat
      /\ n * Block <= Len(p.cells)
      /\ Len(r.cells) = Len(p.cells) + Len(b.tok)
  BY PrefixType, SizesAssumption DEF BatchTypes, FreshKeys, Appended
<1>2. \A j \in 1..(n * Block) : j \in 1..Len(p.cells)
  BY <1>1
<1>3. \A j \in 1..(n * Block) : r.cells[j] = p.cells[j] /\ m2[p.cells[j]].tok = m[p.cells[j]].tok
  <2>1. \A j \in 1..Len(p.cells) : m2[p.cells[j]] = m[p.cells[j]]
    BY OldKeys
  <2>2. \A j \in 1..Len(p.cells) : r.cells[j] = p.cells[j]
    BY DEF Appended
  <2> HIDE DEF m2
  <2>3. QED BY <1>2, <2>1, <2>2
<1>4. n <= n /\ n * Block <= Len(r.cells)
  <2> DEFINE x == n * Block
             len == Len(p.cells)
             added == Len(b.tok)
  <2> HIDE DEF x, len, added
  <2>1. x \in Nat /\ x <= len /\ len \in Nat /\ added \in Nat /\ Len(r.cells) = len + added
    BY <1>1 DEF x, len, added
  <2>2. x <= Len(r.cells) /\ n <= n
    BY <2>1
  <2>3. QED BY <2>2 DEF x
<1> HIDE DEF m2
<1>5. FreshKeys(r, m2, n, k)
  BY <1>3, <1>4, StillFresh
<1>6. QED BY <1>5 DEF m2

(* A decode that uses the cache leaves the keys of all complete blocks in it,    *)
(* also if it computed a part of them only.                                      *)
LEMMA DecodedKeys ==
  ASSUME CacheInv, KeysFresh, NEW b, BatchTypes(b), NEW slots \in Placements(raw, Len(b.tok)),
         NEW m, m = Placed(raw, b, slots, TRUE),
         NEW q, q = AfterApply(Cache, m, b, slots), q.prefix.valid
  PROVE  FreshKeys(q.prefix, m, Complete(q.prefix), KeysAfter(q, m, b))
<1> USE SizesAssumption
<1> DEFINE n == Len(b.tok)
           base == Base(Cache, m, b.seq[1])
           previous == Len(base.cells)
           rows == IF Fast(q, previous, n) THEN Updated(q.prefix, b.pos[1], n)
                   ELSE 0..(Complete(q.prefix) - 1)
           complete == Complete(q.prefix)
           len == Len(q.prefix.cells)
<1>1. m \in CellMaps /\ Sound(q, m) /\ Follows(q, Cache, b, m) /\ n \in Nat \ {0}
  BY ApplySound, PlacedFacts DEF CacheInv, BatchTypes
<1>2. q.prefix \in PrefixState /\ Exact(q.prefix, m) /\ len \in Nat
  BY <1>1, PrefixType DEF Sound, CacheRecords
<1>3. complete \in Nat /\ complete * Block <= len /\ len < complete * Block + Block
  BY <1>2, DivFacts DEF Complete
<1>4. ASSUME NEW k \in 0..(complete - 1) PROVE k \in KeyBlocks
  <2>1. Len(q.prefix.cells) <= KvSize
    BY <1>1, <1>2, MirrorFits
  <2>2. QED BY <1>2, <2>1, CompleteBlocks
<1>5. KeysAfter(q, m, b) = [k \in KeyBlocks |-> IF k \in rows THEN PooledFrom(q.prefix, m, k) ELSE key[k]]
  BY DEF KeysAfter
<1>6. Cache.prefix = prefix /\ Cache.ready = ready /\ prefix \in PrefixState /\ ready \in Nat
      /\ (prefix.valid => Exact(prefix, raw)) /\ raw \in CellMaps
  BY DEF CacheInv, Sound, Cache, CacheRecords
<1>7. q.ready = ready
  BY <1>1, <1>6 DEF Follows
<1>8. ASSUME NEW k \in 0..(complete - 1), k \notin rows
      PROVE  key[k] = PooledFrom(q.prefix, m, k)
  <2>1. /\ k \notin Updated(q.prefix, b.pos[1], n)
        /\ ready >= previous \div Block /\ complete >= FastRows(n)
    BY <1>7, <1>8 DEF Fast
  <2>2. FastRows(n) >= 1
    <3> HIDE DEF n
    <3>1. n + Block - 1 \in Nat
      BY <1>1
    <3>2. (n + Block - 1) \div Block \in Nat
      BY <3>1, DivFacts
    <3>3. QED BY <3>2 DEF FastRows
  <2>3. CASE ~prefix.valid
    <3>1. ready = 0 /\ previous = len
      BY <1>1, <1>6, <2>3 DEF KeysFresh, Base, Follows
    <3>2. len \div Block = complete
      BY DEF Complete
    <3> HIDE DEF len, complete, previous
    <3>3. 0 >= complete
      BY <2>1, <3>1, <3>2
    <3>4. QED BY <1>3, <2>1, <2>2, <3>3
  <2>4. CASE prefix.valid
    <3> DEFINE start == Len(prefix.cells)
               x == (start + n + Block - 1) \div Block
               first == start \div Block
    <3>1. /\ Appended(q.prefix, prefix, b, m) /\ previous = start
          /\ b.pos[1] = start /\ len = start + n /\ start \in Nat
      BY <1>1, <1>6, <2>4, PrefixType DEF Follows, Base, Appended
    <3>2. x \in Nat /\ first \in Nat /\ start + n + Block - 1 < x * Block + Block
      <4> HIDE DEF start, n
      <4>1. start + n + Block - 1 \in Nat
        BY <1>1, <3>1
      <4>2. QED BY <3>1, <4>1, DivFacts
    <3>3. Updated(q.prefix, start, n) =
            (first..(Min({complete, x}) - 1)) \cup
            {a \in {c \in 0..(complete - 1) : c < first \/ c >= Min({complete, x})} :
               Cardinality({d \in {c \in 0..(complete - 1) : c < first \/ c >= Min({complete, x})} : d < a})
                 < FastRows(n) - (Min({complete, x}) - first)}
      BY DEF Updated
    <3> HIDE DEF start, x, first, n, len, complete, rows, previous
    <3>4. complete <= x
      <4>1. ASSUME x + 1 <= complete PROVE FALSE
        <5>1. (x + 1) * Block <= complete * Block /\ (x + 1) * Block = x * Block + Block
          BY <1>3, <3>2, <4>1
        <5>2. x * Block \in Nat /\ complete * Block \in Nat
          BY <1>3, <3>2
        <5>3. start + n < start + n + Block - 1 + 1 /\ start + n + Block - 1 \in Nat
          BY <1>1, <3>1
        <5>4. QED BY <1>1, <1>2, <1>3, <3>1, <3>2, <5>1, <5>2, <5>3
      <4>2. QED BY <1>3, <3>2, <4>1
    <3>5. Min({complete, x}) = complete
      <4>1. \A y \in {complete, x} : complete <= y
        BY <1>3, <3>2, <3>4
      <4>2. \A y \in {complete, x} : (\A z \in {complete, x} : y <= z) => y = complete
        BY <1>3, <3>2, <3>4
      <4>3. QED BY <4>1, <4>2 DEF Min
    <3>6. k \notin first..(complete - 1)
      BY <2>1, <3>1, <3>3, <3>5
    <3>7. k < first
      BY <1>3, <3>2, <3>6
    <3>8. first <= ready
      BY <2>1, <3>1, <3>2, <1>6 DEF first
    <3>9. k \in 0..(ready - 1)
      BY <1>3, <1>6, <3>2, <3>7, <3>8
    <3>10. FreshKeys(prefix, raw, ready, key)
      BY <2>4 DEF KeysFresh
    <3>11. FreshKeys(q.prefix, m, ready, key)
      BY <1>6, <2>4, <3>1, <3>10, FreshAfterBatch DEF n
    <3>12. QED BY <3>9, <3>11 DEF FreshKeys
  <2>5. QED BY <2>3, <2>4
<1> HIDE DEF rows, complete
<1>9. ASSUME NEW k \in 0..(complete - 1) PROVE KeysAfter(q, m, b)[k] = PooledFrom(q.prefix, m, k)
  BY <1>4, <1>5, <1>8
<1>10. QED BY <1>3, <1>9 DEF FreshKeys, complete

LEMMA FreshStep ==
  ASSUME NEW q \in CacheRecords, SetCache(q), Vouched(q, raw', key')
  PROVE  KeysFresh'
<1>1. prefix' = q.prefix /\ ready' = q.ready
  BY DEF SetCache
<1>2. QED BY <1>1 DEF Vouched, KeysFresh

(* A mirror of the sequence that is kept vouches for the same keys.              *)
LEMMA KeptVouched ==
  ASSUME NEW m \in CellMaps, NEW q, Sound(q, m), NEW k, Vouched(q, m, k), NEW s \in Seqs,
         q.prefix.valid, q.prefix.sequence \in {NoSeq, s}
  PROVE  Vouched(q, Kept(m, s), k)
<1>1. q.prefix \in PrefixState /\ q.ready \in Nat /\ Exact(q.prefix, m)
  BY DEF Sound, CacheRecords
<1>2. FreshKeys(q.prefix, m, q.ready, k)
  BY DEF Vouched
<1>3. \A j \in 1..(q.ready * Block) : j \in 1..Len(q.prefix.cells)
  BY <1>1, <1>2, ReadyPositions
<1>4. ASSUME NEW j \in 1..Len(q.prefix.cells)
      PROVE  Kept(m, s)[q.prefix.cells[j]].tok = m[q.prefix.cells[j]].tok
  <2>1. q.prefix.cells[j] \in Cells /\ m[q.prefix.cells[j]].seqs = {q.prefix.sequence}
    BY <1>1, PrefixType DEF Exact
  <2>2. q.prefix.sequence = s
    <3>1. Len(q.prefix.cells) # 0
      BY <1>1, PrefixType
    <3>2. QED BY <1>1, <3>1, ExactOwner
  <2>3. Kept(m, s)[q.prefix.cells[j]] = [m[q.prefix.cells[j]] EXCEPT !.seqs = {s}]
    BY <2>1, <2>2 DEF Kept
  <2>4. m[q.prefix.cells[j]] \in Cell
    BY <2>1 DEF CellMaps
  <2>5. QED BY <2>3, <2>4 DEF Cell
<1>5. q.ready <= q.ready /\ q.ready * Block <= Len(q.prefix.cells)
  BY <1>1, <1>2 DEF FreshKeys
<1>6. \A j \in 1..(q.ready * Block) :
        Kept(m, s)[q.prefix.cells[j]].tok = m[q.prefix.cells[j]].tok
  BY <1>3, <1>4
<1>7. FreshKeys(q.prefix, Kept(m, s), q.ready, k)
  <2> DEFINE m2 == Kept(m, s)
             p == q.prefix
             n == q.ready
  <2>1. n \in Nat /\ FreshKeys(p, m, n, k) /\ n <= n /\ n * Block <= Len(p.cells)
        /\ \A j \in 1..(n * Block) : p.cells[j] = p.cells[j] /\ m2[p.cells[j]].tok = m[p.cells[j]].tok
    BY <1>1, <1>2, <1>5, <1>6
  <2> HIDE DEF m2, p, n
  <2>2. FreshKeys(p, m2, n, k)
    BY <2>1, StillFresh
  <2>3. QED BY <2>2 DEF m2, p, n
<1>8. QED BY <1>7 DEF Vouched

LEMMA FreshDecode ==
  ASSUME CacheInv, KeysFresh, NEW b \in Batches(raw), NEW slots \in Placements(raw, Len(b.tok)),
         DecodesIn(b, slots)
  PROVE  KeysFresh'
<1> DEFINE m == Placed(raw, b, slots, TRUE)
           q == AfterApply(Cache, m, b, slots)
<1>1. m \in CellMaps /\ BatchTypes(b)
  BY BatchesTyped, PlacedFacts DEF CacheInv
<1>2. Sound(q, m) /\ Follows(q, Cache, b, m)
  BY <1>1, ApplySound DEF CacheInv
<1>3. Cache.prefix = prefix /\ Cache.ready = ready /\ ready \in Nat /\ prefix \in PrefixState
      /\ (prefix.valid => Exact(prefix, raw)) /\ raw \in CellMaps
  BY DEF CacheInv, Sound, Cache, CacheRecords
<1>4. q \in CacheRecords /\ q.prefix \in PrefixState
  BY <1>2 DEF Sound, CacheRecords
<1>5. raw' = m
  BY DEF DecodesIn
<1>6. CASE SetCache(q) /\ key' = key
  <2>1. CASE ~(q.prefix.valid /\ prefix.valid)
    <3>1. q.ready = 0
      BY <1>2, <1>3, <2>1 DEF Follows, KeysFresh
    <3> HIDE DEF q
    <3>2. QED BY <1>4, <1>6, <3>1, NothingVouched, FreshStep
  <2>2. CASE q.prefix.valid /\ prefix.valid
    <3>1. Appended(q.prefix, prefix, b, m) /\ q.ready = ready
      BY <1>2, <1>3, <2>2 DEF Follows
    <3>2. FreshKeys(prefix, raw, ready, key)
      BY <2>2 DEF KeysFresh
    <3> HIDE DEF q
    <3>3. FreshKeys(q.prefix, m, ready, key)
      BY <1>1, <1>3, <2>2, <3>1, <3>2, FreshAfterBatch
    <3> HIDE DEF m
    <3>4. Vouched(q, raw', key')
      BY <1>5, <1>6, <2>2, <3>1, <3>3 DEF Vouched
    <3>5. QED BY <1>4, <1>6, <3>4, FreshStep
  <2>3. QED BY <2>1, <2>2
<1>7. CASE q.prefix.valid /\ key' = KeysAfter(q, m, b) /\ SetCache(Committed(q))
  <2>1. FreshKeys(q.prefix, m, Complete(q.prefix), KeysAfter(q, m, b))
    BY <1>1, <1>7, DecodedKeys
  <2> HIDE DEF q, m
  <2>2. /\ Committed(q) \in CacheRecords /\ Committed(q).prefix = q.prefix
        /\ Committed(q).ready = Complete(q.prefix)
    BY <1>2, CommitSound DEF Sound
  <2>3. Vouched(Committed(q), raw', key')
    BY <1>5, <1>7, <2>1, <2>2 DEF Vouched
  <2>4. QED BY <1>7, <2>2, <2>3, FreshStep
<1>8. QED BY <1>6, <1>7 DEF DecodesIn

LEMMA FreshDecodeFails ==
  ASSUME ClearsAfterError, CacheInv, KeysFresh,
         NEW b \in Batches(raw), NEW slots \in Placements(raw, Len(b.tok)),
         NEW refused \in Refusals(b), NEW written \in BOOLEAN, NEW sparse \in BOOLEAN,
         FailedDecode(b, slots, refused, written, sparse)
  PROVE  KeysFresh'
<1> DEFINE m == Placed(raw, b, slots, written)
           q == AfterApply(Cache, m, b, slots)
           c == IF sparse /\ q.prefix.valid THEN Committed(q) ELSE q
<1>1. m \in CellMaps /\ BatchTypes(b)
  BY BatchesTyped, PlacedFacts DEF CacheInv
<1>2. Sound(q, m) /\ Follows(q, Cache, b, m)
  BY <1>1, ApplySound DEF CacheInv
<1>3. Cache.prefix = prefix /\ Cache.ready = ready
  BY DEF Cache
<1>4. IF q.prefix.valid THEN IsRun(b) /\ q.prefix.sequence = b.seq[1] ELSE q.ready = 0
  BY <1>2, <1>3 DEF Follows, KeysFresh
<1> HIDE DEF q, m
<1>5. Sound(c, m) /\ c.prefix = q.prefix /\ (~q.prefix.valid => c = q)
  BY <1>2, CommitSound
<1>6. refused \subseteq SeqsOf(b)
  BY DEF Refusals
<1>7. SetCache(Failed(c, b, refused))
  BY DEF FailedDecode, q, m
<1> HIDE DEF c
<1>8. Failed(c, b, refused).ready = 0
  BY <1>1, <1>4, <1>5, FailedReady
<1>9. Failed(c, b, refused) \in CacheRecords
  <2>1. c.prefix.valid => IsRun(b)
    BY <1>4, <1>5
  <2>2. Sound(Failed(c, b, refused), AfterError(m, b, refused))
    BY <1>1, <1>5, <1>6, <2>1, FailSound
  <2>3. QED BY <2>2 DEF Sound
<1>10. QED BY <1>7, <1>8, <1>9, NothingVouched, FreshStep

LEMMA FreshInit == Init => KeysFresh
<1> SUFFICES ASSUME Init PROVE KeysFresh
  OBVIOUS
<1>1. prefix.valid /\ ready = 0 /\ prefix.cells = <<>>
  BY DEF Init, Fresh
<1>2. 0 * Block <= Len(prefix.cells)
  BY <1>1, SizesAssumption
<1>3. QED BY <1>1, <1>2 DEF KeysFresh, FreshKeys

LEMMA FreshNext ==
  ClearsAfterError /\ CacheInv /\ KeysFresh /\ [Next]_vars => KeysFresh'
<1> SUFFICES ASSUME ClearsAfterError, CacheInv, KeysFresh, [Next]_vars PROVE KeysFresh'
  OBVIOUS
<1>1. Sound(Cache, raw) /\ raw \in CellMaps /\ Vouched(Cache, raw, key)
      /\ Cache \in CacheRecords /\ Cache.prefix = prefix
  BY DEF CacheInv, KeysFresh, Vouched, Cache, Sound
<1>2. Invalidated \in CacheRecords /\ Invalidated.ready = 0
  BY InvalidType DEF Invalidated, CacheRecords
<1>3. CASE Clear
  <2> DEFINE q == [prefix |-> Fresh, pending |-> FALSE, ready |-> 0]
  <2>1. q \in CacheRecords /\ q.ready = 0 /\ SetCache(q)
    BY <1>3, FreshSound DEF Clear, SetCache
  <2> HIDE DEF q
  <2>2. QED BY <2>1, NothingVouched, FreshStep
<1>4. ASSUME NEW s \in Seqs, NEW r \in Ranges, SeqRm(s, r[1], r[2]) PROVE KeysFresh'
  <2>1. r[1] \in Nat /\ r[2] \in Int
    BY InputsAssumption
  <2> DEFINE q == AfterRemoval(Cache, s, r[1], r[2])
  <2>2. SetCache(q) /\ raw' = Removed(raw, s, r[1], r[2]) /\ key' = key
    BY <1>4 DEF SeqRm
  <2>3. Vouched(q, Removed(raw, s, r[1], r[2]), key)
    BY <1>1, <2>1, RemovalVouched
  <2>4. q \in CacheRecords
    BY <1>1, <2>1, RemovalSound DEF Sound
  <2> HIDE DEF q
  <2>5. QED BY <2>2, <2>3, <2>4, FreshStep
<1>5. ASSUME NEW src \in Seqs, NEW dst \in Seqs, SeqCp(src, dst) PROVE KeysFresh'
  BY <1>2, <1>5, NothingVouched, FreshStep DEF SeqCp
<1>6. ASSUME NEW s \in Seqs, SeqKeep(s) PROVE KeysFresh'
  <2>1. CASE ~prefix.valid \/ prefix.sequence \notin {NoSeq, s}
    <3>1. SetCache(Invalidated)
      BY <1>6, <2>1 DEF SeqKeep
    <3>2. QED BY <1>2, <3>1, NothingVouched, FreshStep
  <2>2. CASE prefix.valid /\ prefix.sequence \in {NoSeq, s}
    <3>1. SetCache(Cache) /\ raw' = Kept(raw, s) /\ key' = key
      BY <1>6, <2>2 DEF SeqKeep
    <3>2. Vouched(Cache, Kept(raw, s), key)
      BY <1>1, <2>2, KeptVouched
    <3>3. QED BY <1>1, <3>1, <3>2, FreshStep
  <2>3. QED BY <2>1, <2>2
<1>7. ASSUME NEW s \in Seqs, StateRead(s) PROVE KeysFresh'
  BY <1>2, <1>7, NothingVouched, FreshStep DEF StateRead
<1>8. CASE Decode
  BY <1>8, DecodeForm, FreshDecode
<1>9. CASE DecodeFails
  BY <1>9, FreshDecodeFails DEF DecodeFails
<1>10. CASE UNCHANGED vars
  BY <1>10 DEF vars, memory, qsa, KeysFresh
<1>11. QED BY <1>3, <1>4, <1>5, <1>6, <1>7, <1>8, <1>9, <1>10 DEF Next

(* If the caller clears the sequences of a decode that failed, as the server     *)
(* does, the cached keys that count as ready (qsa_ready) are those of the cells. *)
(* Without the assumption it is false: a run shows the counterexample.           *)
THEOREM KeysFreshCorrect ==
  ASSUME ClearsAfterError
  PROVE  Spec => []KeysFresh
<1>1. Init => CacheInv /\ KeysFresh
  BY CacheInvInit, FreshInit
<1>2. (CacheInv /\ KeysFresh) /\ [Next]_vars => (CacheInv /\ KeysFresh)'
  BY CacheInvNext, FreshNext
<1>3. QED BY <1>1, <1>2, PTL DEF Spec

-----------------------------------------------------------------------------
(* The cache is invisible: the memory behaves as one without it                  *)

(* The complete blocks of the sequence of an exact mirror, and their keys.       *)
LEMMA PooledMirror ==
  ASSUME NEW p \in PrefixState, NEW m \in CellMaps, Exact(p, m), NEW s \in Seqs, p.sequence = s
  PROVE  Pooled(m, s) = [k \in 0..(Complete(p) - 1) |-> PooledFrom(p, m, k)]
<1> USE SizesAssumption
<1> DEFINE len == Len(p.cells)
           complete == Complete(p)
<1>1. len \in Nat /\ len <= KvSize
  BY PrefixType, MirrorFits
<1>2. complete \in Nat /\ complete * Block <= len /\ len < complete * Block + Block
  BY <1>1, DivFacts DEF Complete
<1>3. CellsOf(m, s) = UsedCells(m)
  <2>1. \A c \in UsedCells(m) : s \in m[c].seqs
    BY ExactOwner
  <2>2. QED BY <2>1 DEF CellsOf, UsedCells, FreeCells
<1>4. ASSUME NEW pos \in Nat
      PROVE  KeyAt(m, s, pos) = IF pos < len THEN {m[p.cells[pos + 1]].tok} ELSE {}
  <2>1. \A c \in UsedCells(m) : m[c].pos < len /\ p.cells[m[c].pos + 1] = c
    BY DEF Exact
  <2>2. CASE pos < len
    <3>1. pos + 1 \in 1..len
      BY <1>1, <2>2
    <3>2. p.cells[pos + 1] \in UsedCells(m)
      BY <3>1, ExactOwner
    <3>3. m[p.cells[pos + 1]].pos = (pos + 1) - 1 /\ (pos + 1) - 1 = pos
      BY <3>1 DEF Exact
    <3>4. {d \in CellsOf(m, s) : m[d].pos = pos} = {p.cells[pos + 1]}
      BY <1>3, <2>1, <3>2, <3>3
    <3>5. QED BY <2>2, <3>4 DEF KeyAt
  <2>3. CASE ~(pos < len)
    <3>1. {d \in CellsOf(m, s) : m[d].pos = pos} = {}
      BY <1>3, <2>1, <2>3
    <3>2. QED BY <2>3, <3>1 DEF KeyAt
  <2>4. QED BY <2>2, <2>3
<1>5. ASSUME NEW k \in 0..(complete - 1), NEW i \in 0..(Block - 1)
      PROVE  KeyAt(m, s, k * Block + i) = {m[p.cells[k * Block + i + 1]].tok}
  <2>1. k * Block + i + 1 \in 1..len /\ k * Block + i \in Nat
    <3>1. k \in Nat /\ k * Block \in Nat
      BY <1>2
    <3>2. k * Block + i + 1 \in 1..len
      BY BlockCells
    <3>3. i \in Nat
      OBVIOUS
    <3>4. QED BY <3>1, <3>2, <3>3
  <2> HIDE DEF len
  <2>2. k * Block + i < len
    BY <1>1, <2>1
  <2>3. QED BY <1>4, <2>1, <2>2
<1>6. ASSUME NEW k \in Nat, k >= complete
      PROVE  \E i \in 0..(Block - 1) : KeyAt(m, s, k * Block + i) = {}
  <2> HIDE DEF len, complete
  <2>1. complete * Block <= k * Block /\ k * Block \in Nat /\ complete * Block \in Nat
    BY <1>2, <1>6
  <2>2. k * Block + (Block - 1) \in Nat /\ ~(k * Block + (Block - 1) < len)
    BY <1>1, <1>2, <2>1
  <2>3. KeyAt(m, s, k * Block + (Block - 1)) = {}
    BY <1>4, <2>2
  <2>4. Block - 1 \in 0..(Block - 1)
    OBVIOUS
  <2>5. QED BY <2>3, <2>4
<1>7. Blocks(m, s) = 0..(complete - 1)
  <2> DEFINE d == KvSize \div Block
  <2>1. d \in Nat /\ KvSize < d * Block + Block
    BY DivFacts
  <2>2. complete <= d
    <3> HIDE DEF complete, len, d
    <3>1. ASSUME d + 1 <= complete PROVE FALSE
      <4>1. (d + 1) * Block <= complete * Block /\ (d + 1) * Block = d * Block + Block
        BY <1>2, <2>1, <3>1
      <4>2. d * Block \in Nat /\ complete * Block \in Nat
        BY <1>2, <2>1
      <4>3. QED BY <1>1, <1>2, <2>1, <4>1, <4>2
    <3>2. QED BY <1>2, <2>1, <3>1
  <2>3. Blocks(m, s) = {k \in 0..d : \A i \in 0..(Block - 1) : KeyAt(m, s, k * Block + i) # {}}
    BY DEF Blocks
  <2> HIDE DEF complete, d
  <2>4. ASSUME NEW k \in 0..(complete - 1) PROVE k \in Blocks(m, s)
    <3>1. k \in 0..d
      BY <1>2, <2>1, <2>2
    <3>2. \A i \in 0..(Block - 1) : KeyAt(m, s, k * Block + i) # {}
      BY <1>5
    <3>3. QED BY <2>3, <3>1, <3>2
  <2>5. ASSUME NEW k \in Blocks(m, s) PROVE k \in 0..(complete - 1)
    <3>1. k \in 0..d /\ \A i \in 0..(Block - 1) : KeyAt(m, s, k * Block + i) # {}
      BY <2>3
    <3>2. k \in Nat
      BY <2>1, <3>1
    <3>3. ~(k >= complete)
      BY <1>6, <3>1, <3>2
    <3>4. QED BY <1>2, <3>2, <3>3
  <2>6. QED BY <2>4, <2>5
<1> HIDE DEF complete
<1>8. ASSUME NEW k \in 0..(complete - 1)
      PROVE  [i \in 0..(Block - 1) |-> KeyAt(m, s, k * Block + i)] = PooledFrom(p, m, k)
  BY <1>5 DEF PooledFrom
<1>9. Pooled(m, s) = [k \in 0..(complete - 1) |-> [i \in 0..(Block - 1) |-> KeyAt(m, s, k * Block + i)]]
  BY <1>7 DEF Pooled
<1>10. QED BY <1>8, <1>9 DEF complete

(* What a decode scores, if it scores any key.                                   *)
ScoresIn(b, slots) ==
  LET m == Placed(raw, b, slots, TRUE)
      q == AfterApply(Cache, m, b, slots)
  IN  /\ raw' = m
      /\ \/ read' = <<>>
         \/ IsRun(b) /\ read' = Pooled(m, b.seq[1])
         \/ /\ q.prefix.valid /\ key' = KeysAfter(q, m, b)
            /\ read' = [k \in 0..(Complete(q.prefix) - 1) |-> key'[k]]

LEMMA ScoreForm ==
  Decode => \E b \in Batches(raw) : \E slots \in Placements(raw, Len(b.tok)) : ScoresIn(b, slots)
BY Zenon DEF Decode, ScoresIn

(* Every decode scores the keys of the cells as they are.                        *)
LEMMA PlainDecodes ==
  ASSUME CacheInv, KeysFresh, NEW b \in Batches(raw), NEW slots \in Placements(raw, Len(b.tok)),
         ScoresIn(b, slots)
  PROVE  PlainDecode
<1> DEFINE m == Placed(raw, b, slots, TRUE)
           q == AfterApply(Cache, m, b, slots)
<1>1. raw' = m /\ m \in CellMaps /\ BatchTypes(b)
  BY BatchesTyped, PlacedFacts DEF CacheInv, ScoresIn
<1>2. Sound(q, m) /\ Follows(q, Cache, b, m)
  BY <1>1, ApplySound DEF CacheInv
<1>3. read' = <<>> \/ (IsRun(b) /\ read' = Pooled(m, b.seq[1]))
  <2>1. CASE /\ q.prefix.valid /\ key' = KeysAfter(q, m, b)
             /\ read' = [k \in 0..(Complete(q.prefix) - 1) |-> key'[k]]
    <3> DEFINE new == KeysAfter(q, m, b)
    <3>1. FreshKeys(q.prefix, m, Complete(q.prefix), new)
      BY <1>1, <2>1, DecodedKeys
    <3>2. IsRun(b) /\ q.prefix.sequence = b.seq[1]
      BY <1>2, <2>1 DEF Follows
    <3>3. q.prefix \in PrefixState /\ Exact(q.prefix, m) /\ b.seq[1] \in Seqs
      BY <1>1, <1>2, <2>1, <3>2, RunFacts DEF Sound, CacheRecords
    <3>4. Pooled(m, b.seq[1]) = [k \in 0..(Complete(q.prefix) - 1) |-> PooledFrom(q.prefix, m, k)]
      BY <1>1, <3>2, <3>3, PooledMirror
    <3> HIDE DEF q, m, new
    <3>5. \A k \in 0..(Complete(q.prefix) - 1) : new[k] = PooledFrom(q.prefix, m, k)
      BY <3>1 DEF FreshKeys
    <3>6. read' = [k \in 0..(Complete(q.prefix) - 1) |-> new[k]]
      BY <2>1 DEF new
    <3>7. QED BY <3>2, <3>4, <3>5, <3>6
  <2>2. QED BY <2>1 DEF ScoresIn
<1> HIDE DEF q
<1>4. QED BY <1>1, <1>3 DEF PlainDecode

LEMMA PlainStep ==
  CacheInv /\ KeysFresh /\ [Next]_vars => [PlainNext]_memory
<1> SUFFICES ASSUME CacheInv, KeysFresh, [Next]_vars PROVE [PlainNext]_memory
  OBVIOUS
<1>1. CASE Clear
  BY <1>1 DEF Clear, PlainNext, PlainEdit
<1>2. ASSUME NEW s \in Seqs, NEW r \in Ranges, SeqRm(s, r[1], r[2]) PROVE PlainEdit
  BY <1>2 DEF SeqRm, PlainEdit
<1>3. ASSUME NEW src \in Seqs, NEW dst \in Seqs, SeqCp(src, dst) PROVE PlainEdit
  BY <1>3 DEF SeqCp, PlainEdit
<1>4. ASSUME NEW s \in Seqs, SeqKeep(s) PROVE PlainEdit
  BY <1>4 DEF SeqKeep, PlainEdit
<1>5. ASSUME NEW s \in Seqs, StateRead(s) PROVE PlainRestore
  BY <1>5 DEF StateRead, PlainRestore
<1>6. CASE Decode
  BY <1>6, ScoreForm, PlainDecodes DEF PlainNext
<1>7. CASE DecodeFails
  <2>1. ASSUME NEW b \in Batches(raw), NEW slots \in Placements(raw, Len(b.tok)),
               NEW refused \in Refusals(b), NEW written \in BOOLEAN, NEW sparse \in BOOLEAN,
               FailedDecode(b, slots, refused, written, sparse)
        PROVE  PlainDecodeFails
    BY <2>1 DEF FailedDecode, PlainDecodeFails
  <2>2. QED BY <1>7, <2>1 DEF DecodeFails, PlainNext
<1>8. CASE UNCHANGED vars
  BY <1>8 DEF vars
<1>9. QED BY <1>1, <1>2, <1>3, <1>4, <1>5, <1>6, <1>7, <1>8 DEF Next, PlainNext

(* For a caller that clears after an error the cache is invisible: the memory    *)
(* with it implements the memory without one, so every sparse decode scores the  *)
(* keys it would have pooled anew (qsa_fast, qsa_fill_updates, build_qsa_top_k). *)
THEOREM CacheInvisible ==
  ASSUME ClearsAfterError
  PROVE  Spec => ReadsAsPlain
<1>1. Init => CacheInv /\ KeysFresh /\ PlainInit
  BY CacheInvInit, FreshInit DEF Init
<1>2. (CacheInv /\ KeysFresh) /\ [Next]_vars => (CacheInv /\ KeysFresh)'
  BY CacheInvNext, FreshNext
<1>3. CacheInv /\ KeysFresh /\ [Next]_vars => [PlainNext]_memory
  BY PlainStep
<1>4. QED BY <1>1, <1>2, <1>3, PTL DEF Spec, ReadsAsPlain, PlainSpec

=============================================================================
