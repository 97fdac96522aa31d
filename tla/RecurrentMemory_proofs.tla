------------------------ MODULE RecurrentMemory_proofs ------------------------
(***************************************************************************)
(* The recurrent memory has its types, its cells and tails agree, and no   *)
(* rollback is refused, for any number of cells, settings, tokens and      *)
(* drafts; and it implements SequenceStates, in every context in which the *)
(* snapshots of a draft stay.                                              *)
(*                                                                         *)
(* find_slot() is two loops, each a function from the steps made to the    *)
(* memory then.  Loop says that such a function exists, LoopInduction that *)
(* it has what its steps keep.  The first loop gives each sequence a cell  *)
(* of its own: Placed says that cells and tails agree meanwhile, Ahead     *)
(* that the cursor is at a free cell if there is one.  That there is one   *)
(* is a pigeonhole: there are as many cells as sequences, so a sequence    *)
(* without its own cell leaves one over.  The second loop moves the cells  *)
(* together.  Moving is a permutation of the cells, which Placed survives, *)
(* and each step puts one more sequence in its place (InPlace).  A second  *)
(* pigeonhole finds a cell of the range to be zeroed: if each were the     *)
(* source of one, a cell without a source would leave one too many.        *)
(* FindSlotResult puts these together: Found is all that the calls need to *)
(* know of the cells, Sourced of the rows that the graph reads.            *)
(*                                                                         *)
(* The invariant of the specification, Inv, adds to the properties that    *)
(* the batch is in order and fits, and what a draft was decoded into.      *)
(* StateInv says that the row from which each sequence goes on holds its   *)
(* state.  Taking a draft back keeps that only if the snapshot is valid,   *)
(* which SnapInv says of the contexts named in SnapshotsStay.              *)
(***************************************************************************)
EXTENDS RecurrentMemory, FiniteSetTheorems, SequenceTheorems, WellFoundedInduction, TLAPS

-----------------------------------------------------------------------------
(* Numbers, intervals and loops. *)

(* Min of a set of numbers is its least element. *)
LEMMA MinOfNats ==
  ASSUME NEW I \in SUBSET Nat, I # {}
  PROVE  Min(I) \in I /\ \A j \in I : Min(I) <= j
<1> DEFINE R == {p \in Nat \X Nat : p[1] < p[2]}
<1>1. IsWellFoundedOn(R, Nat)
  BY NatLessThanWellFounded, Zenon DEF OpToRel
<1>2. PICK m \in I : \A y \in I : <<y, m>> \notin R
  BY <1>1, WFMin, Zenon
<1>3. \A y \in I : m <= y
  <2> SUFFICES ASSUME NEW y \in I PROVE ~(y < m)
    OBVIOUS
  <2>1. <<y, m>> \notin R /\ y \in Nat /\ m \in Nat
    BY <1>2
  <2>2. QED BY <2>1
<1>4. QED BY <1>3 DEF Min

(* Max of a set of numbers that has a bound is its greatest element. *)
LEMMA MaxOfNats ==
  ASSUME NEW n \in Nat, NEW I \in SUBSET (0..n), I # {}
  PROVE  Max(I) \in I /\ \A j \in I : j <= Max(I)
<1> DEFINE J == {j \in 0..n : n - j \in I}
<1>1. J \in SUBSET Nat /\ J # {}
  <2>1. PICK i \in I : TRUE
    OBVIOUS
  <2>2. n - i \in J
    BY n - (n - i) = i
  <2>3. QED BY <2>2
<1>2. PICK k \in J : \A j \in J : k <= j
  BY <1>1, MinOfNats
<1> DEFINE i == n - k
<1>3. i \in I /\ k = n - i
  BY <1>2
<1>4. \A j \in I : j <= i
  <2> SUFFICES ASSUME NEW j \in I PROVE j <= i
    OBVIOUS
  <2>1. n - j \in J
    BY n - (n - j) = j
  <2>2. k <= n - j
    BY <1>2, <2>1
  <2>3. QED BY <1>3, <2>2
<1>5. \A j \in I : i >= j
  BY <1>4
<1>6. Max(I) \in I /\ \A j \in I : Max(I) >= j
  BY <1>5, Zenon DEF Max
<1>7. QED BY <1>6

(* What holds before a loop and is kept by each of its steps holds all along. *)
LEMMA LoopInduction ==
  ASSUME NEW n \in Nat, NEW S, 0 \in S,
         \A k \in 1..n : k - 1 \in S => k \in S
  PROVE  0..n \subseteq S
<1> SUFFICES ASSUME ~(0..n \subseteq S) PROVE FALSE
  OBVIOUS
<1> DEFINE I == {k \in 0..n : k \notin S}
<1>1. I \in SUBSET Nat /\ I # {}
  OBVIOUS
<1>2. PICK k \in I : \A j \in I : k <= j
  BY <1>1, MinOfNats
<1>3. k \in 1..n
  BY <1>2
<1>4. k - 1 \in 0..n /\ k - 1 \notin I
  BY <1>2, <1>3
<1>5. k - 1 \in S
  BY <1>4
<1>6. QED BY <1>2, <1>3, <1>5

(* The function that a loop computes exists. *)
Runs(g, n, a, h) == g = [k \in 0..n |-> IF k = 0 THEN a ELSE h[k][g[k - 1]]]

LEMMA Loop ==
  ASSUME NEW n \in Nat, NEW D, NEW a \in D, NEW h \in [1..n -> [D -> D]]
  PROVE  \E g \in [0..n -> D] : Runs(g, n, a, h)
<1> DEFINE Steps(g, k) == g[0] = a /\ \A i \in 1..k : g[i] = h[i][g[i - 1]]
           S == {k \in 0..n : \E g \in [0..k -> D] : Steps(g, k)}
<1>1. 0 \in S
  <2>1. [i \in 0..0 |-> a] \in [0..0 -> D] /\ Steps([i \in 0..0 |-> a], 0)
    OBVIOUS
  <2> HIDE DEF Steps
  <2>2. \E g \in [0..0 -> D] : Steps(g, 0)
    BY <2>1, Zenon
  <2>3. QED BY <2>2
<1>2. ASSUME NEW k \in 1..n, k - 1 \in S PROVE k \in S
  <2>1. PICK g \in [0..(k - 1) -> D] : Steps(g, k - 1)
    BY <1>2
  <2> DEFINE f == [i \in 0..k |-> IF i = k THEN h[k][g[k - 1]] ELSE g[i]]
  <2>2. f \in [0..k -> D]
    OBVIOUS
  <2>3. f[0] = a
    BY <2>1
  <2>4. ASSUME NEW i \in 1..k PROVE f[i] = h[i][f[i - 1]]
    <3>1. CASE i = k
      BY <3>1
    <3>2. CASE i # k
      <4>1. i \in 1..(k - 1) /\ i - 1 \in 0..k /\ i - 1 # k /\ i \in 0..k
        BY <3>2
      <4>2. g[i] = h[i][g[i - 1]]
        BY <4>1, <2>1
      <4>3. QED BY <3>2, <4>1, <4>2
    <3>3. QED BY <3>1, <3>2
  <2>5. Steps(f, k)
    BY <2>3, <2>4
  <2> HIDE DEF Steps, f
  <2>6. \E e \in [0..k -> D] : Steps(e, k)
    BY <2>2, <2>5, Zenon
  <2>7. QED BY <2>6
<1>3. n \in S
  <2> HIDE DEF S
  <2>1. 0..n \subseteq S
    BY <1>1, <1>2, LoopInduction
  <2>2. QED BY <2>1
<1>4. PICK g \in [0..n -> D] : Steps(g, n)
  BY <1>3
<1>5. ASSUME NEW k \in 0..n PROVE g[k] = IF k = 0 THEN a ELSE h[k][g[k - 1]]
  <2>1. k # 0 => k \in 1..n
    OBVIOUS
  <2>2. QED BY <1>4, <2>1
<1>6. QED
  <2>1. g = [k \in 0..n |-> IF k = 0 THEN a ELSE h[k][g[k - 1]]]
    BY <1>5
  <2>2. QED BY <2>1 DEF Runs

-----------------------------------------------------------------------------
(* The working memory of find_slot(): what its two loops change. *)

Working == [cells : [Cells -> Cell], tail : [Seqs -> Cells \cup {None}], next : Cells]


(* How far c is from a cell, going up and around. *)
Offset(from, c) == IF c >= from THEN c - from ELSE c - from + NSeqMax

(* The search for an empty cell finds the nearest one. *)
LEMMA EmptyFromIsNearest ==
  ASSUME NEW cells \in [Cells -> Cell], NEW from \in 0..NSeqMax
  PROVE  /\ EmptyFrom(cells, from) \in Cells
         /\ \A c \in Cells : cells[c].seqs = {} =>
              /\ cells[EmptyFrom(cells, from)].seqs = {}
              /\ Offset(from, EmptyFrom(cells, from)) <= Offset(from, c)
<1> USE SizeAssumption DEF Cells, Wrapped, Offset
<1> DEFINE steps == {k \in Cells : cells[Wrapped(from + k)].seqs = {}}
<1>1. \A k \in Cells : Wrapped(from + k) \in Cells /\ Offset(from, Wrapped(from + k)) = k
  OBVIOUS
<1>2. \A c \in Cells : Offset(from, c) \in Cells /\ Wrapped(from + Offset(from, c)) = c
  OBVIOUS
<1>3. CASE steps = {}
  <2>1. EmptyFrom(cells, from) = Wrapped(from)
    BY <1>3 DEF EmptyFrom
  <2>2. EmptyFrom(cells, from) \in Cells
    BY <2>1, <1>1
  <2>3. ASSUME NEW c \in Cells PROVE cells[c].seqs # {}
    BY <1>2, <1>3
  <2>4. QED BY <2>2, <2>3
<1>4. CASE steps # {}
  <2>1. EmptyFrom(cells, from) = Wrapped(from + Min(steps))
    BY <1>4 DEF EmptyFrom
  <2>2. steps \in SUBSET Nat
    OBVIOUS
  <2>3. Min(steps) \in steps /\ \A j \in steps : Min(steps) <= j
    BY <1>4, <2>2, MinOfNats
  <2> DEFINE k == Min(steps)
  <2> HIDE DEF k
  <2>4. k \in Cells /\ cells[Wrapped(from + k)].seqs = {} /\ \A j \in steps : k <= j
    BY <2>3 DEF k
  <2>5. EmptyFrom(cells, from) = Wrapped(from + k)
    BY <2>1 DEF k
  <2>6. Wrapped(from + k) \in Cells /\ Offset(from, Wrapped(from + k)) = k
    BY <2>4, <1>1
  <2>7. ASSUME NEW c \in Cells, cells[c].seqs = {} PROVE k <= Offset(from, c)
    <3>1. Offset(from, c) \in steps
      BY <2>7, <1>2
    <3>2. QED BY <3>1, <2>4
  <2>8. QED BY <2>4, <2>5, <2>6, <2>7
<1>5. QED BY <1>3, <1>4

(* What a step of the search makes of the memory. *)
Taken(m, a, s) ==
  /\ a.tail = [m.tail EXCEPT ![s] = m.next]
  /\ a.next = EmptyFrom(a.cells, m.next + 1)
  /\ m.tail[s] = None => a.cells = m.cells
  /\ m.tail[s] \notin {None, m.next} =>
       /\ \A c \in Cells \ {m.next, m.tail[s]} : a.cells[c] = m.cells[c]
       /\ a.cells[m.next] = [m.cells[m.tail[s]] EXCEPT !.seqs = {s}]
       /\ a.cells[m.tail[s]] = [m.cells[m.tail[s]] EXCEPT !.seqs = @ \ {s}]

(* A sequence with a cell of its own stays; any other one takes the next. *)
LEMMA TakeCellIs ==
  ASSUME NEW m \in Working, NEW s \in Seqs
  PROVE  /\ TakeCell(m, s) \in Working
         /\ Owns(m, s) => TakeCell(m, s) = m
         /\ ~Owns(m, s) => Taken(m, TakeCell(m, s), s)
<1>1. CASE Owns(m, s)
  BY <1>1 DEF TakeCell
<1>2. CASE ~Owns(m, s)
  <2> DEFINE old == m.tail[s]
             copy == [m.cells EXCEPT ![m.next] = [m.cells[old] EXCEPT !.seqs = {s}]]
             cells == IF old = None THEN m.cells ELSE [copy EXCEPT ![old].seqs = @ \ {s}]
  <2>1. TakeCell(m, s) = [cells |-> cells, tail |-> [m.tail EXCEPT ![s] = m.next],
                          next |-> EmptyFrom(cells, m.next + 1)]
    BY <1>2 DEF TakeCell
  <2>2. m.cells \in [Cells -> Cell] /\ m.tail \in [Seqs -> Cells \cup {None}] /\ m.next \in Cells
    BY DEF Working
  <2>3. \A c \in Cells : m.cells[c] \in Cell
    BY <2>2
  <2>4. ASSUME old # None
        PROVE  /\ old \in Cells
               /\ [m.cells[old] EXCEPT !.seqs = {s}] \in Cell
               /\ \A e \in Cell : [e EXCEPT !.seqs = @ \ {s}] \in Cell
    BY <2>2, <2>3, <2>4 DEF Cell
  <2>5. cells \in [Cells -> Cell]
    <3>1. CASE old = None
      BY <3>1, <2>2
    <3>2. CASE old # None
      <4>1. copy \in [Cells -> Cell]
        <5>1. [m.cells[old] EXCEPT !.seqs = {s}] \in Cell
          BY <2>4, <3>2
        <5>2. QED BY <2>2, <5>1
      <4> HIDE DEF copy
      <4>2. copy[old] \in Cell /\ [copy[old] EXCEPT !.seqs = @ \ {s}] \in Cell
        BY <2>4, <3>2, <4>1
      <4>3. [copy EXCEPT ![old].seqs = @ \ {s}] \in [Cells -> Cell]
        BY <4>1, <4>2
      <4>4. QED BY <3>2, <4>3
    <3>3. QED BY <3>1, <3>2
  <2>6. old = None => cells = m.cells
    OBVIOUS
  <2>7. ASSUME old \notin {None, m.next}
        PROVE  /\ \A c \in Cells \ {m.next, old} : cells[c] = m.cells[c]
               /\ cells[m.next] = [m.cells[old] EXCEPT !.seqs = {s}]
               /\ cells[old] = [m.cells[old] EXCEPT !.seqs = @ \ {s}]
    <3>1. /\ DOMAIN copy = Cells
          /\ \A c \in Cells \ {m.next} : copy[c] = m.cells[c]
          /\ copy[m.next] = [m.cells[old] EXCEPT !.seqs = {s}]
      BY <2>2
    <3>2. cells = [copy EXCEPT ![old].seqs = @ \ {s}]
      BY <2>7
    <3>3. old \in Cells \ {m.next} /\ m.next \in Cells
      BY <2>2, <2>4, <2>7
    <3> HIDE DEF copy, cells, old
    <3>4. cells[old] = [copy[old] EXCEPT !.seqs = @ \ {s}] /\ \A c \in Cells \ {old} : cells[c] = copy[c]
      BY <3>1, <3>2, <3>3
    <3>5. QED BY <3>1, <3>3, <3>4
  <2> HIDE DEF cells
  <2>8. m.next + 1 \in 0..NSeqMax
    BY <2>2, SizeAssumption DEF Cells
  <2>9. EmptyFrom(cells, m.next + 1) \in Cells
    BY <2>5, <2>8, EmptyFromIsNearest
  <2>10. TakeCell(m, s) \in Working
    BY <2>1, <2>2, <2>5, <2>9 DEF Working
  <2>11. QED BY <2>1, <2>6, <2>7, <2>10, <1>2 DEF Taken
<1>3. QED BY <1>1, <1>2

-----------------------------------------------------------------------------
(* The first loop: a cell for each sequence. *)

(* The cells that some sequence is in. *)
Named(m) == {c \in Cells : \E t \in Seqs : m.tail[t] = c}

(* The cells and the tails agree, but for the sequences P that have a cell   *)
(* to themselves: it may not say so yet.                                     *)
Placed(m, P) ==
  /\ \A c \in Cells : \A t \in m.cells[c].seqs : m.tail[t] = c
  /\ \A t \in Seqs : m.tail[t] # None =>
       t \in m.cells[m.tail[t]].seqs \/ (t \in P /\ m.cells[m.tail[t]].seqs = {})
  /\ \A t \in P : m.tail[t] # None /\ m.cells[m.tail[t]].seqs \subseteq {t}
  /\ \A t \in P : \A v \in Seqs : m.tail[v] = m.tail[t] => v = t

(* The search comes to the cells that no sequence has before it comes to the *)
(* empty ones that it has given away.                                        *)
Ahead(m) ==
  Named(m) # Cells =>
    /\ m.next \notin Named(m)
    /\ \A c \in Cells \ Named(m), x \in Named(m) :
         m.cells[x].seqs = {} => Offset(m.next, c) < Offset(m.next, x)

LEMMA CellsAreNats == Cells \in SUBSET Nat
BY SizeAssumption DEF Cells

LEMMA CellsAreFinite == IsFiniteSet(Cells) /\ Cardinality(Cells) = NSeqMax /\ None \notin Cells
BY SizeAssumption, FS_Interval DEF Cells, None

(* There is a cell for a sequence that has none of its own: if every cell    *)
(* had a sequence, every sequence would have a cell to itself.               *)
LEMMA SomeCellIsFree ==
  ASSUME NEW m \in Working, NEW P, Placed(m, P), NEW s \in Seqs, s \notin P, ~Owns(m, s)
  PROVE  Named(m) # Cells
<1> SUFFICES ASSUME Named(m) = Cells PROVE FALSE
  OBVIOUS
<1> DEFINE f == [c \in Cells |-> CHOOSE t \in Seqs : m.tail[t] = c]
<1>1. \A c \in Cells : f[c] \in Cells /\ m.tail[f[c]] = c
  BY DEF Named, Seqs
<1>2. f \in Injection(Cells, Cells)
  <2>1. f \in [Cells -> Cells]
    BY <1>1
  <2>2. \A c, d \in Cells : f[c] = f[d] => c = d
    BY <1>1
  <2> HIDE DEF f
  <2>3. QED BY <2>1, <2>2, Zenon DEF Injection, IsInjective
<1> HIDE DEF f
<1>3. f \in Surjection(Cells, Cells)
  BY <1>2, CellsAreFinite, FS_Injection
<1>4. \A t \in Cells : \E c \in Cells : f[c] = t
  BY <1>3 DEF Surjection
<1>5. PICK c \in Cells : f[c] = s
  BY <1>4 DEF Seqs
<1>6. m.tail[s] = c /\ c # None
  BY <1>1, <1>5, CellsAreFinite
<1>7. s \in m.cells[c].seqs
  BY <1>6 DEF Placed
<1>8. ASSUME NEW t \in m.cells[c].seqs PROVE t = s
  <2>1. m.tail[t] = c /\ t \in Cells
    BY DEF Placed, Working, Cell, Seqs
  <2>2. PICK d \in Cells : f[d] = t
    BY <2>1, <1>4
  <2>3. d = c
    BY <2>1, <2>2, <1>1
  <2>4. QED BY <2>2, <2>3, <1>5
<1>9. m.cells[c].seqs = {s}
  BY <1>7, <1>8
<1>10. QED BY <1>6, <1>9 DEF Owns

(* Distances from the next of two cells and from the one before. *)
LEMMA OffsetsFromNext ==
  ASSUME NEW p \in Cells, NEW q \in Cells, NEW c \in Cells, NEW x \in Cells,
         c # p, Offset(p + 1, q) <= Offset(p + 1, c),
         x = p \/ Offset(p, c) < Offset(p, x)
  PROVE  q # x /\ Offset(q, c) < Offset(q, x)
BY SizeAssumption DEF Cells, Offset

(* The cell that a sequence takes is empty, as find_slot() asserts, and no   *)
(* other sequence has it.  What it leaves has a sequence still, as is        *)
(* asserted too.                                                             *)
LEMMA NextIsFree ==
  ASSUME NEW m \in Working, NEW P, Placed(m, P), Ahead(m),
         NEW s \in Seqs, s \notin P, ~Owns(m, s)
  PROVE  /\ m.next \in Cells /\ m.next \notin Named(m)
         /\ m.cells[m.next].seqs = {}
         /\ \A t \in Seqs : m.tail[t] # m.next
         /\ m.tail[s] # None => /\ m.tail[s] \in Cells
                                /\ s \in m.cells[m.tail[s]].seqs
                                /\ \E t \in m.cells[m.tail[s]].seqs : t # s
<1>1. m.next \in Cells /\ m.next \notin Named(m)
  BY SomeCellIsFree DEF Ahead, Working
<1>2. \A t \in Seqs : m.tail[t] # m.next
  BY <1>1 DEF Named
<1>3. m.cells[m.next].seqs = {}
  <2>1. \A t \in m.cells[m.next].seqs : t \in Seqs /\ m.tail[t] = m.next
    BY <1>1 DEF Placed, Working, Cell
  <2>2. QED BY <1>2, <2>1
<1>4. ASSUME m.tail[s] # None
      PROVE  /\ m.tail[s] \in Cells
             /\ s \in m.cells[m.tail[s]].seqs
             /\ \E t \in m.cells[m.tail[s]].seqs : t # s
  <2>1. m.tail[s] \in Cells
    BY <1>4 DEF Working
  <2>2. s \in m.cells[m.tail[s]].seqs
    BY <1>4 DEF Placed
  <2>3. m.cells[m.tail[s]].seqs # {s}
    BY <1>4 DEF Owns
  <2>4. QED BY <2>1, <2>2, <2>3
<1>5. QED BY <1>1, <1>2, <1>3, <1>4

(* Where the cells and the tails are after a sequence without a cell of its  *)
(* own took the next empty one.                                              *)
Takes(m, a, s) ==
  /\ a \in Working
  /\ \A t \in Seqs : a.tail[t] = IF t = s THEN m.next ELSE m.tail[t]
  /\ \A c \in Cells : a.cells[c].seqs =
       IF c = m.next THEN (IF m.tail[s] = None THEN {} ELSE {s})
       ELSE m.cells[c].seqs \ {s}
  /\ \A c \in Cells \ {m.next} : /\ a.cells[c].pos = m.cells[c].pos
                                 /\ a.cells[c].src = m.cells[c].src
  /\ a.cells[m.next].src = IF m.tail[s] = None THEN m.cells[m.next].src ELSE m.cells[m.tail[s]].src
  /\ a.next = EmptyFrom(a.cells, m.next + 1)

(* It takes the next cell as described. *)
LEMMA TakenCells ==
  ASSUME NEW m \in Working, NEW P, Placed(m, P), Ahead(m),
         NEW s \in Seqs, s \notin P, ~Owns(m, s),
         NEW a, a = TakeCell(m, s)
  PROVE  Takes(m, a, s)
<1>1. a \in Working /\ Taken(m, a, s)
  BY TakeCellIs
<1>2. /\ m.next \in Cells
      /\ m.cells[m.next].seqs = {}
      /\ \A t \in Seqs : m.tail[t] # m.next
      /\ m.tail[s] # None => m.tail[s] \in Cells
  BY NextIsFree, Zenon
<1>3. m.tail \in [Seqs -> Cells \cup {None}] /\ m.cells \in [Cells -> Cell]
  BY DEF Working
<1>4. \A t \in Seqs : a.tail[t] = IF t = s THEN m.next ELSE m.tail[t]
  BY <1>1, <1>3 DEF Taken
<1>5. \A c \in Cells : m.tail[s] # c => s \notin m.cells[c].seqs
  BY DEF Placed
<1>6. CASE m.tail[s] = None
  <2>1. a.cells = m.cells
    BY <1>1, <1>6 DEF Taken
  <2>2. \A c \in Cells : s \notin m.cells[c].seqs
    BY <1>5, <1>6, CellsAreFinite
  <2>3. QED BY <1>1, <1>2, <1>4, <1>6, <2>1, <2>2 DEF Taken, Takes
<1>7. CASE m.tail[s] # None
  <2> DEFINE old == m.tail[s]
  <2>1. old \in Cells /\ old # m.next
    BY <1>2, <1>7
  <2>2. /\ \A c \in Cells \ {m.next, old} : a.cells[c] = m.cells[c]
        /\ a.cells[m.next] = [m.cells[old] EXCEPT !.seqs = {s}]
        /\ a.cells[old] = [m.cells[old] EXCEPT !.seqs = @ \ {s}]
    BY <1>1, <1>7, <2>1 DEF Taken
  <2>3. m.cells[old] \in Cell
    BY <1>3, <2>1
  <2>4. /\ a.cells[m.next].seqs = {s}
        /\ a.cells[old].seqs = m.cells[old].seqs \ {s}
        /\ a.cells[old].pos = m.cells[old].pos
        /\ a.cells[old].src = m.cells[old].src
        /\ a.cells[m.next].src = m.cells[old].src
    BY <2>2, <2>3 DEF Cell
  <2>5. ASSUME NEW c \in Cells
        PROVE  /\ a.cells[c].seqs = IF c = m.next THEN {s} ELSE m.cells[c].seqs \ {s}
               /\ c # m.next => /\ a.cells[c].pos = m.cells[c].pos
                                /\ a.cells[c].src = m.cells[c].src
    <3>1. CASE c = m.next
      BY <3>1, <2>4
    <3>2. CASE c = old
      BY <3>2, <2>1, <2>4
    <3>3. CASE c \notin {m.next, old}
      BY <3>3, <2>2, <1>5
    <3>4. QED BY <3>1, <3>2, <3>3
  <2>6. QED BY <1>1, <1>4, <1>7, <2>4, <2>5 DEF Taken, Takes
<1>8. QED BY <1>6, <1>7

(* A step of the search keeps the cells and the tails in agreement. *)
LEMMA SearchStepPlaced ==
  ASSUME NEW m \in Working, NEW P \in SUBSET Seqs, Placed(m, P), Ahead(m),
         NEW s \in Seqs, s \notin P
  PROVE  Placed(TakeCell(m, s), P \cup {s})
<1> SUFFICES ASSUME NEW a, a = TakeCell(m, s) PROVE Placed(a, P \cup {s})
  OBVIOUS
<1>1. CASE Owns(m, s)
  <2>1. a = m
    BY <1>1, TakeCellIs
  <2>2. m.tail[s] # None /\ m.cells[m.tail[s]].seqs = {s}
    BY <1>1 DEF Owns
  <2>3. ASSUME NEW v \in Seqs, m.tail[v] = m.tail[s] PROVE v = s
    <3>1. v \in m.cells[m.tail[v]].seqs \/ m.cells[m.tail[v]].seqs = {}
      BY <2>2, <2>3 DEF Placed
    <3>2. QED BY <2>2, <2>3, <3>1
  <2>4. \A t \in P \cup {s} : m.tail[t] # None /\ m.cells[m.tail[t]].seqs \subseteq {t}
    BY <2>2 DEF Placed
  <2>5. \A t \in P \cup {s} : \A v \in Seqs : m.tail[v] = m.tail[t] => v = t
    BY <2>3 DEF Placed
  <2>6. QED BY <2>1, <2>4, <2>5 DEF Placed
<1>2. CASE ~Owns(m, s)
  <2> DEFINE n == m.next
  <2>1. /\ n \in Cells
        /\ m.cells[n].seqs = {}
        /\ \A t \in Seqs : m.tail[t] # n
    BY <1>2, NextIsFree
  <2>2. /\ \A t \in Seqs : a.tail[t] = IF t = s THEN n ELSE m.tail[t]
        /\ \A c \in Cells : a.cells[c].seqs =
              IF c = n THEN (IF m.tail[s] = None THEN {} ELSE {s})
              ELSE m.cells[c].seqs \ {s}
    <3>1. Takes(m, a, s)
      BY <1>2, TakenCells
    <3>2. QED BY <3>1 DEF Takes
  <2>3. \A t \in Seqs : m.tail[t] \in Cells \cup {None}
    BY DEF Working
  <2>4. \A c \in Cells : m.cells[c].seqs \subseteq Seqs
    BY DEF Working, Cell
  <2> HIDE DEF n
  <2>5. ASSUME NEW c \in Cells, NEW t \in a.cells[c].seqs PROVE a.tail[t] = c
    <3>1. CASE c = n
      BY <3>1, <2>2
    <3>2. CASE c # n
      <4>0. a.cells[c].seqs = m.cells[c].seqs \ {s}
        BY <3>2, <2>2
      <4>1. t \in m.cells[c].seqs /\ t # s
        BY <4>0
      <4>2. t \in Seqs /\ m.tail[t] = c
        BY <4>1, <2>4 DEF Placed
      <4>3. QED BY <4>1, <4>2, <2>2
    <3>3. QED BY <3>1, <3>2
  <2>6. ASSUME NEW t \in Seqs, a.tail[t] # None
        PROVE  \/ t \in a.cells[a.tail[t]].seqs
               \/ t \in P \cup {s} /\ a.cells[a.tail[t]].seqs = {}
    <3>1. CASE t = s
      BY <3>1, <2>1, <2>2
    <3>2. CASE t # s
      <4>1. a.tail[t] = m.tail[t] /\ m.tail[t] \in Cells /\ m.tail[t] # n
        BY <3>2, <2>1, <2>2, <2>3, <2>6
      <4>2. a.cells[m.tail[t]].seqs = m.cells[m.tail[t]].seqs \ {s}
        BY <4>1, <2>2
      <4>3. t \in m.cells[m.tail[t]].seqs \/ (t \in P /\ m.cells[m.tail[t]].seqs = {})
        BY <4>1, <2>6 DEF Placed
      <4>4. QED BY <3>2, <4>1, <4>2, <4>3
    <3>3. QED BY <3>1, <3>2
  <2>7. ASSUME NEW t \in P \cup {s}
        PROVE  a.tail[t] # None /\ a.cells[a.tail[t]].seqs \subseteq {t}
    <3>1. CASE t = s
      BY <3>1, <2>1, <2>2, CellsAreFinite
    <3>2. CASE t # s
      <4>1. t \in P /\ t \in Seqs /\ m.tail[t] # None /\ m.cells[m.tail[t]].seqs \subseteq {t}
        BY <3>2 DEF Placed
      <4>2. a.tail[t] = m.tail[t] /\ m.tail[t] \in Cells /\ m.tail[t] # n
        BY <3>2, <4>1, <2>1, <2>2, <2>3
      <4>3. a.cells[m.tail[t]].seqs = m.cells[m.tail[t]].seqs \ {s}
        BY <4>2, <2>2
      <4>4. QED BY <4>1, <4>2, <4>3
    <3>3. QED BY <3>1, <3>2
  <2>8. ASSUME NEW t \in P \cup {s}, NEW v \in Seqs, a.tail[v] = a.tail[t] PROVE v = t
    <3>1. CASE t = s
      BY <3>1, <2>1, <2>2, <2>8
    <3>2. CASE t # s
      <4>1. t \in P /\ t \in Seqs
        BY <3>2
      <4>2. v # s
        BY <3>2, <4>1, <2>1, <2>2, <2>8
      <4>3. m.tail[v] = m.tail[t]
        BY <3>2, <4>1, <4>2, <2>2, <2>8
      <4>4. QED BY <4>1, <4>3 DEF Placed
    <3>3. QED BY <3>1, <3>2
  <2>9. Placed(a, P \cup {s})
    BY <2>5, <2>6, <2>7, <2>8 DEF Placed
  <2>10. QED BY <2>9
<1>3. QED BY <1>1, <1>2

(* It keeps the cursor ahead of the cells that were given away. *)
LEMMA SearchStepAhead ==
  ASSUME NEW m \in Working, NEW P \in SUBSET Seqs, Placed(m, P), Ahead(m),
         NEW s \in Seqs, s \notin P
  PROVE  Ahead(TakeCell(m, s))
<1> SUFFICES ASSUME NEW a, a = TakeCell(m, s) PROVE Ahead(a)
  OBVIOUS
<1>1. CASE Owns(m, s)
  BY <1>1, TakeCellIs
<1>2. CASE ~Owns(m, s)
  <2> DEFINE n == m.next
  <2>1. /\ n \in Cells /\ n \notin Named(m)
        /\ \A t \in Seqs : m.tail[t] # n
        /\ m.tail[s] # None => /\ m.tail[s] \in Cells
                               /\ s \in m.cells[m.tail[s]].seqs
                               /\ \E t \in m.cells[m.tail[s]].seqs : t # s
    BY <1>2, NextIsFree
  <2>2. /\ a \in Working
        /\ \A t \in Seqs : a.tail[t] = IF t = s THEN n ELSE m.tail[t]
        /\ \A c \in Cells : a.cells[c].seqs =
              IF c = n THEN (IF m.tail[s] = None THEN {} ELSE {s})
              ELSE m.cells[c].seqs \ {s}
        /\ a.next = EmptyFrom(a.cells, n + 1)
    <3>1. Takes(m, a, s)
      BY <1>2, TakenCells
    <3>2. QED BY <3>1 DEF Takes
  <2>3. n + 1 \in 0..NSeqMax /\ a.cells \in [Cells -> Cell]
    BY <2>1, <2>2, SizeAssumption DEF Cells, Working
  <2> HIDE DEF n
  <2>4. /\ a.next \in Cells
        /\ \A c \in Cells : a.cells[c].seqs = {} =>
             a.cells[a.next].seqs = {} /\ Offset(n + 1, a.next) <= Offset(n + 1, c)
    <3> DEFINE e == EmptyFrom(a.cells, n + 1)
    <3>1. /\ e \in Cells
          /\ \A c \in Cells : a.cells[c].seqs = {} =>
               a.cells[e].seqs = {} /\ Offset(n + 1, e) <= Offset(n + 1, c)
      BY <2>3, EmptyFromIsNearest
    <3>2. a.next = e
      BY <2>2
    <3> HIDE DEF e
    <3>3. QED BY <3>1, <3>2
  <2>5. \A c \in Cells : \A t \in m.cells[c].seqs : t \in Seqs /\ m.tail[t] = c
    BY DEF Placed, Working, Cell
  <2>6. ASSUME NEW c \in Cells, c \notin Named(a)
        PROVE  c \notin Named(m) /\ c # n /\ a.cells[c].seqs = {}
    <3>1. c # n
      BY <2>2, <2>6 DEF Named
    <3>2. ASSUME c \in Named(m) PROVE FALSE
      <4>1. PICK t \in Seqs : m.tail[t] = c
        BY <3>2 DEF Named
      <4>2. CASE t # s
        BY <4>1, <4>2, <2>2, <2>6 DEF Named
      <4>3. CASE t = s
        <5>1. PICK v \in m.cells[c].seqs : v # s
          BY <4>1, <4>3, <2>1, CellsAreFinite
        <5>2. v \in Seqs /\ a.tail[v] = c
          BY <5>1, <2>2, <2>5
        <5>3. QED BY <5>2, <2>6 DEF Named
      <4>4. QED BY <4>2, <4>3
    <3>3. m.cells[c].seqs = {}
      BY <3>2, <2>5 DEF Named
    <3>4. QED BY <3>1, <3>2, <3>3, <2>2
  <2>7. ASSUME NEW x \in Named(a), a.cells[x].seqs = {}
        PROVE  x \in Cells /\ (x = n \/ (x \in Named(m) /\ m.cells[x].seqs = {}))
    <3>1. x \in Cells
      BY DEF Named
    <3>2. PICK t \in Seqs : a.tail[t] = x
      BY DEF Named
    <3>3. CASE x = n
      BY <3>1, <3>3
    <3>4. CASE x # n
      <4>1. m.tail[t] = x
        BY <3>2, <3>4, <2>2
      <4>2. x \in Named(m)
        BY <3>1, <4>1 DEF Named
      <4>3. m.cells[x].seqs \ {s} = {}
        BY <3>1, <3>4, <2>2, <2>7
      <4>4. s \notin m.cells[x].seqs
        <5> SUFFICES ASSUME s \in m.cells[x].seqs PROVE FALSE
          OBVIOUS
        <5>1. m.tail[s] = x
          BY <3>1, <2>5
        <5>2. \E v \in m.cells[x].seqs : v # s
          BY <5>1, <3>1, <2>1, CellsAreFinite
        <5>3. QED BY <5>2, <4>3
      <4>5. QED BY <3>1, <4>2, <4>3, <4>4
    <3>5. QED BY <3>3, <3>4
  <2>8. ASSUME NEW c \in Cells, c \notin Named(a), NEW x \in Named(a), a.cells[x].seqs = {}
        PROVE  a.next # x /\ Offset(a.next, c) < Offset(a.next, x)
    <3>1. c \notin Named(m) /\ c # n /\ a.cells[c].seqs = {}
      BY <2>6, <2>8
    <3>2. x \in Cells /\ (x = n \/ (x \in Named(m) /\ m.cells[x].seqs = {}))
      BY <2>7, <2>8
    <3>3. x \in Named(m) /\ m.cells[x].seqs = {} => Offset(n, c) < Offset(n, x)
      BY <3>1, Zenon DEF Ahead, n
    <3>4. Offset(n + 1, a.next) <= Offset(n + 1, c)
      BY <3>1, <2>4
    <3>5. x = n \/ Offset(n, c) < Offset(n, x)
      BY <3>2, <3>3
    <3>6. QED BY <2>1, <2>4, <3>1, <3>2, <3>4, <3>5, OffsetsFromNext
  <2>9. ASSUME NEW c \in Cells, c \notin Named(a) PROVE a.next \notin Named(a)
    <3>1. a.cells[a.next].seqs = {}
      BY <2>4, <2>6, <2>9
    <3>2. QED BY <2>8, <2>9, <3>1
  <2>10. Ahead(a)
    <3>1. Named(a) \subseteq Cells
      BY DEF Named
    <3>2. Named(a) # Cells => \E c \in Cells : c \notin Named(a)
      BY <3>1
    <3>3. QED BY <2>8, <2>9, <3>2 DEF Ahead
  <2>11. QED BY <2>10
<1>3. QED BY <1>1, <1>2

(* The sequences outside U, and the cells that no sequence of P took, are as *)
(* they were in o.                                                           *)
Others(a, o, U) ==
  \A t \in Seqs \ U :
    /\ a.tail[t] = None <=> o.tail[t] = None
    /\ a.tail[t] # None => a.cells[a.tail[t]].pos = o.cells[o.tail[t]].pos
    /\ \A v \in Seqs \ U : a.tail[t] # None /\ a.tail[v] = a.tail[t] => o.tail[v] = o.tail[t]

Untaken(a, o, P) ==
  \A c \in Cells :
    \/ \E t \in P : a.tail[t] = c
    \/ a.cells[c].src = o.cells[c].src /\ a.cells[c].seqs \subseteq o.cells[c].seqs

(* It leaves the other sequences, and the cells not taken, alone. *)
LEMMA SearchStepOthers ==
  ASSUME NEW m \in Working, NEW P \in SUBSET Seqs, Placed(m, P), Ahead(m),
         NEW U \in SUBSET Seqs, P \subseteq U, NEW s \in U, s \notin P,
         NEW o, Others(m, o, U), Untaken(m, o, P)
  PROVE  Others(TakeCell(m, s), o, U) /\ Untaken(TakeCell(m, s), o, P \cup {s})
<1> SUFFICES ASSUME NEW a, a = TakeCell(m, s)
             PROVE  Others(a, o, U) /\ Untaken(a, o, P \cup {s})
  OBVIOUS
<1>1. CASE Owns(m, s)
  <2>1. a = m
    BY <1>1, TakeCellIs
  <2>2. QED BY <2>1 DEF Untaken
<1>2. CASE ~Owns(m, s)
  <2> DEFINE n == m.next
  <2>1. /\ n \in Cells
        /\ \A t \in Seqs : m.tail[t] # n
    BY <1>2, NextIsFree
  <2>2. Takes(m, a, s)
    BY <1>2, TakenCells
  <2>3. /\ \A t \in Seqs : a.tail[t] = IF t = s THEN n ELSE m.tail[t]
        /\ \A c \in Cells : c # n => /\ a.cells[c].seqs = m.cells[c].seqs \ {s}
                                     /\ a.cells[c].pos = m.cells[c].pos
                                     /\ a.cells[c].src = m.cells[c].src
    BY <2>2 DEF Takes
  <2>4. \A t \in Seqs : m.tail[t] \in Cells \cup {None}
    BY DEF Working
  <2> HIDE DEF n
  <2>5. ASSUME NEW t \in Seqs \ U
        PROVE  /\ a.tail[t] = m.tail[t]
               /\ a.tail[t] # None => a.cells[a.tail[t]].pos = m.cells[m.tail[t]].pos
    <3>1. a.tail[t] = m.tail[t]
      BY <2>3
    <3>2. m.tail[t] # None => m.tail[t] \in Cells /\ m.tail[t] # n
      BY <2>1, <2>4
    <3>3. QED BY <3>1, <3>2, <2>3
  <2>6. Others(a, o, U)
    BY <2>5 DEF Others
  <2>7. ASSUME NEW c \in Cells
        PROVE  \/ \E t \in P \cup {s} : a.tail[t] = c
               \/ a.cells[c].src = o.cells[c].src /\ a.cells[c].seqs \subseteq o.cells[c].seqs
    <3>1. CASE c = n
      BY <3>1, <2>3
    <3>2. CASE c # n
      <4>1. CASE \E t \in P : m.tail[t] = c
        BY <4>1, <2>3
      <4>2. CASE m.cells[c].src = o.cells[c].src /\ m.cells[c].seqs \subseteq o.cells[c].seqs
        BY <4>2, <3>2, <2>3
      <4>3. QED BY <4>1, <4>2 DEF Untaken
    <3>3. QED BY <3>1, <3>2
  <2>8. QED BY <2>6, <2>7 DEF Untaken
<1>3. QED BY <1>1, <1>2

(* Between two decodes a cell is its own source. *)
OwnSources(m) ==
  \A c \in Cells : /\ m.cells[c].src \in {None, c}
                   /\ m.cells[c].seqs # {} => m.cells[c].src = c

(* The cells without a sequence that have been in the range of a graph.      *)
Blank(m) == {c \in Cells : m.cells[c].seqs = {} /\ m.cells[c].src = c}

(* The cell that each state is read from is the one that its sequence had in *)
(* o; or none, or a blank one, if it had none.                               *)
Sources(a, o) ==
  /\ \A t \in Seqs : a.tail[t] # None =>
       a.cells[a.tail[t]].src \in IF o.tail[t] # None THEN {o.tail[t]} ELSE Blank(o) \cup {None}
  /\ \A c \in Cells : (\A t \in Seqs : a.tail[t] # c) => a.cells[c].src \in Blank(o) \cup {None}

(* So it is while the search goes on, and the sequences not in P are where   *)
(* they were.                                                                *)
Traced(a, o, P) == Sources(a, o) /\ \A t \in Seqs \ P : a.tail[t] = o.tail[t]

LEMMA SearchStepTraced ==
  ASSUME NEW m \in Working, NEW P \in SUBSET Seqs, Placed(m, P), Ahead(m),
         NEW s \in Seqs, s \notin P, NEW o, Traced(m, o, P)
  PROVE  Traced(TakeCell(m, s), o, P \cup {s})
<1> SUFFICES ASSUME NEW a, a = TakeCell(m, s) PROVE Traced(a, o, P \cup {s})
  OBVIOUS
<1>1. CASE Owns(m, s)
  <2>1. a = m
    BY <1>1, TakeCellIs
  <2>2. QED BY <2>1 DEF Traced
<1>2. CASE ~Owns(m, s)
  <2> DEFINE n == m.next
             old == m.tail[s]
  <2>1. /\ n \in Cells /\ \A t \in Seqs : m.tail[t] # n
        /\ old # None => \E t \in m.cells[old].seqs : t # s
    BY <1>2, NextIsFree
  <2>2. Takes(m, a, s)
    BY <1>2, TakenCells
  <2>3. /\ \A t \in Seqs : a.tail[t] = IF t = s THEN n ELSE m.tail[t]
        /\ \A c \in Cells : c # n => a.cells[c].src = m.cells[c].src
        /\ a.cells[n].src = IF old = None THEN m.cells[n].src ELSE m.cells[old].src
    BY <2>2 DEF Takes
  <2>4. old = o.tail[s] /\ \A t \in Seqs : m.tail[t] \in Cells \cup {None}
    BY DEF Working, Traced
  <2> HIDE DEF n
  <2>5. ASSUME NEW t \in Seqs, a.tail[t] # None
        PROVE  a.cells[a.tail[t]].src \in IF o.tail[t] # None THEN {o.tail[t]} ELSE Blank(o) \cup {None}
    <3>1. CASE t = s
      <4>1. a.tail[t] = n
        BY <3>1, <2>3
      <4>2. old = None => m.cells[n].src \in Blank(o) \cup {None}
        BY <2>1 DEF Traced, Sources
      <4>3. old # None => m.cells[old].src = old
        BY <2>4 DEF Traced, Sources
      <4>4. QED BY <3>1, <4>1, <4>2, <4>3, <2>3, <2>4
    <3>2. CASE t # s
      <4>1. a.tail[t] = m.tail[t] /\ m.tail[t] \in Cells /\ m.tail[t] # n
        BY <3>2, <2>1, <2>3, <2>4, <2>5
      <4>2. m.tail[t] # None /\ a.cells[a.tail[t]].src = m.cells[m.tail[t]].src
        BY <4>1, <2>3, <2>5
      <4>3. m.cells[m.tail[t]].src \in IF o.tail[t] # None THEN {o.tail[t]} ELSE Blank(o) \cup {None}
        BY <4>2 DEF Traced, Sources
      <4>4. QED BY <4>2, <4>3
    <3>3. QED BY <3>1, <3>2
  <2>6. ASSUME NEW c \in Cells, \A t \in Seqs : a.tail[t] # c
        PROVE  a.cells[c].src \in Blank(o) \cup {None}
    <3>1. c # n
      BY <2>3, <2>6
    <3>2. \A t \in Seqs : m.tail[t] # c
      <4> SUFFICES ASSUME NEW t \in Seqs, m.tail[t] = c PROVE FALSE
        OBVIOUS
      <4>1. t = s /\ old = c /\ c # None
        BY <2>3, <2>6, CellsAreFinite
      <4>2. PICK v \in m.cells[c].seqs : v # s
        BY <4>1, <2>1
      <4>3. v \in Seqs /\ m.tail[v] = c
        BY DEF Placed, Working, Cell
      <4>4. QED BY <4>2, <4>3, <2>3, <2>6
    <3>3. QED BY <3>1, <3>2, <2>3 DEF Traced, Sources
  <2>7. \A t \in Seqs \ (P \cup {s}) : a.tail[t] = o.tail[t]
    BY <2>3 DEF Traced
  <2>8. QED BY <2>5, <2>6, <2>7 DEF Traced, Sources
<1>3. QED BY <1>1, <1>2

(* What the search promises for the sequences P of U, and that it may go on. *)
Searched(a, o, U, P) ==
  /\ a \in Working /\ Placed(a, P) /\ Ahead(a)
  /\ Others(a, o, U) /\ Untaken(a, o, P) /\ Traced(a, o, P)

(* The sequences of a micro-batch, and that none is in it twice. *)
Elements(u) == {u[i] : i \in 1..Len(u)}
Distinct(u) == \A i, j \in 1..Len(u) : u[i] = u[j] => i = j

(* Before the first step of the search. *)
LEMMA SearchStarts ==
  ASSUME NEW m \in Memory, Placed(m, {}), OwnSources(m), NEW U, NEW from \in 0..NSeqMax
  PROVE  Searched([cells |-> m.cells, tail |-> m.tail, next |-> EmptyFrom(m.cells, from)], m, U, {})
<1> SUFFICES ASSUME NEW a, a = [cells |-> m.cells, tail |-> m.tail, next |-> EmptyFrom(m.cells, from)]
             PROVE  Searched(a, m, U, {})
  OBVIOUS
<1>1. m.cells \in [Cells -> Cell] /\ m.tail \in [Seqs -> Cells \cup {None}]
  BY DEF Memory
<1> DEFINE e == EmptyFrom(m.cells, from)
<1>2. e \in Cells /\ \A c \in Cells : m.cells[c].seqs = {} => m.cells[e].seqs = {}
  BY <1>1, EmptyFromIsNearest
<1>3. a.cells = m.cells /\ a.tail = m.tail /\ a.next = e
  OBVIOUS
<1> HIDE DEF e
<1>4. a \in Working
  BY <1>1, <1>2, <1>3 DEF Working
<1>5. Placed(a, {})
  BY <1>3 DEF Placed
<1>6. \A x \in Named(a) : a.cells[x].seqs # {}
  <2> SUFFICES ASSUME NEW x \in Named(a) PROVE a.cells[x].seqs # {}
    OBVIOUS
  <2>1. PICK t \in Seqs : a.tail[t] = x /\ x # None
    BY CellsAreFinite DEF Named
  <2>2. QED BY <1>5, <2>1 DEF Placed
<1>7. ASSUME Named(a) # Cells PROVE a.next \notin Named(a)
  <2>1. PICK c \in Cells : c \notin Named(a)
    BY <1>7 DEF Named
  <2>2. \A t \in a.cells[c].seqs : t \in Seqs /\ a.tail[t] = c
    BY <1>4, <1>5 DEF Placed, Working, Cell
  <2>3. a.cells[c].seqs = {}
    BY <2>1, <2>2 DEF Named
  <2>4. a.cells[a.next].seqs = {}
    BY <1>2, <1>3, <2>3
  <2>5. QED BY <2>4, <1>6
<1>8. Ahead(a)
  BY <1>6, <1>7 DEF Ahead
<1>9. Others(a, m, U) /\ Untaken(a, m, {})
  BY <1>3 DEF Others, Untaken
<1>10. Traced(a, m, {})
  <2>1. ASSUME NEW t \in Seqs, m.tail[t] # None PROVE m.cells[m.tail[t]].src = m.tail[t]
    <3>1. m.tail[t] \in Cells
      BY <1>1, <2>1
    <3>2. QED BY <2>1, <3>1 DEF Placed, OwnSources
  <2>2. ASSUME NEW c \in Cells, \A t \in Seqs : m.tail[t] # c
        PROVE  m.cells[c].src \in Blank(m) \cup {None}
    <3>1. m.cells[c].seqs \in SUBSET Seqs
      BY <1>1 DEF Cell
    <3>2. m.cells[c].seqs = {}
      BY <2>2, <3>1 DEF Placed
    <3>3. QED BY <3>2 DEF Blank, OwnSources
  <2>3. QED BY <1>3, <2>1, <2>2 DEF Traced, Sources
<1>11. QED BY <1>4, <1>5, <1>8, <1>9, <1>10 DEF Searched

(* After its last step: each sequence of u has a cell to itself. *)
LEMMA SearchResult ==
  ASSUME NEW m \in Memory, Placed(m, {}), OwnSources(m), NEW u \in Seq(Seqs), Distinct(u)
  PROVE  Searched(Search(m, u), m, Elements(u), Elements(u))
<1> DEFINE n == Len(u)
           start == IF m.head > m.used + 2 * Len(u) THEN 0 ELSE m.head
           a == [cells |-> m.cells, tail |-> m.tail, next |-> EmptyFrom(m.cells, start)]
           IsLoop(g) == g = [k \in 0..n |-> IF k = 0 THEN a ELSE TakeCell(g[k - 1], u[k])]
           after == CHOOSE g : IsLoop(g)
           done(k) == {u[i] : i \in 1..k}
           U == Elements(u)
<1>1. n \in Nat /\ \A k \in 1..n : u[k] \in Seqs
  OBVIOUS
<1>2. Search(m, u) = after[n]
  BY DEF Search
<1>3. start \in 0..NSeqMax
  BY SizeAssumption DEF Memory, Cells
<1>4. Searched(a, m, U, {})
  BY <1>3, SearchStarts
<1>5. a \in Working
  BY <1>4 DEF Searched
<1>6. U \in SUBSET Seqs
  BY <1>1 DEF Elements
<1> HIDE DEF a, U, n
<1>7. \E g \in [0..n -> Working] : IsLoop(g)
  <2> DEFINE h == [k \in 1..n |-> [d \in Working |-> TakeCell(d, u[k])]]
  <2>1. h \in [1..n -> [Working -> Working]]
    BY <1>1, TakeCellIs
  <2>2. PICK g \in [0..n -> Working] : Runs(g, n, a, h)
    <3> HIDE DEF h
    <3>1. QED BY <2>1, <1>1, <1>5, Loop
  <2>3. \A k \in 1..n : k - 1 \in 0..n /\ h[k][g[k - 1]] = TakeCell(g[k - 1], u[k])
    BY <1>1
  <2>4. \A k \in 0..n : k # 0 => k \in 1..n
    BY <1>1
  <2> HIDE DEF h
  <2>5. \A k \in 0..n : g[k] = IF k = 0 THEN a ELSE TakeCell(g[k - 1], u[k])
    BY <2>2, <2>3, <2>4 DEF Runs
  <2>6. IsLoop(g)
    BY <2>5
  <2> HIDE DEF IsLoop
  <2>7. QED BY <2>6
<1>8. IsLoop(after)
  <2> HIDE DEF IsLoop
  <2>1. QED BY <1>7, Zenon
<1> HIDE DEF after
<1>9. after[0] = a /\ \A k \in 1..n : after[k] = TakeCell(after[k - 1], u[k])
  BY <1>1, <1>8
<1> HIDE DEF IsLoop
<1> DEFINE S == {k \in 0..n : Searched(after[k], m, U, done(k))}
<1>10. 0 \in S
  <2>1. done(0) = {}
    OBVIOUS
  <2> HIDE DEF done
  <2>2. Searched(after[0], m, U, done(0))
    BY <2>1, <1>4, <1>9
  <2>3. QED BY <2>2, <1>1
<1>11. ASSUME NEW k \in 1..n, k - 1 \in S PROVE k \in S
  <2>1. done(k) = done(k - 1) \cup {u[k]} /\ done(k - 1) \subseteq U /\ u[k] \in U
    BY <1>1 DEF U, Elements, n
  <2>2. u[k] \notin done(k - 1)
    BY <1>1 DEF Distinct, n
  <2>3. Searched(after[k - 1], m, U, done(k - 1))
    BY <1>11
  <2> HIDE DEF done
  <2>4. after[k] = TakeCell(after[k - 1], u[k])
    BY <1>9
  <2> DEFINE b == after[k - 1]
             P == done(k - 1)
             s == u[k]
  <2>5. /\ b \in Working /\ Placed(b, P) /\ Ahead(b) /\ Others(b, m, U) /\ Untaken(b, m, P)
        /\ Traced(b, m, P) /\ P \in SUBSET Seqs /\ s \in Seqs
    BY <2>1, <2>3, <1>6 DEF Searched
  <2> HIDE DEF b, P, s
  <2>6. /\ TakeCell(b, s) \in Working
        /\ Placed(TakeCell(b, s), P \cup {s})
        /\ Ahead(TakeCell(b, s))
        /\ Others(TakeCell(b, s), m, U) /\ Untaken(TakeCell(b, s), m, P \cup {s})
        /\ Traced(TakeCell(b, s), m, P \cup {s})
    <3>1. s \notin P /\ s \in U /\ P \subseteq U
      BY <2>1, <2>2 DEF P, s
    <3>2. TakeCell(b, s) \in Working
      BY <2>5, TakeCellIs
    <3>3. Placed(TakeCell(b, s), P \cup {s})
      BY <2>5, <3>1, SearchStepPlaced
    <3>4. Ahead(TakeCell(b, s))
      BY <2>5, <3>1, SearchStepAhead
    <3>5. Others(TakeCell(b, s), m, U) /\ Untaken(TakeCell(b, s), m, P \cup {s})
      BY <2>5, <3>1, <1>6, SearchStepOthers
    <3>6. Traced(TakeCell(b, s), m, P \cup {s})
      BY <2>5, <3>1, SearchStepTraced
    <3>7. QED BY <3>2, <3>3, <3>4, <3>5, <3>6
  <2>7. Searched(after[k], m, U, done(k))
    BY <2>1, <2>4, <2>6 DEF Searched, b, P, s
  <2>8. QED BY <2>7
<1>12. n \in S
  <2> HIDE DEF S
  <2>1. 0..n \subseteq S
    BY <1>1, <1>10, <1>11, LoopInduction
  <2>2. QED BY <2>1, <1>1
<1>13. done(n) = U
  BY DEF U, Elements, n
<1>14. QED
  <2>1. Searched(after[n], m, U, U)
    BY <1>12, <1>13
  <2>2. QED BY <1>2, <2>1 DEF U, n

-----------------------------------------------------------------------------
(* The second loop: the cells change places. *)

(* Where the cell c is after i and j have changed places. *)
Turn(c, i, j) == IF c = i THEN j ELSE IF c = j THEN i ELSE c

(* b is a with the cells i and j in each other's place. *)
Swapped(a, b, i, j) ==
  /\ b \in Working
  /\ \A c \in Cells : b.cells[c] = a.cells[Turn(c, i, j)]
  /\ \A s \in Seqs : b.tail[s] = Turn(a.tail[s], i, j)

(* That is what Swap does. *)
LEMMA SwapIs ==
  ASSUME NEW a \in Working, NEW i \in Cells, NEW j \in Cells
  PROVE  Swapped(a, Swap(a, i, j), i, j)
<1> DEFINE cells == [a.cells EXCEPT ![i] = a.cells[j], ![j] = a.cells[i]]
           tail == [s \in Seqs |-> CASE a.tail[s] = i -> j [] a.tail[s] = j -> i [] OTHER -> a.tail[s]]
<1>1. a.cells \in [Cells -> Cell] /\ a.tail \in [Seqs -> Cells \cup {None}] /\ a.next \in Cells
  BY DEF Working
<1>2. Swap(a, i, j) = [a EXCEPT !.cells = cells, !.tail = tail]
  BY DEF Swap
<1>3. \A c \in Cells : cells[c] = a.cells[Turn(c, i, j)]
  BY <1>1 DEF Turn
<1>4. \A s \in Seqs : tail[s] = Turn(a.tail[s], i, j)
  BY DEF Turn
<1>5. cells \in [Cells -> Cell]
  BY <1>1
<1>6. \A s \in Seqs : tail[s] \in Cells \cup {None}
  BY <1>1, <1>4 DEF Turn
<1>7. tail \in [Seqs -> Cells \cup {None}]
  BY <1>6
<1> HIDE DEF cells, tail
<1>8. /\ Swap(a, i, j).cells = cells
      /\ Swap(a, i, j).tail = tail
      /\ Swap(a, i, j) \in Working
  BY <1>1, <1>2, <1>5, <1>7 DEF Working
<1>9. QED BY <1>3, <1>4, <1>8 DEF Swapped

(* Changing places is its own inverse, so no two cells end in one place. *)
LEMMA TurnTwice ==
  ASSUME NEW i, NEW j
  PROVE  /\ \A c : Turn(Turn(c, i, j), i, j) = c
         /\ \A c, d : Turn(c, i, j) = Turn(d, i, j) => c = d
         /\ \A c : i \in Cells /\ j \in Cells => (Turn(c, i, j) \in Cells <=> c \in Cells)
         /\ i \in Cells /\ j \in Cells => \A c : Turn(c, i, j) = None <=> c = None
BY CellsAreFinite DEF Turn

(* Cells and tails agree after a swap if they did before. *)
LEMMA SwapKeepsPlaced ==
  ASSUME NEW a \in Working, NEW i \in Cells, NEW j \in Cells,
         NEW U \in SUBSET Seqs, Placed(a, U), NEW b, Swapped(a, b, i, j)
  PROVE  Placed(b, U)
<1>1. /\ \A c \in Cells : Turn(c, i, j) \in Cells
      /\ \A c : Turn(c, i, j) = None <=> c = None
      /\ \A c : Turn(Turn(c, i, j), i, j) = c
      /\ \A c, d : Turn(c, i, j) = Turn(d, i, j) => c = d
  BY TurnTwice
<1>2. /\ \A c \in Cells : b.cells[c] = a.cells[Turn(c, i, j)]
      /\ \A s \in Seqs : b.tail[s] = Turn(a.tail[s], i, j)
  BY DEF Swapped
<1>3. \A s \in Seqs : a.tail[s] \in Cells \cup {None}
  BY DEF Working
<1>4. \A s \in Seqs : a.tail[s] # None => b.cells[b.tail[s]] = a.cells[a.tail[s]]
  <2> SUFFICES ASSUME NEW s \in Seqs, a.tail[s] # None
               PROVE  b.cells[b.tail[s]] = a.cells[a.tail[s]]
    OBVIOUS
  <2>1. Turn(a.tail[s], i, j) \in Cells
    BY <1>1, <1>3
  <2>2. b.cells[Turn(a.tail[s], i, j)] = a.cells[Turn(Turn(a.tail[s], i, j), i, j)]
    BY <1>2, <2>1
  <2>3. Turn(Turn(a.tail[s], i, j), i, j) = a.tail[s]
    BY <1>1, Zenon
  <2>4. QED BY <1>2, <2>2, <2>3
<1>5. ASSUME NEW c \in Cells, NEW t \in b.cells[c].seqs PROVE b.tail[t] = c
  <2>1. t \in a.cells[Turn(c, i, j)].seqs /\ Turn(c, i, j) \in Cells
    BY <1>1, <1>2
  <2>2. t \in Seqs /\ a.tail[t] = Turn(c, i, j)
    BY <2>1 DEF Placed, Working, Cell
  <2>3. b.tail[t] = Turn(Turn(c, i, j), i, j)
    BY <1>2, <2>2
  <2>4. QED BY <1>1, <2>3, Zenon
<1>6. \A s \in Seqs : b.tail[s] = None <=> a.tail[s] = None
  BY <1>1, <1>2, Zenon
<1>7. \A t \in Seqs : b.tail[t] # None =>
        t \in b.cells[b.tail[t]].seqs \/ (t \in U /\ b.cells[b.tail[t]].seqs = {})
  BY <1>4, <1>6 DEF Placed
<1>8. \A t \in U : b.tail[t] # None /\ b.cells[b.tail[t]].seqs \subseteq {t}
  BY <1>4, <1>6 DEF Placed
<1>9. ASSUME NEW t \in U, NEW v \in Seqs, b.tail[v] = b.tail[t] PROVE v = t
  <2>1. t \in Seqs /\ Turn(a.tail[v], i, j) = Turn(a.tail[t], i, j)
    BY <1>2, <1>9
  <2>2. a.tail[v] = a.tail[t]
    BY <1>1, <2>1, Zenon
  <2>3. QED BY <2>2 DEF Placed
<1>10. QED BY <1>5, <1>7, <1>8, <1>9 DEF Placed

(* No sequence has another cell's contents after a swap. *)
LEMMA SwapKeepsOthers ==
  ASSUME NEW a \in Working, NEW i \in Cells, NEW j \in Cells,
         NEW U, NEW o, Others(a, o, U), NEW b, Swapped(a, b, i, j)
  PROVE  Others(b, o, U)
<1>1. /\ \A c \in Cells : Turn(c, i, j) \in Cells
      /\ \A c : Turn(c, i, j) = None <=> c = None
      /\ \A c : Turn(Turn(c, i, j), i, j) = c
      /\ \A c, d : Turn(c, i, j) = Turn(d, i, j) => c = d
  BY TurnTwice
<1>2. /\ \A c \in Cells : b.cells[c] = a.cells[Turn(c, i, j)]
      /\ \A s \in Seqs : b.tail[s] = Turn(a.tail[s], i, j)
  BY DEF Swapped
<1>3. \A s \in Seqs : a.tail[s] \in Cells \cup {None}
  BY DEF Working
<1>4. \A s \in Seqs : b.tail[s] = None <=> a.tail[s] = None
  BY <1>1, <1>2, Zenon
<1>5. ASSUME NEW t \in Seqs, a.tail[t] # None
      PROVE  b.cells[b.tail[t]] = a.cells[a.tail[t]]
  <2>1. Turn(a.tail[t], i, j) \in Cells
    BY <1>1, <1>3, <1>5
  <2>2. b.cells[Turn(a.tail[t], i, j)] = a.cells[Turn(Turn(a.tail[t], i, j), i, j)]
    BY <1>2, <2>1
  <2>3. Turn(Turn(a.tail[t], i, j), i, j) = a.tail[t]
    BY <1>1, Zenon
  <2>4. QED BY <1>2, <2>2, <2>3
<1>6. ASSUME NEW t \in Seqs, NEW v \in Seqs, b.tail[v] = b.tail[t]
      PROVE  a.tail[v] = a.tail[t]
  <2>1. Turn(a.tail[v], i, j) = Turn(a.tail[t], i, j)
    BY <1>2, <1>6
  <2>2. QED BY <1>1, <2>1, Zenon
<1>7. QED BY <1>4, <1>5, <1>6 DEF Others

(* A swap moves the sources along. *)
LEMMA SwapKeepsSources ==
  ASSUME NEW a \in Working, NEW i \in Cells, NEW j \in Cells,
         NEW o, Sources(a, o), NEW b, Swapped(a, b, i, j)
  PROVE  Sources(b, o)
<1>1. /\ \A c \in Cells : Turn(c, i, j) \in Cells
      /\ \A c : Turn(c, i, j) = None <=> c = None
      /\ \A c : Turn(Turn(c, i, j), i, j) = c
  BY TurnTwice
<1>2. /\ \A c \in Cells : b.cells[c] = a.cells[Turn(c, i, j)]
      /\ \A s \in Seqs : b.tail[s] = Turn(a.tail[s], i, j)
      /\ \A s \in Seqs : a.tail[s] \in Cells \cup {None}
  BY DEF Swapped, Working
<1>3. ASSUME NEW t \in Seqs, b.tail[t] # None
      PROVE  a.tail[t] # None /\ b.cells[b.tail[t]] = a.cells[a.tail[t]]
  <2>1. a.tail[t] # None
    BY <1>1, <1>2, <1>3, Zenon
  <2>2. Turn(a.tail[t], i, j) \in Cells
    BY <1>1, <1>2, <2>1
  <2>3. b.cells[Turn(a.tail[t], i, j)] = a.cells[Turn(Turn(a.tail[t], i, j), i, j)]
    BY <1>2, <2>2
  <2>4. Turn(Turn(a.tail[t], i, j), i, j) = a.tail[t]
    BY <1>1, Zenon
  <2>5. QED BY <1>2, <2>1, <2>3, <2>4
<1>4. ASSUME NEW c \in Cells, \A t \in Seqs : b.tail[t] # c
      PROVE  b.cells[c].src \in Blank(o) \cup {None}
  <2>1. ASSUME NEW t \in Seqs, a.tail[t] = Turn(c, i, j) PROVE FALSE
    <3>1. b.tail[t] = Turn(Turn(c, i, j), i, j)
      BY <1>2, <2>1
    <3>2. Turn(Turn(c, i, j), i, j) = c
      BY <1>1, Zenon
    <3>3. QED BY <1>4, <3>1, <3>2
  <2>2. Turn(c, i, j) \in Cells
    BY <1>1
  <2>3. QED BY <1>2, <2>1, <2>2 DEF Sources
<1>5. QED BY <1>3, <1>4 DEF Sources

(* The first k sequences of u are in their places, between lo and hi, and no *)
(* cell outside has been touched.                                            *)
InPlace(a, p, u, lo, hi, k) ==
  /\ \A i \in 1..k : a.tail[u[i]] = lo + i - 1
  /\ \A i \in 1..Len(u) : a.tail[u[i]] \in lo..hi
  /\ \A c \in Cells \ (lo..hi) : a.cells[c] = p.cells[c]

(* A swap puts the next sequence in its place, those before it stay. *)
LEMMA SwapPlacesNext ==
  ASSUME NEW a \in Working, NEW p, NEW u \in Seq(Seqs), Distinct(u), Placed(a, Elements(u)),
         NEW lo \in Cells, NEW hi \in Cells, Len(u) <= hi - lo + 1,
         NEW k \in 1..Len(u), InPlace(a, p, u, lo, hi, k - 1),
         NEW b, Swapped(a, b, a.tail[u[k]], lo + k - 1)
  PROVE  InPlace(b, p, u, lo, hi, k)
<1> DEFINE i == a.tail[u[k]]
           j == lo + k - 1
           n == Len(u)
<1>1. lo \in Nat /\ hi \in Nat /\ n \in Nat /\ k \in 1..n /\ \A l \in 1..n : u[l] \in Seqs
  BY DEF Cells
<1>2. i \in lo..hi /\ j \in lo..hi
  BY <1>1 DEF InPlace
<1>3. \A l \in 1..n : b.tail[u[l]] = Turn(a.tail[u[l]], i, j)
  BY <1>1 DEF Swapped
<1>4. \A l \in 1..n : a.tail[u[l]] = i => l = k
  <2> SUFFICES ASSUME NEW l \in 1..n, a.tail[u[l]] = a.tail[u[k]] PROVE l = k
    OBVIOUS
  <2>1. u[l] = u[k]
    BY <1>1 DEF Placed, Elements
  <2>2. QED BY <2>1 DEF Distinct
<1>5. ASSUME NEW l \in 1..k PROVE b.tail[u[l]] = lo + l - 1
  <2>1. CASE l = k
    BY <2>1, <1>1, <1>3 DEF Turn
  <2>2. CASE l # k
    <3>1. l \in 1..(k - 1) /\ l \in 1..n
      BY <2>2, <1>1
    <3>2. a.tail[u[l]] = lo + l - 1
      BY <3>1 DEF InPlace
    <3>3. a.tail[u[l]] # i /\ a.tail[u[l]] # j
      BY <3>1, <3>2, <2>2, <1>1, <1>4
    <3>4. QED BY <3>1, <3>2, <3>3, <1>3 DEF Turn
  <2>3. QED BY <2>1, <2>2
<1>6. ASSUME NEW l \in 1..n PROVE b.tail[u[l]] \in lo..hi
  <2>1. a.tail[u[l]] \in lo..hi
    BY DEF InPlace
  <2> HIDE DEF i, j, n
  <2>2. QED BY <1>2, <1>3, <2>1 DEF Turn
<1>7. ASSUME NEW c \in Cells \ (lo..hi) PROVE b.cells[c] = p.cells[c]
  <2>1. Turn(c, i, j) = c
    BY <1>2, <1>7 DEF Turn
  <2>2. b.cells[c] = a.cells[c]
    BY <2>1 DEF Swapped
  <2>3. QED BY <2>2 DEF InPlace
<1>8. QED BY <1>5, <1>6, <1>7 DEF InPlace

(* What holds after the second loop, and that it gets there. *)
Gathered(a, p, o, u, lo, hi) ==
  /\ a \in Working /\ Placed(a, Elements(u)) /\ Others(a, o, Elements(u)) /\ Sources(a, o)
  /\ InPlace(a, p, u, lo, hi, Len(u))

LEMMA GatherResult ==
  ASSUME NEW p \in Working, NEW u \in Seq(Seqs), Distinct(u), Placed(p, Elements(u)),
         NEW o, Others(p, o, Elements(u)), Sources(p, o),
         NEW lo \in Cells, NEW hi \in Cells, Len(u) <= hi - lo + 1,
         \A i \in 1..Len(u) : p.tail[u[i]] \in lo..hi
  PROVE  Gathered(Gather(p, u, lo), p, o, u, lo, hi)
<1> DEFINE n == Len(u)
           U == Elements(u)
           Step(a, k) == LET b == a IN Swap(b, b.tail[u[k]], lo + k - 1)
           IsLoop(g) == g = [k \in 0..n |-> IF k = 0 THEN p ELSE Step(g[k - 1], k)]
           after == CHOOSE g : IsLoop(g)
           Good(a, k) == /\ a \in Working /\ Placed(a, U) /\ Others(a, o, U)
                         /\ Sources(a, o) /\ InPlace(a, p, u, lo, hi, k)
           D == {a \in Working : \A i \in 1..n : a.tail[u[i]] \in lo..hi}
<1>1. n \in Nat /\ \A k \in 1..n : u[k] \in Seqs
  OBVIOUS
<1>2. Gather(p, u, lo) = after[n]
  BY DEF Gather
<1>3. lo \in Nat /\ hi \in Nat /\ lo..hi \subseteq Cells
  BY SizeAssumption DEF Cells
<1>4. U \in SUBSET Seqs
  BY <1>1 DEF Elements
<1>5. ASSUME NEW a \in D, NEW k \in 1..n
      PROVE  /\ Swapped(a, Step(a, k), a.tail[u[k]], lo + k - 1)
             /\ Step(a, k) \in D
             /\ a.tail[u[k]] \in Cells /\ lo + k - 1 \in Cells
  <2> DEFINE i == a.tail[u[k]]
             j == lo + k - 1
  <2>1. i \in lo..hi /\ j \in lo..hi /\ a \in Working
    BY <1>1, <1>3
  <2>2. i \in Cells /\ j \in Cells
    BY <2>1, <1>3
  <2>3. Swapped(a, Swap(a, i, j), i, j)
    BY <2>1, <2>2, SwapIs
  <2> DEFINE b == Swap(a, i, j)
  <2>4. Step(a, k) = b
    OBVIOUS
  <2>5. ASSUME NEW l \in 1..n PROVE b.tail[u[l]] \in lo..hi
    <3>1. b.tail[u[l]] = Turn(a.tail[u[l]], i, j)
      BY <2>3, <1>1 DEF Swapped
    <3>2. a.tail[u[l]] \in lo..hi
      OBVIOUS
    <3> HIDE DEF b, i, j
    <3>3. QED BY <2>1, <3>1, <3>2 DEF Turn
  <2>6. b \in Working
    BY <2>3 DEF Swapped
  <2> HIDE DEF b, i, j, Step
  <2>7. QED BY <2>2, <2>3, <2>4, <2>5, <2>6 DEF b, i, j
<1> HIDE DEF Step, U, n
<1>6. p \in D
  BY DEF n
<1>7. \E g \in [0..n -> D] : IsLoop(g)
  <2> DEFINE h == [k \in 1..n |-> [d \in D |-> Step(d, k)]]
  <2>1. h \in [1..n -> [D -> D]]
    BY <1>5
  <2> HIDE DEF D
  <2>2. PICK g \in [0..n -> D] : Runs(g, n, p, h)
    <3> HIDE DEF h
    <3>1. QED BY <2>1, <1>1, <1>6, Loop
  <2>3. \A k \in 1..n : k - 1 \in 0..n /\ h[k][g[k - 1]] = Step(g[k - 1], k)
    BY <1>1
  <2>4. \A k \in 0..n : k # 0 => k \in 1..n
    BY <1>1
  <2> HIDE DEF h
  <2>5. \A k \in 0..n : g[k] = IF k = 0 THEN p ELSE Step(g[k - 1], k)
    BY <2>2, <2>3, <2>4 DEF Runs
  <2>6. IsLoop(g)
    BY <2>5
  <2> HIDE DEF IsLoop
  <2>7. QED BY <2>6
<1>8. IsLoop(after)
  <2> HIDE DEF IsLoop
  <2>1. QED BY <1>7, Zenon
<1> HIDE DEF after
<1>9. after[0] = p /\ \A k \in 1..n : after[k] = Step(after[k - 1], k)
  BY <1>1, <1>8
<1> HIDE DEF IsLoop
<1> DEFINE S == {k \in 0..n : Good(after[k], k)}
<1>10. 0 \in S
  <2>1. Good(p, 0)
    BY DEF InPlace, U
  <2> HIDE DEF Good
  <2>2. QED BY <2>1, <1>1, <1>9
<1>11. ASSUME NEW k \in 1..n, k - 1 \in S PROVE k \in S
  <2> DEFINE a == after[k - 1]
             b == after[k]
  <2>1. Good(a, k - 1)
    BY <1>11
  <2>2. b = Step(a, k)
    BY <1>9
  <2> HIDE DEF a, b
  <2>3. a \in D
    BY <2>1 DEF InPlace, n
  <2>4. Swapped(a, b, a.tail[u[k]], lo + k - 1) /\ a.tail[u[k]] \in Cells /\ lo + k - 1 \in Cells
    BY <2>2, <2>3, <1>5
  <2>5. b \in Working
    BY <2>4 DEF Swapped
  <2>6. Placed(b, U) /\ Others(b, o, U) /\ Sources(b, o)
    BY <2>1, <2>4, <1>4, SwapKeepsPlaced, SwapKeepsOthers, SwapKeepsSources
  <2>7. InPlace(b, p, u, lo, hi, k)
    BY <2>1, <2>4, SwapPlacesNext DEF n, U
  <2>8. Good(b, k)
    BY <2>5, <2>6, <2>7
  <2> HIDE DEF Good
  <2>9. QED BY <2>8 DEF b
<1>12. n \in S
  <2> HIDE DEF S
  <2>1. 0..n \subseteq S
    BY <1>1, <1>10, <1>11, LoopInduction
  <2>2. QED BY <2>1, <1>1
<1>13. Good(after[n], n)
  BY <1>12
<1>14. QED BY <1>2, <1>13 DEF n, U, Gathered

-----------------------------------------------------------------------------
(* What find_slot() makes of the memory. *)

(* The cells of the micro-batch lie in a range of cells that is long enough. *)
LEMMA RangeOfTaken ==
  ASSUME NEW a \in Working, NEW u \in Seq(Seqs), Distinct(u), u # <<>>,
         Placed(a, Elements(u)),
         NEW used, used = {a.tail[u[k]] : k \in DOMAIN u}
  PROVE  /\ Min(used) \in Cells /\ Max(used) \in Cells
         /\ Len(u) <= Max(used) - Min(used) + 1
         /\ \A i \in 1..Len(u) : a.tail[u[i]] \in Min(used)..Max(used)
         /\ Len(u) = 1 => Min(used) = Max(used)
<1> DEFINE n == Len(u)
<1>1. n \in Nat \ {0} /\ DOMAIN u = 1..n /\ \A k \in 1..n : u[k] \in Seqs
  BY EmptySeq
<1>2. \A k \in 1..n : u[k] \in Elements(u)
  BY DEF Elements
<1>3. \A k \in 1..n : a.tail[u[k]] \in Cells
  BY <1>1, <1>2 DEF Placed, Working
<1> HIDE DEF n
<1>4. used \in SUBSET (0..(NSeqMax - 1)) /\ used # {} /\ NSeqMax - 1 \in Nat /\ used \in SUBSET Nat
  <2>1. a.tail[u[1]] \in used
    BY <1>1
  <2>2. QED BY <1>1, <1>3, <2>1, SizeAssumption DEF Cells
<1> DEFINE lo == Min(used)
           hi == Max(used)
<1>5. lo \in used /\ \A c \in used : lo <= c
  BY <1>4, MinOfNats
<1>6. hi \in used /\ \A c \in used : c <= hi
  BY <1>4, MaxOfNats
<1> HIDE DEF lo, hi
<1>7. lo \in Nat /\ hi \in Nat /\ lo \in Cells /\ hi \in Cells /\ lo <= hi
  <2>1. lo \in Nat /\ hi \in Nat /\ lo \in Cells /\ hi \in Cells
    BY <1>4, <1>5, <1>6 DEF Cells
  <2>2. QED BY <2>1, <1>5, <1>6
<1>8. \A k \in 1..n : a.tail[u[k]] \in lo..hi
  <2> SUFFICES ASSUME NEW k \in 1..n PROVE a.tail[u[k]] \in lo..hi
    OBVIOUS
  <2>1. a.tail[u[k]] \in used
    BY <1>1
  <2>2. a.tail[u[k]] \in Nat
    BY <1>3 DEF Cells
  <2>3. QED BY <2>1, <2>2, <1>5, <1>6, <1>7
<1> DEFINE f == [k \in 1..n |-> a.tail[u[k]]]
<1>9. f \in Injection(1..n, lo..hi)
  <2>1. f \in [1..n -> lo..hi]
    BY <1>8
  <2>2. ASSUME NEW k \in 1..n, NEW l \in 1..n, f[k] = f[l] PROVE k = l
    <3>1. u[k] = u[l]
      BY <2>2, <1>1, <1>2 DEF Placed
    <3>2. QED BY <3>1 DEF Distinct, n
  <2> HIDE DEF f
  <2>3. QED BY <2>1, <2>2, Zenon DEF Injection, IsInjective
<1> HIDE DEF f
<1>10. IsFiniteSet(lo..hi) /\ Cardinality(lo..hi) = hi - lo + 1
  BY <1>7, FS_Interval
<1>11. Cardinality(1..n) = n
  BY <1>1, FS_Interval
<1>12. Cardinality(1..n) <= Cardinality(lo..hi)
  BY <1>9, <1>10, FS_Injection
<1>13. ASSUME n = 1 PROVE lo = hi
  <2>1. \A c \in used : c = a.tail[u[1]]
    BY <1>1, <1>13
  <2>2. QED BY <2>1, <1>5, <1>6
<1>14. QED BY <1>7, <1>8, <1>10, <1>11, <1>12, <1>13 DEF lo, hi, n

(* While a cell of the range has no state to be read, one of them is the     *)
(* source of none, and can be zeroed for it.                                 *)
LEMMA SomeCellToZero ==
  ASSUME NEW cells \in [Cells -> Cell], NEW range \in SUBSET Cells,
         \A d \in Cells \ range : cells[d].src \in {None, d},
         NEW e \in range, cells[e].src = None
  PROVE  {c \in range : \A d \in Cells : cells[d].src # c} # {}
<1> SUFFICES ASSUME \A c \in range : \E d \in Cells : cells[d].src = c PROVE FALSE
  OBVIOUS
<1>1. \A c \in range : \E d \in range : cells[d].src = c
  <2> SUFFICES ASSUME NEW c \in range PROVE \E d \in range : cells[d].src = c
    OBVIOUS
  <2>1. PICK d \in Cells : cells[d].src = c
    OBVIOUS
  <2>2. c # None
    BY CellsAreFinite
  <2>3. QED BY <2>1, <2>2
<1> DEFINE f == [c \in range |-> CHOOSE d \in range : cells[d].src = c]
<1>2. \A c \in range : f[c] \in range /\ cells[f[c]].src = c
  BY <1>1
<1>3. f \in Injection(range, range)
  <2>1. f \in [range -> range]
    BY <1>2
  <2>2. \A c, d \in range : f[c] = f[d] => c = d
    BY <1>2
  <2> HIDE DEF f
  <2>3. QED BY <2>1, <2>2, Zenon DEF Injection, IsInjective
<1> HIDE DEF f
<1>4. IsFiniteSet(range)
  BY CellsAreFinite, FS_Subset
<1>5. f \in Surjection(range, range)
  BY <1>3, <1>4, FS_Injection
<1>6. PICK c \in range : f[c] = e
  BY <1>5 DEF Surjection
<1>7. c = None
  BY <1>2, <1>6
<1>8. QED BY <1>7, CellsAreFinite

(* The result: the memory is in order again, each sequence of u has a cell   *)
(* to itself, in the order of u from the head on, and each cell of the range *)
(* has a row to be read.                                                     *)
Found(f, m, u, last) ==
  /\ f.mem \in Memory /\ OwnSources(f.mem) /\ Placed(f.mem, {})
  /\ f.mem.used = Cardinality({c \in Cells : f.mem.cells[c].seqs # {}})
  /\ Others(f.mem, m, Elements(u))
  /\ \A i \in 1..Len(u) : /\ f.mem.tail[u[i]] = f.mem.head + i - 1
                          /\ f.mem.cells[f.mem.head + i - 1].seqs = {u[i]}
                          /\ f.mem.cells[f.mem.head + i - 1].pos = last[u[i]]
  /\ f.range \in SUBSET Cells
  /\ f.mem.head..(f.mem.head + Len(u) - 1) \subseteq f.range
  /\ f.zero \in Cells \cup {None}
  /\ f.src0 \in [f.range -> Cells]

(* Where the states are read from: the state of a sequence from the cell it  *)
(* had, which is not the one that is zeroed, and an empty state from the     *)
(* zeroed cell or a blank one.  Cells outside the range are as they were.    *)
Sourced(f, m, u) ==
  /\ \A t \in Seqs : f.mem.tail[t] \in f.range =>
       IF m.tail[t] # None THEN f.src0[f.mem.tail[t]] = m.tail[t] /\ m.tail[t] # f.zero
       ELSE f.src0[f.mem.tail[t]] \in Blank(m) \cup {f.zero}
  /\ \A c \in f.range : f.mem.cells[c].seqs = {} => f.src0[c] \in Blank(m) \cup {f.zero}
  /\ f.zero \in f.range \cup {None}
  /\ \A t \in Seqs : f.mem.tail[t] \in Cells \ f.range => m.tail[t] = f.mem.tail[t]
  /\ Blank(f.mem) \ f.range \subseteq Blank(m)
  /\ Len(u) = 1 => f.range = {f.mem.head}

(* find_slot() makes such a memory of one that is in order. *)
LEMMA FindSlotResult ==
  ASSUME NEW m \in Memory, Placed(m, {}), OwnSources(m),
         NEW u \in Seq(Seqs), Distinct(u), u # <<>>,
         NEW last, \A i \in 1..Len(u) : last[u[i]] \in None..(MaxTokens - 1)
  PROVE  Found(FindSlot(m, u, last), m, u, last) /\ Sourced(FindSlot(m, u, last), m, u)
<1> DEFINE n      == Len(u)
           U      == Elements(u)
           taken  == Search(m, u)
           used   == {taken.tail[u[k]] : k \in DOMAIN u}
           lo     == Min(used)
           hi     == Max(used)
           range  == lo..hi
           placed == Gather(taken, u, lo)
           cells  == [c \in Cells |->
                        IF c \in lo..(lo + Len(u) - 1)
                        THEN [placed.cells[c] EXCEPT !.pos = last[u[c - lo + 1]], !.seqs = {u[c - lo + 1]}]
                        ELSE placed.cells[c]]
           free   == {c \in range : \A d \in Cells : cells[d].src # c}
           zero   == IF free = {} THEN None ELSE Min(free)
           next   == Settle(cells, range)
           src0   == [c \in range |-> IF cells[c].src = None THEN zero ELSE cells[c].src]
           f      == FindSlot(m, u, last)
<1>1. f = [mem |-> [cells |-> next, tail |-> placed.tail, head |-> lo,
                    used |-> Cardinality({c \in Cells : next[c].seqs # {}})],
           range |-> range, zero |-> zero, src0 |-> src0]
  BY DEF FindSlot
<1>2. n \in Nat \ {0} /\ \A k \in 1..n : u[k] \in Seqs /\ u[k] \in U
  BY EmptySeq DEF Elements
<1>3. Searched(taken, m, U, U)
  BY SearchResult
<1>4. /\ lo \in Cells /\ hi \in Cells /\ n <= hi - lo + 1
      /\ \A i \in 1..n : taken.tail[u[i]] \in lo..hi
      /\ n = 1 => lo = hi
  BY <1>3, RangeOfTaken DEF Searched
<1> HIDE DEF taken, lo, hi
<1>5. Gathered(placed, taken, m, u, lo, hi)
  BY <1>3, <1>4, GatherResult DEF Searched, Traced
<1> HIDE DEF f, placed, n
<1>6. /\ lo \in Nat /\ hi \in Nat /\ range \in SUBSET Cells
      /\ lo..(lo + n - 1) \subseteq range
  BY <1>2, <1>4, SizeAssumption DEF Cells
<1>7. /\ placed \in Working /\ Placed(placed, U) /\ Others(placed, m, U) /\ Sources(placed, m)
      /\ placed.cells \in [Cells -> Cell] /\ placed.tail \in [Seqs -> Cells \cup {None}]
      /\ \A i \in 1..n : placed.tail[u[i]] = lo + i - 1
      /\ \A c \in Cells \ range : placed.cells[c] = taken.cells[c]
  BY <1>5 DEF Gathered, InPlace, Working, n
<1> HIDE DEF range
<1> DEFINE main == lo..(lo + n - 1)
<1>8. \A c \in main : c - lo + 1 \in 1..n /\ c = lo + (c - lo + 1) - 1
  BY <1>2, <1>6
<1>9. ASSUME NEW c \in Cells
      PROVE  /\ cells[c] \in Cell
             /\ cells[c].src = placed.cells[c].src
             /\ c \in main => /\ cells[c].seqs = {u[c - lo + 1]}
                              /\ cells[c].pos = last[u[c - lo + 1]]
             /\ c \notin main => cells[c] = placed.cells[c]
  <2>1. placed.cells[c] \in Cell
    BY <1>7
  <2>2. CASE c \in main
    <3>1. cells[c] = [placed.cells[c] EXCEPT !.pos = last[u[c - lo + 1]], !.seqs = {u[c - lo + 1]}]
      BY <2>2 DEF n
    <3>2. u[c - lo + 1] \in Seqs /\ last[u[c - lo + 1]] \in None..(MaxTokens - 1)
      BY <2>2, <1>2, <1>8 DEF n
    <3> HIDE DEF cells, main
    <3>3. QED BY <2>1, <2>2, <3>1, <3>2 DEF Cell
  <2>3. CASE c \notin main
    BY <2>1, <2>3 DEF n
  <2>4. QED BY <2>2, <2>3
<1>10. cells \in [Cells -> Cell]
  <2>1. \A c \in Cells : cells[c] \in Cell
    BY <1>9
  <2>2. QED BY <2>1
<1> HIDE DEF cells
<1>11. ASSUME NEW d \in Cells \ range
       PROVE  /\ cells[d] = taken.cells[d]
              /\ cells[d].src = m.cells[d].src /\ cells[d].seqs \subseteq m.cells[d].seqs
  <2>1. cells[d] = placed.cells[d]
    BY <1>6, <1>9
  <2>2. cells[d] = taken.cells[d]
    BY <1>7, <2>1
  <2>3. ~\E t \in U : taken.tail[t] = d
    BY <1>4 DEF Elements, range, n
  <2>4. QED BY <1>3, <2>2, <2>3 DEF Searched, Untaken
<1>12. /\ free # {} => zero \in free
       /\ free = {} => zero = None
       /\ free \in SUBSET range
  <2>1. free \in SUBSET Nat
    BY <1>6, CellsAreNats
  <2>2. free # {} => Min(free) \in free
    BY <2>1, MinOfNats
  <2> HIDE DEF free
  <2>3. (free # {} => zero \in free) /\ (free = {} => zero = None)
    BY <2>2
  <2>4. QED BY <2>3 DEF free
<1>13. ASSUME NEW c \in range
       PROVE  src0[c] \in Cells /\ src0[c] = IF cells[c].src = None THEN zero ELSE cells[c].src
  <2>1. cells[c] \in Cell
    BY <1>6, <1>10
  <2>2. CASE cells[c].src # None
    BY <2>1, <2>2 DEF Cell
  <2>3. CASE cells[c].src = None
    <3>1. \A d \in Cells \ range : cells[d].src \in {None, d}
      BY <1>11 DEF OwnSources
    <3>2. free # {}
      BY <1>6, <1>10, <2>3, <3>1, SomeCellToZero
    <3> HIDE DEF free, zero
    <3>3. src0[c] = zero
      BY <2>3
    <3>4. zero \in range
      BY <1>12, <3>2
    <3>5. QED BY <2>3, <3>3, <3>4, <1>6
  <2>4. QED BY <2>2, <2>3
<1>14. /\ src0 \in [range -> Cells] /\ zero \in range \cup {None} /\ zero \in Cells \cup {None}
       /\ \A d \in Cells : cells[d].src # None => cells[d].src # zero
  <2>1. src0 \in [range -> Cells]
    BY <1>13
  <2>2. zero \in range => \A d \in Cells : cells[d].src # zero
    <3>1. zero # None => zero \in free
      BY <1>12
    <3> HIDE DEF zero
    <3>2. QED BY <1>6, <3>1, CellsAreFinite
  <2> HIDE DEF zero, free, src0
  <2>3. zero \in range \cup {None}
    BY <1>12
  <2>4. QED BY <1>6, <2>1, <2>2, <2>3
<1> HIDE DEF src0, zero
<1>15. ASSUME NEW c \in Cells
       PROVE  /\ next[c] \in Cell
              /\ next[c].seqs = cells[c].seqs /\ next[c].pos = cells[c].pos
              /\ next[c].src = IF c \in range THEN c ELSE cells[c].src
  <2>1. cells[c] \in Cell
    BY <1>10
  <2>2. next[c] = IF c \in range THEN [cells[c] EXCEPT !.src = c] ELSE cells[c]
    BY DEF Settle
  <2> HIDE DEF next
  <2>3. QED BY <2>1, <2>2 DEF Cell
<1>16. next \in [Cells -> Cell]
  <2>1. \A c \in Cells : next[c] \in Cell
    BY <1>15
  <2>2. next = [c \in Cells |-> next[c]]
    BY DEF Settle
  <2>3. QED BY <2>1, <2>2
<1> HIDE DEF next
<1>17. {c \in Cells : next[c].seqs # {}} \in SUBSET Cells
  OBVIOUS
<1>18. Cardinality({c \in Cells : next[c].seqs # {}}) \in 0..NSeqMax
  <2> DEFINE full == {c \in Cells : next[c].seqs # {}}
  <2>1. IsFiniteSet(full) /\ Cardinality(full) <= NSeqMax
    BY <1>17, CellsAreFinite, FS_Subset
  <2> HIDE DEF full
  <2>2. Cardinality(full) \in Nat
    BY <2>1, FS_CardinalityType
  <2>3. QED BY <2>1, <2>2, SizeAssumption DEF full
<1>19. /\ f.mem.cells = next /\ f.mem.tail = placed.tail /\ f.mem.head = lo
       /\ f.mem.used = Cardinality({c \in Cells : next[c].seqs # {}})
       /\ f.range = range /\ f.zero = zero /\ f.src0 = src0
       /\ f.mem \in Memory
  BY <1>1, <1>4, <1>7, <1>16, <1>18 DEF Memory
<1>20. OwnSources(f.mem)
  <2>1. ASSUME NEW c \in Cells
        PROVE  next[c].src \in {None, c} /\ (next[c].seqs # {} => next[c].src = c)
    BY <1>11, <1>15 DEF OwnSources
  <2>2. QED BY <1>19, <2>1 DEF OwnSources
<1>21. ASSUME NEW t \in Seqs, NEW c \in main, placed.tail[t] = c PROVE t = u[c - lo + 1]
  <2>1. c - lo + 1 \in 1..n /\ c = lo + (c - lo + 1) - 1
    BY <1>8
  <2>2. placed.tail[u[c - lo + 1]] = c
    BY <1>7, <2>1
  <2>3. u[c - lo + 1] \in U
    BY <1>2, <2>1
  <2> HIDE DEF main
  <2>4. QED BY <1>7, <1>21, <2>2, <2>3 DEF Placed
<1>22. \A t \in Seqs : placed.tail[t] \in main => t \in U
  BY <1>2, <1>8, <1>21
<1>23. Placed(f.mem, {})
  <2>1. ASSUME NEW c \in Cells, NEW t \in next[c].seqs PROVE placed.tail[t] = c
    <3>1. CASE c \in main
      <4>1. t = u[c - lo + 1]
        BY <3>1, <1>9, <1>15
      <4>2. QED BY <3>1, <4>1, <1>7, <1>8
    <3>2. CASE c \notin main
      <4>1. t \in placed.cells[c].seqs
        BY <3>2, <1>9, <1>15
      <4>2. QED BY <4>1, <1>7 DEF Placed
    <3>3. QED BY <3>1, <3>2
  <2>2. ASSUME NEW t \in Seqs, placed.tail[t] # None PROVE t \in next[placed.tail[t]].seqs
    <3> DEFINE c == placed.tail[t]
    <3>1. c \in Cells
      BY <1>7, <2>2
    <3>2. CASE c \in main
      BY <3>1, <3>2, <1>9, <1>15, <1>21
    <3>3. CASE c \notin main
      <4>1. t \notin U
        <5> SUFFICES ASSUME t \in U PROVE FALSE
          OBVIOUS
        <5>1. PICK i \in 1..n : t = u[i]
          BY DEF Elements, n
        <5>2. c = lo + i - 1
          BY <1>7, <5>1
        <5>3. QED BY <5>2, <3>3, <1>2, <1>6
      <4>2. t \in placed.cells[c].seqs
        BY <4>1, <1>7, <2>2 DEF Placed
      <4>3. QED BY <3>1, <3>3, <4>2, <1>9, <1>15
    <3>4. QED BY <3>2, <3>3
  <2>3. QED BY <1>19, <2>1, <2>2 DEF Placed
<1>24. Others(f.mem, m, U)
  <2>1. ASSUME NEW t \in Seqs \ U, placed.tail[t] # None
        PROVE  next[placed.tail[t]].pos = placed.cells[placed.tail[t]].pos
    <3>1. placed.tail[t] \in Cells /\ placed.tail[t] \notin main
      BY <1>7, <1>22, <2>1
    <3>2. QED BY <3>1, <1>9, <1>15
  <2>2. QED BY <1>7, <1>19, <2>1 DEF Others
<1>25. ASSUME NEW i \in 1..n
       PROVE  /\ placed.tail[u[i]] = lo + i - 1
              /\ next[lo + i - 1].seqs = {u[i]}
              /\ next[lo + i - 1].pos = last[u[i]]
  <2>1. lo + i - 1 \in main /\ (lo + i - 1) - lo + 1 = i
    BY <1>2, <1>6
  <2>2. lo + i - 1 \in Cells
    BY <2>1, <1>6
  <2>3. QED BY <2>1, <2>2, <1>7, <1>9, <1>15
<1>26. Found(f, m, u, last)
  <2>1. f.mem.head..(f.mem.head + Len(u) - 1) \subseteq f.range
    BY <1>6, <1>19 DEF n
  <2>2. QED BY <1>6, <1>14, <1>19, <1>20, <1>23, <1>24, <1>25, <2>1 DEF Found, n
<1>27. ASSUME NEW t \in Seqs, placed.tail[t] \in range
       PROVE  IF m.tail[t] # None THEN src0[placed.tail[t]] = m.tail[t] /\ m.tail[t] # zero
              ELSE src0[placed.tail[t]] \in Blank(m) \cup {zero}
  <2> DEFINE c == placed.tail[t]
  <2>1. c \in Cells /\ c # None
    BY <1>6, <1>27, CellsAreFinite
  <2>2. cells[c].src \in IF m.tail[t] # None THEN {m.tail[t]} ELSE Blank(m) \cup {None}
    BY <2>1, <1>7, <1>9 DEF Sources
  <2>3. src0[c] = IF cells[c].src = None THEN zero ELSE cells[c].src
    BY <1>13, <1>27
  <2>4. cells[c].src # None => cells[c].src # zero
    BY <2>1, <1>14
  <2> HIDE DEF c
  <2>5. QED BY <2>2, <2>3, <2>4 DEF c
<1>28. ASSUME NEW c \in Cells, next[c].seqs = {}
       PROVE  cells[c].src \in Blank(m) \cup {None}
  <2>1. \A t \in Seqs : placed.tail[t] # c
    BY <1>19, <1>23, <1>28, CellsAreFinite DEF Placed
  <2>2. QED BY <2>1, <1>7, <1>9 DEF Sources
<1>29. ASSUME NEW t \in Seqs, placed.tail[t] \in Cells \ range PROVE m.tail[t] = placed.tail[t]
  <2> DEFINE c == placed.tail[t]
  <2>1. t \in next[c].seqs
    BY <1>19, <1>23, <1>29, CellsAreFinite DEF Placed
  <2>2. t \in m.cells[c].seqs
    BY <2>1, <1>11, <1>15, <1>29
  <2>3. QED BY <2>2, <1>29 DEF Placed
<1>30. Sourced(f, m, u)
  <2>1. \A c \in range : next[c].seqs = {} => src0[c] \in Blank(m) \cup {zero}
    BY <1>6, <1>13, <1>28
  <2>2. ASSUME NEW c \in Blank(f.mem) \ range PROVE c \in Blank(m)
    <3>1. c \in Cells /\ next[c].seqs = {} /\ next[c].src = c
      BY <1>19 DEF Blank
    <3>2. cells[c].src = c /\ c # None
      BY <3>1, <1>15, CellsAreFinite
    <3>3. QED BY <3>1, <3>2, <1>28
  <2>3. n = 1 => range = {lo}
    BY <1>4, <1>6 DEF range
  <2>4. QED BY <1>14, <1>19, <1>27, <1>29, <2>1, <2>2, <2>3 DEF Sourced, n
<1>31. QED BY <1>26, <1>30 DEF f

-----------------------------------------------------------------------------
(* The next micro-batch has some of the batch's sequences, each once, and no *)
(* more tokens of each than it has left.                                     *)

(* g: sequences among the first k of the batch with tokens left, each once;  *)
(* one at most if the split is serial, all of them if it is unified.         *)
IsGroup(g, k) ==
  /\ g \in Seq(Seqs) /\ Distinct(g)
  /\ \A i \in 1..Len(g) : left[g[i]] > 0 /\ \E j \in 1..k : batch[j] = g[i]
  /\ (\E j \in 1..k : left[batch[j]] > 0) => g # <<>>
  /\ setting.split = "serial" => Len(g) <= 1
  /\ setting.split = "unified" => \A j \in 1..k : left[batch[j]] > 0 => batch[j] \in Elements(g)

(* Joining one more sequence, or not, keeps that. *)
LEMMA GroupStep ==
  ASSUME batch \in Seq(Seqs), Distinct(batch), NEW k \in 1..Len(batch),
         NEW g, IsGroup(g, k - 1), NEW h,
         h = IF Joins(g, batch[k]) THEN Append(g, batch[k]) ELSE g
  PROVE  IsGroup(h, k)
<1>1. batch[k] \in Seqs /\ k \in Nat /\ g \in Seq(Seqs) /\ Len(g) \in Nat
  BY DEF IsGroup
<1>2. CASE Joins(g, batch[k])
  <2>1. /\ h \in Seq(Seqs) /\ Len(h) = Len(g) + 1 /\ h[Len(g) + 1] = batch[k]
        /\ \A i \in 1..Len(g) : h[i] = g[i]
    BY <1>1, <1>2, AppendProperties
  <2>2. left[batch[k]] > 0
    BY <1>2 DEF Joins
  <2>3. \A i \in 1..Len(g) : g[i] # batch[k]
    <3> SUFFICES ASSUME NEW i \in 1..Len(g) PROVE g[i] # batch[k]
      OBVIOUS
    <3>1. PICK j \in 1..(k - 1) : batch[j] = g[i]
      BY DEF IsGroup
    <3>2. QED BY <1>1, <3>1 DEF Distinct
  <2>4. Distinct(h)
    <3> SUFFICES ASSUME NEW i \in 1..Len(h), NEW j \in 1..Len(h), h[i] = h[j] PROVE i = j
      BY DEF Distinct
    <3>1. CASE i \in 1..Len(g) /\ j \in 1..Len(g)
      BY <3>1, <2>1 DEF IsGroup, Distinct
    <3>2. CASE i = Len(g) + 1 /\ j \in 1..Len(g)
      BY <3>2, <2>1, <2>3
    <3>3. CASE j = Len(g) + 1 /\ i \in 1..Len(g)
      BY <3>3, <2>1, <2>3
    <3>4. \A l \in 1..Len(h) : l \in 1..Len(g) \/ l = Len(g) + 1
      BY <2>1, <1>1
    <3>5. QED BY <3>1, <3>2, <3>3, <3>4
  <2>5. ASSUME NEW i \in 1..Len(h)
        PROVE  left[h[i]] > 0 /\ \E j \in 1..k : batch[j] = h[i]
    <3>1. CASE i \in 1..Len(g)
      <4>1. PICK j \in 1..(k - 1) : batch[j] = g[i]
        BY <3>1 DEF IsGroup
      <4>2. j \in 1..k
        BY <1>1
      <4>3. QED BY <3>1, <4>1, <4>2, <2>1 DEF IsGroup
    <3>2. CASE i = Len(g) + 1
      BY <3>2, <1>1, <2>1, <2>2
    <3>3. QED BY <3>1, <3>2, <2>1, <1>1
  <2>6. h # <<>>
    BY <2>1, <1>1
  <2>7. setting.split = "serial" => Len(h) <= 1
    <3>1. setting.split = "serial" => g = <<>>
      BY <1>2 DEF Joins
    <3>2. QED BY <2>1, <3>1
  <2>8. ASSUME setting.split = "unified", NEW j \in 1..k, left[batch[j]] > 0
        PROVE  batch[j] \in Elements(h)
    <3>1. CASE j = k
      <4>1. Len(g) + 1 \in 1..Len(h)
        BY <1>1, <2>1
      <4>2. QED BY <2>1, <3>1, <4>1 DEF Elements
    <3>2. CASE j # k
      <4>1. j \in 1..(k - 1)
        BY <1>1, <3>2
      <4>2. PICK i \in 1..Len(g) : g[i] = batch[j]
        BY <2>8, <4>1 DEF IsGroup, Elements
      <4>3. i \in 1..Len(h) /\ h[i] = batch[j]
        BY <1>1, <2>1, <4>2
      <4>4. QED BY <4>3 DEF Elements
    <3>3. QED BY <3>1, <3>2
  <2>9. QED BY <2>1, <2>4, <2>5, <2>6, <2>7, <2>8 DEF IsGroup
<1>3. CASE ~Joins(g, batch[k])
  <2>1. h = g
    BY <1>3
  <2>2. \A j \in 1..(k - 1) : j \in 1..k
    BY <1>1
  <2>3. g = <<>> => ~(left[batch[k]] > 0)
    BY <1>3 DEF Joins
  <2>4. (\E j \in 1..k : left[batch[j]] > 0) => g # <<>>
    <3> SUFFICES ASSUME NEW j \in 1..k, left[batch[j]] > 0 PROVE g # <<>>
      OBVIOUS
    <3>1. CASE j = k
      BY <3>1, <2>3
    <3>2. CASE j # k
      BY <3>2, <1>1 DEF IsGroup
    <3>3. QED BY <3>1, <3>2
  <2>5. ASSUME setting.split = "unified", NEW j \in 1..k, left[batch[j]] > 0
        PROVE  batch[j] \in Elements(g)
    <3>1. j # k
      BY <1>3, <2>5 DEF Joins
    <3>2. j \in 1..(k - 1)
      BY <1>1, <3>1
    <3>3. QED BY <2>5, <3>2 DEF IsGroup
  <2>6. QED BY <2>1, <2>2, <2>4, <2>5 DEF IsGroup
<1>4. QED BY <1>2, <1>3

(* Group has one at least, if any sequence has tokens left. *)
LEMMA GroupIs ==
  ASSUME batch \in Seq(Seqs), Distinct(batch)
  PROVE  IsGroup(Group, Len(batch))
<1> DEFINE n == Len(batch)
           D == Seq(Seqs)
           Step(a, k) == LET g == a IN IF Joins(g, batch[k]) THEN Append(g, batch[k]) ELSE g
           IsLoop(f) == f = [k \in 0..n |-> IF k = 0 THEN <<>> ELSE Step(f[k - 1], k)]
           after == CHOOSE f : IsLoop(f)
<1>1. n \in Nat /\ \A k \in 1..n : batch[k] \in Seqs
  OBVIOUS
<1>2. Group = after[n]
  BY DEF Group
<1>3. \A k \in 1..n : \A g \in D : Step(g, k) \in D
  BY <1>1
<1> HIDE DEF n, Step
<1>4. \E f \in [0..n -> D] : IsLoop(f)
  <2> DEFINE h == [k \in 1..n |-> [d \in D |-> Step(d, k)]]
             a == << >>
  <2>1. h \in [1..n -> [D -> D]] /\ a \in D
    BY <1>3
  <2> HIDE DEF D, a
  <2>2. PICK f \in [0..n -> D] : Runs(f, n, a, h)
    <3> HIDE DEF h
    <3>1. QED BY <2>1, <1>1, Loop
  <2>3. \A k \in 1..n : k - 1 \in 0..n /\ h[k][f[k - 1]] = Step(f[k - 1], k)
    BY <1>1
  <2>4. \A k \in 0..n : k # 0 => k \in 1..n
    BY <1>1
  <2> HIDE DEF h
  <2>5. \A k \in 0..n : f[k] = IF k = 0 THEN a ELSE Step(f[k - 1], k)
    BY <2>2, <2>3, <2>4 DEF Runs
  <2>6. IsLoop(f)
    BY <2>5 DEF a
  <2> HIDE DEF IsLoop
  <2>7. QED BY <2>6
<1>5. IsLoop(after)
  <2> HIDE DEF IsLoop
  <2>1. QED BY <1>4, Zenon
<1> HIDE DEF after
<1>6. after[0] = <<>> /\ \A k \in 1..n : after[k] = Step(after[k - 1], k)
  BY <1>1, <1>5
<1> HIDE DEF IsLoop
<1> DEFINE S == {k \in 0..n : IsGroup(after[k], k)}
<1>7. 0 \in S
  <2> DEFINE e == << >>
  <2>1. e \in Seq(Seqs) /\ Len(e) = 0
    OBVIOUS
  <2> HIDE DEF e
  <2>2. IsGroup(e, 0)
    BY <2>1 DEF IsGroup, Distinct
  <2>3. after[0] = e
    BY <1>6 DEF e
  <2>4. QED BY <2>2, <2>3, <1>1
<1>8. ASSUME NEW k \in 1..n, k - 1 \in S PROVE k \in S
  <2>1. IsGroup(after[k - 1], k - 1) /\ k \in 1..Len(batch)
    BY <1>8 DEF n
  <2>2. after[k] = IF Joins(after[k - 1], batch[k]) THEN Append(after[k - 1], batch[k]) ELSE after[k - 1]
    BY <1>6 DEF Step
  <2>3. IsGroup(after[k], k)
    BY <2>1, <2>2, GroupStep
  <2>4. QED BY <2>3
<1>9. n \in S
  <2> HIDE DEF S
  <2>1. 0..n \subseteq S
    BY <1>1, <1>7, <1>8, LoopInduction
  <2>2. QED BY <2>1, <1>1
<1>10. QED BY <1>2, <1>9 DEF n

(* What a decode needs to know of its micro-batch.  The last tokens of its   *)
(* sequences stay together; one sequence is alone in it if the split is      *)
(* serial; a batch of equal parts is not split if it need not be.            *)
Equal == \A s, t \in Seqs : left[s] > 0 /\ left[t] > 0 => left[s] = left[t]

IsUbatch(u) ==
  /\ u.seqs \in Seq(Seqs) /\ Distinct(u.seqs) /\ u.seqs # <<>>
  /\ u.tokens \in Nat \ {0}
  /\ \A i \in 1..Len(u.seqs) : u.tokens <= left[u.seqs[i]]
  /\ \A i \in 1..Len(u.seqs) : KeepsTail(left[u.seqs[i]] - u.tokens)
  /\ setting.split = "serial" => Len(u.seqs) = 1
  /\ setting.split = "unified" /\ Equal =>
       \A j \in 1..Len(batch) : left[batch[j]] > 0 =>
         batch[j] \in Elements(u.seqs) /\ u.tokens = left[batch[j]]

(* NextUbatch is such a micro-batch. *)
LEMMA NextUbatchIs ==
  ASSUME batch \in Seq(Seqs), Distinct(batch), left \in [Seqs -> 0..MaxTokens],
         \E k \in 1..Len(batch) : left[batch[k]] > 0
  PROVE  IsUbatch(NextUbatch)
<1> DEFINE g == Group
           I == {left[g[k]] : k \in DOMAIN g}
           J == {j \in 0..Len(g) : \A k \in 1..j : KeepsTail(left[g[k]] - Min(I))}
           keep == Max(J)
<1>1. g \in Seq(Seqs) /\ Distinct(g) /\ g # <<>> /\ \A i \in 1..Len(g) : left[g[i]] > 0
  BY GroupIs DEF IsGroup
<1>2. NextUbatch = IF keep = 0 THEN [seqs |-> <<g[1]>>, tokens |-> left[g[1]]]
                   ELSE [seqs |-> SubSeq(g, 1, keep), tokens |-> Min(I)]
  BY DEF NextUbatch
<1> HIDE DEF g
<1>3. Len(g) \in Nat \ {0} /\ DOMAIN g = 1..Len(g) /\ \A i \in 1..Len(g) : g[i] \in Seqs
  BY <1>1, EmptySeq
<1>4. \A i \in 1..Len(g) : left[g[i]] \in Nat \ {0}
  BY <1>1, <1>3, SizeAssumption
<1>5. I \in SUBSET (Nat \ {0}) /\ I # {}
  <2>1. I \in SUBSET (Nat \ {0})
    BY <1>3, <1>4
  <2>2. 1 \in DOMAIN g
    BY <1>3
  <2>3. left[g[1]] \in I
    BY <2>2, Zenon
  <2>4. QED BY <2>1, <2>3
<1>6. Min(I) \in I /\ \A x \in I : Min(I) <= x
  BY <1>5, MinOfNats
<1>7. \A i \in 1..Len(g) : Min(I) <= left[g[i]]
  BY <1>3, <1>6
<1>8. Min(I) \in Nat \ {0}
  BY <1>5, <1>6
<1> HIDE DEF I
<1>9. J \in SUBSET (0..Len(g)) /\ 0 \in J
  BY <1>3
<1>10. keep \in 0..Len(g) /\ keep \in J /\ \A j \in J : j <= keep
  <2> HIDE DEF J
  <2>1. Max(J) \in J /\ \A j \in J : j <= Max(J)
    BY <1>3, <1>9, MaxOfNats
  <2>2. QED BY <1>9, <2>1
<1>11. \A i \in 1..keep : KeepsTail(left[g[i]] - Min(I))
  BY <1>10
<1>12. /\ \A i \in 1..Len(g) : g[i] \in Seqs /\ left[g[i]] > 0
       /\ setting.split = "serial" => Len(g) <= 1
       /\ setting.split = "unified" => \A j \in 1..Len(batch) : left[batch[j]] > 0 => batch[j] \in Elements(g)
  BY <1>1, <1>3, GroupIs DEF IsGroup, g
<1>13. ASSUME Equal
       PROVE  keep = Len(g) /\ \A i \in 1..Len(g) : Min(I) = left[g[i]]
  <2>1. PICK l \in DOMAIN g : Min(I) = left[g[l]]
    BY <1>6 DEF I
  <2>2. \A i \in 1..Len(g) : Min(I) = left[g[i]]
    BY <1>3, <1>12, <1>13, <2>1 DEF Equal
  <2>3. \A i \in 1..Len(g) : KeepsTail(left[g[i]] - Min(I))
    <3>1. \A i \in 1..Len(g) : left[g[i]] - Min(I) = 0
      BY <1>4, <2>2
    <3>2. QED BY <3>1 DEF KeepsTail
  <2>4. Len(g) \in J
    BY <1>3, <2>3
  <2> HIDE DEF J, keep
  <2>5. Len(g) <= keep /\ keep <= Len(g) /\ keep \in Nat
    BY <1>3, <1>10, <2>4
  <2>6. keep = Len(g)
    <3> DEFINE n == Len(g)
    <3>1. n \in Nat /\ n <= keep /\ keep <= n
      BY <1>3, <2>5
    <3> HIDE DEF n
    <3>2. QED BY <2>5, <3>1 DEF n
  <2>7. QED BY <2>2, <2>6
<1> HIDE DEF J, keep
<1>14. CASE keep = 0
  <2>1. NextUbatch.seqs = <<g[1]>> /\ NextUbatch.tokens = left[g[1]]
    BY <1>2, <1>14
  <2>2. <<g[1]>> \in Seq(Seqs) /\ Len(<<g[1]>>) = 1 /\ <<g[1]>>[1] = g[1] /\ <<g[1]>> # <<>>
    BY <1>3
  <2>3. KeepsTail(left[g[1]] - left[g[1]])
    BY <1>3, <1>4 DEF KeepsTail
  <2>4. ~Equal
    BY <1>3, <1>14, <1>13
  <2>5. QED BY <1>3, <1>4, <2>1, <2>2, <2>3, <2>4 DEF IsUbatch, Distinct
<1>15. CASE keep # 0
  <2> DEFINE v == SubSeq(g, 1, keep)
  <2>1. NextUbatch.seqs = v /\ NextUbatch.tokens = Min(I)
    BY <1>2, <1>15
  <2>2. keep \in 1..Len(g)
    BY <1>10, <1>15
  <2>3. v \in Seq(Seqs) /\ Len(v) = keep /\ \A i \in 1..keep : v[i] = g[i]
    BY <1>1, <1>3, <2>2, SubSeqProperties
  <2> HIDE DEF v
  <2>4. v # <<>>
    BY <2>2, <2>3
  <2>5. \A i \in 1..keep : i \in 1..Len(g)
    BY <2>2, <1>3
  <2>6. setting.split = "serial" => Len(v) = 1
    BY <1>3, <1>12, <2>2, <2>3
  <2>7. ASSUME setting.split = "unified", Equal, NEW j \in 1..Len(batch), left[batch[j]] > 0
        PROVE  batch[j] \in Elements(v) /\ Min(I) = left[batch[j]]
    <3>1. PICK i \in 1..Len(g) : g[i] = batch[j]
      BY <1>12, <2>7 DEF Elements
    <3>2. keep = Len(g) /\ Min(I) = left[g[i]]
      BY <1>13, <2>7
    <3>3. QED BY <2>3, <3>1, <3>2 DEF Elements
  <2>8. \A i \in 1..keep : KeepsTail(left[v[i]] - Min(I))
    BY <1>11, <2>3
  <2>9. /\ Distinct(v) /\ \A i \in 1..Len(v) : Min(I) <= left[v[i]]
        /\ \A i \in 1..Len(v) : KeepsTail(left[v[i]] - Min(I))
    BY <1>1, <1>7, <2>3, <2>5, <2>8 DEF Distinct
  <2>10. QED BY <1>8, <2>1, <2>3, <2>4, <2>6, <2>7, <2>9 DEF IsUbatch
<1>16. QED BY <1>14, <1>15

-----------------------------------------------------------------------------
(* The batch that update_slots() builds. *)

(* Ascending lists each member of a set of sequences once. *)
LEMMA AscendingIs ==
  ASSUME NEW S \in SUBSET Seqs
  PROVE  /\ Ascending(S) \in Seq(Seqs) /\ Distinct(Ascending(S))
         /\ Elements(Ascending(S)) = S
<1> DEFINE n == Cardinality(S)
           rank == [s \in S |-> Cardinality({t \in S : t <= s})]
<1>1. IsFiniteSet(S) /\ n \in Nat
  BY CellsAreFinite, FS_Subset, FS_CardinalityType DEF Seqs
<1>2. S \in SUBSET Nat
  BY CellsAreNats DEF Seqs
<1>3. ASSUME NEW s \in S
      PROVE  /\ IsFiniteSet({t \in S : t <= s})
             /\ rank[s] \in 1..n
  <2> DEFINE below == {t \in S : t <= s}
  <2>1. below \in SUBSET S /\ s \in below
    BY <1>2
  <2>2. IsFiniteSet(below) /\ Cardinality(below) <= n
    BY <1>1, <2>1, FS_Subset
  <2>3. Cardinality(below) \in Nat /\ Cardinality(below) # 0
    BY <2>1, <2>2, FS_CardinalityType, FS_EmptySet
  <2>4. rank[s] = Cardinality(below)
    OBVIOUS
  <2> HIDE DEF below, rank, n
  <2>5. rank[s] \in 1..n
    BY <1>1, <2>2, <2>3, <2>4
  <2>6. QED BY <2>2, <2>5 DEF below
<1>4. ASSUME NEW s \in S, NEW t \in S, s < t PROVE rank[s] < rank[t]
  <2> DEFINE A == {v \in S : v <= s}
             B == {v \in S : v <= t}
  <2>1. A \in SUBSET B /\ t \in B /\ t \notin A
    <3>1. \A v \in S : v \in Nat
      BY <1>2
    <3>2. \A v \in S : v <= s => v <= t
      BY <1>4, <3>1
    <3>3. ~(t <= s) /\ t <= t
      BY <1>4, <3>1
    <3>4. QED BY <3>2, <3>3
  <2>2. IsFiniteSet(B) /\ IsFiniteSet(A)
    BY <1>3
  <2>3. Cardinality(A) <= Cardinality(B) /\ Cardinality(B) # Cardinality(A)
    <3> HIDE DEF A, B
    <3>1. Cardinality(A) <= Cardinality(B) /\ (Cardinality(B) = Cardinality(A) => B = A)
      BY <2>1, <2>2, FS_Subset
    <3>2. QED BY <2>1, <3>1
  <2>4. rank[s] = Cardinality(A) /\ rank[t] = Cardinality(B)
    OBVIOUS
  <2>5. Cardinality(A) \in Nat /\ Cardinality(B) \in Nat
    BY <2>2, FS_CardinalityType
  <2> HIDE DEF A, B, rank
  <2>6. QED BY <2>3, <2>4, <2>5
<1> HIDE DEF n
<1>5. ASSUME NEW s \in S, NEW t \in S, rank[s] = rank[t] PROVE s = t
  <2>1. s < t \/ t < s \/ s = t
    BY <1>2
  <2>2. rank[s] \in Nat /\ rank[t] \in Nat
    BY <1>3
  <2> HIDE DEF rank
  <2>3. QED BY <1>4, <1>5, <2>1, <2>2
<1>6. rank \in Injection(S, 1..n)
  <2>1. rank \in [S -> 1..n]
    BY <1>3
  <2> HIDE DEF rank
  <2>2. QED BY <2>1, <1>5, Zenon DEF Injection, IsInjective
<1>7. IsFiniteSet(1..n) /\ Cardinality(1..n) = n
  BY <1>1, FS_Interval
<1>8. rank \in Surjection(S, 1..n)
  <2> HIDE DEF rank
  <2>1. Cardinality(S) = Cardinality(1..n)
    BY <1>7 DEF n
  <2>2. QED BY <1>6, <1>7, <2>1, FS_Injection
<1>9. ASSUME NEW k \in 1..n PROVE Nth(S, k) \in S /\ rank[Nth(S, k)] = k
  <2>1. \E s \in S : rank[s] = k
    <3> HIDE DEF rank
    <3>1. QED BY <1>8, Zenon DEF Surjection
  <2>2. \E s \in S : Cardinality({t \in S : t <= s}) = k
    BY <2>1
  <2>3. Nth(S, k) \in S /\ Cardinality({t \in S : t <= Nth(S, k)}) = k
    <3> DEFINE P(s) == Cardinality({t \in S : t <= s}) = k
    <3>1. \E s \in S : P(s)
      BY <2>2
    <3>2. Nth(S, k) = CHOOSE s \in S : P(s)
      BY DEF Nth
    <3> HIDE DEF P
    <3>3. Nth(S, k) \in S /\ P(Nth(S, k))
      BY <3>1, <3>2, Zenon
    <3>4. QED BY <3>3 DEF P
  <2>4. QED BY <2>3
<1> HIDE DEF rank
<1>10. Ascending(S) = [k \in 1..n |-> Nth(S, k)]
  BY DEF Ascending, n
<1>11. Ascending(S) \in Seq(Seqs) /\ Len(Ascending(S)) = n
  BY <1>1, <1>9, <1>10
<1>12. \A k \in 1..n : Ascending(S)[k] = Nth(S, k)
  BY <1>10
<1>13. Distinct(Ascending(S))
  BY <1>9, <1>11, <1>12 DEF Distinct
<1>14. Elements(Ascending(S)) \subseteq S
  BY <1>9, <1>11, <1>12 DEF Elements
<1>15. ASSUME NEW s \in S PROVE s \in Elements(Ascending(S))
  <2>1. rank[s] \in 1..n
    BY <1>3
  <2>2. Nth(S, rank[s]) = s
    BY <2>1, <1>5, <1>9
  <2>3. QED BY <2>1, <2>2, <1>11, <1>12 DEF Elements
<1>16. QED BY <1>11, <1>13, <1>14, <1>15

(* So the batch has each sequence that generates or has a prompt once. *)
LEMMA BatchIs ==
  ASSUME NEW G \in SUBSET Seqs, NEW P \in SUBSET Seqs, G \cap P = {}
  PROVE  LET b == Ascending(G) \o Ascending(P)
         IN  b \in Seq(Seqs) /\ Distinct(b) /\ Elements(b) = G \cup P
<1> DEFINE g == Ascending(G)
           p == Ascending(P)
           b == g \o p
<1>1. /\ g \in Seq(Seqs) /\ Distinct(g) /\ Elements(g) = G
      /\ p \in Seq(Seqs) /\ Distinct(p) /\ Elements(p) = P
  BY AscendingIs
<1> HIDE DEF g, p
<1>2. Len(g) \in Nat /\ Len(p) \in Nat
  BY <1>1
<1>3. /\ b \in Seq(Seqs) /\ Len(b) = Len(g) + Len(p)
      /\ \A i \in 1..Len(b) : b[i] = IF i <= Len(g) THEN g[i] ELSE p[i - Len(g)]
  BY <1>1, ConcatProperties
<1> HIDE DEF b
<1>4. \A i \in 1..Len(g) : g[i] \in G
  BY <1>1 DEF Elements
<1>5. \A i \in 1..Len(p) : p[i] \in P
  BY <1>1 DEF Elements
<1>6. Distinct(b)
  <2> SUFFICES ASSUME NEW i \in 1..Len(b), NEW j \in 1..Len(b), b[i] = b[j] PROVE i = j
    BY DEF Distinct
  <2>1. \A l \in 1..Len(b) : IF l <= Len(g) THEN l \in 1..Len(g) ELSE l - Len(g) \in 1..Len(p)
    BY <1>2, <1>3
  <2>2. CASE i <= Len(g) /\ j <= Len(g)
    BY <2>1, <2>2, <1>1, <1>3 DEF Distinct
  <2>3. CASE ~(i <= Len(g)) /\ ~(j <= Len(g))
    <3>1. i - Len(g) = j - Len(g)
      BY <2>1, <2>3, <1>1, <1>3 DEF Distinct
    <3>2. QED BY <3>1, <1>2
  <2>4. CASE i <= Len(g) /\ ~(j <= Len(g))
    <3>1. b[i] \in G /\ b[j] \in P
      BY <2>1, <2>4, <1>3, <1>4, <1>5
    <3>2. QED BY <3>1
  <2>5. CASE ~(i <= Len(g)) /\ j <= Len(g)
    <3>1. b[i] \in P /\ b[j] \in G
      BY <2>1, <2>5, <1>3, <1>4, <1>5
    <3>2. QED BY <3>1
  <2>6. QED BY <2>2, <2>3, <2>4, <2>5
<1>7. Elements(b) \subseteq G \cup P
  <2> SUFFICES ASSUME NEW i \in 1..Len(b) PROVE b[i] \in G \cup P
    BY DEF Elements
  <2>1. IF i <= Len(g) THEN i \in 1..Len(g) ELSE i - Len(g) \in 1..Len(p)
    BY <1>2, <1>3
  <2>2. QED BY <2>1, <1>3, <1>4, <1>5
<1>8. ASSUME NEW s \in G \cup P PROVE s \in Elements(b)
  <2>1. CASE s \in G
    <3>1. PICK i \in 1..Len(g) : g[i] = s
      BY <2>1, <1>1 DEF Elements
    <3>2. i \in 1..Len(b) /\ b[i] = s
      BY <3>1, <1>2, <1>3
    <3>3. QED BY <3>2 DEF Elements
  <2>2. CASE s \in P
    <3>1. PICK i \in 1..Len(p) : p[i] = s
      BY <2>2, <1>1 DEF Elements
    <3>2. i + Len(g) \in 1..Len(b) /\ ~(i + Len(g) <= Len(g)) /\ (i + Len(g)) - Len(g) = i
      BY <1>2, <1>3
    <3>3. b[i + Len(g)] = s
      BY <3>1, <3>2, <1>3
    <3>4. QED BY <3>2, <3>3 DEF Elements
  <2>3. QED BY <2>1, <2>2
<1>9. QED BY <1>3, <1>6, <1>7, <1>8 DEF b, g, p

-----------------------------------------------------------------------------
(* The memory between two calls, and what the calls make of it. *)

(* In order: typed and counted, each cell its own source, tails right. *)
MemoryOK(m) ==
  /\ m \in Memory /\ OwnSources(m) /\ Placed(m, {})
  /\ m.used = Cardinality({c \in Cells : m.cells[c].seqs # {}})

(* The tokens that the memory m has of s. *)
TokensIn(m, s) == IF m.tail[s] = None THEN 0 ELSE m.cells[m.tail[s]].pos + 1

(* They fit, and a sequence that has some has a cell. *)
LEMMA TokensAre ==
  ASSUME NEW m \in Memory, NEW s \in Seqs
  PROVE  TokensIn(m, s) \in 0..MaxTokens /\ (TokensIn(m, s) > 0 => m.tail[s] \in Cells)
<1>1. m.tail[s] \in Cells \cup {None}
  BY DEF Memory
<1>2. CASE m.tail[s] \in Cells
  <2>1. m.cells[m.tail[s]].pos \in None..(MaxTokens - 1) /\ m.tail[s] # None
    BY <1>2, CellsAreFinite DEF Memory, Cell
  <2>2. QED BY <1>2, <2>1, SizeAssumption DEF TokensIn, None
<1>3. CASE m.tail[s] = None
  BY <1>3, SizeAssumption DEF TokensIn
<1>4. QED BY <1>1, <1>2, <1>3

(* seq_rm() of a whole sequence. *)
Removed(m, r, s) ==
  /\ MemoryOK(r)
  /\ r.tail[s] = None
  /\ \A t \in Seqs \ {s} : r.tail[t] = m.tail[t] /\ TokensIn(r, t) = TokensIn(m, t)
  /\ Blank(r) \subseteq Blank(m)

(* s has no cell afterwards, the others what they had. *)
LEMMA SeqRmAllResult ==
  ASSUME NEW m, MemoryOK(m), NEW s \in Seqs
  PROVE  Removed(m, SeqRmAll(m, s), s)
<1> DEFINE freed == FreedBy(m, s)
           cells == [c \in Cells |-> IF c \in freed THEN Empty ELSE [m.cells[c] EXCEPT !.seqs = @ \ {s}]]
           tail  == [m.tail EXCEPT ![s] = None]
           used  == m.used - Cardinality(freed)
           head  == IF freed = {} THEN m.head ELSE Min(freed \cup {m.head})
           r     == SeqRmAll(m, s)
           full  == {c \in Cells : m.cells[c].seqs # {}}
           kept == {c \in Cells : cells[c].seqs # {}}
<1>1. /\ m \in Memory /\ m.cells \in [Cells -> Cell] /\ m.tail \in [Seqs -> Cells \cup {None}]
      /\ m.head \in Cells /\ OwnSources(m) /\ Placed(m, {}) /\ m.used = Cardinality(full)
  BY DEF MemoryOK, Memory
<1>2. r = [cells |-> cells, tail |-> tail, used |-> used, head |-> head]
  BY DEF SeqRmAll
<1>3. \A c \in Cells : c \in freed <=> m.cells[c].seqs = {s}
  BY DEF FreedBy
<1>4. freed \in SUBSET full /\ freed \in SUBSET Cells
  BY DEF FreedBy
<1> HIDE DEF freed
<1>5. ASSUME NEW c \in Cells
      PROVE  /\ cells[c] \in Cell
             /\ cells[c].seqs = m.cells[c].seqs \ {s}
             /\ cells[c].src \in {None, c} /\ (cells[c].seqs # {} => cells[c].src = c)
             /\ c \notin freed => cells[c].pos = m.cells[c].pos /\ cells[c].src = m.cells[c].src
             /\ c \in freed => cells[c].src = None
  <2>1. m.cells[c] \in Cell
    BY <1>1
  <2>2. CASE c \in freed
    <3>1. cells[c] = Empty /\ m.cells[c].seqs = {s}
      BY <1>3, <2>2
    <3>2. Empty \in Cell /\ Empty.seqs = {} /\ Empty.src = None
      BY SizeAssumption DEF Empty, Cell, None
    <3> HIDE DEF cells
    <3>3. QED BY <2>2, <3>1, <3>2
  <2>3. CASE c \notin freed
    <3>1. cells[c] = [m.cells[c] EXCEPT !.seqs = @ \ {s}]
      BY <2>3
    <3>2. m.cells[c].src \in {None, c} /\ (m.cells[c].seqs # {} => m.cells[c].src = c)
      BY <1>1 DEF OwnSources
    <3> HIDE DEF cells
    <3>3. QED BY <2>1, <2>3, <3>1, <3>2 DEF Cell
  <2>4. QED BY <2>2, <2>3
<1>6. cells \in [Cells -> Cell]
  <2>1. \A c \in Cells : cells[c] \in Cell
    BY <1>5
  <2>2. QED BY <2>1
<1> HIDE DEF cells
<1>7. tail \in [Seqs -> Cells \cup {None}]
  BY <1>1
<1>8. \A t \in Seqs : tail[t] = IF t = s THEN None ELSE m.tail[t]
  BY <1>1
<1> HIDE DEF tail
<1>9. head \in Cells
  <2>1. freed \cup {m.head} \in SUBSET Nat
    BY <1>1, <1>4, CellsAreNats
  <2>2. Min(freed \cup {m.head}) \in freed \cup {m.head}
    BY <2>1, MinOfNats
  <2>3. QED BY <1>1, <1>4, <2>2
<1>10. kept = full \ freed
  <2>1. ASSUME NEW c \in Cells PROVE c \in kept <=> c \in full \ freed
    <3>1. m.cells[c].seqs \ {s} # {} <=> m.cells[c].seqs # {} /\ m.cells[c].seqs # {s}
      OBVIOUS
    <3>2. QED BY <3>1, <1>3, <1>5
  <2>2. QED BY <2>1
<1>11. IsFiniteSet(full) /\ IsFiniteSet(freed) /\ IsFiniteSet(kept)
  BY <1>4, CellsAreFinite, FS_Subset
<1>12. used = Cardinality(kept)
  <2>1. full \cap freed = freed
    BY <1>4
  <2>2. Cardinality(full \ freed) = Cardinality(full) - Cardinality(full \cap freed)
    BY <1>11, FS_Difference
  <2>3. QED BY <1>1, <1>10, <2>1, <2>2
<1>13. used \in 0..NSeqMax
  <2>1. Cardinality(kept) <= NSeqMax
    BY CellsAreFinite, FS_Subset
  <2>2. Cardinality(kept) \in Nat
    BY <1>11, FS_CardinalityType
  <2> HIDE DEF used, kept
  <2>3. QED BY <1>12, <2>1, <2>2, SizeAssumption
<1> HIDE DEF used, head, full
<1>14. /\ r.cells = cells /\ r.tail = tail /\ r.used = used /\ r.head = head
       /\ r \in Memory
  BY <1>2, <1>6, <1>7, <1>9, <1>13 DEF Memory
<1> HIDE DEF r
<1>15. OwnSources(r)
  BY <1>5, <1>14 DEF OwnSources
<1>16. \A c \in Cells : \A t \in m.cells[c].seqs : t \in Seqs /\ m.tail[t] = c
  BY <1>1 DEF Placed, Cell
<1>17. \A t \in Seqs : m.tail[t] # None => m.tail[t] \in Cells /\ t \in m.cells[m.tail[t]].seqs
  BY <1>1 DEF Placed
<1>18. Placed(r, {})
  <2>1. ASSUME NEW c \in Cells, NEW t \in r.cells[c].seqs PROVE r.tail[t] = c
    <3>1. t \in m.cells[c].seqs /\ t # s
      BY <1>5, <1>14
    <3>2. QED BY <3>1, <1>8, <1>14, <1>16
  <2>2. ASSUME NEW t \in Seqs, r.tail[t] # None PROVE t \in r.cells[r.tail[t]].seqs
    <3>1. t # s /\ r.tail[t] = m.tail[t]
      BY <1>8, <1>14, <2>2
    <3>2. m.tail[t] \in Cells /\ t \in m.cells[m.tail[t]].seqs
      BY <1>17, <2>2, <3>1
    <3>3. QED BY <1>5, <1>14, <3>1, <3>2
  <2>3. QED BY <2>1, <2>2 DEF Placed
<1>19. r.used = Cardinality({c \in Cells : r.cells[c].seqs # {}})
  BY <1>12, <1>14
<1>20. ASSUME NEW t \in Seqs \ {s} PROVE r.tail[t] = m.tail[t] /\ TokensIn(r, t) = TokensIn(m, t)
  <2>1. r.tail[t] = m.tail[t]
    BY <1>8, <1>14
  <2>2. ASSUME m.tail[t] # None PROVE r.cells[m.tail[t]].pos = m.cells[m.tail[t]].pos
    <3>1. m.tail[t] \in Cells /\ t \in m.cells[m.tail[t]].seqs
      BY <1>17, <2>2
    <3>2. m.tail[t] \notin freed
      BY <1>3, <3>1
    <3>3. QED BY <1>5, <1>14, <3>1, <3>2
  <2>3. QED BY <2>1, <2>2 DEF TokensIn
<1>21. r.tail[s] = None
  BY <1>8, <1>14
<1>22. Blank(r) \subseteq Blank(m)
  <2> SUFFICES ASSUME NEW c \in Cells, r.cells[c].seqs = {}, r.cells[c].src = c
               PROVE  m.cells[c].seqs = {} /\ m.cells[c].src = c
    BY DEF Blank
  <2>1. c \notin freed
    BY <1>5, <1>14, CellsAreFinite
  <2>2. m.cells[c].seqs \subseteq {s} /\ m.cells[c].seqs # {s}
    BY <1>3, <1>5, <1>14, <2>1
  <2>3. QED BY <1>5, <1>14, <2>1, <2>2
<1>23. Removed(m, r, s)
  BY <1>14, <1>15, <1>18, <1>19, <1>20, <1>21, <1>22 DEF Removed, MemoryOK
<1>24. QED BY <1>23 DEF r

(* seq_cp() to a sequence that has just been removed. *)
Copied(m, r, a, b) ==
  /\ MemoryOK(r)
  /\ \A t \in Seqs : /\ r.tail[t] = IF t = b THEN m.tail[a] ELSE m.tail[t]
                     /\ TokensIn(r, t) = IF t = b THEN TokensIn(m, a) ELSE TokensIn(m, t)
  /\ Blank(r) \subseteq Blank(m)

(* b has the tokens of a afterwards, the others what they had. *)
LEMMA SeqCpResult ==
  ASSUME NEW m, MemoryOK(m), NEW a \in Seqs, NEW b \in Seqs, a # b,
         m.tail[a] # None, m.tail[b] = None
  PROVE  Copied(m, SeqCp(m, a, b), a, b)
<1> DEFINE rest  == [c \in Cells |-> IF c \in {} THEN Empty ELSE [m.cells[c] EXCEPT !.seqs = @ \ {b}]]
           e     == m.tail[a]
           cells == [rest EXCEPT ![e].seqs = @ \cup {b}]
           tail  == [m.tail EXCEPT ![b] = e]
           used  == m.used - Cardinality({})
           r     == SeqCp(m, a, b)
<1>1. /\ m \in Memory /\ m.cells \in [Cells -> Cell] /\ m.tail \in [Seqs -> Cells \cup {None}]
      /\ m.head \in Cells /\ m.used \in 0..NSeqMax /\ OwnSources(m) /\ Placed(m, {})
      /\ m.used = Cardinality({c \in Cells : m.cells[c].seqs # {}})
  BY DEF MemoryOK, Memory
<1>2. r = [m EXCEPT !.tail[b] = e, !.used = used, !.cells = cells]
  BY DEF SeqCp
<1>3. e \in Cells /\ a \in m.cells[e].seqs
  BY <1>1 DEF Placed
<1>4. \A c \in Cells : \A t \in m.cells[c].seqs : t \in Seqs /\ m.tail[t] = c
  BY <1>1 DEF Placed, Cell
<1>5. \A c \in Cells : b \notin m.cells[c].seqs
  BY <1>4, CellsAreFinite
<1>6. ASSUME NEW c \in Cells PROVE rest[c] = m.cells[c]
  <2>1. m.cells[c] \in Cell /\ m.cells[c].seqs \ {b} = m.cells[c].seqs
    BY <1>1, <1>5
  <2>2. rest[c] = [m.cells[c] EXCEPT !.seqs = @ \ {b}]
    OBVIOUS
  <2> HIDE DEF rest
  <2>3. QED BY <2>1, <2>2 DEF Cell
<1>7. rest = m.cells
  <2>1. rest = [c \in Cells |-> rest[c]]
    OBVIOUS
  <2> HIDE DEF rest
  <2>2. QED BY <1>1, <1>6, <2>1
<1> HIDE DEF rest
<1>8. cells = [m.cells EXCEPT ![e] = [m.cells[e] EXCEPT !.seqs = @ \cup {b}]]
  BY <1>7
<1>9. ASSUME NEW c \in Cells
      PROVE  /\ cells[c] \in Cell
             /\ cells[c].seqs = IF c = e THEN m.cells[c].seqs \cup {b} ELSE m.cells[c].seqs
             /\ cells[c].src = m.cells[c].src /\ cells[c].pos = m.cells[c].pos
  <2>1. m.cells[c] \in Cell
    BY <1>1
  <2>2. cells[c] = IF c = e THEN [m.cells[c] EXCEPT !.seqs = @ \cup {b}] ELSE m.cells[c]
    BY <1>1, <1>8
  <2> HIDE DEF cells, e
  <2>3. QED BY <2>1, <2>2 DEF Cell
<1>10. cells \in [Cells -> Cell]
  <2>1. m.cells[e] \in Cell
    BY <1>1, <1>3
  <2>2. [m.cells[e] EXCEPT !.seqs = @ \cup {b}] \in Cell
    BY <2>1 DEF Cell
  <2>3. QED BY <1>1, <1>8, <2>2
<1>11. /\ tail \in [Seqs -> Cells \cup {None}]
       /\ \A t \in Seqs : tail[t] = IF t = b THEN e ELSE m.tail[t]
  BY <1>1, <1>3
<1>12. used = m.used
  BY <1>1, FS_EmptySet, SizeAssumption
<1> HIDE DEF cells
<1>13. /\ r.cells = cells /\ r.tail = tail /\ r.used = m.used /\ r.head = m.head
       /\ r \in Memory
  <2> HIDE DEF used, e
  <2>1. r = [m EXCEPT !.tail = tail, !.used = used, !.cells = cells]
    BY <1>2 DEF e
  <2> HIDE DEF r, tail
  <2>2. QED BY <1>1, <1>10, <1>11, <1>12, <2>1 DEF Memory
<1> HIDE DEF r, tail, e
<1>14. OwnSources(r)
  <2>1. \A c \in Cells : cells[c].seqs # {} <=> m.cells[c].seqs # {}
    BY <1>3, <1>9
  <2>2. QED BY <1>1, <1>9, <1>13, <2>1 DEF OwnSources
<1>15. Placed(r, {})
  <2>1. ASSUME NEW c \in Cells, NEW t \in cells[c].seqs PROVE tail[t] = c
    <3>1. CASE t = b
      BY <3>1, <1>5, <1>9, <1>11
    <3>2. CASE t # b
      <4>1. t \in m.cells[c].seqs
        <5>1. cells[c].seqs \subseteq m.cells[c].seqs \cup {b}
          BY <1>9
        <5>2. QED BY <5>1, <3>2
      <4>2. QED BY <3>2, <4>1, <1>4, <1>11
    <3>3. QED BY <3>1, <3>2
  <2>2. ASSUME NEW t \in Seqs, tail[t] # None PROVE t \in cells[tail[t]].seqs
    <3>1. CASE t = b
      BY <3>1, <1>3, <1>9, <1>11
    <3>2. CASE t # b
      <4>1. tail[t] = m.tail[t] /\ m.tail[t] \in Cells /\ t \in m.cells[m.tail[t]].seqs
        BY <3>2, <2>2, <1>1, <1>11 DEF Placed
      <4>2. QED BY <4>1, <1>9
    <3>3. QED BY <3>1, <3>2
  <2>3. QED BY <2>1, <2>2, <1>13 DEF Placed
<1>16. r.used = Cardinality({c \in Cells : r.cells[c].seqs # {}})
  <2>1. \A c \in Cells : r.cells[c].seqs # {} <=> m.cells[c].seqs # {}
    BY <1>3, <1>9, <1>13
  <2>2. {c \in Cells : r.cells[c].seqs # {}} = {c \in Cells : m.cells[c].seqs # {}}
    BY <2>1
  <2>3. QED BY <1>1, <1>13, <2>2
<1>17. ASSUME NEW t \in Seqs
       PROVE  /\ r.tail[t] = IF t = b THEN m.tail[a] ELSE m.tail[t]
              /\ TokensIn(r, t) = IF t = b THEN TokensIn(m, a) ELSE TokensIn(m, t)
  <2>1. r.tail[t] = IF t = b THEN m.tail[a] ELSE m.tail[t]
    BY <1>11, <1>13 DEF e
  <2>2. m.tail[a] \in Cells \cup {None} /\ m.tail[t] \in Cells \cup {None}
    BY <1>1
  <2>3. r.tail[t] # None => r.cells[r.tail[t]].pos = m.cells[r.tail[t]].pos
    BY <1>9, <1>13, <2>1, <2>2
  <2>4. QED BY <2>1, <2>3 DEF TokensIn
<1>18. Blank(r) \subseteq Blank(m)
  <2>1. \A c \in Cells : r.cells[c].seqs = {} => m.cells[c].seqs = {}
    BY <1>9, <1>13
  <2>2. \A c \in Cells : r.cells[c].src = m.cells[c].src
    BY <1>9, <1>13
  <2>3. QED BY <2>1, <2>2 DEF Blank
<1>19. QED
  <2>1. Copied(m, r, a, b)
    BY <1>13, <1>14, <1>15, <1>16, <1>17, <1>18 DEF Copied, MemoryOK
  <2>2. QED BY <2>1 DEF r

(* What find_slot() does to the tokens: those of u as wanted, no others. *)
LEMMA FoundIs ==
  ASSUME NEW m \in Memory, NEW u \in Seq(Seqs), NEW last, NEW f, Found(f, m, u, last)
  PROVE  /\ MemoryOK(f.mem)
         /\ \A t \in Seqs : t \notin Elements(u) => TokensIn(f.mem, t) = TokensIn(m, t)
         /\ \A t \in Elements(u) : /\ TokensIn(f.mem, t) = last[t] + 1
                                   /\ f.mem.tail[t] \in f.range
                                   /\ f.mem.cells[f.mem.tail[t]].seqs = {t}
<1>1. MemoryOK(f.mem)
  BY DEF Found, MemoryOK
<1>2. ASSUME NEW t \in Seqs, t \notin Elements(u) PROVE TokensIn(f.mem, t) = TokensIn(m, t)
  BY <1>2 DEF Found, Others, TokensIn
<1>3. ASSUME NEW t \in Elements(u)
      PROVE  /\ TokensIn(f.mem, t) = last[t] + 1
             /\ f.mem.tail[t] \in f.range
             /\ f.mem.cells[f.mem.tail[t]].seqs = {t}
  <2>1. PICK i \in 1..Len(u) : u[i] = t
    BY DEF Elements
  <2> DEFINE c == f.mem.head + i - 1
  <2>2. f.mem.tail[t] = c /\ f.mem.cells[c].seqs = {t} /\ f.mem.cells[c].pos = last[t]
    BY <2>1 DEF Found
  <2>3. f.mem.head \in Nat /\ Len(u) \in Nat
    <3>1. f.mem.head \in Cells
      BY DEF Found, Memory
    <3>2. f.mem.head \in Nat
      BY <3>1, CellsAreNats, Zenon
    <3>3. Len(u) \in Nat
      OBVIOUS
    <3>4. QED BY <3>2, <3>3
  <2>4. c \in f.mem.head..(f.mem.head + Len(u) - 1)
    BY <2>1, <2>3
  <2> HIDE DEF c
  <2>5. c \in f.range /\ c # None
    BY <2>4, CellsAreFinite DEF Found
  <2>6. QED BY <2>2, <2>5 DEF TokensIn
<1>4. QED BY <1>1, <1>2, <1>3

-----------------------------------------------------------------------------
(* The state tensors keep their type. *)

(* Taking tokens of a sequence back renames pairs of the same type. *)
LEMMA ShortenType ==
  ASSUME NEW R, NEW d \in [R -> SUBSET StatePairs], NEW s, NEW n
  PROVE  Shorten(d, s, n) \in [R -> SUBSET StatePairs]
BY DEF Shorten

(* So does making one sequence the beginning of another. *)
LEMMA BecomeType ==
  ASSUME NEW R, NEW d \in [R -> SUBSET StatePairs], NEW s \in Seqs \cup {Saved}, NEW o, NEW n
  PROVE  Become(d, s, o, n) \in [R -> SUBSET StatePairs]
<1> DEFINE e == Shorten(d, s, 0)
           more(r) == {<<s, p[2]>> : p \in {q \in e[r] : q[1] = o /\ q[2] <= n}}
<1>1. e \in [R -> SUBSET StatePairs]
  BY ShortenType
<1> HIDE DEF e
<1>2. ASSUME NEW r \in R PROVE e[r] \cup more(r) \in SUBSET StatePairs
  <2>1. \A p \in e[r] : p \in StatePairs
    BY <1>1
  <2>2. \A p \in e[r] : <<s, p[2]>> \in StatePairs
    BY <2>1 DEF StatePairs
  <2>3. QED BY <2>1, <2>2
<1>3. DOMAIN d = R
  OBVIOUS
<1>4. Become(d, s, o, n) = [r \in R |-> e[r] \cup more(r)]
  BY <1>3 DEF Become, e
<1> HIDE DEF more
<1>5. QED BY <1>2, <1>4

-----------------------------------------------------------------------------
(* The invariant.  Each sequence with tokens left is in the batch once; the  *)
(* batch fits; a draft has been decoded in part at most, or it has been      *)
(* decoded into a cell of the sequence's own and its rollback was used up.   *)

BatchInv ==
  /\ Distinct(batch)
  /\ \A s \in Seqs : left[s] > 0 => s \in Elements(batch)
  /\ batch # <<>> => \E s \in Seqs : left[s] > 0

FitsInv == saved <= setting.max /\ \A s \in Seqs : Tokens(s) + left[s] <= setting.max

DraftInv ==
  \A s \in Seqs : drafted[s] > 0 =>
    /\ drafted[s] < Tokens(s) + left[s]
    /\ left[s] > 0 \/ (rs_idx[s] = 0 /\ \A t \in Seqs : mem.tail[t] = mem.tail[s] => t = s)

Inv == TypeOK /\ TailsAgree /\ BatchInv /\ FitsInv /\ DraftInv

(* TailsAgree, of any memory. *)
TailsIn(m) ==
  \A s \in Seqs : {c \in Cells : s \in m.cells[c].seqs}
                  = IF m.tail[s] = None THEN {} ELSE {m.tail[s]}

(* It is the same as the agreement that the loops keep, between two decodes. *)
LEMMA TailsArePlaced ==
  ASSUME NEW m \in Memory
  PROVE  TailsIn(m) <=> Placed(m, {})
<1>1. \A c \in Cells : m.cells[c].seqs \in SUBSET Seqs
  BY DEF Memory, Cell
<1>2. \A s \in Seqs : m.tail[s] \in Cells \cup {None}
  BY DEF Memory
<1>3. ASSUME Placed(m, {}) PROVE TailsIn(m)
  <2> SUFFICES ASSUME NEW s \in Seqs, NEW c \in Cells
               PROVE  s \in m.cells[c].seqs <=> m.tail[s] = c
    BY <1>2, CellsAreFinite DEF TailsIn
  <2>1. s \in m.cells[c].seqs => m.tail[s] = c
    BY <1>3 DEF Placed
  <2>2. m.tail[s] = c => s \in m.cells[c].seqs
    BY <1>3, CellsAreFinite DEF Placed
  <2>3. QED BY <2>1, <2>2
<1>4. ASSUME TailsIn(m) PROVE Placed(m, {})
  <2>1. ASSUME NEW c \in Cells, NEW t \in m.cells[c].seqs PROVE m.tail[t] = c
    <3>1. t \in Seqs
      BY <1>1
    <3>2. c \in {d \in Cells : t \in m.cells[d].seqs}
      BY <2>1
    <3>3. c \in IF m.tail[t] = None THEN {} ELSE {m.tail[t]}
      BY <1>4, <3>1, <3>2 DEF TailsIn
    <3>4. QED BY <3>3
  <2>2. ASSUME NEW t \in Seqs, m.tail[t] # None PROVE t \in m.cells[m.tail[t]].seqs
    <3>1. m.tail[t] \in {d \in Cells : t \in m.cells[d].seqs}
      BY <1>4, <2>2 DEF TailsIn
    <3>2. QED BY <3>1
  <2>3. QED BY <2>1, <2>2 DEF Placed
<1>5. QED BY <1>3, <1>4

(* A setting has sequences of the memory and a bound within MaxTokens. *)
LEMMA SettingIs ==
  ASSUME setting \in Settings
  PROVE  /\ setting.rs \in Nat /\ setting.slots \subseteq Seqs
         /\ setting.max \in 1..MaxTokens /\ 0 \in Planes
BY SettingsAssumption DEF Planes, Seqs, Cells

(* The tokens of a sequence fit. *)
LEMMA TokensType ==
  ASSUME TypeOK, NEW s \in Seqs
  PROVE  /\ Tokens(s) = TokensIn(mem, s) /\ Tokens(s) \in 0..MaxTokens
         /\ Tokens(s) > 0 => mem.tail[s] \in Cells
BY TokensAre DEF TypeOK, Tokens, TokensIn

(* What a graph makes of the state tensors. *)
LEMMA ComputedType ==
  ASSUME TypeOK, FitsInv, NEW u, IsUbatch(u), NEW last, NEW f, Found(f, mem, u.seqs, last)
  PROVE  Computed(f, u) \in [Rows -> SUBSET StatePairs]
<1> DEFINE old == Zeroed(f)
           n(s) == Tokens(s) + u.tokens
           State(s, c, g) == IF g < u.tokens /\ <<s, Tokens(s)>> \in old[SCopy(f, c)]
                             THEN {<<s, n(s) - g>>} ELSE {}
           main == f.mem.head..(f.mem.head + Len(u.seqs) - 1)
           value(r) == CASE r[2] \in main -> State(u.seqs[r[2] - f.mem.head + 1], r[2], r[1])
                         [] r[1] = 0 /\ r[2] \in f.range \ main -> old[SCopy(f, r[2])]
                         [] OTHER -> old[r]
<1>1. /\ f.mem \in Memory /\ f.range \in SUBSET Cells /\ main \subseteq f.range
      /\ f.zero \in Cells \cup {None} /\ f.src0 \in [f.range -> Cells]
  BY DEF Found
<1>2. /\ setting.rs \in Nat /\ setting.max \in 1..MaxTokens /\ 0 \in Planes
      /\ setting \in Settings /\ data \in [Rows -> SUBSET StatePairs] /\ rs_idx \in [Seqs -> Planes]
  BY SettingIs DEF TypeOK
<1>3. old \in [Rows -> SUBSET StatePairs]
  <2>1. Zero \in SUBSET StatePairs
    BY SizeAssumption DEF Zero, StatePairs
  <2>2. old = data \/ old = [data EXCEPT ![<<0, f.zero>>] = Zero]
    BY DEF Zeroed
  <2> HIDE DEF old
  <2>3. QED BY <1>2, <2>1, <2>2
<1> HIDE DEF old
<1>4. ASSUME NEW c \in f.range PROVE SCopy(f, c) \in Rows
  <2> DEFINE k == IF setting.rs = 0 \/ f.mem.cells[c].seqs = {} THEN 0
                  ELSE rs_idx[First(f.mem.cells[c])]
  <2>1. SCopy(f, c) = <<k, f.src0[c]>>
    BY DEF SCopy
  <2>2. c \in Cells /\ f.src0[c] \in Cells
    BY <1>1
  <2>3. f.mem.cells[c].seqs \in SUBSET Seqs
    BY <1>1, <2>2 DEF Memory, Cell
  <2>4. f.mem.cells[c].seqs # {} => First(f.mem.cells[c]) \in Seqs
    <3>1. f.mem.cells[c].seqs \in SUBSET Nat
      BY <2>3, CellsAreNats DEF Seqs
    <3>2. QED BY <2>3, <3>1, MinOfNats DEF First
  <2>5. k \in Planes
    BY <1>2, <2>4
  <2> HIDE DEF k
  <2>6. QED BY <2>1, <2>2, <2>5 DEF Rows
<1>5. ASSUME NEW r \in Rows PROVE value(r) \in SUBSET StatePairs
  <2>1. CASE r[2] \in main
    <3>1. r[2] \in Cells /\ r[1] \in Planes
      <4>1. r[2] \in Cells /\ r[2] # None
        BY <1>1, <2>1, CellsAreFinite
      <4>2. r # SavedRow
        BY <4>1 DEF SavedRow
      <4>3. QED BY <4>2 DEF Rows
    <3> DEFINE i == r[2] - f.mem.head + 1
               s == u.seqs[i]
               g == r[1]
    <3>2. f.mem.head \in Nat /\ u.seqs \in Seq(Seqs) /\ Len(u.seqs) \in Nat
      <4>1. f.mem.head \in Cells
        BY <1>1 DEF Memory
      <4>2. u.seqs \in Seq(Seqs)
        BY DEF IsUbatch
      <4>3. f.mem.head \in Nat
        BY <4>1, CellsAreNats, Zenon
      <4>4. Len(u.seqs) \in Nat
        BY <4>2
      <4>5. QED BY <4>2, <4>3, <4>4
    <3>3. i \in 1..Len(u.seqs)
      BY <2>1, <3>2
    <3> HIDE DEF i
    <3>4. s \in Seqs /\ u.tokens <= left[s] /\ u.tokens \in Nat
      BY <3>2, <3>3 DEF IsUbatch
    <3>5. value(r) = State(s, r[2], g)
      BY <2>1 DEF i
    <3> HIDE DEF value, State, s, g
    <3>6. State(s, r[2], g) = {} \/ (g < u.tokens /\ State(s, r[2], g) = {<<s, n(s) - g>>})
      BY DEF State
    <3>7. Tokens(s) \in Nat /\ left[s] \in Nat /\ Tokens(s) + left[s] <= setting.max
      BY <3>4, TokensType, SizeAssumption DEF FitsInv, TypeOK
    <3>8. g \in Nat
      BY <1>2, <3>1 DEF Planes, g
    <3>9. g < u.tokens => n(s) - g \in 0..MaxTokens
      BY <1>2, <3>4, <3>7, <3>8, SizeAssumption
    <3> HIDE DEF n
    <3>10. QED BY <3>4, <3>5, <3>6, <3>9 DEF StatePairs
  <2>2. CASE r[2] \notin main /\ r[1] = 0 /\ r[2] \in f.range \ main
    <3>1. value(r) = old[SCopy(f, r[2])]
      BY <2>2
    <3>2. SCopy(f, r[2]) \in Rows
      BY <2>2, <1>4
    <3>3. QED BY <3>1, <3>2, <1>3
  <2>3. CASE r[2] \notin main /\ ~(r[1] = 0 /\ r[2] \in f.range \ main)
    <3>1. value(r) = old[r]
      BY <2>3
    <3>2. QED BY <3>1, <1>3
  <2>4. QED BY <2>1, <2>2, <2>3
<1>6. Computed(f, u) = [r \in Rows |-> value(r)]
  BY DEF Computed, old
<1> HIDE DEF value
<1>7. QED BY <1>5, <1>6

-----------------------------------------------------------------------------
(* The invariant is kept. *)

(* The invariant, in the terms of the lemmas on find_slot(). *)
LEMMA InvSays ==
  ASSUME Inv
  PROVE  /\ MemoryOK(mem) /\ mem \in Memory
         /\ \A s \in Seqs : Tokens(s) = TokensIn(mem, s) /\ Tokens(s) \in 0..MaxTokens
         /\ \A s \in Seqs : Tokens(s) > 0 => mem.tail[s] \in Cells
         /\ batch = <<>> => \A s \in Seqs : left[s] = 0
<1>1. mem \in Memory
  BY DEF Inv, TypeOK
<1>2. Placed(mem, {})
  <2>1. TailsIn(mem)
    BY DEF Inv, TailsAgree, TailsIn
  <2>2. QED BY <1>1, <2>1, TailsArePlaced
<1>3. MemoryOK(mem)
  BY <1>1, <1>2 DEF Inv, TypeOK, MemoryOK, OwnSources
<1>4. \A s \in Seqs : /\ Tokens(s) = TokensIn(mem, s) /\ Tokens(s) \in 0..MaxTokens
                      /\ Tokens(s) > 0 => mem.tail[s] \in Cells
  BY TokensType DEF Inv
<1>5. ASSUME batch = <<>>, NEW s \in Seqs PROVE left[s] = 0
  <2>1. Elements(batch) = {}
    BY <1>5 DEF Elements
  <2>2. ~(left[s] > 0)
    BY <2>1 DEF Inv, BatchInv
  <2>3. left[s] \in 0..MaxTokens
    BY DEF Inv, TypeOK
  <2>4. QED BY <2>2, <2>3, SizeAssumption
<1>6. QED BY <1>1, <1>3, <1>4, <1>5

(* What has to be shown of a step. *)
LEMMA InvNext ==
  ASSUME Inv, setting' = setting, MemoryOK(mem'),
         rs_idx' \in [Seqs -> Planes], data' \in [Rows -> SUBSET StatePairs],
         saved' \in 0..MaxTokens, saved' <= setting.max, batch' \in Seq(Seqs),
         left' \in [Seqs -> 0..MaxTokens], drafted' \in [Seqs -> Planes],
         Distinct(batch'),
         \A s \in Seqs : left'[s] > 0 => s \in Elements(batch'),
         batch' # <<>> => \E s \in Seqs : left'[s] > 0,
         \A s \in Seqs : TokensIn(mem', s) + left'[s] <= setting.max,
         \A s \in Seqs : drafted'[s] > 0 =>
           /\ drafted'[s] < TokensIn(mem', s) + left'[s]
           /\ left'[s] > 0 \/ (rs_idx'[s] = 0 /\ \A t \in Seqs : mem'.tail[t] = mem'.tail[s] => t = s)
  PROVE  Inv'
<1>1. Planes' = Planes /\ Rows' = Rows
  BY DEF Planes, Rows
<1>2. TypeOK'
  BY <1>1 DEF Inv, TypeOK, MemoryOK, OwnSources
<1>3. TailsAgree'
  <2>1. TailsIn(mem')
    BY TailsArePlaced DEF MemoryOK
  <2>2. QED BY <2>1 DEF TailsAgree, TailsIn
<1>4. \A s \in Seqs : Tokens(s)' = TokensIn(mem', s)
  BY DEF Tokens, TokensIn
<1>5. BatchInv'
  BY DEF BatchInv
<1>6. FitsInv'
  BY <1>4 DEF FitsInv
<1>7. DraftInv'
  BY <1>4 DEF DraftInv
<1>8. QED BY <1>2, <1>3, <1>5, <1>6, <1>7 DEF Inv

(* Nothing is in the memory at first. *)
LEMMA InvHoldsFirst == Init => Inv
<1> SUFFICES ASSUME Init PROVE Inv
  OBVIOUS
<1>1. /\ setting.rs \in Nat /\ 0 \in Planes /\ setting.max \in 1..MaxTokens
  BY SettingIs DEF Init
<1>2. Empty \in Cell /\ Empty.seqs = {} /\ Empty.src = None
  BY SizeAssumption DEF Empty, Cell, None
<1>3. /\ \A c \in Cells : mem.cells[c] = Empty
      /\ \A s \in Seqs : mem.tail[s] = None
      /\ mem.used = 0
  BY DEF Init
<1>4. mem \in Memory
  <2>1. mem.cells \in [Cells -> Cell] /\ mem.tail \in [Seqs -> Cells \cup {None}]
    BY <1>2 DEF Init
  <2>2. 0 \in Cells /\ 0 \in 0..NSeqMax
    BY SizeAssumption DEF Cells
  <2>3. QED BY <2>1, <2>2 DEF Init, Memory
<1>5. mem.used = Cardinality({c \in Cells : mem.cells[c].seqs # {}})
  <2>1. {c \in Cells : mem.cells[c].seqs # {}} = {}
    BY <1>2, <1>3
  <2>2. QED BY <1>3, <2>1, FS_EmptySet
<1>6. Zero \in SUBSET StatePairs
  BY SizeAssumption DEF Zero, StatePairs
<1>7. TypeOK
  <2>1. rs_idx \in [Seqs -> Planes] /\ drafted \in [Seqs -> Planes]
    BY <1>1 DEF Init
  <2>2. data \in [Rows -> SUBSET StatePairs]
    BY <1>6 DEF Init
  <2>3. saved \in 0..MaxTokens /\ left \in [Seqs -> 0..MaxTokens] /\ batch \in Seq(Seqs)
    BY SizeAssumption DEF Init
  <2>4. \A c \in Cells : /\ mem.cells[c].src \in {None, c}
                         /\ mem.cells[c].seqs # {} => mem.cells[c].src = c
    BY <1>2, <1>3
  <2>5. setting \in Settings
    BY DEF Init
  <2>6. QED BY <1>4, <1>5, <2>1, <2>2, <2>3, <2>4, <2>5 DEF TypeOK
<1>8. TailsAgree
  BY <1>2, <1>3 DEF TailsAgree
<1>9. BatchInv
  BY DEF Init, BatchInv, Distinct
<1>10. FitsInv
  BY <1>1, <1>3, SizeAssumption DEF Init, FitsInv, Tokens
<1>11. DraftInv
  BY DEF Init, DraftInv
<1>12. QED BY <1>7, <1>8, <1>9, <1>10, <1>11 DEF Inv

(* A new batch has each sequence once, fits, and is decoded before its drafts *)
(* are looked at.                                                            *)
LEMMA StartDecodeKeepsInv ==
  ASSUME Inv, NEW gens \in SUBSET setting.slots, NEW prompts \in SUBSET setting.slots,
         gens \cap prompts = {},
         NEW d \in [gens -> 0..setting.rs], NEW p \in [prompts -> 1..MaxPrompt],
         StartDecode(gens, d, prompts, p)
  PROVE  Inv'
<1> DEFINE tokens(s) == IF s \in gens THEN d[s] + 1 ELSE p[s]
<1>1. /\ setting \in Settings /\ setting.rs \in Nat /\ setting.slots \subseteq Seqs
      /\ setting.max \in 1..MaxTokens /\ 0 \in Planes
  BY SettingIs DEF Inv, TypeOK
<1>2. /\ batch = <<>> /\ gens \cup prompts # {}
      /\ \A s \in gens : Tokens(s) > 0
      /\ \A s \in gens \cup prompts : Tokens(s) + tokens(s) <= setting.max
      /\ batch' = Ascending(gens) \o Ascending(prompts)
      /\ left' = [s \in Seqs |-> IF s \in gens \cup prompts THEN tokens(s) ELSE 0]
      /\ drafted' = [s \in Seqs |-> IF s \in gens THEN d[s] ELSE 0]
      /\ setting' = setting /\ mem' = mem /\ rs_idx' = rs_idx /\ data' = data /\ saved' = saved
  BY DEF StartDecode, Settled
<1>3. ASSUME NEW s \in gens \cup prompts PROVE tokens(s) \in Nat \ {0} /\ s \in Seqs
  <2>1. s \in gens => d[s] \in 0..setting.rs
    OBVIOUS
  <2>2. s \notin gens => p[s] \in 1..MaxPrompt
    OBVIOUS
  <2>3. QED BY <1>1, <2>1, <2>2, SizeAssumption
<1> HIDE DEF tokens
<1>4. /\ MemoryOK(mem)
      /\ \A s \in Seqs : Tokens(s) = TokensIn(mem, s) /\ Tokens(s) \in 0..MaxTokens
      /\ \A s \in Seqs : left[s] = 0
  BY <1>2, InvSays
<1>5. /\ batch' \in Seq(Seqs) /\ Distinct(batch') /\ Elements(batch') = gens \cup prompts
  <2>1. gens \in SUBSET Seqs /\ prompts \in SUBSET Seqs
    BY <1>1
  <2>2. QED BY <1>2, <2>1, BatchIs
<1>6. \A s \in Seqs : left'[s] = IF s \in gens \cup prompts THEN tokens(s) ELSE 0
  BY <1>2
<1>7. left' \in [Seqs -> 0..MaxTokens]
  <2>1. ASSUME NEW s \in gens \cup prompts PROVE tokens(s) \in 0..MaxTokens
    <3>1. Tokens(s) + tokens(s) <= setting.max /\ Tokens(s) \in 0..MaxTokens
      BY <1>2, <1>3, <1>4
    <3>2. QED BY <1>1, <1>3, <3>1, SizeAssumption
  <2>2. QED BY <1>2, <2>1, SizeAssumption
<1>8. drafted' \in [Seqs -> Planes]
  BY <1>1, <1>2 DEF Planes
<1>9. \A s \in Seqs : left'[s] > 0 => s \in Elements(batch')
  BY <1>5, <1>6
<1>10. \E s \in Seqs : left'[s] > 0
  <2>1. PICK s \in gens \cup prompts : TRUE
    BY <1>2
  <2>2. QED BY <1>3, <1>6, <2>1
<1>11. \A s \in Seqs : TokensIn(mem', s) + left'[s] <= setting.max
  <2> SUFFICES ASSUME NEW s \in Seqs PROVE TokensIn(mem', s) + left'[s] <= setting.max
    OBVIOUS
  <2>1. Tokens(s) + left[s] <= setting.max
    BY DEF Inv, FitsInv
  <2>2. TokensIn(mem', s) = Tokens(s)
    BY <1>2, <1>4
  <2>3. QED BY <1>2, <1>4, <1>6, <2>1, <2>2
<1>12. ASSUME NEW s \in Seqs, drafted'[s] > 0
       PROVE  left'[s] > 0 /\ drafted'[s] < TokensIn(mem', s) + left'[s]
  <2>1. s \in gens /\ drafted'[s] = d[s] /\ d[s] \in Nat
    <3>1. s \in gens
      BY <1>2, <1>12
    <3>2. QED BY <1>1, <1>2, <3>1
  <2>2. left'[s] = d[s] + 1
    BY <1>6, <2>1 DEF tokens
  <2>3. TokensIn(mem', s) = Tokens(s) /\ Tokens(s) \in Nat
    BY <1>2, <1>4, SizeAssumption
  <2>4. QED BY <2>1, <2>2, <2>3
<1>13. /\ rs_idx' \in [Seqs -> Planes] /\ data' \in [Rows -> SUBSET StatePairs]
       /\ saved' \in 0..MaxTokens /\ saved' <= setting.max
  BY <1>2 DEF Inv, TypeOK, FitsInv
<1>14. MemoryOK(mem')
  BY <1>2, <1>4
<1>15. QED BY <1>2, <1>5, <1>7, <1>8, <1>9, <1>10, <1>11, <1>12, <1>13, <1>14, InvNext

(* A draft that was taken is no longer open. *)
LEMMA AcceptKeepsInv ==
  ASSUME Inv, NEW s \in Seqs, Accept(s)
  PROVE  Inv'
<1>1. /\ setting' = setting /\ mem' = mem /\ rs_idx' = rs_idx /\ data' = data
      /\ saved' = saved /\ batch' = batch /\ left' = left
      /\ drafted' = [drafted EXCEPT ![s] = 0]
  BY DEF Accept
<1>2. /\ MemoryOK(mem)
      /\ \A t \in Seqs : Tokens(t) = TokensIn(mem, t)
  BY InvSays
<1>3. drafted \in [Seqs -> Planes] /\ 0 \in Planes
  BY SettingIs DEF Inv, TypeOK
<1>4. drafted' \in [Seqs -> Planes] /\ \A t \in Seqs : drafted'[t] > 0 => drafted'[t] = drafted[t]
  BY <1>1, <1>3
<1>5. /\ rs_idx' \in [Seqs -> Planes] /\ data' \in [Rows -> SUBSET StatePairs]
      /\ saved' \in 0..MaxTokens /\ batch' \in Seq(Seqs) /\ left' \in [Seqs -> 0..MaxTokens]
  BY <1>1 DEF Inv, TypeOK
<1>6. /\ Distinct(batch')
      /\ \A t \in Seqs : left'[t] > 0 => t \in Elements(batch')
      /\ batch' # <<>> => \E t \in Seqs : left'[t] > 0
  BY <1>1 DEF Inv, BatchInv
<1>7. saved' <= setting.max /\ \A t \in Seqs : TokensIn(mem', t) + left'[t] <= setting.max
  BY <1>1, <1>2 DEF Inv, FitsInv
<1>8. \A t \in Seqs : drafted'[t] > 0 =>
        /\ drafted'[t] < TokensIn(mem', t) + left'[t]
        /\ left'[t] > 0 \/ (rs_idx'[t] = 0 /\ \A v \in Seqs : mem'.tail[v] = mem'.tail[t] => v = t)
  BY <1>1, <1>2, <1>4 DEF Inv, DraftInv
<1>9. MemoryOK(mem')
  BY <1>1, <1>2
<1>10. QED BY <1>1, <1>4, <1>5, <1>6, <1>7, <1>8, <1>9, InvNext

(* What rejecting the last k tokens of s makes of the memory.                *)
Rejected(s, k) ==
  /\ MemoryOK(mem') /\ mem'.tail = mem.tail /\ mem.tail[s] \in Cells
  /\ \A c \in Cells : /\ mem'.cells[c].seqs = mem.cells[c].seqs
                      /\ mem'.cells[c].src = mem.cells[c].src
  /\ \A t \in Seqs : TokensIn(mem', t) = IF t = s THEN Tokens(s) - k ELSE Tokens(t)
  /\ k \in Nat \ {0} /\ k <= drafted[s] /\ k < Tokens(s)
  /\ \A t \in Seqs : mem.tail[t] = mem.tail[s] => t = s

(* They are taken from its own cell, which no other sequence has. *)
LEMMA RejectIs ==
  ASSUME Inv, NEW s \in Seqs, NEW k \in 1..setting.rs, Reject(s, k)
  PROVE  Rejected(s, k)
<1> DEFINE c == mem.tail[s]
           e == [mem.cells[c] EXCEPT !.pos = @ - k]
           cells == [mem.cells EXCEPT ![c] = e]
<1>1. /\ setting' = setting /\ saved' = saved /\ batch' = batch /\ left' = left
      /\ batch = <<>> /\ k <= drafted[s] /\ rs_idx[s] = 0
      /\ mem' = [mem EXCEPT !.cells = cells]
      /\ rs_idx' = [rs_idx EXCEPT ![s] = k]
      /\ data' = Shorten(data, s, Tokens(s) - k)
      /\ drafted' = [drafted EXCEPT ![s] = 0]
  BY DEF Reject, Accepts
<1>2. /\ MemoryOK(mem) /\ mem \in Memory
      /\ \A t \in Seqs : Tokens(t) = TokensIn(mem, t) /\ Tokens(t) \in 0..MaxTokens
      /\ \A t \in Seqs : Tokens(t) > 0 => mem.tail[t] \in Cells
      /\ \A t \in Seqs : left[t] = 0
  BY <1>1, InvSays
<1>3. /\ setting.rs \in Nat /\ 0 \in Planes /\ k \in Planes
      /\ drafted \in [Seqs -> Planes] /\ rs_idx \in [Seqs -> Planes]
      /\ data \in [Rows -> SUBSET StatePairs]
  BY SettingIs DEF Inv, TypeOK, Planes
<1>4. drafted[s] \in Nat /\ drafted[s] > 0 /\ k \in Nat /\ k > 0
  BY <1>1, <1>3 DEF Planes
<1>5. /\ k < Tokens(s)
      /\ \A t \in Seqs : mem.tail[t] = c => t = s
  <2>1. drafted[s] < Tokens(s) + left[s] /\ \A t \in Seqs : mem.tail[t] = mem.tail[s] => t = s
    BY <1>2, <1>4 DEF Inv, DraftInv
  <2>2. QED BY <1>1, <1>2, <1>4, <2>1, SizeAssumption
<1>6. c \in Cells /\ mem.cells \in [Cells -> Cell] /\ mem.tail \in [Seqs -> Cells \cup {None}]
  BY <1>2, <1>4, <1>5, SizeAssumption DEF Memory
<1>7. Tokens(s) = mem.cells[c].pos + 1 /\ mem.cells[c] \in Cell
  BY <1>6, CellsAreFinite DEF Tokens
<1> HIDE DEF c
<1>8. /\ e \in Cell /\ e.seqs = mem.cells[c].seqs /\ e.src = mem.cells[c].src
      /\ e.pos = mem.cells[c].pos - k
  <2>1. mem.cells[c].pos - k \in None..(MaxTokens - 1)
    <3>1. mem.cells[c].pos \in None..(MaxTokens - 1)
      BY <1>7 DEF Cell
    <3>2. QED BY <3>1, <1>4, <1>5, <1>7, SizeAssumption DEF None
  <2>2. QED BY <1>7, <2>1 DEF Cell
<1> HIDE DEF e
<1>9. cells \in [Cells -> Cell] /\ \A x \in Cells : cells[x] = IF x = c THEN e ELSE mem.cells[x]
  BY <1>6, <1>8
<1> HIDE DEF cells
<1>10. /\ mem'.cells = cells /\ mem'.tail = mem.tail /\ mem'.used = mem.used
       /\ mem' \in Memory
  BY <1>1, <1>2, <1>9 DEF Memory
<1>11. \A x \in Cells : cells[x].seqs = mem.cells[x].seqs /\ cells[x].src = mem.cells[x].src
  BY <1>8, <1>9
<1>12. MemoryOK(mem')
  <2>1. OwnSources(mem')
    BY <1>2, <1>10, <1>11 DEF MemoryOK, OwnSources
  <2>2. Placed(mem', {})
    <3>1. \A x \in Cells : \A t \in cells[x].seqs : mem.tail[t] = x
      BY <1>2, <1>11 DEF MemoryOK, Placed
    <3>2. \A t \in Seqs : mem.tail[t] # None => t \in cells[mem.tail[t]].seqs
      BY <1>2, <1>6, <1>11 DEF MemoryOK, Placed
    <3>3. QED BY <1>10, <3>1, <3>2 DEF Placed
  <2>3. mem'.used = Cardinality({x \in Cells : mem'.cells[x].seqs # {}})
    <3>1. {x \in Cells : mem'.cells[x].seqs # {}} = {x \in Cells : mem.cells[x].seqs # {}}
      BY <1>10, <1>11
    <3>2. QED BY <1>2, <1>10, <3>1 DEF MemoryOK
  <2>4. QED BY <1>10, <2>1, <2>2, <2>3 DEF MemoryOK
<1>13. ASSUME NEW t \in Seqs
       PROVE  TokensIn(mem', t) = IF t = s THEN Tokens(s) - k ELSE Tokens(t)
  <2>1. CASE t = s
    <3>1. TokensIn(mem', s) = e.pos + 1
      BY <1>6, <1>9, <1>10, CellsAreFinite DEF TokensIn, c
    <3>2. mem.cells[c].pos \in Int
      BY <1>7 DEF Cell, None
    <3>3. QED BY <2>1, <3>1, <3>2, <1>4, <1>7, <1>8
  <2>2. CASE t # s
    <3>1. mem.tail[t] # c /\ mem.tail[t] \in Cells \cup {None}
      BY <2>2, <1>5, <1>6
    <3>2. TokensIn(mem', t) = TokensIn(mem, t)
      BY <3>1, <1>9, <1>10 DEF TokensIn
    <3>3. QED BY <2>2, <3>2, <1>2
  <2>3. QED BY <2>1, <2>2
<1>14. Rejected(s, k)
  BY <1>1, <1>4, <1>5, <1>6, <1>10, <1>11, <1>12, <1>13 DEF Rejected, c
<1>15. QED BY <1>14

(* A sequence without its last tokens fits, and has no draft. *)
LEMMA RejectKeepsInv ==
  ASSUME Inv, NEW s \in Seqs, NEW k \in 1..setting.rs, Reject(s, k)
  PROVE  Inv'
<1>1. /\ setting' = setting /\ saved' = saved /\ batch' = batch /\ left' = left
      /\ batch = <<>>
      /\ rs_idx' = [rs_idx EXCEPT ![s] = k]
      /\ data' = Shorten(data, s, Tokens(s) - k)
      /\ drafted' = [drafted EXCEPT ![s] = 0]
  BY DEF Reject, Accepts
<1>2. /\ \A t \in Seqs : Tokens(t) \in 0..MaxTokens
      /\ \A t \in Seqs : left[t] = 0
  BY <1>1, InvSays
<1>3. /\ 0 \in Planes /\ k \in Planes
      /\ drafted \in [Seqs -> Planes] /\ rs_idx \in [Seqs -> Planes]
      /\ data \in [Rows -> SUBSET StatePairs]
  BY SettingIs DEF Inv, TypeOK, Planes
<1>4. /\ MemoryOK(mem') /\ mem'.tail = mem.tail /\ k \in Nat
      /\ \A t \in Seqs : TokensIn(mem', t) = IF t = s THEN Tokens(s) - k ELSE Tokens(t)
  BY RejectIs DEF Rejected
<1>5. \A t \in Seqs : TokensIn(mem', t) + left'[t] <= setting.max
  <2> SUFFICES ASSUME NEW t \in Seqs PROVE TokensIn(mem', t) + left'[t] <= setting.max
    OBVIOUS
  <2>1. Tokens(t) + left[t] <= setting.max
    BY DEF Inv, FitsInv
  <2>2. setting.max \in Nat /\ Tokens(t) \in Nat
    BY <1>2, SettingIs, SizeAssumption DEF Inv, TypeOK
  <2>3. QED BY <1>1, <1>2, <1>4, <2>1, <2>2
<1>6. drafted' \in [Seqs -> Planes] /\ \A t \in Seqs : drafted'[t] > 0 => t # s /\ drafted'[t] = drafted[t]
  BY <1>1, <1>3
<1>7. ASSUME NEW t \in Seqs, drafted'[t] > 0
       PROVE  /\ drafted'[t] < TokensIn(mem', t) + left'[t]
              /\ left'[t] > 0 \/ (rs_idx'[t] = 0 /\ \A v \in Seqs : mem'.tail[v] = mem'.tail[t] => v = t)
  <2>1. t # s /\ drafted[t] > 0 /\ drafted'[t] = drafted[t]
    BY <1>6, <1>7
  <2>2. TokensIn(mem', t) = Tokens(t) /\ rs_idx'[t] = rs_idx[t]
    BY <1>1, <1>3, <1>4, <2>1
  <2>3. QED BY <1>1, <1>4, <2>1, <2>2 DEF Inv, DraftInv
<1>8. rs_idx' \in [Seqs -> Planes] /\ data' \in [Rows -> SUBSET StatePairs]
  BY <1>1, <1>3, ShortenType
<1>9. /\ saved' \in 0..MaxTokens /\ saved' <= setting.max /\ batch' \in Seq(Seqs)
       /\ left' \in [Seqs -> 0..MaxTokens]
  BY <1>1 DEF Inv, TypeOK, FitsInv
<1>10. /\ Distinct(batch')
       /\ \A t \in Seqs : left'[t] > 0 => t \in Elements(batch')
       /\ batch' # <<>> => \E t \in Seqs : left'[t] > 0
  BY <1>1 DEF Inv, BatchInv
<1>11. QED BY <1>1, <1>4, <1>5, <1>6, <1>7, <1>8, <1>9, <1>10, InvNext

(* A call between two batches, after which nothing is drafted: what it keeps *)
(* of the memory, in short.                                                  *)
LEMMA SettledNext ==
  ASSUME Inv, Settled, setting' = setting, batch' = batch, left' = left, drafted' = drafted,
         MemoryOK(mem'), rs_idx' \in [Seqs -> Planes], data' \in [Rows -> SUBSET StatePairs],
         saved' \in 0..MaxTokens, saved' <= setting.max,
         \A s \in Seqs : TokensIn(mem', s) <= setting.max
  PROVE  Inv'
<1>1. \A s \in Seqs : left[s] = 0 /\ drafted[s] = 0
  BY InvSays DEF Settled
<1>2. /\ batch' \in Seq(Seqs) /\ left' \in [Seqs -> 0..MaxTokens] /\ drafted' \in [Seqs -> Planes]
      /\ Distinct(batch')
      /\ \A s \in Seqs : left'[s] > 0 => s \in Elements(batch')
      /\ batch' # <<>> => \E s \in Seqs : left'[s] > 0
  BY DEF Inv, TypeOK, BatchInv
<1>3. \A s \in Seqs : TokensIn(mem', s) + left'[s] <= setting.max
  <2> SUFFICES ASSUME NEW s \in Seqs PROVE TokensIn(mem', s) + left'[s] <= setting.max
    OBVIOUS
  <2>1. TokensIn(mem', s) \in Nat
    BY TokensAre, SizeAssumption DEF MemoryOK
  <2>2. QED BY <1>1, <2>1
<1>4. \A s \in Seqs : ~(drafted'[s] > 0)
  BY <1>1
<1>5. QED BY <1>2, <1>3, <1>4, InvNext

(* Between two batches a sequence can be removed, *)
LEMMA ClearKeepsInv ==
  ASSUME Inv, NEW s \in Seqs, Clear(s)
  PROVE  Inv'
<1>1. /\ Settled /\ setting' = setting /\ saved' = saved /\ batch' = batch /\ left' = left
      /\ drafted' = drafted
      /\ mem' = SeqRmAll(mem, s)
      /\ rs_idx' = [rs_idx EXCEPT ![s] = 0]
      /\ data' = Shorten(data, s, 0)
  BY DEF Clear
<1>2. /\ MemoryOK(mem)
      /\ \A t \in Seqs : Tokens(t) = TokensIn(mem, t) /\ Tokens(t) \in 0..MaxTokens
  BY InvSays
<1>3. Removed(mem, mem', s)
  BY <1>1, <1>2, SeqRmAllResult
<1>4. 0 \in Planes /\ setting.max \in Nat
  BY SettingIs DEF Inv, TypeOK
<1>5. rs_idx' \in [Seqs -> Planes] /\ data' \in [Rows -> SUBSET StatePairs]
  BY <1>1, <1>4, ShortenType DEF Inv, TypeOK
<1>6. \A t \in Seqs : TokensIn(mem', t) <= setting.max
  <2> SUFFICES ASSUME NEW t \in Seqs PROVE TokensIn(mem', t) <= setting.max
    OBVIOUS
  <2>1. CASE t = s
    BY <2>1, <1>3, <1>4 DEF Removed, TokensIn
  <2>2. CASE t # s
    <3>1. TokensIn(mem', t) = Tokens(t)
      BY <2>2, <1>2, <1>3 DEF Removed
    <3>2. Tokens(t) + left[t] <= setting.max /\ left[t] \in 0..MaxTokens
      BY DEF Inv, FitsInv, TypeOK
    <3>3. QED BY <3>1, <3>2, <1>2, <1>4, SizeAssumption
  <2>3. QED BY <2>1, <2>2
<1>7. saved' \in 0..MaxTokens /\ saved' <= setting.max
  BY <1>1 DEF Inv, TypeOK, FitsInv
<1>8. MemoryOK(mem')
  BY <1>3 DEF Removed
<1>9. QED BY <1>1, <1>5, <1>6, <1>7, <1>8, SettledNext

(* its state be written, *)
LEMMA WriteKeepsInv ==
  ASSUME Inv, NEW s \in Seqs, Write(s)
  PROVE  Inv'
<1>1. /\ Settled /\ setting' = setting /\ mem' = mem /\ rs_idx' = rs_idx
      /\ batch' = batch /\ left' = left /\ drafted' = drafted
      /\ Tokens(s) > 0 /\ saved' = Tokens(s)
      /\ data' = Become([data EXCEPT ![SavedRow] = data[RowOf(s)]], Saved, s, Tokens(s))
  BY DEF Write
<1>2. /\ MemoryOK(mem)
      /\ \A t \in Seqs : Tokens(t) = TokensIn(mem, t) /\ Tokens(t) \in 0..MaxTokens
      /\ mem.tail[s] \in Cells
  BY <1>1, InvSays
<1>3. /\ data \in [Rows -> SUBSET StatePairs] /\ rs_idx \in [Seqs -> Planes]
      /\ setting.max \in Nat
  BY SettingIs DEF Inv, TypeOK
<1>4. RowOf(s) \in Rows
  <2>1. mem.cells[mem.tail[s]].src \in {None, mem.tail[s]}
    BY <1>2 DEF MemoryOK, OwnSources
  <2>2. RowOf(s) = <<rs_idx[s], mem.tail[s]>>
    BY <2>1 DEF RowOf
  <2>3. QED BY <1>2, <1>3, <2>2 DEF Rows
<1>5. [data EXCEPT ![SavedRow] = data[RowOf(s)]] \in [Rows -> SUBSET StatePairs]
  BY <1>3, <1>4
<1>6. data' \in [Rows -> SUBSET StatePairs]
  BY <1>1, <1>5, BecomeType
<1>7. \A t \in Seqs : Tokens(t) <= setting.max
  <2> SUFFICES ASSUME NEW t \in Seqs PROVE Tokens(t) <= setting.max
    OBVIOUS
  <2>1. Tokens(t) + left[t] <= setting.max /\ left[t] \in 0..MaxTokens
    BY DEF Inv, FitsInv, TypeOK
  <2>2. QED BY <2>1, <1>2, <1>3, SizeAssumption
<1>8. saved' \in 0..MaxTokens /\ saved' <= setting.max
  BY <1>1, <1>2, <1>7
<1>9. \A t \in Seqs : TokensIn(mem', t) <= setting.max
  BY <1>1, <1>2, <1>7
<1>10. QED BY <1>1, <1>2, <1>3, <1>6, <1>8, <1>9, SettledNext

(* its cell be shared, though the drafts of others are still open, *)
LEMMA CopyStateKeepsInv ==
  ASSUME Inv, NEW a \in Seqs, NEW b \in Seqs, CopyState(a, b)
  PROVE  Inv'
<1> DEFINE r == SeqRmAll(mem, b)
<1>1. /\ batch = <<>> /\ a # b /\ Tokens(a) > 0 /\ drafted[a] = 0
      /\ setting' = setting /\ saved' = saved /\ batch' = batch /\ left' = left
      /\ mem' = SeqCp(r, a, b)
      /\ rs_idx' = [rs_idx EXCEPT ![b] = 0]
      /\ data' = Become(data, b, a, Tokens(a))
      /\ drafted' = [drafted EXCEPT ![b] = 0]
  BY DEF CopyState
<1>2. /\ MemoryOK(mem)
      /\ \A t \in Seqs : Tokens(t) = TokensIn(mem, t)
      /\ \A t \in Seqs : left[t] = 0
      /\ mem.tail[a] \in Cells
  BY <1>1, InvSays
<1>3. Removed(mem, r, b)
  BY <1>2, SeqRmAllResult
<1> HIDE DEF r
<1>4. Copied(r, mem', a, b)
  <2>1. MemoryOK(r) /\ r.tail[b] = None /\ r.tail[a] = mem.tail[a]
    BY <1>1, <1>3 DEF Removed
  <2>2. QED BY <1>1, <1>2, <2>1, CellsAreFinite, SeqCpResult
<1>5. \A t \in Seqs : /\ mem'.tail[t] = IF t = b THEN mem.tail[a] ELSE mem.tail[t]
                      /\ TokensIn(mem', t) = IF t = b THEN Tokens(a) ELSE Tokens(t)
  BY <1>1, <1>2, <1>3, <1>4 DEF Copied, Removed
<1>6. /\ 0 \in Planes /\ drafted \in [Seqs -> Planes] /\ rs_idx \in [Seqs -> Planes]
      /\ data \in [Rows -> SUBSET StatePairs]
  BY SettingIs DEF Inv, TypeOK
<1>7. rs_idx' \in [Seqs -> Planes] /\ data' \in [Rows -> SUBSET StatePairs]
  BY <1>1, <1>6, BecomeType
<1>8. drafted' \in [Seqs -> Planes] /\ \A t \in Seqs : drafted'[t] > 0 => t # b /\ t # a /\ drafted'[t] = drafted[t]
  BY <1>1, <1>6
<1>9. \A t \in Seqs : TokensIn(mem', t) + left'[t] <= setting.max
  BY <1>1, <1>2, <1>5 DEF Inv, FitsInv
<1>10. ASSUME NEW t \in Seqs, drafted'[t] > 0
       PROVE  /\ drafted'[t] < TokensIn(mem', t) + left'[t]
              /\ left'[t] > 0 \/ (rs_idx'[t] = 0 /\ \A v \in Seqs : mem'.tail[v] = mem'.tail[t] => v = t)
  <2>1. t # b /\ t # a /\ drafted[t] > 0 /\ drafted'[t] = drafted[t]
    BY <1>8, <1>10
  <2>2. /\ drafted[t] < Tokens(t) + left[t] /\ rs_idx[t] = 0
        /\ \A v \in Seqs : mem.tail[v] = mem.tail[t] => v = t
    BY <1>2, <2>1 DEF Inv, DraftInv
  <2>3. \A v \in Seqs : mem'.tail[v] = mem'.tail[t] => v = t
    BY <1>5, <2>1, <2>2
  <2>4. rs_idx'[t] = 0
    BY <1>1, <1>6, <2>1, <2>2
  <2>5. QED BY <1>1, <1>5, <2>1, <2>2, <2>3, <2>4
<1>11. /\ saved' \in 0..MaxTokens /\ saved' <= setting.max /\ batch' \in Seq(Seqs)
       /\ left' \in [Seqs -> 0..MaxTokens]
  BY <1>1 DEF Inv, TypeOK, FitsInv
<1>12. /\ Distinct(batch')
       /\ \A t \in Seqs : left'[t] > 0 => t \in Elements(batch')
       /\ batch' # <<>> => \E t \in Seqs : left'[t] > 0
  BY <1>1 DEF Inv, BatchInv
<1>13. MemoryOK(mem')
  BY <1>4 DEF Copied
<1>14. QED BY <1>1, <1>7, <1>8, <1>9, <1>10, <1>11, <1>12, <1>13, InvNext

(* What reading a state into s makes of the memory, after s was removed and  *)
(* given a cell again as f says.                                             *)
Restored(s, r, f, last) ==
  /\ Removed(mem, r, s) /\ Found(f, r, <<s>>, last) /\ Sourced(f, r, <<s>>)
  /\ Settled /\ saved > 0
  /\ mem' = f.mem /\ rs_idx' = [rs_idx EXCEPT ![s] = 0]
  /\ data' = Become([data EXCEPT ![<<0, f.mem.head>>] = data[SavedRow]], s, Saved, saved)
  /\ setting' = setting /\ saved' = saved /\ batch' = batch /\ left' = left
  /\ drafted' = drafted
  /\ f.mem.head \in Cells /\ f.mem.tail[s] = f.mem.head /\ f.mem.cells[f.mem.head].seqs = {s}
  /\ \A t \in Seqs : TokensIn(mem', t) = IF t = s THEN saved ELSE Tokens(t)

(* A read does. *)
LEMMA ReadIs ==
  ASSUME Inv, NEW s \in Seqs, Read(s)
  PROVE  \E r, f, last : Restored(s, r, f, last)
<1> DEFINE r == SeqRmAll(mem, s)
           u == <<s>>
           last == [t \in Seqs |-> saved - 1]
           f == FindSlot(r, u, last)
           h == f.mem.head
<1>1. /\ Settled /\ saved > 0
      /\ setting' = setting /\ saved' = saved /\ batch' = batch /\ left' = left
      /\ drafted' = drafted
      /\ mem' = [f.mem EXCEPT !.cells[h].src = h]
      /\ rs_idx' = [rs_idx EXCEPT ![s] = 0]
      /\ data' = Become([data EXCEPT ![<<0, h>>] = data[SavedRow]], s, Saved, saved)
  BY DEF Read
<1>2. /\ MemoryOK(mem)
      /\ \A t \in Seqs : Tokens(t) = TokensIn(mem, t) /\ Tokens(t) \in 0..MaxTokens
  BY InvSays
<1>3. Removed(mem, r, s)
  BY <1>2, SeqRmAllResult
<1>4. saved \in 0..MaxTokens /\ saved <= setting.max /\ setting.max \in Nat /\ 0 \in Planes
  BY SettingIs DEF Inv, TypeOK, FitsInv
<1> HIDE DEF r
<1>5. /\ u \in Seq(Seqs) /\ Len(u) = 1 /\ u[1] = s /\ u # <<>> /\ Distinct(u)
      /\ Elements(u) = {s}
  <2>1. u \in Seq(Seqs) /\ Len(u) = 1 /\ u[1] = s /\ u # <<>>
    OBVIOUS
  <2> HIDE DEF u
  <2>2. \A i \in 1..Len(u) : i = 1
    BY <2>1
  <2>3. 1 \in 1..Len(u)
    BY <2>1
  <2>4. QED BY <2>1, <2>2, <2>3 DEF Distinct, Elements
<1> HIDE DEF u
<1>6. last[s] = saved - 1 /\ last[s] \in None..(MaxTokens - 1)
  BY <1>1, <1>4, SizeAssumption DEF None
<1> HIDE DEF last
<1>7. r \in Memory /\ Placed(r, {}) /\ OwnSources(r)
  BY <1>3 DEF Removed, MemoryOK
<1>8. Found(f, r, u, last) /\ Sourced(f, r, u)
  <2>1. \A i \in 1..Len(u) : last[u[i]] \in None..(MaxTokens - 1)
    <3>1. \A i \in 1..Len(u) : u[i] = s
      BY <1>5
    <3>2. QED BY <1>6, <3>1
  <2>2. QED BY <1>5, <1>7, <2>1, FindSlotResult
<1> HIDE DEF f
<1>9. /\ MemoryOK(f.mem)
      /\ \A t \in Seqs : t # s => TokensIn(f.mem, t) = TokensIn(r, t)
      /\ TokensIn(f.mem, s) = saved
  <2>1. MemoryOK(f.mem) /\ (\A t \in Seqs : t \notin {s} => TokensIn(f.mem, t) = TokensIn(r, t))
    BY <1>5, <1>7, <1>8, FoundIs
  <2>2. TokensIn(f.mem, s) = last[s] + 1
    BY <1>5, <1>7, <1>8, FoundIs
  <2>3. last[s] + 1 = saved
    BY <1>4, <1>6
  <2>4. QED BY <2>1, <2>2, <2>3
<1>10. /\ h \in Cells /\ f.mem.cells[h].src = h /\ f.mem \in Memory
       /\ f.mem.tail[s] = h /\ f.mem.cells[h].seqs = {s}
  <2>1. f.mem \in Memory /\ OwnSources(f.mem)
    BY <1>8 DEF Found
  <2>2. h \in Cells
    BY <2>1 DEF Memory
  <2>3. h \in Nat
    BY <2>2, CellsAreNats, Zenon
  <2>4. f.mem.cells[h + 1 - 1].seqs = {u[1]} /\ f.mem.tail[u[1]] = h + 1 - 1
    BY <1>5, <1>8 DEF Found
  <2>5. f.mem.cells[h].seqs = {s} /\ f.mem.tail[s] = h
    <3> HIDE DEF h
    <3>1. h + 1 - 1 = h
      BY <2>3
    <3>2. QED BY <1>5, <2>4, <3>1
  <2>6. QED BY <2>1, <2>2, <2>5 DEF OwnSources
<1>11. mem' = f.mem
  <2> DEFINE m == f.mem
             e == m.cells[h]
  <2>1. m \in Memory /\ m.cells \in [Cells -> Cell] /\ e \in Cell /\ e.src = h
    BY <1>10 DEF Memory
  <2>2. mem' = [m EXCEPT !.cells = [m.cells EXCEPT ![h] = [e EXCEPT !.src = h]]]
    BY <1>1
  <2> HIDE DEF e, m, h
  <2>3. [e EXCEPT !.src = h] = e
    BY <2>1 DEF Cell
  <2>4. [m.cells EXCEPT ![h] = e] = m.cells
    BY <2>1 DEF e
  <2>5. [m EXCEPT !.cells = m.cells] = m
    BY <2>1 DEF Memory
  <2>6. QED BY <2>2, <2>3, <2>4, <2>5 DEF m
<1>12. \A t \in Seqs : TokensIn(mem', t) = IF t = s THEN saved ELSE Tokens(t)
  BY <1>2, <1>3, <1>9, <1>11 DEF Removed
<1>13. Restored(s, r, f, last)
  BY <1>1, <1>3, <1>8, <1>10, <1>11, <1>12 DEF Restored, u, h
<1>14. QED BY <1>13

(* and a state be read into a cell of its own. *)
LEMMA ReadKeepsInv ==
  ASSUME Inv, NEW s \in Seqs, Read(s)
  PROVE  Inv'
<1>1. PICK r, f, last : Restored(s, r, f, last)
  BY ReadIs
<1> DEFINE h == f.mem.head
<1>2. /\ \A t \in Seqs : Tokens(t) = TokensIn(mem, t) /\ Tokens(t) \in 0..MaxTokens
      /\ \A t \in Seqs : TokensIn(mem', t) = IF t = s THEN saved ELSE Tokens(t)
  BY <1>1, InvSays DEF Restored
<1>3. saved \in 0..MaxTokens /\ saved <= setting.max /\ setting.max \in Nat /\ 0 \in Planes
  BY SettingIs DEF Inv, TypeOK, FitsInv
<1>4. /\ data \in [Rows -> SUBSET StatePairs] /\ rs_idx \in [Seqs -> Planes]
  BY DEF Inv, TypeOK
<1>5. rs_idx' \in [Seqs -> Planes]
  BY <1>1, <1>3, <1>4 DEF Restored
<1>6. data' \in [Rows -> SUBSET StatePairs]
  <2>1. SavedRow \in Rows
    BY DEF Rows
  <2>2. [data EXCEPT ![<<0, h>>] = data[SavedRow]] \in [Rows -> SUBSET StatePairs]
    BY <1>4, <2>1
  <2>3. data' = Become([data EXCEPT ![<<0, h>>] = data[SavedRow]], s, Saved, saved)
    BY <1>1 DEF Restored
  <2>4. QED BY <2>2, <2>3, BecomeType
<1>7. ASSUME NEW t \in Seqs PROVE TokensIn(mem', t) <= setting.max
  <2>1. CASE t = s
    BY <2>1, <1>2, <1>3
  <2>2. CASE t # s
    <3>1. Tokens(t) + left[t] <= setting.max /\ left[t] \in 0..MaxTokens
      BY DEF Inv, FitsInv, TypeOK
    <3>2. QED BY <2>2, <3>1, <1>2, <1>3, SizeAssumption
  <2>3. QED BY <2>1, <2>2
<1>8. saved' \in 0..MaxTokens /\ saved' <= setting.max
  BY <1>1, <1>3 DEF Restored
<1>9. MemoryOK(mem')
  BY <1>1 DEF Restored, Found, MemoryOK
<1>10. QED BY <1>1, <1>5, <1>6, <1>7, <1>8, <1>9, SettledNext DEF Restored

(* What a decode makes of the micro-batch u, placed as f says: its sequences *)
(* have their tokens more, and cells and rollbacks of their own.             *)
Decoded(u, f, last) ==
  /\ u = NextUbatch /\ IsUbatch(u)
  /\ Elements(u.seqs) \in SUBSET Seqs
  /\ \A s \in Elements(u.seqs) : u.tokens <= left[s] /\ s \in Used(f)
  /\ Found(f, mem, u.seqs, last) /\ Sourced(f, mem, u.seqs)
  /\ mem' = f.mem /\ data' = Computed(f, u)
  /\ rs_idx' = [s \in Seqs |-> IF s \in Used(f) THEN 0 ELSE rs_idx[s]]
  /\ left' = [s \in Seqs |-> IF s \in Elements(u.seqs) THEN left[s] - u.tokens ELSE left[s]]
  /\ batch # <<>> /\ batch' = IF \A s \in Seqs : left'[s] = 0 THEN <<>> ELSE batch
  /\ setting' = setting /\ saved' = saved /\ drafted' = drafted
  /\ \A s \in Seqs : TokensIn(mem', s) =
       IF s \in Elements(u.seqs) THEN Tokens(s) + u.tokens ELSE Tokens(s)

(* A decode is one. *)
LEMMA DecodeUbatchIs ==
  ASSUME Inv, DecodeUbatch
  PROVE  \E u, f, last : Decoded(u, f, last)
<1> DEFINE u == NextUbatch
           last == [s \in Seqs |-> Tokens(s) + u.tokens - 1]
           f == FindSlot(mem, u.seqs, last)
           U == Elements(u.seqs)
<1>1. /\ batch # <<>>
      /\ mem' = f.mem /\ data' = Computed(f, u)
      /\ rs_idx' = [s \in Seqs |-> IF s \in Used(f) THEN 0 ELSE rs_idx[s]]
      /\ left' = [s \in Seqs |-> IF s \in Range(u.seqs) THEN left[s] - u.tokens ELSE left[s]]
      /\ batch' = IF \A s \in Seqs : left'[s] = 0 THEN <<>> ELSE batch
      /\ setting' = setting /\ saved' = saved /\ drafted' = drafted
  BY DEF DecodeUbatch
<1>2. /\ MemoryOK(mem) /\ mem \in Memory
      /\ \A s \in Seqs : Tokens(s) = TokensIn(mem, s) /\ Tokens(s) \in 0..MaxTokens
      /\ \A s \in Seqs : Tokens(s) > 0 => mem.tail[s] \in Cells
  BY InvSays
<1>3. /\ batch \in Seq(Seqs) /\ left \in [Seqs -> 0..MaxTokens] /\ drafted \in [Seqs -> Planes]
      /\ rs_idx \in [Seqs -> Planes]
      /\ \A s \in Seqs : left[s] \in Nat
      /\ setting.max \in 1..MaxTokens /\ setting.rs \in Nat /\ 0 \in Planes
      /\ MaxTokens \in Nat
  BY SettingIs, SizeAssumption DEF Inv, TypeOK
<1>4. IsUbatch(u)
  <2>1. PICK s \in Seqs : left[s] > 0
    BY <1>1 DEF Inv, BatchInv
  <2>2. s \in Elements(batch)
    BY <2>1 DEF Inv, BatchInv
  <2>3. \E k \in 1..Len(batch) : left[batch[k]] > 0
    BY <2>1, <2>2 DEF Elements
  <2>4. Distinct(batch)
    BY DEF Inv, BatchInv
  <2>5. QED BY <1>3, <2>3, <2>4, NextUbatchIs
<1> HIDE DEF u
<1>5. /\ u.seqs \in Seq(Seqs) /\ Distinct(u.seqs) /\ u.seqs # <<>>
      /\ u.tokens \in Nat \ {0} /\ U \in SUBSET Seqs /\ Range(u.seqs) = U
      /\ \A s \in U : u.tokens <= left[s]
  <2>1. /\ u.seqs \in Seq(Seqs) /\ Distinct(u.seqs) /\ u.seqs # <<>> /\ u.tokens \in Nat \ {0}
        /\ \A i \in 1..Len(u.seqs) : u.tokens <= left[u.seqs[i]]
    BY <1>4 DEF IsUbatch
  <2>2. DOMAIN u.seqs = 1..Len(u.seqs) /\ \A i \in 1..Len(u.seqs) : u.seqs[i] \in Seqs
    BY <2>1
  <2>3. Range(u.seqs) = U
    BY <2>2 DEF Elements, Range
  <2>4. QED BY <2>1, <2>2, <2>3 DEF Elements
<1>6. \A s \in Seqs : last[s] = Tokens(s) + u.tokens - 1
  OBVIOUS
<1> HIDE DEF last
<1>7. Found(f, mem, u.seqs, last) /\ Sourced(f, mem, u.seqs)
  <2>1. \A i \in 1..Len(u.seqs) : last[u.seqs[i]] \in None..(MaxTokens - 1)
    <3> SUFFICES ASSUME NEW s \in U PROVE last[s] \in None..(MaxTokens - 1)
      BY DEF Elements
    <3>1. s \in Seqs /\ u.tokens <= left[s]
      BY <1>5
    <3>2. Tokens(s) + left[s] <= setting.max /\ Tokens(s) \in 0..MaxTokens
      BY <1>2, <3>1 DEF Inv, FitsInv
    <3>3. u.tokens \in Nat \ {0} /\ left[s] \in Nat /\ setting.max \in Nat /\ setting.max <= MaxTokens
      BY <1>3, <1>5, <3>1, SizeAssumption
    <3>4. last[s] = Tokens(s) + u.tokens - 1
      BY <1>6, <3>1
    <3> HIDE DEF U
    <3>5. QED BY <3>1, <3>2, <3>3, <3>4, SizeAssumption DEF None
  <2>2. Placed(mem, {}) /\ OwnSources(mem)
    BY <1>2 DEF MemoryOK
  <2>3. QED BY <1>2, <1>5, <2>1, <2>2, FindSlotResult
<1> HIDE DEF f
<1>8. /\ MemoryOK(f.mem)
      /\ \A s \in Seqs : s \notin U => TokensIn(f.mem, s) = TokensIn(mem, s)
      /\ \A s \in U : /\ TokensIn(f.mem, s) = last[s] + 1
                      /\ f.mem.tail[s] \in f.range
                      /\ f.mem.cells[f.mem.tail[s]].seqs = {s}
  BY <1>2, <1>5, <1>7, FoundIs
<1> HIDE DEF U
<1>9. ASSUME NEW s \in U PROVE s \in Used(f)
  <2> DEFINE c == f.mem.tail[s]
  <2>1. c \in f.range /\ f.mem.cells[c].seqs = {s}
    BY <1>8
  <2>2. s \in Nat
    BY <1>5, CellsAreNats DEF Seqs
  <2>3. First(f.mem.cells[c]) = s
    <3>1. Min({s}) \in {s}
      BY <2>2, MinOfNats
    <3>2. QED BY <2>1, <3>1 DEF First
  <2> HIDE DEF c
  <2>4. QED BY <2>1, <2>3 DEF Used
<1>10. ASSUME NEW s \in Seqs
       PROVE  TokensIn(mem', s) = IF s \in U THEN Tokens(s) + u.tokens ELSE Tokens(s)
  <2>1. Tokens(s) \in Nat /\ u.tokens \in Nat
    BY <1>2, <1>5, SizeAssumption
  <2>2. s \in U => TokensIn(mem', s) = last[s] + 1
    BY <1>1, <1>8
  <2>3. s \notin U => TokensIn(mem', s) = Tokens(s)
    BY <1>1, <1>2, <1>8
  <2>4. QED BY <1>6, <2>1, <2>2, <2>3
<1>11. Decoded(u, f, last)
  BY <1>1, <1>4, <1>5, <1>7, <1>9, <1>10 DEF Decoded, U, u
<1>12. QED BY <1>11

(* A micro-batch gives its sequences cells of their own and uses up their     *)
(* rollbacks: what DraftInv asks for once nothing is left of them.            *)
LEMMA DecodeUbatchKeepsInv ==
  ASSUME Inv, DecodeUbatch
  PROVE  Inv'
<1>1. PICK u, f, last : Decoded(u, f, last)
  BY DecodeUbatchIs
<1> DEFINE U == Elements(u.seqs)
<1>2. /\ MemoryOK(mem) /\ mem \in Memory
      /\ \A s \in Seqs : Tokens(s) = TokensIn(mem, s) /\ Tokens(s) \in 0..MaxTokens
      /\ \A s \in Seqs : Tokens(s) > 0 => mem.tail[s] \in Cells
  BY InvSays
<1>3. /\ batch \in Seq(Seqs) /\ left \in [Seqs -> 0..MaxTokens] /\ drafted \in [Seqs -> Planes]
      /\ rs_idx \in [Seqs -> Planes]
      /\ \A s \in Seqs : left[s] \in Nat
      /\ setting.max \in 1..MaxTokens /\ setting.rs \in Nat /\ 0 \in Planes
      /\ MaxTokens \in Nat
  BY SettingIs, SizeAssumption DEF Inv, TypeOK
<1>4. /\ IsUbatch(u) /\ u.seqs \in Seq(Seqs) /\ u.tokens \in Nat \ {0} /\ U \in SUBSET Seqs
      /\ \A s \in U : u.tokens <= left[s] /\ s \in Used(f)
  BY <1>1 DEF Decoded, IsUbatch
<1>5. /\ mem' = f.mem /\ data' = Computed(f, u)
      /\ batch' = IF \A s \in Seqs : left'[s] = 0 THEN <<>> ELSE batch
      /\ setting' = setting /\ saved' = saved /\ drafted' = drafted
  BY <1>1 DEF Decoded
<1>6. Found(f, mem, u.seqs, last)
  BY <1>1 DEF Decoded
<1>7. left' = [s \in Seqs |-> IF s \in U THEN left[s] - u.tokens ELSE left[s]]
  BY <1>1 DEF Decoded
<1>8. /\ MemoryOK(f.mem)
      /\ \A s \in U : /\ f.mem.tail[s] \in f.range
                      /\ f.mem.cells[f.mem.tail[s]].seqs = {s}
  BY <1>2, <1>4, <1>6, FoundIs
<1> HIDE DEF U
<1>9. ASSUME NEW s \in Seqs
      PROVE  /\ left'[s] \in 0..MaxTokens
             /\ TokensIn(mem', s) + left'[s] = Tokens(s) + left[s]
             /\ left'[s] = IF s \in U THEN left[s] - u.tokens ELSE left[s]
  <2>1. left'[s] = IF s \in U THEN left[s] - u.tokens ELSE left[s]
    BY <1>7
  <2>2. left[s] \in 0..MaxTokens /\ Tokens(s) \in Nat
    BY <1>2, <1>3
  <2>3. TokensIn(mem', s) = IF s \in U THEN Tokens(s) + u.tokens ELSE Tokens(s)
    BY <1>1 DEF Decoded, U
  <2>4. CASE s \in U
    <3>1. u.tokens <= left[s] /\ u.tokens \in Nat
      BY <1>4, <2>4
    <3>2. QED BY <1>3, <2>1, <2>2, <2>3, <2>4, <3>1
  <2>5. CASE s \notin U
    BY <2>1, <2>2, <2>3, <2>5
  <2>6. QED BY <2>4, <2>5
<1>10. left' \in [Seqs -> 0..MaxTokens]
  <2> DEFINE l(s) == IF s \in U THEN left[s] - u.tokens ELSE left[s]
  <2>1. left' = [s \in Seqs |-> l(s)]
    BY <1>7
  <2> HIDE DEF l
  <2>2. \A s \in Seqs : l(s) \in 0..MaxTokens
    BY <1>9, <2>1
  <2>3. QED BY <2>1, <2>2
<1>11. \A s \in Seqs : TokensIn(mem', s) + left'[s] <= setting.max
  BY <1>9 DEF Inv, FitsInv
<1>12. rs_idx' \in [Seqs -> Planes] /\ \A s \in Seqs : rs_idx'[s] = IF s \in Used(f) THEN 0 ELSE rs_idx[s]
  BY <1>1, <1>3 DEF Decoded
<1>13. data' \in [Rows -> SUBSET StatePairs]
  BY <1>4, <1>5, <1>6, ComputedType DEF Inv
<1>14. /\ batch' \in Seq(Seqs) /\ Distinct(batch')
       /\ \A s \in Seqs : left'[s] > 0 => s \in Elements(batch')
       /\ batch' # <<>> => \E s \in Seqs : left'[s] > 0
  <2>1. CASE \A s \in Seqs : left'[s] = 0
    <3>1. batch' = <<>>
      BY <1>5, <2>1
    <3>2. QED BY <2>1, <3>1 DEF Distinct
  <2>2. CASE ~\A s \in Seqs : left'[s] = 0
    <3>1. batch' = batch
      BY <1>5, <2>2
    <3>2. PICK s \in Seqs : left'[s] # 0
      BY <2>2
    <3>3. left'[s] > 0
      BY <1>3, <1>9, <3>2
    <3>4. \A t \in Seqs : left'[t] > 0 => left[t] > 0
      BY <1>3, <1>4, <1>9
    <3>5. QED BY <1>3, <3>1, <3>3, <3>4 DEF Inv, BatchInv
  <2>3. QED BY <2>1, <2>2
<1>15. ASSUME NEW s \in Seqs, drafted'[s] > 0
       PROVE  /\ drafted'[s] < TokensIn(mem', s) + left'[s]
              /\ left'[s] > 0 \/ (rs_idx'[s] = 0 /\ \A v \in Seqs : mem'.tail[v] = mem'.tail[s] => v = s)
  <2>1. /\ drafted'[s] < Tokens(s) + left[s]
        /\ left[s] > 0 \/ (rs_idx[s] = 0 /\ \A v \in Seqs : mem.tail[v] = mem.tail[s] => v = s)
    BY <1>5, <1>15 DEF Inv, DraftInv
  <2>2. drafted'[s] < TokensIn(mem', s) + left'[s]
    BY <1>9, <2>1
  <2>3. ASSUME left'[s] = 0
        PROVE  rs_idx'[s] = 0 /\ \A v \in Seqs : mem'.tail[v] = mem'.tail[s] => v = s
    <3>1. /\ MemoryOK(mem') /\ Placed(mem', {})
          /\ \A v \in U : mem'.tail[v] # None /\ mem'.cells[mem'.tail[v]].seqs = {v}
      <4>1. \A v \in U : f.mem.tail[v] # None
        <5>1. f.range \in SUBSET Cells
          BY <1>6 DEF Found
        <5>2. QED BY <1>8, <5>1, CellsAreFinite
      <4>2. QED BY <1>5, <1>8, <4>1 DEF MemoryOK
    <3>2. ASSUME NEW v \in U, NEW w \in Seqs, mem'.tail[w] = mem'.tail[v] PROVE w = v
      <4>1. w \in mem'.cells[mem'.tail[v]].seqs
        BY <3>1, <3>2 DEF Placed
      <4>2. QED BY <3>1, <4>1
    <3>3. CASE s \in U
      <4>1. rs_idx'[s] = 0
        BY <3>3, <1>4, <1>12
      <4>2. QED BY <3>2, <3>3, <4>1
    <3>4. CASE s \notin U
      <4>1. left[s] = 0
        BY <1>9, <2>3, <3>4
      <4>2. rs_idx[s] = 0 /\ \A v \in Seqs : mem.tail[v] = mem.tail[s] => v = s
        BY <2>1, <4>1
      <4>3. rs_idx'[s] = 0
        BY <1>12, <4>2
      <4>4. mem'.tail[s] # None
        <5>1. drafted[s] \in Nat
          BY <1>3 DEF Planes
        <5>2. Tokens(s) > 0
          BY <1>2, <1>5, <1>15, <2>1, <4>1, <5>1, <1>3
        <5>3. mem.tail[s] # None
          BY <1>2, <5>2, CellsAreFinite
        <5>4. QED BY <1>5, <1>6, <3>4, <5>3 DEF Found, Others, U
      <4>5. ASSUME NEW v \in Seqs, mem'.tail[v] = mem'.tail[s] PROVE v = s
        <5>1. CASE v \in U
          BY <3>2, <4>5, <5>1
        <5>2. CASE v \notin U
          <6>1. mem.tail[v] = mem.tail[s]
            BY <1>5, <1>6, <3>4, <4>4, <4>5, <5>2 DEF Found, Others, U
          <6>2. QED BY <4>2, <6>1
        <5>3. QED BY <5>1, <5>2
      <4>6. QED BY <4>3, <4>5
    <3>5. QED BY <3>3, <3>4
  <2>4. left'[s] > 0 \/ left'[s] = 0
    BY <1>3, <1>9
  <2>5. QED BY <2>2, <2>3, <2>4
<1>16. /\ saved' \in 0..MaxTokens /\ saved' <= setting.max /\ drafted' \in [Seqs -> Planes]
  BY <1>5 DEF Inv, TypeOK, FitsInv
<1>17. MemoryOK(mem')
  BY <1>5, <1>8
<1>18. QED BY <1>5, <1>10, <1>11, <1>12, <1>13, <1>14, <1>15, <1>16, <1>17, InvNext

(* Every step keeps the invariant. *)
LEMMA InvIsKept == Inv /\ [Next]_vars => Inv'
<1> SUFFICES ASSUME Inv, [Next]_vars PROVE Inv'
  OBVIOUS
<1>1. setting.slots \subseteq Seqs
  BY SettingIs DEF Inv, TypeOK
<1>2. CASE UNCHANGED vars
  <2>1. /\ setting' = setting /\ mem' = mem /\ rs_idx' = rs_idx /\ data' = data
        /\ saved' = saved /\ batch' = batch /\ left' = left /\ drafted' = drafted
    BY <1>2 DEF vars
  <2>2. TypeOK'
    BY <2>1 DEF Inv, TypeOK, Planes, Rows
  <2>3. TailsAgree' /\ BatchInv' /\ FitsInv' /\ DraftInv'
    BY <2>1 DEF Inv, TailsAgree, BatchInv, FitsInv, DraftInv, Tokens
  <2>4. QED BY <2>2, <2>3 DEF Inv
<1>3. ASSUME NEW gens \in SUBSET setting.slots, NEW prompts \in SUBSET setting.slots,
             gens \cap prompts = {},
             NEW d \in [gens -> 0..setting.rs], NEW p \in [prompts -> 1..MaxPrompt],
             StartDecode(gens, d, prompts, p)
      PROVE  Inv'
  BY <1>3, StartDecodeKeepsInv
<1>4. CASE DecodeUbatch
  BY <1>4, DecodeUbatchKeepsInv
<1>5. ASSUME NEW s \in setting.slots, Accept(s) PROVE Inv'
  BY <1>1, <1>5, AcceptKeepsInv
<1>6. ASSUME NEW s \in setting.slots, NEW k \in 1..setting.rs, Reject(s, k) PROVE Inv'
  BY <1>1, <1>6, RejectKeepsInv
<1>7. ASSUME NEW s \in setting.slots, Clear(s) PROVE Inv'
  BY <1>1, <1>7, ClearKeepsInv
<1>8. ASSUME NEW s \in setting.slots, Write(s) PROVE Inv'
  BY <1>1, <1>8, WriteKeepsInv
<1>9. ASSUME NEW s \in setting.slots, Read(s) PROVE Inv'
  BY <1>1, <1>9, ReadKeepsInv
<1>10. ASSUME NEW s \in setting.slots, NEW b \in setting.slots, CopyState(s, b) PROVE Inv'
  BY <1>1, <1>10, CopyStateKeepsInv
<1>11. QED
  BY <1>2, <1>3, <1>4, <1>5, <1>6, <1>7, <1>8, <1>9, <1>10 DEF Next

(* So it always holds. *)
LEMMA InvHolds == Spec => []Inv
BY InvHoldsFirst, InvIsKept, PTL DEF Spec

-----------------------------------------------------------------------------
(* The variables have their types and the count of used cells is right; a    *)
(* cell in use is the source of its own state.  On the way it is shown that  *)
(* find_slot() finds an empty cell (NextIsFree) and a cell to be zeroed for  *)
(* a state that has none yet (SomeCellToZero), as its assertions say.        *)
THEOREM TypeCorrect == Spec => []TypeOK
<1>1. Inv => TypeOK
  BY DEF Inv
<1>2. QED BY <1>1, InvHolds, PTL

(* Whatever is decoded, moved, copied, removed and restored, each sequence   *)
(* is in the cell that its tail names and in no other                        *)
(* (llama-memory-recurrent.cpp:557).                                         *)
THEOREM TailsCorrect == Spec => []TailsAgree
<1>1. Inv => TailsAgree
  BY DEF Inv
<1>2. QED BY <1>1, InvHolds, PTL

(* The rollback of a rejected draft is never refused (seq_rm() in            *)
(* llama-memory-recurrent.cpp, called by post_decode()).                     *)
THEOREM RollbackCorrect == Spec => []RollbackAccepted
<1>1. Inv => RollbackAccepted
  <2> SUFFICES ASSUME Inv, batch = <<>>, NEW s \in Seqs, NEW k \in 1..drafted[s]
               PROVE  Accepts(s, k)
    BY DEF RollbackAccepted
  <2>1. left[s] = 0
    BY InvSays
  <2>2. drafted[s] \in 0..setting.rs /\ setting.rs \in Nat
    BY SettingIs DEF Inv, TypeOK, Planes
  <2>3. drafted[s] > 0 /\ k \in 1..setting.rs
    BY <2>2
  <2>4. rs_idx[s] = 0
    BY <2>1, <2>3 DEF Inv, DraftInv
  <2>5. QED BY <2>3, <2>4 DEF Accepts
<1>2. QED BY <1>1, InvHolds, PTL

-----------------------------------------------------------------------------
(* The states.  A sequence has tokens if it has a cell, and only one with a  *)
(* cell to itself has a rollback that is not used up.                        *)
Sharing(m, rs) ==
  /\ \A s \in Seqs : m.tail[s] # None => TokensIn(m, s) > 0
  /\ \A s \in Seqs : m.tail[s] = None => rs[s] = 0
  /\ \A s, t \in Seqs : s # t /\ m.tail[s] # None /\ m.tail[s] = m.tail[t] => rs[s] = 0

(* The row that it goes on from has its state; a blank cell the empty one. *)
Filled(m, rs, d) ==
  /\ \A s \in Seqs : m.tail[s] # None => <<s, TokensIn(m, s)>> \in d[<<rs[s], m.tail[s]>>]
  /\ \A c \in Blank(m), s \in Seqs : <<s, 0>> \in d[<<0, c>>]

StateInv == Sharing(mem, rs_idx) /\ Filled(mem, rs_idx, data) /\ <<Saved, saved>> \in data[SavedRow]

(* What is left of a state when tokens of s are taken back, *)
LEMMA ShortenKeeps ==
  ASSUME NEW d, NEW r \in DOMAIN d, NEW s, NEW n, NEW t, NEW k, <<t, k>> \in d[r],
         t # s \/ k <= n
  PROVE  <<t, k>> \in Shorten(d, s, n)[r]
BY DEF Shorten

(* and when s becomes the beginning of o. *)
LEMMA BecomeKeeps ==
  ASSUME NEW d, NEW r \in DOMAIN d, NEW s, NEW o, NEW n, NEW t, NEW k, <<t, k>> \in d[r]
  PROVE  /\ t # s \/ k <= 0 => <<t, k>> \in Become(d, s, o, n)[r]
         /\ t = o /\ o # s /\ k <= n => <<s, k>> \in Become(d, s, o, n)[r]
<1> DEFINE e == Shorten(d, s, 0)
           more == {<<s, p[2]>> : p \in {q \in e[r] : q[1] = o /\ q[2] <= n}}
<1>1. t # s \/ k <= 0 => <<t, k>> \in e[r]
  BY ShortenKeeps
<1> HIDE DEF e
<1>2. Become(d, s, o, n)[r] = e[r] \cup more
  BY DEF Become, e
<1>3. t = o /\ o # s /\ k <= n => <<s, <<t, k>>[2]>> \in more
  BY <1>1
<1> HIDE DEF more
<1>4. QED BY <1>1, <1>2, <1>3

(* The rows of the planes, and the one of a written state. *)
LEMMA RowsAre ==
  ASSUME TypeOK
  PROVE  /\ \A k \in Planes, c \in Cells : <<k, c>> \in Rows /\ <<k, c>> # SavedRow
         /\ SavedRow \in Rows /\ DOMAIN data = Rows /\ 0 \in Planes
         /\ Saved \notin Seqs
<1>1. \A k \in Planes, c \in Cells : <<k, c>> # SavedRow
  BY CellsAreFinite DEF SavedRow
<1>2. Saved \notin Seqs
  BY SizeAssumption DEF Saved, Seqs, Cells
<1>3. QED BY <1>1, <1>2, SettingIs DEF TypeOK, Rows

(* The states are there if each sequence has one of as many tokens as it has. *)
LEMMA StateOfIs ==
  ASSUME Inv, StateInv, NEW s \in Seqs
  PROVE  /\ StateOf(s) = Tokens(s) /\ Tokens(s) \in Nat
         /\ Tokens(s) > 0 => RowOf(s) = <<rs_idx[s], mem.tail[s]>>
<1>1. /\ Tokens(s) = TokensIn(mem, s) /\ Tokens(s) \in Nat
      /\ Tokens(s) > 0 => mem.tail[s] \in Cells
      /\ OwnSources(mem)
  BY InvSays, SizeAssumption DEF MemoryOK
<1>2. CASE Tokens(s) = 0
  BY <1>1, <1>2 DEF StateOf
<1>3. CASE Tokens(s) > 0
  <2>1. mem.tail[s] \in Cells /\ mem.tail[s] # None
    BY <1>1, <1>3, CellsAreFinite
  <2>2. mem.cells[mem.tail[s]].src \in {None, mem.tail[s]}
    BY <1>1, <2>1 DEF OwnSources
  <2>3. RowOf(s) = <<rs_idx[s], mem.tail[s]>>
    BY <2>2 DEF RowOf
  <2>4. <<s, Tokens(s)>> \in data[RowOf(s)]
    BY <1>1, <2>1, <2>3 DEF StateInv, Filled
  <2>5. Tokens(s) # 0
    BY <1>3
  <2>6. QED BY <1>1, <1>3, <2>3, <2>4, <2>5 DEF StateOf
<1>4. QED BY <1>1, <1>2, <1>3

(* At first every row has the empty state. *)
LEMMA StateInvFirst == Init => StateInv
<1> SUFFICES ASSUME Init PROVE StateInv
  OBVIOUS
<1>1. /\ setting \in Settings /\ saved = 0
      /\ \A s \in Seqs : mem.tail[s] = None /\ rs_idx[s] = 0
      /\ \A c \in Cells : mem.cells[c].src = None
      /\ \A r \in Rows : data[r] = Zero
  BY DEF Init, Empty
<1>2. Blank(mem) = {}
  BY <1>1, CellsAreFinite DEF Blank
<1>3. <<Saved, saved>> \in data[SavedRow]
  BY <1>1 DEF Rows, Zero
<1>4. QED BY <1>1, <1>2, <1>3 DEF StateInv, Sharing, Filled

(* Removing a sequence takes no other's state. *)
LEMMA ClearKeepsStates ==
  ASSUME Inv, StateInv, NEW s \in Seqs, Clear(s)
  PROVE  StateInv' /\ \A t \in Seqs : TokensIn(mem', t) = IF t = s THEN 0 ELSE Tokens(t)
<1>1. /\ saved' = saved
      /\ mem' = SeqRmAll(mem, s)
      /\ rs_idx' = [rs_idx EXCEPT ![s] = 0]
      /\ data' = Shorten(data, s, 0)
  BY DEF Clear
<1>2. /\ \A t \in Seqs : Tokens(t) = TokensIn(mem, t)
      /\ Removed(mem, mem', s)
  BY <1>1, InvSays, SeqRmAllResult
<1>3. /\ mem'.tail[s] = None
      /\ \A t \in Seqs : t # s => mem'.tail[t] = mem.tail[t] /\ TokensIn(mem', t) = TokensIn(mem, t)
      /\ \A t \in Seqs : mem'.tail[t] \in Cells \cup {None}
      /\ Blank(mem') \subseteq Blank(mem) /\ Blank(mem') \subseteq Cells
  BY <1>2 DEF Removed, MemoryOK, Memory, Blank
<1>4. rs_idx \in [Seqs -> Planes] /\ \A t \in Seqs : rs_idx'[t] = IF t = s THEN 0 ELSE rs_idx[t]
  BY <1>1 DEF Inv, TypeOK
<1>5. Sharing(mem', rs_idx')
  BY <1>3, <1>4 DEF StateInv, Sharing
<1>6. /\ \A k \in Planes, c \in Cells : <<k, c>> \in DOMAIN data
      /\ SavedRow \in DOMAIN data /\ Saved # s /\ 0 \in Planes
  BY RowsAre DEF Inv
<1>7. ASSUME NEW t \in Seqs, mem'.tail[t] # None
      PROVE  <<t, TokensIn(mem', t)>> \in data'[<<rs_idx'[t], mem'.tail[t]>>]
  <2>1. t # s /\ mem'.tail[t] \in Cells
    BY <1>3, <1>7
  <2>2. <<t, TokensIn(mem, t)>> \in data[<<rs_idx[t], mem.tail[t]>>]
    BY <1>3, <1>7, <2>1 DEF StateInv, Filled
  <2>3. <<rs_idx[t], mem.tail[t]>> \in DOMAIN data
    BY <1>3, <1>4, <1>6, <2>1
  <2>4. QED BY <1>1, <1>3, <1>4, <2>1, <2>2, <2>3, ShortenKeeps
<1>8. ASSUME NEW c \in Blank(mem'), NEW t \in Seqs PROVE <<t, 0>> \in data'[<<0, c>>]
  <2>1. <<t, 0>> \in data[<<0, c>>] /\ <<0, c>> \in DOMAIN data
    BY <1>3, <1>6 DEF StateInv, Filled
  <2>2. QED BY <1>1, <2>1, ShortenKeeps
<1>9. <<Saved, saved'>> \in data'[SavedRow]
  BY <1>1, <1>6, ShortenKeeps DEF StateInv
<1>10. Filled(mem', rs_idx', data')
  BY <1>7, <1>8 DEF Filled
<1>11. \A t \in Seqs : TokensIn(mem', t) = IF t = s THEN 0 ELSE Tokens(t)
  BY <1>2, <1>3 DEF TokensIn
<1>12. QED BY <1>5, <1>9, <1>10, <1>11 DEF StateInv

(* The state that is written is the state of its tokens. *)
LEMMA WriteKeepsStates ==
  ASSUME Inv, StateInv, NEW s \in Seqs, Write(s)
  PROVE  StateInv'
<1> DEFINE d == [data EXCEPT ![SavedRow] = data[RowOf(s)]]
<1>1. /\ mem' = mem /\ rs_idx' = rs_idx
      /\ Tokens(s) > 0 /\ saved' = Tokens(s)
      /\ data' = Become(d, Saved, s, Tokens(s))
  BY DEF Write
<1>2. /\ Tokens(s) \in Nat /\ Tokens(s) = TokensIn(mem, s) /\ mem.tail[s] \in Cells
      /\ RowOf(s) = <<rs_idx[s], mem.tail[s]>>
      /\ \A t \in Seqs : mem.tail[t] \in Cells \cup {None}
      /\ rs_idx \in [Seqs -> Planes]
  BY <1>1, StateOfIs, InvSays DEF Inv, TypeOK, Memory
<1>3. /\ \A k \in Planes, c \in Cells : <<k, c>> \in Rows /\ <<k, c>> # SavedRow
      /\ SavedRow \in Rows /\ DOMAIN data = Rows /\ 0 \in Planes /\ Saved \notin Seqs
  BY RowsAre DEF Inv
<1>4. DOMAIN d = Rows /\ d[SavedRow] = data[RowOf(s)] /\ \A r \in Rows : r # SavedRow => d[r] = data[r]
  BY <1>3
<1> HIDE DEF d
<1>5. <<Saved, saved'>> \in data'[SavedRow]
  <2>1. <<s, Tokens(s)>> \in d[SavedRow]
    BY <1>2, <1>4, CellsAreFinite DEF StateInv, Filled
  <2>2. Saved # s /\ Tokens(s) <= Tokens(s)
    BY <1>2, <1>3
  <2>3. QED BY <1>1, <1>3, <1>4, <2>1, <2>2, BecomeKeeps
<1>6. ASSUME NEW t \in Seqs, mem.tail[t] # None
      PROVE  <<t, TokensIn(mem, t)>> \in data'[<<rs_idx[t], mem.tail[t]>>]
  <2>1. <<t, TokensIn(mem, t)>> \in data[<<rs_idx[t], mem.tail[t]>>]
    BY <1>6 DEF StateInv, Filled
  <2>2. mem.tail[t] \in Cells /\ t # Saved
    BY <1>2, <1>3, <1>6
  <2>3. <<rs_idx[t], mem.tail[t]>> \in Rows /\ <<rs_idx[t], mem.tail[t]>> # SavedRow
    BY <1>2, <1>3, <2>2
  <2>4. QED BY <1>1, <1>4, <2>1, <2>2, <2>3, BecomeKeeps
<1>7. ASSUME NEW c \in Blank(mem), NEW t \in Seqs PROVE <<t, 0>> \in data'[<<0, c>>]
  <2>1. <<t, 0>> \in data[<<0, c>>] /\ c \in Cells
    BY DEF StateInv, Filled, Blank
  <2>2. QED BY <1>1, <1>3, <1>4, <2>1, BecomeKeeps
<1>8. Filled(mem', rs_idx', data')
  BY <1>1, <1>6, <1>7 DEF Filled
<1>9. QED BY <1>1, <1>5, <1>8 DEF StateInv

(* A child has the state of its parent, and is not read from a snapshot. *)
LEMMA CopyStateKeepsStates ==
  ASSUME Inv, StateInv, NEW a \in Seqs, NEW b \in Seqs, CopyState(a, b)
  PROVE  /\ StateInv'
         /\ \A t \in Seqs : /\ mem'.tail[t] = IF t = b THEN mem.tail[a] ELSE mem.tail[t]
                            /\ TokensIn(mem', t) = IF t = b THEN Tokens(a) ELSE Tokens(t)
<1> DEFINE r == SeqRmAll(mem, b)
<1>1. /\ a # b /\ Tokens(a) > 0 /\ rs_idx[a] = 0
      /\ saved' = saved
      /\ mem' = SeqCp(r, a, b)
      /\ rs_idx' = [rs_idx EXCEPT ![b] = 0]
      /\ data' = Become(data, b, a, Tokens(a))
  BY DEF CopyState
<1>2. /\ MemoryOK(mem) /\ Tokens(a) \in Nat
      /\ \A t \in Seqs : Tokens(t) = TokensIn(mem, t)
      /\ mem.tail[a] \in Cells /\ mem.tail[a] # None
  BY <1>1, InvSays, CellsAreFinite, StateOfIs
<1>3. Removed(mem, r, b)
  BY <1>2, SeqRmAllResult
<1> HIDE DEF r
<1>4. Copied(r, mem', a, b)
  <2>1. MemoryOK(r) /\ r.tail[b] = None /\ r.tail[a] = mem.tail[a]
    BY <1>1, <1>3 DEF Removed
  <2>2. QED BY <1>1, <1>2, <2>1, SeqCpResult
<1>5. /\ \A t \in Seqs : /\ mem'.tail[t] = IF t = b THEN mem.tail[a] ELSE mem.tail[t]
                         /\ TokensIn(mem', t) = IF t = b THEN Tokens(a) ELSE Tokens(t)
      /\ Blank(mem') \subseteq Blank(mem)
  BY <1>1, <1>2, <1>3, <1>4 DEF Copied, Removed
<1>6. /\ \A t \in Seqs : rs_idx'[t] = IF t = b THEN 0 ELSE rs_idx[t]
      /\ rs_idx \in [Seqs -> Planes] /\ \A t \in Seqs : mem.tail[t] \in Cells \cup {None}
  BY <1>1 DEF Inv, TypeOK, Memory
<1>7. Sharing(mem', rs_idx')
  BY <1>1, <1>2, <1>5, <1>6 DEF StateInv, Sharing
<1>8. /\ \A k \in Planes, c \in Cells : <<k, c>> \in DOMAIN data
      /\ SavedRow \in DOMAIN data /\ Saved # b /\ 0 \in Planes
  BY RowsAre DEF Inv
<1>9. ASSUME NEW t \in Seqs, mem'.tail[t] # None
      PROVE  <<t, TokensIn(mem', t)>> \in data'[<<rs_idx'[t], mem'.tail[t]>>]
  <2>1. CASE t = b
    <3>1. <<a, Tokens(a)>> \in data[<<0, mem.tail[a]>>] /\ <<0, mem.tail[a]>> \in DOMAIN data
      BY <1>1, <1>2, <1>8 DEF StateInv, Filled
    <3>2. Tokens(a) <= Tokens(a)
      BY <1>2
    <3>3. <<b, Tokens(a)>> \in data'[<<0, mem.tail[a]>>]
      BY <1>1, <3>1, <3>2, BecomeKeeps
    <3>4. QED BY <1>5, <1>6, <2>1, <3>3
  <2>2. CASE t # b
    <3>1. mem.tail[t] \in Cells /\ <<rs_idx[t], mem.tail[t]>> \in DOMAIN data
      BY <1>5, <1>6, <1>8, <1>9, <2>2
    <3>2. <<t, TokensIn(mem, t)>> \in data[<<rs_idx[t], mem.tail[t]>>]
      BY <3>1, CellsAreFinite DEF StateInv, Filled
    <3>3. <<t, TokensIn(mem, t)>> \in Become(data, b, a, Tokens(a))[<<rs_idx[t], mem.tail[t]>>]
      BY <2>2, <3>1, <3>2, BecomeKeeps
    <3>4. TokensIn(mem', t) = TokensIn(mem, t) /\ mem'.tail[t] = mem.tail[t] /\ rs_idx'[t] = rs_idx[t]
      BY <1>2, <1>5, <1>6, <2>2
    <3>5. QED BY <1>1, <3>3, <3>4
  <2>3. QED BY <2>1, <2>2
<1>10. ASSUME NEW c \in Blank(mem'), NEW t \in Seqs PROVE <<t, 0>> \in data'[<<0, c>>]
  <2>1. <<t, 0>> \in data[<<0, c>>] /\ c \in Cells
    BY <1>5 DEF StateInv, Filled, Blank
  <2>2. (t # b \/ 0 <= 0) /\ <<0, c>> \in DOMAIN data
    BY <1>8, <2>1
  <2>3. QED BY <1>1, <2>1, <2>2, BecomeKeeps
<1>11. <<Saved, saved'>> \in data'[SavedRow]
  BY <1>1, <1>8, BecomeKeeps DEF StateInv
<1>12. Filled(mem', rs_idx', data')
  BY <1>9, <1>10 DEF Filled
<1>13. QED BY <1>5, <1>7, <1>11, <1>12 DEF StateInv

(* A state is read into a cell that no other sequence has: find_slot() reads *)
(* nothing else into it, and moves nothing.                                  *)
LEMMA ReadKeepsStates ==
  ASSUME Inv, StateInv, NEW s \in Seqs, Read(s)
  PROVE  StateInv' /\ \A t \in Seqs : TokensIn(mem', t) = IF t = s THEN saved ELSE Tokens(t)
<1>1. PICK r, f, last : Restored(s, r, f, last)
  BY ReadIs
<1> DEFINE h == f.mem.head
           u == <<s>>
           d == [data EXCEPT ![<<0, h>>] = data[SavedRow]]
<1>2. /\ Removed(mem, r, s) /\ Found(f, r, u, last) /\ Sourced(f, r, u)
      /\ saved > 0 /\ mem' = f.mem /\ saved' = saved
      /\ rs_idx' = [rs_idx EXCEPT ![s] = 0]
      /\ data' = Become(d, s, Saved, saved)
      /\ h \in Cells /\ f.mem.tail[s] = h /\ f.mem.cells[h].seqs = {s}
      /\ \A t \in Seqs : TokensIn(mem', t) = IF t = s THEN saved ELSE Tokens(t)
  BY <1>1 DEF Restored
<1>3. Elements(u) = {s} /\ Len(u) = 1
  <2>1. Len(u) = 1 /\ u[1] = s
    OBVIOUS
  <2> HIDE DEF u
  <2>2. \A i \in 1..Len(u) : i = 1
    BY <2>1
  <2>3. 1 \in 1..Len(u)
    BY <2>1
  <2>4. QED BY <2>1, <2>2, <2>3 DEF Elements
<1> HIDE DEF h, u
<1>4. /\ \A k \in Planes, c \in Cells : <<k, c>> \in Rows /\ <<k, c>> # SavedRow
      /\ SavedRow \in Rows /\ DOMAIN data = Rows /\ 0 \in Planes /\ Saved \notin Seqs
      /\ rs_idx \in [Seqs -> Planes]
      /\ \A t \in Seqs : rs_idx'[t] = IF t = s THEN 0 ELSE rs_idx[t]
      /\ saved \in Nat
  BY <1>2, RowsAre, SizeAssumption DEF Inv, TypeOK
<1>5. /\ DOMAIN d = Rows /\ d[<<0, h>>] = data[SavedRow]
      /\ \A q \in Rows : q # <<0, h>> => d[q] = data[q]
  BY <1>2, <1>4
<1> HIDE DEF d
<1>6. ASSUME NEW t \in Seqs, t # s, f.mem.tail[t] # None
      PROVE  /\ f.mem.tail[t] \in Cells /\ f.mem.tail[t] # h
             /\ mem.tail[t] = f.mem.tail[t]
  <2>1. f.mem.tail[t] \in Cells /\ t \in f.mem.cells[f.mem.tail[t]].seqs
    BY <1>2, <1>6 DEF Found, Memory, Placed
  <2>2. f.mem.tail[t] # h
    BY <1>2, <1>6, <2>1
  <2>3. f.range = {h}
    BY <1>2, <1>3 DEF Sourced, h
  <2>4. r.tail[t] = f.mem.tail[t]
    BY <1>2, <2>1, <2>2, <2>3 DEF Sourced
  <2>5. QED BY <1>2, <1>6, <2>1, <2>2, <2>4 DEF Removed
<1>7. ASSUME NEW t \in Seqs, t # s, f.mem.tail[t] = None PROVE mem.tail[t] = None
  <2>1. t \in Seqs \ Elements(u)
    BY <1>3, <1>7
  <2>2. r.tail[t] = None
    BY <1>2, <1>7, <2>1 DEF Found, Others
  <2>3. QED BY <1>2, <1>7, <2>2 DEF Removed
<1>8. Sharing(mem', rs_idx')
  <2>1. \A t \in Seqs : t # s => Tokens(t) = TokensIn(mem, t)
    BY InvSays
  <2>2. ASSUME NEW t \in Seqs, f.mem.tail[t] # None PROVE TokensIn(f.mem, t) > 0
    <3>1. CASE t = s
      BY <3>1, <1>2
    <3>2. CASE t # s
      <4>1. TokensIn(mem, t) > 0
        BY <3>2, <2>2, <1>6 DEF StateInv, Sharing
      <4>2. QED BY <3>2, <4>1, <1>2, <2>1
    <3>3. QED BY <3>1, <3>2
  <2>3. ASSUME NEW t \in Seqs, f.mem.tail[t] = None PROVE rs_idx'[t] = 0
    BY <1>4, <1>7, <2>3 DEF StateInv, Sharing
  <2>4. ASSUME NEW t \in Seqs, NEW v \in Seqs, t # v, f.mem.tail[t] # None,
               f.mem.tail[t] = f.mem.tail[v]
        PROVE  rs_idx'[t] = 0
    <3>1. CASE t = s
      BY <3>1, <1>4
    <3>2. CASE t # s
      <4>1. v # s
        BY <3>2, <2>4, <1>2, <1>6
      <4>2. mem.tail[t] # None /\ mem.tail[t] = mem.tail[v]
        BY <3>2, <4>1, <2>4, <1>6
      <4>3. QED BY <3>2, <4>2, <2>4, <1>4 DEF StateInv, Sharing
    <3>3. QED BY <3>1, <3>2
  <2>5. QED BY <1>2, <2>2, <2>3, <2>4 DEF Sharing
<1>9. ASSUME NEW t \in Seqs, f.mem.tail[t] # None
      PROVE  <<t, TokensIn(mem', t)>> \in data'[<<rs_idx'[t], f.mem.tail[t]>>]
  <2>1. CASE t = s
    <3>1. <<Saved, saved>> \in d[<<0, h>>]
      BY <1>5 DEF StateInv
    <3>2. <<0, h>> \in DOMAIN d /\ Saved # s /\ saved <= saved
      BY <1>2, <1>4, <1>5
    <3>3. <<s, saved>> \in data'[<<0, h>>]
      BY <1>2, <3>1, <3>2, BecomeKeeps
    <3>4. QED BY <1>2, <1>4, <2>1, <3>3
  <2>2. CASE t # s
    <3>1. mem.tail[t] = f.mem.tail[t] /\ mem.tail[t] \in Cells /\ mem.tail[t] # h /\ mem.tail[t] # None
      BY <1>6, <1>9, <2>2
    <3>2. <<t, TokensIn(mem, t)>> \in data[<<rs_idx[t], mem.tail[t]>>]
      BY <3>1 DEF StateInv, Filled
    <3>3. <<rs_idx[t], mem.tail[t]>> \in Rows /\ <<rs_idx[t], mem.tail[t]>> # <<0, h>>
      BY <1>4, <3>1
    <3>4. <<t, TokensIn(mem, t)>> \in data'[<<rs_idx[t], mem.tail[t]>>]
      BY <1>2, <1>5, <2>2, <3>2, <3>3, BecomeKeeps
    <3>5. TokensIn(mem', t) = TokensIn(mem, t)
      BY <1>2, <2>2, InvSays
    <3>6. QED BY <1>4, <2>2, <3>1, <3>4, <3>5
  <2>3. QED BY <2>1, <2>2
<1>10. ASSUME NEW c \in Blank(f.mem), NEW t \in Seqs PROVE <<t, 0>> \in data'[<<0, c>>]
  <2>1. c \in Cells /\ c # h
    BY <1>2 DEF Blank
  <2>2. c \in Blank(mem)
    <3>1. f.range = {h}
      BY <1>2, <1>3 DEF Sourced, h
    <3>2. c \in Blank(r)
      BY <1>2, <2>1, <3>1 DEF Sourced
    <3>3. QED BY <1>2, <3>2 DEF Removed
  <2>3. <<t, 0>> \in data[<<0, c>>] /\ <<0, c>> \in Rows /\ <<0, c>> # <<0, h>>
    BY <1>4, <2>1, <2>2 DEF StateInv, Filled
  <2>4. <<t, 0>> \in d[<<0, c>>] /\ <<0, c>> \in DOMAIN d /\ 0 <= 0
    BY <1>5, <2>3
  <2>5. QED BY <1>2, <2>4, BecomeKeeps
<1>11. <<Saved, saved'>> \in data'[SavedRow]
  <2>1. SavedRow # <<0, h>>
    BY <1>2, <1>4
  <2>2. <<Saved, saved>> \in d[SavedRow] /\ SavedRow \in DOMAIN d /\ Saved # s
    BY <1>4, <1>5, <2>1 DEF StateInv
  <2>3. QED BY <1>2, <2>2, BecomeKeeps
<1>12. Filled(mem', rs_idx', data')
  BY <1>2, <1>9, <1>10 DEF Filled
<1>13. QED BY <1>2, <1>8, <1>11, <1>12 DEF StateInv

(* If the snapshots are valid, the sequence goes on from the state of the    *)
(* tokens that were kept.                                                    *)
LEMMA RejectKeepsStates ==
  ASSUME Inv, StateInv, SnapshotsValid, NEW s \in Seqs, NEW k \in 1..setting.rs, Reject(s, k)
  PROVE  StateInv'
<1>1. /\ saved' = saved /\ batch = <<>>
      /\ rs_idx' = [rs_idx EXCEPT ![s] = k]
      /\ data' = Shorten(data, s, Tokens(s) - k)
  BY DEF Reject
<1>2. Rejected(s, k)
  BY RejectIs
<1>3. /\ mem'.tail = mem.tail /\ mem.tail[s] \in Cells
      /\ \A t \in Seqs : TokensIn(mem', t) = IF t = s THEN Tokens(s) - k ELSE Tokens(t)
      /\ k \in Nat \ {0} /\ k <= drafted[s] /\ k < Tokens(s)
      /\ \A t \in Seqs : mem.tail[t] = mem.tail[s] => t = s
      /\ Blank(mem') = Blank(mem)
  BY <1>2 DEF Rejected, Blank
<1>4. /\ \A t \in Seqs : Tokens(t) \in Nat /\ Tokens(t) = TokensIn(mem, t)
      /\ \A t \in Seqs : mem.tail[t] \in Cells \cup {None}
      /\ k \in Planes
      /\ \A t \in Seqs : rs_idx'[t] = IF t = s THEN k ELSE rs_idx[t]
      /\ rs_idx \in [Seqs -> Planes] /\ drafted[s] \in Nat
  BY <1>1, InvSays, SizeAssumption, SettingIs DEF Inv, TypeOK, Memory, Planes
<1>5. /\ \A l \in Planes, c \in Cells : <<l, c>> \in DOMAIN data
      /\ SavedRow \in DOMAIN data /\ Saved # s /\ 0 \in Planes
  BY RowsAre DEF Inv
<1>6. Sharing(mem', rs_idx')
  <2>1. \A t \in Seqs : mem.tail[t] # None => TokensIn(mem', t) > 0
    BY <1>3, <1>4 DEF StateInv, Sharing
  <2>2. mem.tail[s] # None
    BY <1>3, CellsAreFinite
  <2>3. QED BY <1>3, <1>4, <2>1, <2>2 DEF StateInv, Sharing
<1>7. ASSUME NEW t \in Seqs, mem.tail[t] # None
      PROVE  <<t, TokensIn(mem', t)>> \in data'[<<rs_idx'[t], mem.tail[t]>>]
  <2>1. mem.tail[t] \in Cells
    BY <1>4, <1>7
  <2>2. CASE t = s
    <3>1. k \in 1..drafted[s]
      BY <1>3, <1>4
    <3>2. <<s, Tokens(s) - k>> \in data[<<k, mem.tail[s]>>]
      BY <1>1, <3>1 DEF SnapshotsValid
    <3>3. Tokens(s) - k <= Tokens(s) - k /\ <<k, mem.tail[s]>> \in DOMAIN data
      BY <1>3, <1>4, <1>5
    <3>4. QED BY <1>1, <1>3, <1>4, <2>2, <3>2, <3>3, ShortenKeeps
  <2>3. CASE t # s
    <3>1. <<t, Tokens(t)>> \in data[<<rs_idx[t], mem.tail[t]>>]
      BY <1>4, <1>7 DEF StateInv, Filled
    <3>2. <<rs_idx[t], mem.tail[t]>> \in DOMAIN data
      BY <1>4, <1>5, <2>1
    <3>3. QED BY <1>1, <1>3, <1>4, <2>3, <3>1, <3>2, ShortenKeeps
  <2>4. QED BY <2>2, <2>3
<1>8. ASSUME NEW c \in Blank(mem), NEW t \in Seqs PROVE <<t, 0>> \in data'[<<0, c>>]
  <2>1. <<t, 0>> \in data[<<0, c>>] /\ <<0, c>> \in DOMAIN data
    BY <1>5 DEF StateInv, Filled, Blank
  <2>2. 0 <= Tokens(s) - k
    BY <1>3, <1>4
  <2>3. QED BY <1>1, <2>1, <2>2, ShortenKeeps
<1>9. <<Saved, saved'>> \in data'[SavedRow]
  BY <1>1, <1>5, ShortenKeeps DEF StateInv
<1>10. Filled(mem', rs_idx', data')
  BY <1>3, <1>7, <1>8 DEF Filled
<1>11. QED BY <1>6, <1>9, <1>10 DEF StateInv

(* A row that the graph reads is as it was, or it was zeroed and is empty. *)
LEMMA ReadRow ==
  ASSUME TypeOK, NEW f, f.zero \in Cells \cup {None}, NEW k \in Planes, NEW c \in Cells
  PROVE  /\ k # 0 \/ c # f.zero => Zeroed(f)[<<k, c>>] = data[<<k, c>>]
         /\ \A s \in Seqs : <<s, 0>> \in data[<<0, c>>] \/ c = f.zero => <<s, 0>> \in Zeroed(f)[<<0, c>>]
         /\ Zeroed(f)[SavedRow] = data[SavedRow]
<1>1. /\ \A l \in Planes, e \in Cells : <<l, e>> \in DOMAIN data /\ <<l, e>> # SavedRow
      /\ SavedRow \in DOMAIN data /\ 0 \in Planes /\ None \notin Cells
  BY RowsAre, CellsAreFinite
<1>2. CASE f.zero = None
  BY <1>1, <1>2 DEF Zeroed
<1>3. CASE f.zero # None
  <2> DEFINE d == [data EXCEPT ![<<0, f.zero>>] = Zero]
  <2>1. Zeroed(f) = d
    BY <1>3 DEF Zeroed
  <2>2. <<0, f.zero>> \in DOMAIN data /\ <<0, f.zero>> # SavedRow
    BY <1>1, <1>3
  <2>3. d[<<0, f.zero>>] = Zero /\ \A r \in DOMAIN data : r # <<0, f.zero>> => d[r] = data[r]
    BY <2>2
  <2> HIDE DEF d
  <2>4. k # 0 \/ c # f.zero => <<k, c>> # <<0, f.zero>>
    OBVIOUS
  <2>5. c # f.zero => d[<<0, c>>] = data[<<0, c>>]
    BY <1>1, <2>3
  <2>6. \A s \in Seqs : <<s, 0>> \in Zero
    BY DEF Zero
  <2>7. QED BY <1>1, <2>1, <2>2, <2>3, <2>4, <2>5, <2>6
<1>4. QED BY <1>2, <1>3

(* The state of a sequence of u, and of a bystander in the range of the      *)
(* graph, is read from the row it was in before.                             *)
LEMMA ReadsState ==
  ASSUME Inv, StateInv, NEW u \in Seq(Seqs), NEW f, NEW last,
         Found(f, mem, u, last), Sourced(f, mem, u),
         NEW t \in Seqs, f.mem.tail[t] \in f.range
  PROVE  /\ <<t, Tokens(t)>> \in Zeroed(f)[SCopy(f, f.mem.tail[t])]
         /\ SCopy(f, f.mem.tail[t]) \in Planes \X Cells
<1> DEFINE c == f.mem.tail[t]
           v == First(f.mem.cells[c])
<1>1. /\ f.mem \in Memory /\ Placed(f.mem, {}) /\ f.range \in SUBSET Cells
      /\ f.zero \in Cells \cup {None} /\ f.src0 \in [f.range -> Cells]
  BY DEF Found
<1>2. c \in f.range /\ c \in Cells /\ c # None /\ f.src0[c] \in Cells
  BY <1>1, CellsAreFinite
<1>3. t \in f.mem.cells[c].seqs /\ f.mem.cells[c].seqs \in SUBSET Seqs
  BY <1>1, <1>2 DEF Placed, Memory, Cell
<1>4. v \in f.mem.cells[c].seqs /\ v \in Seqs /\ f.mem.tail[v] = c
  <2>1. f.mem.cells[c].seqs \in SUBSET Nat
    BY <1>3, CellsAreNats DEF Seqs
  <2>2. v \in f.mem.cells[c].seqs
    BY <1>3, <2>1, MinOfNats DEF First
  <2>3. QED BY <1>1, <1>2, <1>3, <2>2 DEF Placed
<1> DEFINE k == IF setting.rs = 0 THEN 0 ELSE rs_idx[v]
<1>5. SCopy(f, c) = <<k, f.src0[c]>>
  BY <1>3 DEF SCopy
<1> HIDE DEF c, v
<1>6. rs_idx \in [Seqs -> Planes] /\ 0 \in Planes /\ (setting.rs = 0 => \A s \in Seqs : rs_idx[s] = 0)
  <2>1. setting.rs = 0 => Planes = {0}
    BY DEF Planes
  <2>2. QED BY <2>1, SettingIs DEF Inv, TypeOK
<1>7. k = rs_idx[v] /\ k \in Planes
  BY <1>4, <1>6
<1> HIDE DEF k
<1>8. Tokens(t) = TokensIn(mem, t) /\ TypeOK
  BY InvSays DEF Inv
<1>9. CASE mem.tail[t] # None
  <2>1. f.src0[c] = mem.tail[t] /\ mem.tail[t] # f.zero
    BY <1>2, <1>9 DEF Sourced, c
  <2>2. rs_idx[v] = rs_idx[t]
    <3>1. mem.tail[v] = mem.tail[t] \/ mem.tail[v] = None
      BY <1>2, <1>4, <2>1 DEF Sourced
    <3>2. CASE mem.tail[v] = mem.tail[t]
      BY <1>4, <1>9, <3>2 DEF StateInv, Sharing
    <3>3. CASE mem.tail[v] = None
      <4>1. f.src0[c] \in Blank(mem) \cup {f.zero}
        BY <1>2, <1>4, <3>3 DEF Sourced
      <4>2. t \in mem.cells[mem.tail[t]].seqs
        BY <1>9, InvSays DEF MemoryOK, Placed
      <4>3. QED BY <2>1, <4>1, <4>2 DEF Blank
    <3>4. QED BY <3>1, <3>2, <3>3
  <2>3. <<t, Tokens(t)>> \in data[<<rs_idx[t], mem.tail[t]>>]
    BY <1>8, <1>9 DEF StateInv, Filled
  <2>4. Zeroed(f)[<<k, f.src0[c]>>] = data[<<k, f.src0[c]>>]
    <3> DEFINE x == f.src0[c]
    <3>1. x \in Cells /\ x # f.zero /\ f.zero \in Cells \cup {None} /\ TypeOK /\ k \in Planes
      BY <1>1, <1>2, <1>7, <1>8, <2>1
    <3> HIDE DEF x
    <3>2. Zeroed(f)[<<k, x>>] = data[<<k, x>>]
      BY <3>1, ReadRow
    <3>3. QED BY <3>2 DEF x
  <2>5. QED BY <1>2, <1>5, <1>7, <2>1, <2>2, <2>3, <2>4 DEF c
<1>10. CASE mem.tail[t] = None
  <2>1. f.src0[c] \in Blank(mem) \cup {f.zero}
    BY <1>2, <1>10 DEF Sourced, c
  <2>2. rs_idx[v] = 0
    <3>1. mem.tail[v] = None \/ (f.src0[c] = mem.tail[v] /\ mem.tail[v] # f.zero)
      BY <1>2, <1>4 DEF Sourced
    <3>2. CASE mem.tail[v] = None
      BY <1>4, <3>2 DEF StateInv, Sharing
    <3>3. CASE f.src0[c] = mem.tail[v] /\ mem.tail[v] # f.zero /\ mem.tail[v] # None
      <4>1. mem.tail[v] \in Blank(mem)
        BY <2>1, <3>3
      <4>2. v \in mem.cells[mem.tail[v]].seqs
        BY <1>4, <3>3, InvSays DEF MemoryOK, Placed
      <4>3. QED BY <4>1, <4>2 DEF Blank
    <3>4. QED BY <3>1, <3>2, <3>3
  <2>3. Tokens(t) = 0
    BY <1>8, <1>10 DEF TokensIn
  <2>4. <<t, 0>> \in data[<<0, f.src0[c]>>] \/ f.src0[c] = f.zero
    BY <2>1 DEF StateInv, Filled
  <2>5. <<t, 0>> \in Zeroed(f)[<<0, f.src0[c]>>]
    BY <1>1, <1>2, <1>6, <1>8, <2>4, ReadRow
  <2>6. QED BY <1>2, <1>5, <1>6, <1>7, <2>2, <2>3, <2>5 DEF c
<1>11. QED BY <1>9, <1>10

(* What the graph writes: of each sequence of u its newest states, its older *)
(* snapshots are gone; the newest rows of bystanders in the range from where *)
(* they were read; nothing else.                                             *)
Bystanders(f, u) ==
  \A c \in Cells : (\A s \in Elements(u.seqs) : f.mem.tail[s] # c) =>
    /\ c \in f.range => Computed(f, u)[<<0, c>>] = Zeroed(f)[SCopy(f, c)]
    /\ \A k \in Planes : k # 0 \/ c \notin f.range =>
         Computed(f, u)[<<k, c>>] = Zeroed(f)[<<k, c>>]

LEMMA ComputedRows ==
  ASSUME Inv, NEW u, IsUbatch(u), NEW f, NEW last, Found(f, mem, u.seqs, last)
  PROVE  /\ \A s \in Elements(u.seqs), g \in Planes :
              g < u.tokens /\ <<s, Tokens(s)>> \in Zeroed(f)[SCopy(f, f.mem.tail[s])]
              => <<s, (Tokens(s) + u.tokens) - g>> \in Computed(f, u)[<<g, f.mem.tail[s]>>]
         /\ Bystanders(f, u)
         /\ Computed(f, u)[SavedRow] = Zeroed(f)[SavedRow]
<1> DEFINE old == Zeroed(f)
           n(s) == Tokens(s) + u.tokens
           State(s, c, g) == IF g < u.tokens /\ <<s, Tokens(s)>> \in old[SCopy(f, c)]
                             THEN {<<s, n(s) - g>>} ELSE {}
           main == f.mem.head..(f.mem.head + Len(u.seqs) - 1)
           value(r) == CASE r[2] \in main -> State(u.seqs[r[2] - f.mem.head + 1], r[2], r[1])
                         [] r[1] = 0 /\ r[2] \in f.range \ main -> old[SCopy(f, r[2])]
                         [] OTHER -> old[r]
<1>1. /\ main \subseteq f.range /\ f.range \in SUBSET Cells /\ f.mem.head \in Nat
      /\ Len(u.seqs) \in Nat /\ \A i \in 1..Len(u.seqs) : f.mem.tail[u.seqs[i]] = f.mem.head + i - 1
  <2>1. f.mem.head \in Cells
    BY DEF Found, Memory
  <2>2. f.mem.head \in Nat
    BY <2>1, CellsAreNats, Zenon
  <2>3. Len(u.seqs) \in Nat
    BY DEF IsUbatch
  <2>4. QED BY <2>2, <2>3 DEF Found
<1>2. /\ \A k \in Planes, c \in Cells : <<k, c>> \in Rows
      /\ SavedRow \in Rows /\ SavedRow[2] = None /\ None \notin Cells /\ 0 \in Planes
  BY RowsAre, CellsAreFinite DEF Inv, SavedRow
<1>3. Computed(f, u) = [r \in Rows |-> value(r)]
  BY DEF Computed
<1> HIDE DEF old
<1>4. \A r \in Rows : Computed(f, u)[r] = value(r)
  BY <1>3
<1>5. \A s \in Elements(u.seqs), g \in Planes :
        g < u.tokens /\ <<s, Tokens(s)>> \in Zeroed(f)[SCopy(f, f.mem.tail[s])]
        => <<s, (Tokens(s) + u.tokens) - g>> \in Computed(f, u)[<<g, f.mem.tail[s]>>]
  <2> SUFFICES ASSUME NEW s \in Elements(u.seqs), NEW g \in Planes, g < u.tokens,
                      <<s, Tokens(s)>> \in Zeroed(f)[SCopy(f, f.mem.tail[s])]
               PROVE  <<s, (Tokens(s) + u.tokens) - g>> \in Computed(f, u)[<<g, f.mem.tail[s]>>]
    OBVIOUS
  <2>1. PICK i \in 1..Len(u.seqs) : u.seqs[i] = s
    BY DEF Elements
  <2> DEFINE c == f.mem.tail[s]
  <2>2. c = f.mem.head + i - 1
    BY <1>1, <2>1
  <2>3. c \in main /\ c - f.mem.head + 1 = i
    BY <1>1, <2>1, <2>2
  <2>4. <<g, c>> \in Rows
    BY <1>1, <1>2, <2>3
  <2> HIDE DEF c
  <2>5. value(<<g, c>>) = State(s, c, g)
    BY <2>1, <2>3
  <2>6. State(s, c, g) = {<<s, (Tokens(s) + u.tokens) - g>>}
    <3>1. <<s, Tokens(s)>> \in old[SCopy(f, c)] /\ g < u.tokens
      BY DEF c, old
    <3>2. QED BY <3>1
  <2> HIDE DEF value, State
  <2>7. Computed(f, u)[<<g, c>>] = {<<s, (Tokens(s) + u.tokens) - g>>}
    BY <1>4, <2>4, <2>5, <2>6
  <2>8. QED BY <2>7 DEF c
<1>6. ASSUME NEW c \in Cells, \A s \in Elements(u.seqs) : f.mem.tail[s] # c
      PROVE  /\ c \in f.range => Computed(f, u)[<<0, c>>] = old[SCopy(f, c)]
             /\ \A k \in Planes : k # 0 \/ c \notin f.range =>
                  Computed(f, u)[<<k, c>>] = old[<<k, c>>]
  <2>1. c \notin main
    <3> SUFFICES ASSUME c \in main PROVE FALSE
      OBVIOUS
    <3> DEFINE i == c - f.mem.head + 1
               h == f.mem.head
               l == Len(u.seqs)
    <3>1. i \in 1..Len(u.seqs) /\ f.mem.head + i - 1 = c
      <4>1. h \in Nat /\ l \in Nat /\ c \in h..((h + l) - 1) /\ i = c - h + 1
        BY <1>1
      <4> HIDE DEF h, l, i
      <4>2. i \in 1..l /\ h + i - 1 = c
        BY <4>1
      <4>3. QED BY <4>2 DEF h, l
    <3> HIDE DEF i
    <3>2. f.mem.tail[u.seqs[i]] = c /\ u.seqs[i] \in Elements(u.seqs)
      BY <1>1, <3>1 DEF Elements
    <3>3. QED BY <1>6, <3>2
  <2> HIDE DEF main, State
  <2>2. c \in f.range => value(<<0, c>>) = old[SCopy(f, c)]
    BY <2>1
  <2>3. \A k \in Planes : k # 0 \/ c \notin f.range => value(<<k, c>>) = old[<<k, c>>]
    BY <2>1
  <2> HIDE DEF value
  <2>4. QED BY <1>2, <1>4, <2>2, <2>3
<1>7. Computed(f, u)[SavedRow] = old[SavedRow]
  <2>1. None \notin main /\ None \notin f.range
    BY <1>1, <1>2
  <2> HIDE DEF main, State
  <2>2. value(SavedRow) = old[SavedRow]
    BY <1>2, <2>1
  <2> HIDE DEF value
  <2>3. QED BY <1>2, <1>4, <2>2
<1> HIDE DEF value, main, State
<1>8. Bystanders(f, u)
  BY <1>6 DEF old, Bystanders
<1>9. QED BY <1>5, <1>7, <1>8 DEF old

(* A micro-batch leaves each sequence the state of its tokens, those in it,  *)
(* those whose cells it moved and the others.                                *)
LEMMA DecodeUbatchKeepsStates ==
  ASSUME Inv, StateInv, DecodeUbatch
  PROVE  StateInv'
<1>1. PICK u, f, last : Decoded(u, f, last)
  BY DecodeUbatchIs
<1> DEFINE U == Elements(u.seqs)
<1>2. /\ IsUbatch(u) /\ U \in SUBSET Seqs /\ \A s \in U : s \in Used(f)
      /\ Found(f, mem, u.seqs, last) /\ Sourced(f, mem, u.seqs)
      /\ mem' = f.mem /\ data' = Computed(f, u) /\ saved' = saved
      /\ rs_idx' = [s \in Seqs |-> IF s \in Used(f) THEN 0 ELSE rs_idx[s]]
      /\ \A s \in Seqs : TokensIn(mem', s) = IF s \in U THEN Tokens(s) + u.tokens ELSE Tokens(s)
  BY <1>1 DEF Decoded
<1>3. u.seqs \in Seq(Seqs) /\ u.tokens \in Nat \ {0}
  BY <1>2 DEF IsUbatch
<1>4. /\ f.mem \in Memory /\ Placed(f.mem, {}) /\ OwnSources(f.mem) /\ f.range \in SUBSET Cells
      /\ f.zero \in Cells \cup {None}
      /\ \A s \in Seqs : f.mem.tail[s] \in Cells \cup {None}
      /\ \A s \in Seqs : Tokens(s) \in Nat /\ Tokens(s) = TokensIn(mem, s)
  BY <1>2, InvSays, SizeAssumption DEF Found, Memory
<1>5. \A s \in U : f.mem.tail[s] \in f.range /\ f.mem.cells[f.mem.tail[s]].seqs = {s}
  BY <1>2, <1>3, InvSays, FoundIs
<1>6. /\ TypeOK /\ \A k \in Planes, c \in Cells : <<k, c>> \in Rows
      /\ 0 \in Planes /\ None \notin Cells
      /\ rs_idx \in [Seqs -> Planes]
      /\ \A s \in Seqs : rs_idx'[s] = IF s \in Used(f) THEN 0 ELSE rs_idx[s]
  BY <1>2, RowsAre, CellsAreFinite DEF Inv, TypeOK
<1> HIDE DEF U
<1> DEFINE Same == \A k \in Planes, c \in Cells : k # 0 \/ c # f.zero => Zeroed(f)[<<k, c>>] = data[<<k, c>>]
<1>7. Bystanders(f, u)
  BY <1>2, ComputedRows
<1>8. Same
  <2> SUFFICES ASSUME NEW k \in Planes, NEW c \in Cells, k # 0 \/ c # f.zero
               PROVE  Zeroed(f)[<<k, c>>] = data[<<k, c>>]
    OBVIOUS
  <2>1. TypeOK /\ f.zero \in Cells \cup {None}
    BY <1>4, <1>6
  <2>2. QED BY <2>1, ReadRow
<1> HIDE DEF Same
<1>9. ASSUME NEW t \in Seqs, t \notin U, f.mem.tail[t] # None
      PROVE  /\ mem.tail[t] # None
             /\ \A s \in U : f.mem.tail[s] # f.mem.tail[t]
             /\ \A v \in Seqs : f.mem.tail[v] = f.mem.tail[t] => v \notin U /\ mem.tail[v] = mem.tail[t]
  <2>1. t \in f.mem.cells[f.mem.tail[t]].seqs
    BY <1>4, <1>9 DEF Placed
  <2>2. \A s \in U : f.mem.tail[s] # f.mem.tail[t]
    BY <1>5, <1>9, <2>1
  <2>3. \A v \in Seqs : f.mem.tail[v] = f.mem.tail[t] => v \notin U
    BY <2>2
  <2>4. QED BY <1>2, <1>9, <2>2, <2>3 DEF Found, Others, U
<1>10. ASSUME NEW s \in Used(f) PROVE f.mem.tail[s] \in f.range
  <2>1. PICK c \in f.range : f.mem.cells[c].seqs # {} /\ s = First(f.mem.cells[c])
    BY DEF Used
  <2>2. f.mem.cells[c].seqs \in SUBSET Nat
    BY <1>4, CellsAreNats DEF Memory, Cell, Seqs
  <2>3. s \in f.mem.cells[c].seqs
    BY <2>1, <2>2, MinOfNats DEF First
  <2>4. QED BY <1>4, <2>1, <2>3 DEF Placed
<1>11. Sharing(mem', rs_idx')
  <2>1. ASSUME NEW t \in Seqs, f.mem.tail[t] # None PROVE TokensIn(mem', t) > 0
    <3>1. CASE t \in U
      BY <1>2, <1>3, <1>4, <3>1
    <3>2. CASE t \notin U
      BY <1>2, <1>4, <1>9, <2>1, <3>2 DEF StateInv, Sharing
    <3>3. QED BY <3>1, <3>2
  <2>2. ASSUME NEW t \in Seqs, f.mem.tail[t] = None PROVE rs_idx'[t] = 0
    <3>1. t \notin U
      BY <1>4, <1>5, <1>6, <2>2
    <3>2. mem.tail[t] = None
      BY <1>2, <2>2, <3>1 DEF Found, Others, U
    <3>3. QED BY <1>6, <3>2 DEF StateInv, Sharing
  <2>3. ASSUME NEW t \in Seqs, NEW v \in Seqs, t # v, f.mem.tail[t] # None,
               f.mem.tail[t] = f.mem.tail[v]
        PROVE  rs_idx'[t] = 0
    <3>1. CASE t \in U
      BY <1>2, <1>6, <3>1
    <3>2. CASE t \notin U
      <4>1. mem.tail[t] # None /\ mem.tail[v] = mem.tail[t]
        BY <1>9, <2>3, <3>2
      <4>2. rs_idx[t] = 0
        BY <2>3, <4>1 DEF StateInv, Sharing
      <4>3. QED BY <1>6, <4>2
    <3>3. QED BY <3>1, <3>2
  <2>4. QED BY <1>2, <2>1, <2>2, <2>3 DEF Sharing
<1>12. ASSUME NEW t \in Seqs, f.mem.tail[t] # None
       PROVE  <<t, TokensIn(mem', t)>> \in Computed(f, u)[<<rs_idx'[t], f.mem.tail[t]>>]
  <2> DEFINE c == f.mem.tail[t]
  <2>1. c \in Cells /\ c # None
    BY <1>4, <1>12
  <2>2. CASE t \in U
    <3>1. <<t, Tokens(t)>> \in Zeroed(f)[SCopy(f, c)]
      BY <1>2, <1>3, <1>5, <2>2, ReadsState
    <3>2. 0 < u.tokens
      BY <1>3
    <3>3. <<t, (Tokens(t) + u.tokens) - 0>> \in Computed(f, u)[<<0, c>>]
      BY <1>2, <1>6, <2>2, <3>1, <3>2, ComputedRows DEF U
    <3>4. (Tokens(t) + u.tokens) - 0 = Tokens(t) + u.tokens
      BY <1>3, <1>4
    <3>5. QED BY <1>2, <1>6, <2>2, <3>3, <3>4
  <2>3. CASE t \notin U /\ c \in f.range
    <3>1. <<t, Tokens(t)>> \in Zeroed(f)[SCopy(f, c)]
      BY <1>2, <1>3, <2>3, ReadsState
    <3>2. \A s \in U : f.mem.tail[s] # c
      BY <1>9, <1>12, <2>3
    <3>3. Computed(f, u)[<<0, c>>] = Zeroed(f)[SCopy(f, c)]
      BY <1>7, <2>1, <2>3, <3>2 DEF Bystanders, U
    <3>4. rs_idx'[t] = 0
      <4> DEFINE v == First(f.mem.cells[c])
      <4>1. t \in f.mem.cells[c].seqs /\ f.mem.cells[c].seqs \in SUBSET Seqs
        BY <1>4, <2>1 DEF Placed, Memory, Cell
      <4>2. v \in f.mem.cells[c].seqs
        <5>1. f.mem.cells[c].seqs \in SUBSET Nat
          BY <4>1, CellsAreNats DEF Seqs
        <5>2. QED BY <4>1, <5>1, MinOfNats DEF First
      <4>3. v \in Used(f)
        BY <2>3, <4>1 DEF Used
      <4> HIDE DEF v
      <4>4. v \in Seqs /\ f.mem.tail[v] = c
        BY <1>4, <2>1, <4>1, <4>2 DEF Placed
      <4>5. CASE v = t
        BY <1>6, <4>3, <4>5
      <4>6. CASE v # t
        BY <1>2, <1>11, <2>1, <4>4, <4>6 DEF Sharing
      <4>7. QED BY <4>5, <4>6
    <3>5. QED BY <1>2, <2>3, <3>1, <3>3, <3>4
  <2>4. CASE t \notin U /\ c \notin f.range
    <3>1. mem.tail[t] = c
      BY <1>2, <2>1, <2>4 DEF Sourced
    <3>2. rs_idx'[t] = rs_idx[t] /\ rs_idx[t] \in Planes
      BY <1>6, <1>10, <2>4
    <3>3. \A s \in U : f.mem.tail[s] # c
      BY <1>9, <1>12, <2>4
    <3>4. Computed(f, u)[<<rs_idx[t], c>>] = Zeroed(f)[<<rs_idx[t], c>>]
      BY <1>7, <2>1, <2>4, <3>2, <3>3 DEF Bystanders, U
    <3>5. c # f.zero
      BY <1>2, <2>1, <2>4 DEF Sourced
    <3> HIDE DEF c
    <3>6. Zeroed(f)[<<rs_idx[t], c>>] = data[<<rs_idx[t], c>>]
      BY <1>8, <2>1, <3>2, <3>5 DEF Same
    <3>7. <<t, Tokens(t)>> \in data[<<rs_idx[t], c>>]
      BY <1>4, <2>1, <3>1 DEF StateInv, Filled
    <3>8. QED BY <1>2, <2>4, <3>2, <3>4, <3>6, <3>7 DEF c
  <2>5. QED BY <2>2, <2>3, <2>4
<1>13. ASSUME NEW c \in Blank(f.mem), NEW t \in Seqs PROVE <<t, 0>> \in Computed(f, u)[<<0, c>>]
  <2>1. c \in Cells /\ f.mem.cells[c].seqs = {}
    BY DEF Blank
  <2>2. \A s \in U : f.mem.tail[s] # c
    BY <1>5, <2>1
  <2>3. CASE c \in f.range
    <3>1. f.src0[c] \in Blank(mem) \cup {f.zero} /\ f.src0[c] \in Cells
      BY <1>2, <2>1, <2>3 DEF Sourced, Found
    <3>2. SCopy(f, c) = <<0, f.src0[c]>>
      BY <2>1 DEF SCopy
    <3>3. Computed(f, u)[<<0, c>>] = Zeroed(f)[<<0, f.src0[c]>>]
      BY <1>7, <2>1, <2>2, <2>3, <3>2 DEF Bystanders, U
    <3>4. <<t, 0>> \in data[<<0, f.src0[c]>>] \/ f.src0[c] = f.zero
      BY <3>1 DEF StateInv, Filled
    <3>5. <<t, 0>> \in Zeroed(f)[<<0, f.src0[c]>>]
      BY <1>4, <1>6, <3>1, <3>4, ReadRow
    <3>6. QED BY <3>3, <3>5
  <2>4. CASE c \notin f.range
    <3>1. c \in Blank(mem)
      BY <1>2, <2>4 DEF Sourced
    <3>2. <<t, 0>> \in data[<<0, c>>]
      BY <3>1 DEF StateInv, Filled
    <3>3. <<t, 0>> \in Zeroed(f)[<<0, c>>]
      BY <1>4, <1>6, <2>1, <3>2, ReadRow
    <3>4. Computed(f, u)[<<0, c>>] = Zeroed(f)[<<0, c>>]
      BY <1>6, <1>7, <2>1, <2>2, <2>4 DEF Bystanders, U
    <3>5. QED BY <3>3, <3>4
  <2>5. QED BY <2>3, <2>4
<1>14. <<Saved, saved>> \in Computed(f, u)[SavedRow]
  <2>1. Computed(f, u)[SavedRow] = Zeroed(f)[SavedRow]
    BY <1>2, ComputedRows
  <2>2. 0 \in Cells
    BY SizeAssumption DEF Cells
  <2>3. Zeroed(f)[SavedRow] = data[SavedRow]
    BY <1>4, <1>6, <2>2, ReadRow
  <2>4. QED BY <2>1, <2>3 DEF StateInv
<1>15. Filled(mem', rs_idx', data')
  BY <1>2, <1>12, <1>13 DEF Filled
<1>16. QED BY <1>2, <1>11, <1>14, <1>15 DEF StateInv

-----------------------------------------------------------------------------
(* So each sequence always has the state that it should have: the memory     *)
(* implements SequenceStates.                                                *)
Known == [s \in Seqs |-> StateOf(s)]
Written == IF <<Saved, saved>> \in data[SavedRow] THEN saved ELSE Lost

(* No state is lost. *)
LEMMA KnownIs ==
  Inv /\ StateInv => Known = [s \in Seqs |-> TokensIn(mem, s)] /\ Written = saved
BY StateOfIs, InvSays DEF Known, Written, StateInv

(* What a step makes of what is known, *)
LEMMA KnownNext ==
  Inv' /\ StateInv' => Known' = [s \in Seqs |-> TokensIn(mem', s)] /\ Written' = saved'
<1>1. Inv' /\ StateInv' => (Known = [s \in Seqs |-> TokensIn(mem, s)] /\ Written = saved)'
  BY KnownIs, PTL
<1>2. Seqs' = Seqs /\ ([s \in Seqs |-> TokensIn(mem, s)])' = [s \in Seqs |-> TokensIn(mem', s)]
  BY DEF TokensIn
<1>3. QED BY <1>1, <1>2

LEMMA StatesFirst == Init => States!Init
<1> SUFFICES ASSUME Init PROVE States!Init
  OBVIOUS
<1>1. Known = [s \in Seqs |-> TokensIn(mem, s)] /\ Written = saved
  BY InvHoldsFirst, StateInvFirst, KnownIs
<1>2. saved = 0 /\ \A s \in Seqs : TokensIn(mem, s) = 0
  BY DEF Init, TokensIn
<1>3. QED BY <1>1, <1>2 DEF States!Init, Known, Written

(* and that each step is one that SequenceStates allows. *)
LEMMA StepIsAllowed ==
  ASSUME Inv, StateInv, SnapshotsValid, Inv', [Next]_vars
  PROVE  StateInv' /\ [States!Next]_<<Known, Written>>
<1> DEFINE K == [s \in Seqs |-> TokensIn(mem, s)]
           N == [s \in Seqs |-> TokensIn(mem', s)]
<1>1. /\ Known = K /\ Written = saved
      /\ StateInv' => Known' = N /\ Written' = saved'
  <2>1. Known = K /\ Written = saved
    BY KnownIs, Zenon
  <2>2. StateInv' => Known' = N /\ Written' = saved'
    BY KnownNext, Zenon
  <2>3. QED BY <2>1, <2>2, Zenon
<1>2. /\ setting.slots \subseteq Seqs
      /\ \A s \in Seqs : Tokens(s) = TokensIn(mem, s) /\ Tokens(s) \in Nat
  <2>1. setting.slots \subseteq Seqs
    BY SettingIs DEF Inv, TypeOK
  <2>2. \A s \in Seqs : Tokens(s) = TokensIn(mem, s) /\ Tokens(s) \in 0..MaxTokens
    BY InvSays
  <2>3. QED BY <2>1, <2>2, SizeAssumption
<1>3. ASSUME mem' = mem, rs_idx' = rs_idx, data' = data, saved' = saved
      PROVE  StateInv' /\ [States!Next]_<<Known, Written>>
  <2>1. StateInv'
    <3>1. Sharing(mem, rs_idx) /\ Filled(mem, rs_idx, data) /\ <<Saved, saved>> \in data[SavedRow]
      BY DEF StateInv
    <3>2. Sharing(mem', rs_idx') /\ Filled(mem', rs_idx', data') /\ <<Saved, saved'>> \in data'[SavedRow]
      BY <1>3, <3>1
    <3>3. QED BY <3>2 DEF StateInv
  <2>2. N = K
    BY <1>3
  <2>3. Known' = Known /\ Written' = Written
    BY <1>1, <1>3, <2>1, <2>2
  <2>4. QED BY <2>1, <2>3
<1>4. ASSUME NEW gens, NEW prompts, NEW d, NEW p, StartDecode(gens, d, prompts, p)
      PROVE  StateInv' /\ [States!Next]_<<Known, Written>>
  BY <1>3, <1>4 DEF StartDecode
<1>5. CASE DecodeUbatch
  <2>1. StateInv'
    BY <1>5, DecodeUbatchKeepsStates
  <2>2. PICK u, f, last : Decoded(u, f, last)
    BY <1>5, DecodeUbatchIs
  <2> DEFINE U == Elements(u.seqs)
  <2>3. /\ saved' = saved /\ u.tokens \in Nat
        /\ \A s \in Seqs : TokensIn(mem', s) = IF s \in U THEN TokensIn(mem, s) + u.tokens ELSE TokensIn(mem, s)
    BY <1>2, <2>2 DEF Decoded, IsUbatch
  <2> HIDE DEF U
  <2>4. ASSUME NEW s \in Seqs
        PROVE  N[s] \in Nat /\ N[s] >= K[s] /\ (N[s] # K[s] => N[s] - K[s] = u.tokens)
    <3>1. K[s] \in Nat /\ N[s] = IF s \in U THEN K[s] + u.tokens ELSE K[s]
      BY <1>2, <2>3
    <3> HIDE DEF K, N
    <3>2. QED BY <2>3, <3>1
  <2>5. N \in [Seqs -> Nat]
    BY <2>4
  <2> HIDE DEF K, N
  <2>6. States!Extend
    BY <1>1, <2>1, <2>3, <2>4, <2>5 DEF States!Extend, Known, Written
  <2>7. QED BY <2>1, <2>6 DEF States!Next
<1>6. ASSUME NEW s \in setting.slots, Accept(s)
      PROVE  StateInv' /\ [States!Next]_<<Known, Written>>
  BY <1>3, <1>6 DEF Accept
<1>7. ASSUME NEW s \in Seqs, NEW n \in 0..K[s], StateInv', N = [K EXCEPT ![s] = n], saved' = saved
      PROVE  [States!Next]_<<Known, Written>>
  <2> HIDE DEF K, N
  <2>1. States!Rewind(s)
    BY <1>1, <1>7 DEF States!Rewind, Known, Written
  <2>2. QED BY <2>1 DEF States!Next
<1>8. ASSUME NEW s \in setting.slots, NEW k \in 1..setting.rs, Reject(s, k)
      PROVE  StateInv' /\ [States!Next]_<<Known, Written>>
  <2>1. StateInv' /\ s \in Seqs /\ saved' = saved
    BY <1>2, <1>8, RejectKeepsStates DEF Reject
  <2>2. /\ \A t \in Seqs : TokensIn(mem', t) = IF t = s THEN TokensIn(mem, s) - k ELSE TokensIn(mem, t)
        /\ k \in Nat /\ k < TokensIn(mem, s)
    BY <1>2, <1>8, RejectIs DEF Rejected
  <2>3. N = [K EXCEPT ![s] = TokensIn(mem, s) - k]
    BY <2>1, <2>2
  <2>4. TokensIn(mem, s) - k \in 0..K[s]
    BY <1>2, <2>1, <2>2
  <2>5. QED BY <1>7, <2>1, <2>3, <2>4
<1>9. ASSUME NEW s \in setting.slots, Clear(s)
      PROVE  StateInv' /\ [States!Next]_<<Known, Written>>
  <2>1. /\ StateInv' /\ s \in Seqs /\ saved' = saved
        /\ \A t \in Seqs : TokensIn(mem', t) = IF t = s THEN 0 ELSE TokensIn(mem, t)
    BY <1>2, <1>9, ClearKeepsStates DEF Clear
  <2>2. N = [K EXCEPT ![s] = 0]
    BY <2>1
  <2>3. 0 \in 0..K[s]
    BY <1>2, <2>1
  <2>4. QED BY <1>7, <2>1, <2>2, <2>3
<1>10. ASSUME NEW s \in setting.slots, Write(s)
       PROVE  StateInv' /\ [States!Next]_<<Known, Written>>
  <2>1. StateInv' /\ s \in Seqs /\ mem' = mem /\ saved' = TokensIn(mem, s)
    BY <1>2, <1>10, WriteKeepsStates DEF Write
  <2>2. N = K /\ saved' = K[s]
    BY <2>1
  <2> HIDE DEF K, N
  <2>3. States!WriteOut(s)
    BY <1>1, <2>1, <2>2 DEF States!WriteOut, Known, Written
  <2>4. QED BY <2>1, <2>3 DEF States!Next
<1>11. ASSUME NEW s \in setting.slots, Read(s)
       PROVE  StateInv' /\ [States!Next]_<<Known, Written>>
  <2>1. /\ StateInv' /\ s \in Seqs /\ saved' = saved
        /\ \A t \in Seqs : TokensIn(mem', t) = IF t = s THEN saved ELSE TokensIn(mem, t)
    BY <1>2, <1>11, ReadKeepsStates DEF Read
  <2>2. N = [K EXCEPT ![s] = saved]
    BY <2>1
  <2> HIDE DEF K, N
  <2>3. States!ReadBack(s)
    BY <1>1, <2>1, <2>2 DEF States!ReadBack, Known, Written
  <2>4. QED BY <2>1, <2>3 DEF States!Next
<1>12. ASSUME NEW a \in setting.slots, NEW b \in setting.slots, CopyState(a, b)
       PROVE  StateInv' /\ [States!Next]_<<Known, Written>>
  <2>1. /\ StateInv' /\ a \in Seqs /\ b \in Seqs /\ saved' = saved
        /\ \A t \in Seqs : TokensIn(mem', t) = IF t = b THEN TokensIn(mem, a) ELSE TokensIn(mem, t)
    BY <1>2, <1>12, CopyStateKeepsStates DEF CopyState
  <2>2. N = [K EXCEPT ![b] = K[a]]
    BY <2>1
  <2> HIDE DEF K, N
  <2>3. States!Copy(a, b)
    BY <1>1, <2>1, <2>2 DEF States!Copy, Known, Written
  <2>4. QED BY <2>1, <2>3 DEF States!Next
<1>13. CASE UNCHANGED vars
  BY <1>3, <1>13 DEF vars
<1> HIDE DEF K, N
<1>14. QED
  BY <1>4, <1>5, <1>6, <1>8, <1>9, <1>10, <1>11, <1>12, <1>13 DEF Next

(* Whatever micro-batches are made, cells shared, moved and zeroed, drafts   *)
(* taken back and states written and read, each sequence has the state of    *)
(* exactly its tokens (llama-memory-recurrent.cpp), as long as the snapshots *)
(* that a draft is taken back from hold what they stand for.                 *)
THEOREM StatesLostThroughSnapshots == Spec /\ []SnapshotsValid => ImplementsStates
<1>1. Inv /\ StateInv /\ SnapshotsValid /\ Inv' /\ [Next]_vars =>
        StateInv' /\ [States!Next]_<<Known, Written>>
  BY StepIsAllowed
<1>2. Init => StateInv
  BY StateInvFirst
<1>3. QED
  BY <1>1, <1>2, StatesFirst, InvHolds, PTL DEF Spec, ImplementsStates, States!Spec, Known, Written

-----------------------------------------------------------------------------
(* The snapshots.  They cannot be lost if there are none, if no cell can be  *)
(* moved that is not decoded, or if no batch is split.                       *)
SnapshotsStay(c) ==
  \/ c.rs = 0
  \/ c.split = "serial"
  \/ Cardinality(c.slots) <= 2
  \/ c.split = "unified" /\ c.even

(* What is left of the batch, and what may be taken back of it.              *)
SplitInv ==
  /\ SnapshotsStay(setting)
  /\ \A s \in Seqs : left[s] > 0 \/ drafted[s] > 0 => s \in setting.slots
  /\ \A s \in Seqs : left[s] > 0 => drafted[s] < left[s]
  /\ setting.split = "unified" /\ setting.even =>
       Equal /\ (batch # <<>> => \A s \in Seqs : drafted[s] > 0 => left[s] > 0)

(* The snapshots of each draft that was decoded. *)
Held(m, d, l, dr) ==
  \A s \in Seqs : l[s] = 0 =>
    \A k \in 1..dr[s] : <<s, TokensIn(m, s) - k>> \in d[<<k, m.tail[s]>>]

SnapInv == SplitInv /\ Held(mem, data, left, drafted)

(* At first there is no draft. *)
LEMMA SnapInvFirst == Init /\ SnapshotsStay(setting) => SnapInv
<1> SUFFICES ASSUME Init, SnapshotsStay(setting) PROVE SnapInv
  OBVIOUS
<1>1. /\ batch = <<>> /\ \A s \in Seqs : left[s] = 0 /\ drafted[s] = 0
  BY DEF Init
<1>2. \A s \in Seqs : ~(left[s] > 0) /\ ~(drafted[s] > 0) /\ 1..drafted[s] = {}
  BY <1>1
<1>3. QED BY <1>1, <1>2 DEF SnapInv, SplitInv, Equal, Held

(* A batch that is started has no more drafted of a sequence than is left of *)
(* it.                                                                       *)
LEMMA StartDecodeKeepsSnaps ==
  ASSUME Inv, SnapInv,
         NEW gens \in SUBSET setting.slots, NEW prompts \in SUBSET setting.slots,
         gens \cap prompts = {},
         NEW d \in [gens -> 0..setting.rs], NEW p \in [prompts -> 1..MaxPrompt],
         StartDecode(gens, d, prompts, p)
  PROVE  SnapInv'
<1> DEFINE tokens(s) == IF s \in gens THEN d[s] + 1 ELSE p[s]
<1>1. /\ setting' = setting
      /\ setting.even => \A s, t \in gens \cup prompts : tokens(s) = tokens(t)
      /\ left' = [s \in Seqs |-> IF s \in gens \cup prompts THEN tokens(s) ELSE 0]
      /\ drafted' = [s \in Seqs |-> IF s \in gens THEN d[s] ELSE 0]
  BY DEF StartDecode
<1>2. setting.rs \in Nat
  BY SettingIs DEF Inv, TypeOK
<1>3. ASSUME NEW s \in Seqs
      PROVE  /\ left'[s] > 0 \/ drafted'[s] > 0 => s \in gens \cup prompts
             /\ s \in gens \cup prompts => left'[s] = tokens(s)
             /\ s \in gens => drafted'[s] \in Nat /\ drafted'[s] < left'[s]
             /\ s \in prompts => drafted'[s] = 0 /\ left'[s] > 0
             /\ s \notin gens => drafted'[s] = 0
  <2>1. /\ left'[s] = IF s \in gens \cup prompts THEN tokens(s) ELSE 0
        /\ drafted'[s] = IF s \in gens THEN d[s] ELSE 0
    BY <1>1
  <2>2. s \in gens => d[s] \in Nat /\ tokens(s) = d[s] + 1
    BY <1>2
  <2>3. s \in prompts => s \notin gens /\ p[s] \in Nat /\ p[s] > 0 /\ tokens(s) = p[s]
    BY SizeAssumption
  <2> HIDE DEF tokens
  <2>4. QED BY <2>1, <2>2, <2>3
<1> HIDE DEF tokens
<1>4. ASSUME NEW s \in Seqs, drafted'[s] > 0 PROVE left'[s] > 0
  <2>1. s \in gens
    BY <1>3, <1>4
  <2>2. left'[s] = tokens(s) /\ tokens(s) \in Nat
    BY <1>2, <1>3, <2>1 DEF tokens
  <2>3. QED BY <1>3, <2>1, <2>2
<1>5. ASSUME NEW s \in Seqs, left'[s] > 0 PROVE drafted'[s] < left'[s]
  BY <1>3, <1>5
<1>6. setting.even => \A s, t \in Seqs : left'[s] > 0 /\ left'[t] > 0 => left'[s] = left'[t]
  BY <1>1, <1>3
<1>7. ASSUME NEW s \in Seqs, left'[s] = 0, NEW k \in 1..drafted'[s] PROVE FALSE
  <2>1. s \in gens
    BY <1>3, <1>7
  <2>2. drafted'[s] \in Nat /\ drafted'[s] < left'[s]
    BY <1>3, <2>1
  <2>3. QED BY <1>7, <2>2
<1>8. SplitInv'
  BY <1>1, <1>3, <1>4, <1>5, <1>6 DEF SnapInv, SplitInv, Equal
<1>9. Held(mem', data', left', drafted')
  BY <1>7 DEF Held
<1>10. QED BY <1>8, <1>9 DEF SnapInv

(* When the draft of s is settled, those of the others are still there. *)
LEMMA DraftSettledKeepsSnaps ==
  ASSUME Inv, SnapInv, batch = <<>>, NEW s \in Seqs,
         setting' = setting, batch' = batch, left' = left,
         drafted' = [drafted EXCEPT ![s] = 0],
         \A t \in Seqs \ {s} : /\ TokensIn(mem', t) = TokensIn(mem, t) /\ mem'.tail[t] = mem.tail[t]
                               /\ \A k \in 1..drafted[t] :
                                    <<t, TokensIn(mem, t) - k>> \in data[<<k, mem.tail[t]>>] =>
                                    <<t, TokensIn(mem, t) - k>> \in data'[<<k, mem.tail[t]>>]
  PROVE  SnapInv'
<1>1. \A t \in Seqs : drafted'[t] = IF t = s THEN 0 ELSE drafted[t]
  BY DEF Inv, TypeOK
<1>2. \A t \in Seqs : left[t] = 0
  BY InvSays
<1>3. SplitInv'
  BY <1>1, <1>2 DEF SnapInv, SplitInv, Equal
<1>4. Held(mem', data', left', drafted')
  <2> SUFFICES ASSUME NEW t \in Seqs, NEW k \in 1..drafted'[t]
               PROVE  <<t, TokensIn(mem', t) - k>> \in data'[<<k, mem'.tail[t]>>]
    BY DEF Held
  <2>1. t # s /\ k \in 1..drafted[t]
    BY <1>1
  <2>2. <<t, TokensIn(mem, t) - k>> \in data[<<k, mem.tail[t]>>]
    BY <1>2, <2>1 DEF SnapInv, Held
  <2>3. QED BY <2>1, <2>2
<1>5. QED BY <1>3, <1>4 DEF SnapInv

(* The calls between two batches have none to lose. *)
LEMMA SettledKeepsSnaps ==
  ASSUME Inv, SnapInv, Settled,
         setting' = setting, batch' = batch, left' = left, drafted' = drafted
  PROVE  SnapInv'
<1>1. \A s \in Seqs : drafted'[s] = 0 /\ 1..drafted'[s] = {}
  BY DEF Settled
<1>2. SplitInv'
  BY DEF SnapInv, SplitInv, Equal
<1>3. QED BY <1>1, <1>2 DEF SnapInv, Held

(* Three numbers that are not the same are too many for two slots. *)
LEMMA ThreeAreTooMany ==
  ASSUME NEW S \in SUBSET Seqs, Cardinality(S) <= 2, NEW a \in S, NEW b \in S, NEW c \in S
  PROVE  a = b \/ a = c \/ b = c
<1> SUFFICES ASSUME a # b, a # c, b # c PROVE FALSE
  OBVIOUS
<1>1. IsFiniteSet(S)
  BY CellsAreFinite, FS_Subset DEF Seqs
<1>2. IsFiniteSet({}) /\ Cardinality({}) = 0
  BY FS_EmptySet
<1>3. IsFiniteSet({a}) /\ Cardinality({a}) = 1
  BY FS_Singleton
<1>4. IsFiniteSet({a} \cup {b}) /\ Cardinality({a} \cup {b}) = 2
  <2>1. b \notin {a}
    OBVIOUS
  <2>2. Cardinality({a} \cup {b}) = Cardinality({a}) + 1 /\ IsFiniteSet({a} \cup {b})
    BY <1>3, <2>1, FS_AddElement, Zenon
  <2>3. QED BY <1>3, <2>2
<1>5. IsFiniteSet(({a} \cup {b}) \cup {c}) /\ Cardinality(({a} \cup {b}) \cup {c}) = 3
  <2>1. c \notin {a} \cup {b}
    OBVIOUS
  <2>2. /\ Cardinality(({a} \cup {b}) \cup {c}) = Cardinality({a} \cup {b}) + 1
        /\ IsFiniteSet(({a} \cup {b}) \cup {c})
    BY <1>4, <2>1, FS_AddElement, Zenon
  <2>3. QED BY <1>4, <2>2
<1>6. ({a} \cup {b}) \cup {c} \subseteq S
  OBVIOUS
<1>7. Cardinality(({a} \cup {b}) \cup {c}) <= Cardinality(S)
  BY <1>1, <1>6, FS_Subset
<1>8. Cardinality(S) \in Nat
  BY <1>1, FS_CardinalityType
<1>9. QED BY <1>5, <1>7, <1>8

(* A sequence that was decoded with its draft, earlier in the batch, keeps   *)
(* its cell: no other cell than those of u is in the range of the graph.     *)
LEMMA DecodedEarlierStays ==
  ASSUME Inv, SnapInv, NEW u, NEW f, NEW last, Decoded(u, f, last),
         NEW s \in Seqs, s \notin Elements(u.seqs), left[s] = 0, drafted[s] > 0
  PROVE  f.mem.tail[s] \in Cells \ f.range /\ f.mem.tail[s] = mem.tail[s]
<1>1. /\ Found(f, mem, u.seqs, last) /\ Sourced(f, mem, u.seqs) /\ IsUbatch(u) /\ batch # <<>>
      /\ u.seqs \in Seq(Seqs) /\ Distinct(u.seqs) /\ u.seqs # <<>> /\ u.tokens \in Nat \ {0}
      /\ \A i \in 1..Len(u.seqs) : u.tokens <= left[u.seqs[i]] /\ u.seqs[i] \in Seqs
  BY DEF Decoded, IsUbatch
<1>2. Tokens(s) > 0
  <2>1. drafted[s] < Tokens(s) + left[s] /\ Tokens(s) \in Nat /\ drafted[s] \in Nat
    BY InvSays, SizeAssumption, SettingIs DEF Inv, DraftInv, TypeOK, Planes
  <2>2. QED BY <2>1
<1>3. mem.tail[s] \in Cells /\ mem.tail[s] # None
  BY <1>2, InvSays, CellsAreFinite
<1>4. /\ f.mem \in Memory /\ Placed(f.mem, {}) /\ f.mem.head \in Cells
      /\ f.mem.tail[s] \in Cells \cup {None}
  BY <1>1 DEF Found, Memory
<1>5. f.mem.tail[s] \in Cells /\ s \in f.mem.cells[f.mem.tail[s]].seqs
  <2>1. f.mem.tail[s] # None
    BY <1>1, <1>3 DEF Found, Others
  <2>2. QED BY <1>4, <2>1 DEF Placed
<1>6. Len(u.seqs) = 1
  <2>1. CASE setting.rs = 0
    <3>1. Planes = {0}
      BY <2>1 DEF Planes
    <3>2. QED BY <3>1 DEF Inv, TypeOK
  <2>2. CASE setting.split = "serial"
    BY <1>1, <2>2 DEF IsUbatch
  <2>3. CASE Cardinality(setting.slots) <= 2
    <3> SUFFICES ASSUME Len(u.seqs) # 1 PROVE FALSE
      OBVIOUS
    <3>1. Len(u.seqs) \in Nat /\ 1 \in 1..Len(u.seqs) /\ 2 \in 1..Len(u.seqs)
      <4> DEFINE n == Len(u.seqs)
      <4>1. n \in Nat /\ n # 0 /\ n # 1
        BY <1>1, EmptySeq
      <4> HIDE DEF n
      <4>2. n \in Nat /\ 1 \in 1..n /\ 2 \in 1..n
        BY <4>1
      <4>3. QED BY <4>2 DEF n
    <3>2. /\ u.seqs[1] \in Elements(u.seqs) /\ u.seqs[2] \in Elements(u.seqs)
          /\ u.seqs[1] # u.seqs[2]
      BY <1>1, <3>1 DEF Elements, Distinct
    <3>3. ASSUME NEW i \in 1..Len(u.seqs) PROVE u.seqs[i] \in setting.slots
      <4>1. left[u.seqs[i]] \in Nat /\ u.tokens <= left[u.seqs[i]] /\ u.seqs[i] \in Seqs
        BY <1>1, SizeAssumption DEF Inv, TypeOK
      <4>2. left[u.seqs[i]] > 0
        BY <1>1, <4>1
      <4>3. QED BY <4>1, <4>2 DEF SnapInv, SplitInv
    <3>4. s \in setting.slots /\ setting.slots \subseteq Seqs
      BY SettingIs DEF Inv, TypeOK, SnapInv, SplitInv
    <3>5. QED BY <2>3, <3>1, <3>2, <3>3, <3>4, ThreeAreTooMany
  <2>4. CASE setting.split = "unified" /\ setting.even
    BY <1>1, <2>4 DEF SnapInv, SplitInv
  <2>5. QED BY <2>1, <2>2, <2>3, <2>4 DEF SnapInv, SplitInv, SnapshotsStay
<1>7. f.range = {f.mem.head}
  BY <1>1, <1>6 DEF Sourced
<1>8. f.mem.cells[f.mem.head].seqs = {u.seqs[1]} /\ u.seqs[1] \in Elements(u.seqs)
  <2>1. 1 \in 1..Len(u.seqs) /\ f.mem.head + 1 - 1 = f.mem.head
    <3>1. f.mem.head \in Nat
      BY <1>4, CellsAreNats, Zenon
    <3>2. QED BY <1>6, <3>1
  <2>2. f.mem.cells[f.mem.head + 1 - 1].seqs = {u.seqs[1]}
    BY <1>1, <2>1 DEF Found
  <2>3. QED BY <2>1, <2>2 DEF Elements
<1>9. f.mem.tail[s] # f.mem.head
  BY <1>5, <1>8
<1>10. QED BY <1>1, <1>5, <1>7, <1>9 DEF Sourced

(* The last tokens of a sequence, all those drafted among them, are decoded  *)
(* by one graph, which writes their snapshots; the earlier ones stay.        *)
LEMMA DecodeUbatchKeepsSnaps ==
  ASSUME Inv, StateInv, SnapInv, DecodeUbatch
  PROVE  SnapInv'
<1>1. PICK u, f, last : Decoded(u, f, last)
  BY DecodeUbatchIs
<1> DEFINE U == Elements(u.seqs)
<1>2. /\ IsUbatch(u) /\ U \in SUBSET Seqs
      /\ \A s \in U : u.tokens <= left[s]
      /\ Found(f, mem, u.seqs, last) /\ Sourced(f, mem, u.seqs)
      /\ mem' = f.mem /\ data' = Computed(f, u)
      /\ left' = [s \in Seqs |-> IF s \in U THEN left[s] - u.tokens ELSE left[s]]
      /\ batch # <<>> /\ batch' = IF \A s \in Seqs : left'[s] = 0 THEN <<>> ELSE batch
      /\ setting' = setting /\ drafted' = drafted
      /\ \A s \in Seqs : TokensIn(mem', s) = IF s \in U THEN Tokens(s) + u.tokens ELSE Tokens(s)
  BY <1>1 DEF Decoded
<1>3. u.seqs \in Seq(Seqs) /\ u.tokens \in Nat \ {0}
  BY <1>2 DEF IsUbatch
<1>4. /\ \A s \in Seqs : left[s] \in Nat /\ drafted[s] \in Nat /\ drafted[s] <= setting.rs
      /\ \A s \in Seqs : drafted[s] \in Planes
      /\ setting.rs \in Nat /\ TypeOK
      /\ \A s \in Seqs : Tokens(s) \in Nat /\ Tokens(s) = TokensIn(mem, s)
  <2>1. /\ TypeOK /\ setting.rs \in Nat /\ MaxTokens \in Nat
        /\ left \in [Seqs -> 0..MaxTokens] /\ drafted \in [Seqs -> Planes]
    BY SettingIs, SizeAssumption DEF Inv, TypeOK
  <2>2. \A s \in Seqs : Tokens(s) \in 0..MaxTokens /\ Tokens(s) = TokensIn(mem, s)
    BY InvSays
  <2>3. \A s \in Seqs : drafted[s] \in Planes /\ drafted[s] \in Nat /\ drafted[s] <= setting.rs
    BY <2>1 DEF Planes
  <2>4. QED BY <2>1, <2>2, <2>3
<1>5. \A s \in Seqs : left'[s] = IF s \in U THEN left[s] - u.tokens ELSE left[s]
  BY <1>2
<1>6. ASSUME NEW s \in U, left'[s] > 0 PROVE drafted[s] < left'[s]
  <2>1. s \in Seqs /\ left'[s] = left[s] - u.tokens
    BY <1>2, <1>5
  <2>2. KeepsTail(left[s] - u.tokens)
    BY <1>2 DEF IsUbatch, Elements
  <2>3. setting.rs = 0 \/ left'[s] > setting.rs
    BY <1>6, <2>1, <2>2 DEF KeepsTail
  <2>4. left'[s] \in Int
    BY <1>3, <1>4, <2>1
  <2>5. QED BY <1>4, <1>6, <2>1, <2>3, <2>4
<1>7. ASSUME setting.split = "unified", setting.even
      PROVE  batch' = <<>> /\ \A s \in Seqs : left'[s] = 0
  <2>1. Equal
    BY <1>7 DEF SnapInv, SplitInv
  <2>2. ASSUME NEW s \in Seqs PROVE left'[s] = 0
    <3>1. CASE left[s] > 0
      <4>1. s \in Elements(batch)
        BY <3>1 DEF Inv, BatchInv
      <4>2. PICK j \in 1..Len(batch) : batch[j] = s
        BY <4>1 DEF Elements
      <4>3. s \in U /\ u.tokens = left[s]
        BY <1>2, <1>7, <2>1, <3>1, <4>2 DEF IsUbatch
      <4>4. QED BY <1>4, <1>5, <4>3
    <3>2. CASE ~(left[s] > 0)
      <4>1. left[s] = 0
        BY <1>4, <3>2
      <4>2. s \notin U
        BY <1>2, <1>3, <4>1
      <4>3. QED BY <1>5, <4>1, <4>2
    <3>3. QED BY <3>1, <3>2
  <2>3. QED BY <1>2, <2>2
<1>8. ASSUME NEW s \in Seqs, left'[s] > 0 PROVE left[s] > 0 /\ drafted'[s] < left'[s]
  <2>1. CASE s \in U
    <3>1. left[s] > 0
      BY <1>2, <1>3, <1>4, <2>1
    <3>2. QED BY <1>2, <1>6, <1>8, <2>1, <3>1
  <2>2. CASE s \notin U
    BY <1>2, <1>5, <1>8, <2>2 DEF SnapInv, SplitInv
  <2>3. QED BY <2>1, <2>2
<1>9. SplitInv'
  <2>1. SnapshotsStay(setting)'
    BY <1>2 DEF SnapInv, SplitInv, SnapshotsStay
  <2>2. \A s \in Seqs : left'[s] > 0 \/ drafted'[s] > 0 => s \in setting'.slots
    BY <1>2, <1>8 DEF SnapInv, SplitInv
  <2>3. setting'.split = "unified" /\ setting'.even =>
          Equal' /\ (batch' # <<>> => \A s \in Seqs : drafted'[s] > 0 => left'[s] > 0)
    <3>1. (\A s \in Seqs : left'[s] = 0) => Equal'
      BY DEF Equal
    <3>2. QED BY <1>2, <1>7, <3>1
  <2>4. QED BY <1>8, <2>1, <2>2, <2>3 DEF SplitInv
<1> HIDE DEF U
<1>10. Bystanders(f, u)
  BY <1>2, ComputedRows
<1>11. ASSUME NEW s \in Seqs, left'[s] = 0, NEW k \in 1..drafted[s]
       PROVE  <<s, TokensIn(mem', s) - k>> \in Computed(f, u)[<<k, f.mem.tail[s]>>]
  <2>1. k \in Planes /\ k \in Nat /\ k # 0 /\ drafted[s] > 0
    BY <1>4 DEF Planes
  <2>2. CASE s \in U
    <3>1. f.mem.tail[s] \in f.range
      BY <1>2, <1>3, <2>2, InvSays, FoundIs DEF U
    <3>2. <<s, Tokens(s)>> \in Zeroed(f)[SCopy(f, f.mem.tail[s])]
      BY <1>2, <1>3, <3>1, ReadsState
    <3>3. k < u.tokens
      <4>1. left[s] = u.tokens
        BY <1>3, <1>4, <1>5, <1>11, <2>2
      <4>2. drafted[s] < left[s]
        BY <1>3, <4>1 DEF SnapInv, SplitInv
      <4>3. QED BY <1>4, <2>1, <4>1, <4>2
    <3>4. <<s, (Tokens(s) + u.tokens) - k>> \in Computed(f, u)[<<k, f.mem.tail[s]>>]
      BY <1>2, <2>1, <2>2, <3>2, <3>3, ComputedRows DEF U
    <3>5. QED BY <1>2, <2>2, <3>4
  <2>3. CASE s \notin U
    <3> DEFINE c == f.mem.tail[s]
    <3>1. left[s] = 0
      BY <1>5, <1>11, <2>3
    <3>2. c \in Cells \ f.range /\ c = mem.tail[s]
      BY <1>1, <2>1, <2>3, <3>1, DecodedEarlierStays DEF U
    <3>3. \A v \in U : f.mem.tail[v] # c
      <4>1. \A v \in U : f.mem.tail[v] \in f.range
        BY <1>2, <1>3, InvSays, FoundIs DEF U
      <4>2. QED BY <3>2, <4>1
    <3>4. f.zero \in Cells \cup {None} /\ c \in Cells /\ k \in Planes /\ k # 0 /\ TypeOK
      BY <1>2, <1>4, <2>1, <3>2 DEF Found
    <3> HIDE DEF c
    <3>5. Zeroed(f)[<<k, c>>] = data[<<k, c>>]
      BY <3>4, ReadRow
    <3>6. Computed(f, u)[<<k, c>>] = Zeroed(f)[<<k, c>>]
      BY <1>10, <3>3, <3>4 DEF Bystanders, U
    <3>7. <<s, TokensIn(mem, s) - k>> \in data[<<k, c>>]
      BY <3>1, <3>2 DEF SnapInv, Held
    <3>8. QED BY <1>2, <1>4, <2>3, <3>5, <3>6, <3>7 DEF c
  <2>4. QED BY <2>2, <2>3
<1>12. Held(mem', data', left', drafted')
  BY <1>2, <1>11 DEF Held
<1>13. QED BY <1>9, <1>12 DEF SnapInv

(* The snapshots of a decoded draft are rows of its cell. *)
LEMMA SnapshotRows ==
  ASSUME Inv, batch = <<>>, NEW t \in Seqs, NEW k \in 1..drafted[t]
  PROVE  <<k, mem.tail[t]>> \in DOMAIN data
<1>1. drafted[t] \in Nat /\ k \in Planes /\ drafted[t] > 0
  BY SettingIs DEF Inv, TypeOK, Planes
<1>2. left[t] = 0 /\ Tokens(t) \in Nat
  BY InvSays, SizeAssumption
<1>3. Tokens(t) > 0
  BY <1>1, <1>2 DEF Inv, DraftInv
<1>4. QED BY <1>1, <1>3, InvSays, RowsAre DEF Inv

(* When a draft is taken back, those of the others are still there, *)
LEMMA RejectKeepsSnaps ==
  ASSUME Inv, SnapInv, NEW s \in Seqs, NEW k \in 1..setting.rs, Reject(s, k)
  PROVE  SnapInv'
<1>1. /\ setting' = setting /\ batch' = batch /\ left' = left /\ batch = <<>>
      /\ drafted' = [drafted EXCEPT ![s] = 0]
      /\ data' = Shorten(data, s, Tokens(s) - k)
  BY DEF Reject
<1>2. /\ mem'.tail = mem.tail
      /\ \A t \in Seqs : TokensIn(mem', t) = IF t = s THEN Tokens(s) - k ELSE TokensIn(mem, t)
  BY RejectIs, InvSays DEF Rejected
<1>3. ASSUME NEW t \in Seqs \ {s}, NEW l \in 1..drafted[t],
             <<t, TokensIn(mem, t) - l>> \in data[<<l, mem.tail[t]>>]
      PROVE  <<t, TokensIn(mem, t) - l>> \in data'[<<l, mem.tail[t]>>]
  BY <1>1, <1>3, SnapshotRows, ShortenKeeps
<1>4. QED BY <1>1, <1>2, <1>3, DraftSettledKeepsSnaps

(* as when a sequence is made a copy of another. *)
LEMMA CopyStateKeepsSnaps ==
  ASSUME Inv, StateInv, SnapInv, NEW a \in Seqs, NEW b \in Seqs, CopyState(a, b)
  PROVE  SnapInv'
<1>1. /\ setting' = setting /\ batch' = batch /\ left' = left /\ batch = <<>>
      /\ drafted' = [drafted EXCEPT ![b] = 0]
      /\ data' = Become(data, b, a, Tokens(a))
  BY DEF CopyState
<1>2. \A t \in Seqs \ {b} : mem'.tail[t] = mem.tail[t] /\ TokensIn(mem', t) = TokensIn(mem, t)
  BY CopyStateKeepsStates, InvSays
<1>3. ASSUME NEW t \in Seqs \ {b}, NEW l \in 1..drafted[t],
             <<t, TokensIn(mem, t) - l>> \in data[<<l, mem.tail[t]>>]
      PROVE  <<t, TokensIn(mem, t) - l>> \in data'[<<l, mem.tail[t]>>]
  BY <1>1, <1>3, SnapshotRows, BecomeKeeps
<1>4. QED BY <1>1, <1>2, <1>3, DraftSettledKeepsSnaps

(* Every step keeps what can be taken back. *)
LEMMA SnapInvIsKept ==
  ASSUME Inv, StateInv, SnapInv, [Next]_vars
  PROVE  SnapInv'
<1>1. setting.slots \subseteq Seqs
  BY SettingIs DEF Inv, TypeOK
<1>2. CASE UNCHANGED vars
  <2>1. /\ setting' = setting /\ mem' = mem /\ data' = data
        /\ batch' = batch /\ left' = left /\ drafted' = drafted
    BY <1>2 DEF vars
  <2>2. SplitInv'
    BY <2>1 DEF SnapInv, SplitInv, Equal
  <2>3. Held(mem', data', left', drafted')
    BY <2>1 DEF SnapInv
  <2>4. QED BY <2>2, <2>3 DEF SnapInv
<1>3. ASSUME NEW gens \in SUBSET setting.slots, NEW prompts \in SUBSET setting.slots,
             gens \cap prompts = {},
             NEW d \in [gens -> 0..setting.rs], NEW p \in [prompts -> 1..MaxPrompt],
             StartDecode(gens, d, prompts, p)
      PROVE  SnapInv'
  BY <1>3, StartDecodeKeepsSnaps
<1>4. CASE DecodeUbatch
  BY <1>4, DecodeUbatchKeepsSnaps
<1>5. ASSUME NEW s \in setting.slots, Accept(s) PROVE SnapInv'
  <2>1. /\ setting' = setting /\ mem' = mem /\ data' = data /\ batch' = batch /\ left' = left
        /\ batch = <<>> /\ drafted' = [drafted EXCEPT ![s] = 0] /\ s \in Seqs
    BY <1>1, <1>5 DEF Accept
  <2>2. QED BY <2>1, DraftSettledKeepsSnaps
<1>6. ASSUME NEW s \in setting.slots, NEW k \in 1..setting.rs, Reject(s, k) PROVE SnapInv'
  BY <1>1, <1>6, RejectKeepsSnaps
<1>7. ASSUME NEW s \in setting.slots, Clear(s) \/ Write(s) \/ Read(s) PROVE SnapInv'
  <2>1. Settled /\ setting' = setting /\ batch' = batch /\ left' = left /\ drafted' = drafted
    BY <1>7 DEF Clear, Write, Read
  <2>2. QED BY <2>1, SettledKeepsSnaps
<1>8. ASSUME NEW s \in setting.slots, NEW b \in setting.slots, CopyState(s, b) PROVE SnapInv'
  BY <1>1, <1>8, CopyStateKeepsSnaps
<1>9. QED
  BY <1>2, <1>3, <1>4, <1>5, <1>6, <1>7, <1>8 DEF Next

(* After a batch nothing is left of it. *)
LEMMA SnapInvIsEnough == Inv /\ SnapInv => SnapshotsValid
<1> SUFFICES ASSUME Inv, SnapInv, batch = <<>>, NEW s \in Seqs, NEW k \in 1..drafted[s]
             PROVE  <<s, Tokens(s) - k>> \in data[<<k, mem.tail[s]>>]
  BY DEF SnapshotsValid
<1>1. left[s] = 0 /\ Tokens(s) = TokensIn(mem, s)
  BY InvSays
<1>2. QED BY <1>1 DEF SnapInv, Held

LEMMA SnapInvHolds == Spec /\ SnapshotsStay(setting) => [](StateInv /\ SnapInv)
<1>1. Inv /\ StateInv /\ SnapInv /\ Inv' /\ [Next]_vars => StateInv' /\ SnapInv'
  <2> SUFFICES ASSUME Inv, StateInv, SnapInv, Inv', [Next]_vars PROVE StateInv' /\ SnapInv'
    OBVIOUS
  <2>1. SnapshotsValid
    BY SnapInvIsEnough
  <2>2. QED BY <2>1, StepIsAllowed, SnapInvIsKept
<1>2. Init /\ SnapshotsStay(setting) => StateInv /\ SnapInv
  BY StateInvFirst, SnapInvFirst
<1>3. QED BY <1>1, <1>2, InvHolds, PTL DEF Spec

(* In a context with no snapshots, with one sequence per micro-batch, with   *)
(* two slots at most, or whose batches have equal parts and are not split,   *)
(* a draft can be taken back whenever it was decoded (the comment at         *)
(* llama-memory-recurrent.cpp:442).                                          *)
THEOREM SnapshotsCorrect == Spec /\ SnapshotsStay(setting) => []SnapshotsValid
BY SnapInvHolds, SnapInvIsEnough, InvHolds, PTL

(* There each sequence always has the state of exactly its tokens: the       *)
(* memory (llama-memory-recurrent.cpp) implements SequenceStates.            *)
THEOREM StatesCorrect == Spec /\ SnapshotsStay(setting) => ImplementsStates
BY SnapshotsCorrect, StatesLostThroughSnapshots, PTL
=============================================================================
