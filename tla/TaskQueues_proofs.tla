------------------------- MODULE TaskQueues_proofs --------------------------
(***************************************************************************)
(* What the operations on the deques return, for every deque.              *)
(***************************************************************************)
EXTENDS TaskQueues, WellFoundedInduction, SequenceTheorems, TLAPS

(* A set of naturals that is not empty has a least element, and Min is it.  *)
(* It is how SelectInSeq finds the first task to erase.                     *)
LEMMA MinOfNats ==
  ASSUME NEW I \in SUBSET Nat, I # {}
  PROVE  Min(I) \in I /\ \A j \in I : Min(I) <= j
<1> DEFINE R == {p \in Nat \X Nat : p[1] < p[2]}
<1>1. IsWellFoundedOn(R, Nat)
  BY NatLessThanWellFounded, Zenon DEF OpToRel
<1>2. PICK m \in I : \A y \in I : <<y, m>> \notin R
  BY <1>1, WFMin, Zenon
<1>3. \A y \in I : m <= y
  <2> SUFFICES ASSUME NEW y \in I PROVE ~(y < m)
    OBVIOUS
  <2>1. <<y, m>> \notin R /\ y \in Nat /\ m \in Nat
    BY <1>2
  <2>2. QED BY <2>1
<1>4. QED BY <1>3 DEF Min

(* Erasing one position of a deque leaves a deque of the same tasks' type. *)
LEMMA RemoveAtType ==
  ASSUME NEW S, NEW s \in Seq(S), NEW i \in 1..Len(s)
  PROVE  RemoveAt(s, i) \in Seq(S)
<1>1. SubSeq(s, 1, i - 1) \in Seq(S)
  BY SubSeqProperties, ElementOfSeq
<1>2. SubSeq(s, i + 1, Len(s)) \in Seq(S)
  BY SubSeqProperties, ElementOfSeq
<1>3. QED BY <1>1, <1>2, ConcatProperties DEF RemoveAt

(* cleanup_pending_task leaves a deque of tasks, and an empty one empty. *)
LEMMA WithoutTargetType ==
  ASSUME NEW S, NEW d \in Seq(S), NEW id
  PROVE  /\ WithoutTarget(d, id) \in Seq(S)
         /\ d = <<>> => WithoutTarget(d, id) = <<>>
<1> DEFINE I == {i \in 1..Len(d) : d[i].type # "cancel" /\ d[i].id = id}
<1>1. CASE I = {}
  BY <1>1 DEF WithoutTarget, RemoveFirstMatch
<1>2. CASE I # {}
  <2>1. I \subseteq Nat /\ d # <<>>
    BY <1>2
  <2>2. Min(I) \in 1..Len(d)
    BY <1>2, <2>1, MinOfNats
  <2>3. WithoutTarget(d, id) = RemoveAt(d, Min(I))
    BY <1>2 DEF WithoutTarget, RemoveFirstMatch, SelectInSeq
  <2>4. QED BY <2>1, <2>2, <2>3, RemoveAtType
<1>3. QED BY <1>1, <1>2

(* pop_deferred_task takes from a position of the deque: the least position *)
(* that asked for the slot, or the front.                                   *)
LEMMA DeferredPickInDomain ==
  ASSUME NEW S, NEW d \in Seq(S), d # <<>>, NEW slot
  PROVE  DeferredPick(d, slot) \in 1..Len(d)
<1> DEFINE asks == {i \in DOMAIN d : d[i].id_slot = slot}
<1>1. CASE asks = {}
  BY <1>1 DEF DeferredPick
<1>2. CASE asks # {}
  <2>1. asks \subseteq Nat /\ asks \subseteq 1..Len(d)
    OBVIOUS
  <2>2. \E i \in asks : \A j \in asks : i <= j
    BY <1>2, <2>1, MinOfNats
  <2>3. (CHOOSE i \in asks : \A j \in asks : i <= j) \in asks
    BY <2>2, Zenon
  <2>4. DeferredPick(d, slot) = CHOOSE i \in asks : \A j \in asks : i <= j
    BY <1>2, Zenon DEF DeferredPick
  <2>5. QED BY <2>1, <2>3, <2>4
<1>3. QED BY <1>1, <1>2

-----------------------------------------------------------------------------
(* The order of a deque.  Everything below speaks of a deque through its range *)
(* and this relation, which a concatenation takes apart.                       *)
Before(s, a, b) == \E i, j \in 1..Len(s) : i < j /\ s[i] = a /\ s[j] = b

LEMMA RangeIs ==
  ASSUME NEW S, NEW s \in Seq(S)
  PROVE  Range(s) = {s[i] : i \in 1..Len(s)}
BY RangeEquality

LEMMA BeforeInRange ==
  ASSUME NEW S, NEW s \in Seq(S), NEW a, NEW b, Before(s, a, b)
  PROVE  a \in Range(s) /\ b \in Range(s)
BY RangeIs DEF Before

(* A sequence is injective when nothing in it comes before itself. *)
LEMMA InjectiveIs ==
  ASSUME NEW S, NEW s \in Seq(S)
  PROVE  IsInjective(s) <=> \A a : ~Before(s, a, a)
<1>1. Len(s) \in Nat /\ DOMAIN s = 1..Len(s) BY LenProperties
<1>2. ASSUME IsInjective(s), NEW a, Before(s, a, a) PROVE FALSE
  <2>1. PICK i, j \in 1..Len(s) : i < j /\ s[i] = a /\ s[j] = a BY <1>2 DEF Before
  <2>2. i = j BY <1>1, <1>2, <2>1, Zenon DEF IsInjective
  <2> QED BY <1>1, <2>1, <2>2
<1>3. ASSUME \A a : ~Before(s, a, a), NEW i \in 1..Len(s), NEW j \in 1..Len(s), s[i] = s[j]
      PROVE  i = j
  <2>1. ~(i < j) /\ ~(j < i) BY <1>3 DEF Before
  <2> QED BY <1>1, <2>1
<1> QED BY <1>1, <1>2, <1>3, Zenon DEF IsInjective

LEMMA ConcatOrder ==
  ASSUME NEW S, NEW s \in Seq(S), NEW t \in Seq(S)
  PROVE  /\ s \o t \in Seq(S)
         /\ Range(s \o t) = Range(s) \cup Range(t)
         /\ \A a, b : Before(s \o t, a, b) <=> \/ Before(s, a, b) \/ Before(t, a, b)
                                               \/ a \in Range(s) /\ b \in Range(t)
<1> DEFINE u == s \o t
           m == Len(s)
           n == Len(t)
<1>1. m \in Nat /\ n \in Nat BY LenProperties
<1>2. /\ u \in Seq(S) /\ Len(u) = m + n
      /\ \A i \in 1..m + n : u[i] = IF i <= m THEN s[i] ELSE t[i - m]
  BY ConcatProperties
<1>3. Range(u) = Range(s) \cup Range(t) BY RangeConcatenation
<1>4. Range(s) = {s[i] : i \in 1..m} /\ Range(t) = {t[i] : i \in 1..n} BY RangeIs
<1> HIDE DEF u
<1>5. \A i \in 1..m : i \in 1..m + n /\ u[i] = s[i] BY <1>1, <1>2
<1>6. \A i \in 1..n : m + i \in 1..m + n /\ u[m + i] = t[i]
  <2> SUFFICES ASSUME NEW i \in 1..n PROVE m + i \in 1..m + n /\ u[m + i] = t[i]
    OBVIOUS
  <2>1. m + i \in 1..m + n /\ ~(m + i <= m) /\ (m + i) - m = i BY <1>1
  <2> QED BY <1>2, <2>1
<1> HIDE DEF m, n
<1>7. ASSUME NEW a, NEW b, Before(s, a, b) PROVE Before(u, a, b)
  <2>1. PICK i, j \in 1..m : i < j /\ s[i] = a /\ s[j] = b BY <1>7 DEF Before, m
  <2> QED BY <1>2, <1>5, <2>1, Zenon DEF Before
<1>8. ASSUME NEW a, NEW b, Before(t, a, b) PROVE Before(u, a, b)
  <2>1. PICK i, j \in 1..n : i < j /\ t[i] = a /\ t[j] = b BY <1>8 DEF Before, n
  <2>2. m + i < m + j BY <1>1, <2>1
  <2> QED BY <1>2, <1>6, <2>1, <2>2, Zenon DEF Before
<1>9. ASSUME NEW a, NEW b, a \in Range(s), b \in Range(t) PROVE Before(u, a, b)
  <2>1. PICK i \in 1..m : s[i] = a BY <1>4, <1>9
  <2>2. PICK j \in 1..n : t[j] = b BY <1>4, <1>9
  <2>3. i < m + j BY <1>1
  <2> QED BY <1>2, <1>5, <1>6, <2>1, <2>2, <2>3, Zenon DEF Before
<1>10. ASSUME NEW a, NEW b, Before(u, a, b)
       PROVE  Before(s, a, b) \/ Before(t, a, b) \/ (a \in Range(s) /\ b \in Range(t))
  <2>1. PICK i, j \in 1..m + n : i < j /\ u[i] = a /\ u[j] = b BY <1>2, <1>10 DEF Before
  <2>2. CASE j <= m
    <3>1. i \in 1..m /\ j \in 1..m BY <1>1, <2>1, <2>2
    <3>2. s[i] = a /\ s[j] = b BY <1>5, <2>1, <3>1
    <3> QED BY <2>1, <3>1, <3>2 DEF Before, m
  <2>3. CASE i > m
    <3>1. i - m \in 1..n /\ j - m \in 1..n /\ i - m < j - m /\ m + (i - m) = i
          /\ m + (j - m) = j
      BY <1>1, <2>1, <2>3
    <3>2. t[i - m] = a /\ t[j - m] = b BY <1>6, <2>1, <3>1
    <3> QED BY <3>1, <3>2 DEF Before, n
  <2>4. CASE i <= m /\ j > m
    <3>1. i \in 1..m /\ j - m \in 1..n /\ m + (j - m) = j BY <1>1, <2>1, <2>4
    <3>2. s[i] = a /\ t[j - m] = b BY <1>5, <1>6, <2>1, <3>1
    <3> QED BY <1>4, <3>1, <3>2
  <2> QED BY <1>1, <2>1, <2>2, <2>3, <2>4
<1>11. \A a, b : Before(u, a, b) <=> \/ Before(s, a, b) \/ Before(t, a, b)
                                     \/ a \in Range(s) /\ b \in Range(t)
  BY <1>7, <1>8, <1>9, <1>10
<1> QED BY <1>2, <1>3, <1>11 DEF u

LEMMA SingleOrder ==
  ASSUME NEW S, NEW e \in S
  PROVE  /\ <<e>> \in Seq(S) /\ Range(<<e>>) = {e} /\ \A a, b : ~Before(<<e>>, a, b)
         /\ <<>> \in Seq(S) /\ Range(<<>>) = {} /\ \A a, b : ~Before(<<>>, a, b)
<1>1. <<e>> \in Seq(S) /\ Len(<<e>>) = 1 /\ <<e>>[1] = e /\ <<>> \in Seq(S) /\ Len(<<>>) = 0
  OBVIOUS
<1>2. \A i, j \in 1..1 : ~(i < j) OBVIOUS
<1>3. \A i \in 1..0 : FALSE OBVIOUS
<1>4. \A a, b : ~Before(<<e>>, a, b) /\ ~Before(<<>>, a, b)
  BY <1>1, <1>2, <1>3, Zenon DEF Before
<1>5. Range(<<e>>) = {<<e>>[i] : i \in 1..1} /\ Range(<<>>) = {<<>>[i] : i \in 1..0}
  BY <1>1, RangeIs
<1>6. 1..1 = {1} OBVIOUS
<1>7. Range(<<e>>) = {e} /\ Range(<<>>) = {} BY <1>1, <1>3, <1>5, <1>6
<1> QED BY <1>1, <1>4, <1>7

(* A deque around one of its positions, and without it. *)
LEMMA AroundPosition ==
  ASSUME NEW S, NEW s \in Seq(S), NEW i \in 1..Len(s)
  PROVE  LET l == SubSeq(s, 1, i - 1)
             r == SubSeq(s, i + 1, Len(s))
         IN  /\ l \in Seq(S) /\ r \in Seq(S)
             /\ s = (l \o <<s[i]>>) \o r
             /\ RemoveAt(s, i) = l \o r
<1> DEFINE l == SubSeq(s, 1, i - 1)
           r == SubSeq(s, i + 1, Len(s))
           n == Len(s)
           e == s[i]
           u == (l \o <<e>>) \o r
<1>1. n \in Nat /\ i \in Nat /\ 1 <= i /\ i <= n BY LenProperties
<1>2. \A j \in 1..n : s[j] \in S BY ElementOfSeq
<1>3. e \in S BY <1>2
<1>4. l \in Seq(S) /\ Len(l) = i - 1 /\ \A j \in 1..i - 1 : l[j] = s[j]
  <2>1. \A j \in 1..i - 1 : s[j] \in S BY <1>1, <1>2
  <2>2. /\ l \in Seq(S) /\ Len(l) = IF 1 <= i - 1 THEN i - 1 - 1 + 1 ELSE 0
        /\ \A j \in 1..i - 1 - 1 + 1 : l[j] = s[1 + j - 1]
    BY <1>1, <2>1, SubSeqProperties
  <2> HIDE DEF l
  <2> QED BY <1>1, <2>2
<1>5. r \in Seq(S) /\ Len(r) = n - i /\ \A j \in 1..n - i : r[j] = s[i + j]
  <2>1. \A j \in i + 1..n : s[j] \in S BY <1>1, <1>2
  <2>2. /\ r \in Seq(S)
        /\ Len(r) = IF i + 1 <= n THEN n - (i + 1) + 1 ELSE 0
        /\ \A j \in 1..n - (i + 1) + 1 : r[j] = s[i + 1 + j - 1]
    BY <1>1, <2>1, SubSeqProperties
  <2> HIDE DEF r, n
  <2> QED BY <1>1, <2>2
<1>6. RemoveAt(s, i) = l \o r BY DEF RemoveAt
<1> HIDE DEF l, r, e
<1>7. <<e>> \in Seq(S) /\ Len(<<e>>) = 1 /\ <<e>>[1] = e BY <1>3
<1>8. /\ l \o <<e>> \in Seq(S) /\ Len(l \o <<e>>) = i - 1 + 1
      /\ \A j \in 1..i - 1 + 1 :
           (l \o <<e>>)[j] = IF j <= i - 1 THEN l[j] ELSE <<e>>[j - (i - 1)]
  BY <1>4, <1>7, ConcatProperties
<1>9. /\ Len(l \o <<e>>) = i
      /\ \A j \in 1..i : (l \o <<e>>)[j] = s[j]
  <2>1. Len(l \o <<e>>) = i /\ 1..i - 1 + 1 = 1..i BY <1>1, <1>8
  <2>2. ASSUME NEW j \in 1..i PROVE (l \o <<e>>)[j] = s[j]
    <3>1. CASE j <= i - 1
      <4>1. j \in 1..i - 1 BY <1>1, <3>1
      <4> QED BY <1>4, <1>8, <2>1, <3>1, <4>1
    <3>2. CASE ~(j <= i - 1)
      <4>1. j = i /\ j - (i - 1) = 1 BY <1>1, <3>2
      <4> QED BY <1>7, <1>8, <2>1, <3>2, <4>1 DEF e
    <3> QED BY <3>1, <3>2
  <2> QED BY <2>1, <2>2
<1>10. /\ u \in Seq(S) /\ Len(u) = i + (n - i)
       /\ \A j \in 1..i + (n - i) : u[j] = IF j <= i THEN (l \o <<e>>)[j] ELSE r[j - i]
  <2> DEFINE le == l \o <<e>>
  <2>1. le \in Seq(S) /\ Len(le) = i BY <1>8, <1>9
  <2>2. u = le \o r OBVIOUS
  <2> HIDE DEF le, u
  <2>3. /\ u \in Seq(S) /\ Len(u) = Len(le) + Len(r)
        /\ \A j \in 1..Len(le) + Len(r) :
             u[j] = IF j <= Len(le) THEN le[j] ELSE r[j - Len(le)]
    BY <1>5, <2>1, <2>2, ConcatProperties
  <2> QED BY <1>5, <2>1, <2>3, Zenon DEF le
<1> HIDE DEF u
<1>11. Len(u) = n /\ 1..i + (n - i) = 1..n BY <1>1, <1>10
<1>12. ASSUME NEW j \in 1..n PROVE u[j] = s[j]
  <2>1. CASE j <= i
    <3>1. j \in 1..i BY <1>1, <2>1
    <3> QED BY <1>9, <1>10, <1>11, <2>1, <3>1
  <2>2. CASE ~(j <= i)
    <3>1. j - i \in 1..n - i /\ i + (j - i) = j BY <1>1, <2>2
    <3> QED BY <1>5, <1>10, <1>11, <2>2, <3>1
  <2> QED BY <2>1, <2>2
<1>13. u = s BY <1>10, <1>11, <1>12, SeqEqual
<1>14. l \in Seq(S) /\ r \in Seq(S) /\ s = u /\ RemoveAt(s, i) = l \o r
  BY <1>4, <1>5, <1>6, <1>13
<1> QED BY <1>14, Zenon DEF u, e, l, r

(* Erasing a position keeps the order of what stays, and in a deque without    *)
(* repetitions takes away just the task at that position.                      *)
LEMMA RemoveAtOrder ==
  ASSUME NEW S, NEW s \in Seq(S), NEW i \in 1..Len(s)
  PROVE  /\ RemoveAt(s, i) \in Seq(S)
         /\ s[i] \in Range(s)
         /\ \A a, b : Before(RemoveAt(s, i), a, b) => Before(s, a, b)
         /\ Range(RemoveAt(s, i)) \subseteq Range(s)
         /\ Range(s) = Range(RemoveAt(s, i)) \cup {s[i]}
         /\ ~Before(s, s[i], s[i]) => s[i] \notin Range(RemoveAt(s, i))
<1> DEFINE l == SubSeq(s, 1, i - 1)
           r == SubSeq(s, i + 1, Len(s))
<1>1. l \in Seq(S) /\ r \in Seq(S) /\ s = (l \o <<s[i]>>) \o r /\ RemoveAt(s, i) = l \o r
  BY AroundPosition, Zenon
<1> HIDE DEF l, r
<1> DEFINE e == s[i]
<1>2. e \in S BY ElementOfSeq
<1> HIDE DEF e
<1>3. <<e>> \in Seq(S) /\ Range(<<e>>) = {e} /\ \A a, b : ~Before(<<e>>, a, b)
  BY <1>2, SingleOrder
<1> DEFINE le == l \o <<e>>
<1>4. /\ le \in Seq(S)
      /\ Range(le) = Range(l) \cup {e}
      /\ \A a, b : Before(le, a, b) <=> Before(l, a, b) \/ (a \in Range(l) /\ b = e)
  <2>1. /\ le \in Seq(S) /\ Range(le) = Range(l) \cup Range(<<e>>)
        /\ \A a, b : Before(le, a, b) <=> \/ Before(l, a, b) \/ Before(<<e>>, a, b)
                                          \/ a \in Range(l) /\ b \in Range(<<e>>)
    BY <1>1, <1>3, ConcatOrder, Zenon
  <2> QED BY <1>3, <2>1
<1>5. s = le \o r BY <1>1 DEF e
<1> HIDE DEF le
<1>6. /\ Range(s) = Range(le) \cup Range(r)
      /\ \A a, b : Before(s, a, b) <=> \/ Before(le, a, b) \/ Before(r, a, b)
                                       \/ a \in Range(le) /\ b \in Range(r)
  BY <1>4, <1>5, ConcatOrder
<1> DEFINE w == RemoveAt(s, i)
<1>7. /\ w \in Seq(S)
      /\ Range(w) = Range(l) \cup Range(r)
      /\ \A a, b : Before(w, a, b) <=> \/ Before(l, a, b) \/ Before(r, a, b)
                                       \/ a \in Range(l) /\ b \in Range(r)
  BY <1>1, ConcatOrder
<1> HIDE DEF w
<1>8. \A a, b : Before(w, a, b) => Before(s, a, b) BY <1>4, <1>6, <1>7
<1>9. Range(s) = Range(w) \cup {e} /\ e \in Range(s) BY <1>4, <1>6, <1>7
<1>10. ASSUME ~Before(s, e, e) PROVE e \notin Range(w)
  BY <1>4, <1>6, <1>7, <1>10
<1> QED BY <1>7, <1>8, <1>9, <1>10 DEF w, e

(* cleanup_pending_task keeps the order of what stays; where at most one task  *)
(* is a target, what stays is everything else.                                 *)
LEMMA WithoutTargetOrder ==
  ASSUME NEW S, NEW d \in Seq(S), NEW id,
         NEW e \in S, ~Before(d, e, e), e.type # "cancel", e.id = id,
         \A t \in Range(d) : (t.type # "cancel" /\ t.id = id) => t = e
  PROVE  /\ WithoutTarget(d, id) \in Seq(S)
         /\ \A a, b : Before(WithoutTarget(d, id), a, b) => Before(d, a, b)
         /\ Range(WithoutTarget(d, id)) = Range(d) \ {e}
<1> DEFINE I == {i \in 1..Len(d) : d[i].type # "cancel" /\ d[i].id = id}
<1>0. Range(d) = {d[i] : i \in 1..Len(d)} BY RangeIs
<1>1. CASE I = {}
  <2>1. WithoutTarget(d, id) = d BY <1>1 DEF WithoutTarget, RemoveFirstMatch
  <2>2. \A i \in 1..Len(d) : d[i] # e BY <1>1
  <2>3. e \notin Range(d) BY <1>0, <2>2
  <2> QED BY <2>1, <2>3
<1>2. CASE I # {}
  <2>1. I \subseteq Nat BY <1>2
  <2>2. Min(I) \in I BY <1>2, <2>1, MinOfNats, Zenon
  <2>3. WithoutTarget(d, id) = RemoveAt(d, Min(I))
    BY <1>2 DEF WithoutTarget, RemoveFirstMatch, SelectInSeq
  <2> DEFINE k == Min(I)
  <2>4. k \in 1..Len(d) /\ d[k].type # "cancel" /\ d[k].id = id BY <2>2
  <2> HIDE DEF k
  <2>5. d[k] = e BY <1>0, <2>4
  <2>6. /\ RemoveAt(d, k) \in Seq(S)
        /\ \A a, b : Before(RemoveAt(d, k), a, b) => Before(d, a, b)
        /\ Range(d) = Range(RemoveAt(d, k)) \cup {d[k]}
        /\ ~Before(d, d[k], d[k]) => d[k] \notin Range(RemoveAt(d, k))
    BY <2>4, RemoveAtOrder
  <2>7. WithoutTarget(d, id) = RemoveAt(d, k) BY <2>3 DEF k
  <2>8. Range(RemoveAt(d, k)) = Range(d) \ {e} BY <2>5, <2>6
  <2> QED BY <2>6, <2>7, <2>8
<1> QED BY <1>1, <1>2

(* What a deque's first task and a task added at either end do to its order. *)
LEMMA FrontOrder ==
  ASSUME NEW S, NEW s \in Seq(S), NEW e \in S
  PROVE  /\ <<e>> \o s \in Seq(S)
         /\ Range(<<e>> \o s) = {e} \cup Range(s)
         /\ \A a, b : Before(<<e>> \o s, a, b) <=> Before(s, a, b) \/ (a = e /\ b \in Range(s))
<1>1. <<e>> \in Seq(S) /\ Range(<<e>>) = {e} /\ \A a, b : ~Before(<<e>>, a, b)
  BY SingleOrder
<1>2. /\ <<e>> \o s \in Seq(S) /\ Range(<<e>> \o s) = Range(<<e>>) \cup Range(s)
      /\ \A a, b : Before(<<e>> \o s, a, b) <=> \/ Before(<<e>>, a, b) \/ Before(s, a, b)
                                                \/ a \in Range(<<e>>) /\ b \in Range(s)
  BY <1>1, ConcatOrder, Zenon
<1> DEFINE u == <<e>> \o s
           v == <<e>>
<1> HIDE DEF u, v
<1>3. /\ u \in Seq(S) /\ Range(u) = {e} \cup Range(s)
      /\ \A a, b : Before(u, a, b) <=> Before(s, a, b) \/ (a = e /\ b \in Range(s))
  BY <1>1, <1>2 DEF u, v
<1> QED BY <1>3, Zenon DEF u

LEMMA BackOrder ==
  ASSUME NEW S, NEW s \in Seq(S), NEW e \in S
  PROVE  /\ Append(s, e) \in Seq(S)
         /\ Range(Append(s, e)) = Range(s) \cup {e}
         /\ \A a, b : Before(Append(s, e), a, b) <=> Before(s, a, b) \/ (a \in Range(s) /\ b = e)
<1>1. <<e>> \in Seq(S) /\ Range(<<e>>) = {e} /\ \A a, b : ~Before(<<e>>, a, b)
  BY SingleOrder
<1>2. /\ s \o <<e>> \in Seq(S) /\ Range(s \o <<e>>) = Range(s) \cup Range(<<e>>)
      /\ \A a, b : Before(s \o <<e>>, a, b) <=> \/ Before(s, a, b) \/ Before(<<e>>, a, b)
                                                \/ a \in Range(s) /\ b \in Range(<<e>>)
  BY <1>1, ConcatOrder, Zenon
<1>3. Append(s, e) = s \o <<e>> BY AppendIsConcat
<1> DEFINE u == s \o <<e>>
           v == <<e>>
<1> HIDE DEF u, v
<1>4. /\ u \in Seq(S) /\ Range(u) = Range(s) \cup {e}
      /\ \A a, b : Before(u, a, b) <=> Before(s, a, b) \/ (a \in Range(s) /\ b = e)
  BY <1>1, <1>2 DEF u, v
<1> DEFINE w == Append(s, e)
<1>5. w = u BY <1>3 DEF u
<1> HIDE DEF w
<1>6. /\ w \in Seq(S) /\ Range(w) = Range(s) \cup {e}
      /\ \A a, b : Before(w, a, b) <=> Before(s, a, b) \/ (a \in Range(s) /\ b = e)
  BY <1>4, <1>5
<1> QED BY <1>6, Zenon DEF w

LEMMA HeadOrder ==
  ASSUME NEW S, NEW s \in Seq(S), s # <<>>
  PROVE  /\ Head(s) \in S /\ Tail(s) \in Seq(S)
         /\ Range(s) = {Head(s)} \cup Range(Tail(s))
         /\ \A a, b : Before(s, a, b) <=> \/ Before(Tail(s), a, b)
                                          \/ a = Head(s) /\ b \in Range(Tail(s))
<1> DEFINE h == Head(s)
           t == Tail(s)
<1>1. h \in S /\ t \in Seq(S) /\ Len(t) = Len(s) - 1 /\ \A i \in 1..Len(t) : t[i] = s[i + 1]
  BY HeadTailProperties
<1>2. Len(s) \in Nat /\ 1 <= Len(s) /\ h = s[1] OBVIOUS
<1> HIDE DEF h, t
<1>3. <<h>> \in Seq(S) /\ Len(<<h>>) = 1 /\ <<h>>[1] = h BY <1>1
<1> DEFINE u == <<h>> \o t
<1>4. /\ u \in Seq(S) /\ Len(u) = Len(<<h>>) + Len(t)
      /\ \A i \in 1..Len(<<h>>) + Len(t) :
           u[i] = IF i <= Len(<<h>>) THEN <<h>>[i] ELSE t[i - Len(<<h>>)]
  BY <1>1, <1>3, ConcatProperties
<1> HIDE DEF u
<1>5. Len(u) = Len(s) /\ 1..Len(<<h>>) + Len(t) = 1..Len(s) BY <1>1, <1>2, <1>3, <1>4
<1>6. ASSUME NEW i \in 1..Len(s) PROVE u[i] = s[i]
  <2>1. CASE i = 1
    BY <1>2, <1>3, <1>4, <1>5, <2>1
  <2>2. CASE i # 1
    <3>1. i - 1 \in 1..Len(t) /\ i - 1 + 1 = i /\ ~(i <= 1) BY <1>1, <1>2, <2>2
    <3> QED BY <1>1, <1>3, <1>4, <1>5, <3>1
  <2> QED BY <2>1, <2>2
<1>7. s = u BY <1>4, <1>5, <1>6, SeqEqual
<1>8. /\ Range(u) = {h} \cup Range(t)
      /\ \A a, b : Before(u, a, b) <=> Before(t, a, b) \/ (a = h /\ b \in Range(t))
  BY <1>1, FrontOrder, Zenon DEF u
<1> QED BY <1>1, <1>7, <1>8, Zenon DEF h, t
=============================================================================
