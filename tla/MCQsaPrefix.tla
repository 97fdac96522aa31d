---------------------------- MODULE MCQsaPrefix -----------------------------
(* TLC instances of QsaPrefix. *)
EXTENDS QsaPrefix, TLC

CONSTANTS s1, s2

(* The tokens of a batch are alike, enough to tell an old block from a new one. *)
UniformRuns(lengths) == {[i \in 1..n |-> t] : n \in lengths, t \in Tokens}

(* Two sequences of up to three positions.  Everything from a position on is     *)
(* removed, or the second position.                                              *)
Short == [s \in {s1, s2} |-> 2]
UpToTwo == UniformRuns({1, 2})
TailsAndMiddle == {<<p0, -1>> : p0 \in 0..2} \cup {<<1, 2>>}

Symmetry == Permutations(Seqs) \cup Permutations(Tokens)
=============================================================================
