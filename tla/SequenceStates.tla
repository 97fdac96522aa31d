---------------------------- MODULE SequenceStates ----------------------------
(***************************************************************************)
(* What a memory of recurrent states promises to those who decode: each    *)
(* sequence has the state of exactly the tokens it was given and that were *)
(* not taken back, whatever happens to the others; sequences that are      *)
(* decoded together grow together, a sequence can be rewound, emptied,     *)
(* made a copy of another, written out, and read back into any sequence.   *)
(***************************************************************************)
EXTENDS Integers

CONSTANT Seqs

VARIABLES
  known,     \* known[s]: the number of tokens that s has the state of
  written    \* the same of the state that was written out last

Init == known = [s \in Seqs |-> 0] /\ written = 0

(* Those that are decoded together get equally many tokens. *)
Extend == /\ known' \in [Seqs -> Nat]
          /\ \A s \in Seqs : known'[s] >= known[s]
          /\ \A s, t \in Seqs : known'[s] # known[s] /\ known'[t] # known[t]
                                => known'[s] - known[s] = known'[t] - known[t]
          /\ UNCHANGED written

Rewind(s) == \E k \in 0..known[s] : known' = [known EXCEPT ![s] = k] /\ UNCHANGED written

Copy(a, b) == known' = [known EXCEPT ![b] = known[a]] /\ UNCHANGED written

WriteOut(s) == written' = known[s] /\ UNCHANGED known

ReadBack(s) == known' = [known EXCEPT ![s] = written] /\ UNCHANGED written

Next == \/ Extend
        \/ \E s \in Seqs : Rewind(s) \/ WriteOut(s) \/ ReadBack(s)
        \/ \E a, b \in Seqs : Copy(a, b)

Spec == Init /\ [][Next]_<<known, written>>
=============================================================================
