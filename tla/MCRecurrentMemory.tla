--------------------------- MODULE MCRecurrentMemory ---------------------------
EXTENDS RecurrentMemory

(* One and two slots that draft, with states written and read, copied to     *)
(* children and cleared: no micro-batch can move a cell that is not in it.   *)
MCDrafts ==
  {[rs |-> 2, split |-> "serial", slots |-> {0}, max |-> 6, even |-> FALSE, calls |-> {"clear", "state"}],
   [rs |-> 1, split |-> "sequential", slots |-> {0, 1}, max |-> 3, even |-> FALSE, calls |-> {"clear", "state"}],
   [rs |-> 1, split |-> "sequential", slots |-> {0, 1}, max |-> 4, even |-> FALSE, calls |-> {"clear", "copy"}],
   [rs |-> 2, split |-> "sequential", slots |-> {0, 1}, max |-> 5, even |-> FALSE, calls |-> {"copy"}]}

(* Three slots: none drafts; the micro-batches have one sequence; no batch   *)
(* is split, so that cells move only after the drafts were settled.          *)
MCMoves ==
  {[rs |-> 0, split |-> "sequential", slots |-> Seqs, max |-> 2, even |-> FALSE, calls |-> {"clear", "copy"}],
   [rs |-> 1, split |-> "serial", slots |-> Seqs, max |-> 3, even |-> FALSE, calls |-> {"clear"}],
   [rs |-> 1, split |-> "unified", slots |-> Seqs, max |-> 3, even |-> TRUE, calls |-> {"clear"}]}

MCSettings == MCDrafts \cup MCMoves

(* Three slots that draft, and batches that are split. *)
MCSplit == {[rs |-> 1, split |-> "sequential", slots |-> Seqs, max |-> 3, even |-> FALSE, calls |-> {}]}
=============================================================================
