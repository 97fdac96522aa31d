--------------------------- MODULE MCServerQueue ----------------------------
(* TLC instances of ServerQueue. *)
EXTENDS ServerQueue

Symmetry == Permutations(Inferrers) \cup Permutations(Scrapers)
=============================================================================
