------------------------- MODULE MCResumableStream -------------------------
(* TLC instances of ResumableStream. *)
EXTENDS ResumableStream

CONSTANTS r1, r2, g1, d1

(* The final result fills the ring of two bytes. *)
MCResultSize == [kind \in {"partial", "final", "error"} |-> IF kind = "final" THEN 2 ELSE 1]

MCMaxPartials == [r \in {r1, r2} |-> IF r = r1 THEN 1 ELSE 0]

(* A stream that is read and stopped; one that is replaced and stopped. *)
MCParties == {{r1, g1, d1}, {r1, g1, Main}, {r1, r2, d1}}
=============================================================================
