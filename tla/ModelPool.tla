------------------------------ MODULE ModelPool ------------------------------
(***************************************************************************)
(* What the router promises about the processes it starts: of a model      *)
(* there is one process at a time, and of all models together there are    *)
(* never more than the limit (--models-max; 0 means no limit).             *)
(***************************************************************************)
EXTENDS Naturals, FiniteSets

CONSTANTS Models, ModelsMax

VARIABLE live    \* the models that have a process

Init == live = {}

Start(m) ==
  /\ m \notin live
  /\ ModelsMax > 0 => Cardinality(live) < ModelsMax
  /\ live' = live \cup {m}

End(m) ==
  /\ m \in live
  /\ live' = live \ {m}

Next == \E m \in Models : Start(m) \/ End(m)

Spec == Init /\ [][Next]_live
=============================================================================
