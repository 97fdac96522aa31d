---------------------------- MODULE MCServerModels ----------------------------
EXTENDS ServerModels
CONSTANTS a, b, r1, r2, r3, s1, s2, stop, load, unload, remove, reload, reload2, main, conv

MCOp == [t \in Calls |-> CASE t \in {r1, r2, r3, s1, s2} -> "post"
                           [] t = stop   -> "cancel"
                           [] t = load   -> "load"
                           [] t = unload -> "unload"
                           [] t = remove -> "remove"
                           [] t \in {reload, reload2} -> "reload"
                           [] t = main   -> "unload_all"]
MCTarget == [t \in Calls |-> IF t \in {r2, load} THEN b ELSE a]
MCConv == [t \in Calls |-> IF t \in {s1, s2, stop} THEN conv ELSE None]
MCParties ==
  {[calls |-> p[1], faults |-> p[2]] : p \in
    {<<{r1, r2, r3}, {}>>, <<{r1, r2}, Faults>>, <<{s1, stop, r2}, {"crash"}>>,
     <<{s1, s2, stop}, {"crash"}>>, <<{r1, load, main}, Faults>>,
     <<{r1, r2, unload}, {"sleep", "crash"}>>, <<{r1, r2, remove}, {"spawn", "leave"}>>,
     <<{r1, reload, r2}, {"spawn"}>>, <<{r1, reload, reload2}, {"crash"}>>}}
MCSources == {[gone |-> {b}, changed |-> {a}], [gone |-> {a}, changed |-> {}]}

\* Two reloads that overlap: one finds everything as it is.
MCOverlap == {[calls |-> {r1, r2, reload, reload2}, faults |-> {"overlap"}]}
MCSourcesOverlap == {[gone |-> {b}, changed |-> {a}], [gone |-> {}, changed |-> {}]}
=============================================================================
