------------------------------ MODULE MCWorker ------------------------------
(* Small instances of Worker for TLC.                                       *)
EXTENDS Worker, TLC

\* Worker objects and launches are only ever compared for equality, so the
\* safety runs may take them as interchangeable.
Symmetry == Permutations(Workers) \cup Permutations(Launches)

\* What no later step and no property reads is left out of the fingerprint: the
\* run and state of a worker that has left the map, and what a dead process had
\* announced once neither of its goroutines will look at it again.
Forgotten(l) ==
  LET w == proc[l].owner IN
  /\ proc[l].phase = "dead"
  /\ sup[w].pc \notin {"watch", "triage", "ready"} \/ wk[w].process # l
  /\ settle[w].pc # "wait" \/ settle[w].process # l

View ==
  <<op, workers, sup, settle, activity, pidRecord,
    [w \in Workers |->
       IF wk[w].slot = None \/ InMap(w) THEN wk[w]
       ELSE [wk[w] EXCEPT !.run = None, !.state = "stopped"]],
    [l \in Launches |->
       IF Forgotten(l) THEN [proc[l] EXCEPT !.registered = FALSE, !.refused = FALSE]
       ELSE proc[l]]>>

=============================================================================
