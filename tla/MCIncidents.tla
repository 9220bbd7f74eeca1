---------------------------- MODULE MCIncidents ----------------------------
(* One issue whose jobs are retried by two workers while a second one waits   *)
(* for its investigation, or two issues that compete for one draft slot with  *)
(* one execution at a time whose failures are not followed further: the       *)
(* states to explore are the union of these, not all of the two issues.       *)
EXTENDS MCIncident

OneMoves ==
  /\ group[g2].status = "new"
  /\ \A i \in DOMAIN job : job[i].group = g2 => job[i] = NewJob(g2, "investigate", "auto")

OneAtATime ==
  /\ Cardinality({w \in Workers : work[w].pc # "idle"}) <= 1
  /\ \A i \in DOMAIN job : job[i].attempts = 0 /\ job[i].returns = 0

\* Only people read whether an episode is open, and none act here: it stays open.
Explored ==
  /\ \A g \in Groups : group[g].open
  /\ OneMoves \/ OneAtATime
=============================================================================
