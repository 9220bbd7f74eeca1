----------------------------- MODULE MCIncident -----------------------------
(* Small instances of Incident: one issue and its whole life, or two issues *)
(* that compete for one draft slot.                                         *)
EXTENDS Incident, TLC

CONSTANTS g1, g2, w1, w2

AnyWorker == Permutations({w1, w2})
=============================================================================
