----------------------------- MODULE MCJobQueue -----------------------------
(* Small instances of JobQueue.  Loops l1 and l2 share the process p1, and   *)
(* with it a worker_id; the reaper of p2 competes with p1's.                  *)
EXTENDS JobQueueRefines, TLC

CONSTANTS j1, j2, l1, l2, p1, p2

OneLoop == (l1 :> p1)
OneProcOf == (l1 :> p1) @@ (l2 :> p1)

ConfirmType == (j1 :> "friction_confirm") @@ (j2 :> "friction_confirm")
MixedType == (j1 :> "investigate") @@ (j2 :> "ci_watch")

OwnKeys == (j1 :> 1) @@ (j2 :> 2)

CapOne == [t \in CappedTypes |-> 1]

SharedLoops == Permutations({l1, l2})
=============================================================================
