--------------------------- MODULE JobQueueRefines ---------------------------
(***************************************************************************)
(* The job queue implements AbstractQueue: a row is read as a task, held by *)
(* the loop that passes its fence, if any does.                             *)
(***************************************************************************)
EXTENDS JobQueue

PhaseOf(status) ==
  CASE status = "absent" -> "none"
    [] status = "pending" -> "waiting"
    [] status = "claimed" -> "running"
    [] status = "dead_letter" -> "parked"
    [] status \in {"completed", "failed"} -> "settled"

HolderOf(j) == IF \E l \in Loops : Owns(l, j) THEN CHOOSE l \in Loops : Owns(l, j) ELSE NoWorker

TaskOf(j) ==
  [phase |-> PhaseOf(job[j].status), holder |-> HolderOf(j), granted |-> job[j].gen,
   charged |-> job[j].attempts, returned |-> job[j].reschedules, revived |-> job[j].requeues]

Abstract == INSTANCE AbstractQueue
  WITH Nobody <- NoWorker, task <- [j \in Jobs |-> TaskOf(j)],
       Cancellable <- {j \in Jobs : JobType[j] \in WithdrawableTypes \cup {"ci_watch"}}

(* Every behaviour of the rows, loops, reapers and processes is one of the  *)
(* abstract queue: crashes, lost answers, lapsed leases, stale loops and    *)
(* slow reapers never grant an execution twice, give a lost one back to its *)
(* loop, leave one uncharged, or settle a job without a holder, except the  *)
(* jobs that tickets and webhooks call off.                                 *)
ImplementsQueue == Abstract!Spec
=============================================================================
