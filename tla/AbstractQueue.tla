---------------------------- MODULE AbstractQueue ----------------------------
(***************************************************************************)
(* What the job queue promises its producers, without rows, leases,        *)
(* generations, reapers, processes or clocks.  A job waits, runs for one   *)
(* holder or for nobody, and settles or is parked.  Every execution is     *)
(* granted once and accounted for once; who lost an execution never has it *)
(* back; only the holder of the execution in progress settles or returns   *)
(* the job.                                                                *)
(***************************************************************************)
EXTENDS Naturals

CONSTANTS
  Jobs, Loops,
  Nobody,
  Cancellable,   \* the jobs that may be called off
  MaxAttempts,   \* charged executions before a job is parked
  MaxRequeues    \* times a parked job is tried again

VARIABLE task    \* each job

Phases == {"none", "waiting", "running", "parked", "settled"}
NewTask == [phase |-> "none", holder |-> Nobody, granted |-> 0, charged |-> 0,
            returned |-> 0, revived |-> 0]

Init == task = [j \in Jobs |-> NewTask]

-----------------------------------------------------------------------------
(* The steps of one job j, from t to u. *)
Submit(t, u) == t.phase = "none" /\ u = [t EXCEPT !.phase = "waiting"]

Grant(t, u) ==
  /\ t.phase = "waiting"
  /\ \E h \in Loops \cup {Nobody} :
       u = [t EXCEPT !.phase = "running", !.holder = h, !.granted = @ + 1]

(* The holder dies, is too slow, or its lease ends. *)
Lose(t, u) == t.phase = "running" /\ u = [t EXCEPT !.holder = Nobody]

(* The execution failed, or nobody holds it any more.  The last attempt     *)
(* parks the job; an error that no retry can cure parks it at once.         *)
Charge(t, u) ==
  /\ t.phase = "running"
  /\ \E next \in {"waiting", "parked"} :
       /\ next = "waiting" => t.charged + 1 < MaxAttempts
       /\ next = "parked" => t.charged + 1 >= MaxAttempts \/ t.holder # Nobody
       /\ u = [t EXCEPT !.phase = next, !.holder = Nobody, !.charged = @ + 1]

(* The holder gives the job back for later, at no charge. *)
Return(t, u) ==
  /\ t.phase = "running" /\ t.holder # Nobody
  /\ u = [t EXCEPT !.phase = "waiting", !.holder = Nobody, !.returned = @ + 1]

Settle(t, u) ==
  /\ t.phase = "running" /\ t.holder # Nobody
  /\ u = [t EXCEPT !.phase = "settled", !.holder = Nobody]

(* The work is not wanted any more. *)
Cancel(t, u) ==
  /\ t.phase \in {"waiting", "running"}
  /\ u = [t EXCEPT !.phase = "settled", !.holder = Nobody]

Revive(t, u) ==
  /\ t.phase = "parked" /\ t.revived < MaxRequeues
  /\ u = [t EXCEPT !.phase = "waiting", !.revived = @ + 1]

JobStep(j, t, u) ==
  \/ Submit(t, u) \/ Grant(t, u) \/ Lose(t, u) \/ Charge(t, u)
  \/ Return(t, u) \/ Settle(t, u) \/ Revive(t, u)
  \/ j \in Cancellable /\ Cancel(t, u)

(* Several jobs may step at once, but two grants are never made together. *)
Next ==
  /\ DOMAIN task' = Jobs
  /\ \A j \in Jobs : task'[j] # task[j] => JobStep(j, task[j], task'[j])
  /\ \A j, k \in Jobs : Grant(task[j], task'[j]) /\ Grant(task[k], task'[k]) => j = k

Spec == Init /\ [][Next]_task
=============================================================================
