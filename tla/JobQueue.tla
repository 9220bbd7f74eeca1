------------------------------ MODULE JobQueue ------------------------------
(***************************************************************************)
(* The worker's durable job queue: the rows of error_group_jobs, the poll  *)
(* loops that claim and run them under a lease, the reaper, the dead-letter *)
(* requeue and the unfenced writers that withdraw work.                    *)
(*                                                                         *)
(* One action is one SQL statement or one transaction.  Wall-clock time is *)
(* abstracted: a lease has a few ticks left, a retry is backing off or is  *)
(* due, a dead letter is young, past the boot age, or past its backoff.    *)
(***************************************************************************)
EXTENDS Naturals, FiniteSets

CONSTANTS
  Jobs,            \* the rows that may ever be inserted
  Procs,           \* worker processes; a process is one worker_id
  Loops,           \* poll loops
  ProcOf,          \* the process that runs a loop
  JobType,         \* the job_type of a row
  Key,             \* its (project, type, group, episode, run) identity
  Indexed,         \* the rows whose identity a partial unique index covers
  Cap,             \* live-lease ceiling of each capped job type
  MaxAttempts,     \* max_attempts
  MaxRequeues,     \* MAX_DEAD_LETTER_REQUEUES
  LeaseTicks,      \* ticks a fresh lease lasts
  MaxReschedules   \* bound of the model: hand-backs per row

CappedTypes == {"session_analysis", "session_narrate", "session_verify_frames",
                "friction_match", "friction_confirm"}

JobTypes == CappedTypes \cup
  {"ci_watch", "route_map", "product_context", "issue_inquiry", "digest_write",
   "score_sync", "stack_resolve", "fix", "investigate", "error_fix",
   "friction_reconcile", "friction_pr_event"}

RequeueableJobTypes == {"investigate", "route_map", "product_context"}

ReschedulingTypes == {"ci_watch", "friction_confirm", "friction_reconcile"}

WithdrawableTypes == {"investigate", "fix", "friction_confirm", "friction_reconcile"}

Classes == {"transient", "limit", "agent", "config"}

NoWorker == "no worker"
NoJob == "no job"
NoClass == "no class"

ASSUME QueueAssumption ==
  /\ IsFiniteSet(Jobs)
  /\ NoJob \notin Jobs
  /\ NoWorker \notin Procs \cup Loops
  /\ ProcOf \in [Loops -> Procs]
  /\ JobType \in [Jobs -> JobTypes]
  /\ DOMAIN Key = Jobs
  /\ Indexed \subseteq Jobs
  /\ Cap \in [CappedTypes -> Nat]
  /\ MaxAttempts \in Nat \ {0}
  /\ MaxRequeues \in Nat
  /\ LeaseTicks \in Nat \ {0}
  /\ MaxReschedules \in Nat

VARIABLES
  job,    \* the rows of error_group_jobs
  loop,   \* what each poll loop is doing, and the claim it holds
  proc,   \* each process: up, stopping after SIGTERM, or down
  reap    \* the candidate set of each process's reaper transaction

vars == <<job, loop, proc, reap>>

Active == {"pending", "claimed"}
Terminal == {"completed", "failed", "dead_letter"}

(***************************************************************************)
(* A row.  lease is the ticks left before lease_expires_at (0: expired or  *)
(* NULL); due says available_at has passed; age is how old a dead letter   *)
(* is: 0 young, 1 past BOOT_REQUEUE_MIN_AGE_MINUTES, 2 past its backoff.   *)
(* reschedules counts hand-backs; the table has no such column.            *)
(***************************************************************************)
Row == [status: {"absent"} \cup Active \cup Terminal,
        worker: Procs \cup {NoWorker},
        gen: Nat,
        lease: 0..LeaseTicks,
        attempts: Nat,
        requeues: 0..MaxRequeues,
        class: Classes \cup {NoClass},
        due: BOOLEAN,
        age: 0..2,
        reschedules: 0..MaxReschedules]

AbsentRow == [status |-> "absent", worker |-> NoWorker, gen |-> 0, lease |-> 0,
              attempts |-> 0, requeues |-> 0, class |-> NoClass, due |-> FALSE,
              age |-> 0, reschedules |-> 0]

LoopState == [pc: {"idle", "got", "working", "unsure"},
              job: Jobs \cup {NoJob},
              gen: Nat,
              aborted: BOOLEAN]

IdleLoop == [pc |-> "idle", job |-> NoJob, gen |-> 0, aborted |-> FALSE]

Init ==
  /\ job = [j \in Jobs |-> AbsentRow]
  /\ loop = [l \in Loops |-> IdleLoop]
  /\ proc = [p \in Procs |-> "up"]
  /\ reap = [p \in Procs |-> {}]

-----------------------------------------------------------------------------
(* Mutant of the fence: the worker_id alone.                                *)
OwnsByWorker(l, j) ==
  /\ loop[l].job = j
  /\ job[j].status = "claimed"
  /\ job[j].worker = ProcOf[l]
  /\ job[j].lease > 0

(* The fence every write of a claim carries: worker, generation, status and lease. *)
Owns(l, j) ==
  /\ loop[l].job = j
  /\ job[j].status = "claimed"
  /\ job[j].worker = ProcOf[l]
  /\ job[j].gen = loop[l].gen
  /\ job[j].lease > 0

(***************************************************************************)
(* What the statements do to a row.                                        *)
(***************************************************************************)
Inserted(row, due) == [row EXCEPT !.status = "pending", !.due = due]

Claimed(row, p) ==
  [row EXCEPT !.status = "claimed", !.worker = p, !.lease = LeaseTicks, !.gen = @ + 1]

Renewed(row) == [row EXCEPT !.lease = LeaseTicks]

Completed(row) == [row EXCEPT !.status = "completed"]

Withdrawn(row) == [row EXCEPT !.status = "failed", !.lease = 0]

Ticked(row) == [row EXCEPT !.lease = @ - 1]

MadeDue(row) == [row EXCEPT !.due = TRUE]

Aged(row) == [row EXCEPT !.age = @ + 1]

(* One failed execution: back to pending with a backoff, or a dead letter. *)
Failed(row, exhaust, class) ==
  IF exhaust \/ row.attempts + 1 >= MaxAttempts
    THEN [row EXCEPT !.attempts = @ + 1, !.status = "dead_letter",
                     !.class = class, !.age = 0]
    ELSE [row EXCEPT !.attempts = @ + 1, !.status = "pending",
                     !.worker = NoWorker, !.lease = 0, !.due = FALSE]

(* A hand-back: pending again, no attempt consumed. *)
Rescheduled(row, due) ==
  [row EXCEPT !.status = "pending", !.worker = NoWorker, !.lease = 0,
              !.due = due, !.reschedules = @ + 1]

(* Mutant: a re-run gets a fresh retry budget.                              *)
RequeuedAfresh(row) ==
  [row EXCEPT !.status = "pending", !.worker = NoWorker, !.lease = 0, !.due = TRUE,
              !.requeues = @ + 1, !.class = NoClass, !.age = 0, !.attempts = 0]

(* A dead-letter re-run: pending again, attempts not reset. *)
Requeued(row) ==
  [row EXCEPT !.status = "pending", !.worker = NoWorker, !.lease = 0, !.due = TRUE,
              !.requeues = @ + 1, !.class = NoClass, !.age = 0]

LiveLeases(t) == {j \in Jobs : /\ JobType[j] = t
                               /\ job[j].status = "claimed"
                               /\ job[j].lease > 0}

UnderCap(t) == t \in CappedTypes => Cardinality(LiveLeases(t)) < Cap[t]

FrictionSwitchOn(t) ==
  t \in {"friction_confirm", "friction_reconcile"} =>
    Cap["friction_match"] > 0 /\ Cap["friction_confirm"] > 0

Claimable(j) ==
  /\ job[j].status = "pending"
  /\ job[j].due
  /\ UnderCap(JobType[j])
  /\ FrictionSwitchOn(JobType[j])

ActiveTwin(j) == \E k \in Jobs \ {j} : Key[k] = Key[j] /\ job[k].status \in Active

-----------------------------------------------------------------------------
(* A producer inserts a job; a partial unique index swallows a duplicate. *)
Enqueue(j) ==
  /\ job[j].status = "absent"
  /\ j \in Indexed => ~ \E k \in Indexed : Key[k] = Key[j] /\ job[k].status \in Active
  /\ \E due \in BOOLEAN :
       job' = [job EXCEPT ![j] = Inserted(@, due)]
  /\ UNCHANGED <<loop, proc, reap>>

(* claimJob.  The rank order is module ClaimOrder's; here a better-ranked row *)
(* may be locked by another transaction and skipped, so any claimable row wins. *)
(* The commit's answer may be lost: the row is then claimed and nobody runs it. *)
Claim(l, j) ==
  /\ proc[ProcOf[l]] = "up"
  /\ loop[l].pc = "idle"
  /\ Claimable(j)
  /\ job' = [job EXCEPT ![j] = Claimed(@, ProcOf[l])]
  /\ \/ loop' = [loop EXCEPT ![l] = [pc |-> "got", job |-> j,
                                     gen |-> job[j].gen + 1, aborted |-> FALSE]]
     \/ UNCHANGED loop
  /\ UNCHANGED <<proc, reap>>

Start(l) ==
  /\ loop[l].pc = "got"
  /\ proc[ProcOf[l]] = "up"
  /\ loop' = [loop EXCEPT ![l].pc = "working"]
  /\ UNCHANGED <<job, proc, reap>>

(* stop() fired while the claim was in flight: give the job back, if it can be. *)
Handback(l) ==
  /\ loop[l].pc = "got"
  /\ proc[ProcOf[l]] = "stopping"
  /\ LET j == loop[l].job IN
       \/ /\ Owns(l, j)
          /\ job[j].reschedules < MaxReschedules
          /\ job' = [job EXCEPT ![j] = Rescheduled(@, TRUE)]
       \/ UNCHANGED job
  /\ loop' = [loop EXCEPT ![l] = IdleLoop]
  /\ UNCHANGED <<proc, reap>>

(* Mutant: the heartbeat does not look at the lease, and revives a lapsed one. *)
HeartbeatRevives(l) ==
  LET j == loop[l].job IN
  /\ loop[l].pc = "working"
  /\ ~ loop[l].aborted
  /\ IF job[j].status = "claimed" /\ job[j].worker = ProcOf[l] /\ job[j].gen = loop[l].gen
       THEN /\ job' = [job EXCEPT ![j] = Renewed(@)]
            /\ UNCHANGED loop
       ELSE /\ loop' = [loop EXCEPT ![l].aborted = TRUE]
            /\ UNCHANGED job
  /\ UNCHANGED <<proc, reap>>

(* The heartbeat timer of a running job: renew, or find the lease gone and abort. *)
Heartbeat(l) ==
  LET j == loop[l].job IN
  /\ loop[l].pc = "working"
  /\ ~ loop[l].aborted
  /\ IF Owns(l, j)
       THEN /\ job' = [job EXCEPT ![j] = Renewed(@)]
            /\ UNCHANGED loop
       ELSE /\ loop' = [loop EXCEPT ![l].aborted = TRUE]
            /\ UNCHANGED job
  /\ UNCHANGED <<proc, reap>>

(* The heartbeat query itself throws: the job is aborted though its lease may live. *)
HeartbeatThrows(l) ==
  /\ loop[l].pc = "working"
  /\ ~ loop[l].aborted
  /\ loop' = [loop EXCEPT ![l].aborted = TRUE]
  /\ UNCHANGED <<job, proc, reap>>

(* The handler returned: an aborted loop writes nothing, another completes the job. *)
HandlerReturns(l) ==
  LET j == loop[l].job IN
  /\ loop[l].pc = "working"
  /\ \/ /\ loop[l].aborted \/ ~ Owns(l, j)
        /\ UNCHANGED job
     \/ /\ ~ loop[l].aborted
        /\ Owns(l, j)
        /\ job' = [job EXCEPT ![j] = Completed(@)]
  /\ loop' = [loop EXCEPT ![l] = IdleLoop]
  /\ UNCHANGED <<proc, reap>>

(* completeJob threw: the update may have committed or not; the loop will fail the job. *)
CompleteThrows(l) ==
  LET j == loop[l].job IN
  /\ loop[l].pc = "working"
  /\ ~ loop[l].aborted
  /\ \/ UNCHANGED job
     \/ Owns(l, j) /\ job' = [job EXCEPT ![j] = Completed(@)]
  /\ loop' = [loop EXCEPT ![l].pc = "unsure"]
  /\ UNCHANGED <<proc, reap>>

(* A finalizer transaction completes the job itself, under the same fence. *)
FinalizerCompletes(l) ==
  LET j == loop[l].job IN
  /\ loop[l].pc = "working"
  /\ Owns(l, j)
  /\ job' = [job EXCEPT ![j] = Completed(@)]
  /\ loop' = [loop EXCEPT ![l] = IdleLoop]
  /\ UNCHANGED <<proc, reap>>

(* A handler that polls hands its job back for later. *)
HandlerReschedules(l) ==
  LET j == loop[l].job IN
  /\ loop[l].pc = "working"
  /\ JobType[j] \in ReschedulingTypes
  /\ Owns(l, j)
  /\ job[j].reschedules < MaxReschedules
  /\ job' = [job EXCEPT ![j] = Rescheduled(@, FALSE)]
  /\ loop' = [loop EXCEPT ![l] = IdleLoop]
  /\ UNCHANGED <<proc, reap>>

(* failJob: rejected when the lease is gone, and its own query may throw. *)
FailJob(l, exhaust, class) ==
  LET j == loop[l].job IN
  /\ \/ Owns(l, j) /\ job' = [job EXCEPT ![j] = Failed(@, exhaust, class)]
     \/ UNCHANGED job
  /\ loop' = [loop EXCEPT ![l] = IdleLoop]
  /\ UNCHANGED <<proc, reap>>

(* The handler threw, aborted or not: a NonRetryableJobError exhausts the job. *)
HandlerThrows(l) ==
  /\ loop[l].pc = "working"
  /\ \/ FailJob(l, FALSE, "transient")
     \/ \E c \in Classes : FailJob(l, TRUE, c)

(* After completeJob threw, the catch block fails the job like any other error. *)
FailAfterComplete(l) ==
  /\ loop[l].pc = "unsure"
  /\ FailJob(l, FALSE, "transient")

-----------------------------------------------------------------------------
(* requeueStaleJobs fixes its candidates, waits for publication locks ...  *)
LeaseExpired(j) == job[j].status = "claimed" /\ job[j].lease = 0

ReapSelect(p) ==
  LET Expired == {j \in Jobs : LeaseExpired(j)} IN
  /\ proc[p] = "up"
  /\ reap[p] = {}
  /\ Expired # {}
  /\ reap' = [reap EXCEPT ![p] = Expired]
  /\ UNCHANGED <<job, loop, proc>>

(* Mutants: the update trusts the candidate set; it spares running processes. *)
ReapableUnchecked(j) == job[j].status = "claimed"

ReapableIfDown(j) == LeaseExpired(j) /\ proc[job[j].worker] # "up"

(* ... and rechecks eligibility in the update. *)
Reapable(j) == LeaseExpired(j)

ReapCommit(p) ==
  /\ reap[p] # {}
  /\ job' = [j \in Jobs |-> IF j \in reap[p] /\ Reapable(j)
                              THEN Failed(job[j], FALSE, "transient")
                              ELSE job[j]]
  /\ reap' = [reap EXCEPT ![p] = {}]
  /\ UNCHANGED <<loop, proc>>

(* The dead letters a requeue statement selects. *)
RequeueClasses(trigger) ==
  IF trigger = "boot" THEN {"limit", "agent", "config"} ELSE {"transient", "agent"}

RequeueAge(trigger) == IF trigger = "boot" THEN 1 ELSE 2

DueDeadLetters(trigger) ==
  {j \in Jobs : /\ job[j].status = "dead_letter"
                /\ JobType[j] \in RequeueableJobTypes
                /\ job[j].class \in RequeueClasses(trigger)
                /\ job[j].requeues < MaxRequeues
                /\ job[j].age >= RequeueAge(trigger)
                /\ ~ ActiveTwin(j)}

(* Two rows of one identity in the same statement: the unique index rejects it all. *)
Collides(S) == \E j, k \in S \cap Indexed : j # k /\ Key[j] = Key[k]

RequeueDeadLetters(trigger) ==
  LET Due == DueDeadLetters(trigger) IN
  job' = IF Collides(Due) THEN job
         ELSE [j \in Jobs |-> IF j \in Due THEN Requeued(job[j]) ELSE job[j]]

RequeueInterval ==
  /\ \E p \in Procs : proc[p] = "up"
  /\ DueDeadLetters("interval") # {}
  /\ RequeueDeadLetters("interval")
  /\ UNCHANGED <<loop, proc, reap>>

-----------------------------------------------------------------------------
(* Retiring a publication or archiving its ticket fails queued and running  *)
(* work, without its lease.                                                *)
Withdraw(j) ==
  /\ job[j].status \in Active
  /\ JobType[j] \in WithdrawableTypes
  /\ job' = [job EXCEPT ![j] = Withdrawn(@)]
  /\ UNCHANGED <<loop, proc, reap>>

(* A pull-request webhook cancels the CI watch of a draft. *)
CancelWatch(j) ==
  /\ job[j].status \in Active
  /\ JobType[j] = "ci_watch"
  /\ job' = [job EXCEPT ![j] = Completed(@)]
  /\ UNCHANGED <<loop, proc, reap>>

-----------------------------------------------------------------------------
Stop(p) ==
  /\ proc[p] = "up"
  /\ proc' = [proc EXCEPT ![p] = "stopping"]
  /\ UNCHANGED <<job, loop, reap>>

(* A crash, or process.exit after the shutdown grace: everything in memory is gone. *)
Exit(p) ==
  /\ proc[p] # "down"
  /\ proc' = [proc EXCEPT ![p] = "down"]
  /\ loop' = [l \in Loops |-> IF ProcOf[l] = p THEN IdleLoop ELSE loop[l]]
  /\ reap' = [reap EXCEPT ![p] = {}]
  /\ UNCHANGED job

(* main(): the boot requeue is best-effort, then the poller starts. *)
Boot(p) ==
  /\ proc[p] = "down"
  /\ proc' = [proc EXCEPT ![p] = "up"]
  /\ RequeueDeadLetters("boot")
  /\ UNCHANGED <<loop, reap>>

-----------------------------------------------------------------------------
(* The database clock; the age of a row no requeue may take is left alone. *)
LeaseTick(j) ==
  /\ job[j].status = "claimed"
  /\ job[j].lease > 0
  /\ job' = [job EXCEPT ![j] = Ticked(@)]
  /\ UNCHANGED <<loop, proc, reap>>

BecomesDue(j) ==
  /\ job[j].status = "pending"
  /\ ~ job[j].due
  /\ job' = [job EXCEPT ![j] = MadeDue(@)]
  /\ UNCHANGED <<loop, proc, reap>>

DeadLetterAges(j) ==
  /\ job[j].status = "dead_letter"
  /\ JobType[j] \in RequeueableJobTypes
  /\ job[j].age < 2
  /\ job' = [job EXCEPT ![j] = Aged(@)]
  /\ UNCHANGED <<loop, proc, reap>>

-----------------------------------------------------------------------------
RowStep(j) ==
  \/ Enqueue(j)
  \/ Withdraw(j)
  \/ CancelWatch(j)
  \/ LeaseTick(j)
  \/ BecomesDue(j)
  \/ DeadLetterAges(j)

LoopStep(l) ==
  \/ \E j \in Jobs : Claim(l, j)
  \/ Start(l)
  \/ Handback(l)
  \/ Heartbeat(l)
  \/ HeartbeatThrows(l)
  \/ HandlerReturns(l)
  \/ CompleteThrows(l)
  \/ FinalizerCompletes(l)
  \/ HandlerReschedules(l)
  \/ HandlerThrows(l)
  \/ FailAfterComplete(l)

ProcStep(p) ==
  \/ ReapSelect(p)
  \/ ReapCommit(p)
  \/ Stop(p)
  \/ Exit(p)
  \/ Boot(p)

Next ==
  \/ \E j \in Jobs : RowStep(j)
  \/ \E l \in Loops : LoopStep(l)
  \/ \E p \in Procs : ProcStep(p)
  \/ RequeueInterval

Spec == Init /\ [][Next]_vars

(***************************************************************************)
(* What the scheduler gives: timers fire, time passes, loops poll, queries *)
(* return and handlers end (every agent stage has a budget).  Nothing      *)
(* forces an error, a crash, a stop, a withdrawal or a heartbeat.          *)
(***************************************************************************)
HandlerEnds(l) ==
  \/ HandlerReturns(l)
  \/ CompleteThrows(l)
  \/ FinalizerCompletes(l)
  \/ HandlerReschedules(l)
  \/ HandlerThrows(l)

Fairness ==
  /\ \A j \in Jobs : /\ WF_vars(LeaseTick(j))
                     /\ WF_vars(BecomesDue(j))
                     /\ WF_vars(\E l \in Loops : Claim(l, j))
  /\ \A l \in Loops : /\ WF_vars(Start(l))
                      /\ WF_vars(Handback(l))
                      /\ WF_vars(HandlerEnds(l))
                      /\ WF_vars(FailAfterComplete(l))
  /\ \A p \in Procs : /\ WF_vars(ReapSelect(p))
                      /\ WF_vars(ReapCommit(p))

FairSpec == Spec /\ Fairness

-----------------------------------------------------------------------------
(* Rows, loops, processes and reaper transactions stay in their domains.   *)
TypeOK ==
  /\ job \in [Jobs -> Row]
  /\ loop \in [Loops -> LoopState]
  /\ \A l \in Loops : loop[l].pc # "idle" => loop[l].job \in Jobs
  /\ proc \in [Procs -> {"up", "stopping", "down"}]
  /\ reap \in [Procs -> SUBSET Jobs]

(* At most one loop passes the fence of a row, although the loops of one   *)
(* process share a worker_id and a stale loop keeps running (the fence of  *)
(* heartbeat, completeJob, failJob and rescheduleJob).                     *)
OneOwner ==
  \A l, m \in Loops : \A j \in Jobs : Owns(l, j) /\ Owns(m, j) => l = m

(* A capped lane never holds more live leases than its cap, whatever       *)
(* expires, is renewed or is reclaimed between two claims (claimJob).      *)
LaneCaps ==
  \A t \in CappedTypes : Cardinality(LiveLeases(t)) <= Cap[t]

(* A job is handed out at most max_attempts times, plus once per dead-letter *)
(* re-run and once per hand-back: every other end of an execution (failure, *)
(* lost lease, lost answer, crash) is charged to attempts.                 *)
ExecutionBudget ==
  \A j \in Jobs : job[j].gen <= MaxAttempts + job[j].requeues + job[j].reschedules

(* While a loop holds a live lease nobody else requeues, dead-letters or   *)
(* re-claims its row: neither a stale loop nor a slow reaper (the recheck  *)
(* of requeueStaleJobs).                                                   *)
LeaseHonouredStep ==
  \A l \in Loops : \A j \in Jobs :
    /\ Owns(l, j)
    /\ \/ job'[j].status \in {"pending", "dead_letter"}
       \/ job'[j].gen # job[j].gen
    => loop'[l] # loop[l]

LeaseHonoured == [][LeaseHonouredStep]_vars

(* Completed and failed rows never run again; a dead letter runs again only *)
(* through a counted re-run (requeueDeadLetters is "the only path out").   *)
TerminalStep ==
  \A j \in Jobs :
    /\ job[j].status \in {"completed", "failed"} => job'[j].status = job[j].status
    /\ job[j].status = "dead_letter" =>
         \/ job'[j].status = "dead_letter"
         \/ /\ job'[j].status = "pending"
            /\ job'[j].requeues = job[j].requeues + 1

TerminalIsFinal == [][TerminalStep]_vars

(* If the processes eventually stay up, every inserted job reaches a final *)
(* state for good: no lost answer, crash or backoff strands it.            *)
EventuallySettles ==
  (\A p \in Procs : <>[](proc[p] = "up")) =>
    \A j \in Jobs : [](job[j].status # "absent" => <>[](job[j].status \in Terminal))

(* Every claim a loop still remembers is no newer than its row's, and no two *)
(* loops remember the same one: lease_generation identifies an execution.  *)
GenerationsIdentify ==
  /\ \A l \in Loops : loop[l].pc # "idle" => loop[l].gen <= job[loop[l].job].gen
  /\ \A l \in Loops : loop[l].pc = "idle" => loop[l].job = NoJob
  /\ \A l, m \in Loops :
       /\ loop[l].pc # "idle" /\ loop[m].pc # "idle"
       /\ loop[l].job = loop[m].job /\ loop[l].gen = loop[m].gen
       => l = m

(* A row's generation is its charged executions plus the one in progress.  *)
Accounted(row) ==
  /\ row.status \in {"absent", "pending", "dead_letter"} =>
       row.gen = row.attempts + row.reschedules
  /\ row.status = "claimed" => row.gen = row.attempts + row.reschedules + 1
  /\ row.status \in {"completed", "failed"} =>
       row.gen <= row.attempts + row.reschedules + 1
  /\ row.status # "dead_letter" => row.attempts < MaxAttempts + row.requeues
  /\ row.status = "dead_letter" => row.attempts <= MaxAttempts + row.requeues

Accounting == \A j \in Jobs : Accounted(job[j])
=============================================================================
