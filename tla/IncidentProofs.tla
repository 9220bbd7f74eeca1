--------------------------- MODULE IncidentProofs ---------------------------
(***************************************************************************)
(* What the life of an issue promises, for any issues, workers and bounds.  *)
(*                                                                         *)
(* Two invariants carry it.  Sound gives every row, claim and reference its *)
(* type.  Related says what the tables say of each other: one fix in flight *)
(* per issue; what StartFix found free stays free while the lease lasts     *)
(* (Fixing); an issue, its reservation and its pull request agree           *)
(* (LinkKept); an execution that delivers carries the reserved patch        *)
(* (Reserved).  Rather than once per action and per invariant, the actions  *)
(* are read once per variable: JobMoves, PullMoves, Changes, ... say all    *)
(* that any step may do to it, and the invariants are proved from those.    *)
(***************************************************************************)
EXTENDS Incident, SequenceTheorems, FiniteSetTheorems, TLAPS

\* The tables as functions and sequences: what the prover needs of TypeOK.
Typed ==
  /\ group \in [Groups -> Group]
  /\ job \in Seq(Job)
  /\ work \in [Workers -> Worker]
  /\ reserved \in [Groups -> Reservation]
  /\ branch \in [Groups -> Commits]
  /\ pull \in Seq(Pull)
  /\ event \subseteq Event
  /\ receipt \subseteq event
  /\ cleanup \subseteq Groups
  /\ reconcile \subseteq 1..Len(job)
  /\ acts \in 0..MaxActs

\* The points of a fix, of a watch, and those at which a fix carries the patch it delivers.
FixPCs == {"agent", "reserve", "list", "adopt", "head", "push", "pushed", "create",
           "finalize", "giveup", "incomplete", "error"}
WatchPCs == {"pull", "checks", "green", "promote"}
PatchPCs == {"list", "adopt", "head", "push", "pushed", "create"}

\* An execution is at a point of its own kind of job, and the pull request it is about to
\* adopt or finalize is one of its issue.
Role(w) ==
  /\ work[w].pc # "idle" => work[w].job \in 1..Len(job)
  /\ work[w].pc \in FixPCs => JobOf(w).type = "fix"
  /\ work[w].pc \in {"analyze", "diagnose"} => JobOf(w).type = "investigate"
  /\ work[w].pc \in WatchPCs => JobOf(w).type = "ci_watch"
  /\ work[w].pc \in {"adopt", "finalize"} =>
        work[w].pr \in 1..Len(pull) /\ pull[work[w].pr].group = GroupOf(w)

\* What the rows refer to exists: the limit of attempts, the pull request of a watch and of
\* a delivery, the author of a pull request, what unarchiving gives back, the dead letter
\* that the reaper still has to reconcile.
Referred ==
  /\ \A j \in 1..Len(job) : job[j].status \in Active => job[j].attempts < MaxAttempts
  /\ \A j \in 1..Len(job) : job[j].type = "ci_watch" => job[j].pr \in 1..Len(pull)
  /\ \A g \in Groups : group[g].status = "archived" => group[g].before # None
  /\ \A n \in 1..Len(pull) : pull[n].by \in 1..Len(job)
  /\ \A e \in event : e.pr \in 1..Len(pull) /\ (e.merged => pull[e.pr].state = "merged")
  /\ \A j \in reconcile : job[j].status = "dead_letter" /\ job[j].type = "fix"
  /\ \A g \in Groups : reserved[g].state = "open" =>
        reserved[g].pr \in 1..Len(pull) /\ pull[reserved[g].pr].group = g

\* The first inductive invariant: types and references.
Sound == Typed /\ Referred /\ \A w \in Workers : Role(w)

\* The bounds as numbers, and a name that is no worker's.
LEMMA Constants ==
  /\ MaxAttempts \in Nat /\ MaxAttempts > 0 /\ MaxReturns \in Nat /\ MaxActs \in Nat
  /\ NoWorker \notin Workers
BY IncidentAssumption

\* What a step may do to the jobs: what a job was created for stays, ...
SameJob(q, r) ==
  q.group = r.group /\ q.type = r.type /\ q.by = r.by /\ q.pr = r.pr /\ q.head = r.head

\* ... a job that a step adds is pending, and a fix or a watch of a pull request that exists, ...
Fresh(r) ==
  /\ r \in Job /\ r.status = "pending" /\ r.attempts = 0
  /\ r.type \in {"fix", "ci_watch"}
  /\ r.type = "ci_watch" => r.pr \in 1..Len(pull)

\* ... no write leaves the queue's rules: a fix that came to rest stays so, and only a claim
\* gives a lease.
Follows(q, r) ==
  /\ q \in Job
  /\ SameJob(q, r)
  /\ q.status \in Active => q.attempts < MaxAttempts
  /\ q.type = "fix" /\ q.status \in Active => r.status \in Active
  /\ r.type = "fix" /\ r.status = "dead_letter" => q.status = "dead_letter"
  /\ q.status = "claimed" /\ q.live =>
        \/ r.status = "claimed" /\ r.live /\ r.owner = q.owner
        \/ work'[q.owner].pc = "start"

JobMoves ==
  /\ job' \in Seq(Job)
  /\ Len(job) <= Len(job')
  /\ \A j \in 1..Len(job) : Follows(job'[j], job[j])
  /\ \A j \in 1..Len(job') : j > Len(job) => Fresh(job'[j])

\* A step that writes no job.
LEMMA JobKept ==
  ASSUME Sound, UNCHANGED job
  PROVE  JobMoves
<1>1. Len(job) \in Nat /\ \A j \in 1..Len(job) : job[j] \in Job
    BY DEF Sound, Typed
<1>2. \A j \in 1..Len(job) : Follows(job[j], job[j])
    BY <1>1 DEF Sound, Referred, Follows, SameJob
<1>. QED BY <1>1, <1>2 DEF JobMoves, Sound, Typed

\* A step that writes one job.
LEMMA JobSet ==
  ASSUME Sound, NEW j \in 1..Len(job), NEW r, Follows(r, job[j]),
         job' = [job EXCEPT ![j] = r]
  PROVE  JobMoves
<1>1. Len(job) \in Nat /\ \A i \in 1..Len(job) : job[i] \in Job
    BY DEF Sound, Typed
<1>2. \A i \in 1..Len(job) : Follows(job[i], job[i])
    BY <1>1 DEF Sound, Referred, Follows, SameJob
<1>3. r \in Job
    BY DEF Follows
<1>4. job' \in Seq(Job) /\ Len(job') = Len(job)
      /\ \A i \in 1..Len(job) : job'[i] = IF i = j THEN r ELSE job[i]
    BY <1>3, ExceptSeq DEF Sound, Typed
<1>. QED BY <1>1, <1>2, <1>4 DEF JobMoves

\* A step that inserts a job.
LEMMA JobAdded ==
  ASSUME Sound, NEW r, Fresh(r), job' = Append(job, r)
  PROVE  JobMoves
<1>1. Len(job) \in Nat /\ \A i \in 1..Len(job) : job[i] \in Job
    BY DEF Sound, Typed
<1>2. \A i \in 1..Len(job) : Follows(job[i], job[i])
    BY <1>1 DEF Sound, Referred, Follows, SameJob
<1>3. r \in Job
    BY DEF Fresh
<1>4. job' \in Seq(Job) /\ Len(job') = Len(job) + 1
      /\ (\A i \in 1..Len(job) : job'[i] = job[i]) /\ job'[Len(job) + 1] = r
    BY <1>3, AppendProperties DEF Sound, Typed
<1>. QED BY <1>1, <1>2, <1>4 DEF JobMoves

\* failJob and the reaper keep the queue's rules.
LEMMA RowCharged ==
  ASSUME NEW r \in Job, r.status = "claimed", r.attempts < MaxAttempts
  PROVE  Follows(Charged(r), r)
<1>1. ASSUME NEW a \in 0..MaxAttempts, NEW s \in {"pending", "dead_letter"}, NEW q,
             s = "pending" => a < MaxAttempts,
             q = [r EXCEPT !.attempts = a, !.owner = NoWorker, !.live = FALSE, !.status = s]
      PROVE  Follows(q, r)
  <2>1. q \in Job
      BY <1>1 DEF Job, Active
  <2>2. SameJob(q, r) /\ q.status = s /\ q.attempts = a
      BY <1>1 DEF Job, SameJob
  <2>. QED BY <1>1, <2>1, <2>2 DEF Follows, Active
<1>2. r.attempts + 1 \in 0..MaxAttempts
    BY Constants DEF Job
<1>3. CASE r.attempts + 1 >= MaxAttempts
  <2>1. Charged(r) = [r EXCEPT !.attempts = r.attempts + 1, !.owner = NoWorker, !.live = FALSE,
                               !.status = "dead_letter"]
      BY <1>3 DEF Charged
  <2>. QED BY <1>1, <1>2, <2>1
<1>4. CASE ~(r.attempts + 1 >= MaxAttempts)
  <2>1. Charged(r) = [r EXCEPT !.attempts = r.attempts + 1, !.owner = NoWorker, !.live = FALSE,
                               !.status = "pending"]
      BY <1>4 DEF Charged
  <2>2. r.attempts + 1 < MaxAttempts
      BY <1>2, <1>4, Constants
  <2>. QED BY <1>1, <1>2, <2>1, <2>2
<1>. QED BY <1>3, <1>4

\* completeJob keeps them.
LEMMA RowCompleted ==
  ASSUME NEW r \in Job, r.status \in Active
  PROVE  Follows(Completed(r), r)
<1> DEFINE q == Completed(r)
<1>0. q = [r EXCEPT !.status = "completed", !.owner = NoWorker, !.live = FALSE, !.attempts = 0]
      /\ 0 \in 0..MaxAttempts
    BY Constants DEF Completed
<1>1. q \in Job /\ SameJob(q, r) /\ q.status = "completed"
  <2> HIDE DEF q
  <2>1. q \in Job
      BY <1>0 DEF Job, Active
  <2>2. SameJob(q, r) /\ q.status = "completed"
      BY <1>0 DEF Job, SameJob
  <2>. QED BY <2>1, <2>2
<1>2. r.status # "dead_letter"
    BY DEF Active
<1> HIDE DEF q
<1>3. Follows(q, r)
    BY <1>1, <1>2 DEF Follows, Active
<1>. QED BY <1>3 DEF q

\* An exhausted provider, which dead-letters at once, keeps them.
LEMMA RowExhausted ==
  ASSUME NEW r \in Job, r.status = "claimed", r.attempts < MaxAttempts
  PROVE  Follows([Charged(r) EXCEPT !.status = "dead_letter"], r)
<1> DEFINE c == Charged(r)
           q == [c EXCEPT !.status = "dead_letter"]
<1>1. c \in Job /\ SameJob(c, r)
    BY RowCharged DEF Follows
<1> HIDE DEF c
<1>2. q \in Job /\ SameJob(q, r) /\ q.status = "dead_letter"
    BY <1>1 DEF Job, SameJob
<1> HIDE DEF q
<1>3. Follows(q, r)
    BY <1>2 DEF Follows, Active
<1>. QED BY <1>3 DEF q, c

\* A claim keeps them: the row it gives a lease on is at the start of its execution.
LEMMA RowClaimed ==
  ASSUME NEW r \in Job, r.status = "pending", r.attempts < MaxAttempts,
         NEW w \in Workers, work'[w].pc = "start"
  PROVE  Follows([r EXCEPT !.status = "claimed", !.owner = w, !.live = TRUE], r)
BY DEF Follows, Job, SameJob, Active

\* A lease that lapses keeps them.
LEMMA RowLapsed ==
  ASSUME NEW r \in Job, r.status = "claimed", r.attempts < MaxAttempts
  PROVE  Follows([r EXCEPT !.live = FALSE], r)
BY DEF Follows, Job, SameJob, Active

\* requeueDeadLetters keeps them: it never runs a fix again.
LEMMA RowRequeued ==
  ASSUME NEW r \in Job, r.status = "dead_letter", r.type = "investigate", r.returns < MaxReturns
  PROVE  Follows(Requeued(r), r)
<1> DEFINE n == r.returns + 1
           a == IF r.attempts < MaxAttempts THEN r.attempts ELSE MaxAttempts - 1
<1>1. n \in 0..MaxReturns /\ a \in 0..MaxAttempts /\ a < MaxAttempts
    BY Constants DEF Job
<1>2. Requeued(r) = [r EXCEPT !.status = "pending", !.returns = n, !.attempts = a]
    BY DEF Requeued
<1> HIDE DEF n, a
<1>. QED BY <1>1, <1>2 DEF Follows, Job, SameJob, Active

\* rescheduleJob keeps them.
LEMMA RowRescheduled ==
  ASSUME NEW r \in Job, r.status = "claimed", r.attempts < MaxAttempts, r.returns < MaxReturns
  PROVE  Follows(Rescheduled(r), r)
<1> DEFINE n == r.returns + 1
<1>1. n \in 0..MaxReturns
    BY Constants DEF Job
<1>2. Rescheduled(r) = [r EXCEPT !.status = "pending", !.owner = NoWorker, !.live = FALSE,
                                 !.returns = n]
    BY DEF Rescheduled
<1> HIDE DEF n
<1>. QED BY <1>1, <1>2 DEF Follows, Job, SameJob, Active

\* A new row is a pending job of its issue.
LEMMA RowNew ==
  ASSUME NEW g \in Groups, NEW type \in {"investigate", "fix", "ci_watch"},
         NEW by \in {"auto", "human"}
  PROVE  LET r == NewJob(g, type, by) IN
         /\ r \in Job /\ r.group = g /\ r.type = type /\ r.by = by
         /\ r.status = "pending" /\ r.attempts = 0
BY Constants DEF NewJob, Job, Active, NoCommit, Commits

\* The fix that a diagnosis or a person asks for.
LEMMA FixFresh ==
  ASSUME NEW g \in Groups, NEW by \in {"auto", "human"}
  PROVE  Fresh(NewJob(g, "fix", by))
<1> DEFINE r == NewJob(g, "fix", by)
<1>1. r \in Job /\ r.type = "fix" /\ r.status = "pending" /\ r.attempts = 0
    BY RowNew
<1> HIDE DEF r
<1>2. Fresh(r)
    BY <1>1 DEF Fresh
<1>. QED BY <1>2 DEF r

\* The watch that finalizeDelivery enqueues.
LEMMA WatchFresh ==
  ASSUME NEW g \in Groups, NEW n \in 1..Len(pull), NEW c \in Commits, Len(pull) \in Nat
  PROVE  Fresh([NewJob(g, "ci_watch", "auto") EXCEPT !.pr = n, !.head = c])
<1> DEFINE r == NewJob(g, "ci_watch", "auto")
           q == [r EXCEPT !.pr = n, !.head = c]
<1>1. r \in Job /\ r.type = "ci_watch" /\ r.status = "pending" /\ r.attempts = 0
    BY RowNew
<1> HIDE DEF r
<1>2. n \in Nat
    OBVIOUS
<1>3. q \in Job
    BY <1>1, <1>2 DEF Job
<1>4. q.type = "ci_watch" /\ q.status = "pending" /\ q.attempts = 0 /\ q.pr = n
    BY <1>1 DEF Job
<1> HIDE DEF q
<1>5. Fresh(q)
    BY <1>3, <1>4 DEF Fresh
<1>. QED BY <1>5 DEF q, r

\* What a sound state gives every step of the proofs below.
LEMMA Basics ==
  ASSUME Sound
  PROVE  /\ Len(job) \in Nat /\ DOMAIN job = 1..Len(job)
         /\ \A j \in 1..Len(job) : job[j] \in Job /\ job[j].group \in Groups
         /\ Len(pull) \in Nat /\ DOMAIN pull = 1..Len(pull)
         /\ \A n \in 1..Len(pull) : pull[n] \in Pull /\ pull[n].group \in Groups
         /\ \A w \in Workers : work[w] \in Worker
         /\ \A w \in Workers : work[w].pc # "idle" =>
              work[w].job \in 1..Len(job) /\ JobOf(w) \in Job /\ GroupOf(w) \in Groups
         /\ \A g \in Groups : group[g] \in Group /\ reserved[g] \in Reservation
<1>1. Len(job) \in Nat /\ DOMAIN job = 1..Len(job) /\ \A j \in 1..Len(job) : job[j] \in Job
    BY DEF Sound, Typed
<1>2. \A j \in 1..Len(job) : job[j].group \in Groups
    BY <1>1 DEF Job
<1>3. Len(pull) \in Nat /\ DOMAIN pull = 1..Len(pull) /\ \A n \in 1..Len(pull) : pull[n] \in Pull
    BY DEF Sound, Typed
<1>4. \A n \in 1..Len(pull) : pull[n].group \in Groups
    BY <1>3 DEF Pull
<1>5. \A w \in Workers : work[w].pc # "idle" => work[w].job \in 1..Len(job)
    BY DEF Sound, Role
<1>6. /\ \A w \in Workers : work[w] \in Worker
      /\ \A g \in Groups : group[g] \in Group /\ reserved[g] \in Reservation
    BY DEF Sound, Typed
<1>. QED BY <1>1, <1>2, <1>3, <1>4, <1>5, <1>6 DEF JobOf, GroupOf

\* No step, of a worker, the reaper, a webhook or a person, breaks the queue's rules.
LEMMA JobSteps == Sound /\ [Next]_vars => JobMoves
<1> SUFFICES ASSUME Sound, [Next]_vars PROVE JobMoves
    OBVIOUS
<1> USE Basics
<1>0. \A j \in 1..Len(job) : job[j].status \in Active => job[j].attempts < MaxAttempts
    BY DEF Sound, Referred
<1>1. CASE UNCHANGED job
    BY <1>1, JobKept
<1>2. ASSUME NEW w \in Workers, NEW j \in DOMAIN job, Claim(w, j) PROVE JobMoves
  <2> DEFINE r == [job[j] EXCEPT !.status = "claimed", !.owner = w, !.live = TRUE]
  <2>1. job' = [job EXCEPT ![j] = r] /\ job[j].status = "pending"
      BY <1>2 DEF Claim
  <2>2. work'[w].pc = "start"
      BY <1>2 DEF Claim, Sound, Typed, Idle
  <2>3. Follows(r, job[j])
      BY <1>0, <2>1, <2>2, RowClaimed DEF Active
  <2> HIDE DEF r
  <2>. QED BY <2>1, <2>3, JobSet
<1>3. ASSUME NEW w \in Workers, Complete(w) \/ Throw(w) \/ Exhaust(w) \/ Restore(w) PROVE JobMoves
  <2> DEFINE j == work[w].job
  <2>1. j \in 1..Len(job) /\ job[j].status = "claimed"
      BY <1>3 DEF Complete, Throw, Exhaust, Restore, Owns, JobOf
  <2>2. job[j] \in Job /\ job[j].attempts < MaxAttempts /\ job[j].status \in Active
      BY <1>0, <2>1 DEF Active
  <2>3. \/ job' = [job EXCEPT ![j] = Completed(job[j])]
        \/ job' = [job EXCEPT ![j] = Charged(job[j])]
        \/ job' = [job EXCEPT ![j] = [Charged(job[j]) EXCEPT !.status = "dead_letter"]]
      BY <1>3 DEF Complete, Throw, Exhaust, Restore
  <2> HIDE DEF j
  <2>. QED BY <2>1, <2>2, <2>3, JobSet, RowCompleted, RowCharged, RowExhausted
<1>4. ASSUME NEW j \in DOMAIN job, LeaseExpires(j) \/ Reap(j) PROVE JobMoves
  <2>1. job[j].status = "claimed" /\ job[j] \in Job /\ job[j].attempts < MaxAttempts
      BY <1>0, <1>4 DEF LeaseExpires, Reap, Active
  <2>2. \/ job' = [job EXCEPT ![j] = [job[j] EXCEPT !.live = FALSE]]
        \/ job' = [job EXCEPT ![j] = Charged(job[j])]
      BY <1>4 DEF LeaseExpires, Reap
  <2>. QED BY <2>1, <2>2, JobSet, RowLapsed, RowCharged
<1>5. ASSUME NEW j \in DOMAIN job, Rerun(j) PROVE JobMoves
  <2>1. job' = [job EXCEPT ![j] = Requeued(job[j])] /\ job[j].status = "dead_letter"
        /\ job[j].type = "investigate" /\ job[j].returns < MaxReturns
      BY <1>5 DEF Rerun
  <2>. QED BY <2>1, JobSet, RowRequeued
<1>6. ASSUME NEW w \in Workers, Reschedule(w) PROVE JobMoves
  <2> DEFINE j == work[w].job
  <2>1. j \in 1..Len(job) /\ job[j].status = "claimed" /\ job[j].returns < MaxReturns
        /\ job' = [job EXCEPT ![j] = Rescheduled(job[j])]
      BY <1>6 DEF Reschedule, Owns, JobOf
  <2>2. job[j].attempts < MaxAttempts
      BY <1>0, <2>1 DEF Active
  <2> HIDE DEF j
  <2>. QED BY <2>1, <2>2, JobSet, RowRescheduled
<1>7. ASSUME NEW w \in Workers, CreateFix(w) PROVE JobMoves
  <2>1. job' = Append(job, NewJob(GroupOf(w), "fix", "auto")) /\ GroupOf(w) \in Groups
      BY <1>7 DEF CreateFix
  <2>. QED BY <2>1, FixFresh, JobAdded
<1>8. ASSUME NEW g \in Groups, TriggerFix(g) PROVE JobMoves
  <2>1. job' = Append(job, NewJob(g, "fix", "human"))
      BY <1>8 DEF TriggerFix
  <2>. QED BY <2>1, FixFresh, JobAdded
<1>9. ASSUME NEW w \in Workers, Finalize(w) PROVE JobMoves
  <2>1. CASE job' = job
      BY <2>1, JobKept
  <2>2. CASE job' # job
    <3>1. job' = Append(job, [NewJob(GroupOf(w), "ci_watch", "auto")
                                EXCEPT !.pr = work[w].pr, !.head = work[w].head])
        BY <1>9, <2>2 DEF Finalize, Watched
    <3>2. GroupOf(w) \in Groups /\ work[w].pr \in 1..Len(pull) /\ work[w].head \in Commits
        BY <1>9 DEF Finalize, Sound, Role, Worker
    <3>. QED BY <3>1, <3>2, WatchFresh, JobAdded
  <2>. QED BY <2>1, <2>2
<1>10. ASSUME NEW e \in event, NEW g \in Groups, WebhookMatched(e, g) PROVE JobMoves
  <2>1. CASE job' = job
      BY <2>1, JobKept
  <2>2. CASE job' # job
    <3>1. job' = [j \in 1..Len(job) |-> IF j \in ActiveJobs(g, "ci_watch")
                                        THEN Completed(job[j]) ELSE job[j]]
        BY <1>10, <2>2 DEF WebhookMatched, Unwatched
    <3>2. \A j \in 1..Len(job) : Follows(job'[j], job[j])
      <4> TAKE j \in 1..Len(job)
      <4>1. CASE j \in ActiveJobs(g, "ci_watch")
          BY <3>1, <4>1, RowCompleted DEF ActiveJobs
      <4>2. CASE j \notin ActiveJobs(g, "ci_watch")
        <5>1. job'[j] = job[j]
            BY <3>1, <4>2
        <5>. QED BY <1>0, <5>1 DEF Follows, SameJob
      <4>. QED BY <4>1, <4>2
    <3>3. job' \in [1..Len(job) -> Job]
        BY <3>1, <3>2 DEF Follows
    <3>4. job' \in Seq(Job) /\ Len(job') = Len(job)
        BY <3>3
    <3>. QED BY <3>2, <3>4 DEF JobMoves
  <2>. QED BY <2>1, <2>2
<1>11. CASE UNCHANGED vars
    BY <1>1, <1>11 DEF vars
<1>12. ASSUME NEW w \in Workers,
              \/ Vanish(w) \/ StartInvestigation(w) \/ QuotaDenied(w) \/ Analyze(w)
              \/ \E status \in {"needs_human", "insight"} : Diagnose(w, status)
              \/ StartFix(w) \/ AgentSucceeds(w)
              \/ \E pc \in {"giveup", "incomplete"} : AgentFails(w, pc)
              \/ Caught(w) \/ ReserveNew(w) \/ CapReached(w) \/ ReserveExisting(w)
              \/ ListPulls(w) \/ AdoptPull(w) \/ ReadHead(w)
              \/ \E heard \in BOOLEAN : Push(w, heard) \/ CreatePull(w, heard)
              \/ PushFails(w) \/ RecordPushed(w) \/ FindPull(w) \/ CreateFails(w)
              \/ FinalizeRefused(w) \/ GiveUp(w) \/ HandleError(w)
              \/ StartWatch(w) \/ CheckHead(w)
              \/ \E state \in CIStates : ReadChecks(w, state)
              \/ MarkReady(w) \/ Promote(w)
       PROVE  JobMoves
  <2>1. UNCHANGED job
      BY <1>12 DEF Vanish, StartInvestigation, QuotaDenied, Analyze, Diagnose, StartFix,
         AgentSucceeds, AgentFails, Caught, ReserveNew, CapReached, ReserveExisting, ListPulls,
         AdoptPull, ReadHead, Push, CreatePull, PushFails, RecordPushed, FindPull, CreateFails,
         FinalizeRefused, GiveUp, HandleError, StartWatch, CheckHead, ReadChecks, MarkReady,
         Promote, WorkOnly
  <2>. QED BY <1>1, <2>1
<1>13. CASE \/ \E j \in reconcile : Reconcile(j) \/ ReconcileLost(j)
            \/ \E e \in event : WebhookSeen(e) \/ WebhookRecovered(e)
            \/ \E g \in Groups : \/ DeleteBranch(g) \/ DeleteFails(g) \/ AutoResolve(g)
                                 \/ CloseEpisode(g) \/ Resolve(g) \/ Archive(g) \/ Unarchive(g)
                                 \/ PersonPushes(g)
            \/ \E n \in DOMAIN pull : ReopenPull(n) \/ \E merged \in BOOLEAN : ClosePull(n, merged)
  <2>1. UNCHANGED job
      BY <1>13 DEF Reconcile, ReconcileLost, WebhookSeen, WebhookRecovered, DeleteBranch,
         DeleteFails, AutoResolve, CloseEpisode, Resolve, Archive, Unarchive, PersonPushes,
         ReopenPull, ClosePull
  <2>. QED BY <1>1, <2>1
<1>. QED
    BY <1>2, <1>3, <1>4, <1>5, <1>6, <1>7, <1>8, <1>9, <1>10, <1>11, <1>12, <1>13
       DEF Next, QueueStep, InvestigateStep, FixStep, WatchStep, PersonStep, Webhook

\* What a step may do to the pull requests: one never changes issue or author, stays merged,
\* and moves only to a head that a person pushed, ...
SamePull(q, r) ==
  /\ q \in Pull
  /\ q.group = r.group /\ q.by = r.by
  /\ r.bornDraft => q.bornDraft
  /\ r.state = "merged" => q.state = "merged"
  /\ q.head \in {r.head, Person}

\* ... and a new one is opened by createPR, at the head of the issue's branch.
Opened(r, w) ==
  /\ r \in Pull
  /\ work[w].pc = "create"
  /\ r.group = GroupOf(w) /\ r.by = work[w].job
  /\ r.head = branch[GroupOf(w)] /\ r.head # NoCommit
  /\ work[w].posture = "draft" => r.bornDraft

\* Both, for the whole list.
PullMoves ==
  /\ pull' \in Seq(Pull)
  /\ Len(pull) <= Len(pull')
  /\ \A n \in 1..Len(pull) : SamePull(pull'[n], pull[n])
  /\ \A n \in 1..Len(pull') : n > Len(pull) => \E w \in Workers : Opened(pull'[n], w)

\* A step that writes one pull request.
LEMMA PullSet ==
  ASSUME Sound, NEW n \in 1..Len(pull), NEW r, SamePull(r, pull[n]),
         pull' = [pull EXCEPT ![n] = r]
  PROVE  PullMoves
<1>1. Len(pull) \in Nat /\ \A i \in 1..Len(pull) : pull[i] \in Pull
    BY Basics
<1>2. \A i \in 1..Len(pull) : SamePull(pull[i], pull[i])
    BY <1>1 DEF SamePull
<1>3. r \in Pull
    BY DEF SamePull
<1>4. pull' \in Seq(Pull) /\ Len(pull') = Len(pull)
      /\ \A i \in 1..Len(pull) : pull'[i] = IF i = n THEN r ELSE pull[i]
    BY <1>3, ExceptSeq DEF Sound, Typed
<1>. QED BY <1>1, <1>2, <1>4 DEF PullMoves

\* A step that writes none.
LEMMA PullKept == Sound /\ UNCHANGED pull => PullMoves
<1> SUFFICES ASSUME Sound, UNCHANGED pull PROVE PullMoves
    OBVIOUS
<1>1. Len(pull) \in Nat /\ \A i \in 1..Len(pull) : pull[i] \in Pull
    BY Basics
<1>2. \A i \in 1..Len(pull) : SamePull(pull[i], pull[i])
    BY <1>1 DEF SamePull
<1>. QED BY <1>1, <1>2 DEF PullMoves, Sound, Typed

\* A close or a merge on GitHub.
LEMMA PullClosed ==
  ASSUME Sound, NEW n \in 1..Len(pull), NEW merged \in BOOLEAN, pull[n].state # "merged",
         Closed(n, merged)
  PROVE  PullMoves /\ (merged => pull'[n].state = "merged")
<1> DEFINE s == IF merged THEN "merged" ELSE "closed"
           d == pull[n].draft /\ ~merged
           c == pull[n].closes + 1
           r == [pull[n] EXCEPT !.state = s, !.draft = d, !.closes = c]
<1>1. pull[n] \in Pull
    BY Basics
<1>2. s \in {"merged", "closed"} /\ d \in BOOLEAN /\ c \in Nat
    BY <1>1 DEF Pull
<1>3. pull' = [pull EXCEPT ![n] = r]
    BY DEF Closed
<1>4. ASSUME NEW st \in {"merged", "closed"}, NEW dr \in BOOLEAN, NEW cl \in Nat, NEW q,
             q = [pull[n] EXCEPT !.state = st, !.draft = dr, !.closes = cl]
      PROVE  SamePull(q, pull[n]) /\ q.state = st
  <2>1. q \in Pull
      BY <1>1, <1>4 DEF Pull
  <2>2. q.group = pull[n].group /\ q.by = pull[n].by /\ q.bornDraft = pull[n].bornDraft
        /\ q.state = st /\ q.head = pull[n].head
      BY <1>1, <1>4 DEF Pull
  <2>. QED BY <2>1, <2>2 DEF SamePull
<1> HIDE DEF s, d, c
<1>5. SamePull(r, pull[n]) /\ r.state = s
    BY <1>2, <1>4
<1> HIDE DEF r
<1>6. PullMoves
    BY <1>3, <1>5, PullSet
<1>7. pull'[n] = r
    BY <1>3 DEF Sound, Typed
<1>. QED BY <1>5, <1>6, <1>7 DEF s

\* createPR.
LEMMA PullOpened ==
  ASSUME Sound, NEW w \in Workers, NEW heard \in BOOLEAN, CreatePull(w, heard)
  PROVE  /\ PullMoves
         /\ Len(pull') = Len(pull) + 1 /\ pull'[Len(pull) + 1].group = GroupOf(w)
<1> DEFINE g == GroupOf(w)
           d == work[w].posture = "draft"
           r == [group |-> g, state |-> "open", draft |-> d, head |-> branch[g],
                 by |-> work[w].job, bornDraft |-> d, closes |-> 0]
<1>1. work[w].pc = "create" /\ branch[g] # NoCommit /\ pull' = Append(pull, r)
    BY DEF CreatePull
<1>2. g \in Groups /\ branch[g] \in Commits /\ work[w].job \in Nat /\ d \in BOOLEAN
    BY <1>1, Basics DEF Sound, Typed
<1>3. ASSUME NEW b \in BOOLEAN, NEW q,
             q = [group |-> g, state |-> "open", draft |-> b, head |-> branch[g],
                  by |-> work[w].job, bornDraft |-> b, closes |-> 0]
      PROVE  q \in Pull /\ q.group = g /\ q.by = work[w].job /\ q.head = branch[g] /\ q.bornDraft = b
    BY <1>2, <1>3 DEF Pull
<1> HIDE DEF g, d
<1>4. r \in Pull /\ r.group = g /\ r.by = work[w].job /\ r.head = branch[g] /\ r.bornDraft = d
    BY <1>2, <1>3
<1> HIDE DEF r
<1>5. Opened(r, w)
    BY <1>1, <1>4 DEF Opened, g, d
<1>6. Len(pull) \in Nat /\ \A i \in 1..Len(pull) : pull[i] \in Pull
    BY Basics
<1>7. \A i \in 1..Len(pull) : SamePull(pull[i], pull[i])
    BY <1>6 DEF SamePull
<1>8. pull' \in Seq(Pull) /\ Len(pull') = Len(pull) + 1
      /\ (\A i \in 1..Len(pull) : pull'[i] = pull[i]) /\ pull'[Len(pull) + 1] = r
    BY <1>1, <1>4, AppendProperties DEF Sound, Typed
<1>. QED BY <1>4, <1>5, <1>6, <1>7, <1>8 DEF PullMoves, g

\* No step does more to the pull requests than that.
LEMMA PullSteps == Sound /\ [Next]_vars => PullMoves
<1> SUFFICES ASSUME Sound, [Next]_vars PROVE PullMoves
    OBVIOUS
<1> USE Basics
<1>1. CASE UNCHANGED pull
    BY <1>1, PullKept
<1>2. ASSUME NEW w \in Workers, NEW heard \in BOOLEAN, CreatePull(w, heard) PROVE PullMoves
    BY <1>2, PullOpened
<1>3. ASSUME NEW w \in Workers, MarkReady(w) PROVE PullMoves
  <2>1. CASE UNCHANGED pull
      BY <1>1, <2>1
  <2>2. CASE ~UNCHANGED pull
    <3> DEFINE n == JobOf(w).pr
               r == [pull[n] EXCEPT !.draft = FALSE]
    <3>1. pull' = [pull EXCEPT ![n] = r] /\ work[w].pc = "green"
        BY <1>3, <2>2 DEF MarkReady
    <3>2. n \in 1..Len(pull)
        BY <3>1 DEF Sound, Role, Referred, WatchPCs, JobOf
    <3>3. pull[n] \in Pull
        BY <3>2
    <3> HIDE DEF n
    <3>4. r \in Pull
        BY <3>3 DEF Pull
    <3>5. SamePull(r, pull[n])
        BY <3>3, <3>4 DEF SamePull, Pull
    <3> HIDE DEF r
    <3>. QED BY <3>1, <3>2, <3>5, PullSet
  <2>. QED BY <2>1, <2>2
<1>4. ASSUME NEW g \in Groups, DeleteBranch(g) PROVE PullMoves
    BY <1>1, <1>4, PullClosed DEF DeleteBranch, OpenPulls
<1>5. ASSUME NEW n \in DOMAIN pull, NEW merged \in BOOLEAN, ClosePull(n, merged) PROVE PullMoves
    BY <1>5, PullClosed DEF ClosePull
<1>6. ASSUME NEW n \in DOMAIN pull, ReopenPull(n) PROVE PullMoves
  <2> DEFINE r == [pull[n] EXCEPT !.state = "open"]
  <2>1. pull' = [pull EXCEPT ![n] = r] /\ pull[n].state = "closed" /\ n \in 1..Len(pull)
      BY <1>6 DEF ReopenPull
  <2>2. pull[n] \in Pull
      BY <2>1
  <2>3. r \in Pull
      BY <2>2 DEF Pull
  <2>4. SamePull(r, pull[n])
      BY <2>1, <2>2, <2>3 DEF SamePull, Pull
  <2> HIDE DEF r
  <2>. QED BY <2>1, <2>4, PullSet
<1>7. ASSUME NEW g \in Groups, PersonPushes(g) PROVE PullMoves
  <2>1. pull' = [n \in 1..Len(pull) |->
                   IF n \in OpenPulls(g) THEN [pull[n] EXCEPT !.head = Person] ELSE pull[n]]
      BY <1>7 DEF PersonPushes
  <2>2. ASSUME NEW n \in 1..Len(pull) PROVE SamePull(pull'[n], pull[n])
    <3> DEFINE r == [pull[n] EXCEPT !.head = Person]
    <3>0. pull[n] \in Pull /\ Person \in Commits
        BY DEF Person, Commits
    <3>1. r \in Pull
        BY <3>0 DEF Pull
    <3>2. SamePull(r, pull[n])
        BY <3>0, <3>1 DEF SamePull, Pull
    <3>3. SamePull(pull[n], pull[n])
        BY <3>0 DEF SamePull
    <3> HIDE DEF r
    <3>4. pull'[n] = IF n \in OpenPulls(g) THEN r ELSE pull[n]
        BY <2>1 DEF r
    <3>. QED BY <3>2, <3>3, <3>4
  <2>3. pull' \in [1..Len(pull) -> Pull]
      BY <2>1, <2>2 DEF SamePull
  <2>4. pull' \in Seq(Pull) /\ Len(pull') = Len(pull)
      BY <2>3
  <2>. QED BY <2>2, <2>4 DEF PullMoves
<1>8. ASSUME NEW w \in Workers,
              \/ Vanish(w) \/ Complete(w) \/ Throw(w)
              \/ StartInvestigation(w) \/ QuotaDenied(w) \/ Analyze(w)
              \/ \E status \in {"needs_human", "insight"} : Diagnose(w, status)
              \/ CreateFix(w) \/ Exhaust(w)
              \/ StartFix(w) \/ AgentSucceeds(w)
              \/ \E pc \in {"giveup", "incomplete"} : AgentFails(w, pc)
              \/ Caught(w) \/ ReserveNew(w) \/ CapReached(w) \/ ReserveExisting(w)
              \/ ListPulls(w) \/ AdoptPull(w) \/ ReadHead(w)
              \/ \E heard \in BOOLEAN : Push(w, heard)
              \/ PushFails(w) \/ RecordPushed(w) \/ FindPull(w) \/ CreateFails(w)
              \/ Finalize(w) \/ FinalizeRefused(w) \/ GiveUp(w) \/ HandleError(w) \/ Restore(w)
              \/ StartWatch(w) \/ CheckHead(w)
              \/ \E state \in CIStates : ReadChecks(w, state)
              \/ Reschedule(w) \/ Promote(w)
       PROVE  UNCHANGED pull
    BY <1>8 DEF Vanish, Complete, Throw, StartInvestigation, QuotaDenied, Analyze, Diagnose,
         CreateFix, Exhaust, StartFix,
         AgentSucceeds, AgentFails, Caught, ReserveNew, CapReached, ReserveExisting, ListPulls,
         AdoptPull, ReadHead, Push, PushFails, RecordPushed, FindPull, CreateFails,
         Finalize, FinalizeRefused, GiveUp, HandleError, Restore, StartWatch, CheckHead, ReadChecks,
         Reschedule, Promote, WorkOnly, github
<1>9. CASE \/ \E w \in Workers, j \in DOMAIN job : Claim(w, j)
           \/ \E j \in DOMAIN job : LeaseExpires(j) \/ Reap(j) \/ Rerun(j)
           \/ \E j \in reconcile : Reconcile(j) \/ ReconcileLost(j)
           \/ \E e \in event : Webhook(e)
           \/ \E g \in Groups : \/ DeleteFails(g) \/ AutoResolve(g)
                                \/ CloseEpisode(g) \/ Resolve(g) \/ Archive(g) \/ Unarchive(g)
                                \/ TriggerFix(g)
           \/ UNCHANGED vars
  <2>1. UNCHANGED pull
      BY <1>9 DEF Claim, LeaseExpires, Reap, Rerun, Reconcile, ReconcileLost, Webhook, WebhookSeen,
         WebhookMatched, WebhookRecovered, DeleteFails, AutoResolve, CloseEpisode, Resolve, Archive,
         Unarchive, TriggerFix, github, vars
  <2>. QED BY <1>1, <2>1
<1>. QED
    BY <1>1, <1>2, <1>3, <1>4, <1>5, <1>6, <1>7, <1>8, <1>9
       DEF Next, QueueStep, InvestigateStep, FixStep, WatchStep, PersonStep

\* What a step may do to the issues: an archived one keeps a status to give back.
Row(r) == r \in Group /\ (r.status = "archived" => r.before # None)

\* The same for the whole table.
GroupMoves ==
  /\ group' \in [Groups -> Group]
  /\ \A g \in Groups : Row(group'[g])

\* A step that writes one issue.
LEMMA GroupSet ==
  ASSUME Sound, NEW g \in Groups, NEW r, Row(r), group' = [group EXCEPT ![g] = r]
  PROVE  GroupMoves
BY DEF Sound, Typed, Referred, GroupMoves, Row

\* updateGroupStatus.
LEMMA RowUpdated ==
  ASSUME NEW r \in Group, NEW j \in Nat, NEW s \in {"needs_human", "analyzing"}
  PROVE  Row(Updated(r, s, j)) /\ Updated(r, s, j).status = s
<1>1. ASSUME NEW t \in Nat, NEW q, q = [r EXCEPT !.status = s, !.pr = 0, !.terminal = t]
      PROVE  Row(q) /\ q.status = s
  <2>1. q \in Group
      BY <1>1 DEF Group, Statuses
  <2>2. q.status = s
      BY <1>1 DEF Group
  <2>. QED BY <2>1, <2>2 DEF Row
<1>2. CASE j = 0
    BY <1>1, <1>2 DEF Updated, Group
<1>3. CASE j # 0
    BY <1>1, <1>3 DEF Updated
<1>. QED BY <1>2, <1>3

\* A step that writes the status alone, and does not archive.
LEMMA RowStatus ==
  ASSUME NEW r \in Group, NEW s \in Statuses \ {"archived"}
  PROVE  Row([r EXCEPT !.status = s])
<1> DEFINE q == [r EXCEPT !.status = s]
<1>1. q \in Group
    BY DEF Group, Statuses
<1>2. q.status = s
    BY DEF Group
<1> HIDE DEF q
<1>3. Row(q)
    BY <1>1, <1>2 DEF Row
<1>. QED BY <1>3 DEF q

\* The outcome of a pull request that the webhook brings.
LEMMA RowFollowed ==
  ASSUME NEW r \in Group, NEW merged \in BOOLEAN
  PROVE  Row(Followed(r, merged))
<1>1. CASE merged
  <2>1. Followed(r, merged) = [r EXCEPT !.status = "merged"]
      BY <1>1 DEF Followed
  <2>. QED BY <2>1, RowStatus DEF Statuses
<1>2. ASSUME NEW s \in {"needs_human", "investigated"}, NEW q,
             q = [r EXCEPT !.status = s, !.pr = 0, !.fixJob = 0]
      PROVE  Row(q)
  <2>1. q \in Group
      BY <1>2 DEF Group, Statuses
  <2>2. q.status = s
      BY <1>2 DEF Group
  <2>. QED BY <2>1, <2>2 DEF Row
<1>3. CASE ~merged
    BY <1>2, <1>3 DEF Followed
<1>. QED BY <1>1, <1>3

\* No step leaves an archived issue nothing to be unarchived to, an issue archived twice
\* included.
LEMMA GroupSteps == Sound /\ [Next]_vars => GroupMoves
<1> SUFFICES ASSUME Sound, [Next]_vars PROVE GroupMoves
    OBVIOUS
<1> USE Basics
<1>1. CASE UNCHANGED group
    BY <1>1 DEF GroupMoves, Row, Sound, Typed, Referred
<1>2. ASSUME NEW j \in reconcile, Reconcile(j) PROVE GroupMoves
  <2>1. j \in 1..Len(job) /\ j \in Nat
      BY DEF Sound, Typed
  <2>2. group' = [group EXCEPT ![job[j].group] = Updated(group[job[j].group], "needs_human", j)]
      BY <1>2 DEF Reconcile
  <2>. QED BY <2>1, <2>2, GroupSet, RowUpdated
<1>3. ASSUME NEW w \in Workers, Analyze(w) \/ GiveUp(w) \/ HandleError(w) PROVE GroupMoves
  <2>1. GroupOf(w) \in Groups /\ work[w].job \in Nat
      BY <1>3 DEF Analyze, GiveUp, HandleError
  <2>2. PICK s \in {"needs_human", "analyzing"}, j \in {0, work[w].job} :
           group' = [group EXCEPT ![GroupOf(w)] = Updated(group[GroupOf(w)], s, j)]
      BY <1>3 DEF Analyze, GiveUp, HandleError
  <2>3. j \in Nat /\ group[GroupOf(w)] \in Group
      BY <2>1
  <2>4. Row(Updated(group[GroupOf(w)], s, j))
      BY <2>3, RowUpdated
  <2>. QED BY <2>1, <2>2, <2>4, GroupSet
<1>4. ASSUME NEW g \in Groups, NEW s \in Statuses \ {"archived"},
             group' = [group EXCEPT ![g].status = s]
      PROVE  GroupMoves
    BY <1>4, GroupSet, RowStatus
<1>5. ASSUME NEW w \in Workers,
             \/ \E s \in {"needs_human", "insight"} : Diagnose(w, s)
             \/ CreateFix(w)
      PROVE  GroupMoves
  <2>1. work[w].pc = "diagnose"
      BY <1>5 DEF Diagnose, CreateFix
  <2>2. \E s \in {"needs_human", "insight", "fixing"} : group' = [group EXCEPT ![GroupOf(w)].status = s]
      BY <1>5 DEF Diagnose, CreateFix, SetStatus
  <2>. QED BY <1>4, <2>1, <2>2 DEF Statuses
<1>6. ASSUME NEW w \in Workers, Promote(w) PROVE GroupMoves
  <2>1. work[w].pc = "promote"
      BY <1>6 DEF Promote
  <2>2. group' = group \/ group' = [group EXCEPT ![GroupOf(w)].status = "pr_created"]
      BY <1>6 DEF Promote
  <2>. QED BY <1>1, <1>4, <2>1, <2>2 DEF Statuses
<1>7. ASSUME NEW w \in Workers, Finalize(w) PROVE GroupMoves
  <2> DEFINE g == GroupOf(w)
             s == IF work[w].posture = "draft" THEN "pr_draft" ELSE "pr_created"
             r == [group[g] EXCEPT !.status = s, !.pr = work[w].pr, !.fixJob = work[w].job,
                                   !.terminal = work[w].job]
  <2>1. work[w].pc = "finalize" /\ group' = [group EXCEPT ![g] = r]
      BY <1>7 DEF Finalize
  <2>2. g \in Groups /\ work[w].pr \in Nat /\ work[w].job \in Nat /\ group[g] \in Group
      BY <2>1 DEF Worker
  <2>3. ASSUME NEW st \in {"pr_draft", "pr_created"}, NEW q,
               q = [group[g] EXCEPT !.status = st, !.pr = work[w].pr, !.fixJob = work[w].job,
                                    !.terminal = work[w].job]
        PROVE  Row(q)
    <3>1. q \in Group
        BY <2>2, <2>3 DEF Group, Statuses
    <3>2. q.status = st
        BY <2>2, <2>3 DEF Group
    <3>. QED BY <3>1, <3>2 DEF Row
  <2>4. Row(r)
      BY <2>3
  <2> HIDE DEF g, r
  <2>. QED BY <2>1, <2>2, <2>4, GroupSet
<1>8. ASSUME NEW w \in Workers, Restore(w) PROVE GroupMoves
  <2> DEFINE g == GroupOf(w)
             r == [group[g] EXCEPT !.status = "investigated", !.terminal = work[w].job]
  <2>1. work[w].pc = "incomplete" /\ (group' = group \/ group' = [group EXCEPT ![g] = r])
      BY <1>8 DEF Restore
  <2>2. g \in Groups /\ work[w].job \in Nat /\ group[g] \in Group
      BY <2>1
  <2>3. r \in Group
      BY <2>2 DEF Group, Statuses
  <2>4. r.status = "investigated"
      BY <2>2 DEF Group
  <2> HIDE DEF g, r
  <2>. QED BY <1>1, <2>1, <2>2, <2>3, <2>4, GroupSet DEF Row
<1>9. ASSUME NEW e \in event, NEW g \in Groups, WebhookMatched(e, g) PROVE GroupMoves
  <2>1. e.merged \in BOOLEAN
      BY DEF Sound, Typed, Event
  <2>2. group' = [group EXCEPT ![g] = Followed(group[g], e.merged)]
      BY <1>9 DEF WebhookMatched
  <2>. QED BY <2>1, <2>2, RowFollowed, GroupSet
<1>10. ASSUME NEW e \in event, WebhookRecovered(e) PROVE GroupMoves
  <2>1. pull[e.pr].group \in Groups
      BY DEF Sound, Referred
  <2>2. group' = group \/ group' = [group EXCEPT ![pull[e.pr].group].status = "merged"]
      BY <1>10 DEF WebhookRecovered
  <2>. QED BY <1>1, <1>4, <2>1, <2>2 DEF Statuses
<1>11. ASSUME NEW g \in Groups, TriggerFix(g) PROVE GroupMoves
  <2> DEFINE r == [group[g] EXCEPT !.status = "fixing", !.terminal = 0]
  <2>1. group' = [group EXCEPT ![g] = r]
      BY <1>11 DEF TriggerFix
  <2>2. group[g] \in Group
      OBVIOUS
  <2>3. r \in Group
      BY <2>2 DEF Group, Statuses
  <2>4. r.status = "fixing"
      BY <2>2 DEF Group
  <2> HIDE DEF r
  <2>. QED BY <2>1, <2>3, <2>4, GroupSet DEF Row
<1>12. ASSUME NEW g \in Groups, Archive(g) PROVE GroupMoves
  <2> DEFINE r == [group[g] EXCEPT !.before = group[g].status, !.status = "archived"]
  <2>1. group' = [group EXCEPT ![g] = r] /\ group[g].status # "archived"
      BY <1>12 DEF Archive
  <2>2. group[g] \in Group
      OBVIOUS
  <2>3. group[g].status \in Statuses \ {"archived"} /\ None \notin Statuses
      BY <2>1, <2>2 DEF Group, Statuses, None
  <2>4. r \in Group
      BY <2>2, <2>3 DEF Group, Statuses
  <2>5. r.before = group[g].status
      BY <2>2 DEF Group
  <2> HIDE DEF r
  <2>. QED BY <2>1, <2>3, <2>4, <2>5, GroupSet DEF Row
<1>13. ASSUME NEW g \in Groups, Unarchive(g) PROVE GroupMoves
  <2> DEFINE r == [group[g] EXCEPT !.status = group[g].before, !.before = None]
  <2>1. group' = [group EXCEPT ![g] = r] /\ group[g].status = "archived"
      BY <1>13 DEF Unarchive
  <2>2. group[g] \in Group
      OBVIOUS
  <2>3. group[g].before \in Statuses \ {"archived"}
      BY <2>1, <2>2 DEF Group, Sound, Referred
  <2>4. r \in Group
      BY <2>2, <2>3 DEF Group
  <2>5. r.status = group[g].before
      BY <2>2 DEF Group
  <2> HIDE DEF r
  <2>. QED BY <2>1, <2>3, <2>4, <2>5, GroupSet DEF Row
<1>14. ASSUME NEW g \in Groups, Resolve(g) \/ AutoResolve(g) PROVE GroupMoves
    BY <1>4, <1>14 DEF Resolve, AutoResolve, SetStatus, Statuses
<1>15. ASSUME NEW g \in Groups, CloseEpisode(g) PROVE GroupMoves
  <2> DEFINE r == [group[g] EXCEPT !.open = FALSE]
  <2>1. group' = [group EXCEPT ![g] = r]
      BY <1>15 DEF CloseEpisode
  <2>2. group[g] \in Group
      OBVIOUS
  <2>3. r \in Group
      BY <2>2 DEF Group
  <2>4. r.status = group[g].status /\ r.before = group[g].before
      BY <2>2 DEF Group
  <2> HIDE DEF r
  <2>. QED BY <2>1, <2>3, <2>4, GroupSet DEF Row, Sound, Referred
<1>16. ASSUME NEW w \in Workers,
              \/ Vanish(w) \/ Complete(w) \/ Throw(w)
              \/ StartInvestigation(w) \/ QuotaDenied(w) \/ Exhaust(w)
              \/ StartFix(w) \/ AgentSucceeds(w)
              \/ \E pc \in {"giveup", "incomplete"} : AgentFails(w, pc)
              \/ Caught(w) \/ ReserveNew(w) \/ CapReached(w) \/ ReserveExisting(w)
              \/ ListPulls(w) \/ AdoptPull(w) \/ ReadHead(w)
              \/ \E heard \in BOOLEAN : Push(w, heard) \/ CreatePull(w, heard)
              \/ PushFails(w) \/ RecordPushed(w) \/ FindPull(w) \/ CreateFails(w)
              \/ FinalizeRefused(w) \/ StartWatch(w) \/ CheckHead(w)
              \/ \E state \in CIStates : ReadChecks(w, state)
              \/ Reschedule(w) \/ MarkReady(w)
       PROVE  UNCHANGED group
    BY <1>16 DEF Vanish, Complete, Throw, StartInvestigation, QuotaDenied, Exhaust, StartFix,
         AgentSucceeds, AgentFails, Caught, ReserveNew, CapReached, ReserveExisting, ListPulls,
         AdoptPull, ReadHead, Push, CreatePull, PushFails, RecordPushed, FindPull, CreateFails,
         FinalizeRefused, StartWatch, CheckHead, ReadChecks, Reschedule, MarkReady, WorkOnly
<1>17. CASE \/ \E w \in Workers, j \in DOMAIN job : Claim(w, j)
            \/ \E j \in DOMAIN job : LeaseExpires(j) \/ Reap(j) \/ Rerun(j)
            \/ \E j \in reconcile : ReconcileLost(j)
            \/ \E e \in event : WebhookSeen(e)
            \/ \E g \in Groups : DeleteBranch(g) \/ DeleteFails(g) \/ PersonPushes(g)
            \/ \E n \in DOMAIN pull : ReopenPull(n) \/ \E merged \in BOOLEAN : ClosePull(n, merged)
            \/ UNCHANGED vars
  <2>1. UNCHANGED group
      BY <1>17 DEF Claim, LeaseExpires, Reap, Rerun, ReconcileLost, WebhookSeen, DeleteBranch,
         DeleteFails, PersonPushes, ReopenPull, ClosePull, vars
  <2>. QED BY <1>1, <2>1
<1>. QED
    BY <1>1, <1>2, <1>3, <1>5, <1>6, <1>7, <1>8, <1>9, <1>10, <1>11, <1>12, <1>13, <1>14, <1>15,
       <1>16, <1>17
       DEF Next, QueueStep, InvestigateStep, FixStep, WatchStep, PersonStep, Webhook

\* What a step may do to the executions.
WorkMoves ==
  /\ work' \in [Workers -> Worker]
  /\ \A w \in Workers : Role(w)'

(* An execution that may be where it is. *)
Able(r) ==
  /\ r \in Worker
  /\ r.pc # "idle" => r.job \in 1..Len(job)
  /\ r.pc \in FixPCs => job[r.job].type = "fix"
  /\ r.pc \in {"analyze", "diagnose"} => job[r.job].type = "investigate"
  /\ r.pc \in WatchPCs => job[r.job].type = "ci_watch"
  /\ r.pc \in {"adopt", "finalize"} =>
        r.pr \in 1..Len(pull') /\ pull'[r.pr].group = job[r.job].group

\* What an execution was about to do it may still do after the jobs and the pull requests moved.
LEMMA RoleFollows ==
  ASSUME Sound, JobMoves, PullMoves, NEW w \in Workers, Able(work'[w])
  PROVE  Role(w)'
<1> DEFINE r == work'[w]
<1>1. r.job \in 1..Len(job) =>
        /\ r.job \in 1..Len(job')
        /\ job'[r.job].type = job[r.job].type /\ job'[r.job].group = job[r.job].group
    BY Basics DEF JobMoves, Follows, SameJob
<1>2. r.pc \in FixPCs \cup WatchPCs \cup {"analyze", "diagnose", "adopt", "finalize"} => r.pc # "idle"
    BY DEF FixPCs, WatchPCs
<1>. QED BY <1>1, <1>2 DEF Able, Role, JobOf, GroupOf

\* An execution that did not move.
LEMMA AbleKept ==
  ASSUME Sound, PullMoves, NEW w \in Workers
  PROVE  Able(work[w])
<1>1. work[w] \in Worker /\ (work[w].pc # "idle" => work[w].job \in 1..Len(job))
    BY Basics
<1>2. \A n \in 1..Len(pull) : n \in 1..Len(pull') /\ pull'[n].group = pull[n].group
    BY Basics DEF PullMoves, SamePull
<1>. QED BY <1>1, <1>2 DEF Able, Sound, Role, JobOf, GroupOf

\* A step that moves one execution.
LEMMA WorkSet ==
  ASSUME Sound, JobMoves, PullMoves, NEW w \in Workers, NEW r, Able(r),
         work' = [work EXCEPT ![w] = r]
  PROVE  WorkMoves
<1>1. \A v \in Workers : work'[v] = IF v = w THEN r ELSE work[v]
    BY DEF Sound, Typed
<1>2. \A v \in Workers : Able(work'[v])
    BY <1>1, AbleKept
<1>3. work' \in [Workers -> Worker]
    BY DEF Sound, Typed, Able
<1>. QED BY <1>2, <1>3, RoleFollows DEF WorkMoves

\* A step that moves none.
LEMMA WorkKept == Sound /\ JobMoves /\ PullMoves /\ UNCHANGED work => WorkMoves
<1> SUFFICES ASSUME Sound, JobMoves, PullMoves, UNCHANGED work PROVE WorkMoves
    OBVIOUS
<1>1. \A v \in Workers : Able(work'[v])
    BY AbleKept
<1>. QED BY <1>1, RoleFollows DEF WorkMoves, Sound, Typed

\* An execution that ends.
LEMMA WorkLeft ==
  ASSUME Sound, JobMoves, PullMoves, NEW w \in Workers, Leave(w)
  PROVE  WorkMoves
<1>1. Able(Idle)
    BY DEF Able, Idle, Worker, NoCommit, Commits, FixPCs, WatchPCs
<1>. QED BY <1>1, WorkSet DEF Leave

\* An execution that forgets what it carried and goes to its last write.
LEMMA WorkFinished ==
  ASSUME Sound, JobMoves, PullMoves, NEW w \in Workers, work[w].pc # "idle",
         NEW pc \in {"done", "giveup", "error"}, pc # "done" => JobOf(w).type = "fix",
         Finish(w, pc)
  PROVE  WorkMoves
<1> DEFINE r == [Idle EXCEPT !.pc = pc, !.job = work[w].job]
<1>1. Idle \in Worker /\ work[w].job \in Nat /\ work[w].job \in 1..Len(job)
    BY Basics DEF Idle, Worker, NoCommit, Commits
<1>2. r \in Worker
    BY <1>1 DEF Worker
<1>3. r.pc = pc /\ r.job = work[w].job
    BY <1>1 DEF Worker
<1>4. work' = [work EXCEPT ![w] = r]
    BY DEF Finish
<1> HIDE DEF r
<1>5. Able(r)
    BY <1>1, <1>2, <1>3 DEF Able, FixPCs, WatchPCs, JobOf
<1>. QED BY <1>4, <1>5, WorkSet

\* An execution that goes on with what it carries.
LEMMA WorkGoes ==
  ASSUME Sound, JobMoves, PullMoves, NEW w \in Workers, work[w].pc # "idle",
         NEW pc \in FixPCs \cup WatchPCs \cup {"analyze", "diagnose", "done"}, GoTo(w, pc),
         pc \in FixPCs => JobOf(w).type = "fix",
         pc \in {"analyze", "diagnose"} => JobOf(w).type = "investigate",
         pc \in WatchPCs => JobOf(w).type = "ci_watch",
         pc # "adopt", pc = "finalize" => work[w].pc = "adopt"
  PROVE  WorkMoves
<1> DEFINE r == [work[w] EXCEPT !.pc = pc]
<1>1. work[w] \in Worker /\ work[w].job \in 1..Len(job) /\ Able(work[w])
    BY Basics, AbleKept
<1>2. r \in Worker
    BY <1>1 DEF Worker, FixPCs, WatchPCs
<1>3. r.pc = pc /\ r.job = work[w].job /\ r.pr = work[w].pr
    BY <1>1 DEF Worker
<1>4. work' = [work EXCEPT ![w] = r]
    BY <1>1 DEF GoTo
<1> HIDE DEF r
<1>5. Able(r)
    BY <1>1, <1>2, <1>3 DEF Able, JobOf
<1>. QED BY <1>4, <1>5, WorkSet

\* No step takes an execution to a point that is not of its kind of job, or to adopting or
\* finalizing a pull request that is not of its issue.
LEMMA WorkSteps == Sound /\ [Next]_vars => WorkMoves
<1> SUFFICES ASSUME Sound, [Next]_vars PROVE WorkMoves
    OBVIOUS
<1>0. JobMoves /\ PullMoves
    BY JobSteps, PullSteps
<1> USE <1>0, Basics
<1>1. CASE UNCHANGED work
    BY <1>1, WorkKept
<1>2. ASSUME NEW w \in Workers, NEW j \in DOMAIN job, Claim(w, j) PROVE WorkMoves
  <2> DEFINE r == [Idle EXCEPT !.pc = "start", !.job = j]
  <2>1. Idle \in Worker /\ j \in Nat
      BY DEF Idle, Worker, NoCommit, Commits
  <2>2. r \in Worker
      BY <2>1 DEF Worker
  <2>3. r.pc = "start" /\ r.job = j
      BY <2>1 DEF Worker
  <2>4. work' = [work EXCEPT ![w] = r]
      BY <1>2 DEF Claim
  <2> HIDE DEF r
  <2>5. Able(r)
      BY <2>2, <2>3 DEF Able, FixPCs, WatchPCs
  <2>. QED BY <2>4, <2>5, WorkSet
<1>3. ASSUME NEW w \in Workers,
             Complete(w) \/ Vanish(w) \/ Throw(w) \/ Exhaust(w) \/ Restore(w) \/ Reschedule(w)
      PROVE  WorkMoves
    BY <1>3, WorkLeft DEF Complete, Vanish, Throw, Exhaust, Restore, Reschedule
<1>4. ASSUME NEW w \in Workers,
             \/ QuotaDenied(w) \/ CreateFix(w) \/ Finalize(w) \/ GiveUp(w) \/ HandleError(w)
             \/ \E status \in {"needs_human", "insight"} : Diagnose(w, status)
             \/ Promote(w)
      PROVE  WorkMoves
  <2>1. work[w].pc # "idle" /\ Finish(w, "done")
      BY <1>4 DEF QuotaDenied, CreateFix, Finalize, GiveUp, HandleError, Diagnose, Promote
  <2>. QED BY <2>1, WorkFinished
<1>5. ASSUME NEW w \in Workers,
             Caught(w) \/ CapReached(w) \/ PushFails(w) \/ CreateFails(w) \/ FinalizeRefused(w)
      PROVE  WorkMoves
  <2>1. work[w].pc \in FixPCs /\ work[w].pc # "idle" /\ (Finish(w, "error") \/ Finish(w, "giveup"))
      BY <1>5 DEF Caught, CapReached, PushFails, CreateFails, FinalizeRefused, FixPCs
  <2>2. JobOf(w).type = "fix"
      BY <2>1 DEF Sound, Role
  <2>. QED BY <2>1, <2>2, WorkFinished
<1>6. ASSUME NEW w \in Workers, StartInvestigation(w) \/ Analyze(w) PROVE WorkMoves
  <2>1. work[w].pc # "idle" /\ JobOf(w).type = "investigate"
      BY <1>6 DEF StartInvestigation, Analyze, At, Sound, Role
  <2>2. GoTo(w, "analyze") \/ GoTo(w, "diagnose") \/ GoTo(w, "done")
      BY <1>6 DEF StartInvestigation, Analyze
  <2>. QED BY <2>1, <2>2, WorkGoes DEF FixPCs, WatchPCs
<1>7. ASSUME NEW w \in Workers,
             \/ StartFix(w) \/ ReserveNew(w)
             \/ \E pc \in {"giveup", "incomplete"} : AgentFails(w, pc)
             \/ RecordPushed(w)
      PROVE  WorkMoves
  <2>1. work[w].pc # "idle" /\ JobOf(w).type = "fix"
      BY <1>7 DEF StartFix, ReserveNew, AgentFails, RecordPushed, At, Sound, Role, FixPCs
  <2>2. \E pc \in {"done", "agent", "list", "giveup", "incomplete", "create"} : GoTo(w, pc)
      BY <1>7 DEF StartFix, ReserveNew, AgentFails, RecordPushed
  <2>. QED BY <2>1, <2>2, WorkGoes DEF FixPCs, WatchPCs
<1>8. ASSUME NEW w \in Workers, AdoptPull(w) PROVE WorkMoves
  <2>1. work[w].pc = "adopt" /\ JobOf(w).type = "fix" /\ GoTo(w, "finalize")
      BY <1>8 DEF AdoptPull, Sound, Role, FixPCs
  <2>. QED BY <2>1, WorkGoes DEF FixPCs, WatchPCs
<1>9. ASSUME NEW w \in Workers,
             \/ CheckHead(w) \/ MarkReady(w)
             \/ \E state \in CIStates : ReadChecks(w, state)
      PROVE  WorkMoves
  <2>1. work[w].pc # "idle" /\ JobOf(w).type = "ci_watch"
      BY <1>9 DEF CheckHead, MarkReady, ReadChecks, Sound, Role, WatchPCs
  <2>2. Finish(w, "done") \/ GoTo(w, "checks") \/ GoTo(w, "green") \/ GoTo(w, "promote")
      BY <1>9 DEF CheckHead, MarkReady, ReadChecks
  <2>. QED BY <2>1, <2>2, WorkFinished, WorkGoes DEF FixPCs, WatchPCs
<1>10. ASSUME NEW w \in Workers, AgentSucceeds(w) PROVE WorkMoves
  <2>0. PICK posture \in Postures(w) :
          work' = [work EXCEPT ![w] = [work[w] EXCEPT !.pc = "reserve", !.posture = posture,
                     !.patch = [job |-> work[w].job, run |-> JobOf(w).attempts]]]
      BY <1>10 DEF AgentSucceeds
  <2> DEFINE c == [job |-> work[w].job, run |-> JobOf(w).attempts]
             r == [work[w] EXCEPT !.pc = "reserve", !.posture = posture, !.patch = c]
  <2>1. work[w].pc = "agent" /\ JobOf(w).type = "fix" /\ work[w].job \in 1..Len(job)
      BY <1>10 DEF AgentSucceeds, Sound, Role, FixPCs
  <2>2. c \in Commits /\ posture \in {"draft", "ready"} /\ work[w] \in Worker
      BY <2>1, Constants DEF Commits, Postures, Job, JobOf
  <2> HIDE DEF c
  <2>3. r \in Worker
      BY <2>2 DEF Worker
  <2>4. r.pc = "reserve" /\ r.job = work[w].job
      BY <2>2 DEF Worker
  <2>5. work' = [work EXCEPT ![w] = r]
      BY <2>0 DEF c
  <2> HIDE DEF r
  <2>6. Able(r)
      BY <2>1, <2>3, <2>4 DEF Able, WatchPCs, JobOf
  <2>. QED BY <2>5, <2>6, WorkSet
<1>11. ASSUME NEW w \in Workers, work[w].pc # "idle", JobOf(w).type = "fix", NEW pc \in FixPCs,
              NEW r \in Worker, r.pc = pc, r.job = work[w].job,
              pc \in {"adopt", "finalize"} => r.pr \in 1..Len(pull) /\ pull[r.pr].group = GroupOf(w),
              work' = [work EXCEPT ![w] = r]
       PROVE  WorkMoves
  <2>1. work[w].job \in 1..Len(job)
      BY <1>11
  <2>2. r.pr \in 1..Len(pull) => r.pr \in 1..Len(pull') /\ pull'[r.pr].group = pull[r.pr].group
      BY <1>0 DEF PullMoves, SamePull
  <2>3. Able(r)
      BY <1>11, <2>1, <2>2 DEF Able, FixPCs, WatchPCs, JobOf, GroupOf
  <2>. QED BY <1>11, <2>3, WorkSet
<1>12. ASSUME NEW w \in Workers, ReserveExisting(w) PROVE WorkMoves
  <2> DEFINE row == reserved[GroupOf(w)]
  <2>1. work[w].pc = "reserve" /\ work' = [work EXCEPT ![w] = Resume(w, row)]
      BY <1>12 DEF ReserveExisting
  <2>2. JobOf(w).type = "fix" /\ GroupOf(w) \in Groups /\ work[w] \in Worker /\ row \in Reservation
      BY <2>1 DEF Sound, Role, FixPCs
  <2>3. CASE row.state = "open"
    <3> DEFINE r == [work[w] EXCEPT !.pc = "finalize", !.posture = row.posture, !.patch = row.patch,
                                    !.head = row.head, !.pr = row.pr]
    <3>1. row.pr \in 1..Len(pull) /\ pull[row.pr].group = GroupOf(w)
        BY <2>2, <2>3 DEF Sound, Referred
    <3>2. row.posture \in {"draft", "ready"} /\ row.patch \in Commits /\ row.head \in Commits
          /\ row.pr \in Nat
        BY <2>2 DEF Reservation
    <3> HIDE DEF row
    <3>3. r \in Worker
        BY <2>2, <3>2 DEF Worker
    <3>4. r.pc = "finalize" /\ r.job = work[w].job /\ r.pr = row.pr
        BY <2>2 DEF Worker
    <3>5. work' = [work EXCEPT ![w] = r]
        BY <2>1, <2>3 DEF Resume, row
    <3> HIDE DEF r
    <3>. QED BY <1>11, <2>1, <2>2, <3>1, <3>3, <3>4, <3>5 DEF FixPCs
  <2>4. CASE row.state # "open"
    <3> DEFINE p == IF JobOf(w).by = "auto" THEN "draft" ELSE row.posture
               r == [work[w] EXCEPT !.pc = "list", !.patch = row.patch, !.posture = p]
    <3>2. row.posture \in {"draft", "ready"} /\ row.patch \in Commits
        BY <2>2 DEF Reservation
    <3> HIDE DEF row
    <3>3. p \in {"draft", "ready"}
        BY <3>2
    <3>5. work' = [work EXCEPT ![w] = r]
        BY <2>1, <2>4 DEF Resume, row
    <3> HIDE DEF p
    <3>4. r \in Worker
        BY <2>2, <3>2, <3>3 DEF Worker
    <3>6. r.pc = "list" /\ r.job = work[w].job
        BY <2>2 DEF Worker
    <3> HIDE DEF r
    <3>. QED BY <1>11, <2>1, <2>2, <3>4, <3>5, <3>6 DEF FixPCs
  <2>. QED BY <2>3, <2>4
<1>13. ASSUME NEW w \in Workers, ListPulls(w) PROVE WorkMoves
  <2>1. work[w].pc = "list" /\ JobOf(w).type = "fix" /\ work[w] \in Worker
      BY <1>13 DEF ListPulls, Sound, Role, FixPCs
  <2>2. CASE GoTo(w, "head")
      BY <2>1, <2>2, WorkGoes DEF FixPCs, WatchPCs
  <2>3. ASSUME NEW n \in OpenPulls(GroupOf(w)),
               work' = [work EXCEPT ![w] = [work[w] EXCEPT !.pc = "adopt", !.pr = n, !.head = pull[n].head]]
        PROVE  WorkMoves
    <3> DEFINE h == pull[n].head
               r == [work[w] EXCEPT !.pc = "adopt", !.pr = n, !.head = h]
    <3>1. n \in 1..Len(pull) /\ n \in Nat /\ pull[n].group = GroupOf(w) /\ h \in Commits
        BY DEF OpenPulls, Pull
    <3> HIDE DEF h
    <3>2. r \in Worker
        BY <2>1, <3>1 DEF Worker
    <3>3. r.pc = "adopt" /\ r.job = work[w].job /\ r.pr = n
        BY <2>1 DEF Worker
    <3>4. work' = [work EXCEPT ![w] = r]
        BY <2>3 DEF h
    <3> HIDE DEF r
    <3>. QED BY <1>11, <2>1, <3>1, <3>2, <3>3, <3>4 DEF FixPCs
  <2>. QED BY <1>13, <2>2, <2>3 DEF ListPulls
<1>14. ASSUME NEW w \in Workers, ReadHead(w) PROVE WorkMoves
  <2> DEFINE h == branch[GroupOf(w)]
             p == IF h = NoCommit THEN "push" ELSE "pushed"
             r == [work[w] EXCEPT !.head = h, !.pc = p]
  <2>1. work[w].pc = "head" /\ JobOf(w).type = "fix" /\ work[w] \in Worker /\ GroupOf(w) \in Groups
      BY <1>14 DEF ReadHead, Sound, Role, FixPCs
  <2>2. h \in Commits /\ p \in {"push", "pushed"}
      BY <2>1 DEF Sound, Typed
  <2>3. work' = [work EXCEPT ![w] = r]
      BY <1>14 DEF ReadHead
  <2> HIDE DEF h, p
  <2>4. r \in Worker
      BY <2>1, <2>2 DEF Worker
  <2>5. r.pc = p /\ r.job = work[w].job
      BY <2>1 DEF Worker
  <2> HIDE DEF r
  <2>. QED BY <1>11, <2>1, <2>2, <2>3, <2>4, <2>5 DEF FixPCs
<1>15. ASSUME NEW w \in Workers, NEW heard \in BOOLEAN, Push(w, heard) PROVE WorkMoves
  <2>1. work[w].pc = "push" /\ JobOf(w).type = "fix" /\ work[w] \in Worker
      BY <1>15 DEF Push, Sound, Role, FixPCs
  <2>2. CASE Finish(w, "giveup")
      BY <2>1, <2>2, WorkFinished
  <2>3. CASE ~Finish(w, "giveup")
    <3> DEFINE r == [work[w] EXCEPT !.pc = "pushed", !.head = work[w].patch]
    <3>1. work' = [work EXCEPT ![w] = r]
        BY <1>15, <2>3 DEF Push
    <3>2. r \in Worker
        BY <2>1 DEF Worker
    <3>3. r.pc = "pushed" /\ r.job = work[w].job
        BY <2>1 DEF Worker
    <3> HIDE DEF r
    <3>. QED BY <1>11, <2>1, <3>1, <3>2, <3>3 DEF FixPCs
  <2>. QED BY <2>2, <2>3
<1>16. ASSUME NEW w \in Workers, NEW heard \in BOOLEAN, CreatePull(w, heard) PROVE WorkMoves
  <2>1. work[w].pc = "create" /\ JobOf(w).type = "fix" /\ work[w] \in Worker
      BY <1>16 DEF CreatePull, Sound, Role, FixPCs
  <2>2. CASE Finish(w, "giveup")
      BY <2>1, <2>2, WorkFinished
  <2>3. CASE ~Finish(w, "giveup")
    <3> DEFINE n == Len(pull) + 1
               r == [work[w] EXCEPT !.pc = "finalize", !.pr = n]
    <3>1. work' = [work EXCEPT ![w] = r]
        BY <1>16, <2>3 DEF CreatePull
    <3>2. n \in Nat /\ n \in 1..Len(pull') /\ pull'[n].group = GroupOf(w)
        BY <1>16, PullOpened
    <3> HIDE DEF n
    <3>3. r \in Worker
        BY <2>1, <3>2 DEF Worker
    <3>4. r.pc = "finalize" /\ r.job = work[w].job /\ r.pr = n
        BY <2>1 DEF Worker
    <3> HIDE DEF r
    <3>5. Able(r)
        BY <2>1, <3>2, <3>3, <3>4 DEF Able, WatchPCs, JobOf, GroupOf
    <3>. QED BY <3>1, <3>5, WorkSet
  <2>. QED BY <2>2, <2>3
<1>17. ASSUME NEW w \in Workers, FindPull(w) PROVE WorkMoves
  <2>1. work[w].pc = "create" /\ JobOf(w).type = "fix" /\ work[w] \in Worker
      BY <1>17 DEF FindPull, Sound, Role, FixPCs
  <2>2. PICK n \in OpenPulls(GroupOf(w)) :
          work' = [work EXCEPT ![w] = [work[w] EXCEPT !.pc = "finalize", !.pr = n]]
      BY <1>17 DEF FindPull
  <2> DEFINE r == [work[w] EXCEPT !.pc = "finalize", !.pr = n]
  <2>3. n \in 1..Len(pull) /\ n \in Nat /\ pull[n].group = GroupOf(w)
      BY DEF OpenPulls
  <2>4. r \in Worker
      BY <2>1, <2>3 DEF Worker
  <2>5. r.pc = "finalize" /\ r.job = work[w].job /\ r.pr = n
      BY <2>1 DEF Worker
  <2>6. work' = [work EXCEPT ![w] = r]
      BY <2>2
  <2> HIDE DEF r
  <2>. QED BY <1>11, <2>1, <2>3, <2>4, <2>5, <2>6 DEF FixPCs
<1>18. ASSUME NEW w \in Workers, StartWatch(w) PROVE WorkMoves
  <2>1. work[w].pc = "start" /\ JobOf(w).type = "ci_watch" /\ work[w] \in Worker
        /\ work[w].job \in 1..Len(job)
      BY <1>18 DEF StartWatch, At
  <2>2. CASE Finish(w, "done")
      BY <2>1, <2>2, WorkFinished
  <2>3. CASE ~Finish(w, "done")
    <3>1. PICK p \in {"draft", "ready"} :
             work' = [work EXCEPT ![w] = [work[w] EXCEPT !.pc = "pull", !.posture = p]]
        BY <1>18, <2>3 DEF StartWatch
    <3> DEFINE r == [work[w] EXCEPT !.pc = "pull", !.posture = p]
    <3>2. r \in Worker
        BY <2>1 DEF Worker
    <3>3. r.pc = "pull" /\ r.job = work[w].job
        BY <2>1 DEF Worker
    <3>4. work' = [work EXCEPT ![w] = r]
        BY <3>1
    <3> HIDE DEF r
    <3>5. Able(r)
        BY <2>1, <3>2, <3>3 DEF Able, FixPCs, JobOf
    <3>. QED BY <3>4, <3>5, WorkSet
  <2>. QED BY <2>2, <2>3
<1>19. CASE \/ \E j \in DOMAIN job : LeaseExpires(j) \/ Reap(j) \/ Rerun(j)
            \/ \E j \in reconcile : Reconcile(j) \/ ReconcileLost(j)
            \/ \E e \in event : Webhook(e)
            \/ \E g \in Groups : \/ DeleteBranch(g) \/ DeleteFails(g) \/ AutoResolve(g)
                                 \/ CloseEpisode(g)
            \/ PersonStep
            \/ UNCHANGED vars
  <2>1. UNCHANGED work
      BY <1>19 DEF LeaseExpires, Reap, Rerun, Reconcile, ReconcileLost, Webhook, WebhookSeen,
         WebhookMatched, WebhookRecovered, DeleteBranch, DeleteFails, AutoResolve, CloseEpisode,
         PersonStep, TriggerFix, Resolve, Archive, Unarchive, PersonPushes, ReopenPull, ClosePull,
         vars
  <2>. QED BY <1>1, <2>1
<1>. QED
    BY <1>2, <1>3, <1>4, <1>5, <1>6, <1>7, <1>8, <1>9, <1>10, <1>12, <1>13, <1>14, <1>15, <1>16,
       <1>17, <1>18, <1>19
       DEF Next, QueueStep, InvestigateStep, FixStep, WatchStep

\* What a step may do to the reservations: a row never goes back to none, its patch and its
\* posture stay, an open one is open on a pull request of its issue, and one closes only
\* with an outcome recorded.
Keeps(q, r, g) ==
  /\ q \in Reservation
  /\ q.state = None => r.state = None
  /\ r.state # None => q.patch = r.patch /\ q.posture = r.posture
  /\ q.state = "open" => q.pr \in 1..Len(pull) /\ pull[q.pr].group = g
  /\ q.state = "closed" => r.state = "closed" \/ receipt' # {}

\* The same for the whole table.
ReservedMoves ==
  /\ reserved' \in [Groups -> Reservation]
  /\ \A g \in Groups : Keeps(reserved'[g], reserved[g], g)

\* A step that writes one reservation.
LEMMA ReservedSet ==
  ASSUME Sound, NEW g \in Groups, NEW r, Keeps(r, reserved[g], g),
         reserved' = [reserved EXCEPT ![g] = r]
  PROVE  ReservedMoves
<1>1. \A h \in Groups : Keeps(reserved[h], reserved[h], h)
    BY DEF Sound, Typed, Referred, Keeps
<1>2. \A h \in Groups : reserved'[h] = IF h = g THEN r ELSE reserved[h]
    BY DEF Sound, Typed
<1>3. r \in Reservation
    BY DEF Keeps
<1>. QED BY <1>1, <1>2, <1>3 DEF ReservedMoves, Sound, Typed

\* No step does more to the reservations than that.
LEMMA ReservedSteps == Sound /\ [Next]_vars => ReservedMoves
<1> SUFFICES ASSUME Sound, [Next]_vars PROVE ReservedMoves
    OBVIOUS
<1> USE Basics
<1>1. CASE UNCHANGED reserved
    BY <1>1 DEF ReservedMoves, Keeps, Sound, Typed, Referred
<1>2. ASSUME NEW w \in Workers, ReserveNew(w) PROVE ReservedMoves
  <2> DEFINE g == GroupOf(w)
             r == [NoReservation EXCEPT !.state = "reserved", !.posture = work[w].posture,
                                        !.patch = work[w].patch]
  <2>1. g \in Groups /\ work[w] \in Worker /\ reserved[g].state = None
        /\ reserved' = [reserved EXCEPT ![g] = r]
      BY <1>2 DEF ReserveNew
  <2>2. work[w].posture \in {"draft", "ready"} /\ work[w].patch \in Commits
      BY <2>1 DEF Worker
  <2>3. NoReservation \in Reservation
      BY DEF NoReservation, Reservation, NoCommit, Commits
  <2>4. r \in Reservation
      BY <2>2, <2>3 DEF Reservation
  <2>5. r.state = "reserved"
      BY <2>3 DEF Reservation
  <2> HIDE DEF g, r
  <2>6. Keeps(r, reserved[g], g)
      BY <2>1, <2>4, <2>5 DEF Keeps, None
  <2>. QED BY <2>1, <2>6, ReservedSet
<1>3. ASSUME NEW w \in Workers, AdoptPull(w) \/ RecordPushed(w) PROVE ReservedMoves
  <2> DEFINE g == GroupOf(w)
             r == Pushed(reserved[g], work[w].head)
  <2>1. work[w].pc # "idle" /\ reserved' = [reserved EXCEPT ![g] = r]
      BY <1>3 DEF AdoptPull, RecordPushed
  <2>2. g \in Groups /\ work[w].head \in Commits /\ reserved[g] \in Reservation
      BY <2>1 DEF Worker
  <2>3. r \in Reservation
      BY <2>2 DEF Pushed, Reservation
  <2>4. r.state = "pushed" /\ r.patch = reserved[g].patch /\ r.posture = reserved[g].posture
      BY <2>2 DEF Pushed, Reservation
  <2> HIDE DEF g, r
  <2>5. Keeps(r, reserved[g], g)
      BY <2>3, <2>4 DEF Keeps, None
  <2>. QED BY <2>1, <2>2, <2>5, ReservedSet
<1>4. ASSUME NEW w \in Workers, Finalize(w) PROVE ReservedMoves
  <2> DEFINE g == GroupOf(w)
             r == [reserved[g] EXCEPT !.state = "open", !.head = work[w].head, !.pr = work[w].pr]
  <2>1. work[w].pc = "finalize" /\ reserved' = [reserved EXCEPT ![g] = r]
      BY <1>4 DEF Finalize
  <2>2. g \in Groups /\ work[w].head \in Commits /\ work[w].pr \in Nat /\ reserved[g] \in Reservation
      BY <2>1 DEF Worker
  <2>3. work[w].pr \in 1..Len(pull) /\ pull[work[w].pr].group = g
      BY <2>1 DEF Sound, Role
  <2>4. r \in Reservation
      BY <2>2 DEF Reservation
  <2>5. r.state = "open" /\ r.patch = reserved[g].patch /\ r.posture = reserved[g].posture
        /\ r.pr = work[w].pr
      BY <2>2 DEF Reservation
  <2> HIDE DEF g, r
  <2>6. Keeps(r, reserved[g], g)
      BY <2>3, <2>4, <2>5 DEF Keeps, None
  <2>. QED BY <2>1, <2>2, <2>6, ReservedSet
<1>5. ASSUME NEW e \in event, NEW g \in Groups, WebhookMatched(e, g) PROVE ReservedMoves
  <2> DEFINE r == [reserved[g] EXCEPT !.state = "closed"]
  <2>1. receipt' # {} /\ reserved' = [reserved EXCEPT ![g] = r]
      BY <1>5 DEF WebhookMatched
  <2>2. r \in Reservation
      BY DEF Reservation
  <2>3. r.state = "closed" /\ r.patch = reserved[g].patch /\ r.posture = reserved[g].posture
      BY DEF Reservation
  <2> HIDE DEF r
  <2>4. Keeps(r, reserved[g], g)
      BY <2>1, <2>2, <2>3 DEF Keeps, None
  <2>. QED BY <2>1, <2>4, ReservedSet
<1>6. ASSUME NEW w \in Workers,
             \/ Vanish(w) \/ Complete(w) \/ Throw(w)
             \/ StartInvestigation(w) \/ QuotaDenied(w) \/ Analyze(w)
             \/ \E status \in {"needs_human", "insight"} : Diagnose(w, status)
             \/ CreateFix(w) \/ Exhaust(w)
             \/ StartFix(w) \/ AgentSucceeds(w)
             \/ \E pc \in {"giveup", "incomplete"} : AgentFails(w, pc)
             \/ Caught(w) \/ CapReached(w) \/ ReserveExisting(w)
             \/ ListPulls(w) \/ ReadHead(w)
             \/ \E heard \in BOOLEAN : Push(w, heard) \/ CreatePull(w, heard)
             \/ PushFails(w) \/ FindPull(w) \/ CreateFails(w)
             \/ FinalizeRefused(w) \/ GiveUp(w) \/ HandleError(w) \/ Restore(w)
             \/ StartWatch(w) \/ CheckHead(w)
             \/ \E state \in CIStates : ReadChecks(w, state)
             \/ Reschedule(w) \/ MarkReady(w) \/ Promote(w)
      PROVE  UNCHANGED reserved
    BY <1>6 DEF Vanish, Complete, Throw, StartInvestigation, QuotaDenied, Analyze, Diagnose,
         CreateFix, Exhaust, StartFix, AgentSucceeds, AgentFails, Caught, CapReached,
         ReserveExisting, ListPulls, ReadHead, Push, CreatePull, PushFails, FindPull, CreateFails,
         FinalizeRefused, GiveUp, HandleError, Restore, StartWatch, CheckHead, ReadChecks,
         Reschedule, MarkReady, Promote, WorkOnly
<1>7. CASE \/ \E w \in Workers, j \in DOMAIN job : Claim(w, j)
           \/ \E j \in DOMAIN job : LeaseExpires(j) \/ Reap(j) \/ Rerun(j)
           \/ \E j \in reconcile : Reconcile(j) \/ ReconcileLost(j)
           \/ \E e \in event : WebhookSeen(e) \/ WebhookRecovered(e)
           \/ \E g \in Groups : \/ DeleteBranch(g) \/ DeleteFails(g) \/ AutoResolve(g)
                                \/ CloseEpisode(g)
           \/ PersonStep
           \/ UNCHANGED vars
  <2>1. UNCHANGED reserved
      BY <1>7 DEF Claim, LeaseExpires, Reap, Rerun, Reconcile, ReconcileLost, WebhookSeen,
         WebhookRecovered, DeleteBranch, DeleteFails, AutoResolve, CloseEpisode,
         PersonStep, TriggerFix, Resolve, Archive, Unarchive, PersonPushes, ReopenPull, ClosePull,
         vars
  <2>. QED BY <1>1, <2>1
<1>. QED
    BY <1>1, <1>2, <1>3, <1>4, <1>5, <1>6, <1>7
       DEF Next, QueueStep, InvestigateStep, FixStep, WatchStep, Webhook

\* What a step may do to the deliveries: a merge is announced of what is merged, ...
EventMoves ==
  \A e \in event' : \/ e \in event
                    \/ /\ e \in Event /\ e.pr \in 1..Len(pull)
                       /\ e.merged => pull'[e.pr].state = "merged"

\* ... and to the branches: a push brings what its execution carries, and a person pushes
\* only to a branch that exists.
BranchMoves ==
  /\ branch' \in [Groups -> Commits]
  /\ \A g \in Groups : \/ branch'[g] \in {branch[g], NoCommit}
                       \/ branch'[g] = Person /\ branch[g] # NoCommit
                       \/ \E w \in Workers : /\ work[w].pc = "push" /\ GroupOf(w) = g
                                             /\ branch'[g] = work[w].patch

\* A close or a merge on GitHub is announced as what it is.
LEMMA EventClosed ==
  ASSUME Sound, NEW n \in 1..Len(pull), NEW merged \in BOOLEAN, pull[n].state # "merged",
         Closed(n, merged)
  PROVE  EventMoves
<1> DEFINE e == [pr |-> n, merged |-> merged, nth |-> pull[n].closes]
<1>1. event' = event \cup {e} /\ pull[n].closes \in Nat /\ n \in Nat
    BY Basics DEF Closed, Pull
<1>2. e \in Event /\ e.pr = n /\ e.merged = merged
    BY <1>1 DEF Event
<1>3. merged => pull'[n].state = "merged"
    BY PullClosed
<1> HIDE DEF e
<1>. QED BY <1>1, <1>2, <1>3 DEF EventMoves

\* No step does more to GitHub's events and branches than that.
LEMMA GitHubSteps == Sound /\ [Next]_vars => EventMoves /\ BranchMoves
<1> SUFFICES ASSUME Sound, [Next]_vars PROVE EventMoves /\ BranchMoves
    OBVIOUS
<1> USE Basics
<1>1. UNCHANGED event => EventMoves
    BY DEF EventMoves
<1>2. UNCHANGED branch => BranchMoves
    BY DEF BranchMoves, Sound, Typed
<1>3. ASSUME NEW g \in Groups, DeleteBranch(g) PROVE EventMoves /\ BranchMoves
  <2>1. EventMoves
      BY <1>1, <1>3, EventClosed DEF DeleteBranch, OpenPulls
  <2>2. BranchMoves
      BY <1>3 DEF DeleteBranch, BranchMoves, Sound, Typed, NoCommit, Commits
  <2>. QED BY <2>1, <2>2
<1>4. ASSUME NEW n \in DOMAIN pull, NEW merged \in BOOLEAN, ClosePull(n, merged)
      PROVE  EventMoves /\ BranchMoves
    BY <1>2, <1>4, EventClosed DEF ClosePull
<1>5. ASSUME NEW g \in Groups, PersonPushes(g) PROVE EventMoves /\ BranchMoves
    BY <1>1, <1>5 DEF PersonPushes, BranchMoves, Sound, Typed, Person, Commits
<1>6. ASSUME NEW w \in Workers, NEW heard \in BOOLEAN, Push(w, heard) PROVE EventMoves /\ BranchMoves
  <2>1. work[w].pc = "push" /\ branch' = [branch EXCEPT ![GroupOf(w)] = work[w].patch]
        /\ UNCHANGED event
      BY <1>6 DEF Push
  <2>2. work[w].patch \in Commits /\ GroupOf(w) \in Groups
      BY <2>1 DEF Worker
  <2>. QED BY <1>1, <2>1, <2>2 DEF BranchMoves, Sound, Typed
<1>7. ASSUME NEW w \in Workers,
             \/ Vanish(w) \/ Complete(w) \/ Throw(w)
             \/ StartInvestigation(w) \/ QuotaDenied(w) \/ Analyze(w)
             \/ \E status \in {"needs_human", "insight"} : Diagnose(w, status)
             \/ CreateFix(w) \/ Exhaust(w)
             \/ StartFix(w) \/ AgentSucceeds(w)
             \/ \E pc \in {"giveup", "incomplete"} : AgentFails(w, pc)
             \/ Caught(w) \/ ReserveNew(w) \/ CapReached(w) \/ ReserveExisting(w)
             \/ ListPulls(w) \/ AdoptPull(w) \/ ReadHead(w)
             \/ \E heard \in BOOLEAN : CreatePull(w, heard)
             \/ PushFails(w) \/ RecordPushed(w) \/ FindPull(w) \/ CreateFails(w)
             \/ Finalize(w) \/ FinalizeRefused(w) \/ GiveUp(w) \/ HandleError(w) \/ Restore(w)
             \/ StartWatch(w) \/ CheckHead(w)
             \/ \E state \in CIStates : ReadChecks(w, state)
             \/ Reschedule(w) \/ MarkReady(w) \/ Promote(w)
      PROVE  UNCHANGED <<event, branch>>
    BY <1>7 DEF Vanish, Complete, Throw, StartInvestigation, QuotaDenied, Analyze, Diagnose,
         CreateFix, Exhaust, StartFix, AgentSucceeds, AgentFails, Caught, ReserveNew, CapReached,
         ReserveExisting, ListPulls, AdoptPull, ReadHead, CreatePull, PushFails, RecordPushed,
         FindPull, CreateFails, Finalize,
         FinalizeRefused, GiveUp, HandleError, Restore, StartWatch, CheckHead, ReadChecks,
         Reschedule, MarkReady, Promote, WorkOnly, github
<1>8. CASE \/ \E w \in Workers, j \in DOMAIN job : Claim(w, j)
           \/ \E j \in DOMAIN job : LeaseExpires(j) \/ Reap(j) \/ Rerun(j)
           \/ \E j \in reconcile : Reconcile(j) \/ ReconcileLost(j)
           \/ \E e \in event : Webhook(e)
           \/ \E g \in Groups : \/ DeleteFails(g) \/ AutoResolve(g) \/ CloseEpisode(g)
                                \/ TriggerFix(g) \/ Resolve(g) \/ Archive(g) \/ Unarchive(g)
           \/ \E n \in DOMAIN pull : ReopenPull(n)
           \/ UNCHANGED vars
  <2>1. UNCHANGED <<event, branch>>
      BY <1>8 DEF Claim, LeaseExpires, Reap, Rerun, Reconcile, ReconcileLost, Webhook, WebhookSeen,
         WebhookMatched, WebhookRecovered, DeleteFails, AutoResolve, CloseEpisode,
         TriggerFix, Resolve, Archive, Unarchive, ReopenPull, github, vars
  <2>. QED BY <1>1, <1>2, <2>1
<1>. QED
    BY <1>1, <1>2, <1>3, <1>4, <1>5, <1>6, <1>7, <1>8
       DEF Next, QueueStep, InvestigateStep, FixStep, WatchStep, PersonStep

(* What a step may do to the receipts, the cleanups, the reconciliations and the acts. *)
LedgerMoves ==
  /\ receipt \subseteq receipt' /\ receipt' \subseteq event'
  /\ cleanup' \subseteq Groups
  /\ \A j \in reconcile' : \/ j \in reconcile
                           \/ /\ j \in 1..Len(job) /\ job[j].type = "fix"
                              /\ job'[j].status = "dead_letter"
  /\ acts' \in 0..MaxActs

\* No step forgets a receipt, records one of a delivery that was never sent, or reconciles
\* what is not a dead fix.
LEMMA LedgerSteps == Sound /\ [Next]_vars => LedgerMoves
<1> SUFFICES ASSUME Sound, [Next]_vars PROVE LedgerMoves
    OBVIOUS
<1> USE Basics
<1>1. /\ receipt \subseteq event /\ cleanup \subseteq Groups /\ acts \in 0..MaxActs
      /\ acts \in Nat /\ MaxActs \in Nat
    BY Constants DEF Sound, Typed
<1>2. ASSUME NEW j \in DOMAIN job, Reap(j) PROVE LedgerMoves
  <2>1. UNCHANGED <<event, receipt, cleanup, acts>> /\ job' = [job EXCEPT ![j] = Charged(job[j])]
      BY <1>2 DEF Reap, github, ledger
  <2>2. CASE reconcile' = reconcile
      BY <1>1, <2>1, <2>2 DEF LedgerMoves
  <2>3. CASE reconcile' # reconcile
    <3>1. reconcile' = reconcile \cup {j} /\ job[j].type = "fix"
          /\ Charged(job[j]).status = "dead_letter"
        BY <1>2, <2>3 DEF Reap
    <3>2. job'[j] = Charged(job[j])
        BY <2>1
    <3>. QED BY <1>1, <2>1, <3>1, <3>2 DEF LedgerMoves
  <2>. QED BY <2>2, <2>3
<1>3. ASSUME NEW j \in reconcile, Reconcile(j) \/ ReconcileLost(j) PROVE LedgerMoves
  <2>1. UNCHANGED <<event, receipt, cleanup, acts>> /\ reconcile' \subseteq reconcile
      BY <1>3 DEF Reconcile, ReconcileLost, github, ledger
  <2>. QED BY <1>1, <2>1 DEF LedgerMoves
<1>4. ASSUME NEW e \in event, Webhook(e) PROVE LedgerMoves
  <2>1. UNCHANGED <<event, reconcile, acts>> /\ receipt \subseteq receipt' /\ receipt' \subseteq receipt \cup {e}
        /\ cleanup' \subseteq Groups
      BY <1>1, <1>4 DEF Webhook, WebhookSeen, WebhookMatched, WebhookRecovered, github, Sound, Referred
  <2>. QED BY <1>1, <2>1 DEF LedgerMoves
<1>5. ASSUME NEW g \in Groups, DeleteBranch(g) \/ DeleteFails(g) PROVE LedgerMoves
  <2>1. UNCHANGED <<receipt, reconcile, acts>> /\ cleanup' \subseteq cleanup /\ event \subseteq event'
      BY <1>5 DEF DeleteBranch, DeleteFails, github, Closed
  <2>. QED BY <1>1, <2>1 DEF LedgerMoves
<1>6. ASSUME PersonStep PROVE LedgerMoves
  <2>1. acts' = acts + 1 /\ acts < MaxActs /\ UNCHANGED <<receipt, cleanup, reconcile>>
        /\ event \subseteq event'
      BY <1>6 DEF PersonStep, TriggerFix, Resolve, Archive, Unarchive, PersonPushes, ReopenPull,
         ClosePull, Closed, Act, github, ledger
  <2>. QED BY <1>1, <2>1 DEF LedgerMoves
<1>7. ASSUME NEW w \in Workers, InvestigateStep(w) \/ WatchStep(w)
      PROVE  UNCHANGED <<event, receipt, cleanup, reconcile, acts>>
    BY <1>7 DEF InvestigateStep, WatchStep, StartInvestigation, QuotaDenied, Analyze, Diagnose,
         CreateFix, Exhaust, StartWatch, CheckHead, ReadChecks, Reschedule, MarkReady, Promote,
         WorkOnly, github, ledger
<1>8. ASSUME NEW w \in Workers, FixStep(w)
      PROVE  UNCHANGED <<event, receipt, cleanup, reconcile, acts>>
    BY <1>8 DEF FixStep, StartFix, AgentSucceeds, AgentFails, Caught, ReserveNew, CapReached,
         ReserveExisting, ListPulls, AdoptPull, ReadHead, Push, CreatePull, PushFails, RecordPushed,
         FindPull, CreateFails, Finalize, FinalizeRefused, GiveUp, HandleError, Restore, WorkOnly,
         github, ledger
<1>9. CASE \/ \E w \in Workers, j \in DOMAIN job : Claim(w, j)
           \/ \E w \in Workers : Complete(w) \/ Vanish(w) \/ Throw(w)
           \/ \E j \in DOMAIN job : LeaseExpires(j) \/ Rerun(j)
           \/ \E g \in Groups : AutoResolve(g) \/ CloseEpisode(g)
           \/ UNCHANGED vars
  <2>1. UNCHANGED <<event, receipt, cleanup, reconcile, acts>>
      BY <1>9 DEF Claim, Complete, Vanish, Throw, LeaseExpires, Rerun, AutoResolve, CloseEpisode,
         WorkOnly, github, ledger, vars
  <2>. QED BY <1>1, <2>1 DEF LedgerMoves
<1>10. CASE UNCHANGED <<event, receipt, cleanup, reconcile, acts>>
    BY <1>1, <1>10 DEF LedgerMoves
<1>. QED
    BY <1>2, <1>3, <1>4, <1>5, <1>6, <1>7, <1>8, <1>9, <1>10 DEF Next, QueueStep

\* Soundness is inductive.
LEMMA SoundKept == Sound /\ [Next]_vars => Sound'
<1> SUFFICES ASSUME Sound, [Next]_vars PROVE Sound'
    OBVIOUS
<1>1. /\ JobMoves /\ PullMoves /\ GroupMoves /\ WorkMoves /\ ReservedMoves
      /\ EventMoves /\ BranchMoves /\ LedgerMoves
    BY JobSteps, PullSteps, GroupSteps, WorkSteps, ReservedSteps, GitHubSteps, LedgerSteps
<1>2. \A j \in 1..Len(job) : j \in 1..Len(job')
    BY <1>1, Basics DEF JobMoves
<1>3. \A n \in 1..Len(pull) : n \in 1..Len(pull') /\ SamePull(pull'[n], pull[n])
    BY <1>1, Basics DEF PullMoves
<1>4. \A j \in 1..Len(job') : j \in 1..Len(job) \/ Fresh(job'[j])
    BY <1>1, Basics DEF JobMoves
<1>5. \A n \in 1..Len(pull') : n \in 1..Len(pull) \/ \E w \in Workers : Opened(pull'[n], w)
    BY <1>1, Basics DEF PullMoves
<1>6. Typed'
  <2>1. event' \subseteq Event
      BY <1>1 DEF EventMoves, Sound, Typed
  <2>2. reconcile' \subseteq 1..Len(job')
      BY <1>1, <1>2 DEF LedgerMoves, Sound, Typed
  <2>. QED BY <1>1, <2>1, <2>2
           DEF Typed, JobMoves, PullMoves, GroupMoves, WorkMoves, ReservedMoves, BranchMoves, LedgerMoves
<1>7. Referred'
  <2>1. \A j \in 1..Len(job') : job'[j].status \in Active => job'[j].attempts < MaxAttempts
      BY <1>1, <1>4, Constants DEF JobMoves, Follows, Fresh
  <2>2. \A j \in 1..Len(job') : job'[j].type = "ci_watch" => job'[j].pr \in 1..Len(pull')
      BY <1>1, <1>3, <1>4 DEF JobMoves, Follows, SameJob, Fresh, Sound, Referred
  <2>3. \A g \in Groups : group'[g].status = "archived" => group'[g].before # None
      BY <1>1 DEF GroupMoves, Row
  <2>4. \A n \in 1..Len(pull') : pull'[n].by \in 1..Len(job')
      BY <1>2, <1>3, <1>5, Basics DEF SamePull, Opened, Sound, Referred
  <2>5. \A e \in event' : e.pr \in 1..Len(pull') /\ (e.merged => pull'[e.pr].state = "merged")
      BY <1>1, <1>3 DEF EventMoves, SamePull, Sound, Referred
  <2>6. \A j \in reconcile' : job'[j].status = "dead_letter" /\ job'[j].type = "fix"
      BY <1>1 DEF LedgerMoves, JobMoves, Follows, SameJob, Sound, Referred, Typed
  <2>7. \A g \in Groups : reserved'[g].state = "open" =>
           reserved'[g].pr \in 1..Len(pull') /\ pull'[reserved'[g].pr].group = g
      BY <1>1, <1>3 DEF ReservedMoves, Keeps, SamePull
  <2>. QED BY <2>1, <2>2, <2>3, <2>4, <2>5, <2>6, <2>7 DEF Referred
<1>. QED BY <1>1, <1>6, <1>7 DEF WorkMoves, Sound

(* The jobs of the initial state: one investigation of each issue. *)
LEMMA InitJobs ==
  ASSUME Init
  PROVE  /\ job \in Seq(Job)
         /\ \A j \in 1..Len(job) : /\ job[j].type = "investigate" /\ job[j].status = "pending"
                                   /\ job[j].attempts = 0 /\ job[j].group \in Groups
         /\ \A i, j \in 1..Len(job) : job[i].group = job[j].group => i = j
<1> DEFINE n == Cardinality(Groups)
           P(f) == \A g \in Groups : \E i \in DOMAIN f : f[i] = g
           order == CHOOSE f \in [1..n -> Groups] : P(f)
<1>1. n \in Nat /\ ExistsBijection(1..n, Groups)
    BY IncidentAssumption, FS_CardinalityType
<1>2. PICK b \in Bijection(1..n, Groups) : TRUE
    BY <1>1 DEF ExistsBijection
<1>3. b \in [1..n -> Groups] /\ \A g \in Groups : \E i \in 1..n : b[i] = g
    BY DEF Bijection, Injection, Surjection
<1>4. P(b)
    BY <1>3
<1>5. order \in [1..n -> Groups] /\ P(order)
    BY <1>3, <1>4
<1>6. job = [i \in 1..n |-> NewJob(order[i], "investigate", "auto")]
    BY DEF Init
<1> HIDE DEF order
<1>7. IsFiniteSet(1..n) /\ Cardinality(1..n) = n
  <2>1. 1 \in Int /\ n \in Int
      BY <1>1
  <2>2. IsFiniteSet(1..n) /\ Cardinality(1..n) = IF 1 > n THEN 0 ELSE n - 1 + 1
      BY <2>1, FS_Interval
  <2>. QED BY <1>1, <2>2
<1>8. \A i, j \in 1..n : order[i] = order[j] => i = j
  <2>1. order \in Surjection(1..n, Groups)
      BY <1>5 DEF Surjection
  <2>2. order \in Injection(1..n, Groups)
      BY <1>7, <2>1, FS_SurjSameCardinalityImpliesInj
  <2>. QED BY <2>2 DEF Injection, IsInjective
<1> HIDE DEF n
<1>9. \A i \in 1..n : /\ job[i] \in Job /\ job[i].group = order[i]
                      /\ job[i].type = "investigate" /\ job[i].status = "pending"
                      /\ job[i].attempts = 0
    BY <1>5, <1>6, RowNew
<1>10. job \in [1..n -> Job]
    BY <1>6, <1>9
<1>11. job \in Seq(Job) /\ Len(job) = n
    BY <1>1, <1>10
<1>. QED BY <1>5, <1>8, <1>9, <1>11

\* An issue begins sound.
LEMMA InitSound == Init => Sound
<1> SUFFICES ASSUME Init PROVE Sound
    OBVIOUS
<1>1. Typed
  <2>1. group \in [Groups -> Group]
    <3>1. ASSUME NEW r, r = [status |-> "new", pr |-> 0, fixJob |-> 0, terminal |-> 0,
                             before |-> None, open |-> TRUE]
          PROVE  r \in Group
        BY <3>1 DEF Group, Statuses
    <3>. QED BY <3>1 DEF Init
  <2>2. work \in [Workers -> Worker]
      BY DEF Init, Idle, Worker, NoCommit, Commits
  <2>3. reserved \in [Groups -> Reservation]
      BY DEF Init, NoReservation, Reservation, NoCommit, Commits
  <2>4. branch \in [Groups -> Commits] /\ pull \in Seq(Pull) /\ event \subseteq Event
        /\ receipt \subseteq event /\ cleanup \subseteq Groups /\ reconcile \subseteq 1..Len(job)
        /\ acts \in 0..MaxActs
      BY Constants DEF Init, NoCommit, Commits
  <2>. QED BY <2>1, <2>2, <2>3, <2>4, InitJobs DEF Typed
<1>2. Referred
  <2>1. Len(pull) = 0 /\ event = {} /\ reconcile = {}
      BY DEF Init
  <2>2. \A g \in Groups : group[g].status = "new" /\ reserved[g].state = None
      BY DEF Init, NoReservation
  <2>. QED BY <2>1, <2>2, InitJobs, Constants DEF Referred, None
<1>3. \A w \in Workers : work[w].pc = "idle"
    BY DEF Init, Idle
<1>. QED BY <1>1, <1>2, <1>3 DEF Sound, Role, FixPCs, WatchPCs

\* Type correctness: in every reachable state, for any issues, workers and limits, the rows,
\* the executions, GitHub and the ledgers are of their types and refer to what exists: a
\* worker with a lapsed lease, a redelivered webhook or a late reaper finds what it names.
THEOREM SoundAlways == Spec => []Sound
<1>. QED BY InitSound, SoundKept, PTL DEF Spec

\* Where a fix carries the posture of its delivery.
PosturePCs == PatchPCs \cup {"reserve"}

(* What an execution carries from a step to the next. *)
Carries(w) ==
  work'[w].pc \in PosturePCs \cup {"finalize"} =>
    /\ work[w].pc # "idle" /\ work'[w].job = work[w].job
    /\ work'[w].pc # "finalize" /\ JobOf(w).by = "auto" =>
         \/ work'[w].posture = "draft"
         \/ work[w].pc \in PosturePCs /\ work'[w].posture = work[w].posture
    /\ work'[w].pc # "reserve" =>
         \/ /\ \/ work[w].pc \in PatchPCs
               \/ work'[w].pc = "finalize" /\ work[w].pc = "finalize"
            /\ work'[w].patch = work[w].patch
         \/ /\ reserved'[GroupOf(w)].state # None
            /\ work'[w].patch = reserved'[GroupOf(w)].patch

\* An execution is at a fix because it was, or because StartFix found the issue free.
Continues(w) ==
  work'[w].pc \in FixPCs =>
    /\ work'[w].job = work[w].job
    /\ \/ work[w].pc \in FixPCs
       \/ /\ At(w, "start", "fix")
          /\ group[GroupOf(w)].terminal # work[w].job
          /\ group[GroupOf(w)].status \notin PRStatuses
          /\ UNCHANGED <<group, job>>

\* An execution is at an analysis because it was, or because its issue was new.
Analyses(w) ==
  work'[w].pc \in {"analyze", "diagnose"} =>
    /\ work'[w].job = work[w].job
    /\ \/ work[w].pc \in {"analyze", "diagnose"}
       \/ /\ At(w, "start", "investigate")
          /\ group[GroupOf(w)].status \in {"new", "analyzing"}
          /\ UNCHANGED <<group, job>>

\* All three.
Does(w) == Carries(w) /\ Continues(w) /\ Analyses(w)

\* An execution that did not move.
LEMMA Stays ==
  ASSUME Sound, NEW w \in Workers, work'[w] = work[w]
  PROVE  Does(w)
BY DEF Does, Carries, Continues, Analyses, PosturePCs, PatchPCs, FixPCs

\* A step that moves one execution moves no other.
LEMMA Elsewhere ==
  ASSUME Sound, NEW w \in Workers, NEW r, work' = [work EXCEPT ![w] = r], Does(w)
  PROVE  \A v \in Workers : Does(v)
<1>1. \A v \in Workers : v # w => work'[v] = work[v]
    BY DEF Sound, Typed
<1>. QED BY <1>1, Stays

\* An execution that leaves the points of interest.
LEMMA Quiets ==
  ASSUME Sound, NEW w \in Workers, NEW r, work' = [work EXCEPT ![w] = r],
         r.pc \notin FixPCs \cup {"analyze", "diagnose"}
  PROVE  \A v \in Workers : Does(v)
<1>1. work'[w] = r
    BY DEF Sound, Typed
<1>2. Does(w)
    BY <1>1 DEF Does, Carries, Continues, Analyses, PosturePCs, PatchPCs, FixPCs
<1>. QED BY <1>2, Elsewhere

\* GoTo, seen from the execution.
LEMMA Goes ==
  ASSUME Sound, NEW w \in Workers, NEW pc, GoTo(w, pc)
  PROVE  /\ work' = [work EXCEPT ![w] = work'[w]]
         /\ work'[w].pc = pc /\ work'[w].job = work[w].job
         /\ work'[w].posture = work[w].posture /\ work'[w].patch = work[w].patch
<1>1. work \in [Workers -> Worker]
    BY DEF Sound, Typed
<1>2. work[w] \in Worker
    BY <1>1
<1> DEFINE r == [work[w] EXCEPT !.pc = pc]
<1>3. work' = [work EXCEPT ![w] = r]
    BY DEF GoTo
<1>4. r.pc = pc /\ r.job = work[w].job /\ r.posture = work[w].posture /\ r.patch = work[w].patch
    BY <1>2 DEF Worker
<1> HIDE DEF r
<1>. QED BY <1>1, <1>3, <1>4

\* Finish, seen from the execution.
LEMMA Finishes ==
  ASSUME Sound, NEW w \in Workers, NEW pc, Finish(w, pc)
  PROVE  /\ work' = [work EXCEPT ![w] = work'[w]]
         /\ work'[w].pc = pc /\ work'[w].job = work[w].job
<1> DEFINE r == [Idle EXCEPT !.pc = pc, !.job = work[w].job]
<1>1. work \in [Workers -> Worker]
    BY DEF Sound, Typed
<1>2. r.pc = pc /\ r.job = work[w].job
    BY DEF Idle
<1>3. work' = [work EXCEPT ![w] = r]
    BY DEF Finish
<1> HIDE DEF r
<1>. QED BY <1>1, <1>2, <1>3

\* Every step takes every execution on as it should.
LEMMA ExecutionSteps == Sound /\ [Next]_vars => \A v \in Workers : Does(v)
<1> SUFFICES ASSUME Sound, [Next]_vars PROVE \A v \in Workers : Does(v)
    OBVIOUS
<1> DEFINE All == \A v \in Workers : Does(v)
<1> USE Basics
<1>1. CASE UNCHANGED work
    BY <1>1, Stays
<1>2. ASSUME NEW w \in Workers, NEW pc \in {"done", "checks", "green", "promote"},
             Finish(w, pc) \/ GoTo(w, pc)
      PROVE  All
  <2>1. work' = [work EXCEPT ![w] = work'[w]] /\ work'[w].pc = pc
      BY <1>2, Finishes, Goes
  <2>. QED BY <2>1, Quiets DEF FixPCs
<1>3. ASSUME NEW w \in Workers, NEW j \in DOMAIN job, Claim(w, j) PROVE All
    BY <1>3, Quiets DEF Claim, Idle, FixPCs
<1>4. ASSUME NEW w \in Workers,
             Complete(w) \/ Vanish(w) \/ Throw(w) \/ Exhaust(w) \/ Restore(w) \/ Reschedule(w)
      PROVE  All
    BY <1>4, Quiets DEF Complete, Vanish, Throw, Exhaust, Restore, Reschedule, Leave, Idle, FixPCs
<1>5. ASSUME NEW w \in Workers,
             \/ QuotaDenied(w) \/ CreateFix(w) \/ Finalize(w) \/ GiveUp(w) \/ HandleError(w)
             \/ \E status \in {"needs_human", "insight"} : Diagnose(w, status)
             \/ Promote(w) \/ CheckHead(w) \/ MarkReady(w)
             \/ \E state \in CIStates : ReadChecks(w, state)
      PROVE  All
  <2>1. Finish(w, "done") \/ GoTo(w, "checks") \/ GoTo(w, "green") \/ GoTo(w, "promote")
      BY <1>5 DEF QuotaDenied, CreateFix, Finalize, GiveUp, HandleError, Diagnose, Promote,
         CheckHead, MarkReady, ReadChecks
  <2>. QED BY <1>2, <2>1
<1>6. ASSUME NEW w \in Workers, NEW pc \in {"giveup", "error", "incomplete"}, work[w].pc \in FixPCs,
             Finish(w, pc) \/ GoTo(w, pc)
      PROVE  All
  <2>1. work' = [work EXCEPT ![w] = work'[w]] /\ work'[w].pc = pc /\ work'[w].job = work[w].job
      BY <1>6, Finishes, Goes
  <2>2. Does(w)
      BY <1>6, <2>1 DEF Does, Carries, Continues, Analyses, PosturePCs, PatchPCs
  <2>. QED BY <2>1, <2>2, Elsewhere
<1>7. ASSUME NEW w \in Workers,
             \/ Caught(w) \/ CapReached(w) \/ PushFails(w) \/ CreateFails(w) \/ FinalizeRefused(w)
             \/ \E pc \in {"giveup", "incomplete"} : AgentFails(w, pc)
      PROVE  All
  <2>1. work[w].pc \in FixPCs
        /\ (Finish(w, "error") \/ Finish(w, "giveup") \/ GoTo(w, "giveup") \/ GoTo(w, "incomplete"))
      BY <1>7 DEF Caught, CapReached, PushFails, CreateFails, FinalizeRefused, AgentFails, FixPCs
  <2>. QED BY <1>6, <2>1
<1>8. ASSUME NEW w \in Workers, StartInvestigation(w) PROVE All
  <2>1. CASE GoTo(w, "done")
      BY <1>2, <2>1
  <2>2. CASE ~GoTo(w, "done")
    <3>1. GoTo(w, "analyze") /\ At(w, "start", "investigate") /\ UNCHANGED <<group, job>>
          /\ group[GroupOf(w)].status \in {"new", "analyzing"}
        BY <1>8, <2>2 DEF StartInvestigation, WorkOnly
    <3>2. work' = [work EXCEPT ![w] = work'[w]] /\ work'[w].pc = "analyze"
          /\ work'[w].job = work[w].job
        BY <3>1, Goes
    <3>3. Does(w)
        BY <3>1, <3>2 DEF Does, Carries, Continues, Analyses, PosturePCs, PatchPCs, FixPCs
    <3>. QED BY <3>2, <3>3, Elsewhere
  <2>. QED BY <2>1, <2>2
<1>9. ASSUME NEW w \in Workers, Analyze(w) PROVE All
  <2>1. GoTo(w, "diagnose") /\ work[w].pc = "analyze"
      BY <1>9 DEF Analyze
  <2>2. work' = [work EXCEPT ![w] = work'[w]] /\ work'[w].pc = "diagnose"
        /\ work'[w].job = work[w].job
      BY <2>1, Goes
  <2>3. Does(w)
      BY <2>1, <2>2 DEF Does, Carries, Continues, Analyses, PosturePCs, PatchPCs, FixPCs
  <2>. QED BY <2>2, <2>3, Elsewhere
<1>10. ASSUME NEW w \in Workers, StartFix(w) PROVE All
  <2>1. CASE GoTo(w, "done")
      BY <1>2, <2>1
  <2>2. CASE ~GoTo(w, "done")
    <3>1. GoTo(w, "agent") /\ At(w, "start", "fix") /\ UNCHANGED <<group, job>>
          /\ group[GroupOf(w)].terminal # work[w].job /\ group[GroupOf(w)].status \notin PRStatuses
        BY <1>10, <2>2 DEF StartFix, WorkOnly
    <3>2. work' = [work EXCEPT ![w] = work'[w]] /\ work'[w].pc = "agent"
          /\ work'[w].job = work[w].job
        BY <3>1, Goes
    <3>3. Does(w)
        BY <3>1, <3>2 DEF Does, Carries, Continues, Analyses, PosturePCs, PatchPCs, FixPCs
    <3>. QED BY <3>2, <3>3, Elsewhere
  <2>. QED BY <2>1, <2>2
<1>11. ASSUME NEW w \in Workers, AgentSucceeds(w) PROVE All
  <2>1. PICK posture \in Postures(w) :
          work' = [work EXCEPT ![w] = [work[w] EXCEPT !.pc = "reserve", !.posture = posture,
                     !.patch = [job |-> work[w].job, run |-> JobOf(w).attempts]]]
      BY <1>11 DEF AgentSucceeds
  <2> DEFINE c == [job |-> work[w].job, run |-> JobOf(w).attempts]
             r == [work[w] EXCEPT !.pc = "reserve", !.posture = posture, !.patch = c]
  <2>2. work[w].pc = "agent" /\ work[w] \in Worker /\ (JobOf(w).by = "auto" => posture = "draft")
      BY <1>11 DEF AgentSucceeds, Postures
  <2> HIDE DEF c
  <2>3. r.pc = "reserve" /\ r.job = work[w].job /\ r.posture = posture
      BY <2>2 DEF Worker
  <2>4. work' = [work EXCEPT ![w] = r]
      BY <2>1 DEF c
  <2> HIDE DEF r
  <2>5. work'[w] = r
      BY <2>4 DEF Sound, Typed
  <2>6. Does(w)
      BY <2>2, <2>3, <2>5 DEF Does, Carries, Continues, Analyses, PosturePCs, PatchPCs, FixPCs
  <2>. QED BY <2>4, <2>6, Elsewhere
<1>12. ASSUME NEW w \in Workers, ReserveNew(w) PROVE All
  <2>1. GoTo(w, "list") /\ work[w].pc = "reserve"
        /\ reserved' = [reserved EXCEPT ![GroupOf(w)] =
             [NoReservation EXCEPT !.state = "reserved", !.posture = work[w].posture,
                                   !.patch = work[w].patch]]
      BY <1>12 DEF ReserveNew
  <2>2. work' = [work EXCEPT ![w] = work'[w]] /\ work'[w].pc = "list"
        /\ work'[w].job = work[w].job /\ work'[w].patch = work[w].patch
        /\ work'[w].posture = work[w].posture
      BY <2>1, Goes
  <2>3. reserved'[GroupOf(w)].state # None /\ reserved'[GroupOf(w)].patch = work[w].patch
      BY <2>1 DEF Sound, Typed, NoReservation, None
  <2>4. Does(w)
      BY <2>1, <2>2, <2>3 DEF Does, Carries, Continues, Analyses, PosturePCs, PatchPCs, FixPCs
  <2>. QED BY <2>2, <2>4, Elsewhere
<1>13. ASSUME NEW w \in Workers, ReserveExisting(w) PROVE All
  <2> DEFINE row == reserved[GroupOf(w)]
             r == Resume(w, row)
  <2>1. work[w].pc = "reserve" /\ row.state # None /\ work' = [work EXCEPT ![w] = r]
        /\ reserved' = reserved
      BY <1>13 DEF ReserveExisting, WorkOnly
  <2>2. work[w] \in Worker
      OBVIOUS
  <2>3. r.job = work[w].job /\ r.patch = row.patch /\ r.pc \in {"list", "finalize"}
        /\ (r.pc = "list" /\ JobOf(w).by = "auto" => r.posture = "draft")
      BY <2>2 DEF Resume, Worker
  <2> HIDE DEF r
  <2>4. work'[w] = r
      BY <2>1 DEF Sound, Typed
  <2>5. Does(w)
      BY <2>1, <2>3, <2>4 DEF Does, Carries, Continues, Analyses, PosturePCs, PatchPCs, FixPCs
  <2>. QED BY <2>1, <2>5, Elsewhere
<1>14. ASSUME NEW w \in Workers, work[w].pc \in PatchPCs,
              work'[w].pc \in PatchPCs \cup {"finalize"}, work'[w].job = work[w].job,
              work'[w].posture = work[w].posture, work'[w].patch = work[w].patch,
              work' = [work EXCEPT ![w] = work'[w]]
       PROVE  All
  <2>2. Does(w)
      BY <1>14 DEF Does, Carries, Continues, Analyses, PosturePCs, PatchPCs, FixPCs
  <2>. QED BY <1>14, <2>2, Elsewhere
<1>15. ASSUME NEW w \in Workers, AdoptPull(w) \/ RecordPushed(w) PROVE All
  <2>1. PICK pc \in {"finalize", "create"} : GoTo(w, pc) /\ work[w].pc \in PatchPCs
      BY <1>15 DEF AdoptPull, RecordPushed, PatchPCs
  <2>2. work' = [work EXCEPT ![w] = work'[w]] /\ work'[w].pc = pc
        /\ work'[w].job = work[w].job /\ work'[w].patch = work[w].patch
        /\ work'[w].posture = work[w].posture
      BY <2>1, Goes
  <2>. QED BY <1>14, <2>1, <2>2 DEF PatchPCs
<1>16. ASSUME NEW w \in Workers, ListPulls(w) PROVE All
  <2>1. work[w].pc = "list" /\ work[w] \in Worker
      BY <1>16 DEF ListPulls
  <2>2. CASE GoTo(w, "head")
    <3>1. work' = [work EXCEPT ![w] = work'[w]] /\ work'[w].pc = "head"
          /\ work'[w].job = work[w].job /\ work'[w].patch = work[w].patch
          /\ work'[w].posture = work[w].posture
        BY <2>2, Goes
    <3>. QED BY <1>14, <2>1, <3>1 DEF PatchPCs
  <2>3. ASSUME NEW n, NEW h,
               work' = [work EXCEPT ![w] = [work[w] EXCEPT !.pc = "adopt", !.pr = n, !.head = h]]
        PROVE  All
    <3> DEFINE r == [work[w] EXCEPT !.pc = "adopt", !.pr = n, !.head = h]
    <3>1. r.pc = "adopt" /\ r.job = work[w].job /\ r.posture = work[w].posture
          /\ r.patch = work[w].patch
        BY <2>1 DEF Worker
    <3>2. work' = [work EXCEPT ![w] = r]
        BY <2>3
    <3> HIDE DEF r
    <3>4. work'[w] = r /\ work' = [work EXCEPT ![w] = work'[w]]
        BY <3>1, <3>2 DEF Sound, Typed
    <3>. QED BY <1>14, <2>1, <3>1, <3>2, <3>4 DEF PatchPCs
  <2>. QED BY <1>16, <2>2, <2>3 DEF ListPulls
<1>17. ASSUME NEW w \in Workers, ReadHead(w) PROVE All
  <2> DEFINE h == branch[GroupOf(w)]
             p == IF h = NoCommit THEN "push" ELSE "pushed"
             r == [work[w] EXCEPT !.head = h, !.pc = p]
  <2>1. work[w].pc = "head" /\ work[w] \in Worker /\ work' = [work EXCEPT ![w] = r]
        /\ p \in {"push", "pushed"}
      BY <1>17 DEF ReadHead
  <2> HIDE DEF h, p
  <2>2. r.pc = p /\ r.job = work[w].job /\ r.posture = work[w].posture /\ r.patch = work[w].patch
      BY <2>1 DEF Worker
  <2> HIDE DEF r
  <2>3. work'[w] = r /\ work' = [work EXCEPT ![w] = work'[w]]
      BY <2>1 DEF Sound, Typed
  <2>. QED BY <1>14, <2>1, <2>2, <2>3 DEF PatchPCs
<1>18. ASSUME NEW w \in Workers, NEW heard \in BOOLEAN, Push(w, heard) PROVE All
  <2>1. work[w].pc = "push" /\ work[w] \in Worker
      BY <1>18 DEF Push
  <2>2. CASE Finish(w, "giveup")
      BY <1>6, <2>1, <2>2 DEF FixPCs
  <2>3. CASE ~Finish(w, "giveup")
    <3> DEFINE r == [work[w] EXCEPT !.pc = "pushed", !.head = work[w].patch]
    <3>1. work' = [work EXCEPT ![w] = r]
        BY <1>18, <2>3 DEF Push
    <3>2. r.pc = "pushed" /\ r.job = work[w].job /\ r.posture = work[w].posture
          /\ r.patch = work[w].patch
        BY <2>1 DEF Worker
    <3> HIDE DEF r
    <3>4. work'[w] = r /\ work' = [work EXCEPT ![w] = work'[w]]
        BY <3>1, <3>2 DEF Sound, Typed
    <3>. QED BY <1>14, <2>1, <3>1, <3>2, <3>4 DEF PatchPCs
  <2>. QED BY <2>2, <2>3
<1>19. ASSUME NEW w \in Workers,
              FindPull(w) \/ \E heard \in BOOLEAN : CreatePull(w, heard)
       PROVE  All
  <2>1. work[w].pc = "create" /\ work[w] \in Worker
      BY <1>19 DEF FindPull, CreatePull
  <2>2. CASE Finish(w, "giveup")
      BY <1>6, <2>1, <2>2 DEF FixPCs
  <2>3. CASE ~Finish(w, "giveup")
    <3>1. PICK n : work' = [work EXCEPT ![w] = [work[w] EXCEPT !.pc = "finalize", !.pr = n]]
        BY <1>19, <2>3 DEF FindPull, CreatePull, OpenPulls
    <3> DEFINE r == [work[w] EXCEPT !.pc = "finalize", !.pr = n]
    <3>2. r.pc = "finalize" /\ r.job = work[w].job /\ r.posture = work[w].posture
          /\ r.patch = work[w].patch
        BY <2>1 DEF Worker
    <3>3. work' = [work EXCEPT ![w] = r]
        BY <3>1
    <3> HIDE DEF r
    <3>4. work'[w] = r /\ work' = [work EXCEPT ![w] = work'[w]]
        BY <3>3 DEF Sound, Typed
    <3>. QED BY <1>14, <2>1, <3>2, <3>3, <3>4 DEF PatchPCs
  <2>. QED BY <2>2, <2>3
<1>20. ASSUME NEW w \in Workers, StartWatch(w) PROVE All
  <2>1. CASE Finish(w, "done")
      BY <1>2, <2>1
  <2>2. CASE ~Finish(w, "done")
    <3>1. PICK p \in {"draft", "ready"} :
             work' = [work EXCEPT ![w] = [work[w] EXCEPT !.pc = "pull", !.posture = p]]
        BY <1>20, <2>2 DEF StartWatch
    <3> DEFINE r == [work[w] EXCEPT !.pc = "pull", !.posture = p]
    <3>2. work[w] \in Worker
        OBVIOUS
    <3>3. r.pc = "pull"
        BY <3>2 DEF Worker
    <3>4. work' = [work EXCEPT ![w] = r]
        BY <3>1
    <3> HIDE DEF r
    <3>. QED BY <3>3, <3>4, Quiets DEF FixPCs
  <2>. QED BY <2>1, <2>2
<1>21. CASE \/ \E j \in DOMAIN job : LeaseExpires(j) \/ Reap(j) \/ Rerun(j)
            \/ \E j \in reconcile : Reconcile(j) \/ ReconcileLost(j)
            \/ \E e \in event : Webhook(e)
            \/ \E g \in Groups : \/ DeleteBranch(g) \/ DeleteFails(g) \/ AutoResolve(g)
                                 \/ CloseEpisode(g)
            \/ PersonStep
            \/ UNCHANGED vars
  <2>1. UNCHANGED work
      BY <1>21 DEF LeaseExpires, Reap, Rerun, Reconcile, ReconcileLost, Webhook, WebhookSeen,
         WebhookMatched, WebhookRecovered, DeleteBranch, DeleteFails, AutoResolve, CloseEpisode,
         PersonStep, TriggerFix, Resolve, Archive, Unarchive, PersonPushes, ReopenPull, ClosePull,
         vars
  <2>. QED BY <1>1, <2>1
<1>. QED
    BY <1>3, <1>4, <1>5, <1>7, <1>8, <1>9, <1>10, <1>11, <1>12, <1>13, <1>15, <1>16,
       <1>17, <1>18, <1>19, <1>20, <1>21
       DEF Next, QueueStep, InvestigateStep, FixStep, WatchStep

(* What a step may do to an issue: nothing but a filing away or back, ... *)
Stands(g) ==
  /\ group'[g].pr = group[g].pr /\ group'[g].terminal = group[g].terminal
  /\ \/ group'[g].status = group[g].status /\ group'[g].before = group[g].before
     \/ group'[g].status = "archived" /\ group'[g].before = group[g].status
     \/ group[g].status = "archived" /\ group'[g].status = group[g].before

(* ... what an execution that holds the lease writes, ... *)
Diagnosed(g) ==
  /\ group'[g].status \in {"analyzing", "needs_human", "insight", "fixing"}
  /\ group'[g].terminal = group[g].terminal
  /\ \E w \in Workers : /\ Owns(w) /\ GroupOf(w) = g
                        /\ work[w].pc \in {"analyze", "diagnose"}

Delivered(g) ==
  /\ group'[g].status \in PRStatuses
  /\ \E w \in Workers :
       /\ Owns(w) /\ GroupOf(w) = g /\ work[w].pc = "finalize" /\ work'[w].pc = "done"
       /\ group'[g].pr = work[w].pr /\ group'[g].terminal = work[w].job
       /\ reserved'[g].state = "open" /\ reserved'[g].pr = work[w].pr

GivenUp(g) ==
  /\ group'[g].status \in {"needs_human", "investigated"}
  /\ \E w \in Workers :
       /\ Owns(w) /\ GroupOf(w) = g /\ work[w].pc \in FixPCs /\ work'[w].pc \in {"done", "idle"}
       /\ group'[g].terminal \in {group[g].terminal, work[w].job}

Promoted(g) ==
  /\ group[g].status = "pr_draft" /\ group'[g].status = "pr_created"
  /\ group'[g].pr = group[g].pr /\ group'[g].terminal = group[g].terminal

(* ... what the webhooks, the sweeps, the reaper and people write. *)
Settled(g) ==
  /\ group'[g].status \in {"needs_human", "investigated", "resolved"}
  /\ group'[g].terminal = group[g].terminal

Merged(g) ==
  /\ group'[g].status = "merged" /\ group'[g].terminal = group[g].terminal
  /\ \E e \in event : e.merged /\ (Shows(g, e.pr) \/ pull[e.pr].group = g)

Triggered(g) ==
  /\ group[g].status = "investigated" /\ group'[g].status = "fixing"
  /\ group'[g].terminal = 0
  /\ ActiveJobs(g, "fix") = {}
  /\ \E j \in 1..Len(job) : /\ job[j].group = g
                            /\ job[j].type = "investigate"
                            /\ job[j].status = "completed"

\* The reaper's unfenced needs_human, after a dead fix.
Reconciled(g) == group'[g].status = "needs_human" /\ group'[g].terminal \in reconcile

\* Every way an issue changes.
Changes(g) ==
  \/ Stands(g) \/ Diagnosed(g) \/ Delivered(g) \/ GivenUp(g) \/ Promoted(g)
  \/ Settled(g) \/ Merged(g) \/ Triggered(g) \/ Reconciled(g)

\* A step that writes one issue changes that one.
LEMMA IssueSet ==
  ASSUME Sound, NEW g \in Groups, NEW r, group' = [group EXCEPT ![g] = r],
         group'[g] = r => Changes(g)
  PROVE  \A h \in Groups : Changes(h)
<1>1. group'[g] = r /\ \A h \in Groups : h # g => group'[h] = group[h]
    BY DEF Sound, Typed
<1>. QED BY <1>1 DEF Changes, Stands

\* A step that writes the status alone.
LEMMA StatusSet ==
  ASSUME Sound, NEW g \in Groups, NEW s, group' = [group EXCEPT ![g].status = s]
  PROVE  /\ group'[g].status = s
         /\ group'[g].pr = group[g].pr /\ group'[g].terminal = group[g].terminal
         /\ \A h \in Groups : h # g => group'[h] = group[h]
<1> DEFINE r == [group[g] EXCEPT !.status = s]
<1>1. group[g] \in Group /\ group \in [Groups -> Group] /\ group' = [group EXCEPT ![g] = r]
    BY DEF Sound, Typed
<1>2. r.status = s /\ r.pr = group[g].pr /\ r.terminal = group[g].terminal
    BY <1>1 DEF Group
<1> HIDE DEF r
<1>. QED BY <1>1, <1>2

\* updateGroupStatus, seen from the row.
LEMMA UpdatedRow ==
  ASSUME NEW r \in Group, NEW j \in Nat, NEW s \in {"needs_human", "analyzing"}
  PROVE  /\ Updated(r, s, j).status = s
         /\ Updated(r, s, j).terminal = IF j = 0 THEN r.terminal ELSE j
<1> DEFINE t == IF j = 0 THEN r.terminal ELSE j
           q == [r EXCEPT !.status = s, !.pr = 0, !.terminal = t]
<1>1. Updated(r, s, j) = q
    BY DEF Updated
<1> HIDE DEF t
<1>2. q.status = s /\ q.terminal = t
    BY DEF Group
<1> HIDE DEF q
<1>. QED BY <1>1, <1>2 DEF t

\* An issue changes in no other way.
LEMMA IssueSteps == Sound /\ [Next]_vars => \A h \in Groups : Changes(h)
<1> SUFFICES ASSUME Sound, [Next]_vars PROVE \A h \in Groups : Changes(h)
    OBVIOUS
<1> DEFINE All == \A h \in Groups : Changes(h)
<1> USE Basics
<1>1. CASE UNCHANGED group
    BY <1>1 DEF Changes, Stands
<1>2. ASSUME NEW g \in Groups, \A h \in Groups : h # g => group'[h] = group[h], Changes(g)
      PROVE  All
    BY <1>2 DEF Changes, Stands
<1>3. ASSUME NEW j \in reconcile, Reconcile(j) PROVE All
  <2> DEFINE g == job[j].group
  <2>1. g \in Groups /\ j \in Nat /\ j # 0
      BY DEF Sound, Typed
  <2>2. group' = [group EXCEPT ![g] = Updated(group[g], "needs_human", j)]
      BY <1>3 DEF Reconcile
  <2> HIDE DEF g
  <2>3. group'[g] = Updated(group[g], "needs_human", j) /\ group[g] \in Group
        /\ \A h \in Groups : h # g => group'[h] = group[h]
      BY <2>1, <2>2 DEF Sound, Typed
  <2>4. group'[g].status = "needs_human" /\ group'[g].terminal = j
      BY <2>1, <2>3, UpdatedRow
  <2>. QED BY <1>2, <2>1, <2>3, <2>4 DEF Changes, Reconciled
<1>4. ASSUME NEW w \in Workers, Analyze(w) PROVE All
  <2> DEFINE g == GroupOf(w)
  <2>1. g \in Groups /\ Owns(w) /\ work[w].pc = "analyze" /\ 0 \in Nat
        /\ group' = [group EXCEPT ![g] = Updated(group[g], "analyzing", 0)]
      BY <1>4 DEF Analyze
  <2>2. group'[g] = Updated(group[g], "analyzing", 0) /\ group[g] \in Group
        /\ \A h \in Groups : h # g => group'[h] = group[h]
      BY <2>1 DEF Sound, Typed
  <2>3. group'[g].status = "analyzing" /\ group'[g].terminal = group[g].terminal
      BY <2>1, <2>2, UpdatedRow
  <2>. QED BY <1>2, <2>1, <2>2, <2>3 DEF Changes, Diagnosed
<1>5. ASSUME NEW w \in Workers, GiveUp(w) \/ HandleError(w) PROVE All
  <2> DEFINE g == GroupOf(w)
  <2>1. g \in Groups /\ Owns(w) /\ work[w].pc \in FixPCs /\ Finish(w, "done") /\ work[w].job \in Nat
      BY <1>5 DEF GiveUp, HandleError, FixPCs
  <2>2. PICK j \in {0, work[w].job} :
           group' = [group EXCEPT ![g] = Updated(group[g], "needs_human", j)]
      BY <1>5 DEF GiveUp, HandleError
  <2>3. group'[g] = Updated(group[g], "needs_human", j) /\ group[g] \in Group /\ j \in Nat
        /\ \A h \in Groups : h # g => group'[h] = group[h]
      BY <2>1, <2>2 DEF Sound, Typed
  <2>5. group'[g].status = "needs_human" /\ group'[g].terminal \in {group[g].terminal, work[w].job}
      BY <2>3, UpdatedRow
  <2>4. work'[w].pc = "done"
      BY <2>1, Finishes
  <2>. QED BY <1>2, <2>1, <2>3, <2>4, <2>5 DEF Changes, GivenUp
<1>6. ASSUME NEW w \in Workers,
             \/ \E s \in {"needs_human", "insight"} : Diagnose(w, s)
             \/ CreateFix(w)
      PROVE  All
  <2> DEFINE g == GroupOf(w)
  <2>1. work[w].pc = "diagnose" /\ Owns(w) /\ g \in Groups
      BY <1>6 DEF Diagnose, CreateFix
  <2>2. PICK s \in {"needs_human", "insight", "fixing"} : group' = [group EXCEPT ![g].status = s]
      BY <1>6 DEF Diagnose, CreateFix, SetStatus
  <2>3. group'[g].status = s /\ group'[g].terminal = group[g].terminal
        /\ \A h \in Groups : h # g => group'[h] = group[h]
      BY <2>1, <2>2, StatusSet
  <2>. QED BY <1>2, <2>1, <2>3 DEF Changes, Diagnosed
<1>7. ASSUME NEW w \in Workers, Promote(w) PROVE All
  <2> DEFINE g == GroupOf(w)
  <2>1. CASE group' = [group EXCEPT ![g].status = "pr_created"] /\ group[g].status = "pr_draft"
    <3>1. g \in Groups
        BY <1>7 DEF Promote
    <3>2. group'[g].status = "pr_created" /\ group'[g].pr = group[g].pr
          /\ group'[g].terminal = group[g].terminal
          /\ \A h \in Groups : h # g => group'[h] = group[h]
        BY <2>1, <3>1, StatusSet
    <3>. QED BY <1>2, <2>1, <3>1, <3>2 DEF Changes, Promoted
  <2>. QED BY <1>1, <1>7, <2>1 DEF Promote
<1>8. ASSUME NEW w \in Workers, Finalize(w) PROVE All
  <2> DEFINE g == GroupOf(w)
             s == IF work[w].posture = "draft" THEN "pr_draft" ELSE "pr_created"
             r == [group[g] EXCEPT !.status = s, !.pr = work[w].pr, !.fixJob = work[w].job,
                                   !.terminal = work[w].job]
             q == [reserved[g] EXCEPT !.state = "open", !.head = work[w].head, !.pr = work[w].pr]
  <2>1. work[w].pc = "finalize" /\ Owns(w) /\ Finish(w, "done") /\ group' = [group EXCEPT ![g] = r]
        /\ reserved' = [reserved EXCEPT ![g] = q]
      BY <1>8 DEF Finalize
  <2>2. g \in Groups /\ group[g] \in Group /\ reserved[g] \in Reservation
      BY <2>1
  <2>3. s \in PRStatuses
      BY DEF PRStatuses
  <2> HIDE DEF s
  <2>4. r.status = s /\ r.pr = work[w].pr /\ r.terminal = work[w].job
      BY <2>2 DEF Group
  <2>5. q.state = "open" /\ q.pr = work[w].pr
      BY <2>2 DEF Reservation
  <2> HIDE DEF r, q
  <2>6. group'[g] = r /\ (\A h \in Groups : h # g => group'[h] = group[h]) /\ reserved'[g] = q
      BY <2>1, <2>2 DEF Sound, Typed
  <2>7. work'[w].pc = "done"
      BY <2>1, Finishes
  <2>8. Delivered(g)
      BY <2>1, <2>3, <2>4, <2>5, <2>6, <2>7 DEF Delivered
  <2>. QED BY <1>2, <2>2, <2>6, <2>8 DEF Changes
<1>9. ASSUME NEW w \in Workers, Restore(w) PROVE All
  <2> DEFINE g == GroupOf(w)
             r == [group[g] EXCEPT !.status = "investigated", !.terminal = work[w].job]
  <2>1. work[w].pc = "incomplete" /\ Owns(w) /\ Leave(w)
        /\ (group' = group \/ group' = [group EXCEPT ![g] = r])
      BY <1>9 DEF Restore
  <2>2. g \in Groups /\ group[g] \in Group
      BY <2>1
  <2>3. r.status = "investigated" /\ r.terminal = work[w].job
      BY <2>2 DEF Group
  <2> HIDE DEF r
  <2>4. work'[w].pc = "idle"
      BY <2>1 DEF Leave, Idle, Sound, Typed
  <2>5. CASE group' = [group EXCEPT ![g] = r]
    <3>1. group'[g] = r /\ (\A h \in Groups : h # g => group'[h] = group[h])
        BY <2>2, <2>5 DEF Sound, Typed
    <3>2. GivenUp(g)
        BY <2>1, <2>3, <2>4, <3>1 DEF GivenUp, FixPCs
    <3>. QED BY <1>2, <2>2, <3>1, <3>2 DEF Changes
  <2>. QED BY <1>1, <2>1, <2>5
<1>10. ASSUME NEW e \in event, NEW g \in Groups, WebhookMatched(e, g) PROVE All
  <2>1. Shows(g, e.pr) /\ group' = [group EXCEPT ![g] = Followed(group[g], e.merged)]
        /\ group[g] \in Group
      BY <1>10 DEF WebhookMatched
  <2>2. CASE e.merged
    <3>1. group' = [group EXCEPT ![g].status = "merged"]
        BY <2>1, <2>2 DEF Followed
    <3>2. group'[g].status = "merged" /\ group'[g].terminal = group[g].terminal
          /\ \A h \in Groups : h # g => group'[h] = group[h]
        BY <3>1, StatusSet
    <3>. QED BY <1>2, <2>1, <2>2, <3>2 DEF Changes, Merged
  <2>3. CASE ~e.merged
    <3> DEFINE s == IF group[g].status = "pr_draft" THEN "needs_human" ELSE "investigated"
               r == [group[g] EXCEPT !.status = s, !.pr = 0, !.fixJob = 0]
    <3>1. group' = [group EXCEPT ![g] = r] /\ s \in {"needs_human", "investigated"}
        BY <2>1, <2>3 DEF Followed
    <3> HIDE DEF s
    <3>2. r.status = s /\ r.terminal = group[g].terminal
        BY <2>1 DEF Group
    <3> HIDE DEF r
    <3>3. group'[g] = r /\ (\A h \in Groups : h # g => group'[h] = group[h])
        BY <3>1 DEF Sound, Typed
    <3>4. Settled(g)
        BY <3>1, <3>2, <3>3 DEF Settled
    <3>. QED BY <1>2, <3>3, <3>4 DEF Changes
  <2>. QED BY <2>2, <2>3
<1>11. ASSUME NEW e \in event, WebhookRecovered(e) PROVE All
  <2> DEFINE g == pull[e.pr].group
  <2>1. g \in Groups /\ e.merged
      BY <1>11 DEF WebhookRecovered, Sound, Referred
  <2>2. CASE group' = [group EXCEPT ![g].status = "merged"]
    <3>1. group'[g].status = "merged" /\ group'[g].terminal = group[g].terminal
          /\ \A h \in Groups : h # g => group'[h] = group[h]
        BY <2>1, <2>2, StatusSet
    <3>. QED BY <1>2, <2>1, <3>1 DEF Changes, Merged
  <2>. QED BY <1>1, <1>11, <2>2 DEF WebhookRecovered
<1>12. ASSUME NEW g \in Groups, TriggerFix(g) PROVE All
  <2> DEFINE r == [group[g] EXCEPT !.status = "fixing", !.terminal = 0]
  <2>1. group' = [group EXCEPT ![g] = r] /\ group[g].status = "investigated"
        /\ ActiveJobs(g, "fix") = {} /\ group[g] \in Group
        /\ \E j \in 1..Len(job) : /\ job[j].group = g
                                  /\ job[j].type = "investigate"
                                  /\ job[j].status = "completed"
      BY <1>12 DEF TriggerFix
  <2>2. r.status = "fixing" /\ r.terminal = 0
      BY <2>1 DEF Group
  <2> HIDE DEF r
  <2>3. group'[g] = r /\ (\A h \in Groups : h # g => group'[h] = group[h])
      BY <2>1 DEF Sound, Typed
  <2>4. Triggered(g)
      BY <2>1, <2>2, <2>3 DEF Triggered
  <2>. QED BY <1>2, <2>3, <2>4 DEF Changes
<1>13. ASSUME NEW g \in Groups, Archive(g) PROVE All
  <2> DEFINE r == [group[g] EXCEPT !.before = group[g].status, !.status = "archived"]
  <2>1. group' = [group EXCEPT ![g] = r] /\ group[g] \in Group
      BY <1>13 DEF Archive
  <2>2. r.status = "archived" /\ r.before = group[g].status /\ r.pr = group[g].pr
        /\ r.terminal = group[g].terminal
      BY <2>1 DEF Group
  <2> HIDE DEF r
  <2>3. group'[g] = r /\ (\A h \in Groups : h # g => group'[h] = group[h])
      BY <2>1 DEF Sound, Typed
  <2>4. Stands(g)
      BY <2>2, <2>3 DEF Stands
  <2>. QED BY <1>2, <2>3, <2>4 DEF Changes
<1>14. ASSUME NEW g \in Groups, Unarchive(g) PROVE All
  <2> DEFINE r == [group[g] EXCEPT !.status = group[g].before, !.before = None]
  <2>1. group' = [group EXCEPT ![g] = r] /\ group[g] \in Group /\ group[g].status = "archived"
      BY <1>14 DEF Unarchive
  <2>2. r.status = group[g].before /\ r.pr = group[g].pr /\ r.terminal = group[g].terminal
      BY <2>1 DEF Group
  <2> HIDE DEF r
  <2>3. group'[g] = r /\ (\A h \in Groups : h # g => group'[h] = group[h])
      BY <2>1 DEF Sound, Typed
  <2>4. Stands(g)
      BY <2>1, <2>2, <2>3 DEF Stands
  <2>. QED BY <1>2, <2>3, <2>4 DEF Changes
<1>15. ASSUME NEW g \in Groups, Resolve(g) \/ AutoResolve(g) PROVE All
  <2>1. group' = [group EXCEPT ![g].status = "resolved"]
      BY <1>15 DEF Resolve, AutoResolve, SetStatus
  <2>2. group'[g].status = "resolved" /\ group'[g].terminal = group[g].terminal
        /\ \A h \in Groups : h # g => group'[h] = group[h]
      BY <2>1, StatusSet
  <2>. QED BY <1>2, <2>2 DEF Changes, Settled
<1>16. ASSUME NEW g \in Groups, CloseEpisode(g) PROVE All
  <2> DEFINE r == [group[g] EXCEPT !.open = FALSE]
  <2>1. group' = [group EXCEPT ![g] = r] /\ group[g] \in Group
      BY <1>16 DEF CloseEpisode
  <2>2. r.status = group[g].status /\ r.before = group[g].before /\ r.pr = group[g].pr
        /\ r.terminal = group[g].terminal
      BY <2>1 DEF Group
  <2> HIDE DEF r
  <2>3. group'[g] = r /\ (\A h \in Groups : h # g => group'[h] = group[h])
      BY <2>1 DEF Sound, Typed
  <2>4. Stands(g)
      BY <2>2, <2>3 DEF Stands
  <2>. QED BY <1>2, <2>3, <2>4 DEF Changes
<1>17. ASSUME NEW w \in Workers,
              \/ Vanish(w) \/ Complete(w) \/ Throw(w)
              \/ StartInvestigation(w) \/ QuotaDenied(w) \/ Exhaust(w)
              \/ StartFix(w) \/ AgentSucceeds(w)
              \/ \E pc \in {"giveup", "incomplete"} : AgentFails(w, pc)
              \/ Caught(w) \/ ReserveNew(w) \/ CapReached(w) \/ ReserveExisting(w)
              \/ ListPulls(w) \/ AdoptPull(w) \/ ReadHead(w)
              \/ \E heard \in BOOLEAN : Push(w, heard) \/ CreatePull(w, heard)
              \/ PushFails(w) \/ RecordPushed(w) \/ FindPull(w) \/ CreateFails(w)
              \/ FinalizeRefused(w) \/ StartWatch(w) \/ CheckHead(w)
              \/ \E state \in CIStates : ReadChecks(w, state)
              \/ Reschedule(w) \/ MarkReady(w)
       PROVE  UNCHANGED group
    BY <1>17 DEF Vanish, Complete, Throw, StartInvestigation, QuotaDenied, Exhaust, StartFix,
         AgentSucceeds, AgentFails, Caught, ReserveNew, CapReached, ReserveExisting, ListPulls,
         AdoptPull, ReadHead, Push, CreatePull, PushFails, RecordPushed, FindPull, CreateFails,
         FinalizeRefused, StartWatch, CheckHead, ReadChecks, Reschedule, MarkReady, WorkOnly
<1>18. CASE \/ \E w \in Workers, j \in DOMAIN job : Claim(w, j)
            \/ \E j \in DOMAIN job : LeaseExpires(j) \/ Reap(j) \/ Rerun(j)
            \/ \E j \in reconcile : ReconcileLost(j)
            \/ \E e \in event : WebhookSeen(e)
            \/ \E g \in Groups : DeleteBranch(g) \/ DeleteFails(g) \/ PersonPushes(g)
            \/ \E n \in DOMAIN pull : ReopenPull(n) \/ \E merged \in BOOLEAN : ClosePull(n, merged)
            \/ UNCHANGED vars
  <2>1. UNCHANGED group
      BY <1>18 DEF Claim, LeaseExpires, Reap, Rerun, ReconcileLost, WebhookSeen, DeleteBranch,
         DeleteFails, PersonPushes, ReopenPull, ClosePull, vars
  <2>. QED BY <1>1, <2>1
<1>. QED
    BY <1>1, <1>3, <1>4, <1>5, <1>6, <1>7, <1>8, <1>9, <1>10, <1>11, <1>12, <1>13, <1>14, <1>15,
       <1>16, <1>17, <1>18
       DEF Next, QueueStep, InvestigateStep, FixStep, WatchStep, PersonStep, Webhook

(* What a step may do to the reservation of an issue: it stands, an execution that holds
   the lease writes it, or the outcome of its pull request closes it.                   *)
Reserves(g) ==
  \/ reserved'[g] = reserved[g]
  \/ \E w \in Workers : ReserveNew(w) /\ GroupOf(w) = g
  \/ \E w \in Workers : /\ Owns(w) /\ GroupOf(w) = g
                        /\ work[w].pc \in {"adopt", "pushed", "finalize"}
  \/ /\ group[g].status \in PRStatuses
     /\ group'[g].status \in {"merged", "needs_human", "investigated"}

\* A reservation changes in no other way.
LEMMA ReservationSteps == Sound /\ [Next]_vars => \A g \in Groups : Reserves(g)
<1> SUFFICES ASSUME Sound, [Next]_vars PROVE \A g \in Groups : Reserves(g)
    OBVIOUS
<1> DEFINE All == \A g \in Groups : Reserves(g)
<1> USE Basics
<1>1. CASE UNCHANGED reserved
    BY <1>1 DEF Reserves
<1>2. ASSUME NEW g \in Groups, NEW r, reserved' = [reserved EXCEPT ![g] = r], Reserves(g)
      PROVE  All
  <2>1. \A h \in Groups : h # g => reserved'[h] = reserved[h]
      BY <1>2 DEF Sound, Typed
  <2>. QED BY <1>2, <2>1 DEF Reserves
<1>3. ASSUME NEW w \in Workers, ReserveNew(w) PROVE All
  <2>1. GroupOf(w) \in Groups /\ Reserves(GroupOf(w))
      BY <1>3 DEF ReserveNew, Reserves
  <2>2. \E r : reserved' = [reserved EXCEPT ![GroupOf(w)] = r]
      BY <1>3 DEF ReserveNew
  <2>. QED BY <1>2, <2>1, <2>2
<1>4. ASSUME NEW w \in Workers, AdoptPull(w) \/ RecordPushed(w) \/ Finalize(w) PROVE All
  <2>1. GroupOf(w) \in Groups /\ Reserves(GroupOf(w))
      BY <1>4 DEF AdoptPull, RecordPushed, Finalize, Reserves
  <2>2. \E r : reserved' = [reserved EXCEPT ![GroupOf(w)] = r]
      BY <1>4 DEF AdoptPull, RecordPushed, Finalize
  <2>. QED BY <1>2, <2>1, <2>2
<1>5. ASSUME NEW e \in event, NEW g \in Groups, WebhookMatched(e, g) PROVE All
  <2>1. group[g].status \in PRStatuses /\ group' = [group EXCEPT ![g] = Followed(group[g], e.merged)]
        /\ group[g] \in Group
      BY <1>5 DEF WebhookMatched, Shows
  <2>2. Followed(group[g], e.merged).status \in {"merged", "needs_human", "investigated"}
      BY <2>1 DEF Followed, Group
  <2>3. group'[g] = Followed(group[g], e.merged)
      BY <2>1 DEF Sound, Typed
  <2>4. Reserves(g)
      BY <2>1, <2>2, <2>3 DEF Reserves
  <2>5. \E r : reserved' = [reserved EXCEPT ![g] = r]
      BY <1>5 DEF WebhookMatched
  <2>. QED BY <1>2, <2>4, <2>5
<1>6. ASSUME NEW w \in Workers, InvestigateStep(w) \/ WatchStep(w)
      PROVE  UNCHANGED reserved
    BY <1>6 DEF InvestigateStep, WatchStep, StartInvestigation, QuotaDenied, Analyze, Diagnose,
         CreateFix, Exhaust, StartWatch, CheckHead, ReadChecks, Reschedule, MarkReady, Promote,
         WorkOnly
<1>7. ASSUME NEW w \in Workers,
             \/ Vanish(w) \/ Complete(w) \/ Throw(w)
             \/ StartFix(w) \/ AgentSucceeds(w)
             \/ \E pc \in {"giveup", "incomplete"} : AgentFails(w, pc)
             \/ Caught(w) \/ CapReached(w) \/ ReserveExisting(w)
             \/ ListPulls(w) \/ ReadHead(w)
             \/ \E heard \in BOOLEAN : Push(w, heard) \/ CreatePull(w, heard)
             \/ PushFails(w) \/ FindPull(w) \/ CreateFails(w)
             \/ FinalizeRefused(w) \/ GiveUp(w) \/ HandleError(w) \/ Restore(w)
      PROVE  UNCHANGED reserved
    BY <1>7 DEF Vanish, Complete, Throw, StartFix, AgentSucceeds, AgentFails, Caught, CapReached,
         ReserveExisting, ListPulls, ReadHead, Push, CreatePull, PushFails, FindPull, CreateFails,
         FinalizeRefused, GiveUp, HandleError, Restore, WorkOnly
<1>8. CASE \/ \E w \in Workers, j \in DOMAIN job : Claim(w, j)
           \/ \E j \in DOMAIN job : LeaseExpires(j) \/ Reap(j) \/ Rerun(j)
           \/ \E j \in reconcile : Reconcile(j) \/ ReconcileLost(j)
           \/ \E e \in event : WebhookSeen(e) \/ WebhookRecovered(e)
           \/ \E g \in Groups : \/ DeleteBranch(g) \/ DeleteFails(g) \/ AutoResolve(g)
                                \/ CloseEpisode(g)
           \/ PersonStep
           \/ UNCHANGED vars
  <2>1. UNCHANGED reserved
      BY <1>8 DEF Claim, LeaseExpires, Reap, Rerun, Reconcile, ReconcileLost, WebhookSeen,
         WebhookRecovered, DeleteBranch, DeleteFails, AutoResolve, CloseEpisode,
         PersonStep, TriggerFix, Resolve, Archive, Unarchive, PersonPushes, ReopenPull, ClosePull,
         vars
  <2>. QED BY <1>1, <2>1
<1>. QED
    BY <1>1, <1>3, <1>4, <1>5, <1>6, <1>7, <1>8 DEF Next, QueueStep, FixStep, Webhook

(* A fix is created by an investigation that holds its lease, or by a person. *)
Created(g) ==
  /\ group'[g].status = "fixing"
  /\ \/ Triggered(g)
     \/ \E w \in Workers : /\ Owns(w) /\ GroupOf(w) = g /\ work[w].pc = "diagnose"
                           /\ work'[w].pc = "done"

\* No other step inserts a fix.
FixMoves ==
  \A j \in 1..Len(job') : j > Len(job) /\ job'[j].type = "fix" =>
     j = Len(job) + 1 /\ Created(job'[j].group)

\* A step inserts at most one fix, with the issue.
LEMMA FixSteps == Sound /\ [Next]_vars => FixMoves
<1> SUFFICES ASSUME Sound, [Next]_vars PROVE FixMoves
    OBVIOUS
<1> USE Basics
<1>1. CASE Len(job') = Len(job)
    BY <1>1 DEF FixMoves
<1>2. ASSUME NEW r, r.type = "fix" => Created(r.group), job' = Append(job, r) PROVE FixMoves
  <2>1. Len(job') = Len(job) + 1 /\ job'[Len(job) + 1] = r
      BY <1>2 DEF Sound, Typed
  <2>. QED BY <1>2, <2>1 DEF FixMoves
<1>3. ASSUME NEW w \in Workers, CreateFix(w) PROVE FixMoves
  <2> DEFINE g == GroupOf(w)
  <2>1. work[w].pc = "diagnose" /\ Owns(w) /\ Finish(w, "done") /\ g \in Groups
        /\ group' = [group EXCEPT ![g].status = "fixing"]
        /\ job' = Append(job, NewJob(g, "fix", "auto"))
      BY <1>3 DEF CreateFix, SetStatus
  <2>2. work'[w].pc = "done"
      BY <2>1, Finishes
  <2>3. group'[g].status = "fixing"
      BY <2>1, StatusSet
  <2>4. Created(g)
      BY <2>1, <2>2, <2>3 DEF Created
  <2>5. NewJob(g, "fix", "auto").group = g
      BY DEF NewJob
  <2>. QED BY <1>2, <2>1, <2>4, <2>5
<1>4. ASSUME NEW g \in Groups, TriggerFix(g) PROVE FixMoves
  <2> DEFINE r == [group[g] EXCEPT !.status = "fixing", !.terminal = 0]
  <2>1. group' = [group EXCEPT ![g] = r] /\ group[g].status = "investigated"
        /\ ActiveJobs(g, "fix") = {} /\ group[g] \in Group
        /\ job' = Append(job, NewJob(g, "fix", "human"))
        /\ \E j \in 1..Len(job) : /\ job[j].group = g
                                  /\ job[j].type = "investigate"
                                  /\ job[j].status = "completed"
      BY <1>4 DEF TriggerFix
  <2>2. r.status = "fixing" /\ r.terminal = 0
      BY <2>1 DEF Group
  <2> HIDE DEF r
  <2>3. group'[g] = r
      BY <2>1 DEF Sound, Typed
  <2>4. Created(g)
      BY <2>1, <2>2, <2>3 DEF Created, Triggered
  <2>5. NewJob(g, "fix", "human").group = g
      BY DEF NewJob
  <2>. QED BY <1>2, <2>1, <2>4, <2>5
<1>5. ASSUME NEW w \in Workers, Finalize(w) PROVE FixMoves
  <2> DEFINE r == [NewJob(GroupOf(w), "ci_watch", "auto") EXCEPT !.pr = work[w].pr, !.head = work[w].head]
  <2>1. job' = job \/ job' = Append(job, r)
      BY <1>5 DEF Finalize, Watched
  <2>2. r.type = "ci_watch"
      BY DEF NewJob
  <2> HIDE DEF r
  <2>. QED BY <1>1, <1>2, <2>1, <2>2
<1>6. ASSUME NEW j, NEW r, job' = [job EXCEPT ![j] = r] PROVE FixMoves
  <2>1. Len(job') = Len(job)
      BY <1>6 DEF Sound, Typed
  <2>. QED BY <1>1, <2>1
<1>7. ASSUME NEW e \in event, NEW g \in Groups, WebhookMatched(e, g) PROVE FixMoves
  <2>1. CASE job' = job
      BY <1>1, <2>1
  <2>2. CASE job' # job
    <3>1. job' = [j \in 1..Len(job) |-> IF j \in ActiveJobs(g, "ci_watch")
                                        THEN Completed(job[j]) ELSE job[j]]
        BY <1>7, <2>2 DEF WebhookMatched, Unwatched
    <3>2. Len(job') = Len(job)
        BY <3>1
    <3>. QED BY <1>1, <3>2
  <2>. QED BY <2>1, <2>2
<1>8. ASSUME NEW w \in Workers, Complete(w) \/ Throw(w) \/ Exhaust(w) \/ Restore(w) \/ Reschedule(w)
      PROVE  FixMoves
  <2>1. \E j, r : job' = [job EXCEPT ![j] = r]
      BY <1>8 DEF Complete, Throw, Exhaust, Restore, Reschedule
  <2>. QED BY <1>6, <2>1
<1>9. ASSUME NEW j \in DOMAIN job,
             LeaseExpires(j) \/ Reap(j) \/ Rerun(j) \/ \E w \in Workers : Claim(w, j)
      PROVE  FixMoves
  <2>1. \E r : job' = [job EXCEPT ![j] = r]
      BY <1>9 DEF LeaseExpires, Reap, Rerun, Claim
  <2>. QED BY <1>6, <2>1
<1>10. ASSUME NEW w \in Workers,
              \/ Vanish(w) \/ StartInvestigation(w) \/ QuotaDenied(w) \/ Analyze(w)
              \/ \E status \in {"needs_human", "insight"} : Diagnose(w, status)
              \/ StartFix(w) \/ AgentSucceeds(w)
              \/ \E pc \in {"giveup", "incomplete"} : AgentFails(w, pc)
              \/ Caught(w) \/ ReserveNew(w) \/ CapReached(w) \/ ReserveExisting(w)
              \/ ListPulls(w) \/ AdoptPull(w) \/ ReadHead(w)
              \/ \E heard \in BOOLEAN : Push(w, heard) \/ CreatePull(w, heard)
              \/ PushFails(w) \/ RecordPushed(w) \/ FindPull(w) \/ CreateFails(w)
              \/ FinalizeRefused(w) \/ GiveUp(w) \/ HandleError(w)
              \/ StartWatch(w) \/ CheckHead(w)
              \/ \E state \in CIStates : ReadChecks(w, state)
              \/ MarkReady(w) \/ Promote(w)
       PROVE  FixMoves
  <2>1. UNCHANGED job
      BY <1>10 DEF Vanish, StartInvestigation, QuotaDenied, Analyze, Diagnose, StartFix,
         AgentSucceeds, AgentFails, Caught, ReserveNew, CapReached, ReserveExisting, ListPulls,
         AdoptPull, ReadHead, Push, CreatePull, PushFails, RecordPushed, FindPull, CreateFails,
         FinalizeRefused, GiveUp, HandleError, StartWatch, CheckHead, ReadChecks, MarkReady,
         Promote, WorkOnly
  <2>. QED BY <1>1, <2>1
<1>11. CASE \/ \E j \in reconcile : Reconcile(j) \/ ReconcileLost(j)
            \/ \E e \in event : WebhookSeen(e) \/ WebhookRecovered(e)
            \/ \E g \in Groups : \/ DeleteBranch(g) \/ DeleteFails(g) \/ AutoResolve(g)
                                 \/ CloseEpisode(g) \/ Resolve(g) \/ Archive(g) \/ Unarchive(g)
                                 \/ PersonPushes(g)
            \/ \E n \in DOMAIN pull : ReopenPull(n) \/ \E merged \in BOOLEAN : ClosePull(n, merged)
            \/ UNCHANGED vars
  <2>1. UNCHANGED job
      BY <1>11 DEF Reconcile, ReconcileLost, WebhookSeen, WebhookRecovered, DeleteBranch,
         DeleteFails, AutoResolve, CloseEpisode, Resolve, Archive, Unarchive, PersonPushes,
         ReopenPull, ClosePull, vars
  <2>. QED BY <1>1, <2>1
<1>. QED
    BY <1>3, <1>4, <1>5, <1>7, <1>8, <1>9, <1>10, <1>11
       DEF Next, QueueStep, InvestigateStep, FixStep, WatchStep, PersonStep, Webhook

(* The status of an issue, or the one unarchiving gives back. *)
HasStatus(g, S) ==
  group[g].status \in S \/ (group[g].status = "archived" /\ group[g].before \in S)
\* The issue shows a pull request, or shows it again when it is unarchived.
Shown(g) == HasStatus(g, PRStatuses)

\* An issue has one investigation in its life, and one fix in flight.
OneOfAKind ==
  /\ \A i, j \in 1..Len(job) :
        job[i].group = job[j].group /\ job[i].type = "investigate" /\ job[j].type = "investigate"
          => i = j
  /\ \A g \in Groups : \A i, j \in ActiveJobs(g, "fix") : i = j

\* While an issue is new or analysed, and while an execution that holds the lease analyses it,
\* no fix is in flight: an investigation that is run again finds none to double.
Diagnosing ==
  /\ \A g \in Groups : HasStatus(g, {"new", "analyzing"}) => ActiveJobs(g, "fix") = {}
  /\ \A w \in Workers : work[w].pc \in {"analyze", "diagnose"} /\ Owns(w)
        => ActiveJobs(GroupOf(w), "fix") = {}

\* An issue that shows a pull request shows one of its own, its reservation is open on it,
\* and a fix still in flight is the one that delivered it.
LinkKept ==
  \A g \in Groups : Shown(g) =>
     /\ group[g].pr \in 1..Len(pull) /\ pull[group[g].pr].group = g
     /\ reserved[g].state = "open" /\ reserved[g].pr = group[g].pr
     /\ \A j \in ActiveJobs(g, "fix") : group[g].terminal = j

\* An execution of a fix that holds the lease works on an issue that shows no pull request
\* and that its job has not ended: what StartFix checked stays true while the lease lasts.
Fixing ==
  \A w \in Workers : work[w].pc \in FixPCs /\ Owns(w) =>
     ~Shown(GroupOf(w)) /\ group[GroupOf(w)].terminal # work[w].job

\* Merged means merged, archived or not.
MergedKept ==
  \A g \in Groups : HasStatus(g, {"merged"}) =>
     \E n \in 1..Len(pull) : pull[n].group = g /\ pull[n].state = "merged"

\* An automatic fix carries the draft posture, and what it opened was born a draft.
Drafts ==
  /\ \A w \in Workers : work[w].pc \in PosturePCs /\ JobOf(w).by = "auto" => work[w].posture = "draft"
  /\ \A n \in 1..Len(pull) : job[pull[n].by].by = "auto" => pull[n].bornDraft

\* Nothing is on GitHub that was not reserved: an execution that delivers carries the
\* reserved patch, and so do the branch and the pull requests until a person pushes.
Reserved ==
  /\ \A g \in Groups : reserved[g].state = None =>
        branch[g] = NoCommit /\ \A n \in 1..Len(pull) : pull[n].group # g
  /\ \A w \in Workers : work[w].pc \in PatchPCs \cup {"finalize"} => reserved[GroupOf(w)].state # None
  /\ \A w \in Workers : work[w].pc \in PatchPCs => work[w].patch = reserved[GroupOf(w)].patch
  /\ \A g \in Groups : branch[g] \in {NoCommit, Person, reserved[g].patch}
  /\ \A n \in 1..Len(pull) : pull[n].head \in {Person, reserved[pull[n].group].patch}

\* Until an outcome is recorded no reservation is closed, and the drafts are within the cap.
CapKept ==
  receipt = {} => /\ \A g \in Groups : reserved[g].state # "closed"
                  /\ Cardinality(OpenDraftReservations) <= DraftCap

\* The second inductive invariant: what the tables say of each other.
Related ==
  /\ OneOfAKind /\ Diagnosing /\ LinkKept /\ Fixing
  /\ MergedKept /\ Drafts /\ Reserved /\ CapKept

\* An issue that is filed away or back has no status it had not.
LEMMA Standing ==
  ASSUME Sound, NEW g \in Groups, Stands(g), NEW S \in SUBSET (Statuses \ {"archived"}),
         HasStatus(g, S)'
  PROVE  HasStatus(g, S)
<1>1. group[g] \in Group /\ (group[g].status = "archived" => group[g].before # None)
    BY DEF Sound, Typed, Referred
<1>2. group[g].before \in (Statuses \ {"archived"}) \cup {None} /\ None \notin S
    BY <1>1 DEF Group, Statuses, None
<1>. QED BY <1>1, <1>2 DEF Stands, HasStatus

(* Only a claim gives a lease. *)
LEMMA Held ==
  ASSUME Sound, JobMoves, NEW w \in Workers, work[w].pc # "idle", work'[w].job = work[w].job,
         work'[w].pc # "start", Owns(w)'
  PROVE  /\ Owns(w) /\ GroupOf(w)' = GroupOf(w)
<1> DEFINE j == work[w].job
<1>1. j \in 1..Len(job) /\ Follows(job'[j], job[j])
    BY Basics DEF JobMoves
<1>2. job'[j].status = "claimed" /\ job'[j].live /\ job'[j].owner = w
    BY DEF Owns, JobOf
<1> HIDE DEF j
<1>3. job[j].status = "claimed" /\ job[j].live /\ job[j].owner = w /\ job'[j].group = job[j].group
    BY <1>1, <1>2 DEF Follows, SameJob
<1>. QED BY <1>3 DEF Owns, JobOf, GroupOf, j

\* An execution that holds the lease of a fix has a fix in flight.
LEMMA Owned ==
  ASSUME Sound, NEW w \in Workers, work[w].pc # "idle", Owns(w), JobOf(w).type = "fix"
  PROVE  work[w].job \in ActiveJobs(GroupOf(w), "fix")
BY Basics DEF ActiveJobs, Owns, JobOf, GroupOf, Active

(* Two executions that hold the lease of a fix of one issue are one execution. *)
LEMMA OneFixer ==
  ASSUME Sound, OneOfAKind, NEW v \in Workers, NEW w \in Workers,
         work[v].pc # "idle", work[w].pc # "idle", Owns(v), Owns(w),
         JobOf(v).type = "fix", JobOf(w).type = "fix", GroupOf(v) = GroupOf(w)
  PROVE  v = w
<1>1. work[v].job = work[w].job
    BY Owned, Basics DEF OneOfAKind
<1>. QED BY <1>1 DEF Owns, JobOf

\* Two executions that hold the lease of the investigation of one issue are one execution.
LEMMA OneAnalyst ==
  ASSUME Sound, OneOfAKind, NEW v \in Workers, NEW w \in Workers,
         work[v].pc # "idle", work[w].pc # "idle", Owns(v), Owns(w),
         JobOf(v).type = "investigate", JobOf(w).type = "investigate", GroupOf(v) = GroupOf(w)
  PROVE  v = w
<1>1. work[v].job = work[w].job
    BY Basics DEF OneOfAKind, JobOf, GroupOf
<1>. QED BY <1>1 DEF Owns, JobOf

(* Where the active fixes of the next state come from. *)
LEMMA FixOrigin ==
  ASSUME Sound, JobMoves, FixMoves, NEW g \in Groups, NEW j \in ActiveJobs(g, "fix")'
  PROVE  \/ j \in ActiveJobs(g, "fix")
         \/ j = Len(job) + 1 /\ Created(g)
<1>1. j \in 1..Len(job') /\ job'[j].group = g /\ job'[j].type = "fix" /\ job'[j].status \in Active
    BY DEF ActiveJobs, JobMoves
<1>2. CASE j \in 1..Len(job)
  <2>1. Follows(job'[j], job[j])
      BY <1>2 DEF JobMoves
  <2>. QED BY <1>1, <1>2, <2>1, Basics DEF ActiveJobs, Follows, SameJob
<1>3. CASE j \notin 1..Len(job)
    BY <1>1, <1>3, Basics DEF FixMoves
<1>. QED BY <1>2, <1>3

\* A fix is created when none is in flight.
LEMMA CreatedAlone ==
  ASSUME Sound, Diagnosing, NEW g \in Groups, Created(g)
  PROVE  ActiveJobs(g, "fix") = {}
BY DEF Created, Triggered, Diagnosing

\* All that a step may do, from a sound state.
LEMMA Moves ==
  ASSUME Sound, [Next]_vars
  PROVE  /\ JobMoves /\ PullMoves /\ WorkMoves /\ ReservedMoves /\ EventMoves /\ BranchMoves
         /\ LedgerMoves /\ FixMoves
         /\ \A w \in Workers : Does(w)
         /\ \A g \in Groups : Changes(g) /\ Reserves(g)
BY JobSteps, PullSteps, WorkSteps, ReservedSteps, GitHubSteps, LedgerSteps, FixSteps,
   ExecutionSteps, IssueSteps, ReservationSteps

\* No step gives an issue a second investigation, or a second fix in flight.
LEMMA OneOfAKindKept == Sound /\ Related /\ [Next]_vars => OneOfAKind'
<1> SUFFICES ASSUME Sound, Related, [Next]_vars PROVE OneOfAKind'
    OBVIOUS
<1>1. JobMoves /\ FixMoves
    BY Moves
<1>2. ASSUME NEW i \in 1..Len(job'), NEW j \in 1..Len(job'), job'[i].group = job'[j].group,
             job'[i].type = "investigate", job'[j].type = "investigate"
      PROVE  i = j
  <2>1. i \in 1..Len(job) /\ j \in 1..Len(job)
      BY <1>1, <1>2, Basics DEF JobMoves, Fresh
  <2>2. job'[i].group = job[i].group /\ job'[j].group = job[j].group
        /\ job'[i].type = job[i].type /\ job'[j].type = job[j].type
      BY <1>1, <2>1 DEF JobMoves, Follows, SameJob
  <2>. QED BY <1>2, <2>1, <2>2 DEF Related, OneOfAKind
<1>3. ASSUME NEW g \in Groups, NEW i \in ActiveJobs(g, "fix")', NEW j \in ActiveJobs(g, "fix")'
      PROVE  i = j
  <2>1. i \in ActiveJobs(g, "fix") \/ (i = Len(job) + 1 /\ Created(g))
      BY <1>1, FixOrigin
  <2>2. j \in ActiveJobs(g, "fix") \/ (j = Len(job) + 1 /\ Created(g))
      BY <1>1, FixOrigin
  <2>3. Created(g) => ActiveJobs(g, "fix") = {}
      BY CreatedAlone DEF Related
  <2>. QED BY <2>1, <2>2, <2>3 DEF Related, OneOfAKind
<1>. QED BY <1>2, <1>3 DEF OneOfAKind

\* An analysis that holds the lease keeps the issue to itself: a person cannot trigger a fix
\* before the one investigation is completed.
LEMMA DiagnosingKept == Sound /\ Related /\ [Next]_vars => Diagnosing'
<1> SUFFICES ASSUME Sound, Related, [Next]_vars PROVE Diagnosing'
    OBVIOUS
<1>1. JobMoves /\ FixMoves /\ (\A w \in Workers : Does(w)) /\ \A g \in Groups : Changes(g)
    BY Moves
<1>2. ASSUME NEW g \in Groups, HasStatus(g, {"new", "analyzing"})', NEW j \in ActiveJobs(g, "fix")'
      PROVE  FALSE
  <2>1. j \in ActiveJobs(g, "fix")
    <3>1. group'[g].status # "fixing"
        BY <1>2 DEF HasStatus
    <3>. QED BY <1>1, <3>1, FixOrigin DEF Created
  <2>2. ~HasStatus(g, {"new", "analyzing"})
      BY <2>1 DEF Related, Diagnosing
  <2>3. ~Stands(g)
      BY <1>2, <2>2, Standing DEF Statuses
  <2>4. ~Diagnosed(g)
      BY <2>1 DEF Related, Diagnosing, Diagnosed
  <2>5. group'[g].status \in {"new", "analyzing", "archived"}
      BY <1>2 DEF HasStatus
  <2>. QED BY <1>1, <2>3, <2>4, <2>5 DEF Changes, Delivered, GivenUp, Promoted, Settled, Merged,
              Triggered, Reconciled, PRStatuses
<1>3. ASSUME NEW w \in Workers, work'[w].pc \in {"analyze", "diagnose"}, Owns(w)',
             NEW j \in ActiveJobs(GroupOf(w), "fix")'
      PROVE  FALSE
  <2>0. work[w].pc # "idle"
      BY <1>1, <1>3 DEF Does, Analyses, At
  <2>. PICK g \in Groups : g = GroupOf(w)
      BY <2>0, Basics
  <2>1. /\ work'[w].job = work[w].job
        /\ \/ work[w].pc \in {"analyze", "diagnose"}
           \/ /\ At(w, "start", "investigate")
              /\ group[g].status \in {"new", "analyzing"}
      BY <1>1, <1>3 DEF Does, Analyses
  <2>2. JobOf(w).type = "investigate"
      BY <2>1 DEF At, Sound, Role
  <2>3. Owns(w) /\ GroupOf(w)' = g
      BY <1>1, <1>3, <2>0, <2>1, Held
  <2>4. ActiveJobs(g, "fix") = {}
      BY <2>1, <2>2, <2>3 DEF Related, Diagnosing, HasStatus
  <2>5. j \in ActiveJobs(g, "fix")'
      BY <1>3, <2>3 DEF ActiveJobs
  <2>6. Created(g)
    <3>1. j \in ActiveJobs(g, "fix") \/ (j = Len(job) + 1 /\ Created(g))
        BY <1>1, <2>5, FixOrigin
    <3>. QED BY <2>4, <3>1
  <2>7. ~Triggered(g)
      BY <2>0, <2>2, <2>3, Basics DEF Triggered, Related, OneOfAKind, Owns, JobOf, GroupOf
  <2>8. PICK v \in Workers : /\ Owns(v) /\ GroupOf(v) = g /\ work[v].pc = "diagnose"
                             /\ work'[v].pc = "done"
      BY <2>6, <2>7 DEF Created
  <2>9. JobOf(v).type = "investigate"
      BY <2>8 DEF Sound, Role
  <2>10. v = w
      BY <2>0, <2>2, <2>3, <2>8, <2>9, OneAnalyst DEF Related
  <2>. QED BY <1>3, <2>8, <2>10
<1>. QED BY <1>2, <1>3 DEF Diagnosing

\* An issue keeps the pull request it shows: only the delivery that holds the lease of the one
\* fix in flight writes it, and the issue and the reservation in one transaction.
LEMMA LinkKeptKept == Sound /\ Related /\ [Next]_vars => LinkKept'
<1> SUFFICES ASSUME Sound, Related, [Next]_vars, NEW g \in Groups, Shown(g)'
             PROVE  /\ group'[g].pr \in 1..Len(pull') /\ pull'[group'[g].pr].group = g
                    /\ reserved'[g].state = "open" /\ reserved'[g].pr = group'[g].pr
                    /\ \A j \in ActiveJobs(g, "fix")' : group'[g].terminal = j
    BY DEF LinkKept
<1>1. JobMoves /\ PullMoves /\ FixMoves /\ Changes(g) /\ Reserves(g)
    BY Moves
<1>2. \A n \in 1..Len(pull) : n \in 1..Len(pull') /\ pull'[n].group = pull[n].group
    BY <1>1, Basics DEF PullMoves, SamePull
<1>3. group'[g].status \in PRStatuses \cup {"archived"}
    BY DEF Shown, HasStatus
<1>4. ASSUME NEW j \in ActiveJobs(g, "fix")' PROVE j \in ActiveJobs(g, "fix")
    BY <1>1, <1>3, FixOrigin DEF Created, PRStatuses
<1>5. CASE Stands(g) \/ Promoted(g)
  <2>1. Shown(g)
    <3>1. CASE Stands(g)
      <4>1. HasStatus(g, PRStatuses)' /\ PRStatuses \in SUBSET (Statuses \ {"archived"})
          BY DEF Shown, PRStatuses, Statuses
      <4>. QED BY <3>1, <4>1, Standing DEF Shown
    <3>2. CASE Promoted(g)
        BY <3>2 DEF Promoted, Shown, HasStatus, PRStatuses
    <3>. QED BY <1>5, <3>1, <3>2
  <2>2. group'[g].pr = group[g].pr /\ group'[g].terminal = group[g].terminal
      BY <1>5 DEF Stands, Promoted
  <2>3. /\ group[g].pr \in 1..Len(pull) /\ pull[group[g].pr].group = g
        /\ reserved[g].state = "open" /\ reserved[g].pr = group[g].pr
        /\ \A j \in ActiveJobs(g, "fix") : group[g].terminal = j
      BY <2>1 DEF Related, LinkKept
  <2>4. ~ \E w \in Workers : ReserveNew(w) /\ GroupOf(w) = g
      BY <2>3 DEF ReserveNew, None
  <2>5. ~ \E w \in Workers : /\ Owns(w) /\ GroupOf(w) = g
                             /\ work[w].pc \in {"adopt", "pushed", "finalize"}
      BY <2>1 DEF Related, Fixing, FixPCs
  <2>6. reserved'[g] = reserved[g]
      BY <1>1, <1>3, <2>4, <2>5 DEF Reserves, PRStatuses
  <2>. QED BY <1>2, <1>4, <2>2, <2>3, <2>6
<1>6. CASE Delivered(g)
  <2>1. PICK w \in Workers :
       /\ Owns(w) /\ GroupOf(w) = g /\ work[w].pc = "finalize" /\ work'[w].pc = "done"
       /\ group'[g].pr = work[w].pr /\ group'[g].terminal = work[w].job
       /\ reserved'[g].state = "open" /\ reserved'[g].pr = work[w].pr
      BY <1>6 DEF Delivered
  <2>2. JobOf(w).type = "fix" /\ work[w].pr \in 1..Len(pull) /\ pull[work[w].pr].group = g
      BY <2>1 DEF Sound, Role, FixPCs
  <2>3. work[w].job \in ActiveJobs(g, "fix")
      BY <2>1, <2>2, Owned
  <2>4. \A j \in ActiveJobs(g, "fix") : work[w].job = j
      BY <2>3 DEF Related, OneOfAKind
  <2>. QED BY <1>2, <1>4, <2>1, <2>2, <2>4
<1>. QED BY <1>1, <1>3, <1>5, <1>6 DEF Changes, Diagnosed, GivenUp, Settled, Merged,
            Triggered, Reconciled, PRStatuses

\* What StartFix found free stays free while the lease lasts: another writer of the issue would
\* be another fix in flight, an analysis, or the reconciliation of a job that is dead.
LEMMA FixingKept == Sound /\ Related /\ [Next]_vars => Fixing'
<1> SUFFICES ASSUME Sound, Related, [Next]_vars, NEW w \in Workers, work'[w].pc \in FixPCs, Owns(w)'
             PROVE  (~Shown(GroupOf(w)) /\ group[GroupOf(w)].terminal # work[w].job)'
    BY DEF Fixing
<1>1. JobMoves /\ Does(w) /\ \A g \in Groups : Changes(g)
    BY Moves
<1>2. /\ work'[w].job = work[w].job
      /\ \/ work[w].pc \in FixPCs
         \/ At(w, "start", "fix") /\ group[GroupOf(w)].terminal # work[w].job
    BY <1>1 DEF Does, Continues
<1>3. work[w].pc # "idle" /\ JobOf(w).type = "fix" /\ work'[w].pc # "start"
    BY <1>2 DEF At, FixPCs, Sound, Role
<1> PICK g \in Groups : g = GroupOf(w)
    BY <1>3, Basics
<1>4. Owns(w) /\ GroupOf(w)' = g
    BY <1>1, <1>2, <1>3, Held
<1>5. work[w].job \in ActiveJobs(g, "fix")
    BY <1>3, <1>4, Owned
<1>6. ~Shown(g) /\ group[g].terminal # work[w].job
  <2>1. group[g].terminal # work[w].job
      BY <1>2, <1>4 DEF Related, Fixing
  <2>. QED BY <1>5, <2>1 DEF Related, LinkKept
<1>7. ASSUME NEW v \in Workers, Owns(v), GroupOf(v) = g, work[v].pc \in FixPCs PROVE v = w
  <2>1. work[v].pc # "idle" /\ JobOf(v).type = "fix"
      BY <1>7 DEF Sound, Role, FixPCs
  <2>. QED BY <1>3, <1>4, <1>7, <2>1, OneFixer DEF Related
<1>8. ~Delivered(g) /\ ~GivenUp(g)
    BY <1>7 DEF Delivered, GivenUp, FixPCs
<1>9. ~Diagnosed(g)
    BY <1>5 DEF Related, Diagnosing, Diagnosed
<1>10. ~Triggered(g) /\ ~Promoted(g)
    BY <1>5, <1>6 DEF Triggered, Promoted, Shown, HasStatus, PRStatuses
<1>11. ~Shown(g)'
  <2>1. Stands(g) => ~HasStatus(g, PRStatuses)'
    <3>1. PRStatuses \in SUBSET (Statuses \ {"archived"})
        BY DEF PRStatuses, Statuses
    <3>. QED BY <1>6, <3>1, Standing DEF Shown
  <2>2. Stands(g) => ~Shown(g)'
      BY <2>1 DEF Shown
  <2>3. ~Stands(g) => group'[g].status \in {"needs_human", "investigated", "resolved", "merged"}
      BY <1>1, <1>8, <1>9, <1>10 DEF Changes, Settled, Merged, Reconciled
  <2>. QED BY <2>2, <2>3 DEF Shown, HasStatus, PRStatuses
<1>12. group'[g].terminal # work[w].job
  <2>1. CASE Reconciled(g)
    <3>1. job[group'[g].terminal].status = "dead_letter"
        BY <2>1 DEF Reconciled, Sound, Referred
    <3>. QED BY <1>4, <3>1 DEF Owns, JobOf
  <2>2. CASE group'[g].terminal = group[g].terminal
      BY <1>6, <2>2
  <2>. QED BY <1>1, <1>8, <1>9, <1>10, <2>1, <2>2 DEF Changes, Stands, Settled, Merged
<1>. QED BY <1>2, <1>4, <1>11, <1>12 DEF Shown, HasStatus

\* An issue becomes merged only by the delivery of a merge of its own pull request.
LEMMA MergedKeptKept == Sound /\ Related /\ [Next]_vars => MergedKept'
<1> SUFFICES ASSUME Sound, Related, [Next]_vars, NEW g \in Groups, HasStatus(g, {"merged"})'
             PROVE  \E n \in 1..Len(pull') : pull'[n].group = g /\ pull'[n].state = "merged"
    BY DEF MergedKept
<1>1. PullMoves /\ Changes(g)
    BY Moves
<1>2. \A n \in 1..Len(pull) : /\ n \in 1..Len(pull') /\ pull'[n].group = pull[n].group
                              /\ pull[n].state = "merged" => pull'[n].state = "merged"
    BY <1>1, Basics DEF PullMoves, SamePull
<1>3. CASE Stands(g)
  <2>1. HasStatus(g, {"merged"})
      BY <1>3, Standing DEF Statuses
  <2>. QED BY <1>2, <2>1 DEF Related, MergedKept
<1>4. CASE Merged(g)
  <2>1. PICK e \in event : e.merged /\ (Shows(g, e.pr) \/ pull[e.pr].group = g)
      BY <1>4 DEF Merged
  <2>2. e.pr \in 1..Len(pull) /\ pull[e.pr].state = "merged"
      BY <2>1 DEF Sound, Referred
  <2>3. pull[e.pr].group = g
      BY <2>1 DEF Shows, Related, LinkKept, Shown, HasStatus
  <2>. QED BY <1>2, <2>2, <2>3
<1>5. group'[g].status \in {"merged", "archived"}
    BY DEF HasStatus
<1>. QED BY <1>1, <1>3, <1>4, <1>5 DEF Changes, Diagnosed, Delivered, GivenUp, Promoted, Settled,
            Triggered, Reconciled, PRStatuses

\* No step opens an automatic pull request that is not a draft.
LEMMA DraftsKept == Sound /\ Related /\ [Next]_vars => Drafts'
<1> SUFFICES ASSUME Sound, Related, [Next]_vars PROVE Drafts'
    OBVIOUS
<1>1. JobMoves /\ PullMoves /\ \A w \in Workers : Does(w)
    BY Moves
<1>2. \A j \in 1..Len(job) : job'[j].by = job[j].by
    BY <1>1 DEF JobMoves, Follows, SameJob
<1>3. ASSUME NEW w \in Workers, work'[w].pc \in PosturePCs, JobOf(w).by' = "auto"
      PROVE  work'[w].posture = "draft"
  <2>1. work[w].pc # "idle" /\ work'[w].job = work[w].job
      BY <1>1, <1>3 DEF Does, Carries
  <2>2. JobOf(w).by = "auto"
      BY <1>2, <1>3, <2>1, Basics DEF JobOf
  <2>. QED BY <1>1, <1>3, <2>2 DEF Does, Carries, PosturePCs, PatchPCs, Related, Drafts
<1>4. ASSUME NEW n \in 1..Len(pull'), job'[pull'[n].by].by = "auto"
      PROVE  pull'[n].bornDraft
  <2>1. CASE n \in 1..Len(pull)
    <3>1. pull'[n].by = pull[n].by /\ pull[n].by \in 1..Len(job) /\ (pull[n].bornDraft => pull'[n].bornDraft)
        BY <1>1, <2>1 DEF PullMoves, SamePull, Sound, Referred
    <3>. QED BY <1>2, <1>4, <2>1, <3>1 DEF Related, Drafts
  <2>2. CASE n \notin 1..Len(pull)
    <3>1. PICK w \in Workers : Opened(pull'[n], w)
        BY <1>1, <2>2, Basics DEF PullMoves
    <3>2. work[w].pc = "create" /\ pull'[n].by = work[w].job /\ work[w].job \in 1..Len(job)
        BY <3>1, Basics DEF Opened
    <3>3. JobOf(w).by = "auto"
        BY <1>2, <1>4, <3>2 DEF JobOf
    <3>. QED BY <3>1, <3>2, <3>3 DEF Opened, Related, Drafts, PosturePCs, PatchPCs
  <2>. QED BY <2>1, <2>2
<1>. QED BY <1>3, <1>4 DEF Drafts

\* Whichever execution pushes or opens carries the patch the reservation has kept since it was
\* made.
LEMMA ReservedKept == Sound /\ Related /\ [Next]_vars => Reserved'
<1> SUFFICES ASSUME Sound, Related, [Next]_vars PROVE Reserved'
    OBVIOUS
<1>1. /\ JobMoves /\ PullMoves /\ ReservedMoves /\ BranchMoves
      /\ \A w \in Workers : Does(w)
    BY Moves
<1>2. Reserved
    BY DEF Related
<1>3. ASSUME NEW g \in Groups
      PROVE  /\ reserved'[g].state = None => reserved[g].state = None
             /\ reserved[g].state # None => reserved'[g].patch = reserved[g].patch
    BY <1>1 DEF ReservedMoves, Keeps
<1>4. ASSUME NEW n \in 1..Len(pull)
      PROVE  pull'[n].group = pull[n].group /\ pull[n].group \in Groups
             /\ pull'[n].head \in {pull[n].head, Person}
    BY <1>1, Basics DEF PullMoves, SamePull, Pull
<1>5. ASSUME NEW n \in 1..Len(pull'), n \notin 1..Len(pull)
      PROVE  \E w \in Workers : /\ Opened(pull'[n], w) /\ GroupOf(w) \in Groups
                                /\ reserved[GroupOf(w)].state # None
  <2>1. PICK w \in Workers : Opened(pull'[n], w)
      BY <1>1, <1>5, Basics DEF PullMoves
  <2>2. work[w].pc = "create"
      BY <2>1 DEF Opened
  <2>3. reserved[GroupOf(w)].state # None /\ GroupOf(w) \in Groups
      BY <1>2, <2>2, Basics DEF Reserved, PatchPCs
  <2>. QED BY <2>1, <2>3
<1>6. ASSUME NEW g \in Groups, reserved'[g].state = None
      PROVE  branch'[g] = NoCommit /\ \A n \in 1..Len(pull') : pull'[n].group # g
  <2>1. reserved[g].state = None
      BY <1>3, <1>6
  <2>2. branch[g] = NoCommit /\ \A n \in 1..Len(pull) : pull[n].group # g
      BY <1>2, <2>1 DEF Reserved
  <2>3. \A w \in Workers : work[w].pc = "push" => GroupOf(w) # g
      BY <1>2, <2>1 DEF Reserved, PatchPCs
  <2>4. branch'[g] = NoCommit
      BY <1>1, <2>2, <2>3 DEF BranchMoves
  <2>5. ASSUME NEW n \in 1..Len(pull') PROVE pull'[n].group # g
    <3>1. CASE n \in 1..Len(pull)
        BY <1>4, <2>2, <3>1
    <3>2. CASE n \notin 1..Len(pull)
        BY <1>5, <2>1, <3>2 DEF Opened
    <3>. QED BY <3>1, <3>2
  <2>. QED BY <2>4, <2>5
<1>7. ASSUME NEW w \in Workers, work'[w].pc \in PatchPCs \cup {"finalize"}
      PROVE  /\ reserved'[GroupOf(w)'].state # None
             /\ work'[w].pc \in PatchPCs => work'[w].patch = reserved'[GroupOf(w)'].patch
  <2>1. work[w].pc # "idle" /\ work'[w].job = work[w].job
      BY <1>1, <1>7 DEF Does, Carries, PosturePCs
  <2> PICK g \in Groups : g = GroupOf(w)
      BY <2>1, Basics
  <2>2. GroupOf(w)' = g
      BY <1>1, <2>1, Basics DEF GroupOf, JobOf, JobMoves, Follows, SameJob
  <2>3. \/ /\ \/ work[w].pc \in PatchPCs
              \/ work'[w].pc = "finalize" /\ work[w].pc = "finalize"
           /\ work'[w].patch = work[w].patch
        \/ /\ reserved'[g].state # None
           /\ work'[w].patch = reserved'[g].patch
      BY <1>1, <1>7 DEF Does, Carries, PosturePCs, PatchPCs
  <2>4. CASE work[w].pc \in PatchPCs \cup {"finalize"} /\ work'[w].patch = work[w].patch
    <3>1. reserved[g].state # None /\ (work[w].pc \in PatchPCs => work[w].patch = reserved[g].patch)
        BY <1>2, <2>4 DEF Reserved
    <3>2. reserved'[g].state # None /\ reserved'[g].patch = reserved[g].patch
        BY <1>3, <3>1
    <3>. QED BY <2>2, <2>3, <2>4, <3>1, <3>2 DEF PatchPCs
  <2>5. CASE reserved'[g].state # None /\ work'[w].patch = reserved'[g].patch
      BY <2>2, <2>5
  <2>. QED BY <2>3, <2>4, <2>5
<1>8. ASSUME NEW g \in Groups PROVE branch'[g] \in {NoCommit, Person, reserved'[g].patch}
  <2>1. branch[g] \in {NoCommit, Person, reserved[g].patch}
        /\ (reserved[g].state = None => branch[g] = NoCommit)
      BY <1>2 DEF Reserved
  <2>2. CASE branch'[g] \in {branch[g], NoCommit, Person}
      BY <1>3, <2>1, <2>2
  <2>3. ASSUME NEW w \in Workers, work[w].pc = "push", GroupOf(w) = g, branch'[g] = work[w].patch
        PROVE  branch'[g] = reserved'[g].patch
    <3>1. reserved[g].state # None /\ work[w].patch = reserved[g].patch
        BY <1>2, <2>3 DEF Reserved, PatchPCs
    <3>. QED BY <1>3, <2>3, <3>1
  <2>. QED BY <1>1, <2>2, <2>3 DEF BranchMoves
<1>9. ASSUME NEW n \in 1..Len(pull')
      PROVE  pull'[n].head \in {Person, reserved'[pull'[n].group].patch}
  <2>1. CASE n \in 1..Len(pull)
    <3> PICK g \in Groups : g = pull[n].group
        BY <1>4, <2>1
    <3>1. reserved[g].state # None /\ pull[n].head \in {Person, reserved[g].patch}
        BY <1>2, <2>1 DEF Reserved
    <3>2. reserved'[g].patch = reserved[g].patch
        BY <1>3, <3>1
    <3>. QED BY <1>4, <2>1, <3>1, <3>2
  <2>2. CASE n \notin 1..Len(pull)
    <3>1. PICK w \in Workers : /\ Opened(pull'[n], w) /\ GroupOf(w) \in Groups
                               /\ reserved[GroupOf(w)].state # None
        BY <1>5, <2>2
    <3> PICK g \in Groups : g = GroupOf(w)
        BY <3>1
    <3>2. pull'[n].group = g /\ pull'[n].head = branch[g] /\ pull'[n].head # NoCommit
        BY <3>1 DEF Opened
    <3>3. branch[g] \in {NoCommit, Person, reserved[g].patch}
        BY <1>2 DEF Reserved
    <3>4. reserved'[g].patch = reserved[g].patch
        BY <1>3, <3>1
    <3>. QED BY <3>2, <3>3, <3>4
  <2>. QED BY <2>1, <2>2
<1>. QED BY <1>6, <1>7, <1>8, <1>9 DEF Reserved, PatchPCs

\* Only a new reservation takes a place, and it counts the places first.
LEMMA CapKeptKept == Sound /\ Related /\ [Next]_vars => CapKept'
<1> SUFFICES ASSUME Sound, Related, [Next]_vars, receipt' = {}
             PROVE  /\ \A g \in Groups : reserved'[g].state # "closed"
                    /\ Cardinality(OpenDraftReservations') <= DraftCap
    BY DEF CapKept
<1>1. LedgerMoves /\ ReservedMoves /\ \A g \in Groups : Reserves(g)
    BY Moves
<1>2. receipt = {}
    BY <1>1 DEF LedgerMoves
<1>3. (\A g \in Groups : reserved[g].state # "closed")
      /\ Cardinality(OpenDraftReservations) <= DraftCap
    BY <1>2 DEF Related, CapKept
<1>4. \A g \in Groups : reserved'[g].state # "closed"
    BY <1>1, <1>3 DEF ReservedMoves, Keeps
<1>5. ASSUME NEW g \in Groups, reserved[g].state # None, g \in OpenDraftReservations'
      PROVE  g \in OpenDraftReservations
  <2>1. reserved'[g].posture = "draft" /\ reserved'[g].posture = reserved[g].posture
      BY <1>1, <1>5 DEF ReservedMoves, Keeps, OpenDraftReservations
  <2>2. reserved[g] \in Reservation
      BY DEF Sound, Typed
  <2>. QED BY <1>3, <1>5, <2>1, <2>2 DEF OpenDraftReservations, Reservation
<1>6. ASSUME NEW g \in Groups, reserved[g].state = None, g \in OpenDraftReservations'
      PROVE  \E w \in Workers : ReserveNew(w) /\ GroupOf(w) = g
  <2>1. reserved'[g].state # None
      BY <1>6 DEF OpenDraftReservations, None
  <2>2. group[g].status \notin PRStatuses
      BY <1>6 DEF Related, LinkKept, Shown, HasStatus, None
  <2>3. ~ \E w \in Workers : /\ Owns(w) /\ GroupOf(w) = g
                             /\ work[w].pc \in {"adopt", "pushed", "finalize"}
      BY <1>6 DEF Related, Reserved, PatchPCs
  <2>. QED BY <1>1, <1>6, <2>1, <2>2, <2>3 DEF Reserves
<1>7. IsFiniteSet(Groups) /\ DraftCap \in Nat
    BY IncidentAssumption
<1>8. IsFiniteSet(OpenDraftReservations) /\ Cardinality(OpenDraftReservations) \in Nat
  <2>1. OpenDraftReservations \in SUBSET Groups
      BY DEF OpenDraftReservations
  <2>2. IsFiniteSet(OpenDraftReservations)
      BY <1>7, <2>1, FS_Subset
  <2>. QED BY <2>2, FS_CardinalityType
<1>9. CASE OpenDraftReservations' \subseteq OpenDraftReservations
  <2>1. Cardinality(OpenDraftReservations') <= Cardinality(OpenDraftReservations)
        /\ IsFiniteSet(OpenDraftReservations')
      BY <1>8, <1>9, FS_Subset
  <2>2. Cardinality(OpenDraftReservations') \in Nat
      BY <2>1, FS_CardinalityType
  <2>. QED BY <1>3, <1>4, <1>7, <1>8, <2>1, <2>2
<1>10. CASE ~(OpenDraftReservations' \subseteq OpenDraftReservations)
  <2>1. PICK g \in Groups : g \in OpenDraftReservations' /\ g \notin OpenDraftReservations
      BY <1>10 DEF OpenDraftReservations
  <2>2. PICK w \in Workers : ReserveNew(w) /\ GroupOf(w) = g
      BY <1>5, <1>6, <2>1
  <2>3. work[w].posture = "draft" => Cardinality(OpenDraftReservations) < DraftCap
      BY <2>2 DEF ReserveNew
  <2>4. \A h \in Groups : h # g => reserved'[h] = reserved[h]
      BY <2>2 DEF ReserveNew, Sound, Typed
  <2>5. work[w].posture = "draft"
    <3> DEFINE r == [NoReservation EXCEPT !.state = "reserved", !.posture = work[w].posture,
                                          !.patch = work[w].patch]
    <3>1. r.posture = work[w].posture
        BY DEF NoReservation
    <3>2. reserved' = [reserved EXCEPT ![g] = r]
        BY <2>2 DEF ReserveNew
    <3> HIDE DEF r
    <3>3. reserved'[g] = r
        BY <3>2 DEF Sound, Typed
    <3>4. reserved'[g].posture = "draft"
        BY <2>1 DEF OpenDraftReservations
    <3>. QED BY <3>1, <3>3, <3>4
  <2>6. OpenDraftReservations' \in SUBSET (OpenDraftReservations \cup {g})
      BY <2>4 DEF OpenDraftReservations
  <2>7. IsFiniteSet(OpenDraftReservations \cup {g})
        /\ Cardinality(OpenDraftReservations \cup {g}) = Cardinality(OpenDraftReservations) + 1
      BY <1>8, <2>1, FS_AddElement
  <2>8. IsFiniteSet(OpenDraftReservations')
        /\ Cardinality(OpenDraftReservations') <= Cardinality(OpenDraftReservations) + 1
      BY <2>6, <2>7, FS_Subset
  <2>9. Cardinality(OpenDraftReservations') \in Nat
      BY <2>8, FS_CardinalityType
  <2>. QED BY <1>4, <1>7, <1>8, <2>3, <2>5, <2>8, <2>9
<1>. QED BY <1>9, <1>10

\* An issue begins so.
LEMMA InitRelated == Init => Related
<1> SUFFICES ASSUME Init PROVE Related
    OBVIOUS
<1>1. /\ \A g \in Groups : group[g].status = "new" /\ reserved[g].state = None
                           /\ branch[g] = NoCommit
      /\ \A w \in Workers : work[w].pc = "idle"
      /\ Len(pull) = 0
    BY DEF Init, Idle, NoReservation
<1>2. /\ \A j \in 1..Len(job) : job[j].type = "investigate"
      /\ \A i, j \in 1..Len(job) : job[i].group = job[j].group => i = j
      /\ DOMAIN job = 1..Len(job)
    BY InitJobs
<1>3. \A g \in Groups : ActiveJobs(g, "fix") = {}
    BY <1>2 DEF ActiveJobs
<1>4. CapKept
  <2>1. OpenDraftReservations = {}
      BY <1>1 DEF OpenDraftReservations, None
  <2>2. Cardinality(OpenDraftReservations) = 0 /\ DraftCap \in Nat
      BY <2>1, FS_EmptySet, IncidentAssumption
  <2>. QED BY <1>1, <2>2 DEF CapKept, None
<1>5. \A g \in Groups : ~HasStatus(g, PRStatuses) /\ ~HasStatus(g, {"merged"})
    BY <1>1 DEF HasStatus, PRStatuses
<1>6. \A w \in Workers : work[w].pc \notin FixPCs \cup PosturePCs \cup {"analyze", "diagnose"}
    BY <1>1 DEF FixPCs, PosturePCs, PatchPCs
<1>7. OneOfAKind /\ Diagnosing /\ LinkKept /\ Fixing /\ MergedKept /\ Drafts
    BY <1>1, <1>2, <1>3, <1>5, <1>6
       DEF OneOfAKind, Diagnosing, LinkKept, Shown, Fixing, MergedKept, Drafts
<1>8. Reserved
    BY <1>1, <1>6 DEF Reserved, FixPCs, PatchPCs
<1>. QED BY <1>4, <1>7, <1>8 DEF Related

\* The relations are inductive, over sound states.
LEMMA RelatedKept == Sound /\ Related /\ [Next]_vars => Related'
BY OneOfAKindKept, DiagnosingKept, LinkKeptKept, FixingKept, MergedKeptKept, DraftsKept,
   ReservedKept, CapKeptKept DEF Related

\* They hold in every reachable state.
LEMMA RelatedAlways == Spec => []Related
<1>1. Init => Sound /\ Related
    BY InitSound, InitRelated
<1>2. Sound /\ Related /\ [Next]_vars => (Sound /\ Related)'
    BY SoundKept, RelatedKept
<1>. QED BY <1>1, <1>2, PTL DEF Spec

\* StatusIsHonest, for any issues, workers and bounds: the rows are of their types whatever people,
\* webhooks and lapsed workers do; a pull request of an automatic fix is born a draft, also when
\* a later execution opens it from the reservation of an earlier one; and an issue is merged only if a pull request of
\* its own was merged on GitHub, in whatever order closes, reopenings and merges arrive.
THEOREM StatusIsHonestHolds == Spec => []StatusIsHonest
<1>1. Sound /\ Related => StatusIsHonest
  <2> SUFFICES ASSUME Sound, Related PROVE StatusIsHonest
      OBVIOUS
  <2>1. DOMAIN job = 1..Len(job) /\ DOMAIN pull = 1..Len(pull)
      BY Basics
  <2>2. TypeOK
      BY <2>1, Basics DEF TypeOK, Sound, Typed, Role
  <2>3. AutoOpensDraft
      BY <2>1 DEF AutoOpensDraft, Related, Drafts
  <2>4. MergedIsReal
      BY <2>1 DEF MergedIsReal, Related, MergedKept, HasStatus
  <2>. QED BY <2>2, <2>3, <2>4 DEF StatusIsHonest
<1>. QED BY <1>1, SoundAlways, RelatedAlways, PTL

\* DeliveryAgrees, for any issues, workers and bounds: the branch and the pull requests carry the
\* reserved patch until a person pushes, and an issue that shows a pull request shows one
\* of its own, on which its reservation is open.  What carries it: a push has no fence,
\* but the patch it brings is the reservation's, which no step changes.
THEOREM DeliveryAgreesHolds == Spec => []DeliveryAgrees
<1>1. Sound /\ Related => DeliveryAgrees
  <2> SUFFICES ASSUME Sound, Related PROVE DeliveryAgrees
      OBVIOUS
  <2>1. DOMAIN pull = 1..Len(pull)
      BY Basics
  <2>2. PublishedIsReserved
      BY <2>1 DEF PublishedIsReserved, Related, Reserved
  <2>3. LinkedPR
      BY <2>1 DEF LinkedPR, Related, LinkKept, Shown, HasStatus
  <2>. QED BY <2>2, <2>3 DEF DeliveryAgrees
<1>. QED BY <1>1, SoundAlways, RelatedAlways, PTL

\* CapHeldUntilOutcome, for any cap and any number of issues and workers: reserveDelivery counts
\* and inserts in one transaction, so concurrent fixes cannot pass the cap together.
THEOREM CapHeldUntilOutcomeHolds == Spec => []CapHeldUntilOutcome
<1>1. Related => CapHeldUntilOutcome
    BY DEF Related, CapKept, CapHeldUntilOutcome
<1>. QED BY <1>1, RelatedAlways, PTL

\* An execution writes its issue while it analyses, when a watch promotes, or as a fix that
\* holds its lease.
LEMMA Writers ==
  ASSUME Sound, [Next]_vars, NEW w \in Workers, work'[w] # work[w], group' # group
  PROVE  \/ work[w].pc \in {"analyze", "diagnose", "promote"}
         \/ work[w].pc \in FixPCs /\ Owns(w)
<1> DEFINE Writes(v) == \/ work[v].pc \in {"analyze", "diagnose", "promote"}
                        \/ work[v].pc \in FixPCs /\ Owns(v)
<1>1. ASSUME NEW v \in Workers, NEW r, work' = [work EXCEPT ![v] = r], Writes(v)
      PROVE  Writes(w)
  <2>1. v = w
      BY <1>1 DEF Sound, Typed
  <2>. QED BY <1>1, <2>1
<1>2. ASSUME NEW v \in Workers, InvestigateStep(v) PROVE Writes(w)
  <2>1. CASE Analyze(v)
      BY <1>1, <2>1 DEF Analyze, GoTo
  <2>2. CASE \E status \in {"needs_human", "insight"} : Diagnose(v, status)
      BY <1>1, <2>2 DEF Diagnose, Finish
  <2>3. CASE CreateFix(v)
      BY <1>1, <2>3 DEF CreateFix, Finish
  <2>4. CASE StartInvestigation(v) \/ QuotaDenied(v) \/ Exhaust(v)
      BY <2>4 DEF StartInvestigation, QuotaDenied, Exhaust, WorkOnly
  <2>. QED BY <1>2, <2>1, <2>2, <2>3, <2>4 DEF InvestigateStep
<1>3. ASSUME NEW v \in Workers, FixStep(v) PROVE Writes(w)
  <2>1. CASE Finalize(v)
      BY <1>1, <2>1 DEF Finalize, Finish, FixPCs
  <2>2. CASE GiveUp(v)
      BY <1>1, <2>2 DEF GiveUp, Finish, FixPCs
  <2>3. CASE HandleError(v)
      BY <1>1, <2>3 DEF HandleError, Finish, FixPCs
  <2>4. CASE Restore(v)
      BY <1>1, <2>4 DEF Restore, Leave, FixPCs
  <2>5. CASE \/ StartFix(v) \/ AgentSucceeds(v) \/ Caught(v) \/ ReserveNew(v) \/ CapReached(v)
             \/ \E pc \in {"giveup", "incomplete"} : AgentFails(v, pc)
      BY <2>5 DEF StartFix, AgentSucceeds, AgentFails, Caught, ReserveNew, CapReached, WorkOnly
  <2>6. CASE \/ ReserveExisting(v) \/ ListPulls(v) \/ AdoptPull(v) \/ ReadHead(v)
             \/ \E heard \in BOOLEAN : Push(v, heard) \/ CreatePull(v, heard)
      BY <2>6 DEF ReserveExisting, ListPulls, AdoptPull, ReadHead, Push, CreatePull, WorkOnly
  <2>7. CASE \/ PushFails(v) \/ RecordPushed(v) \/ FindPull(v) \/ CreateFails(v)
             \/ FinalizeRefused(v)
      BY <2>7 DEF PushFails, RecordPushed, FindPull, CreateFails, FinalizeRefused, WorkOnly
  <2>. QED BY <1>3, <2>1, <2>2, <2>3, <2>4, <2>5, <2>6, <2>7 DEF FixStep
<1>4. ASSUME NEW v \in Workers, WatchStep(v) PROVE Writes(w)
  <2>1. CASE Promote(v)
      BY <1>1, <2>1 DEF Promote, Finish
  <2>2. CASE UNCHANGED group
      BY <2>2
  <2>. QED BY <1>4, <2>1, <2>2
           DEF WatchStep, StartWatch, CheckHead, ReadChecks, Reschedule, MarkReady, WorkOnly
<1>5. CASE UNCHANGED group
    BY <1>5
<1>6. CASE UNCHANGED work
    BY <1>6
<1>7. QueueStep => UNCHANGED group \/ UNCHANGED work
  <2>1. ASSUME NEW v \in Workers, Complete(v) \/ Vanish(v) \/ Throw(v) PROVE UNCHANGED group
      BY <2>1 DEF Complete, Vanish, Throw, WorkOnly
  <2>2. ASSUME NEW v \in Workers, NEW j \in DOMAIN job, Claim(v, j) PROVE UNCHANGED group
      BY <2>2 DEF Claim
  <2>3. ASSUME NEW j \in DOMAIN job, LeaseExpires(j) \/ Reap(j) \/ Rerun(j) PROVE UNCHANGED work
      BY <2>3 DEF LeaseExpires, Reap, Rerun
  <2>4. ASSUME NEW j \in reconcile, Reconcile(j) \/ ReconcileLost(j) PROVE UNCHANGED work
      BY <2>4 DEF Reconcile, ReconcileLost
  <2>. QED BY <2>1, <2>2, <2>3, <2>4 DEF QueueStep
<1>8. (\E e \in event : Webhook(e)) \/ PersonStep => UNCHANGED work
  <2>1. ASSUME NEW e \in event, Webhook(e) PROVE UNCHANGED work
      BY <2>1 DEF Webhook, WebhookSeen, WebhookMatched, WebhookRecovered
  <2>2. ASSUME NEW g \in Groups, TriggerFix(g) \/ Resolve(g) \/ Archive(g) \/ Unarchive(g)
                                 \/ PersonPushes(g)
        PROVE  UNCHANGED work
      BY <2>2 DEF TriggerFix, Resolve, Archive, Unarchive, PersonPushes
  <2>3. ASSUME NEW n \in DOMAIN pull, ReopenPull(n) \/ \E merged \in BOOLEAN : ClosePull(n, merged)
        PROVE  UNCHANGED work
      BY <2>3 DEF ReopenPull, ClosePull
  <2>. QED BY <2>1, <2>2, <2>3 DEF PersonStep
<1>9. (\E g \in Groups : DeleteBranch(g) \/ DeleteFails(g) \/ AutoResolve(g) \/ CloseEpisode(g))
      \/ UNCHANGED vars => UNCHANGED work
    BY DEF DeleteBranch, DeleteFails, AutoResolve, CloseEpisode, vars
<1>10. Writes(w)
    BY <1>2, <1>3, <1>4, <1>5, <1>6, <1>7, <1>8, <1>9 DEF Next
<1>. QED BY <1>10

\* AdoptedOnce, for any issues, workers and bounds: once terminal_fix_job_id names a fix job, no
\* execution of that job, retried after a crash or a lost lease, writes the issue again.
THEOREM AdoptedOnceHolds == Spec => AdoptedOnce
<1> DEFINE A(w) ==
      /\ work[w].pc # "idle" /\ work'[w] # work[w]
      /\ JobOf(w).type = "fix" /\ group[GroupOf(w)].terminal = work[w].job
      => group'[GroupOf(w)] = group[GroupOf(w)]
<1>1. Sound /\ Related /\ [Next]_vars => [\A w \in Workers : A(w)]_vars
  <2> SUFFICES ASSUME Sound, Related, [Next]_vars, NEW w \in Workers,
                      work[w].pc # "idle", work'[w] # work[w],
                      JobOf(w).type = "fix", group[GroupOf(w)].terminal = work[w].job
               PROVE  group'[GroupOf(w)] = group[GroupOf(w)]
      OBVIOUS
  <2>1. CASE group' = group
      BY <2>1
  <2>2. CASE group' # group
    <3>1. work[w].pc \in FixPCs /\ Owns(w)
        BY <2>2, Writers DEF Sound, Role, WatchPCs
    <3>. QED BY <3>1 DEF Related, Fixing
  <2>. QED BY <2>1, <2>2
<1>. QED BY <1>1, SoundAlways, RelatedAlways, PTL DEF AdoptedOnce, Spec
=============================================================================
