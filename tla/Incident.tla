------------------------------ MODULE Incident ------------------------------
(***************************************************************************)
(* The life of an error issue from its investigation to a merged pull      *)
(* request: the status of the issue, the jobs that work on it, the         *)
(* delivery reservation, the branch and the pull requests on GitHub, the   *)
(* webhooks that report on them, and the people who act meanwhile.         *)
(*                                                                         *)
(* A worker's step is one database statement or transaction, or one call   *)
(* to GitHub.  A claim is named by its worker: JobQueue shows that the     *)
(* fence (worker, generation, status, lease) admits one execution at most. *)
(***************************************************************************)
EXTENDS Naturals, Sequences, FiniteSets

CONSTANTS
  Groups,        \* error issues of one project
  Workers,       \* poll loops
  MaxAttempts,   \* max_attempts of a job
  DraftCap,      \* draft_pr_cap of the project
  Quiet,         \* the issues that stay silent long enough for the sweeps to resolve
  MaxActs,       \* bound of the model: acts of people
  MaxReturns     \* bound of the model: reschedules of a watch, re-runs of an investigation

NoWorker == "no worker"
None == "none"

ASSUME IncidentAssumption ==
  /\ IsFiniteSet(Groups)
  /\ NoWorker \notin Workers
  /\ MaxAttempts \in Nat \ {0}
  /\ DraftCap \in Nat
  /\ Quiet \subseteq Groups
  /\ MaxActs \in Nat
  /\ MaxReturns \in Nat

VARIABLES
  group,      \* the rows of error_groups
  job,        \* the rows of error_group_jobs, in the order of their insertion
  work,       \* what each worker is doing
  reserved,   \* the rows of delivery_reservations, one per issue
  branch,     \* GitHub: the commit at the head of each issue's branch
  pull,       \* GitHub: the pull requests, by number
  event,      \* GitHub: the pull-request deliveries sent so far
  receipt,    \* the deliveries recorded in pr_outcomes
  cleanup,    \* branches the webhook handler is about to delete
  reconcile,  \* dead-lettered fix jobs whose issue the reaper will update
  acts        \* acts of people so far

vars == <<group, job, work, reserved, branch, pull, event, receipt, cleanup,
          reconcile, acts>>
github == <<branch, pull, event>>
ledger == <<receipt, cleanup>>

Statuses == {"new", "analyzing", "investigated", "fixing", "needs_human", "insight",
             "pr_draft", "pr_created", "merged", "resolved", "archived"}
PRStatuses == {"pr_draft", "pr_created"}
Active == {"pending", "claimed"}

(* A commit, named by the fix job and the execution that wrote its patch. *)
Commits == [job: Nat, run: Nat]
NoCommit == [job |-> 0, run |-> 0]
Person == [job |-> 0, run |-> 1]     \* whatever a person pushed

Group == [status: Statuses,
          pr: Nat,             \* pr_number; 0 is NULL
          fixJob: Nat,         \* pr_fix_job_id
          terminal: Nat,       \* terminal_fix_job_id
          before: (Statuses \ {"archived"}) \cup {None},   \* status_before_archive
          open: BOOLEAN]       \* its episode is open

Job == [group: Groups,
        type: {"investigate", "fix", "ci_watch"},
        by: {"auto", "human"},
        status: Active \cup {"completed", "dead_letter"},
        owner: Workers \cup {NoWorker},
        live: BOOLEAN,         \* lease_expires_at > now()
        attempts: 0..MaxAttempts,
        returns: 0..MaxReturns,
        pr: Nat,               \* a ci_watch payload: the pull request
        head: Commits]         \* and the commit to watch

Reservation == [state: {None, "reserved", "pushed", "open", "closed"},
                posture: {"draft", "ready"},
                patch: Commits,
                head: Commits,
                pr: Nat]

Pull == [group: Groups, state: {"open", "closed", "merged"}, draft: BOOLEAN,
         head: Commits, by: Nat, bornDraft: BOOLEAN, closes: Nat]

Event == [pr: Nat, merged: BOOLEAN, nth: Nat]

Worker == [pc: {"idle", "start", "analyze", "diagnose", "agent", "reserve", "list",
                "adopt", "head", "push", "pushed", "create", "finalize", "giveup",
                "incomplete", "error", "pull", "checks", "green", "promote", "done"},
           job: Nat,
           posture: {"draft", "ready"},
           patch: Commits,
           head: Commits,
           pr: Nat]

NewJob(g, type, by) ==
  [group |-> g, type |-> type, by |-> by, status |-> "pending", owner |-> NoWorker,
   live |-> FALSE, attempts |-> 0, returns |-> 0, pr |-> 0, head |-> NoCommit]

Idle == [pc |-> "idle", job |-> 0, posture |-> "draft", patch |-> NoCommit, head |-> NoCommit,
         pr |-> 0]

NoReservation ==
  [state |-> None, posture |-> "draft", patch |-> NoCommit, head |-> NoCommit, pr |-> 0]

(* Every issue is new, its episode is open and its inquiry asked for an investigation. *)
Init ==
  /\ group = [g \in Groups |-> [status |-> "new", pr |-> 0, fixJob |-> 0, terminal |-> 0,
                                before |-> None, open |-> TRUE]]
  /\ LET order == CHOOSE f \in [1..Cardinality(Groups) -> Groups] :
                      \A g \in Groups : \E i \in DOMAIN f : f[i] = g
     IN  job = [i \in 1..Cardinality(Groups) |-> NewJob(order[i], "investigate", "auto")]
  /\ work = [w \in Workers |-> Idle]
  /\ reserved = [g \in Groups |-> NoReservation]
  /\ branch = [g \in Groups |-> NoCommit]
  /\ pull = <<>>
  /\ event = {}
  /\ receipt = {}
  /\ cleanup = {}
  /\ reconcile = {}
  /\ acts = 0

-----------------------------------------------------------------------------
(* What a worker's claim refers to. *)
JobOf(w) == job[work[w].job]
GroupOf(w) == JobOf(w).group
At(w, pc, type) == work[w].pc = pc /\ JobOf(w).type = type

(* The fence of every write made under a claim. *)
Owns(w) ==
  /\ JobOf(w).status = "claimed"
  /\ JobOf(w).owner = w
  /\ JobOf(w).live

ActiveJobs(g, type) ==
  {j \in DOMAIN job : job[j].group = g /\ job[j].type = type /\ job[j].status \in Active}

OpenPulls(g) == {n \in DOMAIN pull : pull[n].group = g /\ pull[n].state = "open"}

WorkOnly == UNCHANGED <<group, job, reserved, github, ledger, reconcile, acts>>
GoTo(w, pc) == work' = [work EXCEPT ![w].pc = pc]
Leave(w) == work' = [work EXCEPT ![w] = Idle]
Finish(w, pc) ==
  work' = [work EXCEPT ![w] = [Idle EXCEPT !.pc = pc, !.job = work[w].job]]
SetStatus(g, status) == group' = [group EXCEPT ![g].status = status]

(* updateGroupStatus: the status, and the PR fields it was not given become NULL. *)
Updated(row, status, terminal) ==
  [row EXCEPT !.status = status, !.pr = 0,
              !.terminal = IF terminal = 0 THEN @ ELSE terminal]

(* completeJob.  Nothing reads the owner, the lease or the attempts of a row at rest,
   and the model forgets them.                                                      *)
Completed(row) ==
  [row EXCEPT !.status = "completed", !.owner = NoWorker, !.live = FALSE, !.attempts = 0]

(* failJob and the reaper: charge an attempt, retry or dead-letter. *)
Charged(row) ==
  [row EXCEPT !.attempts = @ + 1, !.owner = NoWorker, !.live = FALSE,
              !.status = IF row.attempts + 1 >= MaxAttempts THEN "dead_letter"
                                                            ELSE "pending"]

-----------------------------------------------------------------------------
(* The queue, as JobQueue specifies it, seen from the issue. *)
Claim(w, j) ==
  /\ work[w].pc = "idle"
  /\ job[j].status = "pending"
  /\ job' = [job EXCEPT ![j] = [@ EXCEPT !.status = "claimed", !.owner = w, !.live = TRUE]]
  /\ work' = [work EXCEPT ![w] = [Idle EXCEPT !.pc = "start", !.job = j]]
  /\ UNCHANGED <<group, reserved, github, ledger, reconcile, acts>>

(* completeJob once the handler has returned. *)
Complete(w) ==
  /\ work[w].pc = "done"
  /\ Owns(w)
  /\ job' = [job EXCEPT ![work[w].job] = Completed(@)]
  /\ Leave(w)
  /\ UNCHANGED <<group, reserved, github, ledger, reconcile, acts>>

(* The execution ends with no write: the process died, or a fenced write failed. *)
Vanish(w) ==
  /\ work[w].pc # "idle"
  /\ Leave(w)
  /\ WorkOnly

(* The handler throws while it holds the lease, and the poller calls failJob: an abort
   seen by checkAbort, a verification machine that died, a failed read or write. *)
Throw(w) ==
  /\ work[w].pc \notin {"idle", "push", "create"}
  /\ Owns(w)
  /\ job' = [job EXCEPT ![work[w].job] = Charged(@)]
  /\ Leave(w)
  /\ UNCHANGED <<group, reserved, github, ledger, reconcile, acts>>

LeaseExpires(j) ==
  /\ job[j].status = "claimed"
  /\ job[j].live
  /\ job' = [job EXCEPT ![j].live = FALSE]
  /\ UNCHANGED <<group, work, reserved, github, ledger, reconcile, acts>>

(* The reaper's transaction; a dead-lettered fix is reconciled after its commit. *)
Reap(j) ==
  /\ job[j].status = "claimed"
  /\ ~job[j].live
  /\ job' = [job EXCEPT ![j] = Charged(@)]
  /\ reconcile' = IF job[j].type = "fix" /\ Charged(job[j]).status = "dead_letter"
                  THEN reconcile \cup {j} ELSE reconcile
  /\ UNCHANGED <<group, work, reserved, github, ledger, acts>>

(* The reconciliation: an unfenced updateGroupStatus, whatever the status is by now. *)
Reconcile(j) ==
  /\ j \in reconcile
  /\ group' = [group EXCEPT ![job[j].group] = Updated(@, "needs_human", j)]
  /\ reconcile' = reconcile \ {j}
  /\ UNCHANGED <<job, work, reserved, github, ledger, acts>>

(* Its error is swallowed, or the reaper's process dies first. *)
ReconcileLost(j) ==
  /\ j \in reconcile
  /\ reconcile' = reconcile \ {j}
  /\ UNCHANGED <<group, job, work, reserved, github, ledger, acts>>

(* requeueDeadLetters: only an investigation runs again, and its next charge is its last:
   attempts past the limit are not told apart.                                          *)
Requeued(row) ==
  [row EXCEPT !.status = "pending", !.returns = @ + 1,
              !.attempts = IF @ < MaxAttempts THEN @ ELSE MaxAttempts - 1]

Rerun(j) ==
  /\ job[j].type = "investigate"
  /\ job[j].status = "dead_letter"
  /\ job[j].returns < MaxReturns
  /\ job' = [job EXCEPT ![j] = Requeued(@)]
  /\ UNCHANGED <<group, work, reserved, github, ledger, reconcile, acts>>

-----------------------------------------------------------------------------
(* An investigation. *)
StartInvestigation(w) ==
  /\ At(w, "start", "investigate")
  /\ GoTo(w, IF group[GroupOf(w)].status \in {"new", "analyzing"} THEN "analyze" ELSE "done")
  /\ WorkOnly

(* The fair-use cap: the job completes and the issue is left as it is. *)
QuotaDenied(w) ==
  /\ work[w].pc = "analyze"
  /\ Finish(w, "done")
  /\ WorkOnly

Analyze(w) ==
  /\ work[w].pc = "analyze"
  /\ Owns(w)
  /\ group' = [group EXCEPT ![GroupOf(w)] = Updated(@, "analyzing", 0)]
  /\ GoTo(w, "diagnose")
  /\ UNCHANGED <<job, reserved, github, ledger, reconcile, acts>>

(* updateGroupInvestigation: a stop or an insight, over whatever the status is. *)
Diagnose(w, status) ==
  /\ work[w].pc = "diagnose"
  /\ Owns(w)
  /\ SetStatus(GroupOf(w), status)
  /\ Finish(w, "done")
  /\ UNCHANGED <<job, reserved, github, ledger, reconcile, acts>>

(* updateGroupAndCreateFixJob: an actionable cause becomes an automatic fix. *)
CreateFix(w) ==
  /\ work[w].pc = "diagnose"
  /\ Owns(w)
  /\ group[GroupOf(w)].status = "analyzing"
  /\ SetStatus(GroupOf(w), "fixing")
  /\ job' = Append(job, NewJob(GroupOf(w), "fix", "auto"))
  /\ Finish(w, "done")
  /\ UNCHANGED <<reserved, github, ledger, reconcile, acts>>

(* A stop the provider will not change: failJob dead-letters at once. *)
Exhaust(w) ==
  /\ work[w].pc = "diagnose"
  /\ Owns(w)
  /\ job' = [job EXCEPT ![work[w].job] = [Charged(@) EXCEPT !.status = "dead_letter"]]
  /\ Leave(w)
  /\ UNCHANGED <<group, reserved, github, ledger, reconcile, acts>>

-----------------------------------------------------------------------------
(* A fix: adopt, refuse or run the agent. *)
(* Mutant: a retried fix does not look at terminal_fix_job_id. *)
StartFixUnadopted(w) ==
  /\ At(w, "start", "fix")
  /\ GoTo(w, IF group[GroupOf(w)].status \in PRStatuses \cup {"needs_human"}
             THEN "done" ELSE "agent")
  /\ WorkOnly

StartFix(w) ==
  LET row == group[GroupOf(w)]
  IN  /\ At(w, "start", "fix")
      /\ GoTo(w, IF \/ row.terminal = work[w].job
                    \/ row.status \in PRStatuses \cup {"needs_human"}
                 THEN "done" ELSE "agent")
      /\ WorkOnly

(* The agent produced no patch to deliver, or stopped early. *)
AgentFails(w, pc) ==
  /\ work[w].pc = "agent"
  /\ GoTo(w, pc)
  /\ WorkOnly

(* An exception that processJobInner catches: a call failed, or the clone did. *)
Caught(w) ==
  /\ work[w].pc \in {"agent", "reserve", "list", "head", "giveup"}
  /\ Finish(w, "error")
  /\ WorkOnly

(* An automatic fix is a draft; a person's is one when it was not fully verified. *)
Postures(w) == IF JobOf(w).by = "auto" THEN {"draft"} ELSE {"draft", "ready"}

AgentSucceeds(w) ==
  /\ work[w].pc = "agent"
  /\ \E posture \in Postures(w) :
        work' = [work EXCEPT ![w] =
           [@ EXCEPT !.pc = "reserve", !.posture = posture,
                     !.patch = [job |-> work[w].job, run |-> JobOf(w).attempts]]]
  /\ WorkOnly

-----------------------------------------------------------------------------
(* Delivery.  reserveDelivery: a new row is counted against the draft cap ... *)
OpenDraftReservations ==
  {g \in Groups : /\ reserved[g].posture = "draft"
                  /\ reserved[g].state \in {"reserved", "pushed", "open"}}

(* Mutant: the cap is off by one. *)
ReserveNewAtCap(w) ==
  LET g == GroupOf(w)
  IN  /\ work[w].pc = "reserve"
      /\ Owns(w)
      /\ reserved[g].state = None
      /\ work[w].posture = "draft" => Cardinality(OpenDraftReservations) <= DraftCap
      /\ reserved' = [reserved EXCEPT ![g] =
           [NoReservation EXCEPT !.state = "reserved", !.posture = work[w].posture,
                                 !.patch = work[w].patch]]
      /\ GoTo(w, "list")
      /\ UNCHANGED <<group, job, github, ledger, reconcile, acts>>

ReserveNew(w) ==
  LET g == GroupOf(w)
  IN  /\ work[w].pc = "reserve"
      /\ Owns(w)
      /\ reserved[g].state = None
      /\ work[w].posture = "draft" => Cardinality(OpenDraftReservations) < DraftCap
      /\ reserved' = [reserved EXCEPT ![g] =
           [NoReservation EXCEPT !.state = "reserved", !.posture = work[w].posture,
                                 !.patch = work[w].patch]]
      /\ GoTo(w, "list")
      /\ UNCHANGED <<group, job, github, ledger, reconcile, acts>>

CapReached(w) ==
  /\ work[w].pc = "reserve"
  /\ Owns(w)
  /\ reserved[GroupOf(w)].state = None
  /\ work[w].posture = "draft"
  /\ Cardinality(OpenDraftReservations) >= DraftCap
  /\ Finish(w, "giveup")
  /\ WorkOnly

(* ... and an existing row decides the patch, and the posture of a person's fix; an
   open one is finalized as it stands. *)
Resume(w, row) ==
  IF row.state = "open"
  THEN [work[w] EXCEPT !.pc = "finalize", !.posture = row.posture, !.patch = row.patch,
                       !.head = row.head, !.pr = row.pr]
  ELSE [work[w] EXCEPT !.pc = "list", !.patch = row.patch,
                       !.posture = IF JobOf(w).by = "auto" THEN "draft" ELSE row.posture]

ReserveExisting(w) ==
  LET row == reserved[GroupOf(w)]
  IN  /\ work[w].pc = "reserve"
      /\ Owns(w)
      /\ row.state # None
      /\ work' = [work EXCEPT ![w] = Resume(w, row)]
      /\ WorkOnly

(* listOpenPullsByHead *)
ListPulls(w) ==
  LET open == OpenPulls(GroupOf(w))
  IN  /\ work[w].pc = "list"
      /\ \/ /\ open = {}
            /\ GoTo(w, "head")
         \/ \E n \in open :
              work' = [work EXCEPT ![w] =
                 [@ EXCEPT !.pc = "adopt", !.pr = n, !.head = pull[n].head]]
      /\ WorkOnly

Pushed(row, head) == [row EXCEPT !.state = "pushed", !.head = head]

(* recordDeliveryPushed of a pull request found open. *)
AdoptPull(w) ==
  /\ work[w].pc = "adopt"
  /\ Owns(w)
  /\ reserved' = [reserved EXCEPT ![GroupOf(w)] = Pushed(@, work[w].head)]
  /\ GoTo(w, "finalize")
  /\ UNCHANGED <<group, job, github, ledger, reconcile, acts>>

(* getBranchHead and assertLeaseOwned: a branch that exists is not pushed again. *)
ReadHead(w) ==
  /\ work[w].pc = "head"
  /\ Owns(w)
  /\ work' = [work EXCEPT ![w] =
        [@ EXCEPT !.head = branch[GroupOf(w)],
                  !.pc = IF branch[GroupOf(w)] = NoCommit THEN "push" ELSE "pushed"]]
  /\ WorkOnly

(* gitCommitAndPush, without force: rejected when the branch has appeared meanwhile.
   No fence: the lease may be gone.  heard says the answer came back. *)
Push(w, heard) ==
  LET g == GroupOf(w)
  IN  /\ work[w].pc = "push"
      /\ branch[g] = NoCommit
      /\ branch' = [branch EXCEPT ![g] = work[w].patch]
      /\ IF heard
         THEN work' = [work EXCEPT ![w] = [@ EXCEPT !.pc = "pushed", !.head = work[w].patch]]
         ELSE Finish(w, "giveup")
      /\ UNCHANGED <<group, job, reserved, pull, event, ledger, reconcile, acts>>

PushFails(w) ==
  /\ work[w].pc = "push"
  /\ Finish(w, "giveup")
  /\ WorkOnly

(* Mutant: recordDeliveryPushed without the lease. *)
RecordPushedUnfenced(w) ==
  /\ work[w].pc = "pushed"
  /\ reserved' = [reserved EXCEPT ![GroupOf(w)] = Pushed(@, work[w].head)]
  /\ GoTo(w, "create")
  /\ UNCHANGED <<group, job, github, ledger, reconcile, acts>>

(* recordDeliveryPushed, then assertLeaseOwned. *)
RecordPushed(w) ==
  /\ work[w].pc = "pushed"
  /\ Owns(w)
  /\ reserved' = [reserved EXCEPT ![GroupOf(w)] = Pushed(@, work[w].head)]
  /\ GoTo(w, "create")
  /\ UNCHANGED <<group, job, github, ledger, reconcile, acts>>

(* createPR: an open pull request of the branch is returned; else one is opened. *)
CreatePull(w, heard) ==
  LET g == GroupOf(w)
  IN  /\ work[w].pc = "create"
      /\ OpenPulls(g) = {}
      /\ branch[g] # NoCommit
      /\ pull' = Append(pull,
           [group |-> g, state |-> "open", draft |-> work[w].posture = "draft",
            head |-> branch[g], by |-> work[w].job,
            bornDraft |-> work[w].posture = "draft", closes |-> 0])
      /\ IF heard
         THEN work' = [work EXCEPT ![w] = [@ EXCEPT !.pc = "finalize", !.pr = Len(pull) + 1]]
         ELSE Finish(w, "giveup")
      /\ UNCHANGED <<group, job, reserved, branch, event, ledger, reconcile, acts>>

FindPull(w) ==
  /\ work[w].pc = "create"
  /\ \E n \in OpenPulls(GroupOf(w)) :
        work' = [work EXCEPT ![w] = [@ EXCEPT !.pc = "finalize", !.pr = n]]
  /\ WorkOnly

CreateFails(w) ==
  /\ work[w].pc = "create"
  /\ Finish(w, "giveup")
  /\ WorkOnly

-----------------------------------------------------------------------------
(* The end of a fix.  finalizeDelivery: the pull request, the status and the CI
   watch in one transaction. *)
Watched(g, pr, head) ==
  IF ActiveJobs(g, "ci_watch") # {} THEN job
  ELSE Append(job, [NewJob(g, "ci_watch", "auto") EXCEPT !.pr = pr, !.head = head])

Finalize(w) ==
  LET g == GroupOf(w)
  IN  /\ work[w].pc = "finalize"
      /\ Owns(w)
      /\ group[g].status \in PRStatuses \cup {"fixing"}
      /\ group' = [group EXCEPT ![g] =
           [@ EXCEPT !.status = IF work[w].posture = "draft" THEN "pr_draft" ELSE "pr_created",
                     !.pr = work[w].pr, !.fixJob = work[w].job, !.terminal = work[w].job]]
      /\ reserved' = [reserved EXCEPT ![g] =
           [@ EXCEPT !.state = "open", !.head = work[w].head, !.pr = work[w].pr]]
      /\ job' = IF work[w].posture = "draft" THEN Watched(g, work[w].pr, work[w].head) ELSE job
      /\ Finish(w, "done")
      /\ UNCHANGED <<github, ledger, reconcile, acts>>

FinalizeRefused(w) ==
  /\ work[w].pc = "finalize"
  /\ Owns(w)
  /\ group[GroupOf(w)].status \notin PRStatuses \cup {"fixing"}
  /\ Finish(w, "error")
  /\ WorkOnly

(* The fix ends as needs_human: a verdict, stamped with the job ... *)
GiveUp(w) ==
  /\ work[w].pc = "giveup"
  /\ Owns(w)
  /\ group' = [group EXCEPT ![GroupOf(w)] = Updated(@, "needs_human", work[w].job)]
  /\ Finish(w, "done")
  /\ UNCHANGED <<job, reserved, github, ledger, reconcile, acts>>

(* ... or an error the handler caught, which carries no stamp. *)
HandleError(w) ==
  /\ work[w].pc = "error"
  /\ Owns(w)
  /\ group' = [group EXCEPT ![GroupOf(w)] = Updated(@, "needs_human", 0)]
  /\ Finish(w, "done")
  /\ UNCHANGED <<job, reserved, github, ledger, reconcile, acts>>

(* restoreDiagnosisAfterIncompleteFix: back to the diagnosis, the job completed with it. *)
Restore(w) ==
  LET g == GroupOf(w)
      j == work[w].job
  IN  /\ work[w].pc = "incomplete"
      /\ Owns(w)
      /\ group' = IF group[g].status = "fixing" /\ ActiveJobs(g, "fix") = {j}
                  THEN [group EXCEPT ![g] = [@ EXCEPT !.status = "investigated", !.terminal = j]]
                  ELSE group
      /\ job' = [job EXCEPT ![j] = Completed(@)]
      /\ Leave(w)
      /\ UNCHANGED <<reserved, github, ledger, reconcile, acts>>

-----------------------------------------------------------------------------
(* ci_watch.  posture "ready" is a watch that may promote: a person asked for the fix. *)
StartWatch(w) ==
  LET row == group[GroupOf(w)]
  IN  /\ At(w, "start", "ci_watch")
      /\ IF row.status = "pr_draft"
         THEN work' = [work EXCEPT ![w] =
                [@ EXCEPT !.pc = "pull",
                          !.posture = IF row.fixJob # 0 /\ job[row.fixJob].by = "human"
                                      THEN "ready" ELSE "draft"]]
         ELSE Finish(w, "done")
      /\ WorkOnly

(* getPullRequest: a head that moved ends the watch. *)
CheckHead(w) ==
  /\ work[w].pc = "pull"
  /\ IF pull[JobOf(w).pr].head = JobOf(w).head THEN GoTo(w, "checks")
     ELSE Finish(w, "done")
  /\ WorkOnly

(* evaluateCI: a check that failed is red; green is one that passed and none running. *)
CIStates == {"green", "red", "pending"}

(* Red, or pending still after a day, ends the watch, as checks it may not read do. *)
ReadChecks(w, state) ==
  /\ work[w].pc = "checks"
  /\ IF state = "green" THEN GoTo(w, "green") ELSE Finish(w, "done")
  /\ WorkOnly

(* rescheduleJob: the checks are still running. *)
Rescheduled(row) ==
  [row EXCEPT !.status = "pending", !.owner = NoWorker, !.live = FALSE, !.returns = @ + 1]

Reschedule(w) ==
  LET j == work[w].job
  IN  /\ work[w].pc = "checks"
      /\ Owns(w)
      /\ job[j].returns < MaxReturns
      /\ job' = [job EXCEPT ![j] = Rescheduled(@)]
      /\ Leave(w)
      /\ UNCHANGED <<group, reserved, github, ledger, reconcile, acts>>

(* markPullRequestReady, with no fence, when a person asked for the fix. *)
MarkReady(w) ==
  /\ work[w].pc = "green"
  /\ GoTo(w, "promote")
  /\ pull' = IF work[w].posture = "ready" THEN [pull EXCEPT ![JobOf(w).pr].draft = FALSE]
             ELSE pull
  /\ UNCHANGED <<group, job, reserved, branch, event, ledger, reconcile, acts>>

(* saveExternalCIResult: promotes only a draft, under the lease. *)
Promote(w) ==
  LET g == GroupOf(w)
  IN  /\ work[w].pc = "promote"
      /\ group' = IF work[w].posture = "ready" /\ Owns(w) /\ group[g].status = "pr_draft"
                  THEN [group EXCEPT ![g].status = "pr_created"] ELSE group
      /\ Finish(w, "done")
      /\ UNCHANGED <<job, reserved, github, ledger, reconcile, acts>>

-----------------------------------------------------------------------------
(* ProcessPRWebhook.  A delivery already recorded asks for the cleanup again. *)
WebhookSeen(e) ==
  LET g == pull[e.pr].group
  IN  /\ e \in receipt
      /\ ~e.merged
      /\ reserved[g].posture = "draft"
      /\ cleanup' = cleanup \cup {g}
      /\ UNCHANGED <<group, job, work, reserved, github, receipt, reconcile, acts>>

(* The issue that shows the pull request follows it, and the reservation closes. *)
Followed(row, merged) ==
  IF merged THEN [row EXCEPT !.status = "merged"]
  ELSE [row EXCEPT !.status = IF row.status = "pr_draft" THEN "needs_human" ELSE "investigated",
                   !.pr = 0, !.fixJob = 0]

Unwatched(g) ==
  [j \in DOMAIN job |-> IF j \in ActiveJobs(g, "ci_watch")
                        THEN Completed(job[j]) ELSE job[j]]

Shows(g, n) == group[g].pr = n /\ group[g].status \in PRStatuses

WebhookMatched(e, g) ==
  LET draft == group[g].status = "pr_draft"
  IN  /\ e \notin receipt
      /\ Shows(g, e.pr)
      /\ receipt' = receipt \cup {e}
      /\ group' = [group EXCEPT ![g] = Followed(@, e.merged)]
      /\ job' = IF draft THEN Unwatched(g) ELSE job
      /\ reserved' = [reserved EXCEPT ![g].state = "closed"]
      /\ cleanup' = IF draft /\ ~e.merged THEN cleanup \cup {g} ELSE cleanup
      /\ UNCHANGED <<work, github, reconcile, acts>>

(* Mutant: an unmerged close is recovered like a merge. *)
WebhookRecoveredAnyClose(e) ==
  LET g == pull[e.pr].group
  IN  /\ e \notin receipt
      /\ \A h \in Groups : ~Shows(h, e.pr)
      /\ \E r \in receipt : r.pr = e.pr
      /\ receipt' = receipt \cup {e}
      /\ group' = IF group[g].status = "investigated"
                  THEN [group EXCEPT ![g].status = "merged"] ELSE group
      /\ UNCHANGED <<job, work, reserved, github, cleanup, reconcile, acts>>

(* recoverReopenedMerge: an earlier receipt links the merge to its issue. *)
WebhookRecovered(e) ==
  LET g == pull[e.pr].group
  IN  /\ e \notin receipt
      /\ e.merged
      /\ \A h \in Groups : ~Shows(h, e.pr)
      /\ \E r \in receipt : r.pr = e.pr
      /\ receipt' = receipt \cup {e}
      /\ group' = IF group[g].status = "investigated"
                  THEN [group EXCEPT ![g].status = "merged"] ELSE group
      /\ UNCHANGED <<job, work, reserved, github, cleanup, reconcile, acts>>

Webhook(e) ==
  \/ WebhookSeen(e)
  \/ \E g \in Groups : WebhookMatched(e, g)
  \/ WebhookRecovered(e)

(* GitHub closes the pull request of a branch that is deleted, and reports it. *)
Closed(n, merged) ==
  /\ pull' = [pull EXCEPT ![n] =
        [@ EXCEPT !.state = IF merged THEN "merged" ELSE "closed",
                  !.draft = pull[n].draft /\ ~merged, !.closes = pull[n].closes + 1]]
  /\ event' = event \cup {[pr |-> n, merged |-> merged, nth |-> pull[n].closes]}

(* deleteDraftBranch; a failure is answered 500, and a redelivery asks again. *)
DeleteBranch(g) ==
  /\ g \in cleanup
  /\ cleanup' = cleanup \ {g}
  /\ branch' = [branch EXCEPT ![g] = NoCommit]
  /\ IF OpenPulls(g) = {} THEN UNCHANGED <<pull, event>>
     ELSE \E n \in OpenPulls(g) : Closed(n, FALSE)
  /\ UNCHANGED <<group, job, work, reserved, receipt, reconcile, acts>>

DeleteFails(g) ==
  /\ g \in cleanup
  /\ cleanup' = cleanup \ {g}
  /\ UNCHANGED <<group, job, work, reserved, github, receipt, reconcile, acts>>

-----------------------------------------------------------------------------
(* People, on the dashboard and on GitHub. *)
Act == acts < MaxActs /\ acts' = acts + 1

(* TriggerFixJob: from a diagnosis of the open episode, with no fix in flight. *)
TriggerFix(g) ==
  /\ Act
  /\ group[g].status = "investigated"
  /\ group[g].open
  /\ \E j \in DOMAIN job : /\ job[j].group = g
                            /\ job[j].type = "investigate"
                            /\ job[j].status = "completed"
  /\ ActiveJobs(g, "fix") = {}
  /\ group' = [group EXCEPT ![g] = [@ EXCEPT !.status = "fixing", !.terminal = 0]]
  /\ job' = Append(job, NewJob(g, "fix", "human"))
  /\ UNCHANGED <<work, reserved, github, ledger, reconcile>>

Resolve(g) ==
  /\ Act
  /\ group[g].status \notin {"archived", "resolved"}
  /\ SetStatus(g, "resolved")
  /\ UNCHANGED <<job, work, reserved, github, ledger, reconcile>>

Archive(g) ==
  /\ Act
  /\ group[g].status # "archived"
  /\ group' = [group EXCEPT ![g] = [@ EXCEPT !.before = group[g].status, !.status = "archived"]]
  /\ UNCHANGED <<job, work, reserved, github, ledger, reconcile>>

Unarchive(g) ==
  /\ Act
  /\ group[g].status = "archived"
  /\ group' = [group EXCEPT ![g] = [@ EXCEPT !.status = group[g].before, !.before = None]]
  /\ UNCHANGED <<job, work, reserved, github, ledger, reconcile>>

(* A person pushes to the branch; an open pull request shows the new head. *)
PersonPushes(g) ==
  /\ Act
  /\ branch[g] \notin {NoCommit, Person}
  /\ branch' = [branch EXCEPT ![g] = Person]
  /\ pull' = [n \in DOMAIN pull |->
                IF n \in OpenPulls(g) THEN [pull[n] EXCEPT !.head = Person] ELSE pull[n]]
  /\ UNCHANGED <<group, job, work, reserved, event, ledger, reconcile>>

ClosePull(n, merged) ==
  /\ Act
  /\ pull[n].state = "open"
  /\ Closed(n, merged)
  /\ UNCHANGED <<group, job, work, reserved, branch, ledger, reconcile>>

ReopenPull(n) ==
  /\ Act
  /\ pull[n].state = "closed"
  /\ OpenPulls(pull[n].group) = {}
  /\ branch[pull[n].group] = pull[n].head
  /\ pull' = [pull EXCEPT ![n].state = "open"]
  /\ UNCHANGED <<group, job, work, reserved, branch, event, ledger, reconcile>>

-----------------------------------------------------------------------------
(* The sweeps: resolveSilentMergedGroups, resolveInactiveGroups, closeResolvedEpisodes. *)
AutoResolve(g) ==
  /\ g \in Quiet
  /\ group[g].status \in {"merged", "needs_human", "investigated"}
  /\ SetStatus(g, "resolved")
  /\ UNCHANGED <<job, work, reserved, github, ledger, reconcile, acts>>

CloseEpisode(g) ==
  /\ group[g].open
  /\ group[g].status \in {"resolved", "merged", "archived"}
  /\ group' = [group EXCEPT ![g].open = FALSE]
  /\ UNCHANGED <<job, work, reserved, github, ledger, reconcile, acts>>

-----------------------------------------------------------------------------
QueueStep ==
  \/ \E w \in Workers, j \in DOMAIN job : Claim(w, j)
  \/ \E w \in Workers : Complete(w) \/ Vanish(w) \/ Throw(w)
  \/ \E j \in DOMAIN job : LeaseExpires(j) \/ Reap(j) \/ Rerun(j)
  \/ \E j \in reconcile : Reconcile(j) \/ ReconcileLost(j)

InvestigateStep(w) ==
  \/ StartInvestigation(w) \/ QuotaDenied(w) \/ Analyze(w)
  \/ \E status \in {"needs_human", "insight"} : Diagnose(w, status)
  \/ CreateFix(w) \/ Exhaust(w)

FixStep(w) ==
  \/ StartFix(w) \/ AgentSucceeds(w)
  \/ \E pc \in {"giveup", "incomplete"} : AgentFails(w, pc)
  \/ Caught(w)
  \/ ReserveNew(w) \/ CapReached(w) \/ ReserveExisting(w)
  \/ ListPulls(w) \/ AdoptPull(w) \/ ReadHead(w)
  \/ \E heard \in BOOLEAN : Push(w, heard) \/ CreatePull(w, heard)
  \/ PushFails(w) \/ RecordPushed(w) \/ FindPull(w) \/ CreateFails(w)
  \/ Finalize(w) \/ FinalizeRefused(w) \/ GiveUp(w) \/ HandleError(w) \/ Restore(w)

WatchStep(w) ==
  \/ StartWatch(w) \/ CheckHead(w)
  \/ \E state \in CIStates : ReadChecks(w, state)
  \/ Reschedule(w) \/ MarkReady(w) \/ Promote(w)

PersonStep ==
  \/ \E g \in Groups : TriggerFix(g) \/ Resolve(g) \/ Archive(g) \/ Unarchive(g)
                         \/ PersonPushes(g)
  \/ \E n \in DOMAIN pull : ReopenPull(n) \/ \E merged \in BOOLEAN : ClosePull(n, merged)

Next ==
  \/ QueueStep
  \/ \E w \in Workers : InvestigateStep(w) \/ FixStep(w) \/ WatchStep(w)
  \/ \E e \in event : Webhook(e)
  \/ \E g \in Groups : DeleteBranch(g) \/ DeleteFails(g) \/ AutoResolve(g) \/ CloseEpisode(g)
  \/ PersonStep

Spec == Init /\ [][Next]_vars

-----------------------------------------------------------------------------
(* Every row, claim, pull request and delivery is of its type; in particular an
   issue archived twice keeps a status that unarchiving can restore.            *)
TypeOK ==
  /\ group \in [Groups -> Group]
  /\ DOMAIN job = 1..Len(job) /\ \A j \in DOMAIN job : job[j] \in Job
  /\ work \in [Workers -> Worker]
  /\ \A w \in Workers : work[w].pc # "idle" => work[w].job \in DOMAIN job
  /\ reserved \in [Groups -> Reservation]
  /\ branch \in [Groups -> Commits]
  /\ \A n \in DOMAIN pull : pull[n] \in Pull
  /\ event \subseteq Event
  /\ receipt \subseteq event
  /\ cleanup \subseteq Groups
  /\ reconcile \subseteq DOMAIN job
  /\ acts \in 0..MaxActs

(* "Automatic pull requests always open as drafts", also when a later execution of the
   fix opens it from the reservation an earlier execution left behind.             *)
AutoOpensDraft ==
  \A n \in DOMAIN pull : job[pull[n].by].by = "auto" => pull[n].bornDraft

(* What Opslane publishes is the patch it reserved: whichever execution pushes, in
   whatever order leases are lost and answers come back, the branch and the pull
   requests of an issue carry the reserved patch, until a person pushes.          *)
PublishedIsReserved ==
  /\ \A g \in Groups : branch[g] \in {NoCommit, Person, reserved[g].patch}
  /\ \A n \in DOMAIN pull : pull[n].head \in {Person, reserved[pull[n].group].patch}

(* An issue that shows a pull request shows one of its own, and its reservation is
   open on the same number: no late writer leaves the two rows apart.              *)
LinkedPR ==
  \A g \in Groups : group[g].status \in PRStatuses =>
     /\ group[g].pr \in DOMAIN pull
     /\ pull[group[g].pr].group = g
     /\ reserved[g].state = "open"
     /\ reserved[g].pr = group[g].pr

(* An issue is merged only if one of its pull requests was merged on GitHub, whatever
   the order in which closes, reopenings and merges are delivered and redelivered.    *)
MergedIsReal ==
  \A g \in Groups : group[g].status = "merged" =>
     \E n \in DOMAIN pull : pull[n].group = g /\ pull[n].state = "merged"

(* A fix job ends its issue once: after the execution that stamped terminal_fix_job_id,
   no execution of the same job, retried after a crash or a lost lease, writes the
   issue again, even if its pull request was closed in between.                      *)
AdoptedOnce ==
  [][\A w \in Workers :
       /\ work[w].pc # "idle" /\ work'[w] # work[w]
       /\ JobOf(w).type = "fix" /\ group[GroupOf(w)].terminal = work[w].job
       => group'[GroupOf(w)] = group[GroupOf(w)]]_vars

(* Until a pull request's outcome is recorded, the draft reservations in flight stay
   within the project's cap, however the fixes of several issues interleave.         *)
CapHeldUntilOutcome ==
  receipt = {} => Cardinality(OpenDraftReservations) <= DraftCap

(* The reservation, the branch, the pull requests and the issue agree on what *)
(* was published.                                                            *)
DeliveryAgrees ==
  /\ PublishedIsReserved
  /\ LinkedPR

(* The rows are of their types whatever people and webhooks do, automatic pull
   requests open as drafts, and merged means merged.                          *)
StatusIsHonest ==
  /\ TypeOK
  /\ AutoOpensDraft
  /\ MergedIsReal
=============================================================================
