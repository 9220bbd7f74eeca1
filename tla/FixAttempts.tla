--------------------------- MODULE FixAttempts ---------------------------
(***************************************************************************)
(* The fix of a published friction problem: its investigation, the         *)
(* attempts a person or the automation requests, their pull requests, and  *)
(* the events the provider sends about them.                               *)
(*                                                                         *)
(* A problem is published in generations (Tickets).  Only the live one has *)
(* an incident; what is still running for an older one may finish and must *)
(* not reach the new one.  Jobs are fenced by their lease: the claim that  *)
(* is current owns the job, executions of earlier ones go on without       *)
(* knowing.  The lapse of a lease and the reaper's visit are one step.     *)
(*                                                                         *)
(* Every problem is a defect; insights are never fixed.  What a cause      *)
(* explains is kept as whether it covers half of the verified evidence.    *)
(***************************************************************************)
EXTENDS Integers, FiniteSets, Sequences

CONSTANTS
    Problems,
    Settled,            \* those that start published, their cause known
    Moving,             \* those that are published and confirmed from then on
    MaxGen,             \* bound: generations of a problem
    MaxEvidence,        \* bound: confirmations of a problem
    MaxInvestigations,  \* MAX_INVESTIGATIONS_PER_GENERATION
    MaxAttempts,        \* bound: attempts of all problems
    MaxRuns,            \* executions of a fix job before it is dead
    MaxPrs,             \* bound: pull requests of an attempt
    MaxOpenPrs,         \* maxOpenFixPrs
    MaxFaults           \* bound: executions that stop, settings changed,
                        \* problems taken back

ASSUME FixAssumption ==
    /\ Settled \subseteq Problems /\ Moving \subseteq Problems
    /\ {MaxGen, MaxEvidence, MaxInvestigations, MaxAttempts, MaxRuns, MaxPrs,
        MaxOpenPrs, MaxFaults} \subseteq Nat
    /\ MaxGen > 0 /\ MaxInvestigations > 0

VARIABLES
    ticket,     \* friction_tickets: live, live_generation, evidence_version,
                \* reinvestigate_needed
    group,      \* the incident of the live generation
    probe,      \* its investigate jobs
    mind,       \* their executions, each with its claim (lease_generation)
    ask,        \* the generation whose investigation asks for a fix, or 0
    att,        \* friction_fix_attempts, each with its fix job
    run,        \* the executions of each fix job
    prs,        \* the provider: the pull requests of each attempt
    mail,       \* webhooks on their way
    events,     \* friction_pr_event jobs
    autonomy,   \* friction_autonomy = 'auto_fix'
    faults

probing == <<probe, mind, ask>>
fixing == <<att, run>>
outside == <<prs, mail>>
vars == <<ticket, group, probing, fixing, outside, events, autonomy, faults>>

Ids == 1..MaxAttempts
Outstanding == {"active", "pr_open"}
Queued == {"pending", "claimed"}
NewGroup == [sub |-> "none", inv |-> "pending", exec |-> 0, result |-> 0,
             used |-> 0, cause |-> "none"]
NewProbe == [status |-> "pending", claim |-> 0, exec |-> 0, ev |-> 0]

TypeOK ==
    /\ ticket \in [Problems -> [live : {"no", "yes", "archived"}, gen : 0..MaxGen,
                                ev : 0..MaxEvidence, again : BOOLEAN]]
    /\ group \in [Problems ->
         [sub : {"none", "fixing", "pr_open", "resolved"},
          inv : {"pending", "done", "failed"}, exec : Nat, result : Nat,
          used : 0..MaxEvidence, cause : {"none", "short", "covers"}]]
    /\ \A t \in Problems :
         /\ Len(probe[t]) <= MaxInvestigations
         /\ Cardinality({j \in DOMAIN probe[t] : probe[t][j].status \in Queued}) <= 1
    /\ ask \in [Problems -> 0..MaxGen]
    /\ Len(att) <= MaxAttempts
    /\ \A i \in DOMAIN att :
         att[i] \in [t : Problems, gen : 1..MaxGen, by : {"human", "auto"},
                     status : Outstanding \cup {"failed", "merged", "closed", "superseded"},
                     pr : 0..MaxPrs, reserved : BOOLEAN, job : Queued \cup {"ended"}]
    /\ prs \in [Ids -> UNION {[1..n -> {"open", "closed", "merged"}] : n \in 0..MaxPrs}]
    /\ faults \in 0..MaxFaults

Init ==
    /\ ticket = [t \in Problems |->
         [live |-> IF t \in Settled THEN "yes" ELSE "no",
          gen |-> IF t \in Settled THEN 1 ELSE 0, ev |-> 0, again |-> FALSE]]
    /\ group = [t \in Problems |->
         IF t \in Settled
         THEN [NewGroup EXCEPT !.inv = "done", !.exec = 1, !.result = 1, !.cause = "covers"]
         ELSE NewGroup]
    /\ probe = [t \in Problems |->
         IF t \in Settled THEN <<[status |-> "ended", claim |-> 1, exec |-> 1, ev |-> 0]>> ELSE <<>>]
    /\ mind = [t \in Problems |-> {}]
    /\ ask = [t \in Problems |-> ticket[t].gen]
    /\ att = <<>> /\ run = [i \in Ids |-> <<>>]
    /\ prs = [i \in Ids |-> <<>>]
    /\ mail = {} /\ events = {}
    /\ autonomy = TRUE
    /\ faults = 0

Live(t) == ticket[t].live = "yes"

-----------------------------------------------------------------------------
(* Publication. *)

(* retireLiveGeneration: the fix jobs of the generation fail, its attempts    *)
(* are superseded.                                                            *)
Retired(t) == [i \in DOMAIN att |->
    IF att[i].t # t THEN att[i]
    ELSE [att[i] EXCEPT !.job = "ended",
                        !.status = IF @ \in Outstanding THEN "superseded" ELSE @]]

(* activateGeneration: of a problem that is not published, or whose fix is     *)
(* merged and that came back.                                                  *)
Publish(t) ==
    /\ t \in Moving /\ ticket[t].gen < MaxGen
    /\ ticket[t].live = "no" \/ (Live(t) /\ group[t].sub = "resolved")
    /\ ticket' = [ticket EXCEPT ![t].live = "yes", ![t].gen = ticket[t].gen + 1]
    /\ group' = [group EXCEPT ![t] = [NewGroup EXCEPT !.used = ticket[t].ev]]
    /\ probe' = [probe EXCEPT ![t] = <<NewProbe>>]
    /\ mind' = [mind EXCEPT ![t] = {}]
    /\ att' = Retired(t)
    /\ UNCHANGED <<ask, run, outside, events, autonomy, faults>>

(* unpublish, or archiveTicketGroup, which ends the pull-request jobs too.     *)
TakeBack(t) ==
    /\ Live(t) /\ faults < MaxFaults
    /\ \/ /\ group[t].sub # "resolved"
          /\ ticket' = [ticket EXCEPT ![t].live = "no"]
          /\ UNCHANGED events
       \/ /\ ticket' = [ticket EXCEPT ![t].live = "archived", ![t].again = FALSE]
          /\ events' = {e \in events : att[e.i].t # t}
    /\ faults' = faults + 1
    /\ probe' = [probe EXCEPT ![t] = <<>>] /\ mind' = [mind EXCEPT ![t] = {}]
    /\ att' = Retired(t)
    /\ UNCHANGED <<group, ask, run, outside, autonomy>>

-----------------------------------------------------------------------------
(* Investigation. *)

Active(t, j) == {k \in DOMAIN probe[t] \ {j} : probe[t][k].status \in Queued}

(* enqueueTicketInvestigation: unless one is active besides j, which is        *)
(* finishing, or the generation has used its own.                             *)
CanInvestigate(t, j) == Active(t, j) = {} /\ Len(probe[t]) < MaxInvestigations

(* The verified evidence changes: what a cause explained may cover it again,   *)
(* or no more.                                                                 *)
Causes(c) == IF c = "none" THEN {"none"} ELSE {"short", "covers"}

(* applyConfirmationTransition, the refresh: more evidence of a live problem   *)
(* asks for another investigation when the last one failed or its cause is     *)
(* diluted and no fix is on its way.                                           *)
NewEvidence(t) ==
    /\ t \in Moving /\ ticket[t].ev < MaxEvidence /\ Live(t)
    /\ LET k == [ticket[t] EXCEPT !.ev = @ + 1]
           g == group[t]
       IN  IF g.sub = "resolved"
           THEN ticket' = [ticket EXCEPT ![t] = k] /\ UNCHANGED <<group, probe>>
           ELSE \E c \in Causes(g.cause) :
             LET diluted == g.sub = "none" /\ g.inv = "done" /\ c # "covers"
                 queue == (k.again \/ diluted) /\ k.ev > g.used /\ CanInvestigate(t, 0)
             IN  /\ group' = [group EXCEPT ![t].cause = c]
                 /\ ticket' = [ticket EXCEPT ![t] =
                      IF queue THEN [k EXCEPT !.again = FALSE] ELSE k]
                 /\ probe' = [probe EXCEPT ![t] = IF queue THEN Append(@, NewProbe) ELSE @]
    /\ UNCHANGED <<mind, ask, fixing, outside, events, autonomy, faults>>

(* The worker claims the job; beginInvestigation is a transaction of its own.  *)
ProbeStarts(t, j) ==
    /\ probe[t][j].status = "pending"
    /\ probe' = [probe EXCEPT ![t][j].status = "claimed", ![t][j].claim = @ + 1]
    /\ UNCHANGED <<ticket, group, mind, ask, fixing, outside, events, autonomy, faults>>

(* Mutant: any claim of the job will do. *)
OwnsProbeByStatus(t, h) == probe[t][h.job].status = "claimed"

(* lockJob and the owner checks: worker_id, lease_generation and a live lease.  *)
OwnsProbe(t, h) ==
    /\ probe[t][h.job].status = "claimed"
    /\ h.claim = probe[t][h.job].claim

(* The execution of the current claim, once it began. *)
Minds(t, j) == {h \in mind[t] : h.job = j /\ h.claim = probe[t][j].claim}

(* beginInvestigation of the current claim, whoever else still works at the job *)
(* (an execution that lost it before it began ends here); without a snapshot    *)
(* the job ends.                                                               *)
ProbeBegins(t, j) ==
    /\ probe[t][j].status = "claimed" /\ Minds(t, j) = {}
    /\ IF group[t].sub = "resolved"
       THEN /\ probe' = [probe EXCEPT ![t][j].status = "ended"]
            /\ UNCHANGED <<group, mind>>
       ELSE LET x == group[t].exec + 1
                h == [job |-> j, claim |-> probe[t][j].claim, exec |-> x, ev |-> ticket[t].ev]
            IN  /\ group' = [group EXCEPT ![t].exec = x, ![t].inv = "pending"]
                /\ probe' = [probe EXCEPT ![t][j].exec = x, ![t][j].ev = ticket[t].ev]
                /\ mind' = [mind EXCEPT ![t] = @ \cup {h}]
    /\ UNCHANGED <<ticket, ask, fixing, outside, events, autonomy, faults>>

(* Mutant: a result is compared only with the one that was adopted last. *)
AppliesAnyNewer(t, h) == group[t].sub # "resolved" /\ h.exec > group[t].result

(* finishInvestigation: the execution owns its job, the incident is not         *)
(* resolved, and no newer investigation has begun or answered.                 *)
AppliesResult(t, h) ==
    /\ OwnsProbe(t, h)
    /\ group[t].sub # "resolved"
    /\ h.exec >= group[t].exec /\ h.exec > group[t].result

(* finishInvestigation of an answer with cause c, or of a failure: evidence     *)
(* that came meanwhile and is not covered queues the successor.                 *)
Adopts(t, h, done, c) ==
    LET covered == done /\ c = "covers"
        next == /\ done /\ ~covered /\ group[t].sub = "none"
                /\ ticket[t].ev > h.ev /\ CanInvestigate(t, h.job)
        ended == [probe[t] EXCEPT ![h.job].status = "ended"]
    IN  /\ probe' = [probe EXCEPT ![t] = IF next THEN Append(ended, NewProbe) ELSE ended]
        /\ group' = [group EXCEPT
             ![t].inv = IF next THEN "pending" ELSE IF done THEN "done" ELSE "failed",
             ![t].result = h.exec, ![t].used = h.ev, ![t].cause = c]
        /\ ticket' = [ticket EXCEPT ![t].again = ~covered /\ ~next]
        /\ ask' = [ask EXCEPT ![t] = IF covered THEN ticket[t].gen ELSE @]

(* finishInvestigation and the completion of the job, by its owner also when     *)
(* the answer is refused.                                                       *)
ProbeFinishes(t, h) ==
    /\ mind' = [mind EXCEPT ![t] = @ \ {h}]
    /\ \/ /\ ~AppliesResult(t, h)
          /\ probe' = IF OwnsProbe(t, h) THEN [probe EXCEPT ![t][h.job].status = "ended"] ELSE probe
          /\ UNCHANGED <<ticket, group, ask>>
       \/ /\ AppliesResult(t, h)
          /\ Adopts(t, h, FALSE, "none") \/ \E c \in {"none", "short", "covers"} : Adopts(t, h, TRUE, c)
    /\ UNCHANGED <<fixing, outside, events, autonomy, faults>>

(* attemptFailed of an investigation: unless a newer one is active or began.    *)
ProbeFailed(t, j, g) ==
    IF Active(t, j) = {} /\ probe[t][j].exec = g.exec /\ g.inv = "pending" /\ g.sub # "resolved"
    THEN [g EXCEPT !.inv = "failed", !.used = IF probe[t][j].exec = 0 THEN @ ELSE probe[t][j].ev]
    ELSE g

(* An execution fails, dies, or outlives its lease: the job runs again, or it   *)
(* is dead.                                                                     *)
ProbeStops(t, j) ==
    /\ probe[t][j].status = "claimed" /\ faults < MaxFaults
    /\ faults' = faults + 1
    /\ \E zombie \in BOOLEAN : mind' = [mind EXCEPT ![t] = IF zombie THEN @ ELSE @ \ Minds(t, j)]
    /\ \/ /\ probe' = [probe EXCEPT ![t][j].status = "pending"]
          /\ UNCHANGED <<ticket, group>>
       \/ /\ probe' = [probe EXCEPT ![t][j].status = "ended"]
          /\ group' = [group EXCEPT ![t] = ProbeFailed(t, j, @)]
          /\ ticket' = [ticket EXCEPT ![t].again =
               @ \/ (Active(t, j) = {} /\ probe[t][j].exec = group[t].exec)]
    /\ UNCHANGED <<ask, fixing, outside, events, autonomy>>

-----------------------------------------------------------------------------
(* Requests. *)

AttemptsOf(t) == {i \in DOMAIN att : att[i].t = t /\ att[i].gen = ticket[t].gen}

(* Mutant: only open pull requests count against the cap. *)
OpenOnly == Cardinality({i \in DOMAIN att : att[i].status = "pr_open"})

(* assertFixAttemptCurrent: open pull requests and the reservations of active   *)
(* attempts.                                                                    *)
Counted == Cardinality({i \in DOMAIN att : \/ att[i].status = "pr_open"
                                           \/ att[i].status = "active" /\ att[i].reserved})

(* No attempt is outstanding and no fix job is queued. *)
Free(t) == \A i \in AttemptsOf(t) : att[i].status \notin Outstanding /\ att[i].job = "ended"

(* requestFix, and requestTicketFix for a person. *)
RequestFix(t, by) ==
    /\ Live(t) /\ group[t].sub # "resolved" /\ Free(t)
    /\ group[t].inv = "done" /\ group[t].cause = "covers"
    /\ by = "auto" =>
         autonomy /\ Cardinality({i \in DOMAIN att : att[i].status = "pr_open"}) < MaxOpenPrs
    /\ Len(att) < MaxAttempts
    /\ att' = Append(att, [t |-> t, gen |-> ticket[t].gen, by |-> by, status |-> "active",
                           pr |-> 0, reserved |-> FALSE, job |-> "pending"])
    /\ group' = [group EXCEPT ![t].sub = "fixing"]

PersonRequests(t) ==
    /\ RequestFix(t, "human")
    /\ UNCHANGED <<ticket, probing, run, outside, events, autonomy, faults>>

(* processTicketInvestigation asks after its last transaction; a crash between   *)
(* the two loses the request.                                                   *)
InvestigationAsks(t) ==
    /\ ask[t] > 0
    /\ ask' = [ask EXCEPT ![t] = 0]
    /\ \/ ask[t] = ticket[t].gen /\ RequestFix(t, "auto")
       \/ UNCHANGED <<att, group>>
    /\ UNCHANGED <<ticket, probe, mind, run, outside, events, autonomy, faults>>

-----------------------------------------------------------------------------
(* Pull-request events. *)

CurrentLineage(i) == Live(att[i].t) /\ ticket[att[i].t].gen = att[i].gen

(* Mutant: an event is compared with the live incident only. *)
EventCurrentByIncident(i) == Live(att[i].t) /\ group[att[i].t].sub # "resolved"

(* fixEventCurrent. *)
EventCurrent(i) ==
    /\ CurrentLineage(i) /\ group[att[i].t].sub # "resolved"
    /\ att[i].status \in Outstanding

StatusAfter(w) == CASE w = "opened" -> "pr_open" [] w = "merged" -> "merged" [] w = "closed" -> "closed"
SubAfter(w) == CASE w = "opened" -> "pr_open" [] w = "merged" -> "resolved" [] w = "closed" -> "none"

(* applyPrEvent of a pull request p of attempt i. *)
ApplyPrEvent(i, p, w) ==
    IF EventCurrent(i)
    THEN /\ att' = [att EXCEPT ![i].status = StatusAfter(w), ![i].pr = p]
         /\ group' = [group EXCEPT ![att[i].t].sub = SubAfter(w)]
    ELSE UNCHANGED <<att, group>>

(* An orphan: only an attempt whose generation is retired is superseded and      *)
(* keeps the number; a live one may belong to a newer execution.                *)
ApplyOrphan(i, p) ==
    /\ att' = IF CurrentLineage(i) THEN att
              ELSE [att EXCEPT ![i].pr = p,
                               ![i].status = IF @ \in Outstanding THEN "superseded" ELSE @]
    /\ UNCHANGED group

-----------------------------------------------------------------------------
(* Delivery. *)

Gone == [at |-> "gone", pr |-> 0]
Owns(i, k) == att[i].job = "claimed" /\ k = Len(run[i])

(* assertFixAttemptCurrent before anything is delivered. *)
AttemptCurrent(i) ==
    CurrentLineage(i) /\ group[att[i].t].sub = "fixing" /\ att[i].status = "active"

(* attemptFailed of a fix job that is not run again. *)
Failed(a, t) ==
    [a EXCEPT !.job = "ended",
              !.status = IF @ # "active" THEN @
                         ELSE IF Live(t) /\ ticket[t].gen = a.gen THEN "failed" ELSE "superseded"]

FixFailed(i) ==
    LET t == att[i].t IN
    /\ att' = [att EXCEPT ![i] = Failed(@, t)]
    /\ group' = IF att[i].status = "active" /\ CurrentLineage(i) /\ group[t].sub = "fixing"
                THEN [group EXCEPT ![t].sub = "none"] ELSE group

(* The job is claimed and its handler makes its first checks: a pull request     *)
(* that is recorded ends it, an attempt that is not current fails the execution, *)
(* and an automatic fix that is no longer allowed fails for good.               *)
FixStarts(i) ==
    /\ i \in DOMAIN att /\ att[i].job = "pending" /\ Len(run[i]) < MaxRuns
    /\ \/ /\ CurrentLineage(i) /\ group[att[i].t].sub = "pr_open"
          /\ att' = [att EXCEPT ![i].job = "ended"]
          /\ UNCHANGED <<group, run>>
       \/ /\ ~(CurrentLineage(i) /\ group[att[i].t].sub = "pr_open") /\ ~AttemptCurrent(i)
          /\ run' = [run EXCEPT ![i] = Append(@, Gone)]
          /\ IF Len(run[i]) + 1 < MaxRuns THEN UNCHANGED <<att, group>> ELSE FixFailed(i)
       \/ /\ AttemptCurrent(i) /\ att[i].by = "auto" /\ ~autonomy
          /\ FixFailed(i)
          /\ UNCHANGED run
       \/ /\ AttemptCurrent(i) /\ (att[i].by = "auto" => autonomy)
          /\ att' = [att EXCEPT ![i].job = "claimed"]
          /\ run' = [run EXCEPT ![i] = Append(@, [at |-> "begun", pr |-> 0])]
          /\ UNCHANGED group
    /\ UNCHANGED <<ticket, probing, outside, events, autonomy, faults>>

OpenPr(i) == {p \in DOMAIN prs[i] : prs[i][p] = "open"}

(* runPipeline up to the provider: an open pull request of the branch is taken   *)
(* over as it is; otherwise the attempt must still be current, and an automatic  *)
(* one takes a slot under the cap.                                              *)
FixClears(i, k) ==
    /\ run[i][k].at = "begun" /\ Owns(i, k)
    /\ \/ \E p \in OpenPr(i) :
            /\ run' = [run EXCEPT ![i][k] = [at |-> "created", pr |-> p]]
            /\ UNCHANGED att
       \/ /\ OpenPr(i) = {} /\ AttemptCurrent(i)
          /\ att[i].by = "auto" => autonomy /\ (att[i].reserved \/ Counted < MaxOpenPrs)
          /\ att' = [att EXCEPT ![i].reserved = @ \/ att[i].by = "auto"]
          /\ run' = [run EXCEPT ![i][k].at = "cleared"]
    /\ UNCHANGED <<ticket, group, probing, outside, events, autonomy, faults>>

(* createPR: an open pull request of the branch, or a new one. *)
FixCreates(i, k) ==
    /\ run[i][k].at = "cleared"
    /\ \/ /\ OpenPr(i) # {}
          /\ \E p \in OpenPr(i) : run' = [run EXCEPT ![i][k] = [at |-> "created", pr |-> p]]
          /\ UNCHANGED outside
       \/ /\ OpenPr(i) = {} /\ Len(prs[i]) < MaxPrs
          /\ prs' = [prs EXCEPT ![i] = Append(@, "open")]
          /\ UNCHANGED mail
          /\ run' = [run EXCEPT ![i][k] = [at |-> "created", pr |-> Len(prs[i]) + 1]]
    /\ UNCHANGED <<ticket, group, probing, att, events, autonomy, faults>>

RecordsCurrent(i, k) ==
    /\ Owns(i, k) /\ CurrentLineage(i) /\ att[i].status \in Outstanding
    /\ group[att[i].t].sub \in {"fixing", "pr_open"}

(* recordAttemptPr, whoever owns the job by now. *)
FixRecords(i, k) ==
    /\ run[i][k].at = "created"
    /\ run' = [run EXCEPT ![i][k].at = "recorded"]
    /\ IF RecordsCurrent(i, k) THEN ApplyPrEvent(i, run[i][k].pr, "opened")
       ELSE ApplyOrphan(i, run[i][k].pr)
    /\ UNCHANGED <<ticket, probing, outside, events, autonomy, faults>>

(* The handler returns; completeJob is fenced. *)
FixEnds(i, k) ==
    /\ run[i][k].at = "recorded"
    /\ run' = [run EXCEPT ![i][k] = Gone]
    /\ att' = IF Owns(i, k) THEN [att EXCEPT ![i].job = "ended"] ELSE att
    /\ UNCHANGED <<ticket, group, probing, outside, events, autonomy, faults>>

(* The execution fails, dies, or outlives its lease and goes on; the job runs     *)
(* again or is dead.  needs_human ends it as if it were dead.                     *)
FixStops(i, k) ==
    /\ run[i][k].at # "gone" /\ Owns(i, k)
    /\ \E zombie \in BOOLEAN :
         /\ zombie => faults < MaxFaults /\ run[i][k].at \in {"cleared", "created"}
         /\ faults' = IF zombie THEN faults + 1 ELSE faults
         /\ run' = IF zombie THEN run ELSE [run EXCEPT ![i][k] = Gone]
    /\ \/ /\ Len(run[i]) < MaxRuns
          /\ att' = [att EXCEPT ![i].job = "pending"]
          /\ UNCHANGED group
       \/ FixFailed(i)
    /\ UNCHANGED <<ticket, probing, outside, events, autonomy>>

(* An execution that lost its job gives up, at the next check at the latest. *)
FixGivesUp(i, k) ==
    /\ run[i][k].at # "gone" /\ ~Owns(i, k)
    /\ run' = [run EXCEPT ![i][k] = Gone]
    /\ UNCHANGED <<ticket, group, probing, att, outside, events, autonomy, faults>>

-----------------------------------------------------------------------------
(* The provider and its webhooks. *)

(* A person merges or closes a pull request. *)
Decide(i, p) ==
    /\ prs[i][p] = "open"
    /\ \E w \in {"merged", "closed"} :
         /\ prs' = [prs EXCEPT ![i][p] = w]
         /\ mail' = mail \cup {[i |-> i, pr |-> p, what |-> w]}
    /\ UNCHANGED <<ticket, group, probing, fixing, events, autonomy, faults>>

(* ProcessTicketPRWebhook: of a pull request no attempt has recorded, nothing     *)
(* is kept.                                                                       *)
Webhook(e) ==
    /\ e \in mail
    /\ mail' = mail \ {e}
    /\ events' = IF att[e.i].pr = e.pr THEN events \cup {e} ELSE events
    /\ UNCHANGED <<ticket, group, probing, fixing, prs, autonomy, faults>>

(* processPrEventJob. *)
EventApplied(e) ==
    /\ e \in events
    /\ events' = events \ {e}
    /\ ApplyPrEvent(e.i, e.pr, e.what)
    /\ UNCHANGED <<ticket, probing, run, outside, autonomy, faults>>

SetAutonomy ==
    /\ faults < MaxFaults /\ faults' = faults + 1
    /\ autonomy' = ~autonomy
    /\ UNCHANGED <<ticket, group, probing, fixing, outside, events>>

Next ==
    \/ \E t \in Problems :
         \/ Publish(t) \/ TakeBack(t) \/ NewEvidence(t)
         \/ PersonRequests(t) \/ InvestigationAsks(t)
         \/ \E j \in DOMAIN probe[t] : ProbeStarts(t, j) \/ ProbeBegins(t, j) \/ ProbeStops(t, j)
         \/ \E h \in mind[t] : ProbeFinishes(t, h)
    \/ \E i \in DOMAIN att :
         \/ FixStarts(i)
         \/ \E k \in DOMAIN run[i] :
              \/ FixClears(i, k) \/ FixCreates(i, k) \/ FixRecords(i, k) \/ FixEnds(i, k)
              \/ FixStops(i, k) \/ FixGivesUp(i, k)
         \/ \E p \in DOMAIN prs[i] : Decide(i, p)
    \/ \E e \in mail : Webhook(e)
    \/ \E e \in events : EventApplied(e)
    \/ SetAutonomy

Spec == Init /\ [][Next]_vars

-----------------------------------------------------------------------------
(* What the incident shows is what its attempts are: it is being fixed or has    *)
(* an open pull request exactly while one attempt of its generation is at that   *)
(* point, and no attempt of a retired generation is outstanding.                 *)
SubstateAgrees ==
    \A t \in Problems :
        LET now == {i \in AttemptsOf(t) : Live(t) /\ att[i].status \in Outstanding}
            all == {i \in DOMAIN att : att[i].t = t /\ att[i].status \in Outstanding}
        IN  /\ all = now /\ Cardinality(now) <= 1
            /\ Live(t) => /\ group[t].sub = "fixing" <=> \E i \in now : att[i].status = "active"
                          /\ group[t].sub = "pr_open" <=> \E i \in now : att[i].status = "pr_open"

(* Automatic fixes never hold more than the cap, in open pull requests and in     *)
(* deliveries under way together (assertFixAttemptCurrent).                       *)
AutoCap ==
    Cardinality({i \in DOMAIN att :
        /\ att[i].by = "auto"
        /\ att[i].status = "pr_open" \/ (att[i].status = "active" /\ att[i].reserved)}) <= MaxOpenPrs

(* An incident is resolved, and an attempt closed, only by what happened at the   *)
(* provider to a pull request of the attempt: the recorded one, until an orphan   *)
(* of a retired generation overwrites its number.                                 *)
OutcomeIsReal ==
    /\ \A i \in DOMAIN att : att[i].status \in {"merged", "closed"} =>
         /\ \E p \in DOMAIN prs[i] : prs[i][p] = att[i].status
         /\ CurrentLineage(i) => att[i].pr \in DOMAIN prs[i] /\ prs[i][att[i].pr] = att[i].status
    /\ \A t \in Problems : Live(t) /\ group[t].sub = "resolved" =>
         \E i \in AttemptsOf(t) : att[i].status = "merged"

(* An outcome stands: late, repeated and reordered events, orphans, retries and    *)
(* retirements never change it, nor the resolution of an incident.                *)
OutcomeIsFinal ==
    /\ \A i \in DOMAIN att :
         att[i].status \notin Outstanding => att'[i].status = att[i].status
    /\ \A t \in Problems :
         group[t].sub = "resolved" /\ ticket'[t].gen = ticket[t].gen
         => group'[t].sub = "resolved"

(* Results are adopted in the order their investigations began, and the evidence   *)
(* a result is about never gets older.                                            *)
NewestResult ==
    \A t \in Problems :
        ticket'[t].gen = ticket[t].gen /\ group'[t].result # group[t].result
        => /\ group'[t].result > group[t].result /\ group'[t].used >= group[t].used
           /\ group'[t].result = group[t].exec

(* No step takes an outcome back or adopts an older result. *)
NeverBackwards == [][OutcomeIsFinal /\ NewestResult]_vars

(* Nothing waits for work that is gone: an active attempt has a fix job to run or   *)
(* running, and a pending investigation an investigate job, unless the last one    *)
(* died before it began (attemptFailed compares its missing execution with a       *)
(* counter that is past zero).                                                     *)
WaitsForWork ==
    /\ \A i \in DOMAIN att : att[i].status = "active" => att[i].job \in Queued
    /\ \A t \in Problems : Live(t) /\ group[t].inv = "pending" /\ group[t].sub # "resolved" =>
         \/ Active(t, 0) # {}
         \/ probe[t][Len(probe[t])].exec = 0 /\ group[t].exec > 0

(* An incident, its attempts, its jobs and its pull requests agree, and the  *)
(* automatic attempts stay within the cap.                                   *)
AttemptsAgree ==
  /\ TypeOK
  /\ SubstateAgrees
  /\ AutoCap
  /\ OutcomeIsReal
  /\ WaitsForWork
=============================================================================
