------------------------------ MODULE Tickets ------------------------------
(***************************************************************************)
(* Friction tickets: recordings are matched to known problems, batches of  *)
(* them are confirmed by a model, and the confirmed share decides whether  *)
(* a problem is published, folded into a published one that the same fix   *)
(* would cure, refreshed, or taken back.                                   *)
(*                                                                         *)
(* Every write is one transaction under the environment's publication      *)
(* lock, fenced by the job's lease.  What the models are asked is read     *)
(* before, without a lock: the look of a match, the view a confirmation    *)
(* started with, and the plan of a confirmation or a reconciliation may    *)
(* all be stale when they are used.                                        *)
(*                                                                         *)
(* A recording is its starting time.  "inconclusive" is "refuted": every   *)
(* rule counts both alike.  The fix of a published problem appears as its  *)
(* merge only; FixAttempts has the rest.                                   *)
(***************************************************************************)
EXTENDS Integers, FiniteSets, Functions

CONSTANTS
    Problems,       \* ticket ids
    MaxTime,        \* bound: recordings
    Signals,        \* observations
    SessionOf,      \* SessionOf[x]: the recording of observation x
    UserOf,         \* UserOf[s]: its user, or None
    First,          \* First[x]: the ticket x was matched to before, or None
    Near,           \* pairs above foldMinSimilarity
    MinConfirmed, MinUsers, PassPct, FailPct, FailCounted,  \* evaluateBar
    FirstLook,      \* matches before the first confirmation
    NextLook,       \* arrivals before the next one
    BatchSize,      \* LIMIT of selectBatch
    MaxUnavailable, \* unavailable answers that make it permanent
    FoldRetryLimit, \* FOLD_RETRY_LIMIT
    MaxFaults,      \* bound: jobs that stop or die, recordings purged,
                    \* tickets archived
    None

Sessions == 1..MaxTime

ASSUME TicketAssumption ==
    /\ MaxTime \in Nat /\ SessionOf \in [Signals -> Sessions]
    /\ First \in [Signals -> Problems \cup {None}]
    /\ {MinConfirmed, MinUsers, PassPct, FailPct, FailCounted, FirstLook, NextLook,
        BatchSize, MaxUnavailable, FoldRetryLimit, MaxFaults} \subseteq Nat
    /\ BatchSize > 0 /\ MinConfirmed > 0 /\ FailPct <= PassPct
    /\ {None, "new", "draft", "not_a_problem"} \cap Problems = {}

VARIABLES
    now,        \* the recordings 1..now have started
    gone,       \* the purged ones
    ticket,     \* friction_tickets, with the live incident's fix
    matches,    \* friction_ticket_matches
    noted,      \* friction_ticket_match_observations
    decision,   \* friction_observation_decisions
    look,       \* what the match job of a recording was answered
    checks,     \* friction_checks
    retry,      \* friction_unavailable_retries: attempts and waiting
    job,        \* the friction_confirm job of a ticket
    batch,      \* its friction_confirm_batches row
    view,       \* the ticket as its execution read it
    plan,       \* the TransitionPlan of either job
    gate,       \* friction_gate_decisions, the latest of a pair
    reconciling,\* tickets with a friction_reconcile job
    faults      \* jobs that stopped or died, purges, archived tickets

evidence == <<matches, noted, decision>>
confirming == <<checks, retry, batch, view>>
vars == <<now, gone, ticket, evidence, look, confirming, job, plan, gate, reconciling, faults>>

Kinds == {"confirm", "reconcile"}
Statuses == {"absent", "tracking", "published", "unpublished", "merged", "archived"}
Terminal == {"merged", "archived"}
NoPlan == [made |-> FALSE, status |-> "absent", gen |-> 0, ev |-> 0, fixed |-> 0,
           resolved |-> FALSE, near |-> {}, target |-> None, judged |-> FALSE,
           invalid |-> FALSE]
NoBatch == [manifest |-> {}, staged |-> <<>>, status |-> "absent", gen |-> 0, ev |-> 0]
NoView == [folds |-> 0, fixed |-> 0, status |-> "absent"]
NewTicket ==
    [status |-> "absent", fix |-> "none", gen |-> 0, ev |-> 0, count |-> 0, next |-> 0,
     boundary |-> 0, folds |-> 0, fixed |-> 0, cutoff |-> 0, reconcile |-> FALSE,
     into |-> None]

TypeOK ==
    /\ now \in 0..MaxTime /\ gone \subseteq Sessions
    /\ ticket \in [Problems ->
         [status : Statuses, fix : {"none", "open", "resolved"}, gen : Nat, ev : Nat,
          count : Nat, next : Nat, boundary : Nat,
          folds : 0..FoldRetryLimit, fixed : 0..MaxTime, cutoff : 0..MaxTime,
          reconcile : BOOLEAN, into : Problems \cup {None}]]
    /\ matches \in [Problems -> SUBSET Sessions]
    /\ noted \in [Problems -> SUBSET Signals]
    /\ decision \in [Signals -> Problems \cup {None, "not_a_problem"}]
    /\ checks \in [Problems -> [Sessions -> {"none", "confirmed", "refuted"}]]
    /\ retry \in [Problems -> [Sessions -> [tries : 0..MaxUnavailable, waiting : BOOLEAN]]]
    /\ job \in [Problems -> {"none", "later", "pending", "running"}]
    /\ gate \in [Problems \X Problems -> {"unasked", "yes", "no"}]
    /\ reconciling \subseteq Problems
    /\ faults \in 0..MaxFaults

(* The match threshold of processFrictionMatch and foldInto. *)
Due(k) == /\ k.count >= FirstLook
          /\ k.boundary = 0 \/ k.next - k.boundary >= NextLook

(* The recordings of First have been matched to tickets that are tracked. *)
Init ==
    LET of(t) == {SessionOf[x] : x \in {y \in Signals : First[y] = t}}
        n(t) == Cardinality(of(t))
    IN
    /\ now = Cardinality(UNION {of(t) : t \in Problems}) /\ gone = {}
    /\ matches = [t \in Problems |-> of(t)]
    /\ ticket = [t \in Problems |-> [NewTicket EXCEPT
         !.status = IF n(t) = 0 THEN @ ELSE "tracking", !.count = n(t), !.next = n(t)]]
    /\ noted = [t \in Problems |-> {x \in Signals : First[x] = t}]
    /\ decision = First
    /\ job = [t \in Problems |-> IF Due(ticket[t]) THEN "pending" ELSE "none"]
    /\ look = [s \in Sessions |-> <<>>]
    /\ checks = [t \in Problems |-> [s \in Sessions |-> "none"]]
    /\ retry = [t \in Problems |-> [s \in Sessions |-> [tries |-> 0, waiting |-> FALSE]]]
    /\ batch = [t \in Problems |-> NoBatch]
    /\ view = [t \in Problems |-> NoView]
    /\ plan = [k \in Kinds |-> [t \in Problems |-> NoPlan]]
    /\ gate = [p \in Problems \X Problems |-> "unasked"]
    /\ reconciling = {}
    /\ faults = 0

-----------------------------------------------------------------------------
(* Matching. *)

(* A recording starts. *)
Record == now < MaxTime /\ now' = now + 1
          /\ UNCHANGED <<gone, ticket, evidence, look, confirming, job, plan, gate, reconciling, faults>>

Eligible(t) == ticket[t].status \in {"tracking", "published", "unpublished"}
Fresh == {t \in Problems : ticket[t].status = "absent"}
Undecided(s) == {x \in Signals : SessionOf[x] = s /\ decision[x] = None}

(* What is kept of the models' answers: matchObservations names every        *)
(* observation once, as a ticket of the shortlist or a draft, and firstLook   *)
(* every draft: a known ticket, a new one, or no problem.  Any other answer   *)
(* is asked for again once and then fails the job.                            *)
Shortlist == {t \in Problems : Eligible(t)}
CheapAnswers(X) == [X -> Shortlist \cup {"draft"}]
StrongAnswers(X) == [X -> Shortlist \cup {"new", "not_a_problem"}]

(* The recording has a finalised narrative, and the job its lease. *)
Narrated(s) == s \in 1..now \ gone

(* processFrictionMatch, up to its transaction. *)
Look(s) ==
    /\ Narrated(s) /\ look[s] = <<>> /\ Undecided(s) # {}
    /\ \E cheap \in CheapAnswers(Undecided(s)) :
         \E strong \in StrongAnswers({x \in Undecided(s) : cheap[x] = "draft"}) :
            look' = [look EXCEPT ![s] = [x \in Undecided(s) |->
                       IF cheap[x] = "draft" THEN strong[x] ELSE cheap[x]]]
    /\ UNCHANGED <<now, gone, ticket, evidence, confirming, job, plan, gate, reconciling, faults>>

(* resolveMatchTicket: the tickets reached from t through folds, and of them  *)
(* the one that is not merged; none when it is archived or the folds run in a *)
(* circle, and then the code throws.                                          *)
FoldChain(t) ==
    {p \in Problems : \A S \in SUBSET Problems :
        t \in S /\ (\A q \in S : ticket[q].status = "merged" /\ ticket[q].into # None
                              => ticket[q].into \in S)
        => p \in S}
Targets(t) == {p \in FoldChain(t) : ticket[p].status \notin Terminal}
Resolve(t) == CHOOSE p \in Targets(t) : TRUE

Enqueued(j) == IF j = "none" THEN "pending" ELSE j

(* recordMatch of the recordings S, their observations X. *)
Recorded(k, m, S) == [k EXCEPT !.count = @ + Cardinality(S \ m),
                               !.next = @ + Cardinality(S \ m)]

(* processFrictionMatch, the transaction: decisions, matches, and a          *)
(* confirmation when enough has arrived.  A terminal target fails the job,   *)
(* and the retry looks again.                                                *)
Match(s) ==
    LET new == {x \in DOMAIN look[s] : look[s][x] = "new"}
        known == {x \in DOMAIN look[s] : look[s][x] \in Problems}
        bad == \E x \in known : Targets(look[s][x]) = {}
    IN  /\ look[s] # <<>>
        /\ look' = [look EXCEPT ![s] = <<>>]
        /\ IF bad \/ s \in gone
           THEN UNCHANGED <<ticket, evidence, job>>
           ELSE \E made \in [new -> Fresh] :
             LET at == [x \in DOMAIN look[s] |->
                          IF x \in new THEN made[x]
                          ELSE IF x \in known THEN Resolve(look[s][x])
                          ELSE "not_a_problem"]
                 touched == Range(at) \cap Problems
             IN  /\ IsInjective(made)
                 /\ decision' = [x \in Signals |-> IF x \in DOMAIN at THEN at[x] ELSE decision[x]]
                 /\ matches' = [t \in Problems |-> matches[t] \cup {r \in {s} : t \in touched}]
                 /\ noted' = [t \in Problems |-> noted[t] \cup {x \in DOMAIN at : at[x] = t}]
                 /\ ticket' = [t \in Problems |->
                      IF t \notin touched THEN ticket[t]
                      ELSE [Recorded(ticket[t], matches[t], {s}) EXCEPT
                              !.status = IF @ = "absent" THEN "tracking" ELSE @]]
                 /\ job' = [t \in Problems |->
                      IF t \in touched /\ Due(ticket'[t]) THEN Enqueued(job[t]) ELSE job[t]]
        /\ UNCHANGED <<now, gone, confirming, plan, gate, reconciling, faults>>

-----------------------------------------------------------------------------
(* Evidence and the publication bar. *)

Cohort(k, m, c) == {s \in m : c[s] # "none" /\ s > k.cutoff}
Confirmed(C, c) == {s \in C : c[s] = "confirmed"}
Diverse(Y) == LET users == {UserOf[s] : s \in Y} \ {None}
              IN  users = {} \/ Cardinality(users) >= MinUsers

(* evaluateBar, on cohortStats. *)
Passes(k, m, c) ==
    LET C == Cohort(k, m, c)
        Y == Confirmed(C, c)
    IN  /\ Cardinality(Y) >= MinConfirmed /\ Diverse(Y)
        /\ 100 * Cardinality(Y) >= PassPct * Cardinality(C)

Below(k, m, c) ==
    LET C == Cohort(k, m, c)
        Y == Confirmed(C, c)
    IN  \/ Cardinality(Y) < MinConfirmed \/ ~Diverse(Y)
        \/ Cardinality(C) >= FailCounted /\ 100 * Cardinality(Y) < FailPct * Cardinality(C)

(* confirmationTransition. *)
Transition(k, m, c) ==
    CASE k.status \in Terminal \cup {"absent"} -> "none"
      [] k.status = "published" /\ k.fix = "resolved" ->
           IF Passes(k, m, c) THEN "activate" ELSE "none"
      [] k.status = "published" /\ k.fix # "resolved" ->
           IF ~Passes(k, m, c) /\ Below(k, m, c) THEN "unpublish" ELSE "refresh"
      [] OTHER -> IF Passes(k, m, c) THEN "classify" ELSE "none"

(* publishedNeighbors. *)
Neighbors(t) == {n \in Problems \ {t} : /\ <<t, n>> \in Near
                                        /\ ticket[n].status = "published"
                                        /\ ticket[n].fix # "resolved"}

(* What is left to check of a ticket. *)
Open(m, c, r) == {s \in m : c[s] = "none" /\ r[s].tries < MaxUnavailable}

(* nextConfirmationAt, and the job for it. *)
NextConfirmation(j, k, m, c, r) ==
    LET open == Open(m, c, r)
    IN  IF k.status \in Terminal \/ open = {} \/ j # "none" THEN j
        ELSE IF \E s \in open : ~r[s].waiting THEN "pending" ELSE "later"

-----------------------------------------------------------------------------
(* Confirmation. *)

(* discardBatch. *)
Discarded(k, b) == [k EXCEPT !.reconcile = @ \/ b # NoBatch]

(* Mutant: a dead confirmation leaves its batch staging. *)
DiscardedNever(k, b) == k

DiscardBatch(k, b) == Discarded(k, b)

Selectable(t) == {s \in Open(matches[t], checks[t], retry[t]) : ~retry[t][s].waiting}

(* The first transaction of processFrictionConfirm: nothing to do on a       *)
(* terminal ticket or with nothing to select; the batch of an earlier        *)
(* execution goes on; else selectBatch.                                      *)
ConfirmStarts(t) ==
    /\ job[t] = "pending"
    /\ \/ /\ ticket[t].status \in Terminal
          /\ ticket' = [ticket EXCEPT ![t].reconcile = FALSE]
          /\ batch' = [batch EXCEPT ![t] = NoBatch]
          /\ job' = [job EXCEPT ![t] = "none"]
       \/ /\ ticket[t].status \notin Terminal /\ batch[t] # NoBatch
          /\ job' = [job EXCEPT ![t] = "running"]
          /\ UNCHANGED <<ticket, batch>>
       \/ /\ ticket[t].status \notin Terminal /\ batch[t] = NoBatch /\ Selectable(t) = {}
          /\ job' = [job EXCEPT ![t] = "none"]
          /\ UNCHANGED <<ticket, batch>>
       \/ /\ ticket[t].status \notin Terminal /\ batch[t] = NoBatch
          /\ \E S \in SUBSET Selectable(t) :
               /\ S # {}
               /\ Cardinality(S) = IF Cardinality(Selectable(t)) < BatchSize
                                   THEN Cardinality(Selectable(t)) ELSE BatchSize
               /\ batch' = [batch EXCEPT ![t] =
                    [manifest |-> S, staged |-> <<>>, status |-> ticket[t].status,
                     gen |-> ticket[t].gen, ev |-> ticket[t].ev]]
          /\ ticket' = [ticket EXCEPT ![t].boundary = ticket[t].next]
          /\ job' = [job EXCEPT ![t] = "running"]
    /\ view' = [view EXCEPT ![t] =
         IF job'[t] = "none" THEN NoView
         ELSE [folds |-> ticket[t].folds, fixed |-> ticket[t].fixed, status |-> ticket[t].status]]
    /\ UNCHANGED <<now, gone, evidence, look, checks, retry, plan, gate, reconciling, faults>>

(* batchIntact. *)
BatchIntact(t) == batch[t].manifest \subseteq matches[t]

(* confirmRead's answer, validated.  Inconclusive counts against a ticket as  *)
(* refuted does; unavailable is a recording that could not be replayed, or an *)
(* answer that was invalid twice.                                             *)
Outcomes == {"confirmed", "refuted", "unavailable"}

(* stageCheck: the answer of one recording, and an unavailable one's wait.   *)
StageCheck(t, s) ==
    /\ job[t] = "running" /\ ~plan["confirm"][t].made
    /\ BatchIntact(t) /\ s \in batch[t].manifest \ DOMAIN batch[t].staged
    /\ \E o \in Outcomes :
         /\ batch' = [batch EXCEPT ![t].staged =
              [r \in DOMAIN @ \cup {s} |-> IF r = s THEN o ELSE @[r]]]
         /\ retry' = IF o # "unavailable" THEN retry
                     ELSE [retry EXCEPT ![t][s] = [tries |-> @.tries + 1, waiting |-> TRUE]]
    /\ UNCHANGED <<now, gone, ticket, evidence, look, checks, view, job, plan, gate, reconciling, faults>>

(* retry_at has come for some, and available_at for a delayed job.           *)
TimePasses(t) ==
    /\ job[t] = "later" \/ \E s \in Sessions : retry[t][s].waiting
    /\ retry' = [retry EXCEPT ![t] = [s \in Sessions |-> [tries |-> @[s].tries, waiting |-> FALSE]]]
    /\ job' = [job EXCEPT ![t] = IF @ = "later" THEN "pending" ELSE @]
    /\ UNCHANGED <<now, gone, ticket, evidence, look, checks, view, batch, plan, gate, reconciling, faults>>

(* previewCohort: the finalized checks and what this batch has staged.       *)
Checked(c, st) == [s \in Sessions |->
    IF c[s] = "none" /\ s \in DOMAIN st /\ st[s] # "unavailable" THEN st[s] ELSE c[s]]

(* prepareConfirmationTransition, without a lock: the snapshot v, the        *)
(* neighbours, and the one-fix gate asked in turn until it says yes or       *)
(* answers invalidly.  Answers of a pair are kept and used again.            *)
Prepared(t, k, v, staged) ==
    LET N == Neighbors(t)
        base == [NoPlan EXCEPT !.made = TRUE, !.status = v.status, !.gen = v.gen,
                   !.ev = v.ev, !.fixed = v.fixed, !.resolved = ticket[t].fix = "resolved"]
        asks == /\ v.view \in {"tracking", "unpublished"} /\ v.folds < FoldRetryLimit
        classify == /\ asks
                    /\ Passes(ticket[t], matches[t], Checked(checks[t], staged))
        made(p) == plan' = [plan EXCEPT ![k][t] = p]
        answered(A, x, a) == gate' = [q \in DOMAIN gate |->
            IF q[1] = t /\ q[2] \in A THEN "no"
            ELSE IF q = <<t, x>> /\ gate[q] = "unasked" THEN a ELSE gate[q]]
    IN  \/ ~asks /\ made(base) /\ UNCHANGED gate
        \/ asks /\ ~classify /\ made([base EXCEPT !.near = N]) /\ UNCHANGED gate
        \/ /\ classify /\ \A n \in N : gate[t, n] # "yes"
           /\ made([base EXCEPT !.near = N, !.judged = TRUE])
           /\ answered(N, t, "no")
        \/ /\ classify
           /\ \E x \in N, A \in SUBSET N :
                /\ x \notin A /\ gate[t, x] # "no" /\ \A n \in A : gate[t, n] # "yes"
                /\ \/ /\ made([base EXCEPT !.near = N, !.judged = TRUE, !.target = x])
                      /\ answered(A, x, "yes")
                   \/ /\ gate[t, x] = "unasked"
                      /\ made([base EXCEPT !.near = N, !.invalid = TRUE])
                      /\ answered(A, t, "no")

ConfirmPlans(t) ==
    /\ job[t] = "running" /\ ~plan["confirm"][t].made
    /\ DOMAIN batch[t].staged = batch[t].manifest \/ ~BatchIntact(t)
    /\ Prepared(t, "confirm", [status |-> batch[t].status, gen |-> batch[t].gen,
         ev |-> batch[t].ev, fixed |-> view[t].fixed, folds |-> view[t].folds,
         view |-> view[t].status], batch[t].staged)
    /\ UNCHANGED <<now, gone, ticket, evidence, look, confirming, job, reconciling, faults>>

(* confirmationSnapshotCurrent. *)
SnapshotCurrent(k, p) ==
    /\ k.status = p.status /\ k.gen = p.gen /\ k.ev = p.ev /\ k.fixed = p.fixed
    /\ (k.fix = "resolved") = p.resolved

(* Mutant: the neighbours are not read again. *)
SameNeighborsAssumed(t, p) == TRUE

(* The neighbours under the lock are those the gate was asked about. *)
SameNeighbors(t, p) == Neighbors(t) = p.near

(* activateGeneration and unpublish; retireLiveGeneration is in both. *)
Activated(k) == [k EXCEPT !.status = "published", !.fix = "open", !.gen = @ + 1,
                          !.fixed = 0, !.folds = 0, !.reconcile = FALSE]
Unpublished(k) == [k EXCEPT !.status = "unpublished", !.fix = "none", !.reconcile = FALSE]
Retries(k) == [k EXCEPT !.reconcile = TRUE, !.folds = @ + 1]

FoldCounts(k, m, S) == Recorded(k, m, S)

Repointed(t, n) == [x \in Signals |-> IF decision[x] = t THEN n ELSE decision[x]]

(* foldInto: t's matches, observations and decisions go to n, and t's        *)
(* pending confirmation with them.                                           *)
FoldInto(t, n, k, j) ==
    /\ ticket' = [ticket EXCEPT
         ![t] = [k EXCEPT !.status = "merged", !.into = n, !.reconcile = FALSE],
         ![n] = [FoldCounts(ticket[n], matches[n], matches[t]) EXCEPT
                   !.ev = @ + 1, !.reconcile = TRUE]]
    /\ matches' = [matches EXCEPT ![n] = @ \cup matches[t]]
    /\ noted' = [noted EXCEPT ![n] = @ \cup noted[t]]
    /\ decision' = Repointed(t, n)
    /\ job' = [job EXCEPT ![t] = IF j \in {"pending", "later"} THEN "none" ELSE j,
                          ![n] = IF Due(ticket'[n]) THEN Enqueued(@) ELSE @]

(* applyConfirmationTransition for t, now k, with the checks c; the job j     *)
(* stays or is followed by the next confirmation.                             *)
Apply(t, k, p, c, r, j) ==
    LET move == Transition(k, matches[t], c)
        gated == move = "classify" /\ k.folds < FoldRetryLimit
        becomes(x) ==
            /\ ticket' = [ticket EXCEPT ![t] = x]
            /\ job' = [job EXCEPT ![t] = NextConfirmation(j, x, matches[t], c, r)]
            /\ UNCHANGED evidence
    IN  \/ gated /\ ~SameNeighbors(t, p) /\ becomes(Retries(k))
        \/ /\ gated /\ SameNeighbors(t, p) /\ ~p.judged /\ p.near # {}
           /\ becomes(IF p.invalid THEN Retries(k) ELSE [k EXCEPT !.reconcile = TRUE])
        \/ /\ gated /\ SameNeighbors(t, p) /\ (p.judged \/ p.near = {})
           /\ p.target \in Neighbors(t) /\ FoldInto(t, p.target, k, j)
        \/ /\ \/ /\ gated /\ SameNeighbors(t, p) /\ (p.judged \/ p.near = {})
                 /\ p.target \notin Neighbors(t)
              \/ move = "classify" /\ ~gated
              \/ move = "activate"
           /\ becomes(Activated(k))
        \/ move = "unpublish" /\ becomes(Unpublished(k))
        \/ move \in {"refresh", "none"} /\ becomes([k EXCEPT !.reconcile = FALSE])

(* finalizeBatch: what was answered is not waited for any more. *)
FinalRetries(t, staged) ==
    [s \in Sessions |-> IF s \in DOMAIN staged /\ staged[s] # "unavailable"
                        THEN [tries |-> 0, waiting |-> FALSE] ELSE retry[t][s]]

(* The last transaction of processFrictionConfirm: a batch that is not        *)
(* current is discarded, a current one finalized and its transition applied.  *)
ConfirmApplies(t) ==
    LET p == plan["confirm"][t]
        b == batch[t]
        c == Checked(checks[t], b.staged)
        r == FinalRetries(t, b.staged)
    IN  /\ job[t] = "running" /\ p.made
        /\ batch' = [batch EXCEPT ![t] = NoBatch]
        /\ plan' = [plan EXCEPT !["confirm"][t] = NoPlan]
        /\ \/ /\ SnapshotCurrent(ticket[t], p) /\ BatchIntact(t)
              /\ checks' = [checks EXCEPT ![t] = c]
              /\ retry' = [retry EXCEPT ![t] = r]
              /\ Apply(t, [ticket[t] EXCEPT !.ev = @ + 1], p, c, r, "none")
           \/ /\ ~(SnapshotCurrent(ticket[t], p) /\ BatchIntact(t))
              /\ ticket' = [ticket EXCEPT ![t] =
                   IF ticket[t].status \in Terminal
                   THEN [ticket[t] EXCEPT !.reconcile = FALSE] ELSE Discarded(@, b)]
              /\ job' = [job EXCEPT ![t] = "none"]
              /\ UNCHANGED <<evidence, checks, retry>>
        /\ view' = [view EXCEPT ![t] = NoView]
        /\ UNCHANGED <<now, gone, look, gate, reconciling, faults>>

(* The confirmation stops: crash, lost lease, budget spent, shutdown.  It is   *)
(* run again and goes on with its batch.                                      *)
ConfirmStops(t) ==
    /\ job[t] = "running" /\ faults < MaxFaults
    /\ faults' = faults + 1
    /\ job' = [job EXCEPT ![t] = "pending"]
    /\ plan' = [plan EXCEPT !["confirm"][t] = NoPlan]
    /\ view' = [view EXCEPT ![t] = NoView]
    /\ UNCHANGED <<now, gone, ticket, evidence, look, checks, retry, batch, gate, reconciling>>

(* Its last attempt fails: attemptFailed discards the batch. *)
ConfirmDies(t) ==
    /\ job[t] = "running" /\ faults < MaxFaults
    /\ faults' = faults + 1
    /\ job' = [job EXCEPT ![t] = "none"]
    /\ ticket' = [ticket EXCEPT ![t] = DiscardBatch(@, batch[t])]
    /\ batch' = [batch EXCEPT ![t] = NoBatch]
    /\ plan' = [plan EXCEPT !["confirm"][t] = NoPlan]
    /\ view' = [view EXCEPT ![t] = NoView]
    /\ UNCHANGED <<now, gone, evidence, look, checks, retry, gate, reconciling>>

-----------------------------------------------------------------------------
(* Reconciliation. *)

(* scheduleFrictionReconciliation. *)
Schedule(t) ==
    /\ ticket[t].reconcile /\ ticket[t].status \notin Terminal /\ t \notin reconciling
    /\ reconciling' = reconciling \cup {t}
    /\ UNCHANGED <<now, gone, ticket, evidence, look, confirming, job, plan, gate, faults>>

ReconcilePlans(t) ==
    /\ t \in reconciling /\ ~plan["reconcile"][t].made
    /\ \/ /\ ticket[t].status \notin Terminal
          /\ Prepared(t, "reconcile", [status |-> ticket[t].status, gen |-> ticket[t].gen,
               ev |-> ticket[t].ev, fixed |-> ticket[t].fixed, folds |-> ticket[t].folds,
               view |-> ticket[t].status], <<>>)
       \/ /\ ticket[t].status \in Terminal
          /\ plan' = [plan EXCEPT !["reconcile"][t] = [NoPlan EXCEPT !.made = TRUE]]
          /\ UNCHANGED gate
    /\ UNCHANGED <<now, gone, ticket, evidence, look, confirming, job, reconciling, faults>>

(* The transaction of processFrictionReconcile, which recounts the matches.    *)
ReconcileApplies(t) ==
    LET p == plan["reconcile"][t]
        k == [ticket[t] EXCEPT !.count = Cardinality(matches[t])]
    IN  /\ t \in reconciling /\ p.made
        /\ reconciling' = reconciling \ {t}
        /\ plan' = [plan EXCEPT !["reconcile"][t] = NoPlan]
        /\ \/ /\ k.status \notin Terminal /\ SnapshotCurrent(k, p)
              /\ Apply(t, k, p, checks[t], retry[t], job[t])
           \/ /\ ~(k.status \notin Terminal /\ SnapshotCurrent(k, p))
              /\ ticket' = [ticket EXCEPT ![t] =
                   [k EXCEPT !.reconcile = k.status \notin Terminal]]
              /\ job' = [job EXCEPT ![t] =
                   NextConfirmation(@, k, matches[t], checks[t], retry[t])]
              /\ UNCHANGED evidence
        /\ UNCHANGED <<now, gone, look, confirming, gate, faults>>

(* The reconciliation fails, for this time or for good. *)
ReconcileStops(t) ==
    /\ t \in reconciling /\ faults < MaxFaults
    /\ faults' = faults + 1
    /\ \E again \in BOOLEAN : reconciling' = IF again THEN reconciling ELSE reconciling \ {t}
    /\ plan' = [plan EXCEPT !["reconcile"][t] = NoPlan]
    /\ UNCHANGED <<now, gone, ticket, evidence, look, confirming, job, gate>>

-----------------------------------------------------------------------------
(* What happens to a ticket from outside. *)

BelowAfterDelete(k, m, c) == Below(k, m, c)

(* friction_reconcile_after_delete. *)
AfterDelete(k, m, c) ==
    LET d == [k EXCEPT !.count = Cardinality(m), !.ev = @ + 1, !.reconcile = TRUE]
    IN  IF k.status = "published" /\ k.fix # "resolved" /\ BelowAfterDelete(k, m, c)
        THEN [d EXCEPT !.status = "unpublished", !.fix = "none"] ELSE d

(* DeleteMarkedSession: the cascade, and every ticket that had the recording.  *)
Purge(s) ==
    /\ s \in 1..now \ gone /\ faults < MaxFaults
    /\ faults' = faults + 1
    /\ gone' = gone \cup {s}
    /\ matches' = [t \in Problems |-> matches[t] \ {s}]
    /\ noted' = [t \in Problems |-> {x \in noted[t] : SessionOf[x] # s}]
    /\ decision' = [x \in Signals |-> IF SessionOf[x] = s THEN None ELSE decision[x]]
    /\ checks' = [t \in Problems |-> [checks[t] EXCEPT ![s] = "none"]]
    /\ retry' = [t \in Problems |-> [retry[t] EXCEPT ![s] = [tries |-> 0, waiting |-> FALSE]]]
    /\ batch' = [t \in Problems |->
         [batch[t] EXCEPT !.staged = Restrict(@, DOMAIN @ \ {s})]]
    /\ ticket' = [t \in Problems |->
         IF s \in matches[t] THEN AfterDelete(ticket[t], matches'[t], checks'[t]) ELSE ticket[t]]
    /\ UNCHANGED <<now, look, view, job, plan, gate, reconciling>>

(* applyPrEvent of a merge that is current. *)
FixMerges(t) ==
    /\ ticket[t].status = "published" /\ ticket[t].fix = "open"
    /\ ticket' = [ticket EXCEPT ![t].fix = "resolved", ![t].fixed = now, ![t].cutoff = now]
    /\ UNCHANGED <<now, gone, evidence, look, confirming, job, plan, gate, reconciling, faults>>

(* archiveTicketGroup: a person archives the group of the last generation.     *)
Archive(t) ==
    /\ ticket[t].gen > 0 /\ ticket[t].status # "archived" /\ faults < MaxFaults
    /\ faults' = faults + 1
    /\ ticket' = [ticket EXCEPT ![t].status = "archived", ![t].fix = "none",
                                ![t].reconcile = FALSE]
    /\ job' = [job EXCEPT ![t] = "none"]
    /\ batch' = [batch EXCEPT ![t] = NoBatch]
    /\ reconciling' = reconciling \ {t}
    /\ plan' = [k \in Kinds |-> [plan[k] EXCEPT ![t] = NoPlan]]
    /\ view' = [view EXCEPT ![t] = NoView]
    /\ UNCHANGED <<now, gone, evidence, look, checks, retry, gate>>

Work(t) ==
    \/ ConfirmStarts(t) \/ (\E s \in Sessions : StageCheck(t, s))
    \/ ConfirmPlans(t) \/ ConfirmApplies(t)
    \/ Schedule(t) \/ ReconcilePlans(t) \/ ReconcileApplies(t) \/ TimePasses(t)

Next ==
    \/ Record
    \/ \E s \in Sessions : Look(s) \/ Match(s) \/ Purge(s)
    \/ \E t \in Problems :
         \/ Work(t) \/ ConfirmStops(t) \/ ConfirmDies(t) \/ ReconcileStops(t)
         \/ FixMerges(t) \/ Archive(t)

Spec == Init /\ [][Next]_vars

-----------------------------------------------------------------------------
(* A problem has a live incident exactly while it is published, and a         *)
(* published one that is not fixed has, at every moment, evidence above the    *)
(* bar it must not fall below: purges, new checks and fixes included.          *)
PublishedOnEvidence ==
    \A t \in Problems :
        /\ (ticket[t].status = "published") = (ticket[t].fix # "none")
        /\ ticket[t].fix = "open" => ~Below(ticket[t], matches[t], checks[t])
                                     \/ Passes(ticket[t], matches[t], checks[t])

(* A decided observation is evidence of a ticket that was not folded away      *)
(* (foldInto, resolveMatchTicket), and matched_count is the matches there are. *)
NothingLeftBehind ==
    \A x \in Signals : decision[x] \in Problems =>
        /\ ticket[decision[x]].status # "merged"
        /\ x \in noted[decision[x]] /\ SessionOf[x] \in matches[decision[x]]

MatchedCount == \A t \in Problems : ticket[t].count = Cardinality(matches[t])

(* A ticket that is first published, or published again after it was taken     *)
(* back, was judged against every similar problem published by then and needs  *)
(* another fix; only the retry limit lets it through unjudged.                 *)
GateHolds ==
    [][\A t \in Problems :
         ticket[t].status \in {"tracking", "unpublished"} /\ ticket'[t].status = "published"
         => \/ ticket[t].folds >= FoldRetryLimit
            \/ \A n \in Neighbors(t) : gate[t, n] = "no"]_vars

(* Recordings that were never answered for. *)
Unread(t) == {s \in Open(matches[t], checks[t], retry[t]) : retry[t][s].tries = 0}

(* No recording is forgotten: of a ticket with no confirmation queued or        *)
(* running and no reconciliation due, which would queue one, only recordings     *)
(* that arrived after the last batch was selected were never answered for.       *)
(* Dead jobs, discarded batches, folds and purges lose nothing.                  *)
NoneForgotten ==
    \A t \in Problems :
        \/ ticket[t].status \in Terminal \/ ticket[t].boundary = 0
        \/ job[t] # "none" \/ ticket[t].reconcile
        \/ Cardinality(Unread(t)) <= ticket[t].next - ticket[t].boundary

(* The ticket, its evidence and its jobs agree: it is published on evidence, *)
(* folds leave nothing behind, and no recording of it is forgotten.          *)
TicketsAgree ==
  /\ TypeOK
  /\ PublishedOnEvidence
  /\ NothingLeftBehind
  /\ MatchedCount
  /\ NoneForgotten
=============================================================================
