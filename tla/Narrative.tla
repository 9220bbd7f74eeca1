------------------------------- MODULE Narrative -------------------------------
(***************************************************************************)
(* The narrative of one session (narrative/job.ts, narrative/verify.ts and  *)
(* the session_narratives statements of db.ts): the analysis reserves it, a *)
(* session_narrate job writes it, a session_verify_frames job checks its    *)
(* observations against frames and emits them, and a sweep takes both up    *)
(* again when they were lost.                                               *)
(*                                                                          *)
(* Sessions share no row but the day's call budget: whether the rest of the *)
(* project has left a unit of it is a choice made at each reservation.      *)
(* Claiming a narrative is not guarded by the job's lease; every write that *)
(* ends a stage is.                                                         *)
(***************************************************************************)
EXTENDS Naturals, FiniteSets

CONSTANTS
  Narrators,       \* workers that may run the session's jobs
  MaxTries         \* max_attempts of the two job types

ASSUME NarrativeConstants == MaxTries \in Nat \ {0}

VARIABLES
  row,       \* the session_narratives row; stale: not updated for an hour (a
             \* quarter of one while it is pending);
             \* old: created a day ago; stamped: the stages with a budget stamp
  queue,     \* the active job of each type
  run,       \* what each worker executes, lease or no lease
  selected,  \* the sweep has read the row as expired and has yet to finalise it
  keyed,     \* a model key is configured
  paid,      \* budget units taken for this session, per stage
  emitted    \* times the observations were written and the match job queued

narrativeVars == <<row, queue, run, selected, keyed, paid, emitted>>

Stages == {"narrate", "verify"}
Open   == {"pending", "verifying"}
Ends   == {"skipped_cap", "skipped_budget", "parse_failed", "render_aborted", "failed"}
Grades == {"ok", "failed", "unsupported", "skipped_budget"}

NoRun     == [pc |-> "idle"]
NoTask    == [status |-> "none", tries |-> 0, holder |-> "none"]
Queued(j) == [j EXCEPT !.status = "pending", !.holder = "none"]

Row  == [status : {"none", "pending", "narrating", "ok"} \union Ends,
         check : {"none"} \union Open \union Grades,
         stale : BOOLEAN, old : BOOLEAN, stamped : SUBSET Stages]
Task == [status : {"none", "pending", "claimed"}, tries : 0..MaxTries - 1,
         holder : Narrators \union {"none"}]
Run  == {NoRun} \union
        [stage : Stages, result : {"none", "ok", "quiet"} \union Ends \union Grades,
         pc : {"claim", "reserve", "call", "finish", "enqueue", "complete", "fail"}]

NarrativeTypeOK ==
  /\ row \in Row
  /\ queue \in [Stages -> Task]
  /\ run \in [Narrators -> Run]
  /\ selected \in BOOLEAN /\ keyed \in BOOLEAN
  /\ paid \in [Stages -> Nat]
  /\ emitted \in Nat

NarrativeInit ==
  /\ row = [status |-> "none", check |-> "none", stale |-> FALSE, old |-> FALSE,
            stamped |-> {}]
  /\ queue = [k \in Stages |-> NoTask]
  /\ run = [w \in Narrators |-> NoRun]
  /\ selected = FALSE
  /\ keyed = FALSE
  /\ paid = [k \in Stages |-> 0]
  /\ emitted = 0

-----------------------------------------------------------------------------
(* The jobs.                                                                 *)

\* INSERT ... WHERE NOT EXISTS an active job of the type.
QueuedOnce(k) == IF queue[k].status = "none"
                 THEN [queue EXCEPT ![k] = Queued(NoTask)] ELSE queue

\* reserveNarrative in the transaction of an active session's analysis; the
\* enqueue that follows it is lost when the worker stops in between.
ReserveNarrative ==
  /\ row.status = "none"
  /\ row' = [row EXCEPT !.status = "pending"]
  /\ queue' \in {queue, QueuedOnce("narrate")}
  /\ UNCHANGED <<run, selected, keyed, paid, emitted>>

ClaimTask(w, k) ==
  /\ run[w].pc = "idle"
  /\ queue[k].status = "pending"
  /\ queue' = [queue EXCEPT ![k].status = "claimed", ![k].holder = w]
  /\ run' = [run EXCEPT ![w] = [stage |-> k, result |-> "none", pc |-> "claim"]]
  /\ UNCHANGED <<row, selected, keyed, paid, emitted>>

\* failJob and the reaper: another attempt, or the dead letter.
Retried(k) ==
  LET j == queue[k] IN
  [queue EXCEPT ![k] = IF j.tries + 1 < MaxTries
                       THEN Queued([j EXCEPT !.tries = j.tries + 1]) ELSE NoTask]

\* The lease expires; the execution goes on until its next guarded write.
LeaseLapses(k) ==
  /\ queue[k].status = "claimed"
  /\ queue' = Retried(k)
  /\ UNCHANGED <<row, run, selected, keyed, paid, emitted>>

Leased(w) == queue[run[w].stage].status = "claimed" /\ queue[run[w].stage].holder = w

\* The execution ends: completeJob or failJob, if the lease is still its own.
RunEnds(w) ==
  LET k == run[w].stage IN
  /\ run[w].pc \in {"complete", "fail"}
  /\ queue' = IF ~Leased(w) THEN queue
              ELSE IF run[w].pc = "complete" THEN [queue EXCEPT ![k] = NoTask]
              ELSE Retried(k)
  /\ run' = [run EXCEPT ![w] = NoRun]
  /\ UNCHANGED <<row, selected, keyed, paid, emitted>>

\* The worker stops; its lease is left to lapse.
WorkerStops(w) ==
  /\ run[w].pc # "idle"
  /\ run' = [run EXCEPT ![w] = NoRun]
  /\ UNCHANGED <<row, queue, selected, keyed, paid, emitted>>

-----------------------------------------------------------------------------
(* One execution.                                                            *)

Goes(w, pc)       == run' = [run EXCEPT ![w].pc = pc]
Finishes(w, res)  == run' = [run EXCEPT ![w].pc = "finish", ![w].result = res]
RunOnly == UNCHANGED <<selected, keyed>>

\* claimPendingNarrative, when there is a model to call.
ClaimPendingNarrative(w) ==
  /\ run[w].pc = "claim" /\ run[w].stage = "narrate"
  /\ IF keyed /\ row.status = "pending"
       THEN /\ row' = [row EXCEPT !.status = "narrating", !.stale = FALSE]
            /\ Goes(w, "reserve")
       ELSE Goes(w, "complete") /\ UNCHANGED row
  /\ UNCHANGED <<queue, paid, emitted>> /\ RunOnly

\* claimVerifyingNarrative; without a model or a store the observations are
\* emitted unverified.
ClaimVerifyingNarrative(w) ==
  /\ run[w].pc = "claim" /\ run[w].stage = "verify"
  /\ IF row.status = "ok" /\ row.check = "pending"
       THEN /\ row' = [row EXCEPT !.check = "verifying", !.stale = FALSE]
            /\ IF keyed THEN Goes(w, "reserve") ELSE Finishes(w, "unsupported")
       ELSE Goes(w, "complete") /\ UNCHANGED row
  /\ UNCHANGED <<queue, paid, emitted>> /\ RunOnly

\* Whether the row is stamped for the stage already.
Stamped(k) == k \in row.stamped

\* reserveNarrativeBudget, and the month's spend after it.
ReserveNarrativeBudget(w) ==
  LET k == run[w].stage IN
  /\ run[w].pc = "reserve"
  /\ \/ /\ paid' = IF Stamped(k) THEN paid ELSE [paid EXCEPT ![k] = @ + 1]
        /\ row' = IF Stamped(k) THEN row
                  ELSE [row EXCEPT !.stamped = @ \union {k}, !.stale = FALSE]
        /\ Goes(w, "call") \/ Finishes(w, "skipped_budget")
     \/ /\ ~Stamped(k)   \* the day's cap is used up
        /\ Finishes(w, IF k = "narrate" THEN "skipped_cap" ELSE "skipped_budget")
        /\ UNCHANGED <<row, paid>>
  /\ UNCHANGED <<queue, emitted>> /\ RunOnly

\* What chunks, timeline, model and validation come to.  "quiet" is a narrative
\* without observations.
Narrations == {"ok", "quiet", "parse_failed", "render_aborted"}

\* What frames, model and validation come to.
Verifications == {"ok", "failed"}

\* An answer, one of the terminal failures, or an error that fails the job.
CallModel(w) ==
  /\ run[w].pc = "call"
  /\ \/ run[w].stage = "narrate" /\ \E res \in Narrations : Finishes(w, res)
     \/ run[w].stage = "verify" /\ \E res \in Verifications : Finishes(w, res)
     \/ Goes(w, "fail")
  /\ UNCHANGED <<row, queue, paid, emitted>> /\ RunOnly

\* finishNarrative writes while the row is narrating and the lease is live: the
\* sweep may have failed the row, or given it to another, in the meantime.
\* (Mutant: only the lease is looked at.)
LeaseFinishes(w) == Leased(w)
MayFinish(w) == row.status = "narrating" /\ Leased(w)

FinishNarrative(w) ==
  LET res == run[w].result IN
  /\ run[w].pc = "finish" /\ run[w].stage = "narrate"
  /\ \/ /\ MayFinish(w)
        /\ row' = [row EXCEPT !.status = IF res = "quiet" THEN "ok" ELSE res,
                              !.check = IF res = "ok" THEN "pending" ELSE @,
                              !.stale = FALSE]
        /\ emitted' = IF res = "quiet" THEN emitted + 1 ELSE emitted
        /\ Goes(w, IF res = "ok" THEN "enqueue" ELSE "complete")
     \/ /\ ~MayFinish(w)
        /\ Goes(w, "fail")
        /\ UNCHANGED <<row, emitted>>
  /\ UNCHANGED <<queue, paid>> /\ RunOnly

EnqueueVerification(w) ==
  /\ run[w].pc = "enqueue"
  /\ queue' = QueuedOnce("verify")
  /\ Goes(w, "complete")
  /\ UNCHANGED <<row, paid, emitted>> /\ RunOnly

\* The row waits for its verification.  (Mutant: for any, ended or not.)
AnyCheck  == row.status = "ok"
CheckOpen == row.status = "ok" /\ row.check \in Open

\* finalizeVerification: state, signals and friction_match in one transaction.
FinalizeVerification(w) ==
  /\ run[w].pc = "finish" /\ run[w].stage = "verify"
  /\ \/ /\ CheckOpen /\ Leased(w)
        /\ row' = [row EXCEPT !.check = run[w].result, !.stale = FALSE]
        /\ emitted' = emitted + 1
        /\ Goes(w, "complete")
     \/ /\ ~(CheckOpen /\ Leased(w))
        /\ Goes(w, "fail")
        /\ UNCHANGED <<row, emitted>>
  /\ UNCHANGED <<queue, paid>> /\ RunOnly

-----------------------------------------------------------------------------
(* The sweep.                                                                *)

\* sweepNarratives reads the verifications that are a day old...
SelectExpired ==
  /\ ~selected
  /\ CheckOpen /\ row.old
  /\ selected' = TRUE
  /\ UNCHANGED <<row, queue, run, keyed, paid, emitted>>

\* ...and finalizeExpiredVerification fails each, if it is still open, and
\* emits its observations unverified.
FinalizeExpired ==
  /\ selected
  /\ selected' = FALSE
  /\ IF CheckOpen
       THEN row' = [row EXCEPT !.check = "failed", !.stale = FALSE] /\ emitted' = emitted + 1
       ELSE UNCHANGED <<row, emitted>>
  /\ UNCHANGED <<queue, run, keyed, paid>>

\* What the second half does to a narration: failed after a day, pending again
\* after an hour.
SweptNarration ==
  IF row.status \in {"pending", "narrating"} /\ row.old
    THEN [row EXCEPT !.status = "failed", !.stale = FALSE]
  ELSE IF row.status = "narrating" /\ row.stale
    THEN [row EXCEPT !.status = "pending", !.stale = FALSE]
  ELSE row

\* A verification goes back to pending after an hour.
SweptCheck ==
  IF row.status = "ok" /\ row.check = "verifying" /\ row.stale
    THEN [row EXCEPT !.check = "pending"] ELSE row

\* The second half, one transaction, run only when there is a model.
SweepNarratives ==
  /\ keyed
  /\ row' = IF row.status = "ok" THEN SweptCheck ELSE SweptNarration
  /\ queue' =
       IF row'.status = "pending" /\ row.stale THEN QueuedOnce("narrate")
       ELSE IF row'.status = "ok" /\ row'.check = "pending" /\ row'.stale /\ ~row.old
         THEN QueuedOnce("verify") ELSE queue
  /\ UNCHANGED <<run, selected, keyed, paid, emitted>>

-----------------------------------------------------------------------------
(* The environment.                                                          *)

\* An hour passes since the last update; a day since the creation.
TurnsStale ==
  /\ row.status # "none" /\ ~row.stale
  /\ row' = [row EXCEPT !.stale = TRUE]
  /\ UNCHANGED <<queue, run, selected, keyed, paid, emitted>>

TurnsOld ==
  /\ row.status # "none" /\ ~row.old
  /\ row' = [row EXCEPT !.old = TRUE]
  /\ UNCHANGED <<queue, run, selected, keyed, paid, emitted>>

KeySet ==
  /\ ~keyed
  /\ keyed' = TRUE
  /\ UNCHANGED <<row, queue, run, selected, paid, emitted>>

-----------------------------------------------------------------------------
RunSteps(w) ==
  \/ ClaimPendingNarrative(w) \/ ClaimVerifyingNarrative(w)
  \/ ReserveNarrativeBudget(w) \/ CallModel(w)
  \/ FinishNarrative(w) \/ EnqueueVerification(w) \/ FinalizeVerification(w)
  \/ RunEnds(w)

NarrativeNext ==
  \/ ReserveNarrative \/ SelectExpired \/ FinalizeExpired \/ SweepNarratives
  \/ TurnsStale \/ TurnsOld \/ KeySet
  \/ \E k \in Stages : LeaseLapses(k)
  \/ \E w \in Narrators, k \in Stages : ClaimTask(w, k)
  \/ \E w \in Narrators : RunSteps(w) \/ WorkerStops(w)

NarrativeSpec == NarrativeInit /\ [][NarrativeNext]_narrativeVars

-----------------------------------------------------------------------------
(* Properties.                                                               *)

\* What a narrative came to is final: an execution that outlived its lease, its
\* claim or the day the sweep allows never writes over a later outcome.
NarrativeIsFinal ==
  [][/\ row.status \in Ends \union {"ok"} => row'.status = row.status
     /\ row.status = "ok" /\ row.check \notin Open => row'.check = row.check]_narrativeVars

\* Observations are emitted, and the match job queued, once, and exactly when
\* the narrative needs no further verification: by the job, by its retry, or by
\* the sweep that gave up on it, however the three interleave.
EmittedOnce ==
  emitted = IF row.status = "ok" /\ row.check \notin Open THEN 1 ELSE 0

\* However often a stage is retried, it takes one unit of the daily budget.
PaidOnce == \A k \in Stages : paid[k] <= 1

(* A narrative is paid for once per stage and emits once, exactly at its end. *)
NarrativeAgrees ==
  /\ NarrativeTypeOK
  /\ EmittedOnce
  /\ PaidOnce
=============================================================================
