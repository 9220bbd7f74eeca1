--------------------------- MODULE Investigation ---------------------------
(***************************************************************************)
(* One investigation of an issue (processInvestigateJob for an error,      *)
(* processFrictionInvestigateJob for a friction incident): a machine is    *)
(* rented and the repository cloned into it, a model reads files and       *)
(* submits a verdict, the verdict is checked against what was really read, *)
(* and the issue is routed.  The machine may vanish, the stream of the     *)
(* model break, the database refuse a write and the worker die.            *)
(*                                                                         *)
(* A path is a file of the checkout or a ghost, which is not in it.  A     *)
(* quote that is not in its file grounds as little as one of a ghost, so   *)
(* quotes are known by their paths.                                        *)
(***************************************************************************)
EXTENDS Naturals, FiniteSets

CONSTANTS
    Repo,           \* files of the checkout the model may name
    Ghosts,         \* paths it may name that are not there
    Submissions,    \* the verdicts it may submit
    MaxResubmits,   \* sdkMaxResubmits
    MaxReads,       \* bound: files opened in one run
    MaxRuns         \* executions of the job before it is dead-lettered

Nil == "nil"
Paths == Repo \cup Ghosts

(* An adjudication, or the verdict on a friction incident.  Its shape is    *)
(* empty if it does not parse, broken if its candidates, rejections or      *)
(* partition do not fit together or its text is filler.  rival is where a   *)
(* local candidate is cited, and ruledOut where its rejection is.           *)
Submission ==
    [shape : {"empty", "broken", "whole"}, cause : {"local", "outside", "unknown"},
     strength : {"insufficient", "enough"}, brief : {"none", "given"},
     first : Paths \cup {Nil}, evidence : SUBSET Paths,
     rival : Paths \cup {Nil}, ruledOut : Paths \cup {Nil}]

NoSubmission ==
    [shape |-> "none", cause |-> "unknown", strength |-> "insufficient", brief |-> "none",
     first |-> Nil, evidence |-> {}, rival |-> Nil, ruledOut |-> Nil]

ASSUME InvestigationAssumption ==
    /\ Repo \cap Ghosts = {} /\ Nil \notin Paths
    /\ Submissions \subseteq Submission
    /\ MaxResubmits \in Nat /\ MaxReads \in Nat /\ MaxRuns \in Nat

VARIABLES
    lane,       \* kind of the issue
    stage,      \* where the job is
    runs,       \* executions begun
    machine,    \* the rented machine
    netrc,      \* the clone credential on it
    orphans,    \* machines nobody will give back: they run until they expire
    opened,     \* filesRead, and the cache of what they hold
    missing,    \* knownMissing
    captured,   \* the submission the terminal tool recorded
    returned,   \* the last one it handed back for correction
    resubmits,  \* how many it handed back
    stop,       \* how the run of the model ended
    probe,      \* what became of the probe of the cited paths
    ruling,     \* the outcome derived from the submission
    fault,      \* what failed while the machine was set up
    status,     \* of the issue
    reason,     \* what the issue was told
    decisions   \* the outcomes in diagnosis_decisions, newest last, of which two are kept

invRun == <<opened, missing, captured, returned, resubmits, stop, probe, ruling>>
invIssue == <<status, reason, decisions>>
invVars == <<lane, stage, runs, machine, netrc, orphans, invRun, fault, invIssue>>

Outcomes == {"code_fix", "not_actionable", "needs_more_context", "incomplete"}
Recordable == {"none", "code_fix", "not_actionable", "needs_human", "unable", "incomplete"}
Stops == {"no_tool_call", "truncated", "turns_exhausted", "budget", "api_error"}
Open == {"new", "analyzing"}

InvTypeOK ==
    /\ lane \in {"error", "friction"}
    /\ stage \in {"queued", "start", "clone", "note", "loop", "judge", "route", "park",
                  "ended", "completed", "dead"}
    /\ runs \in 0..MaxRuns
    /\ machine \in {"none", "up", "gone"} /\ netrc \in {"absent", "present"}
    /\ orphans \in Nat
    /\ opened \subseteq Repo /\ missing \subseteq Paths
    /\ captured \in Submissions \cup {NoSubmission} /\ returned \in Submissions \cup {NoSubmission}
    /\ resubmits \in 0..MaxResubmits
    /\ stop \in Stops \cup {"none", "terminal", "no_evidence"}
    /\ probe \in {"none", "answered", "failed"}
    /\ ruling \in Outcomes \cup {"none"}
    /\ fault \in {"none", "repository", "network", "machine", "database"}
    /\ status \in Open \cup {"needs_human", "insight", "fixing", "investigated",
                             "awaiting_approval"}
    /\ reason \in {"none", "no_frames", "repository", "insufficient_context"}
    /\ decisions \in [last : Recordable, before : Recordable]

InvInit ==
    /\ lane \in {"error", "friction"}
    /\ stage = "queued" /\ runs = 0
    /\ machine = "none" /\ netrc = "absent" /\ orphans = 0
    /\ opened = {} /\ missing = {} /\ captured = NoSubmission /\ returned = NoSubmission /\ resubmits = 0
    /\ stop = "none" /\ probe = "none" /\ ruling = "none"
    /\ fault = "none"
    /\ status = "new" /\ reason = "none"
    /\ decisions = [last |-> "none", before |-> "none"]

-----------------------------------------------------------------------------
(* The job and its machine. *)

(* An error the queue may retry: failJob counts the attempt. *)
Retries == stage' = IF runs < MaxRuns THEN "queued" ELSE "dead"

Kept == UNCHANGED <<lane, runs, orphans>>

(* close, or the kill of a setup that failed. *)
GivenBack == machine' = "none" /\ netrc' = "absent"

Decided(outcome) == decisions' = [last |-> outcome, before |-> decisions.last]

(* updateGroupInvestigation: the status and its decision in one transaction. *)
Writes(s, why, outcome) ==
    /\ status' = s /\ reason' = why
    /\ Decided(outcome)

Begun == stage = "queued" /\ runs < MaxRuns /\ runs' = runs + 1
                         /\ UNCHANGED <<lane, machine, netrc, orphans>>

(* Mutant: what is settled is investigated again. *)
PendingAgain == TRUE

Pending == status \in Open

(* processInvestigateJob: an outcome that was committed is adopted. *)
Adopts ==
    /\ Begun /\ ~Pending
    /\ stage' = "ended" /\ UNCHANGED <<invRun, fault, invIssue>>

OverQuota ==
    /\ Begun /\ Pending
    /\ stage' = "ended" /\ UNCHANGED <<invRun, fault, invIssue>>

(* Up to the rental.  A stack without application frames is settled at once. *)
Starts ==
    /\ Begun /\ Pending
    /\ fault' = "none"
    /\ opened' = {} /\ missing' = {} /\ captured' = NoSubmission /\ returned' = NoSubmission /\ resubmits' = 0
    /\ stop' = "none" /\ probe' = "none" /\ ruling' = "none"
    /\ \/ stage' = "start" /\ status' = "analyzing" /\ UNCHANGED <<reason, decisions>>
       \/ lane = "error" /\ stage' = "ended" /\ Writes("needs_human", "no_frames", "unable")

(* Without the key of the model nothing is rented: a configuration error,    *)
(* which no retry mends.                                                     *)
Unconfigured ==
    /\ stage = "start"
    /\ stage' = "dead"
    /\ Kept /\ UNCHANGED <<machine, netrc, invRun, fault, invIssue>>

(* createReadOnlyCheckout rents the machine and writes the credential, if    *)
(* there is a token.                                                         *)
Rents ==
    /\ stage = "start"
    /\ stage' = "clone" /\ machine' = "up" /\ netrc' \in {"absent", "present"}
    /\ Kept /\ UNCHANGED <<invRun, fault, invIssue>>

RentFails ==
    /\ stage = "start"
    /\ fault' = "machine" /\ Retries
    /\ Kept /\ UNCHANGED <<machine, netrc, invRun, invIssue>>

(* What is made of an error of the setup: what is not the machine's and not  *)
(* the network's is told to the customer as the repository's.                *)
Blames ==
    /\ stage' = "ended" /\ status' = "needs_human" /\ reason' = "repository"
    /\ IF lane = "error" THEN Decided("needs_human") ELSE UNCHANGED decisions

CloneSucceeds ==
    /\ stage = "clone"
    /\ stage' = "note" /\ netrc' = "absent"
    /\ Kept /\ UNCHANGED <<machine, invRun, fault, invIssue>>

(* git says no, or the network or the machine fails under it; the            *)
(* credential, if any, is removed.                                           *)
CloneFails ==
    /\ stage = "clone"
    /\ fault' \in {"repository", "network", "machine"}
    /\ IF fault' = "repository" THEN Blames ELSE Retries /\ UNCHANGED invIssue
    /\ GivenBack /\ Kept /\ UNCHANGED invRun

(* The credential cannot be removed, for one because the machine is gone:    *)
(* the error that says so takes the place of the one the clone ended with.   *)
(* The machine is killed, if that can be done.                               *)
RemovalFails ==
    /\ stage = "clone" /\ netrc = "present"
    /\ fault' = "machine"
    /\ Blames
    /\ orphans' \in {orphans, orphans + 1}
    /\ GivenBack /\ UNCHANGED <<lane, runs, invRun>>

(* The branch is cached and the commit recorded. *)
Notes ==
    /\ stage = "note"
    /\ stage' = "loop"
    /\ Kept /\ UNCHANGED <<machine, netrc, invRun, fault, invIssue>>

(* The database fails there.  An error's machine is closed; a friction       *)
(* incident leaves through the clone's handler, which holds no machine.      *)
NoteFails ==
    /\ stage = "note"
    /\ fault' = "database"
    /\ IF lane = "error"
       THEN Retries /\ UNCHANGED <<orphans, invIssue>>
       ELSE /\ orphans' = orphans + 1
            /\ (Retries /\ UNCHANGED invIssue) \/ Blames
    /\ GivenBack /\ UNCHANGED <<lane, runs, invRun>>

-----------------------------------------------------------------------------
(* What the checks make of a submission. *)

Grounded(p) == p \in opened \ missing

(* Mutant: any evidence will do, read or not. *)
ValidAsSubmitted(s, codeCause) ==
    /\ opened # {} /\ s.evidence # {}
    /\ codeCause => s.brief = "given"

(* validateVerdict. *)
ValidVerdict(s, codeCause) ==
    /\ opened # {} /\ s.evidence # {}
    /\ codeCause => s.brief = "given"
    /\ \A p \in s.evidence : Grounded(p)

(* A local candidate stands against the claim that the cause is elsewhere. *)
StillLive(s) == Grounded(s.rival) /\ ~Grounded(s.ruledOut)

(* parseAdjudication makes something of it; validateAdjudicationShape, or     *)
(* the partition of the signals, accepts it.                                 *)
Parsed(s) == s.shape # "empty"
Whole(s) == s.shape = "whole"

(* deriveOutcome: whether the submission settles where the cause is, and its *)
(* kind, its first location and its rejections hold.                         *)
Settles(s) == Parsed(s) /\ s.strength = "enough" /\ s.cause # "unknown"
ActsLocally(s) == Settles(s) /\ s.cause = "local" /\ s.first \notin missing \cup {Nil}
PointsOutside(s) == Settles(s) /\ s.cause = "outside" /\ ~StillLive(s)

(* validateSubmission, which judges before the submission is recorded. *)
WellFormed(s) ==
    /\ Whole(s)
    /\ Settles(s) => ActsLocally(s) \/ PointsOutside(s)
    /\ ValidVerdict(s, ActsLocally(s))

-----------------------------------------------------------------------------
(* The loop of the model: runReadOnlyAgentSdk. *)

ReadsFile(p) ==
    /\ stage = "loop" /\ machine = "up"
    /\ Cardinality(opened) < MaxReads
    /\ opened' = opened \cup ({p} \cap Repo)
    /\ missing' = IF p \in Repo THEN missing \ {p} ELSE missing \cup {p}
    /\ Kept
    /\ UNCHANGED <<stage, machine, netrc, captured, returned, resubmits, stop, probe, ruling,
                   fault, invIssue>>

(* The terminal tool.  It answers on, so a recorded submission may be        *)
(* followed by another while the stream is drained.                          *)
Submits(s) ==
    /\ stage = "loop"
    /\ IF /\ opened = {} \/ (lane = "error" /\ ~WellFormed(s))
          /\ resubmits < MaxResubmits
       THEN resubmits' = resubmits + 1 /\ returned' = s /\ UNCHANGED captured
       ELSE captured' = s /\ UNCHANGED <<resubmits, returned>>
    /\ Kept
    /\ UNCHANGED <<stage, machine, netrc, opened, missing, stop, probe, ruling, fault, invIssue>>

MachineVanishes ==
    /\ stage \in {"note", "loop", "judge"} /\ machine = "up"
    /\ machine' = "gone"
    /\ Kept /\ UNCHANGED <<stage, netrc, invRun, fault, invIssue>>

(* A tool finds the machine gone: the run throws, and the job is retried. *)
ToolFails ==
    /\ stage = "loop" /\ machine = "gone"
    /\ Retries /\ GivenBack
    /\ Kept /\ UNCHANGED <<invRun, fault, invIssue>>

(* What the run returns: the recorded submission, or the last one handed     *)
(* back, unless the stream broke.                                            *)
Submitted == IF captured # NoSubmission THEN captured
             ELSE IF stop = "api_error" THEN NoSubmission ELSE returned

(* The stream ends or breaks.  A break takes the recorded submission with it;*)
(* what else ends the run after one does not.                                *)
StreamEnds(how) ==
    /\ stage = "loop"
    /\ stage' = "judge"
    /\ stop' = IF how = "api_error" THEN how
               ELSE IF captured # NoSubmission THEN "terminal"
               ELSE IF returned # NoSubmission /\ how # "budget" THEN "terminal"
               ELSE IF /\ returned = NoSubmission /\ opened = {}
                       /\ how \in {"no_tool_call", "turns_exhausted"} THEN "no_evidence"
               ELSE how
    /\ Kept
    /\ UNCHANGED <<machine, netrc, opened, missing, captured, returned, resubmits, probe, ruling,
                   fault, invIssue>>

(* A run that did not submit: a model that cannot be reached is tried again, *)
(* a refused request, a cap or a silent model is dead-lettered at once.  Of  *)
(* a friction incident the incomplete decision is kept.                      *)
RunFailed ==
    /\ stage = "judge" /\ stop # "terminal"
    /\ \/ stop = "api_error" /\ Retries /\ UNCHANGED invIssue
       \/ stop = "api_error" /\ stage' = "dead" /\ UNCHANGED invIssue
       \/ /\ stop # "api_error" /\ stage' = "dead"
          /\ IF lane = "friction" THEN Decided("incomplete") ELSE UNCHANGED decisions
          /\ UNCHANGED <<status, reason>>
    /\ GivenBack /\ Kept /\ UNCHANGED <<invRun, fault>>

(* The verdict on the submission, with what is known of the paths. *)
ErrorRuling(s) ==
    IF ~Parsed(s) THEN "needs_more_context"
    ELSE IF ~Whole(s) \/ ~ValidVerdict(s, ActsLocally(s)) THEN "incomplete"
    ELSE IF ActsLocally(s) THEN "code_fix"
    ELSE IF PointsOutside(s) THEN "not_actionable" ELSE "needs_more_context"

(* parseFrictionVerdict, and the checks on what it makes of the submission. *)
FrictionRuling(s) ==
    IF ~Whole(s) \/ ~ValidVerdict(s, s.cause = "local") THEN "incomplete"
    ELSE IF s.cause = "local" THEN "code_fix" ELSE "not_actionable"

Cited(s) ==
    IF lane = "error" THEN s.evidence \cup ({s.first, s.rival, s.ruledOut} \ {Nil})
    ELSE IF Whole(s) THEN s.evidence ELSE {}

(* probeCitedPaths: which of the cited paths that were not opened are there. *)
Probes ==
    /\ stage = "judge" /\ stop = "terminal" /\ probe = "none"
    /\ \/ /\ machine = "up" /\ probe' = "answered"
          /\ missing' = missing \cup ((Cited(Submitted) \ opened) \cap Ghosts)
          /\ UNCHANGED stage /\ UNCHANGED <<machine, netrc>>
       \/ /\ Cited(Submitted) \subseteq opened /\ probe' = "answered"
          /\ UNCHANGED <<stage, missing, machine, netrc>>
       \/ /\ machine = "up" /\ lane = "error" /\ probe' = "failed"
          /\ UNCHANGED <<stage, missing, machine, netrc>>
       \/ /\ machine = "gone" \/ lane = "friction"
          /\ ~(Cited(Submitted) \subseteq opened)
          /\ Retries /\ GivenBack /\ UNCHANGED <<missing, probe>>
    /\ Kept
    /\ UNCHANGED <<opened, captured, returned, resubmits, stop, ruling, fault, invIssue>>

Judges ==
    /\ stage = "judge" /\ stop = "terminal" /\ probe # "none"
    /\ stage' = "route"
    /\ ruling' = IF lane = "error" THEN ErrorRuling(Submitted) ELSE FrictionRuling(Submitted)
    /\ Kept
    /\ UNCHANGED <<machine, netrc, opened, missing, captured, returned, resubmits, stop, probe,
                   fault, invIssue>>

-----------------------------------------------------------------------------
(* Routing, after which the machine is given back. *)

RoutesIncomplete ==
    /\ stage = "route" /\ ruling = "incomplete"
    /\ stage' = "dead"
    /\ IF lane = "friction" THEN Decided("incomplete") ELSE UNCHANGED decisions
    /\ GivenBack /\ Kept /\ UNCHANGED <<invRun, fault, status, reason>>

RoutesFinding ==
    /\ stage = "route" /\ ruling \in {"needs_more_context", "not_actionable"}
    /\ stage' = "ended"
    /\ IF lane = "friction" THEN Writes("awaiting_approval", "none", "not_actionable")
       ELSE IF ruling = "not_actionable" THEN Writes("insight", "none", "needs_human")
       ELSE Writes("needs_human", "insufficient_context", "unable")
    /\ GivenBack /\ Kept /\ UNCHANGED <<invRun, fault>>

(* updateGroupAndCreateFixJob; of a friction incident only if its reach and  *)
(* the project's autonomy allow it.                                          *)
RoutesFix ==
    /\ stage = "route" /\ ruling = "code_fix"
    /\ stage' = "ended"
    /\ Writes("fixing", "none", "code_fix")
    /\ GivenBack /\ Kept /\ UNCHANGED <<invRun, fault>>

(* A person's fix is pending: the decision is kept and the issue parked next. *)
FixRefused ==
    /\ stage = "route" /\ ruling = "code_fix"
    /\ stage' = "park"
    /\ Decided("code_fix")
    /\ Kept /\ UNCHANGED <<machine, netrc, invRun, fault, status, reason>>

Parks ==
    /\ \/ stage = "park"
       \/ stage = "route" /\ ruling = "code_fix" /\ lane = "friction"
    /\ stage' = "ended"
    /\ IF lane = "error" THEN Writes("investigated", "none", "needs_human")
                         ELSE Writes("awaiting_approval", "none", "code_fix")
    /\ GivenBack /\ Kept /\ UNCHANGED <<invRun, fault>>

(* completeJob. *)
Completes ==
    /\ stage = "ended"
    /\ stage' = "completed"
    /\ Kept /\ UNCHANGED <<machine, netrc, invRun, fault, invIssue>>

(* The worker dies, or loses its lease at a write: the job is claimed again, *)
(* its machine left to expire.                                               *)
WorkerDies ==
    /\ stage \notin {"queued", "completed", "dead"}
    /\ Retries
    /\ orphans' = orphans + (IF machine = "up" THEN 1 ELSE 0)
    /\ GivenBack /\ UNCHANGED <<lane, runs, invRun, fault, invIssue>>

-----------------------------------------------------------------------------
InvSteps ==
    \/ Adopts \/ OverQuota \/ Starts \/ Unconfigured \/ Rents \/ RentFails
    \/ CloneSucceeds \/ CloneFails \/ RemovalFails \/ Notes \/ NoteFails
    \/ \E p \in Paths : ReadsFile(p)
    \/ \E s \in Submissions : Submits(s)
    \/ ToolFails
    \/ \E how \in Stops : StreamEnds(how)
    \/ RunFailed \/ Probes \/ Judges
    \/ RoutesIncomplete \/ RoutesFinding \/ RoutesFix \/ FixRefused \/ Parks \/ Completes

InvNext == InvSteps \/ MachineVanishes \/ WorkerDies

InvSpec == InvInit /\ [][InvNext]_invVars

-----------------------------------------------------------------------------
(* The model is not let at the machine while the clone credential is on it,  *)
(* and no machine is held by a job that is not at work on it.                *)
MachineInOrder ==
    /\ machine # "none" => stage \in {"clone", "note", "loop", "judge", "route", "park"}
    /\ netrc = "present" => stage = "clone"

(* A fix is started only on a verdict whose every citation was read in this  *)
(* checkout, with a brief, and whose first location is a file of it, unless  *)
(* the probe of the paths failed.                                            *)
FixIsGrounded ==
    status = "fixing" =>
        /\ Submitted # NoSubmission
        /\ Submitted.cause = "local" /\ Submitted.brief = "given"
        /\ Submitted.evidence # {} /\ Submitted.evidence \subseteq opened
        /\ lane = "error" => Submitted.first \in Repo \/ probe = "failed"

(* The customer is told that the cause is outside the code only if every     *)
(* local candidate that was really read was ruled out by what was read.      *)
InsightIsGrounded ==
    status = "insight" =>
        /\ Submitted # NoSubmission
        /\ Submitted.cause = "outside" /\ Submitted.strength = "enough"
        /\ Submitted.evidence # {} /\ Submitted.evidence \subseteq opened
        /\ Submitted.rival \in opened => Submitted.ruledOut \in opened

(* What is recorded in diagnosis_decisions and what the issue shows agree: a *)
(* fix job, which reads the newest decision, is never started on another one,*)
(* and a parked verdict is kept beneath the decision to hold it.             *)
DecisionAgrees ==
    /\ status = "fixing" => decisions.last = "code_fix"
    /\ status = "insight" => decisions.last = "needs_human"
    /\ status = "investigated" =>
           decisions = [last |-> "needs_human", before |-> "code_fix"]
    /\ status = "awaiting_approval" =>
           /\ Submitted # NoSubmission
           /\ decisions.last = IF Submitted.cause = "local" THEN "code_fix" ELSE "not_actionable"
    /\ status = "needs_human" /\ lane = "error" => decisions.last \in {"unable", "needs_human"}

(* An investigation leaves its issue with what it has established, whatever  *)
(* machine, stream and worker do.                                            *)
InvestigationHonest ==
    InvTypeOK /\ MachineInOrder /\ FixIsGrounded /\ InsightIsGrounded /\ DecisionAgrees

(* An outcome that is committed is adopted by every later execution of the   *)
(* job: the issue is not routed twice.                                       *)
VerdictStands == [][status \notin Open => UNCHANGED invIssue]_invVars
=============================================================================
