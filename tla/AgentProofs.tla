----------------------------- MODULE AgentProofs -----------------------------
(***************************************************************************)
(* What the two agents promise: the investigation of an issue, for any       *)
(* repository, verdicts and budgets, and the fix run, for any number of      *)
(* model tiers and retries.  Machine, stream, database and worker may fail   *)
(* at every step of either.                                                  *)
(***************************************************************************)
EXTENDS Investigation, FixRun, TLAPS

(* The investigation. *)

\* An issue that is worked on is not decided: whoever finds it decided leaves at once.
WorkIsPending ==
  stage \in {"start", "clone", "note", "loop", "judge", "route", "park"} => status \in Open

\* What is known not to be there is not there.
MissingIsMissing == missing \subseteq Ghosts

\* Only a submission is probed, and a probe that answered has told of every path it cites whether
\* it is there.
ProbeAnswers ==
  /\ stage \in {"start", "clone", "note", "loop"} => probe = "none"
  /\ probe = "answered" /\ stage \in {"judge", "route", "park"} =>
       stop = "terminal" /\ Cited(Submitted) \cap Ghosts \subseteq missing

\* The ruling is the one on the submission, with what is still known of the paths.
RulingIsOnSubmission ==
  stage \in {"route", "park"} =>
    /\ probe # "none"
    /\ ruling = IF lane = "error" THEN ErrorRuling(Submitted) ELSE FrictionRuling(Submitted)

\* A verdict that waits to be parked is a fix, and recorded as one.
ParkedIsFix == stage = "park" => ruling = "code_fix" /\ decisions.last = "code_fix"

InvestigationInv ==
  /\ InvestigationHonest
  /\ WorkIsPending /\ MissingIsMissing
  /\ ProbeAnswers /\ RulingIsOnSubmission /\ ParkedIsFix

-----------------------------------------------------------------------------
LEMMA SubmissionsAreTyped ==
  ASSUME InvTypeOK PROVE Submitted \in Submission \cup {NoSubmission}
BY InvestigationAssumption DEF InvTypeOK, Submitted

LEMMA InvTypeInit == InvInit => InvTypeOK
BY InvestigationAssumption DEF InvInit, InvTypeOK, Open, Recordable

LEMMA InvTypeKept ==
  ASSUME InvTypeOK, [InvNext]_invVars PROVE InvTypeOK'
<1>. USE InvestigationAssumption
<1>1. CASE \/ Adopts \/ OverQuota \/ Starts \/ Unconfigured \/ Rents \/ RentFails
    BY <1>1 DEF InvTypeOK, Adopts, OverQuota, Starts, Unconfigured, Rents, RentFails, Begun,
       Pending, Kept, Retries, Writes, Decided, invRun, invIssue, Open, Recordable
<1>2. CASE CloneSucceeds \/ CloneFails \/ RemovalFails \/ Notes \/ NoteFails
    BY <1>2 DEF InvTypeOK, CloneSucceeds, CloneFails, RemovalFails, Notes, NoteFails,
       Kept, Retries, Blames, GivenBack, Decided, invRun, invIssue, Open, Recordable
<1>3. ASSUME NEW p \in Paths, ReadsFile(p) PROVE InvTypeOK'
    BY <1>3 DEF InvTypeOK, ReadsFile, Kept, Paths, invIssue
<1>4. ASSUME NEW s \in Submissions, Submits(s) PROVE InvTypeOK'
    BY <1>4 DEF InvTypeOK, Submits, Kept, invIssue
<1>5. ASSUME NEW how \in Stops, StreamEnds(how) PROVE InvTypeOK'
    BY <1>5 DEF InvTypeOK, StreamEnds, Kept, invIssue
<1>6. CASE ToolFails \/ RunFailed \/ MachineVanishes \/ WorkerDies
    BY <1>6 DEF InvTypeOK, ToolFails, RunFailed, MachineVanishes, WorkerDies,
       Kept, Retries, GivenBack, Decided, invRun, invIssue, Recordable
<1>7. CASE Probes
    BY <1>7 DEF InvTypeOK, Probes, Kept, Retries, GivenBack, invIssue, Paths
<1>8. CASE Judges
    BY <1>8 DEF InvTypeOK, Judges, Kept, invIssue, ErrorRuling, FrictionRuling, Outcomes
<1>9. CASE RoutesIncomplete \/ RoutesFinding \/ RoutesFix \/ FixRefused \/ Parks \/ Completes
    BY <1>9 DEF InvTypeOK, RoutesIncomplete, RoutesFinding, RoutesFix, FixRefused, Parks,
       Completes, Kept, GivenBack, Writes, Decided, invRun, invIssue, Recordable
<1>10. CASE UNCHANGED invVars
    BY <1>10 DEF InvTypeOK, invVars, invRun, invIssue
<1>. QED BY <1>1, <1>2, <1>3, <1>4, <1>5, <1>6, <1>7, <1>8, <1>9, <1>10 DEF InvNext, InvSteps

LEMMA MachineKept ==
  ASSUME MachineInOrder, InvTypeOK, [InvNext]_invVars PROVE MachineInOrder'
<1>1. CASE \/ Adopts \/ OverQuota \/ Starts \/ Unconfigured \/ Rents \/ RentFails
    BY <1>1 DEF MachineInOrder, Adopts, OverQuota, Starts, Unconfigured, Rents, RentFails, Begun,
       Kept
<1>2. CASE CloneSucceeds \/ CloneFails \/ RemovalFails \/ Notes \/ NoteFails
    BY <1>2 DEF MachineInOrder, CloneSucceeds, CloneFails, RemovalFails, Notes, NoteFails, GivenBack
<1>3. ASSUME NEW p \in Paths, ReadsFile(p) PROVE MachineInOrder'
    BY <1>3 DEF MachineInOrder, ReadsFile
<1>4. ASSUME NEW s \in Submissions, Submits(s) PROVE MachineInOrder'
    BY <1>4 DEF MachineInOrder, Submits
<1>5. ASSUME NEW how \in Stops, StreamEnds(how) PROVE MachineInOrder'
    BY <1>5 DEF MachineInOrder, StreamEnds
<1>6. CASE ToolFails \/ RunFailed \/ MachineVanishes \/ WorkerDies
    BY <1>6 DEF MachineInOrder, ToolFails, RunFailed, MachineVanishes, WorkerDies, GivenBack
<1>7. CASE Probes \/ Judges
    BY <1>7 DEF MachineInOrder, Probes, Judges, GivenBack
<1>8. CASE RoutesIncomplete \/ RoutesFinding \/ RoutesFix \/ FixRefused \/ Parks \/ Completes
    BY <1>8 DEF MachineInOrder, RoutesIncomplete, RoutesFinding, RoutesFix, FixRefused, Parks,
       Completes, GivenBack
<1>9. CASE UNCHANGED invVars
    BY <1>9 DEF MachineInOrder, invVars
<1>. QED BY <1>1, <1>2, <1>3, <1>4, <1>5, <1>6, <1>7, <1>8, <1>9 DEF InvNext, InvSteps

\* A step that leaves the job at work leaves the issue undecided; only a run of the model, or the
\* start of one, touches what is known of the run.
LEMMA StageSteps ==
  ASSUME WorkIsPending, InvTypeOK, [InvNext]_invVars
  PROVE  /\ WorkIsPending'
         /\ status \notin Open => UNCHANGED <<lane, invRun, invIssue>>
<1>1. CASE \/ Adopts \/ OverQuota \/ Starts \/ Unconfigured \/ Rents \/ RentFails
    BY <1>1 DEF WorkIsPending, Adopts, OverQuota, Starts, Unconfigured, Rents, RentFails, Begun, Kept,
       Pending, Retries, invIssue, Open
<1>2. CASE CloneSucceeds \/ CloneFails \/ RemovalFails \/ Notes \/ NoteFails
    BY <1>2 DEF WorkIsPending, CloneSucceeds, CloneFails, RemovalFails, Notes, NoteFails, Kept,
       Retries, Blames, invIssue
<1>3. ASSUME NEW p \in Paths, ReadsFile(p) PROVE /\ WorkIsPending' /\ status \in Open
    BY <1>3 DEF WorkIsPending, ReadsFile, invIssue
<1>4. ASSUME NEW s \in Submissions, Submits(s) PROVE /\ WorkIsPending' /\ status \in Open
    BY <1>4 DEF WorkIsPending, Submits, invIssue
<1>5. ASSUME NEW how \in Stops, StreamEnds(how) PROVE /\ WorkIsPending' /\ status \in Open
    BY <1>5 DEF WorkIsPending, StreamEnds, invIssue
<1>6. CASE ToolFails \/ RunFailed \/ MachineVanishes \/ WorkerDies
    BY <1>6 DEF WorkIsPending, ToolFails, RunFailed, MachineVanishes, WorkerDies, Kept,
       Retries, invIssue
<1>7. CASE Probes \/ Judges
    BY <1>7 DEF WorkIsPending, Probes, Judges, Retries, invIssue
<1>8. CASE RoutesIncomplete \/ RoutesFinding \/ RoutesFix \/ FixRefused \/ Parks \/ Completes
    BY <1>8 DEF WorkIsPending, RoutesIncomplete, RoutesFinding, RoutesFix, FixRefused, Parks,
       Completes, Kept, invIssue
<1>9. CASE UNCHANGED invVars
    BY <1>9 DEF WorkIsPending, invVars, invIssue
<1>. QED BY <1>1, <1>2, <1>3, <1>4, <1>5, <1>6, <1>7, <1>8, <1>9 DEF InvNext, InvSteps

\* How a step may end up judging, routing or parking a submission.
LEMMA KnowledgeKept ==
  ASSUME InvestigationInv, [InvNext]_invVars
  PROVE  /\ MissingIsMissing' /\ ProbeAnswers' /\ RulingIsOnSubmission' /\ ParkedIsFix'
<1> DEFINE Goal == MissingIsMissing' /\ ProbeAnswers' /\ RulingIsOnSubmission' /\ ParkedIsFix'
<1>i. /\ InvTypeOK /\ MissingIsMissing /\ ProbeAnswers /\ RulingIsOnSubmission /\ ParkedIsFix
    BY DEF InvestigationInv, InvestigationHonest
<1>u. ASSUME UNCHANGED <<lane, invRun>>, stage' \notin {"judge", "route", "park"},
             stage' \in {"start", "clone", "note", "loop"} => probe = "none" PROVE Goal
    BY <1>i, <1>u DEF MissingIsMissing, ProbeAnswers, RulingIsOnSubmission, ParkedIsFix, invRun
<1>1. CASE \/ Adopts \/ OverQuota \/ Unconfigured \/ Rents \/ RentFails
    BY <1>1, <1>u, <1>i DEF ProbeAnswers, Adopts, OverQuota, Unconfigured, Rents, RentFails, Begun,
       Kept, Retries
<1>2. CASE Starts
    BY <1>2, <1>i DEF Starts, MissingIsMissing, ProbeAnswers, RulingIsOnSubmission, ParkedIsFix
<1>3. CASE CloneSucceeds \/ CloneFails \/ RemovalFails \/ Notes \/ NoteFails
    BY <1>3, <1>u, <1>i DEF ProbeAnswers, CloneSucceeds, CloneFails, RemovalFails, Notes, NoteFails, Kept,
       Retries, Blames
<1>4. ASSUME NEW p \in Paths, ReadsFile(p) PROVE Goal
    BY <1>4, <1>i DEF ReadsFile, Paths, MissingIsMissing, ProbeAnswers, RulingIsOnSubmission,
       ParkedIsFix
<1>5. ASSUME NEW s \in Submissions, Submits(s) PROVE Goal
    BY <1>5, <1>i DEF Submits, MissingIsMissing, ProbeAnswers, RulingIsOnSubmission, ParkedIsFix
<1>6. ASSUME NEW how \in Stops, StreamEnds(how) PROVE Goal
    BY <1>6, <1>i DEF StreamEnds, MissingIsMissing, ProbeAnswers, RulingIsOnSubmission, ParkedIsFix
<1>7. CASE ToolFails \/ RunFailed \/ WorkerDies
    BY <1>7, <1>u, <1>i DEF ProbeAnswers, ToolFails, RunFailed, WorkerDies, Kept, Retries
<1>8. CASE MachineVanishes \/ UNCHANGED invVars
  <2>1. UNCHANGED <<lane, stage, invRun, decisions>>
      BY <1>8 DEF MachineVanishes, Kept, invVars, invIssue
  <2>2. Submitted' = Submitted /\ Cited(Submitted)' = Cited(Submitted)
        /\ ErrorRuling(Submitted)' = ErrorRuling(Submitted)
        /\ FrictionRuling(Submitted)' = FrictionRuling(Submitted)
      BY <2>1 DEF invRun, Submitted, Cited, ErrorRuling, FrictionRuling, ActsLocally, PointsOutside,
         StillLive, Settles, Grounded, ValidVerdict, Whole, Parsed
  <2>. QED BY <1>i, <2>1, <2>2 DEF invRun, MissingIsMissing, ProbeAnswers, RulingIsOnSubmission,
         ParkedIsFix
<1>9. CASE Probes
  <2>1. /\ UNCHANGED <<lane, opened, captured, returned, stop, ruling>>
        /\ Submitted' = Submitted /\ Cited(Submitted)' = Cited(Submitted)
      BY <1>9 DEF Probes, Kept, Submitted, Cited, Whole
  <2>2. missing' \subseteq Ghosts /\ (stage' = "judge" => stop' = "terminal")
        /\ (probe' = "answered" /\ stage' = "judge" =>
               Cited(Submitted) \cap Ghosts \subseteq missing')
      BY <1>9, <1>i, InvestigationAssumption DEF Probes, MissingIsMissing, InvTypeOK, Retries
  <2>3. stage' \notin {"start", "clone", "note", "loop", "route", "park"}
      BY <1>9 DEF Probes, Retries
  <2>. QED BY <2>1, <2>2, <2>3 DEF MissingIsMissing, ProbeAnswers, RulingIsOnSubmission, ParkedIsFix
<1>10. CASE Judges
  <2>1. UNCHANGED <<lane, opened, missing, captured, returned, stop, probe>>
      BY <1>10 DEF Judges, Kept
  <2>2. Submitted' = Submitted /\ Cited(Submitted)' = Cited(Submitted)
        /\ ErrorRuling(Submitted)' = ErrorRuling(Submitted)
        /\ FrictionRuling(Submitted)' = FrictionRuling(Submitted)
      BY <2>1 DEF Submitted, Cited, ErrorRuling, FrictionRuling, ActsLocally, PointsOutside,
         StillLive, Settles, Grounded, ValidVerdict, Whole, Parsed
  <2>. QED BY <1>10, <1>i, <2>1, <2>2 DEF Judges, MissingIsMissing, ProbeAnswers,
         RulingIsOnSubmission, ParkedIsFix
<1>11. CASE RoutesIncomplete \/ RoutesFinding \/ RoutesFix \/ Parks \/ Completes
    BY <1>11, <1>u, <1>i DEF ProbeAnswers, RoutesIncomplete, RoutesFinding, RoutesFix, Parks, Completes,
       Kept
<1>12. CASE FixRefused
  <2>1. UNCHANGED <<lane, invRun>>
      BY <1>12 DEF FixRefused, Kept
  <2>2. Submitted' = Submitted /\ Cited(Submitted)' = Cited(Submitted)
        /\ ErrorRuling(Submitted)' = ErrorRuling(Submitted)
        /\ FrictionRuling(Submitted)' = FrictionRuling(Submitted)
      BY <2>1 DEF invRun, Submitted, Cited, ErrorRuling, FrictionRuling, ActsLocally, PointsOutside,
         StillLive, Settles, Grounded, ValidVerdict, Whole, Parsed
  <2>. QED BY <1>12, <1>i, <2>1, <2>2 DEF FixRefused, Decided, invRun, MissingIsMissing,
         ProbeAnswers, RulingIsOnSubmission, ParkedIsFix
<1>. QED BY <1>1, <1>2, <1>3, <1>4, <1>5, <1>6, <1>7, <1>8, <1>9, <1>10, <1>11, <1>12
     DEF InvNext, InvSteps

\* What a ruling says of the submission it was made on.
LEMMA CodeFixIsGrounded ==
  ASSUME InvestigationInv, stage \in {"route", "park"}, ruling = "code_fix"
  PROVE  /\ Submitted # NoSubmission
         /\ Submitted.cause = "local" /\ Submitted.brief = "given"
         /\ Submitted.evidence # {} /\ Submitted.evidence \subseteq opened
         /\ lane = "error" => Submitted.first \in Repo \/ probe = "failed"
<1>i. /\ InvTypeOK /\ MissingIsMissing /\ ProbeAnswers /\ RulingIsOnSubmission
    BY DEF InvestigationInv, InvestigationHonest
<1>1. Whole(Submitted) /\ Submitted # NoSubmission
    BY <1>i DEF RulingIsOnSubmission, ErrorRuling, FrictionRuling, Whole, NoSubmission
<1>2. Submitted \in Submission
    BY <1>1, <1>i, SubmissionsAreTyped
<1>3. Submitted.cause = "local" /\ ValidVerdict(Submitted, TRUE)
    BY <1>i DEF RulingIsOnSubmission, ErrorRuling, FrictionRuling, ActsLocally
<1>4. Submitted.brief = "given" /\ Submitted.evidence # {} /\ Submitted.evidence \subseteq opened
    BY <1>3, <1>2 DEF ValidVerdict, Grounded, Submission
<1>5. ASSUME lane = "error", probe # "failed" PROVE Submitted.first \in Repo
  <2>1. Submitted.first \notin missing \cup {Nil} /\ probe = "answered"
      BY <1>5, <1>i DEF RulingIsOnSubmission, ErrorRuling, ActsLocally, InvTypeOK
  <2>2. Submitted.first \in Paths /\ Submitted.first \in Cited(Submitted)
      BY <1>2, <1>5, <2>1 DEF Submission, Cited
  <2>3. Submitted.first \notin Ghosts
      BY <1>i, <2>1, <2>2 DEF ProbeAnswers
  <2>. QED BY <2>2, <2>3 DEF Paths
<1>. QED BY <1>1, <1>3, <1>4, <1>5

LEMMA FindingIsGrounded ==
  ASSUME InvestigationInv, stage = "route", ruling = "not_actionable"
  PROVE  /\ Submitted # NoSubmission
         /\ Submitted.cause # "local"
         /\ lane = "error" =>
              /\ Submitted.cause = "outside" /\ Submitted.strength = "enough"
              /\ Submitted.evidence # {} /\ Submitted.evidence \subseteq opened
              /\ Submitted.rival \in opened => Submitted.ruledOut \in opened
<1>i. /\ InvTypeOK /\ MissingIsMissing /\ RulingIsOnSubmission
    BY DEF InvestigationInv, InvestigationHonest
<1>1. Whole(Submitted) /\ Submitted # NoSubmission
    BY <1>i DEF RulingIsOnSubmission, ErrorRuling, FrictionRuling, Whole, NoSubmission
<1>2. Submitted \in Submission
    BY <1>1, <1>i, SubmissionsAreTyped
<1>3. CASE lane = "friction"
    BY <1>1, <1>3, <1>i DEF RulingIsOnSubmission, FrictionRuling
<1>4. CASE lane = "error"
  <2>1. PointsOutside(Submitted) /\ \E b \in BOOLEAN : ValidVerdict(Submitted, b)
      BY <1>4, <1>i DEF RulingIsOnSubmission, ErrorRuling, ActsLocally
  <2>2. Submitted.cause = "outside" /\ Submitted.strength = "enough" /\ ~StillLive(Submitted)
      BY <2>1 DEF PointsOutside, Settles
  <2>3. Submitted.evidence # {} /\ Submitted.evidence \subseteq opened
      BY <2>1, <1>2 DEF ValidVerdict, Grounded, Submission
  <2>4. \A x \in opened : x \notin missing
      BY <1>i, InvestigationAssumption DEF InvTypeOK, MissingIsMissing
  <2>5. Submitted.rival \in opened => Submitted.ruledOut \in opened
      BY <2>2, <2>4 DEF StillLive, Grounded
  <2>. QED BY <1>1, <2>2, <2>3, <2>5
<1>. QED BY <1>i, <1>3, <1>4 DEF InvTypeOK

\* What the issue is told, and the decision recorded of it.
LEMMA IssueKept ==
  ASSUME InvestigationInv, [InvNext]_invVars, InvTypeOK', WorkIsPending,
         status \notin Open => UNCHANGED <<lane, invRun, invIssue>>
  PROVE  FixIsGrounded' /\ InsightIsGrounded' /\ DecisionAgrees'
<1> DEFINE Goal == FixIsGrounded' /\ InsightIsGrounded' /\ DecisionAgrees'
<1>i. InvTypeOK /\ FixIsGrounded /\ InsightIsGrounded /\ DecisionAgrees
    BY DEF InvestigationInv, InvestigationHonest
<1>s. UNCHANGED invRun => Submitted' = Submitted
    BY DEF invRun, Submitted
<1>1. CASE status \notin Open
  <2>1. UNCHANGED <<lane, invRun, invIssue>> /\ Submitted' = Submitted
      BY <1>1, <1>s
  <2>. QED BY <1>i, <2>1 DEF invRun, invIssue, FixIsGrounded, InsightIsGrounded, DecisionAgrees
<1>2. CASE status \in Open /\ status' \in Open
    BY <1>2 DEF Open, FixIsGrounded, InsightIsGrounded, DecisionAgrees
<1>n. ASSUME status' = "needs_human", decisions'.last \in {"unable", "needs_human"} PROVE Goal
    BY <1>n DEF FixIsGrounded, InsightIsGrounded, DecisionAgrees
<1>3. CASE status \in Open /\ status' \notin Open
  <2>1. CASE Starts
      BY <1>3, <2>1, <1>n DEF Starts, Writes, Decided, Open, Pending
  <2>2. ASSUME Blames, lane' = lane PROVE Goal
      BY <1>i, <2>2 DEF Blames, Decided, FixIsGrounded, InsightIsGrounded, DecisionAgrees, InvTypeOK
  <2>3. CASE CloneFails \/ RemovalFails \/ NoteFails
      BY <1>3, <2>3, <2>2 DEF CloneFails, RemovalFails, NoteFails, Kept, invIssue
  <2>4. CASE RoutesFinding
    <3>1. UNCHANGED <<lane, invRun>> /\ Submitted' = Submitted /\ stage = "route"
        BY <2>4, <1>s DEF RoutesFinding, Kept
    <3>2. CASE lane = "friction"
      <4>1. status' = "awaiting_approval" /\ decisions'.last = "not_actionable"
          BY <2>4, <3>2 DEF RoutesFinding, Writes, Decided
      <4>2. ruling = "not_actionable"
          BY <2>4, <3>2 DEF RoutesFinding, InvestigationInv, RulingIsOnSubmission, FrictionRuling
      <4>3. Submitted # NoSubmission /\ Submitted.cause # "local"
          BY <3>1, <4>2, FindingIsGrounded
      <4>. QED BY <3>1, <4>1, <4>3 DEF FixIsGrounded, InsightIsGrounded, DecisionAgrees
    <3>3. CASE lane = "error" /\ ruling = "not_actionable"
      <4>1. status' = "insight" /\ decisions'.last = "needs_human"
          BY <2>4, <3>3 DEF RoutesFinding, Writes, Decided
      <4>. QED BY <3>1, <3>3, <4>1, FindingIsGrounded
           DEF FixIsGrounded, InsightIsGrounded, DecisionAgrees, invRun
    <3>4. CASE lane = "error" /\ ruling # "not_actionable"
        BY <2>4, <3>4, <1>n DEF RoutesFinding, Writes, Decided
    <3>. QED BY <1>i, <3>2, <3>3, <3>4 DEF InvTypeOK
  <2>5. CASE RoutesFix
    <3>1. /\ UNCHANGED <<lane, invRun>> /\ Submitted' = Submitted
          /\ status' = "fixing" /\ decisions'.last = "code_fix"
        BY <2>5, <1>s DEF RoutesFix, Kept, Writes, Decided
    <3>2. stage = "route" /\ ruling = "code_fix"
        BY <2>5 DEF RoutesFix
    <3>. QED BY <3>1, <3>2, CodeFixIsGrounded
         DEF FixIsGrounded, InsightIsGrounded, DecisionAgrees, invRun
  <2>6. CASE Parks
    <3>1. UNCHANGED <<lane, invRun>> /\ Submitted' = Submitted
        BY <2>6, <1>s DEF Parks, Kept
    <3>2. stage \in {"route", "park"} /\ ruling = "code_fix"
        BY <2>6 DEF Parks, InvestigationInv, ParkedIsFix
    <3>3. Submitted # NoSubmission /\ Submitted.cause = "local"
        BY <3>2, CodeFixIsGrounded
    <3>4. CASE lane = "friction"
        BY <2>6, <3>1, <3>3, <3>4 DEF Parks, Writes, Decided, FixIsGrounded, InsightIsGrounded,
           DecisionAgrees
    <3>5. CASE lane = "error"
      <4>1. decisions' = [last |-> "needs_human", before |-> "code_fix"] /\ status' = "investigated"
          BY <2>6, <3>5 DEF Parks, Writes, Decided, InvestigationInv, ParkedIsFix
      <4>. QED BY <4>1 DEF FixIsGrounded, InsightIsGrounded, DecisionAgrees
    <3>. QED BY <1>i, <3>4, <3>5 DEF InvTypeOK
  <2>7. CASE UNCHANGED status
      BY <1>3, <2>7
  <2>. QED BY <1>3, <2>1, <2>3, <2>4, <2>5, <2>6, <2>7
       DEF InvNext, InvSteps, invVars, invIssue, Adopts, OverQuota, Unconfigured, Rents, RentFails,
           CloneSucceeds, Notes, ReadsFile, Submits, ToolFails, StreamEnds, RunFailed, Probes, Judges,
           RoutesIncomplete, FixRefused, Completes, MachineVanishes, WorkerDies
<1>. QED BY <1>1, <1>2, <1>3

LEMMA InvestigationInvHolds == InvSpec => []InvestigationInv
<1>1. InvInit => InvestigationInv
    BY InvTypeInit DEF InvInit, InvestigationInv, InvestigationHonest, MachineInOrder, FixIsGrounded,
       InsightIsGrounded, DecisionAgrees, WorkIsPending, MissingIsMissing, ProbeAnswers,
       RulingIsOnSubmission, ParkedIsFix
<1>2. ASSUME InvestigationInv, [InvNext]_invVars PROVE InvestigationInv'
  <2>1. InvTypeOK' /\ MachineInOrder'
      BY <1>2, InvTypeKept, MachineKept DEF InvestigationInv, InvestigationHonest
  <2>2. WorkIsPending' /\ (status \notin Open => UNCHANGED <<lane, invRun, invIssue>>)
      BY <1>2, StageSteps DEF InvestigationInv, InvestigationHonest
  <2>3. MissingIsMissing' /\ ProbeAnswers' /\ RulingIsOnSubmission' /\ ParkedIsFix'
      BY <1>2, KnowledgeKept
  <2>4. FixIsGrounded' /\ InsightIsGrounded' /\ DecisionAgrees'
      BY <1>2, <2>1, <2>2, IssueKept DEF InvestigationInv
  <2>. QED BY <2>1, <2>2, <2>3, <2>4 DEF InvestigationInv, InvestigationHonest
<1>. QED BY <1>1, <1>2, PTL DEF InvSpec

\* For any repository, verdicts and budgets, whatever machine, stream, database and worker do: a
\* fix is started and an insight told only on what was read, and the decision recorded agrees.
THEOREM InvestigationHonestHolds == InvSpec => []InvestigationHonest
<1>1. InvestigationInv => InvestigationHonest
    BY DEF InvestigationInv
<1>. QED BY <1>1, InvestigationInvHolds, PTL

\* No later execution of the job writes over an outcome that was committed.
THEOREM VerdictStandsHolds == InvSpec => VerdictStands
<1>1. InvestigationInv /\ [InvNext]_invVars => (status \notin Open => UNCHANGED invIssue)
    BY StageSteps DEF InvestigationInv, InvestigationHonest
<1>. QED BY <1>1, InvestigationInvHolds, PTL DEF InvSpec, VerdictStands

-----------------------------------------------------------------------------
(* The fix run. *)

Contents == SUBSET (Edits \cup {Junk})

PlanType == [by : {"human", "policy"},
             tests : {"unknown", "none", "script", "suite", "uninstalled"},
             baseline : {"none", "ran", "infra"}]
BoxType == [machine : {"none", "alive", "gone"}, latched : BOOLEAN,
            tree : Contents, index : Contents, report : Trees]
TryType == [tier : 1 .. Tiers, attempt : 0 .. MaxRetries + 1, runs : 0 .. Runs + 1,
            how : {"none", "success", "gave_up", "failed"}, tainted : BOOLEAN, ok : BOOLEAN,
            candidate : Contents, declared : {"none", "test", "impossible"}, by : Edits]
SuiteType == [seen : {"not_run", "clean", "dirty", "infra"}, of : Trees]
BuildType == [seen : {"not_run", "passed", "failed", "skipped", "infra"}, of : Trees]
SeenType == [seen : {"not_run", "yes", "no"}, of : Trees]
ChecksType == [infra : BOOLEAN, suite : SuiteType, build : BuildType,
               red : SeenType, green : SeenType, quality : BOOLEAN]
ResultType == [status : {"none", "fix_ready", "needs_human", "infra"},
               reason : {"none", "refused", "setup", "gave_up", "budget", "tests", "empty", "judge",
                         "low", "runtime"}, draft : BOOLEAN]

\* The trees of the run are contents, whatever a report may be of.
RunTypes ==
  /\ step \in Steps /\ plan \in PlanType /\ box \in BoxType
  /\ try \in TryType /\ checks \in ChecksType /\ result \in ResultType

Early == {"authorise", "setup", "baseline", "clean", "preload", "pre_loop"}
Late == {"quality", "red", "green", "restore", "precision"}
Passed == step = "tier_over" /\ try.ok

Own(tree) == \A e \in tree : e[1] = try.tier

\* What is staged, and the candidate, are one tier's edits, without what a gate wrote; so is the
\* working tree whenever an agent is at it, and a gate's tree is the candidate.
TreeIsCandidates ==
  /\ Own(box.index) /\ Own(try.candidate)
  /\ step \in Early => box.index = {} /\ try.candidate = {}
  /\ step \in Early \ {"clean"} => box.tree = {}
  /\ step \in {"agent", "after_agent"} => Own(box.tree)
  /\ step = "suite" => box.tree = try.candidate
  /\ step \in Late \cup {"build"} \/ Passed => box.tree \ {Junk} = try.candidate

\* What the gates have said is of the candidate, if they were asked about it yet.
ChecksAreCandidates ==
  /\ step \in Early \/ NoSuite => checks.suite.seen = "not_run"
  /\ (step \in Late \cup {"build"} \/ Passed) /\ checks.suite.seen = "clean" =>
       checks.suite.of = try.candidate
  /\ (step \in Late \/ Passed) /\ checks.build.seen = "passed" =>
       checks.build.of \ {Junk} = try.candidate
  /\ step \in Late => ~checks.infra /\ try.candidate # {}
  /\ step \notin {"green", "restore", "precision", "done"} => checks.red.seen = "not_run"
  /\ step \notin {"restore", "precision", "done"} => checks.green.seen = "not_run"
  /\ checks.red.seen = "yes" => checks.red.of = {TestFile}
  /\ step \in Late /\ checks.green.seen = "yes" => checks.green.of \ {Junk} = try.candidate

\* The declaration is the last agent's, and a verdict got on a lost machine leads nowhere but to an
\* infrastructure error.
AgentIsLatest ==
  /\ step \in Late \cup {"after_agent", "suite", "build", "retry"} \/ Passed => try.by = ThisEdit
  /\ try.tainted =>
       (step = "after_agent" /\ box.latched) \/ (step = "done" /\ result.status = "infra")
  /\ step # "done" => result.status = "none" /\ ~result.draft

\* A tier pays for its attempts, and the tiers before it for theirs.
Paid ==
  LET before == (try.tier - 1) * (MaxRetries + 1) IN
  /\ try.runs <= before + (MaxRetries + 1)
  /\ step = "agent" => try.runs <= before + try.attempt
  /\ step \in {"after_agent", "suite", "build", "retry"} => try.runs <= before + try.attempt + 1
  /\ step \in Early \cup {"agent", "after_agent", "suite", "build", "retry"} =>
       try.attempt <= MaxRetries
  /\ step \in Early => try.tier = 1 /\ try.attempt = 0 /\ try.runs = 0
  /\ step = "next_tier" => ~LastTier

FixRunInv ==
  /\ RunTypes /\ TreeIsCandidates /\ ChecksAreCandidates /\ AgentIsLatest /\ Paid
  /\ ReadyIsProven

-----------------------------------------------------------------------------
LEMMA Distinct ==
  /\ Tiers \in Nat /\ Tiers >= 1 /\ MaxRetries \in Nat /\ Runs \in Nat
  /\ Junk \notin Edits /\ TestFile \notin Edits
  /\ Junk # TestFile
  /\ NoTree \in Trees /\ {TestFile} \in Trees /\ Contents \subseteq Trees
  /\ \A e \in Edits : e[1] \in 1 .. Tiers
  /\ Junk[1] = 0
<1>1. Tiers \in Nat /\ Tiers >= 1 /\ MaxRetries \in Nat
    BY FixRunAssumption
<1>2. Runs \in Nat
    BY <1>1 DEF Runs
<1>. QED BY <1>1, <1>2 DEF Junk, TestFile, NoTree, Trees, Contents, Edits

LEMMA TypesAreEnough == RunTypes => FixRunTypeOK
<1>1. Contents \subseteq Trees
    BY Distinct
<1>. QED BY <1>1 DEF RunTypes, FixRunTypeOK, PlanType, BoxType, TryType, SuiteType, BuildType,
     SeenType, ChecksType, ResultType

LEMMA BudgetSuffices ==
  ASSUME RunTypes, Paid PROVE AgentBudget
<1>1. /\ Tiers \in Nat /\ MaxRetries \in Nat /\ try.tier \in 1 .. Tiers
      /\ try.runs \in Int
    BY FixRunAssumption, Distinct DEF RunTypes, TryType
<1>2. try.runs <= (try.tier - 1) * (MaxRetries + 1) + (MaxRetries + 1)
    BY DEF Paid
<1>3. \A t \in 1 .. Tiers, k \in Nat : (t - 1) * k + k <= Tiers * k
  <2>1. \A t, k \in Nat : t * k \in Nat
      OBVIOUS
  <2> TAKE t \in 1 .. Tiers, k \in Nat
  <2>2. (t - 1) * k + k = t * k
      BY <1>1
  <2>3. PICK d \in Nat : Tiers = t + d
      BY <1>1
  <2>4. Tiers * k = t * k + d * k
      BY <2>3
  <2>5. d * k \in Nat /\ t * k \in Nat
      BY <2>1, <1>1
  <2>. QED BY <2>2, <2>4, <2>5
<1>. QED BY <1>1, <1>2, <1>3 DEF AgentBudget, Runs

LEMMA SuiteResultsSound ==
  ASSUME NEW tree \in Contents \cup {{TestFile}}, box \in BoxType, NEW r \in SuiteResults(tree)
  PROVE  /\ r.seen \in {"clean", "dirty", "infra"}
         /\ r.of \in Trees /\ r.left \in Trees
         /\ r.seen # "infra" => r.of = tree
<1>1. NoTree \in Trees /\ tree \in Trees /\ box.report \in Trees
    BY Distinct DEF BoxType
<1>. QED BY <1>1 DEF SuiteResults, Compared

LEMMA FixRunInvInit == FixRunInit => FixRunInv
<1> SUFFICES ASSUME FixRunInit PROVE FixRunInv
    OBVIOUS
<1>1. RunTypes
    BY Distinct DEF FixRunInit, RunTypes, Steps, PlanType, BoxType, TryType, SuiteType, BuildType,
       SeenType, ChecksType, ResultType, Contents, NoChecks, Nothing, Edits
<1>2. TreeIsCandidates
    BY DEF FixRunInit, TreeIsCandidates, Own, Late, Passed
<1>3. ChecksAreCandidates
    BY DEF FixRunInit, ChecksAreCandidates, Late, Passed, NoChecks, Nothing
<1>4. AgentIsLatest
    BY DEF FixRunInit, AgentIsLatest, Late, Passed
<1>5. Paid
    BY Distinct DEF FixRunInit, Paid, Early
<1>6. ReadyIsProven
    BY DEF FixRunInit, ReadyIsProven, Claims
<1>. QED BY <1>1, <1>2, <1>3, <1>4, <1>5, <1>6 DEF FixRunInv

-----------------------------------------------------------------------------
(* The ends of a run. *)

Reasons == {"none", "refused", "setup", "gave_up", "budget", "tests", "empty", "judge", "low",
            "runtime"}

LEMMA FinishKeeps ==
  ASSUME FixRunInv, step # "done", NEW what \in {"fix_ready", "needs_human", "infra"},
         NEW why \in Reasons, NEW draft \in BOOLEAN, NEW b \in BoxType, b.index = box.index,
         Finish(what, why, draft, b), try.tainted => what = "infra", ReadyIsProven'
  PROVE  FixRunInv'
<1>i. RunTypes /\ TreeIsCandidates /\ ChecksAreCandidates /\ AgentIsLatest /\ Paid
    BY DEF FixRunInv
<1>1. PICK m \in IF b.machine = "alive" THEN {"gone", "alive"} ELSE {b.machine} :
        box' = [b EXCEPT !.machine = m]
    BY DEF Finish
<1>2. /\ step' = "done" /\ UNCHANGED <<plan, try, checks>>
      /\ result' = [status |-> what, reason |-> why, draft |-> draft]
    BY DEF Finish
<1>3. box' \in BoxType /\ box'.index = box.index
    BY <1>1 DEF BoxType
<1>4. result' \in ResultType
    BY <1>2 DEF ResultType, Reasons
<1>5. RunTypes'
    BY <1>i, <1>2, <1>3, <1>4 DEF RunTypes, Steps
<1>6. TreeIsCandidates'
    BY <1>i, <1>2, <1>3 DEF TreeIsCandidates, Own, Early, Late, Passed
<1>7. ChecksAreCandidates'
    BY <1>i, <1>2 DEF ChecksAreCandidates, Early, Late, Passed, NoSuite
<1>8. AgentIsLatest'
    BY <1>i, <1>2 DEF AgentIsLatest, Late, Passed
<1>9. Paid'
    BY <1>i, <1>2 DEF Paid, Early
<1>. QED BY <1>5, <1>6, <1>7, <1>8, <1>9 DEF FixRunInv

LEMMA FailureKeeps ==
  ASSUME FixRunInv, step # "done", NEW why \in Reasons, NEW b \in BoxType, b.index = box.index,
         \/ Finish("infra", "none", FALSE, b)
         \/ Finish("needs_human", why, FALSE, b) /\ ~try.tainted
  PROVE  FixRunInv'
<1>1. \/ result' = [status |-> "infra", reason |-> "none", draft |-> FALSE]
      \/ result' = [status |-> "needs_human", reason |-> why, draft |-> FALSE]
    BY Zenon DEF Finish
<1>2. ReadyIsProven'
    BY <1>1 DEF ReadyIsProven, Claims
<1>. QED BY <1>2, FinishKeeps DEF Reasons

LEMMA ThrowKeeps ==
  ASSUME FixRunInv, step # "done", Throws \/ Raise PROVE FixRunInv'
<1>1. box \in BoxType /\ [box EXCEPT !.latched = TRUE] \in BoxType
      /\ [box EXCEPT !.latched = TRUE].index = box.index
    BY DEF FixRunInv, RunTypes, BoxType
<1>2. "none" \in Reasons
    BY DEF Reasons
<1>. QED BY <1>1, <1>2, FailureKeeps DEF Throws, Raise

LEMMA HandsOver ==
  ASSUME FixRunInv, step # "done", NEW why \in Reasons, NeedsHuman(why),
         step = "after_agent" => ~box.latched
  PROVE  FixRunInv'
<1>1. box \in BoxType /\ ~try.tainted
    BY DEF FixRunInv, RunTypes, AgentIsLatest
<1>. QED BY <1>1, FailureKeeps DEF NeedsHuman

\* A run that goes on claims nothing yet.
LEMMA NoClaimYet ==
  ASSUME FixRunInv, step # "done", UNCHANGED result PROVE ReadyIsProven'
BY DEF FixRunInv, AgentIsLatest, ReadyIsProven, Claims

-----------------------------------------------------------------------------
(* The steps. *)

LEMMA SetupSteps ==
  ASSUME FixRunInv, Refused \/ Authorised \/ SetUp \/ SetUpFails PROVE FixRunInv'
<1>i. RunTypes /\ TreeIsCandidates /\ ChecksAreCandidates /\ AgentIsLatest /\ Paid
    BY DEF FixRunInv
<1>1. CASE Refused
    BY <1>1, HandsOver DEF Refused, Reasons
<1>2. CASE Authorised
  <2>1. step = "authorise" /\ step' = "setup" /\ UNCHANGED <<plan, box, try, checks, result>>
      BY <1>2 DEF Authorised
  <2>. QED BY <1>i, <2>1, NoClaimYet DEF FixRunInv, RunTypes, Steps, TreeIsCandidates, Own, Early,
         Late, Passed, ChecksAreCandidates, NoSuite, AgentIsLatest, Paid, LastTier, ThisEdit
<1>3. CASE SetUp
  <2>1. /\ step = "setup" /\ step' \in {"baseline", "preload"} /\ UNCHANGED <<try, result>>
        /\ \E t \in Plans : /\ plan' = [plan EXCEPT !.tests = t]
                            /\ checks' = [checks EXCEPT !.infra = (t = "uninstalled")]
        /\ box' = [box EXCEPT !.machine = "alive"]
      BY <1>3 DEF SetUp
  <2>2. plan' \in PlanType
      BY <1>i, <2>1 DEF RunTypes, PlanType, Plans, TestPlans
  <2>3. /\ checks' \in ChecksType /\ checks'.suite = checks.suite /\ checks'.build = checks.build
        /\ checks'.red = checks.red /\ checks'.green = checks.green
      BY <1>i, <2>1 DEF RunTypes, ChecksType
  <2>4. /\ box' \in BoxType /\ box'.index = box.index /\ box'.tree = box.tree
      BY <1>i, <2>1 DEF RunTypes, BoxType
  <2>5. RunTypes'
      BY <1>i, <2>1, <2>2, <2>3, <2>4 DEF RunTypes, Steps
  <2>6. TreeIsCandidates'
      BY <1>i, <2>1, <2>4 DEF TreeIsCandidates, Own, Early, Late, Passed
  <2>7. ChecksAreCandidates'
      BY <1>i, <2>1, <2>3 DEF ChecksAreCandidates, Early, Late, Passed
  <2>8. AgentIsLatest' /\ Paid'
      BY <1>i, <2>1 DEF AgentIsLatest, Paid, Early, Late, Passed, LastTier, ThisEdit
  <2>. QED BY <2>1, <2>5, <2>6, <2>7, <2>8, NoClaimYet DEF FixRunInv
<1>4. CASE SetUpFails
  <2>1. PICK m \in {"none", "alive"}, customers \in BOOLEAN :
          SetUpEnds(customers, [box EXCEPT !.machine = m])
      BY <1>4 DEF SetUpFails
  <2>2. /\ [box EXCEPT !.machine = m] \in BoxType /\ [box EXCEPT !.machine = m].index = box.index
        /\ step = "setup" /\ ~try.tainted /\ "setup" \in Reasons
      BY <1>4, <1>i DEF SetUpFails, RunTypes, BoxType, AgentIsLatest, Reasons
  <2>. QED BY <2>1, <2>2, FailureKeeps DEF SetUpEnds
<1>. QED BY <1>1, <1>2, <1>3, <1>4

LEMMA BaselineSteps ==
  ASSUME FixRunInv, Baseline \/ CleanBaseline \/ Preload \/ EntersCascade PROVE FixRunInv'
<1>i. RunTypes /\ TreeIsCandidates /\ ChecksAreCandidates /\ AgentIsLatest /\ Paid
    BY DEF FixRunInv
<1>t. CASE step # "done" /\ (Throws \/ Raise)
    BY <1>t, ThrowKeeps
<1>1. CASE Baseline /\ ~Throws
  <2>1. PICK r \in SuiteResults(box.tree), t \in Written(box.tree) :
             /\ box' = [box EXCEPT !.report = r.left, !.tree = t]
             /\ plan' = [plan EXCEPT !.baseline = IF r.seen = "infra" THEN "infra" ELSE "ran"]
             /\ checks' = [checks EXCEPT !.infra = @ \/ r.seen = "infra"]
      BY <1>1 DEF Baseline, GateThrows
  <2>2. step = "baseline" /\ step' = "clean" /\ UNCHANGED <<try, result>>
      BY <1>1 DEF Baseline, GateThrows
  <2>3. box \in BoxType /\ box.tree \in Contents /\ r.left \in Trees
      BY <1>i, SuiteResultsSound DEF RunTypes, BoxType
  <2>4. t \in Contents
      BY <2>3 DEF Written, Contents
  <2>5. box' \in BoxType /\ box'.index = box.index
      BY <2>1, <2>3, <2>4 DEF BoxType
  <2>6. plan' \in PlanType
      BY <1>i, <2>1 DEF RunTypes, PlanType
  <2>7. /\ checks' \in ChecksType /\ checks'.suite = checks.suite /\ checks'.build = checks.build
        /\ checks'.red = checks.red /\ checks'.green = checks.green
      BY <1>i, <2>1 DEF RunTypes, ChecksType
  <2>8. RunTypes'
      BY <1>i, <2>2, <2>5, <2>6, <2>7 DEF RunTypes, Steps
  <2>9. TreeIsCandidates'
      BY <1>i, <2>2, <2>5 DEF TreeIsCandidates, Own, Early, Late, Passed
  <2>10. ChecksAreCandidates'
      BY <1>i, <2>2, <2>7 DEF ChecksAreCandidates, Early, Late, Passed
  <2>11. AgentIsLatest' /\ Paid'
      BY <1>i, <2>2 DEF AgentIsLatest, Paid, Early, Late, Passed, LastTier, ThisEdit
  <2>. QED BY <2>2, <2>8, <2>9, <2>10, <2>11, NoClaimYet DEF FixRunInv
<1>2. CASE CleanBaseline /\ ~Throws
  <2>1. /\ step = "clean" /\ step' = "preload" /\ UNCHANGED <<plan, try, checks, result>>
        /\ box' = [box EXCEPT !.tree = box.index]
      BY <1>2 DEF CleanBaseline
  <2>2. box' \in BoxType /\ box'.index = box.index /\ box'.tree = box.index
      BY <1>i, <2>1 DEF RunTypes, BoxType
  <2>3. RunTypes'
      BY <1>i, <2>1, <2>2 DEF RunTypes, Steps
  <2>4. TreeIsCandidates'
      BY <1>i, <2>1, <2>2 DEF TreeIsCandidates, Own, Early, Late, Passed
  <2>5. ChecksAreCandidates' /\ AgentIsLatest' /\ Paid'
      BY <1>i, <2>1 DEF ChecksAreCandidates, AgentIsLatest, Paid, Early, Late, Passed, LastTier,
         ThisEdit, NoSuite
  <2>. QED BY <2>1, <2>3, <2>4, <2>5, NoClaimYet DEF FixRunInv
<1>3. CASE Preload /\ ~Throws
  <2>1. /\ step = "preload" /\ step' = "pre_loop" /\ UNCHANGED <<plan, try, checks, result>>
        /\ \E l \in BOOLEAN : box' = [box EXCEPT !.latched = l]
      BY <1>3 DEF Preload, Gone
  <2>2. box' \in BoxType /\ box'.index = box.index /\ box'.tree = box.tree
      BY <1>i, <2>1 DEF RunTypes, BoxType
  <2>3. RunTypes'
      BY <1>i, <2>1, <2>2 DEF RunTypes, Steps
  <2>4. TreeIsCandidates'
      BY <1>i, <2>1, <2>2 DEF TreeIsCandidates, Own, Early, Late, Passed
  <2>5. ChecksAreCandidates' /\ AgentIsLatest' /\ Paid'
      BY <1>i, <2>1 DEF ChecksAreCandidates, AgentIsLatest, Paid, Early, Late, Passed, LastTier,
         ThisEdit, NoSuite
  <2>. QED BY <2>1, <2>3, <2>4, <2>5, NoClaimYet DEF FixRunInv
<1>4. CASE EntersCascade /\ ~Raise
  <2>1. step = "pre_loop" /\ step' = "agent" /\ UNCHANGED <<plan, box, try, checks, result>>
      BY <1>4 DEF EntersCascade
  <2>2. RunTypes' /\ TreeIsCandidates'
      BY <1>i, <2>1 DEF RunTypes, Steps, TreeIsCandidates, Own, Early, Late, Passed
  <2>3. ChecksAreCandidates' /\ AgentIsLatest'
      BY <1>i, <2>1 DEF ChecksAreCandidates, AgentIsLatest, Early, Late, Passed, ThisEdit, NoSuite
  <2>4. Paid'
      BY <1>i, <2>1, Distinct DEF Paid, Early, LastTier
  <2>. QED BY <2>1, <2>2, <2>3, <2>4, NoClaimYet DEF FixRunInv
<1>. QED BY <1>t, <1>1, <1>2, <1>3, <1>4
     DEF Baseline, GateThrows, CleanBaseline, Preload, EntersCascade

LEMMA AgentSteps ==
  ASSUME FixRunInv, AgentRuns \/ AfterAgent PROVE FixRunInv'
<1>i. RunTypes /\ TreeIsCandidates /\ ChecksAreCandidates /\ AgentIsLatest /\ Paid
    BY DEF FixRunInv
<1>1. CASE AgentRuns
  <2>1. step = "agent" /\ step' = "after_agent" /\ UNCHANGED <<plan, checks, result>>
      BY <1>1 DEF AgentRuns
  <2>2. ThisEdit \in Edits /\ ThisEdit[1] = try.tier
      BY <1>i, <2>1, Distinct DEF ThisEdit, Edits, Paid, RunTypes, TryType
  <2>3. PICK how \in LoopEnds, d \in Declarations :
          \/ /\ \E t \in Edited(box.tree) : box' = [box EXCEPT !.tree = t]
             /\ try' = [try EXCEPT !.runs = IF @ > Runs THEN @ ELSE @ + 1, !.how = how,
                                   !.declared = d, !.by = ThisEdit]
          \/ \E used \in BOOLEAN :
               /\ box' = [box EXCEPT !.latched = used]
               /\ try' = [try EXCEPT !.runs = IF @ > Runs THEN @ ELSE @ + 1, !.how = how,
                                     !.declared = d, !.by = ThisEdit, !.tainted = used]
      BY <1>1 DEF AgentRuns
  <2>4. /\ box' \in BoxType /\ box'.index = box.index
        /\ box'.tree \in {box.tree, box.tree \cup {ThisEdit}}
    <3>1. \A t \in Edited(box.tree) : t \in Contents
        BY <1>i, <2>2 DEF Edited, RunTypes, BoxType, Contents
    <3>2. \/ \E t \in Edited(box.tree) : box' = [box EXCEPT !.tree = t]
          \/ \E used \in BOOLEAN : box' = [box EXCEPT !.latched = used]
        BY <2>3
    <3>3. box \in BoxType
        BY <1>i DEF RunTypes
    <3>4. ASSUME NEW t \in Edited(box.tree), box' = [box EXCEPT !.tree = t]
          PROVE  box' \in BoxType /\ box'.index = box.index /\ box'.tree = t
        BY <3>1, <3>3, <3>4 DEF BoxType
    <3>5. ASSUME NEW used \in BOOLEAN, box' = [box EXCEPT !.latched = used]
          PROVE  box' \in BoxType /\ box'.index = box.index /\ box'.tree = box.tree
        BY <3>3, <3>5 DEF BoxType
    <3>. QED BY <3>2, <3>4, <3>5 DEF Edited
  <2>5. /\ try' \in TryType /\ try'.tier = try.tier /\ try'.attempt = try.attempt
        /\ try'.candidate = try.candidate /\ try'.by = ThisEdit /\ try'.ok = try.ok
        /\ try'.runs \in {try.runs, try.runs + 1}
    <3>1. (IF try.runs > Runs THEN try.runs ELSE try.runs + 1) \in 0 .. Runs + 1
        BY <1>i, Distinct DEF RunTypes, TryType
    <3>. QED BY <1>i, <2>2, <2>3, <3>1 DEF RunTypes, TryType, LoopEnds, Declarations
  <2>6. try'.tainted => box'.latched
    <3>1. ~try.tainted
        BY <1>i, <2>1 DEF AgentIsLatest
    <3>. QED BY <1>i, <2>3, <3>1 DEF RunTypes, TryType, BoxType
  <2>7. RunTypes'
      BY <1>i, <2>1, <2>4, <2>5 DEF RunTypes, Steps
  <2>8. TreeIsCandidates'
      BY <1>i, <2>1, <2>2, <2>4, <2>5 DEF TreeIsCandidates, Own, Early, Late, Passed
  <2>9. ChecksAreCandidates'
      BY <1>i, <2>1 DEF ChecksAreCandidates, Early, Late, Passed, NoSuite
  <2>10. AgentIsLatest'
      BY <1>i, <2>1, <2>5, <2>6 DEF AgentIsLatest, Late, Passed, ThisEdit
  <2>11. Paid'
    <3> DEFINE before == (try.tier - 1) * (MaxRetries + 1)
    <3>1. before' = before
        BY <2>5
    <3>2. before \in Int /\ try.runs \in Int /\ try.attempt \in Int /\ MaxRetries \in Int
        BY <1>i, Distinct DEF RunTypes, TryType
    <3>3. try.runs <= before + try.attempt /\ try.attempt <= MaxRetries
        BY <1>i, <2>1 DEF Paid
    <3> HIDE DEF before
    <3>4. /\ try'.runs <= before + try'.attempt + 1 /\ try'.attempt <= MaxRetries
          /\ try'.runs <= before + (MaxRetries + 1)
        BY <2>5, <3>2, <3>3
    <3>. QED BY <2>1, <3>1, <3>4 DEF Paid, Early, before
  <2>. QED BY <2>1, <2>7, <2>8, <2>9, <2>10, <2>11, NoClaimYet DEF FixRunInv
<1>2. CASE AfterAgent
  <2>1. step = "after_agent" /\ ~(Throws \/ Raise) => ~box.latched /\ Branch
      BY <1>2 DEF AfterAgent
  <2>2. step = "after_agent"
      BY <1>2 DEF AfterAgent
  <2>3. CASE Throws \/ Raise
      BY <2>2, <2>3, ThrowKeeps
  <2>4. CASE ~box.latched /\ NeedsHuman("gave_up")
      BY <2>2, <2>4, HandsOver DEF Reasons
  <2>5. CASE ~box.latched /\ try.how = "failed" /\ Branch /\ ~Throws
    <3>1. /\ step' = "tier_over" /\ try' = [try EXCEPT !.ok = FALSE]
          /\ UNCHANGED <<plan, box, checks, result>>
        BY <2>5 DEF Branch
    <3>2. /\ try' \in TryType /\ try'.tier = try.tier /\ try'.attempt = try.attempt /\ ~try'.ok
          /\ try'.candidate = try.candidate /\ try'.tainted = try.tainted /\ try'.runs = try.runs
        BY <1>i, <3>1 DEF RunTypes, TryType
    <3>3. RunTypes'
        BY <1>i, <3>1, <3>2 DEF RunTypes, Steps
    <3>4. TreeIsCandidates'
        BY <1>i, <3>1, <3>2 DEF TreeIsCandidates, Own, Early, Late, Passed
    <3>5. ChecksAreCandidates' /\ AgentIsLatest'
        BY <1>i, <2>2, <2>5, <3>1, <3>2 DEF ChecksAreCandidates, AgentIsLatest, Early, Late, Passed,
           NoSuite
    <3>6. Paid'
        BY <1>i, <3>1, <3>2 DEF Paid, Early
    <3>. QED BY <2>2, <3>1, <3>3, <3>4, <3>5, <3>6, NoClaimYet DEF FixRunInv
  <2>6. CASE ~box.latched /\ try.how = "success" /\ Branch /\ ~Throws
    <3>1. /\ step' = "suite" /\ box' = Staged(box) /\ try' = [try EXCEPT !.candidate = box.tree]
          /\ UNCHANGED <<plan, checks, result>>
        BY <2>6 DEF Branch
    <3>2. /\ box' \in BoxType /\ box'.tree = box.tree /\ box'.index = box.tree
          /\ box.tree \in Contents
        BY <1>i, <3>1 DEF RunTypes, BoxType, Staged
    <3>3. /\ try' \in TryType /\ try'.tier = try.tier /\ try'.attempt = try.attempt
          /\ try'.candidate = box.tree /\ try'.tainted = try.tainted /\ try'.runs = try.runs
          /\ try'.by = try.by
        BY <1>i, <3>1, <3>2 DEF RunTypes, TryType
    <3>4. RunTypes'
        BY <1>i, <3>1, <3>2, <3>3 DEF RunTypes, Steps
    <3>5. TreeIsCandidates'
        BY <1>i, <2>2, <3>1, <3>2, <3>3 DEF TreeIsCandidates, Own, Early, Late, Passed
    <3>6. ChecksAreCandidates' /\ AgentIsLatest'
        BY <1>i, <2>2, <2>6, <3>1, <3>3 DEF ChecksAreCandidates, AgentIsLatest, Early, Late, Passed,
           NoSuite, ThisEdit
    <3>7. Paid'
        BY <1>i, <2>2, <3>1, <3>3 DEF Paid, Early
    <3>. QED BY <2>2, <3>1, <3>4, <3>5, <3>6, <3>7, NoClaimYet DEF FixRunInv
  <2>. QED BY <2>1, <2>2, <2>3, <2>4, <2>5, <2>6 DEF Branch
<1>. QED BY <1>1, <1>2

\* What a gate leaves of a tree is the tree, but for what it wrote.
LEMMA WrittenIsJunk ==
  ASSUME NEW tree \in Contents, NEW t \in Written(tree)
  PROVE  t \in Contents /\ t \ {Junk} = tree \ {Junk}
BY DEF Written, Contents

LEMMA OwnIsNoJunk ==
  ASSUME RunTypes, NEW tree, Own(tree) PROVE tree \ {Junk} = tree
<1>1. Junk[1] # try.tier
    BY Distinct DEF RunTypes, TryType
<1>. QED BY <1>1 DEF Own

LEMMA SuiteSteps ==
  ASSUME FixRunInv, SuiteGate PROVE FixRunInv'
<1>i. RunTypes /\ TreeIsCandidates /\ ChecksAreCandidates /\ AgentIsLatest /\ Paid
    BY DEF FixRunInv
<1>1. step = "suite" /\ box.tree = try.candidate /\ Own(try.candidate)
    BY <1>i DEF SuiteGate, TreeIsCandidates
<1>2. box.tree \ {Junk} = try.candidate
    BY <1>i, <1>1, OwnIsNoJunk
<1>3. CASE NoSuite /\ step' = "build" /\ UNCHANGED <<plan, box, try, checks, result>>
  <2>1. RunTypes' /\ TreeIsCandidates'
      BY <1>i, <1>1, <1>2, <1>3 DEF RunTypes, Steps, TreeIsCandidates, Own, Early, Late, Passed
  <2>2. ChecksAreCandidates'
      BY <1>i, <1>1, <1>3 DEF ChecksAreCandidates, Early, Late, Passed, NoSuite
  <2>3. AgentIsLatest' /\ Paid'
      BY <1>i, <1>1, <1>3 DEF AgentIsLatest, Paid, Early, Late, Passed, ThisEdit
  <2>. QED BY <1>1, <1>3, <2>1, <2>2, <2>3, NoClaimYet DEF FixRunInv
<1>4. CASE Throws
    BY <1>1, <1>4, ThrowKeeps
<1>5. ASSUME ~NoSuite, NEW r \in SuiteResults(box.tree), NEW t \in Written(box.tree),
             box' = [box EXCEPT !.report = r.left, !.tree = t],
             checks' = [checks EXCEPT !.suite = [seen |-> r.seen, of |-> r.of],
                                      !.infra = @ \/ r.seen = "infra"],
             step' = IF r.seen = "dirty" THEN "retry" ELSE "build",
             UNCHANGED <<plan, try, result>>
      PROVE  FixRunInv'
  <2>1. /\ r.seen \in {"clean", "dirty", "infra"} /\ r.of \in Trees /\ r.left \in Trees
        /\ r.seen = "clean" => r.of = try.candidate
      BY <1>i, <1>1, SuiteResultsSound DEF RunTypes, BoxType
  <2>2. t \in Contents /\ t \ {Junk} = try.candidate
      BY <1>i, <1>2, WrittenIsJunk DEF RunTypes, BoxType
  <2>3. box' \in BoxType /\ box'.index = box.index /\ box'.tree = t
      BY <1>i, <1>5, <2>1, <2>2 DEF RunTypes, BoxType
  <2>4. [seen |-> r.seen, of |-> r.of] \in SuiteType
      BY <2>1 DEF SuiteType
  <2>5. /\ checks' \in ChecksType /\ checks'.build = checks.build
        /\ checks'.suite = [seen |-> r.seen, of |-> r.of]
        /\ checks'.red = checks.red /\ checks'.green = checks.green
      BY <1>i, <1>5, <2>4 DEF RunTypes, ChecksType
  <2>6. step' \in {"retry", "build"}
      BY <1>5
  <2>7. RunTypes' /\ TreeIsCandidates'
      BY <1>i, <1>5, <2>2, <2>3, <2>5, <2>6
         DEF RunTypes, Steps, TreeIsCandidates, Own, Early, Late, Passed
  <2>8. ChecksAreCandidates'
      BY <1>i, <1>1, <1>5, <2>1, <2>5, <2>6 DEF ChecksAreCandidates, Early, Late, Passed, NoSuite
  <2>9. AgentIsLatest' /\ Paid'
      BY <1>i, <1>1, <1>5, <2>6 DEF AgentIsLatest, Paid, Early, Late, Passed, ThisEdit
  <2>. QED BY <1>1, <1>5, <2>7, <2>8, <2>9, NoClaimYet DEF FixRunInv
<1>. QED BY <1>3, <1>4, <1>5 DEF SuiteGate, GateThrows

LEMMA BuildSteps ==
  ASSUME FixRunInv, BuildGate PROVE FixRunInv'
<1>i. RunTypes /\ TreeIsCandidates /\ ChecksAreCandidates /\ AgentIsLatest /\ Paid
    BY DEF FixRunInv
<1>1. step = "build" /\ box.tree \ {Junk} = try.candidate /\ Own(try.candidate)
    BY <1>i DEF BuildGate, TreeIsCandidates
<1>2. CASE Throws
    BY <1>1, <1>2, ThrowKeeps
<1>3. ASSUME NEW v \in BuildOutcomes, NEW t \in Written(box.tree),
             box' = [box EXCEPT !.tree = t],
             checks' = [checks EXCEPT !.build = [seen |-> v, of |-> box.tree],
                                      !.infra = @ \/ v = "infra"],
             step' = IF v = "failed" THEN "retry" ELSE "tier_over",
             try' = [try EXCEPT !.ok = (v # "failed")],
             UNCHANGED <<plan, result>>
      PROVE  FixRunInv'
  <2>1. t \in Contents /\ t \ {Junk} = try.candidate /\ box.tree \in Trees
      BY <1>i, <1>1, WrittenIsJunk, Distinct DEF RunTypes, BoxType
  <2>2. box' \in BoxType /\ box'.index = box.index /\ box'.tree = t
      BY <1>i, <1>3, <2>1 DEF RunTypes, BoxType
  <2>3. [seen |-> v, of |-> box.tree] \in BuildType
      BY <2>1 DEF BuildType, BuildOutcomes
  <2>4. /\ checks' \in ChecksType /\ checks'.suite = checks.suite
        /\ checks'.build = [seen |-> v, of |-> box.tree]
        /\ checks'.red = checks.red /\ checks'.green = checks.green
      BY <1>i, <1>3, <2>3 DEF RunTypes, ChecksType
  <2>5. /\ try' \in TryType /\ try'.tier = try.tier /\ try'.attempt = try.attempt
        /\ try'.candidate = try.candidate /\ try'.tainted = try.tainted /\ try'.runs = try.runs
        /\ try'.by = try.by
      BY <1>i, <1>3 DEF RunTypes, TryType
  <2>6. step' \in {"retry", "tier_over"}
      BY <1>3
  <2>7. RunTypes'
      BY <1>i, <1>3, <2>2, <2>4, <2>5, <2>6 DEF RunTypes, Steps
  <2>8. TreeIsCandidates'
      BY <1>i, <1>1, <2>1, <2>2, <2>5, <2>6 DEF TreeIsCandidates, Own, Early, Late, Passed
  <2>9. ChecksAreCandidates'
      BY <1>i, <1>1, <1>3, <2>4, <2>5, <2>6 DEF ChecksAreCandidates, Early, Late, Passed, NoSuite
  <2>10. AgentIsLatest'
      BY <1>i, <1>1, <1>3, <2>5, <2>6 DEF AgentIsLatest, Early, Late, Passed, ThisEdit
  <2>11. Paid'
      BY <1>i, <1>1, <2>5, <2>6 DEF Paid, Early
  <2>. QED BY <1>1, <1>3, <2>7, <2>8, <2>9, <2>10, <2>11, NoClaimYet DEF FixRunInv
<1>. QED BY <1>2, <1>3 DEF BuildGate, GateThrows, BuildOutcomes

LEMMA RetrySteps ==
  ASSUME FixRunInv, Retry PROVE FixRunInv'
<1>i. RunTypes /\ TreeIsCandidates /\ ChecksAreCandidates /\ AgentIsLatest /\ Paid
    BY DEF FixRunInv
<1>1. step = "retry"
    BY DEF Retry
<1>2. CASE Throws
    BY <1>1, <1>2, ThrowKeeps
<1>3. CASE ~Throws
  <2>1. /\ box' = [box EXCEPT !.tree = box.index]
        /\ try' = [try EXCEPT !.attempt = @ + 1, !.ok = FALSE]
        /\ step' = IF try.attempt < MaxRetries THEN "agent" ELSE "tier_over"
        /\ UNCHANGED <<plan, checks, result>>
      BY <1>3 DEF Retry
  <2>2. box' \in BoxType /\ box'.index = box.index /\ box'.tree = box.index
      BY <1>i, <2>1 DEF RunTypes, BoxType
  <2>3. try.attempt \in 0 .. MaxRetries /\ try.attempt + 1 \in 0 .. MaxRetries + 1
      BY <1>i, <1>1, Distinct DEF RunTypes, TryType, Paid
  <2>4. /\ try' \in TryType /\ try'.tier = try.tier /\ try'.attempt = try.attempt + 1
        /\ try'.candidate = try.candidate /\ try'.tainted = try.tainted /\ try'.runs = try.runs
        /\ ~try'.ok
      BY <1>i, <2>1, <2>3 DEF RunTypes, TryType
  <2>5. step' \in {"agent", "tier_over"} /\ (step' = "agent" => try.attempt + 1 <= MaxRetries)
      BY <2>1, <2>3, Distinct
  <2>6. RunTypes'
      BY <1>i, <2>1, <2>2, <2>4, <2>5 DEF RunTypes, Steps
  <2>7. TreeIsCandidates'
      BY <1>i, <2>2, <2>4, <2>5 DEF TreeIsCandidates, Own, Early, Late, Passed
  <2>8. ChecksAreCandidates'
      BY <1>i, <1>1, <2>1, <2>4, <2>5 DEF ChecksAreCandidates, Early, Late, Passed, NoSuite
  <2>9. AgentIsLatest'
      BY <1>i, <1>1, <2>1, <2>4, <2>5 DEF AgentIsLatest, Late, Passed
  <2>10. Paid'
    <3> DEFINE before == (try.tier - 1) * (MaxRetries + 1)
    <3>1. before' = before
        BY <2>4
    <3>2. before \in Int /\ try.runs \in Int /\ try.attempt \in Int /\ MaxRetries \in Int
        BY <1>i, Distinct DEF RunTypes, TryType
    <3>3. try.runs <= before + try.attempt + 1 /\ try.runs <= before + (MaxRetries + 1)
        BY <1>i, <1>1 DEF Paid
    <3> HIDE DEF before
    <3>4. try'.runs <= before + try'.attempt /\ try'.runs <= before + (MaxRetries + 1)
        BY <2>4, <3>2, <3>3
    <3>. QED BY <2>4, <2>5, <3>1, <3>4 DEF Paid, Early, before
  <2>. QED BY <1>1, <2>1, <2>6, <2>7, <2>8, <2>9, <2>10, NoClaimYet DEF FixRunInv
<1>. QED BY <1>2, <1>3

LEMMA TierSteps ==
  ASSUME FixRunInv, TierOver PROVE FixRunInv'
<1>i. RunTypes /\ TreeIsCandidates /\ ChecksAreCandidates /\ AgentIsLatest /\ Paid
    BY DEF FixRunInv
<1>1. step = "tier_over"
    BY DEF TierOver
<1>2. ASSUME NEW why \in {"budget", "empty", "tests"}, NeedsHuman(why) PROVE FixRunInv'
    BY <1>1, <1>2, HandsOver DEF Reasons
<1>3. CASE Raise
    BY <1>1, <1>3, ThrowKeeps
<1>4. ASSUME UNCHANGED <<plan, box, try, checks, result>>,
             \/ step' = "next_tier" /\ ~LastTier
             \/ step' = "quality" /\ try.ok /\ ~checks.infra /\ try.candidate # {}
      PROVE  FixRunInv'
  <2>1. RunTypes' /\ TreeIsCandidates'
      BY <1>i, <1>1, <1>4 DEF RunTypes, Steps, TreeIsCandidates, Own, Early, Late, Passed
  <2>2. ChecksAreCandidates'
      BY <1>i, <1>1, <1>4 DEF ChecksAreCandidates, Early, Late, Passed, NoSuite
  <2>3. AgentIsLatest' /\ Paid'
      BY <1>i, <1>1, <1>4 DEF AgentIsLatest, Paid, Early, Late, Passed, ThisEdit, LastTier
  <2>. QED BY <1>1, <1>4, <2>1, <2>2, <2>3, NoClaimYet DEF FixRunInv
<1>. QED BY <1>2, <1>3, <1>4 DEF TierOver, Escalates

LEMMA NextTierSteps ==
  ASSUME FixRunInv, NextTier PROVE FixRunInv'
<1>i. RunTypes /\ TreeIsCandidates /\ ChecksAreCandidates /\ AgentIsLatest /\ Paid
    BY DEF FixRunInv
<1>1. step = "next_tier"
    BY DEF NextTier
<1>2. CASE Throws
    BY <1>1, <1>2, ThrowKeeps
<1>3. CASE ~Throws
  <2>1. /\ box' = [box EXCEPT !.tree = {}, !.index = {}]
        /\ try' = [try EXCEPT !.tier = @ + 1, !.attempt = 0, !.ok = FALSE, !.candidate = {},
                              !.declared = "none"]
        /\ checks' = NoChecks(checks.infra)
        /\ step' = "agent"
        /\ UNCHANGED <<plan, result>>
      BY <1>3 DEF NextTier
  <2>2. box' \in BoxType /\ box'.index = {} /\ box'.tree = {}
      BY <1>i, <2>1 DEF RunTypes, BoxType, Contents
  <2>3. try.tier + 1 \in 1 .. Tiers
      BY <1>i, <1>1, Distinct DEF RunTypes, TryType, Paid, LastTier
  <2>4. /\ try' \in TryType /\ try'.tier = try.tier + 1 /\ try'.attempt = 0
        /\ try'.candidate = {} /\ try'.tainted = try.tainted /\ try'.runs = try.runs
        /\ ~try'.ok
    <3>1. try \in TryType /\ {} \in Contents /\ 0 \in 0 .. MaxRetries + 1
        BY <1>i, Distinct DEF RunTypes, Contents
    <3>2. try' = [try EXCEPT !.tier = @ + 1, !.attempt = 0, !.ok = FALSE, !.candidate = {},
                              !.declared = "none"]
        BY <2>1
    <3>. QED BY <2>3, <3>1, <3>2 DEF TryType
  <2>5. Nothing \in SuiteType /\ Nothing \in BuildType /\ Nothing \in SeenType
      BY Distinct DEF Nothing, SuiteType, BuildType, SeenType
  <2>6. /\ checks' \in ChecksType
        /\ checks'.suite.seen = "not_run" /\ checks'.build.seen = "not_run"
        /\ checks'.red.seen = "not_run" /\ checks'.green.seen = "not_run"
    <3>1. checks.infra \in BOOLEAN
        BY <1>i DEF RunTypes, ChecksType
    <3>2. checks' \in ChecksType
        BY <2>1, <2>5, <3>1 DEF NoChecks, ChecksType
    <3>. QED BY <2>1, <3>2 DEF NoChecks, Nothing
  <2>7. RunTypes'
      BY <1>i, <2>1, <2>2, <2>4, <2>6 DEF RunTypes, Steps
  <2>8. TreeIsCandidates'
      BY <2>1, <2>2, <2>4 DEF TreeIsCandidates, Own, Early, Late, Passed
  <2>9. ChecksAreCandidates'
      BY <2>1, <2>6 DEF ChecksAreCandidates, Early, Late, Passed
  <2>10. AgentIsLatest'
      BY <1>i, <1>1, <2>1, <2>4 DEF AgentIsLatest, Late, Passed
  <2>11. Paid'
    <3> DEFINE k == MaxRetries + 1
               before == (try.tier - 1) * k
    <3>1. before \in Int /\ try.runs \in Int /\ k \in Nat /\ try.tier \in Int
        BY <1>i, Distinct DEF RunTypes, TryType
    <3>2. try.runs <= before + k
        BY <1>i DEF Paid
    <3>3. ((try.tier + 1) - 1) * k = before + k
      <4> HIDE DEF k
      <4>. QED BY <3>1
    <3>4. ((try'.tier - 1) * k) = before + k
        BY <2>4, <3>3
    <3> HIDE DEF before, k
    <3>5. try'.runs <= (before + k) + k /\ try'.runs <= (before + k) + try'.attempt
        BY <2>4, <3>1, <3>2
    <3>. QED BY <2>1, <2>4, <3>4, <3>5, Distinct DEF Paid, Early, k
  <2>. QED BY <1>1, <2>1, <2>7, <2>8, <2>9, <2>10, <2>11, NoClaimYet DEF FixRunInv
<1>. QED BY <1>2, <1>3

LEMMA QualitySteps ==
  ASSUME FixRunInv, QualityGate PROVE FixRunInv'
<1>i. RunTypes /\ TreeIsCandidates /\ ChecksAreCandidates /\ AgentIsLatest /\ Paid
    BY DEF FixRunInv
<1>1. PICK q \in BOOLEAN : /\ checks' = [checks EXCEPT !.quality = q]
                          /\ step' = IF ~q /\ ~LastTier THEN "next_tier" ELSE "red"
    BY DEF QualityGate, Confirmed
<1>2. step = "quality" /\ UNCHANGED <<plan, box, try, result>>
    BY DEF QualityGate
<1>3. /\ checks' \in ChecksType /\ checks'.suite = checks.suite /\ checks'.build = checks.build
      /\ checks'.red = checks.red /\ checks'.green = checks.green /\ checks'.infra = checks.infra
    BY <1>i, <1>1 DEF RunTypes, ChecksType
<1>4. step' = "red" \/ (step' = "next_tier" /\ ~LastTier)
    BY <1>1
<1>5. RunTypes' /\ TreeIsCandidates'
    BY <1>i, <1>2, <1>3, <1>4 DEF RunTypes, Steps, TreeIsCandidates, Own, Early, Late, Passed
<1>6. ChecksAreCandidates'
    BY <1>i, <1>2, <1>3, <1>4 DEF ChecksAreCandidates, Early, Late, Passed, NoSuite
<1>7. AgentIsLatest' /\ Paid'
    BY <1>i, <1>2, <1>4 DEF AgentIsLatest, Paid, Early, Late, Passed, ThisEdit, LastTier
<1>. QED BY <1>2, <1>5, <1>6, <1>7, NoClaimYet DEF FixRunInv

\* A step of the fail-first check moves on among the late steps, and touches the report and the two
\* observations only.
LEMMA FailFirstSteps ==
  ASSUME FixRunInv, FailFirstRed \/ FailFirstGreen \/ FailFirstRestore PROVE FixRunInv'
<1>i. RunTypes /\ TreeIsCandidates /\ ChecksAreCandidates /\ AgentIsLatest /\ Paid
    BY DEF FixRunInv
<1>1. step \in {"red", "green", "restore"}
    BY DEF FailFirstRed, FailFirstGreen, FailFirstRestore
<1>2. CASE Throws \/ Raise
    BY <1>1, <1>2, ThrowKeeps
<1>3. ASSUME step' \in {"green", "restore", "precision"}, UNCHANGED <<plan, try, result>>,
             box' \in BoxType, box'.index = box.index, box'.tree = box.tree,
             checks' \in ChecksType, checks'.suite = checks.suite, checks'.build = checks.build,
             checks'.infra = checks.infra,
             checks'.red.seen = "yes" => checks'.red.of = {TestFile},
             checks'.green.seen = "yes" => checks'.green.of \ {Junk} = try.candidate,
             step' = "green" => checks'.green.seen = "not_run"
      PROVE  FixRunInv'
  <2>1. RunTypes' /\ TreeIsCandidates'
      BY <1>i, <1>1, <1>3 DEF RunTypes, Steps, TreeIsCandidates, Own, Early, Late, Passed
  <2>2. ChecksAreCandidates'
      BY <1>i, <1>1, <1>3 DEF ChecksAreCandidates, Early, Late, Passed, NoSuite
  <2>3. AgentIsLatest' /\ Paid'
      BY <1>i, <1>1, <1>3 DEF AgentIsLatest, Paid, Early, Late, Passed, ThisEdit, LastTier
  <2>. QED BY <1>1, <1>3, <2>1, <2>2, <2>3, NoClaimYet DEF FixRunInv
<1>4. box \in BoxType /\ checks \in ChecksType /\ box.tree \in Contents
      /\ box.tree \ {Junk} = try.candidate
    BY <1>i, <1>1 DEF RunTypes, TreeIsCandidates, BoxType, Late
<1>5. CASE step' = "precision" /\ UNCHANGED <<plan, box, try, checks, result>>
    BY <1>i, <1>1, <1>3, <1>4, <1>5 DEF ChecksAreCandidates, Late
<1>6. ASSUME step = "red", NEW r \in SuiteResults({TestFile}), NEW s \in Observed(r, "dirty"),
             checks' = [checks EXCEPT !.red = [seen |-> s, of |-> r.of]],
             box' = [box EXCEPT !.report = r.left], step' = "green", UNCHANGED <<plan, try, result>>
      PROVE  FixRunInv'
  <2>1. r.of \in Trees /\ r.left \in Trees /\ (r.seen = "dirty" => r.of = {TestFile})
      BY <1>4, SuiteResultsSound
  <2>2. s \in {"yes", "no"} /\ (s = "yes" => r.of = {TestFile})
      BY <1>6, <2>1 DEF Observed
  <2>3. [seen |-> s, of |-> r.of] \in SeenType
      BY <2>1, <2>2 DEF SeenType
  <2>4. /\ checks' \in ChecksType /\ checks'.suite = checks.suite /\ checks'.build = checks.build
        /\ checks'.infra = checks.infra /\ checks'.red = [seen |-> s, of |-> r.of]
        /\ checks'.green = checks.green
      BY <1>4, <1>6, <2>3 DEF ChecksType
  <2>5. box' \in BoxType /\ box'.index = box.index /\ box'.tree = box.tree
      BY <1>4, <1>6, <2>1 DEF BoxType
  <2>6. checks.green.seen = "not_run"
      BY <1>i, <1>6 DEF ChecksAreCandidates
  <2>. QED BY <1>3, <1>6, <2>2, <2>4, <2>5, <2>6
<1>7. ASSUME step = "green", NEW r \in SuiteResults(box.tree), NEW s \in Observed(r, "clean"),
             checks' = [checks EXCEPT !.green = [seen |-> s, of |-> r.of]],
             box' = [box EXCEPT !.report = r.left], step' = "restore",
             UNCHANGED <<plan, try, result>>
      PROVE  FixRunInv'
  <2>1. r.of \in Trees /\ r.left \in Trees /\ (r.seen = "clean" => r.of = box.tree)
      BY <1>4, SuiteResultsSound
  <2>2. s \in {"yes", "no"} /\ (s = "yes" => r.of = box.tree)
      BY <1>7, <2>1 DEF Observed
  <2>3. [seen |-> s, of |-> r.of] \in SeenType
      BY <2>1, <2>2 DEF SeenType
  <2>4. /\ checks' \in ChecksType /\ checks'.suite = checks.suite /\ checks'.build = checks.build
        /\ checks'.infra = checks.infra /\ checks'.green = [seen |-> s, of |-> r.of]
        /\ checks'.red = checks.red
      BY <1>4, <1>7, <2>3 DEF ChecksType
  <2>5. box' \in BoxType /\ box'.index = box.index /\ box'.tree = box.tree
      BY <1>4, <1>7, <2>1 DEF BoxType
  <2>6. checks.red.seen = "yes" => checks.red.of = {TestFile}
      BY <1>i DEF ChecksAreCandidates
  <2>. QED BY <1>3, <1>4, <1>7, <2>2, <2>4, <2>5, <2>6
<1>. QED BY <1>2, <1>5, <1>6, <1>7 DEF FailFirstRed, FailFirstGreen, FailFirstRestore

LEMMA PrecisionSteps ==
  ASSUME FixRunInv, PrecisionGate PROVE FixRunInv'
<1>i. RunTypes /\ TreeIsCandidates /\ ChecksAreCandidates /\ AgentIsLatest /\ Paid
    BY DEF FixRunInv
<1>1. step = "precision" /\ ~try.tainted
    BY <1>i DEF PrecisionGate, AgentIsLatest
<1>2. PICK probed \in BOOLEAN :
        LET b == [box EXCEPT !.latched = @ \/ probed] IN
        \/ Finish("needs_human", "judge", FALSE, b)
        \/ Verified /\ Finish("fix_ready", "none", FALSE, b)
        \/ ~Verified /\ Finish("needs_human", "low", Checked, b)
    BY DEF PrecisionGate
<1> DEFINE b == [box EXCEPT !.latched = @ \/ probed]
<1>3. b \in BoxType /\ b.index = box.index
    BY <1>i DEF RunTypes, BoxType
<1> HIDE DEF b
<1>4. CASE Finish("needs_human", "judge", FALSE, b)
    BY <1>1, <1>3, <1>4, FailureKeeps DEF Reasons
<1>5. ASSUME Verified \/ Checked
      PROVE  /\ checks.suite = [seen |-> "clean", of |-> try.candidate]
             /\ checks.build.seen = "passed" /\ checks.build.of \ {Junk} = try.candidate
             /\ checks.quality /\ ~checks.infra /\ try.candidate # {} /\ Junk \notin try.candidate
             /\ try.by = ThisEdit
  <2>1. checks.suite.seen = "clean" /\ checks.build.seen = "passed" /\ checks.quality
      BY <1>5 DEF Verified, Checked, Reproduced, CleanSuite
  <2>2. checks.suite.of = try.candidate /\ checks.build.of \ {Junk} = try.candidate
        /\ ~checks.infra /\ try.candidate # {}
      BY <1>i, <1>1, <2>1 DEF ChecksAreCandidates, Late
  <2>3. checks.suite = [seen |-> "clean", of |-> try.candidate]
      BY <1>i, <2>1, <2>2 DEF RunTypes, ChecksType, SuiteType
  <2>4. Junk \notin try.candidate
      BY <1>i, <1>1 DEF TreeIsCandidates, Late
  <2>5. try.by = ThisEdit
      BY <1>i, <1>1 DEF AgentIsLatest, Late
  <2>. QED BY <2>1, <2>2, <2>3, <2>4, <2>5
<1>6. CASE Verified /\ Finish("fix_ready", "none", FALSE, b)
  <2>1. /\ try.declared = "test" /\ checks.red.seen = "yes" /\ checks.green.seen = "yes"
      BY <1>6 DEF Verified, Reproduced
  <2>2. checks.red.of = {TestFile} /\ checks.green.of \ {Junk} = try.candidate
      BY <1>i, <1>1, <2>1 DEF ChecksAreCandidates, Late
  <2>3. checks.red = [seen |-> "yes", of |-> {TestFile}]
      BY <1>i, <2>1, <2>2 DEF RunTypes, ChecksType, SeenType
  <2>4. UNCHANGED <<try, checks>>
      BY <1>6 DEF Finish
  <2>5. ReadyIsProven'
      BY <1>5, <1>6, <2>1, <2>2, <2>3, <2>4 DEF ReadyIsProven, ThisEdit
  <2>. QED BY <1>1, <1>3, <1>6, <2>5, FinishKeeps DEF Reasons
<1>7. CASE ~Verified /\ Finish("needs_human", "low", Checked, b)
  <2>1. Checked \in BOOLEAN
      BY DEF Checked
  <2>2. result' = [status |-> "needs_human", reason |-> "low", draft |-> Checked]
        /\ UNCHANGED <<try, checks>>
      BY <1>7, Zenon DEF Finish
  <2>3. result'.status = "needs_human" /\ result'.draft = Checked
      BY <2>2, Zenon
  <2>4. ReadyIsProven'
    <3>1. CASE Checked
        BY <1>5, <2>2, <2>3, <3>1 DEF ReadyIsProven, ThisEdit
    <3>2. CASE ~Checked
      <4>1. ~Claims'
          BY <2>3, <3>2 DEF Claims
      <4>. QED BY <4>1 DEF ReadyIsProven
    <3>. QED BY <3>1, <3>2
  <2>. QED BY <1>1, <1>3, <1>7, <2>1, <2>4, FinishKeeps DEF Reasons
<1>. QED BY <1>2, <1>4, <1>6, <1>7 DEF b

LEMMA OtherRunSteps ==
  ASSUME FixRunInv, HarnessFails \/ MachineGoes \/ FixRunDone \/ UNCHANGED fixRunVars
  PROVE  FixRunInv'
<1>i. RunTypes /\ TreeIsCandidates /\ ChecksAreCandidates /\ AgentIsLatest /\ Paid /\ ReadyIsProven
    BY DEF FixRunInv
<1>1. CASE HarnessFails
  <2>1. step # "done" /\ (Raise \/ (~box.latched /\ NeedsHuman("runtime")))
      BY <1>1 DEF HarnessFails
  <2>. QED BY <2>1, ThrowKeeps, HandsOver DEF Reasons
<1>2. CASE MachineGoes
  <2>1. box' = [box EXCEPT !.machine = "gone"] /\ UNCHANGED <<step, plan, try, checks, result>>
      BY <1>2 DEF MachineGoes
  <2>2. /\ box' \in BoxType /\ box'.index = box.index /\ box'.tree = box.tree
        /\ box'.latched = box.latched
      BY <1>i, <2>1 DEF RunTypes, BoxType
  <2>3. RunTypes' /\ TreeIsCandidates'
      BY <1>i, <2>1, <2>2 DEF RunTypes, Steps, TreeIsCandidates, Own, Early, Late, Passed
  <2>4. ChecksAreCandidates' /\ Paid'
      BY <1>i, <2>1 DEF ChecksAreCandidates, Paid, Early, Late, Passed, NoSuite, LastTier
  <2>5. AgentIsLatest' /\ ReadyIsProven'
      BY <1>i, <2>1, <2>2 DEF AgentIsLatest, ReadyIsProven, Claims, Late, Passed, ThisEdit
  <2>. QED BY <2>3, <2>4, <2>5 DEF FixRunInv
<1>3. CASE FixRunDone \/ UNCHANGED fixRunVars
  <2>1. UNCHANGED <<step, plan, box, try, checks, result>>
      BY <1>3 DEF FixRunDone, fixRunVars
  <2>2. RunTypes' /\ TreeIsCandidates'
      BY <1>i, <2>1 DEF RunTypes, TreeIsCandidates, Own, Early, Late, Passed
  <2>3. ChecksAreCandidates' /\ Paid'
      BY <1>i, <2>1 DEF ChecksAreCandidates, Paid, Early, Late, Passed, NoSuite, LastTier
  <2>4. AgentIsLatest' /\ ReadyIsProven'
      BY <1>i, <2>1 DEF AgentIsLatest, ReadyIsProven, Claims, Late, Passed, ThisEdit
  <2>. QED BY <2>2, <2>3, <2>4 DEF FixRunInv
<1>. QED BY <1>1, <1>2, <1>3

LEMMA FixRunInvHolds == FixRunSpec => []FixRunInv
<1>1. FixRunInv /\ [FixRunNext]_fixRunVars => FixRunInv'
    BY SetupSteps, BaselineSteps, AgentSteps, SuiteSteps, BuildSteps, RetrySteps, TierSteps,
       NextTierSteps, QualitySteps, FailFirstSteps, PrecisionSteps, OtherRunSteps
       DEF FixRunNext, RunSteps
<1>. QED BY <1>1, FixRunInvInit, PTL DEF FixRunSpec

\* For any number of model tiers and retries, whenever the machine goes: what a run claims was
\* observed on the diff it hands on, no verdict comes from a lost machine, and no more attempts are
\* paid for than there are (agent-fix.ts).
THEOREM FixRunHonestHolds == FixRunSpec => []FixRunHonest
<1>1. FixRunInv => FixRunHonest
  <2> SUFFICES ASSUME FixRunInv PROVE FixRunHonest
      OBVIOUS
  <2>1. FixRunTypeOK /\ AgentBudget
      BY TypesAreEnough, BudgetSuffices DEF FixRunInv
  <2>2. DeadMachineNoVerdict
      BY DEF FixRunInv, AgentIsLatest, DeadMachineNoVerdict
  <2>3. DiffIsOneTiers
      BY DEF FixRunInv, TreeIsCandidates, Own, DiffIsOneTiers
  <2>. QED BY <2>1, <2>2, <2>3 DEF FixRunInv, FixRunHonest
<1>. QED BY <1>1, FixRunInvHolds, PTL
=============================================================================
