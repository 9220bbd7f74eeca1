----------------------------- MODULE Admission -----------------------------
(***************************************************************************)
(* From an issue to the work it deserves: the filter's Tick, which weighs  *)
(* the evidence of open rounds and admits those with enough affected       *)
(* units, and the issue_inquiry job, whose stored verdict makes the        *)
(* investigation.  Composed with Identity, which brings the evidence.      *)
(*                                                                         *)
(* One Tick runs at a time (advisory lock); it lists, then works through   *)
(* its lists in transactions of their own, so both lists may be stale.     *)
(* What belongs to a round is kept for the latest round of an issue: a new *)
(* round starts afresh, and nobody reads the decisions of an old one.      *)
(***************************************************************************)
EXTENDS Identity, Integers

CONSTANTS
    User,           \* User[o]: the user or anonymous session of o
    AdmitUnits,     \* admitUnits
    MaxJobs         \* bound: inquiry jobs of a round

ASSUME AdmissionAssumption == AdmitUnits \in Nat /\ MaxJobs \in Nat \ {0}

VARIABLES
    adm,        \* issue_decisions and inquiry jobs of the latest round
    judged,     \* judged[i]: settled_at is not after the latest decided_at
    aged,       \* observations of more than seven days ago
    tick        \* the dispatcher: its phase and the list it works through

admission == <<adm, judged, aged, tick>>
vars == <<ids, admission>>

Verdicts == {"investigate", "wait_for_more_evidence", "do_not_pursue"}
Units == 0..Cardinality(Obs)
Signatures == Units \X (0..MaxJobs)

(* The latest decision and whether it is a week old; the inquiry jobs: how  *)
(* many, the active one, whether a decision is newer than all of them; the  *)
(* frozen anchors; the evidence the active job read; the stored verdicts by *)
(* signature and the latest of them; the investigation.  credit counts the  *)
(* decisions that admit, less the admissions: it is history.                *)
Round ==
    [outcome : {None, "watch", "inactive", "open_inquiry"}, units : Units,
     lapsed : BOOLEAN,
     jobs : 0..MaxJobs, job : {None, "pending", "claimed", "persisted"},
     by : {"auto", "human"}, newer : BOOLEAN, anchored : BOOLEAN, read : Units,
     stored : SUBSET (Signatures \X Verdicts),
     asked : Verdicts \cup {None}, askedUnits : Units,
     investigation : BOOLEAN, credit : Int]

(* The types; and a signature has one stored verdict. *)
TypeOK ==
    /\ adm \in [Issues -> Round]
    /\ judged \in [Issues -> SUBSET Obs]
    /\ aged \subseteq {o \in Obs : obs[o].identity # None}
    /\ tick \in [phase : {"idle", "evaluating", "admitting"},
                 list : [Issues -> 0..MaxJobs]]
    /\ \A i \in Issues : \A s, t \in adm[i].stored : s[1] = t[1] => s = t

Fresh == [outcome |-> None, units |-> 0, lapsed |-> FALSE, jobs |-> 0, job |-> None,
          by |-> "auto", newer |-> FALSE, anchored |-> FALSE, read |-> 0,
          stored |-> {}, asked |-> None, askedUnits |-> 0,
          investigation |-> FALSE, credit |-> 0]

Nothing == [i \in Issues |-> 0]

Init ==
    /\ IdInit
    /\ adm = [i \in Issues |-> Fresh]
    /\ judged = [i \in Issues |-> {}]
    /\ aged = {}
    /\ tick = [phase |-> "idle", list |-> Nothing]

On(i) == {o \in Obs : obs[o].at = [issue |-> i, round |-> episode[i].seq]}
Affected(os) == Cardinality({User[o] : o \in os})

(* Identity moves on: a new round has no decisions, jobs or place in a list, *)
(* and a settlement that starts gives its observation a later settled_at.    *)
IdentityStep ==
    /\ IdSteps
    /\ LET new == {i \in Issues : episode'[i].seq # episode[i].seq}
           begun == {txn'[s].obs : s \in {x \in Settlers : txn'[x] # txn[x]}}
       IN  /\ adm' = [i \in Issues |-> IF i \in new THEN Fresh ELSE adm[i]]
           /\ judged' = [i \in Issues |-> IF i \in new THEN {} ELSE judged[i] \ begun]
           /\ tick' = [tick EXCEPT !.list =
                         [i \in Issues |-> IF i \in new THEN 0 ELSE @[i]]]
    /\ UNCHANGED aged

(* A week goes by. *)
Week ==
    /\ Change
    /\ aged' = {o \in Obs : obs[o].identity # None}
    /\ adm' = [i \in Issues |-> [adm[i] EXCEPT !.lapsed = adm[i].outcome # None]]
    /\ UNCHANGED <<obs, alias, issue, episode, losers, conflicts, inHand, txn, judged, tick>>

-----------------------------------------------------------------------------
(* Dispatcher.Tick. *)

(* Mutant: only age and a missing decision make a round stale. *)
StaleByAge(i) ==
    episode[i].open /\ (adm[i].outcome = None \/ adm[i].lapsed)

(* staleEpisodes. *)
Stale(i) ==
    /\ episode[i].open
    /\ \/ adm[i].outcome = None
       \/ adm[i].lapsed /\ adm[i].outcome # "inactive"
       \/ On(i) \ judged[i] # {}

(* closeResolvedEpisodes, and the list of the stale ones that are left. *)
TickStarts ==
    /\ tick.phase = "idle"
    /\ CloseResolvedEpisodes
    /\ tick' = [phase |-> "evaluating", list |->
         [i \in Issues |-> IF Stale(i) /\ episode'[i].open THEN 1 ELSE 0]]
    /\ UNCHANGED <<adm, judged, aged>>

(* evaluateAt. *)
Outcome(i) ==
    IF On(i) = {} THEN "watch"
    ELSE IF On(i) \subseteq aged THEN "inactive"
    ELSE IF Affected(On(i) \ aged) >= AdmitUnits THEN "open_inquiry" ELSE "watch"

(* Evaluate: the decision is appended if it is not the latest already.  It  *)
(* is later than the start of every settlement under way.                   *)
Evaluate(i) ==
    /\ tick.phase = "evaluating" /\ tick.list[i] # 0
    /\ tick' = [tick EXCEPT !.list[i] = 0]
    /\ LET units == Affected(On(i) \ aged)
           append == adm[i].outcome # Outcome(i) \/ adm[i].units # units
       IN  IF append
           THEN /\ adm' = [adm EXCEPT ![i].outcome = Outcome(i), ![i].units = units,
                     ![i].lapsed = FALSE, ![i].newer = TRUE,
                     ![i].credit = @ + IF Outcome(i) = "open_inquiry" THEN 1 ELSE 0]
                /\ judged' = [judged EXCEPT ![i] =
                     {o \in Obs : \/ obs[o].identity = "settled"
                                  \/ \E s \in Settlers : txn[s].obs = o}]
           ELSE UNCHANGED <<adm, judged>>
    /\ UNCHANGED <<ids, aged>>

(* Mutant: without the no-progress brake. *)
ReadmissibleUnpaid(i) ==
    /\ adm[i].asked \in {"wait_for_more_evidence", "do_not_pursue"}
    /\ adm[i].units * 2 >= adm[i].askedUnits * 3

(* A verdict that waits is asked again on half as many units more, paid for *)
(* by a decision newer than the last inquiry activity.                      *)
Readmissible(i) ==
    /\ adm[i].asked \in {"wait_for_more_evidence", "do_not_pursue"}
    /\ adm[i].newer
    /\ adm[i].units * 2 >= adm[i].askedUnits * 3

(* inquiryCandidates. *)
Candidate(i) ==
    /\ episode[i].open
    /\ adm[i].outcome = "open_inquiry"
    /\ adm[i].job = None /\ adm[i].jobs < MaxJobs
    /\ \/ adm[i].asked = None /\ adm[i].jobs = 0
       \/ Readmissible(i)

ListCandidates ==
    /\ tick.phase = "evaluating" /\ tick.list = Nothing
    /\ tick' = [phase |-> "admitting", list |->
         [i \in Issues |-> IF Candidate(i) THEN adm[i].jobs + 1 ELSE 0]]
    /\ UNCHANGED <<ids, adm, judged, aged>>

(* FreezeAnchors: anchors never move, and need the threshold's second unit. *)
Freezable(i) == adm[i].anchored \/ Affected(On(i)) >= 2

(* admitOne: an active job, or one of this version, wins. *)
AdmitOne(i) ==
    /\ tick.phase = "admitting" /\ tick.list[i] # 0
    /\ tick' = [tick EXCEPT !.list[i] = 0]
    /\ IF episode[i].open /\ adm[i].outcome = "open_inquiry" /\ Freezable(i)
       THEN IF adm[i].job = None /\ tick.list[i] > adm[i].jobs
            THEN adm' = [adm EXCEPT ![i].anchored = TRUE, ![i].jobs = @ + 1,
                   ![i].job = "pending", ![i].by = "auto", ![i].newer = FALSE,
                   ![i].credit = @ - 1]
            ELSE adm' = [adm EXCEPT ![i].anchored = TRUE]
       ELSE UNCHANGED adm
    /\ UNCHANGED <<ids, judged, aged>>

TickEnds ==
    /\ tick.phase = "admitting" /\ tick.list = Nothing
    /\ tick' = [tick EXCEPT !.phase = "idle"]
    /\ UNCHANGED <<ids, adm, judged, aged>>

(* An error, or the end of the process, ends the tick where it is. *)
TickAborts ==
    /\ Change
    /\ tick.phase # "idle"
    /\ tick' = [phase |-> "idle", list |-> Nothing]
    /\ UNCHANGED <<obs, alias, issue, episode, losers, conflicts, inHand, txn,
                   adm, judged, aged>>

-----------------------------------------------------------------------------
(* The inquiry of a round. *)

(* RequestIssueReview: active work is reused. *)
RequestIssueReview(i) ==
    /\ Change
    /\ episode[i].open
    /\ adm[i].job = None /\ adm[i].jobs < MaxJobs
    /\ adm' = [adm EXCEPT ![i].jobs = @ + 1, ![i].job = "pending",
                          ![i].by = "human", ![i].newer = FALSE]
    /\ UNCHANGED <<obs, alias, issue, episode, losers, conflicts, inHand, txn,
                   judged, aged, tick>>

(* The job is claimed and runInquiry loads its evidence. *)
InquiryStarts(i) ==
    /\ adm[i].job = "pending" /\ adm[i].anchored
    /\ adm' = [adm EXCEPT ![i].job = "claimed", ![i].newer = FALSE,
                          ![i].read = Affected(On(i) \ aged)]
    /\ UNCHANGED <<ids, judged, aged, tick>>

(* loadEvidence throws on a round without anchors, until the last attempt. *)
InquiryUnanchored(i) ==
    /\ adm[i].job = "pending" /\ ~adm[i].anchored
    /\ adm' = [adm EXCEPT ![i].job = None, ![i].newer = FALSE]
    /\ UNCHANGED <<ids, judged, aged, tick>>

(* evidenceSignature: what a person asked for is told apart by its version. *)
Signature(i) == <<adm[i].read, IF adm[i].by = "human" THEN adm[i].jobs ELSE 0>>

Known(i) == \E v \in Verdicts : <<Signature(i), v>> \in adm[i].stored

(* The verdict that counts: the one stored for the signature, if any. *)
Effective(i, verdict) ==
    IF Known(i)
    THEN CHOOSE v \in Verdicts : <<Signature(i), v>> \in adm[i].stored
    ELSE verdict

(* persistInquiryDecision, under the lease. *)
InquiryPersists(i) ==
    /\ adm[i].job = "claimed"
    /\ \E verdict \in Verdicts :
         adm' = [adm EXCEPT ![i].job = "persisted",
           ![i].stored = IF Known(i) THEN @ ELSE @ \cup {<<Signature(i), verdict>>},
           ![i].asked = IF Known(i) THEN @ ELSE verdict,
           ![i].askedUnits = IF Known(i) THEN @ ELSE adm[i].read,
           ![i].investigation = @ \/ Effective(i, verdict) = "investigate"]
    /\ UNCHANGED <<ids, judged, aged, tick>>

(* The poller completes the job. *)
InquiryCompletes(i) ==
    /\ adm[i].job = "persisted"
    /\ adm' = [adm EXCEPT ![i].job = None, ![i].newer = FALSE]
    /\ UNCHANGED <<ids, judged, aged, tick>>

(* The model, the sandbox or the lease fails, even after the verdict is      *)
(* stored: the job is tried again or dead-lettered.                          *)
InquiryFails(i) ==
    /\ Change
    /\ adm[i].job \in {"claimed", "persisted"}
    /\ \E then \in {"pending", None} :
         adm' = [adm EXCEPT ![i].job = then, ![i].newer = FALSE]
    /\ UNCHANGED <<obs, alias, issue, episode, losers, conflicts, inHand, txn,
                   judged, aged, tick>>

-----------------------------------------------------------------------------
Inquiry(i) == \/ InquiryStarts(i) \/ InquiryUnanchored(i)
              \/ InquiryPersists(i) \/ InquiryCompletes(i)

Dispatching == \/ TickStarts \/ ListCandidates \/ TickEnds
               \/ \E i \in Issues : Evaluate(i) \/ AdmitOne(i)

Next == \/ IdentityStep \/ Week \/ Dispatching \/ TickAborts
        \/ \E i \in Issues : \/ RequestIssueReview(i) \/ InquiryFails(i)
                             \/ Inquiry(i)

(* The dispatcher ticks for ever. *)
Spec == Init /\ [][Next]_vars /\ WF_vars(Dispatching)

-----------------------------------------------------------------------------
(* Properties. *)

(* Every inquiry the sweep asks for in a round is paid for by a decision of  *)
(* the filter appended for it: a verdict that waits, a review a person asks  *)
(* for, a dead letter or a tick that ends half way never make the sweep ask  *)
(* again by itself.                                                          *)
InquiriesArePaid == \A i \in Issues : adm[i].credit >= 0

(* A round has an investigation exactly when a stored verdict says so: a     *)
(* retry whose model changes its mind neither drops nor invents work.        *)
DecisionHasWork ==
    \A i \in Issues : adm[i].investigation <=>
                      \E s \in adm[i].stored : s[2] = "investigate"

Agrees(i) == adm[i].outcome = Outcome(i) /\ adm[i].units = Affected(On(i) \ aged)

(* Evidence that settles after the latest decision is weighed: the decision  *)
(* of an open round comes to agree with what is on it.                       *)
EvidenceIsWeighed ==
    \A i \in Issues : (episode[i].open /\ On(i) \ judged[i] # {})
                      ~> (Agrees(i) \/ ~episode[i].open)

(* The decisions, inquiries and investigations of a round agree, whatever the *)
(* sweep, the inquiry and people do in between.                              *)
AdmissionAgrees ==
  /\ TypeOK
  /\ InquiriesArePaid
  /\ DecisionHasWork
=============================================================================
