----------------------------- MODULE ClaimOrder -----------------------------
(***************************************************************************)
(* Which claimable row claimJob takes: the ORDER BY over job type, the     *)
(* lanes' most recent claimed_at and created_at, with no row locked by     *)
(* another transaction.  Leases, owners and fences are module JobQueue's.  *)
(*                                                                         *)
(* claimed_at lives in the rows, and failing or handing back a row clears  *)
(* it, so the scheduler's memory of a lane is what its rows still hold.    *)
(* Only the order of the timestamps matters: stamps lists, oldest first,   *)
(* the rows that have one; a settled row leaves its stamp to the token of  *)
(* its lane, and its id stands for a new row.                              *)
(***************************************************************************)
EXTENDS Naturals, SequencesExt, FiniteSets

CONSTANTS
  Rows,          \* ids of the rows that exist at one time
  JobType,       \* the job_type of a row
  AnalysisCap,   \* sessionAnalysisCap
  Slots,         \* poll loops in the fleet
  MaxAttempts    \* max_attempts

ASSUME OrderAssumption ==
  /\ IsFiniteSet(Rows)
  /\ AnalysisCap \in Nat /\ Slots \in Nat /\ MaxAttempts \in Nat \ {0}

VARIABLES
  row,       \* status, attempts and due of each row
  created,   \* the rows in created_at order
  stamps     \* rows and lane tokens in claimed_at order

vars == <<row, created, stamps>>

Lane(t) == IF t = "session_analysis" THEN "analysis" ELSE "other"

LaneOf(x) == IF x \in Rows THEN Lane(JobType[x]) ELSE x

NewRow == [status |-> "absent", attempts |-> 0, due |-> TRUE]

Init ==
  /\ row = [j \in Rows |-> NewRow]
  /\ created = <<>>
  /\ stamps = <<>>

(* Mutant: plain priority, no memory of the lanes.                         *)
NeverBehind == FALSE

(* The analysis lane's latest claimed_at is older than the other lane's.   *)
AnalysisBehind == stamps # <<>> /\ LaneOf(Last(stamps)) = "other"

(* The CASE of the ORDER BY.                                               *)
Rank(j) ==
  CASE JobType[j] = "error_fix" -> 0
    [] JobType[j] = "session_analysis" /\ AnalysisBehind -> 1
    [] JobType[j] \in {"route_map", "product_context"} -> 4
    [] JobType[j] # "session_analysis" -> 2
    [] OTHER -> 3

Running(t) == {j \in Rows : JobType[j] = t /\ row[j].status = "claimed"}

Eligible(j) ==
  /\ row[j].status = "pending"
  /\ row[j].due
  /\ JobType[j] = "session_analysis" => Cardinality(Running("session_analysis")) < AnalysisCap

Older(j, k) == \E a, b \in DOMAIN created : a < b /\ created[a] = j /\ created[b] = k

ComesFirst(j) ==
  \A k \in Rows \ {j} : Eligible(k) => \/ Rank(j) < Rank(k)
                                       \/ Rank(j) = Rank(k) /\ Older(j, k)

Busy == {j \in Rows : row[j].status \in {"claimed", "lapsed"}}

-----------------------------------------------------------------------------
Insert(j) ==
  /\ row[j].status = "absent"
  /\ row' = [row EXCEPT ![j].status = "pending"]
  /\ created' = Append(created, j)
  /\ UNCHANGED stamps

Claim(j) ==
  /\ Cardinality(Busy) < Slots
  /\ Eligible(j)
  /\ ComesFirst(j)
  /\ row' = [row EXCEPT ![j].status = "claimed"]
  /\ stamps' = Append(Remove(stamps, j), j)
  /\ UNCHANGED created

(* A lease runs out: the row no longer counts against the cap.             *)
Lapse(j) ==
  /\ row[j].status = "claimed"
  /\ row' = [row EXCEPT ![j].status = "lapsed"]
  /\ UNCHANGED <<created, stamps>>

(* A completed or dead-lettered row keeps its claimed_at for MAX to see.   *)
Settled(j) ==
  LET lane == LaneOf(j)
      at(x) == {i \in DOMAIN stamps : stamps[i] = x}
  IN  IF \E i \in at(lane), k \in at(j) : i > k
        THEN Remove(stamps, j)
        ELSE ReplaceAll(Remove(stamps, lane), j, lane)

Retire(j) ==
  /\ row' = [row EXCEPT ![j] = NewRow]
  /\ created' = Remove(created, j)
  /\ stamps' = Settled(j)

Complete(j) ==
  /\ row[j].status = "claimed"
  /\ Retire(j)

(* failJob, or the reaper: dead letter at max_attempts, else a backoff that *)
(* clears claimed_at.                                                      *)
Fail(j) ==
  /\ row[j].status \in {"claimed", "lapsed"}
  /\ IF row[j].attempts + 1 >= MaxAttempts
       THEN Retire(j)
       ELSE /\ row' = [row EXCEPT ![j] = [status |-> "pending", attempts |-> @.attempts + 1,
                                          due |-> FALSE]]
            /\ stamps' = Remove(stamps, j)
            /\ UNCHANGED created

(* rescheduleJob after a stop: pending again at once, claimed_at cleared.  *)
Handback(j) ==
  /\ row[j].status = "claimed"
  /\ row' = [row EXCEPT ![j].status = "pending"]
  /\ stamps' = Remove(stamps, j)
  /\ UNCHANGED created

BecomesDue(j) ==
  /\ row[j].status = "pending"
  /\ ~ row[j].due
  /\ row' = [row EXCEPT ![j].due = TRUE]
  /\ UNCHANGED <<created, stamps>>

Next == \E j \in Rows :
  \/ Insert(j)
  \/ Claim(j)
  \/ Lapse(j)
  \/ Complete(j)
  \/ Fail(j)
  \/ Handback(j)
  \/ BecomesDue(j)

(* Loops poll, backoffs elapse, and a claimed row completes or fails; a     *)
(* process is stopped only finitely often while a claim is in flight.      *)
Fairness ==
  /\ WF_vars(\E j \in Rows : Claim(j))
  /\ \A j \in Rows : /\ WF_vars(Complete(j) \/ Fail(j))
                     /\ WF_vars(BecomesDue(j))

Spec == Init /\ [][Next]_vars

FairSpec == Spec /\ Fairness

-----------------------------------------------------------------------------
(* claimJob, policy 3: neither an analysis backlog nor a fix backlog starves *)
(* the other lane, although new rows keep arriving and rows keep failing.  *)
NoLaneStarves ==
  (\A j \in Rows : <>[][~ Handback(j)]_vars) =>
    \A j \in Rows : JobType[j] \in {"fix", "investigate", "session_analysis"} =>
      (row[j].status = "pending" ~> row[j].status # "pending")
=============================================================================
