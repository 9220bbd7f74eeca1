--------------------------- MODULE IdentityProofs ---------------------------
(***************************************************************************)
(* What holds of settlement and admission for any number of observations,  *)
(* issues, fingerprints and settlement loops.  IdInv is inductive: it says *)
(* what a settlement under way may still rely on of what it has read.      *)
(* AdmissionInv is, over it: it says what a place in a stale list of       *)
(* admissions is still worth.                                              *)
(***************************************************************************)
EXTENDS Admission, FiniteSetTheorems, TLAPS

(* An observation is on an issue exactly when it is settled. *)
SettledIsAttached ==
    \A o \in Obs : IF obs[o].identity = "settled" THEN obs[o].at.issue \in Issues
                                                  ELSE obs[o].at = Nowhere

(* What a loop holds was captured, and what it settles is not settled yet.  *)
InHandIsCaptured ==
    /\ \A s \in Settlers : \A o \in inHand[s] : obs[o].identity # None
    /\ \A s \in Settlers : txn[s] # NoTxn =>
         obs[txn[s].obs].identity \in {"pending", "settling"}

(* Settlements under way are of different observations.                     *)
LocksExclude ==
    \A s, r \in Settlers :
        s # r /\ txn[s] # NoTxn /\ txn[r] # NoTxn => txn[s].obs # txn[r].obs

(* An issue that exists has had a round, and so has one with an open round. *)
IssuesAreWhole ==
    \A i \in Issues : issue[i].status # None \/ episode[i].open => episode[i].seq > 0

(* An issue that is resolved, or will be when it is unarchived.             *)
Quiet(i) == \/ issue[i].status = "resolved"
            \/ issue[i].status = "archived" /\ issue[i].saved = "resolved"

(* ResolvedIsQuiet, also for an issue that was archived after it was        *)
(* resolved: what settles there from now on is put aside.                   *)
QuietBeforeArchive ==
    \A o \in Obs, i \in Issues :
        obs[o].at.issue = i /\ ~obs[o].aside /\ Quiet(i) => i \in obs[o].resolvedSince

IdInv ==
    /\ IdTypeOK
    /\ SettledIsAttached
    /\ InHandIsCaptured
    /\ LocksExclude
    /\ IssuesAreWhole
    /\ OneIssuePerFingerprint
    /\ CountsAreReal
    /\ RoundExists
    /\ QuietBeforeArchive

-----------------------------------------------------------------------------
(* The first states satisfy the inductive invariant. *)
LEMMA IdStarts == IdInit => IdInv
<1> SUFFICES ASSUME IdInit PROVE IdInv
  OBVIOUS
<1> USE FingerprintsAssumption, NoneAssumption
<1>1. /\ \A o \in First : /\ obs[o].identity = "settled"
                          /\ obs[o].at.issue = FirstIssue /\ obs[o].at.round = 1
                          /\ obs[o].keys = {Raw[o]}
                          /\ obs[o] \in Observation
      /\ \A o \in Obs \ First : obs[o] = Uncaptured
      /\ DOMAIN obs = Obs /\ obs = [o \in Obs |-> obs[o]]
  BY DEF IdInit, Observation, Episodes
<1>2. /\ Uncaptured \in Observation
      /\ Uncaptured.at = Nowhere /\ Uncaptured.identity = "none"
      /\ Uncaptured.at.issue = None
  BY DEF Uncaptured, Observation, Episodes, Nowhere, None
<1>3. obs \in [Obs -> Observation]
  BY <1>1, <1>2
<1>4. \A s \in Settlers : txn[s] = NoTxn /\ inHand[s] = {}
  BY DEF IdInit
<1>5. IdTypeOK
  <2>1. IsFiniteSet(First) /\ Cardinality(First) \in Nat
    BY FS_Subset, FS_CardinalityType
  <2>2. issue \in [Issues -> Issue]
    BY <2>1 DEF IdInit, Issue, Statuses
  <2>3. /\ alias \in [Fingerprints -> Issues \cup {None}]
        /\ episode \in [Issues -> [seq : Nat, open : BOOLEAN]]
        /\ losers \subseteq Issues /\ conflicts \subseteq (Obs \X SUBSET Issues)
        /\ changes \in 0..MaxChanges
    BY DEF IdInit
  <2>4. /\ inHand \in [Settlers -> SUBSET Obs]
        /\ txn \in [Settlers -> [obs : Obs \cup {None}, keys : SUBSET Fingerprints,
                                 bound : SUBSET Issues]]
    <3>1. NoTxn \in [obs : Obs \cup {None}, keys : SUBSET Fingerprints, bound : SUBSET Issues]
      BY DEF NoTxn
    <3>2. QED
      BY <3>1 DEF IdInit
  <2>5. QED
    BY <1>3, <1>4, <2>2, <2>3, <2>4 DEF IdTypeOK
<1>6. SettledIsAttached
  BY <1>1, <1>2 DEF SettledIsAttached
<1>7. InHandIsCaptured /\ LocksExclude
  BY <1>4 DEF InHandIsCaptured, LocksExclude
<1>8. IssuesAreWhole
  BY DEF IdInit, IssuesAreWhole
<1>9. OneIssuePerFingerprint
  <2>1. \A o \in First : alias[Raw[o]] = FirstIssue
    BY DEF IdInit
  <2>2. \A o \in Obs : obs[o].identity = "settled" => o \in First
    BY <1>1, <1>2
  <2>3. ASSUME NEW o \in Obs, obs[o].identity = "settled"
        PROVE  \A f \in obs[o].keys : alias[f] = obs[o].at.issue
    <3>1. obs[o].keys = {Raw[o]} /\ obs[o].at.issue = FirstIssue /\ alias[Raw[o]] = FirstIssue
      BY <1>1, <2>1, <2>2, <2>3
    <3>2. QED
      BY <3>1
  <2>4. QED
    BY <2>3 DEF OneIssuePerFingerprint
<1>10. CountsAreReal
  <2>1. \A o \in Obs : obs[o].at.issue = IF o \in First THEN FirstIssue ELSE None
    BY <1>1, <1>2
  <2>2. Attached(FirstIssue) = First
    BY <2>1 DEF Attached
  <2>3. \A i \in Issues \ {FirstIssue} : Attached(i) = {}
    BY <2>1 DEF Attached
  <2>4. Cardinality({}) = 0
    BY FS_EmptySet
  <2>5. \A i \in Issues : issue[i].count = IF i = FirstIssue THEN Cardinality(First) ELSE 0
    BY DEF IdInit
  <2>6. QED
    BY <2>2, <2>3, <2>4, <2>5 DEF CountsAreReal
<1>11. RoundExists
  <2>1. episode[FirstIssue].seq = 1
    BY DEF IdInit
  <2>2. ASSUME NEW o \in Obs, obs[o].at # Nowhere
        PROVE  obs[o].at.round \in 1..episode[obs[o].at.issue].seq
    <3>1. obs[o].at.round = 1 /\ obs[o].at.issue = FirstIssue
      BY <1>1, <1>2, <2>2
    <3>2. QED
      BY <2>1, <3>1
  <2>3. QED
    BY <2>2 DEF RoundExists
<1>12. QuietBeforeArchive
  <2>1. \A i \in Issues : issue[i].status \in {"new", None}
    BY DEF IdInit
  <2>2. QED
    BY <2>1 DEF QuietBeforeArchive, Quiet, None
<1>13. QED
  BY <1>5, <1>6, <1>7, <1>8, <1>9, <1>10, <1>11, <1>12 DEF IdInv

-----------------------------------------------------------------------------
(* An identity that only waits: captured, claimed, or given back.           *)
Waits(o) == \/ obs'[o].identity = obs[o].identity
            \/ /\ obs[o].identity \in {None, "pending", "settling"}
               /\ obs'[o].identity \in {"pending", "settling"}

(* A step on the resolve jobs, the waiting identities and what the loops    *)
(* hold, which settles nothing and moves no issue, keeps the invariant.     *)
LEMMA WaitingKeeps ==
  ASSUME IdInv, obs' \in [Obs -> Observation],
         \A o \in Obs : /\ Waits(o)
                       /\ obs'[o].at = obs[o].at /\ obs'[o].keys = obs[o].keys
                       /\ obs'[o].resolvedSince = obs[o].resolvedSince
                       /\ obs'[o].aside = obs[o].aside,
         inHand' \in [Settlers -> SUBSET Obs],
         \A s \in Settlers : txn[s] = NoTxn \/ txn[s].obs \in inHand'[s],
         \A s \in Settlers : \A o \in inHand'[s] : obs'[o].identity # None,
         changes' \in 0..MaxChanges,
         UNCHANGED <<alias, issue, episode, losers, conflicts, txn>>
  PROVE  IdInv'
<1> USE DEF IdInv, Waits
<1>1. IdTypeOK'
  BY DEF IdTypeOK
<1>2. SettledIsAttached'
  BY DEF SettledIsAttached, None
<1>3. InHandIsCaptured'
  <2>1. \A s \in Settlers : txn[s] # NoTxn => txn[s].obs \in Obs
    BY DEF IdTypeOK
  <2>2. QED
    BY <2>1 DEF InHandIsCaptured
<1>4. LocksExclude' /\ IssuesAreWhole'
  BY DEF LocksExclude, IssuesAreWhole
<1>5. OneIssuePerFingerprint'
  BY DEF OneIssuePerFingerprint
<1>6. CountsAreReal'
  <2>1. \A i \in Issues : Attached(i)' = Attached(i)
    BY DEF Attached
  <2>2. QED
    BY <2>1 DEF CountsAreReal
<1>7. RoundExists' /\ QuietBeforeArchive'
  BY DEF RoundExists, QuietBeforeArchive, Quiet
<1>8. QED
  BY <1>1, <1>2, <1>3, <1>4, <1>5, <1>6, <1>7

(* The resolve job and its watchdog write resolutions, not identities.      *)
LEMMA ResolveKeeps ==
  ASSUME IdInv, NEW o \in Obs,
         \/ ResolveStarts(o) \/ ResolveEnds(o) \/ ResolveFails(o) \/ ResolveDies(o)
         \/ WakePendingStackResolutions(o) \/ Sweep(o)
  PROVE  IdInv'
<1> USE DEF IdInv
<1>1. obs[o] \in Observation /\ obs \in [Obs -> Observation]
  BY DEF IdTypeOK
<1>2. /\ UNCHANGED <<alias, issue, episode, losers, conflicts, inHand, txn>>
      /\ changes' \in 0..MaxChanges
  BY FingerprintsAssumption DEF ResolveStarts, ResolveEnds, ResolveFails, ResolveDies,
        WakePendingStackResolutions, Sweep, Change, IdTypeOK
<1>3. ASSUME NEW j \in {None, "queued", "running"},
             NEW r \in {None, "pending", "failed", "resolved", "no_map"},
             Resolution(o, j, r)
      PROVE  /\ obs' \in [Obs -> Observation]
             /\ \A p \in Obs : /\ obs'[p].identity = obs[p].identity
                               /\ obs'[p].at = obs[p].at /\ obs'[p].keys = obs[p].keys
                               /\ obs'[p].resolvedSince = obs[p].resolvedSince
                               /\ obs'[p].aside = obs[p].aside
  BY <1>1, <1>3 DEF Observation, Resolution
<1>4. \E j \in {None, "queued", "running"}, r \in {None, "pending", "failed", "resolved", "no_map"} :
        Resolution(o, j, r)
  <2>1. /\ obs[o].resolution \in {None, "pending", "failed", "resolved", "no_map"}
        /\ obs[o].job \in {None, "queued", "running"}
    BY <1>1 DEF Observation
  <2>2. \A r \in {"pending", "failed", "resolved", "no_map"} :
          Recorded(obs[o].resolution, r) \in {None, "pending", "failed", "resolved", "no_map"}
    BY <2>1 DEF Recorded
  <2>3. CASE ResolveStarts(o) \/ ResolveDies(o) \/ WakePendingStackResolutions(o) \/ Sweep(o)
    BY <2>1, <2>2, <2>3 DEF ResolveStarts, ResolveDies, WakePendingStackResolutions, Sweep
  <2>4. CASE ResolveEnds(o)
    BY <2>2, <2>4 DEF ResolveEnds
  <2>5. CASE ResolveFails(o)
    BY <2>2, <2>5 DEF ResolveFails
  <2>6. QED
    BY <2>3, <2>4, <2>5
<1>5. /\ obs' \in [Obs -> Observation]
      /\ \A p \in Obs : /\ obs'[p].identity = obs[p].identity
                        /\ obs'[p].at = obs[p].at /\ obs'[p].keys = obs[p].keys
                        /\ obs'[p].resolvedSince = obs[p].resolvedSince
                        /\ obs'[p].aside = obs[p].aside
  BY <1>3, <1>4
<1>6. /\ inHand' \in [Settlers -> SUBSET Obs]
      /\ \A s \in Settlers : txn[s] = NoTxn \/ txn[s].obs \in inHand'[s]
      /\ \A s \in Settlers : \A p \in inHand'[s] : p \in Obs /\ obs[p].identity # None
  BY <1>2 DEF IdTypeOK, InHandIsCaptured
<1>7. \A s \in Settlers : \A p \in inHand'[s] : obs'[p].identity # None
  BY <1>5, <1>6
<1>8. QED
  BY <1>2, <1>5, <1>6, <1>7, WaitingKeeps DEF Waits

(* Capture, claim and the reset of a lease move an identity that waits.     *)
LEMMA LeaseKeeps ==
  ASSUME IdInv, NEW o \in Obs,
         CaptureError(o) \/ ResetAbandoned(o) \/ ResetHeld(o)
  PROVE  IdInv'
<1> USE DEF IdInv
<1>1. obs[o] \in Observation /\ obs \in [Obs -> Observation]
  BY DEF IdTypeOK
<1>2. /\ UNCHANGED <<alias, issue, episode, losers, conflicts, inHand, txn>>
      /\ changes' \in 0..MaxChanges
  BY FingerprintsAssumption DEF CaptureError, ResetAbandoned, ResetHeld, Change, IdTypeOK
<1>3. /\ obs' \in [Obs -> Observation]
      /\ \A p \in Obs : /\ p # o => obs'[p].identity = obs[p].identity
                        /\ obs'[p].at = obs[p].at /\ obs'[p].keys = obs[p].keys
                        /\ obs'[p].resolvedSince = obs[p].resolvedSince
                        /\ obs'[p].aside = obs[p].aside
      /\ obs[o].identity \in {None, "settling"} /\ obs'[o].identity = "pending"
  <2>1. CASE CaptureError(o)
    BY <1>1, <2>1 DEF CaptureError, Observation
  <2>2. CASE ResetAbandoned(o) \/ ResetHeld(o)
    BY <1>1, <2>2 DEF ResetAbandoned, ResetHeld, Observation
  <2>3. QED
    BY <2>1, <2>2
<1>4. /\ inHand' \in [Settlers -> SUBSET Obs]
      /\ \A s \in Settlers : txn[s] = NoTxn \/ txn[s].obs \in inHand'[s]
      /\ \A s \in Settlers : \A p \in inHand'[s] : p \in Obs /\ obs[p].identity # None
  BY <1>2 DEF IdTypeOK, InHandIsCaptured
<1>5. \A s \in Settlers : \A p \in inHand'[s] : obs'[p].identity # None
  BY <1>3, <1>4 DEF None
<1>6. \A p \in Obs : Waits(p)
  BY <1>3 DEF Waits
<1>7. QED
  BY <1>2, <1>3, <1>4, <1>5, <1>6, WaitingKeeps

LEMMA TickKeeps ==
  ASSUME IdInv, NEW s \in Settlers, TickClaims(s)
  PROVE  IdInv'
<1> USE DEF IdInv
<1>1. PICK claimed \in SUBSET {o \in Obs : /\ obs[o].identity = "pending"
                                          /\ obs[o].resolution \in {"resolved", "no_map"}} :
        /\ inHand' = [inHand EXCEPT ![s] = claimed]
        /\ obs' = [o \in Obs |-> IF o \in claimed THEN [obs[o] EXCEPT !.identity = "settling"]
                                                  ELSE obs[o]]
  BY DEF TickClaims
<1>2. UNCHANGED <<alias, issue, episode, losers, conflicts, txn, changes>> /\ inHand[s] = {}
  BY DEF TickClaims
<1>3. obs \in [Obs -> Observation]
  BY DEF IdTypeOK
<1>4. /\ obs' \in [Obs -> Observation]
      /\ \A p \in Obs : /\ obs'[p].identity = IF p \in claimed THEN "settling" ELSE obs[p].identity
                        /\ obs'[p].at = obs[p].at /\ obs'[p].keys = obs[p].keys
                        /\ obs'[p].resolvedSince = obs[p].resolvedSince
                        /\ obs'[p].aside = obs[p].aside
      /\ \A p \in claimed : obs[p].identity = "pending"
  BY <1>1, <1>3 DEF Observation
<1>5. /\ inHand' \in [Settlers -> SUBSET Obs]
      /\ \A r \in Settlers : txn[r] = NoTxn \/ txn[r].obs \in inHand'[r]
      /\ \A r \in Settlers : \A p \in inHand'[r] : p \in Obs /\ (p \in claimed \/ obs[p].identity # None)
  BY <1>1, <1>2 DEF IdTypeOK, InHandIsCaptured
<1>6. \A r \in Settlers : \A p \in inHand'[r] : obs'[p].identity # None
  BY <1>4, <1>5 DEF None
<1>7. \A p \in Obs : Waits(p)
  BY <1>4 DEF Waits
<1>8. changes' \in 0..MaxChanges
  BY <1>2 DEF IdTypeOK
<1>9. QED
  BY <1>2, <1>4, <1>5, <1>6, <1>7, <1>8, WaitingKeeps

-----------------------------------------------------------------------------
(* A settlement that is given up leaves everything as it was: the process   *)
(* dies, or the issue it read has been merged meanwhile.                    *)
LEMMA GivingUpKeeps ==
  ASSUME IdInv, NEW s \in Settlers, txn' = [txn EXCEPT ![s] = NoTxn],
         NEW H, H \subseteq inHand[s], inHand' = [inHand EXCEPT ![s] = H],
         changes' \in 0..MaxChanges,
         UNCHANGED <<obs, alias, issue, episode, losers, conflicts>>
  PROVE  IdInv'
<1> USE DEF IdInv
<1>1. /\ \A r \in Settlers : r # s => txn'[r] = txn[r] /\ inHand'[r] = inHand[r]
      /\ txn'[s] = NoTxn /\ inHand'[s] \subseteq inHand[s]
  BY DEF IdTypeOK
<1>2. IdTypeOK'
  <2>1. NoTxn \in [obs : Obs \cup {None}, keys : SUBSET Fingerprints, bound : SUBSET Issues]
    BY DEF NoTxn
  <2>2. /\ txn' \in [Settlers -> [obs : Obs \cup {None}, keys : SUBSET Fingerprints, bound : SUBSET Issues]]
        /\ inHand' \in [Settlers -> SUBSET Obs]
    BY <2>1 DEF IdTypeOK
  <2>3. QED
    BY <1>1, <2>2 DEF IdTypeOK
<1>3. InHandIsCaptured' /\ LocksExclude'
  BY <1>1 DEF InHandIsCaptured, LocksExclude
<1>4. SettledIsAttached' /\ IssuesAreWhole' /\ OneIssuePerFingerprint' /\ RoundExists' /\ QuietBeforeArchive'
  BY DEF SettledIsAttached, IssuesAreWhole, OneIssuePerFingerprint, RoundExists,
         QuietBeforeArchive, Quiet
<1>5. CountsAreReal'
  BY DEF CountsAreReal, Attached
<1>6. QED
  BY <1>2, <1>3, <1>4, <1>5

(* A settlement begins with what the aliases say, under locks on its        *)
(* fingerprints; what another loop has settled meanwhile is only let go.    *)
LEMMA ReadKeeps ==
  ASSUME IdInv, NEW s \in Settlers, NEW o \in Obs, SettleReads(s, o)
  PROVE  IdInv'
<1> USE DEF IdInv
<1>1. CASE obs[o].identity \in {"settled", "conflict"}
  <2>1. /\ txn' = [txn EXCEPT ![s] = NoTxn]
        /\ inHand' = [inHand EXCEPT ![s] = inHand[s] \ {o}]
        /\ UNCHANGED <<obs, alias, issue, episode, losers, conflicts, changes>>
    BY <1>1 DEF SettleReads, IdTypeOK
  <2>2. changes' \in 0..MaxChanges
    BY <2>1 DEF IdTypeOK
  <2>3. QED
    BY <2>1, <2>2, GivingUpKeeps
<1>2. CASE obs[o].identity \notin {"settled", "conflict"}
  <2> DEFINE t == [obs |-> o, keys |-> Candidates(o),
                   bound |-> {alias[f] : f \in Candidates(o)} \ {None}]
  <2>1. /\ txn' = [txn EXCEPT ![s] = t]
        /\ o \in inHand[s] /\ txn[s] = NoTxn /\ Unlocked(o)
        /\ UNCHANGED <<inHand, obs, alias, issue, episode, losers, conflicts, changes>>
    BY <1>2 DEF SettleReads
  <2>2. Candidates(o) \subseteq Fingerprints
    BY FingerprintsAssumption DEF Candidates
  <2>3. /\ t \in [obs : Obs \cup {None}, keys : SUBSET Fingerprints, bound : SUBSET Issues]
        /\ t.obs = o /\ t # NoTxn
    BY <2>2, NoneAssumption DEF IdTypeOK, NoTxn
  <2> HIDE DEF t
  <2>4. txn'[s] = t /\ \A r \in Settlers : r # s => txn'[r] = txn[r]
    BY <2>1 DEF IdTypeOK
  <2>5. IdTypeOK'
    <3>1. txn' \in [Settlers -> [obs : Obs \cup {None}, keys : SUBSET Fingerprints, bound : SUBSET Issues]]
      BY <2>1, <2>3 DEF IdTypeOK
    <3>2. QED
      BY <2>1, <2>3, <2>4, <3>1 DEF IdTypeOK
  <2>6. InHandIsCaptured'
    <3>1. obs[o].identity \in {"pending", "settling"}
      BY <1>2, <2>1 DEF InHandIsCaptured, IdTypeOK, Observation
    <3>2. QED
      BY <2>1, <2>3, <2>4, <3>1 DEF InHandIsCaptured
  <2>7. LocksExclude'
    BY <2>1, <2>3, <2>4 DEF LocksExclude, Unlocked
  <2>8. SettledIsAttached' /\ IssuesAreWhole' /\ OneIssuePerFingerprint' /\ RoundExists' /\ QuietBeforeArchive'
    BY <2>1 DEF SettledIsAttached, IssuesAreWhole, OneIssuePerFingerprint, RoundExists,
                QuietBeforeArchive, Quiet
  <2>9. CountsAreReal'
    BY <2>1 DEF CountsAreReal, Attached
  <2>10. QED
    BY <2>5, <2>6, <2>7, <2>8, <2>9
<1>3. QED
  BY <1>1, <1>2

(* A parked observation is on no issue. *)
LEMMA ConflictKeeps ==
  ASSUME IdInv, NEW s \in Settlers, SettleConflicts(s)
  PROVE  IdInv'
<1> USE DEF IdInv
<1> DEFINE o == txn[s].obs
<1>1. /\ txn[s] # NoTxn
      /\ conflicts' = conflicts \cup {<<o, txn[s].bound>>}
      /\ obs' = [obs EXCEPT ![o].identity = "conflict"]
      /\ txn' = [txn EXCEPT ![s] = NoTxn]
      /\ inHand' = [inHand EXCEPT ![s] = inHand[s] \ {o}]
      /\ UNCHANGED <<alias, issue, episode, losers, changes>>
  BY DEF SettleConflicts, Ended, IdTypeOK
<1>2. o \in Obs /\ obs[o].identity \in {"pending", "settling"} /\ txn[s].bound \subseteq Issues
  BY <1>1 DEF IdTypeOK, InHandIsCaptured
<1> HIDE DEF o
<1>3. /\ obs' \in [Obs -> Observation]
      /\ \A p \in Obs : /\ p # o => obs'[p].identity = obs[p].identity
                        /\ obs'[p].at = obs[p].at /\ obs'[p].keys = obs[p].keys
                        /\ obs'[p].resolvedSince = obs[p].resolvedSince
                        /\ obs'[p].aside = obs[p].aside
      /\ obs'[o].identity = "conflict"
  <2>1. obs' = [obs EXCEPT ![o].identity = "conflict"] /\ obs \in [Obs -> Observation]
    BY <1>1 DEF IdTypeOK
  <2>2. QED
    BY <1>2, <2>1 DEF Observation
<1>4. /\ \A r \in Settlers : r # s => txn'[r] = txn[r] /\ inHand'[r] = inHand[r]
      /\ txn'[s] = NoTxn /\ inHand'[s] \subseteq inHand[s]
      /\ \A r \in Settlers : r # s /\ txn[r] # NoTxn => txn[r].obs # o /\ txn[r].obs \in Obs
  BY <1>1 DEF IdTypeOK, LocksExclude, o
<1>5. IdTypeOK'
  <2>1. NoTxn \in [obs : Obs \cup {None}, keys : SUBSET Fingerprints, bound : SUBSET Issues]
    BY DEF NoTxn
  <2>2. /\ txn' \in [Settlers -> [obs : Obs \cup {None}, keys : SUBSET Fingerprints, bound : SUBSET Issues]]
        /\ inHand' \in [Settlers -> SUBSET Obs]
    BY <1>1, <2>1 DEF IdTypeOK
  <2>3. conflicts' \subseteq (Obs \X SUBSET Issues)
    BY <1>1, <1>2 DEF IdTypeOK
  <2>4. QED
    BY <1>1, <1>3, <1>4, <2>2, <2>3 DEF IdTypeOK
<1>6. SettledIsAttached'
  BY <1>2, <1>3 DEF SettledIsAttached
<1>7. InHandIsCaptured'
  <2>1. \A r \in Settlers : \A p \in inHand'[r] : p \in Obs /\ obs[p].identity # None
    BY <1>4 DEF InHandIsCaptured, IdTypeOK
  <2>2. QED
    BY <1>3, <1>4, <2>1 DEF InHandIsCaptured, None
<1>8. LocksExclude' /\ IssuesAreWhole'
  BY <1>1, <1>4 DEF LocksExclude, IssuesAreWhole
<1>9. OneIssuePerFingerprint' /\ RoundExists' /\ QuietBeforeArchive'
  BY <1>1, <1>2, <1>3 DEF OneIssuePerFingerprint, RoundExists, QuietBeforeArchive, Quiet
<1>10. CountsAreReal'
  <2>1. \A i \in Issues : Attached(i)' = Attached(i)
    BY <1>3 DEF Attached
  <2>2. QED
    BY <1>1, <2>1 DEF CountsAreReal
<1>11. QED
  BY <1>5, <1>6, <1>7, <1>8, <1>9, <1>10

(* A settlement binds its fingerprints to one issue and counts itself there. *)
LEMMA CommitKeeps ==
  ASSUME IdInv, NEW s \in Settlers, SettleCommits(s)
  PROVE  IdInv'
<1> USE DEF IdInv
<1> DEFINE o == txn[s].obs
           K == txn[s].keys
<1>1. PICK i \in Targets(s) :
        LET e == IF TakesBack(i, o) THEN episode[i] ELSE Opened(episode[i])
        IN  /\ Bindable(s, i)
            /\ alias' = [f \in Fingerprints |-> IF f \in K /\ alias[f] = None THEN i ELSE alias[f]]
            /\ \E late \in LoudAfter(i) :
                 issue' = [issue EXCEPT ![i].count = @ + 1, ![i].loud = late,
                   ![i].status = IF TakesBack(i, o) \/ @ \notin {None, "resolved"}
                                 THEN @ ELSE "new"]
            /\ episode' = [episode EXCEPT ![i] = e]
            /\ obs' = [obs EXCEPT ![o].identity = "settled", ![o].at = [issue |-> i, round |-> e.seq],
                                  ![o].keys = K, ![o].aside = issue[i].status = "archived"]
  BY DEF SettleCommits
<1>2. /\ txn[s] # NoTxn
      /\ txn' = [txn EXCEPT ![s] = NoTxn]
      /\ inHand' = [inHand EXCEPT ![s] = inHand[s] \ {o}]
      /\ UNCHANGED <<losers, conflicts, changes>>
  BY DEF SettleCommits, Ended, IdTypeOK
<1>3. /\ i \in Issues
      /\ \A f \in K : f \in Fingerprints /\ alias[f] \in {i, None}
  <2>1. txn[s].keys \subseteq Fingerprints /\ txn[s].bound \subseteq Issues
    BY DEF IdTypeOK
  <2>2. i \in Issues
    BY <2>1 DEF Targets
  <2>3. QED
    BY <1>1, <2>1, <2>2 DEF Bindable
<1>4. o \in Obs /\ K \subseteq Fingerprints /\ obs[o].identity \in {"pending", "settling"}
  BY <1>2 DEF IdTypeOK, InHandIsCaptured
<1>5. obs[o].at = Nowhere /\ obs[o].at.issue = None /\ None \notin Issues
  BY <1>4, NoneAssumption DEF SettledIsAttached, Nowhere
<1> DEFINE e == IF TakesBack(i, o) THEN episode[i] ELSE Opened(episode[i])
<1>6. /\ e \in [seq : Nat, open : BOOLEAN]
      /\ e.seq > 0 /\ e.seq >= episode[i].seq
  <2>1. episode[i] \in [seq : Nat, open : BOOLEAN]
    BY <1>3 DEF IdTypeOK
  <2>2. CASE TakesBack(i, o)
    BY <1>3, <2>1, <2>2 DEF TakesBack, IssuesAreWhole, None
  <2>3. CASE ~TakesBack(i, o)
    BY <1>3, <2>1, <2>3 DEF Opened, IssuesAreWhole
  <2>4. QED
    BY <2>2, <2>3
<1>7. /\ alias' = [f \in Fingerprints |-> IF f \in K /\ alias[f] = None THEN i ELSE alias[f]]
      /\ episode' = [episode EXCEPT ![i] = e]
      /\ obs' = [obs EXCEPT ![o].identity = "settled", ![o].at = [issue |-> i, round |-> e.seq],
                            ![o].keys = K, ![o].aside = issue[i].status = "archived"]
  BY <1>1
<1>8. /\ issue' \in [Issues -> Issue]
      /\ \A j \in Issues : j # i => issue'[j] = issue[j]
      /\ issue'[i].count = issue[i].count + 1
      /\ issue'[i].saved = issue[i].saved
      /\ issue'[i].status = "resolved" => TakesBack(i, o)
      /\ issue'[i].status = "archived" => issue[i].status = "archived"
  <2> DEFINE c == issue[i].count + 1
             u == IF TakesBack(i, o) \/ issue[i].status \notin {None, "resolved"}
                  THEN issue[i].status ELSE "new"
  <2>1. PICK late \in LoudAfter(i) :
          issue' = [issue EXCEPT ![i].count = c, ![i].loud = late, ![i].status = u]
    BY <1>1, <1>3 DEF IdTypeOK
  <2>2. /\ issue \in [Issues -> Issue]
        /\ issue[i].status \in Statuses /\ issue[i].count \in Nat /\ issue[i].loud \in BOOLEAN
    BY <1>3 DEF IdTypeOK, Issue
  <2>3. /\ c \in Nat
        /\ u = "new" \/ u = issue[i].status
        /\ (u = "resolved" => TakesBack(i, o))
    BY <2>2
  <2>3a. late \in BOOLEAN
    BY <2>2 DEF LoudAfter
  <2> HIDE DEF c, u
  <2>4. /\ issue' \in [Issues -> Issue]
        /\ \A j \in Issues : j # i => issue'[j] = issue[j]
        /\ issue'[i].count = c /\ issue'[i].status = u /\ issue'[i].saved = issue[i].saved
    <3>1. u \in Statuses
      BY <2>2, <2>3 DEF Statuses
    <3> DEFINE r == [issue[i] EXCEPT !.count = c, !.loud = late, !.status = u]
    <3>2. issue[i] \in Issue /\ i \in Issues
      BY <1>3, <2>2
    <3>3. r \in Issue /\ r.count = c /\ r.status = u /\ r.saved = issue[i].saved
      BY <2>3, <2>3a, <3>1, <3>2 DEF Issue
    <3>4. issue' = [issue EXCEPT ![i] = r]
      BY <2>1
    <3> HIDE DEF r
    <3>5. QED
      BY <2>2, <3>2, <3>3, <3>4
  <2>5. QED
    BY <2>3, <2>4 DEF c
<1>9. /\ obs' \in [Obs -> Observation]
      /\ \A p \in Obs : p # o => obs'[p] = obs[p]
      /\ obs'[o].identity = "settled" /\ obs'[o].keys = K
      /\ obs'[o].at.issue = i /\ obs'[o].at.round = e.seq
      /\ obs'[o].resolvedSince = obs[o].resolvedSince
      /\ obs'[o].aside = (issue[i].status = "archived")
  <2> DEFINE a == [issue |-> i, round |-> e.seq]
             b == issue[i].status = "archived"
  <2>1. a \in Episodes /\ a.issue = i /\ a.round = e.seq /\ b \in BOOLEAN
    BY <1>3, <1>6 DEF Episodes
  <2>2. obs' = [obs EXCEPT ![o].identity = "settled", ![o].at = a, ![o].keys = K, ![o].aside = b]
    BY <1>7
  <2>3. obs \in [Obs -> Observation]
    BY DEF IdTypeOK
  <2> HIDE DEF a, b
  <2>4. /\ obs' \in [Obs -> Observation]
        /\ \A p \in Obs : p # o => obs'[p] = obs[p]
        /\ obs'[o].identity = "settled" /\ obs'[o].keys = K /\ obs'[o].at = a
        /\ obs'[o].resolvedSince = obs[o].resolvedSince /\ obs'[o].aside = b
    <3> DEFINE r == [obs[o] EXCEPT !.identity = "settled", !.at = a, !.keys = K, !.aside = b]
    <3>1. obs[o] \in Observation /\ o \in Obs
      BY <1>4, <2>3
    <3>2. /\ r.identity = "settled" /\ r.keys = K /\ r.at = a
          /\ r.resolvedSince = obs[o].resolvedSince /\ r.aside = b
      BY <3>1 DEF Observation
    <3>3. r \in Observation
      BY <1>4, <2>1, <3>1 DEF Observation
    <3>4. obs' = [obs EXCEPT ![o] = r]
      BY <2>2
    <3> HIDE DEF r
    <3>5. QED
      BY <2>3, <3>1, <3>2, <3>3, <3>4
  <2>5. QED
    BY <2>1, <2>4 DEF b
<1> HIDE DEF o, K, e
<1>10. /\ \A r \in Settlers : r # s => txn'[r] = txn[r] /\ inHand'[r] = inHand[r]
       /\ txn'[s] = NoTxn /\ inHand'[s] \subseteq inHand[s]
       /\ \A r \in Settlers : r # s /\ txn[r] # NoTxn =>
            txn[r].obs # o /\ txn[r].obs \in Obs
  BY <1>2 DEF IdTypeOK, LocksExclude, o
<1>11. IdTypeOK'
  <2>1. NoTxn \in [obs : Obs \cup {None}, keys : SUBSET Fingerprints, bound : SUBSET Issues]
    BY DEF NoTxn
  <2>2. /\ txn' \in [Settlers -> [obs : Obs \cup {None}, keys : SUBSET Fingerprints, bound : SUBSET Issues]]
        /\ inHand' \in [Settlers -> SUBSET Obs]
    BY <1>2, <2>1 DEF IdTypeOK
  <2>3. /\ alias' \in [Fingerprints -> Issues \cup {None}]
        /\ episode' \in [Issues -> [seq : Nat, open : BOOLEAN]]
    BY <1>3, <1>6, <1>7 DEF IdTypeOK
  <2>4. \A r \in Settlers : txn'[r] = NoTxn \/ txn'[r].obs \in inHand'[r]
    BY <1>10 DEF IdTypeOK
  <2>5. QED
    BY <1>2, <1>8, <1>9, <2>2, <2>3, <2>4 DEF IdTypeOK
<1>12. SettledIsAttached'
  BY <1>3, <1>9 DEF SettledIsAttached
<1>13. InHandIsCaptured'
  <2>1. \A r \in Settlers : \A p \in inHand'[r] : p \in Obs /\ obs[p].identity # None
    BY <1>10 DEF InHandIsCaptured, IdTypeOK
  <2>2. QED
    BY <1>9, <1>10, <2>1 DEF InHandIsCaptured, None
<1>14. LocksExclude'
  BY <1>10 DEF LocksExclude
<1>16. IssuesAreWhole'
  <2>1. \A j \in Issues : j # i => episode'[j] = episode[j]
    BY <1>7 DEF IdTypeOK
  <2>2. episode'[i].seq > 0
    BY <1>3, <1>6, <1>7 DEF IdTypeOK
  <2>3. QED
    BY <1>3, <1>8, <2>1, <2>2 DEF IssuesAreWhole
<1>17. OneIssuePerFingerprint'
  <2>1. ASSUME NEW p \in Obs, obs'[p].identity = "settled"
        PROVE  \A f \in obs'[p].keys : alias'[f] = obs'[p].at.issue
    <3>1. CASE p = o
      BY <1>3, <1>4, <1>5, <1>7, <1>9, <3>1
    <3>2. CASE p # o
      <4>1. /\ obs'[p] = obs[p] /\ obs[p].at.issue \in Issues
            /\ \A f \in obs[p].keys : f \in Fingerprints /\ alias[f] = obs[p].at.issue
        BY <1>9, <2>1, <3>2 DEF SettledIsAttached, OneIssuePerFingerprint, IdTypeOK, Observation
      <4>2. \A f \in obs[p].keys : alias'[f] = obs[p].at.issue
        BY <1>3, <1>5, <1>7, <4>1
      <4>3. QED
        BY <4>1, <4>2
    <3>3. QED
      BY <3>1, <3>2
  <2>2. QED
    BY <2>1 DEF OneIssuePerFingerprint
<1>18. CountsAreReal'
  <2>1. Attached(i)' = Attached(i) \cup {o} /\ o \notin Attached(i)
    BY <1>3, <1>4, <1>5, <1>9 DEF Attached
  <2>2. \A j \in Issues : j # i => Attached(j)' = Attached(j)
    BY <1>4, <1>5, <1>9 DEF Attached
  <2>3. IsFiniteSet(Attached(i)) /\ Cardinality(Attached(i)) \in Nat
    BY FS_Subset, FS_CardinalityType, FingerprintsAssumption DEF Attached
  <2>4. Cardinality(Attached(i)') = Cardinality(Attached(i)) + 1
    BY <2>1, <2>3, FS_AddElement
  <2>5. QED
    BY <1>2, <1>3, <1>8, <2>2, <2>4 DEF CountsAreReal
<1>19. RoundExists'
  <2>1. /\ \A j \in Issues : episode'[j].seq >= episode[j].seq /\ episode'[j].seq \in Nat
        /\ episode'[i].seq = e.seq
    BY <1>3, <1>6, <1>7 DEF IdTypeOK
  <2>2. ASSUME NEW p \in Obs, obs'[p].at # Nowhere
        PROVE  obs'[p].at.round \in 1..episode'[obs'[p].at.issue].seq
    <3>1. CASE p = o
      BY <1>6, <1>9, <2>1, <3>1
    <3>2. CASE p # o
      <4>1. obs'[p] = obs[p] /\ obs[p].at.issue \in Issues
        BY <1>9, <2>2, <3>2 DEF SettledIsAttached
      <4>2. obs[p].at.round \in 1..episode[obs[p].at.issue].seq /\ episode[obs[p].at.issue].seq \in Nat
        BY <2>2, <4>1 DEF RoundExists, IdTypeOK
      <4>3. QED
        BY <2>1, <4>1, <4>2
    <3>3. QED
      BY <3>1, <3>2
  <2>3. QED
    BY <2>2 DEF RoundExists
<1>20. QuietBeforeArchive'
  <2>1. ASSUME NEW p \in Obs, NEW j \in Issues,
               obs'[p].at.issue = j, ~obs'[p].aside, Quiet(j)'
        PROVE  j \in obs'[p].resolvedSince
    <3>1. CASE j # i
      <4>1. p # o /\ obs'[p] = obs[p] /\ issue'[j] = issue[j]
        BY <1>8, <1>9, <2>1, <3>1
      <4>2. QED
        BY <2>1, <4>1 DEF QuietBeforeArchive, Quiet
    <3>2. CASE j = i /\ p = o
      BY <1>8, <1>9, <2>1, <3>2 DEF Quiet, TakesBack
    <3>3. CASE j = i /\ p # o
      <4>1. Quiet(i)
        BY <1>8, <2>1, <3>3 DEF Quiet, TakesBack
      <4>2. QED
        BY <1>9, <2>1, <3>3, <4>1 DEF QuietBeforeArchive
    <3>4. QED
      BY <3>1, <3>2, <3>3
  <2>2. QED
    BY <2>1 DEF QuietBeforeArchive
<1>21. QED
  BY <1>11, <1>12, <1>13, <1>14, <1>16, <1>17, <1>18, <1>19, <1>20

-----------------------------------------------------------------------------
(* Only the status of one issue changes, and rounds are at most closed.     *)
Ends(i) ==
    /\ issue' \in [Issues -> Issue]
    /\ \A j \in Issues : issue'[j].count = issue[j].count
    /\ \A j \in Issues : j # i => issue'[j] = issue[j]
    /\ episode' \in [Issues -> [seq : Nat, open : BOOLEAN]]
    /\ \A j \in Issues : episode'[j].seq = episode[j].seq /\ (episode'[j].open => episode[j].open)

(* What becomes of an issue otherwise: resolved, archived, unarchived, its  *)
(* fix merged.  It is quiet then if it was, or if what was captured before  *)
(* is from before this.                                                     *)
LEMMA EndKeeps ==
  ASSUME IdInv, NEW i \in Issues, issue[i].status # None,
         Ends(i),
         obs' \in [Obs -> Observation],
         \A o \in Obs :
            /\ obs'[o].identity = obs[o].identity
            /\ obs'[o].at = obs[o].at /\ obs'[o].keys = obs[o].keys
            /\ obs'[o].aside = obs[o].aside
            /\ obs[o].resolvedSince \subseteq obs'[o].resolvedSince,
         \/ Quiet(i)' => Quiet(i)
         \/ \A o \in Obs : obs[o].identity # None => i \in obs'[o].resolvedSince,
         changes' \in 0..MaxChanges,
         UNCHANGED <<alias, losers, conflicts, inHand, txn>>
  PROVE  IdInv'
<1> USE DEF IdInv
<1>1. IdTypeOK'
  BY DEF IdTypeOK, Ends
<1>2. SettledIsAttached'
  BY DEF SettledIsAttached
<1>3. InHandIsCaptured'
  <2>1. /\ \A s \in Settlers : inHand[s] \subseteq Obs
        /\ \A s \in Settlers : txn[s] # NoTxn => txn[s].obs \in Obs
    BY DEF IdTypeOK
  <2>2. QED
    BY <2>1 DEF InHandIsCaptured
<1>4. LocksExclude'
  BY DEF LocksExclude
<1>5. IssuesAreWhole'
  <2>1. episode[i].seq > 0
    BY DEF IssuesAreWhole
  <2>2. QED
    BY <2>1 DEF IssuesAreWhole, Ends
<1>6. OneIssuePerFingerprint'
  BY DEF OneIssuePerFingerprint
<1>7. RoundExists'
  <2>1. \A o \in Obs : obs[o].at # Nowhere => obs[o].at.issue \in Issues
    BY DEF SettledIsAttached
  <2>2. QED
    BY <2>1 DEF RoundExists, Ends
<1>8. CountsAreReal'
  <2>1. \A j \in Issues : Attached(j)' = Attached(j)
    BY DEF Attached
  <2>2. QED
    BY <2>1 DEF CountsAreReal, Ends
<1>9. QuietBeforeArchive'
  <2>1. \A o \in Obs : obs[o].at.issue \in Issues => obs[o].identity # None
    BY NoneAssumption DEF SettledIsAttached, Nowhere, None
  <2>2. ASSUME NEW o \in Obs, NEW j \in Issues,
               obs'[o].at.issue = j, ~obs'[o].aside, Quiet(j)'
        PROVE  j \in obs'[o].resolvedSince
    <3>1. CASE Quiet(j)
      BY <2>2, <3>1 DEF QuietBeforeArchive
    <3>2. CASE ~Quiet(j)
      <4>1. j = i
        BY <2>2, <3>2 DEF Ends, Quiet
      <4>2. QED
        BY <2>1, <2>2, <3>2, <4>1
    <3>3. QED
      BY <3>1, <3>2
  <2>3. QED
    BY <2>2 DEF QuietBeforeArchive
<1>10. QED
  BY <1>1, <1>2, <1>3, <1>4, <1>5, <1>6, <1>7, <1>8, <1>9

(* A person or the sweep of silent merges resolves an issue. *)
LEMMA ResolvesKeeps ==
  ASSUME IdInv, NEW i \in Issues, PersonResolves(i) \/ ResolveSilentMerged(i)
  PROVE  IdInv'
<1> USE DEF IdInv
<1>1. /\ issue' = [issue EXCEPT ![i].status = "resolved"]
      /\ episode' = [episode EXCEPT ![i] = Closed(episode[i])]
      /\ obs' = [o \in Obs |-> IF obs[o].identity = None THEN obs[o]
                   ELSE [obs[o] EXCEPT !.resolvedSince = @ \cup {i}]]
      /\ UNCHANGED <<alias, losers, conflicts, inHand, txn>>
      /\ issue[i].status # None
  <2>1. Resolves(i)
    BY DEF PersonResolves, ResolveSilentMerged
  <2>2. issue[i].status # None
    BY DEF PersonResolves, ResolveSilentMerged, None
  <2>3. episode \in [Issues -> [seq : Nat, open : BOOLEAN]]
    BY DEF IdTypeOK
  <2>4. QED
    BY <2>1, <2>2, <2>3 DEF Resolves
<1>1a. changes' \in 0..MaxChanges
  BY FingerprintsAssumption DEF PersonResolves, ResolveSilentMerged, Change, IdTypeOK
<1>2. Ends(i)
  <2>1. issue \in [Issues -> Issue] /\ episode \in [Issues -> [seq : Nat, open : BOOLEAN]]
    BY DEF IdTypeOK
  <2>2. /\ issue' \in [Issues -> Issue]
        /\ \A j \in Issues : issue'[j].count = issue[j].count
        /\ \A j \in Issues : j # i => issue'[j] = issue[j]
    BY <1>1, <2>1 DEF Issue, Statuses
  <2>3. /\ episode' \in [Issues -> [seq : Nat, open : BOOLEAN]]
        /\ \A j \in Issues : episode'[j].seq = episode[j].seq
        /\ \A j \in Issues : episode'[j].open => episode[j].open
    BY <1>1, <2>1 DEF Closed
  <2>4. QED
    BY <2>2, <2>3 DEF Ends
<1>3. obs \in [Obs -> Observation]
  BY DEF IdTypeOK
<1>4. /\ obs' \in [Obs -> Observation]
      /\ \A o \in Obs :
            /\ obs'[o].identity = obs[o].identity
            /\ obs'[o].at = obs[o].at /\ obs'[o].keys = obs[o].keys
            /\ obs'[o].aside = obs[o].aside
            /\ obs[o].resolvedSince \subseteq obs'[o].resolvedSince
            /\ obs[o].identity # None => i \in obs'[o].resolvedSince
  BY <1>1, <1>3 DEF Observation
<1>5. QED
  BY <1>1, <1>1a, <1>2, <1>4, EndKeeps

(* A person archives an issue or takes it out again, or its fix is merged.  *)
LEMMA LeavesKeeps ==
  ASSUME IdInv, NEW i \in Issues, PersonArchives(i) \/ PersonUnarchives(i) \/ PRMerged(i)
  PROVE  IdInv'
<1> USE DEF IdInv
<1>1. /\ UNCHANGED <<obs, alias, losers, conflicts, inHand, txn>>
      /\ issue[i].status # None
      /\ changes' \in 0..MaxChanges
  BY FingerprintsAssumption
     DEF PersonArchives, PersonUnarchives, PRMerged, Change, IdTypeOK, None
<1>2. Ends(i) /\ (Quiet(i)' => Quiet(i))
  <2>1. /\ issue \in [Issues -> Issue] /\ episode \in [Issues -> [seq : Nat, open : BOOLEAN]]
        /\ issue[i].status \in Statuses /\ issue[i].saved \in Statuses
    BY DEF IdTypeOK, Issue
  <2>2. CASE PersonArchives(i)
    <3>1. /\ issue' = [issue EXCEPT ![i].status = "archived", ![i].saved = issue[i].status]
          /\ episode' = episode
      BY <2>2 DEF PersonArchives
    <3>2. /\ issue' \in [Issues -> Issue]
          /\ \A j \in Issues : j # i => issue'[j] = issue[j]
          /\ issue'[i].count = issue[i].count
          /\ issue'[i].status = "archived" /\ issue'[i].saved = issue[i].status
      <4> DEFINE r == [issue[i] EXCEPT !.status = "archived", !.saved = issue[i].status]
      <4>1. issue \in [Issues -> Issue] /\ issue[i] \in Issue
        BY <2>1
      <4>2. /\ r \in Issue /\ r.count = issue[i].count
            /\ r.status = "archived" /\ r.saved = issue[i].status
        BY <2>1, <4>1 DEF Issue, Statuses
      <4>3. issue' = [issue EXCEPT ![i] = r]
        BY <3>1
      <4> HIDE DEF r
      <4>4. QED
        BY <4>1, <4>2, <4>3
    <3>3. QED
      BY <2>1, <3>1, <3>2 DEF Ends, Quiet
  <2>3. CASE PersonUnarchives(i)
    <3>1. /\ issue' = [issue EXCEPT ![i].status = issue[i].saved, ![i].saved = None]
          /\ episode' = [episode EXCEPT ![i] = Closed(episode[i])] \/ episode' = episode
          /\ issue[i].status = "archived"
      BY <2>1, <2>3 DEF PersonUnarchives
    <3>2. /\ issue' \in [Issues -> Issue]
          /\ \A j \in Issues : j # i => issue'[j] = issue[j]
          /\ issue'[i].count = issue[i].count
          /\ issue'[i].status = issue[i].saved /\ issue'[i].saved = None
      <4> DEFINE r == [issue[i] EXCEPT !.status = issue[i].saved, !.saved = None]
      <4>1. issue \in [Issues -> Issue] /\ issue[i] \in Issue
        BY <2>1
      <4>2. r \in Issue /\ r.count = issue[i].count /\ r.status = issue[i].saved /\ r.saved = None
        BY <3>1, <4>1 DEF Issue, Statuses
      <4>3. issue' = [issue EXCEPT ![i] = r]
        BY <3>1
      <4> HIDE DEF r
      <4>4. QED
        BY <4>1, <4>2, <4>3
    <3>3. /\ episode' \in [Issues -> [seq : Nat, open : BOOLEAN]]
          /\ \A j \in Issues : /\ episode'[j].seq = episode[j].seq
                               /\ episode'[j].open => episode[j].open
      <4> DEFINE e == Closed(episode[i])
      <4>1. episode[i] \in [seq : Nat, open : BOOLEAN]
        BY <2>1
      <4>2. e \in [seq : Nat, open : BOOLEAN] /\ e.seq = episode[i].seq /\ e.open = FALSE
        BY <4>1 DEF Closed
      <4> HIDE DEF e
      <4>3. CASE episode' = [episode EXCEPT ![i] = e]
        BY <2>1, <4>2, <4>3
      <4>4. CASE episode' = episode
        BY <2>1, <4>4
      <4>5. QED
        BY <3>1, <4>3, <4>4 DEF e
    <3>4. QED
      BY <3>1, <3>2, <3>3 DEF Ends, Quiet, None
  <2>4. CASE PRMerged(i)
    <3>1. PICK late \in BOOLEAN : issue' = [issue EXCEPT ![i].status = "merged", ![i].loud = late]
      BY <2>4 DEF PRMerged
    <3>2. /\ issue' \in [Issues -> Issue]
          /\ \A j \in Issues : j # i => issue'[j] = issue[j]
          /\ issue'[i].count = issue[i].count /\ issue'[i].status = "merged"
      BY <2>1, <3>1 DEF Issue, Statuses
    <3>3. episode' = episode
      BY <2>4 DEF PRMerged
    <3>4. QED
      BY <2>1, <3>2, <3>3 DEF Ends, Quiet
  <2>5. QED
    BY <2>2, <2>3, <2>4
<1>3. obs' \in [Obs -> Observation]
  BY <1>1 DEF IdTypeOK
<1>4. \A o \in Obs :
         /\ obs'[o].identity = obs[o].identity
         /\ obs'[o].at = obs[o].at /\ obs'[o].keys = obs[o].keys
         /\ obs'[o].aside = obs[o].aside
         /\ obs[o].resolvedSince \subseteq obs'[o].resolvedSince
  BY <1>1
<1>5. QED
  BY <1>1, <1>2, <1>3, <1>4, EndKeeps

(* Rounds are closed, never taken back. *)
LEMMA CloseKeeps ==
  ASSUME IdInv, CloseResolvedEpisodes
  PROVE  IdInv'
<1> USE DEF IdInv
<1>1. /\ UNCHANGED <<obs, alias, issue, losers, conflicts, inHand, txn, changes>>
      /\ episode' = [i \in Issues |->
            IF issue[i].status \in {"resolved", "merged", "archived"}
            THEN Closed(episode[i]) ELSE episode[i]]
  BY DEF CloseResolvedEpisodes
<1>2. /\ episode' \in [Issues -> [seq : Nat, open : BOOLEAN]]
      /\ \A i \in Issues : episode'[i].seq = episode[i].seq /\ (episode'[i].open => episode[i].open)
  BY <1>1 DEF IdTypeOK, Closed
<1>3. IdTypeOK'
  BY <1>1, <1>2 DEF IdTypeOK
<1>4. SettledIsAttached' /\ InHandIsCaptured' /\ LocksExclude'
      /\ OneIssuePerFingerprint' /\ QuietBeforeArchive'
  BY <1>1 DEF SettledIsAttached, InHandIsCaptured, LocksExclude,
              OneIssuePerFingerprint, QuietBeforeArchive, Quiet
<1>5. IssuesAreWhole'
  BY <1>1, <1>2 DEF IssuesAreWhole
<1>6. CountsAreReal'
  BY <1>1 DEF CountsAreReal, Attached
<1>7. RoundExists'
  <2>1. \A o \in Obs : obs[o].at # Nowhere => obs[o].at.issue \in Issues
    BY DEF SettledIsAttached
  <2>2. QED
    BY <1>1, <1>2, <2>1 DEF RoundExists
<1>8. QED
  BY <1>3, <1>4, <1>5, <1>6, <1>7

(* A confirmed merge moves the aliases and the observations of the loser    *)
(* together, and a settlement that has read the loser will be refused.      *)
LEMMA MergeKeeps ==
  ASSUME IdInv, NEW w \in Issues, NEW l \in Issues, ConfirmMerge(w, l)
  PROVE  IdInv'
<1> USE DEF IdInv
<1> DEFINE e == IF issue[w].status = "resolved" THEN episode[w] ELSE Opened(episode[w])
           mooted == {c \in conflicts : c[2] = {w, l}}
           Again(o) == obs[o].identity = "conflict" /\ \E c \in mooted : c[1] = o
<1>1. /\ w # l /\ issue[w].status \notin {None, "merged"}
      /\ issue[l].status \notin {None, "merged"}
      /\ alias' = [f \in Fingerprints |-> IF alias[f] = l THEN w ELSE alias[f]]
      /\ \E late \in LoudAfter(w) :
           issue' = [issue EXCEPT ![w].count = Recounted(w, l), ![w].loud = late,
                                  ![l].status = "merged"]
      /\ episode' = [episode EXCEPT ![w] = e, ![l] = Closed(episode[l])]
      /\ conflicts' = conflicts \ mooted
      /\ losers' = losers \cup {l}
      /\ UNCHANGED <<inHand, txn>>
  <2>1. episode \in [Issues -> [seq : Nat, open : BOOLEAN]]
    BY DEF IdTypeOK
  <2>2. QED
    BY <2>1 DEF ConfirmMerge
<1>1a. changes' \in 0..MaxChanges
  BY FingerprintsAssumption DEF ConfirmMerge, Change, IdTypeOK
<1>2. obs' = [o \in Obs |->
         IF Again(o) THEN [MovedTo(w, l, e)[o] EXCEPT !.identity = "pending"] ELSE MovedTo(w, l, e)[o]]
  BY DEF ConfirmMerge
<1>3. losers \subseteq Issues
  BY DEF IdTypeOK
<1>4. /\ e \in [seq : Nat, open : BOOLEAN]
      /\ e.seq > 0 /\ e.seq >= episode[w].seq
  <2>1. episode[w] \in [seq : Nat, open : BOOLEAN]
    BY DEF IdTypeOK
  <2>2. CASE issue[w].status = "resolved"
    BY <1>1, <2>1, <2>2 DEF IssuesAreWhole
  <2>3. CASE issue[w].status # "resolved"
    BY <2>1, <2>3 DEF Opened, IssuesAreWhole
  <2>4. QED
    BY <2>2, <2>3
<1>5. /\ obs' \in [Obs -> Observation]
      /\ \A o \in Obs : obs'[o].keys = obs[o].keys
      /\ \A o \in Obs : obs'[o].identity = IF Again(o) THEN "pending" ELSE obs[o].identity
      /\ \A o \in Obs : IF obs[o].at.issue = l
                        THEN obs'[o].at.issue = w /\ obs'[o].at.round = e.seq /\ obs'[o].aside
                        ELSE obs'[o].at = obs[o].at /\ obs'[o].aside = obs[o].aside
      /\ \A o \in Obs : obs'[o].resolvedSince = obs[o].resolvedSince
  <2> DEFINE a == [issue |-> w, round |-> e.seq]
  <2>1. a \in Episodes /\ a.issue = w /\ a.round = e.seq
    BY <1>4 DEF Episodes
  <2>2. obs \in [Obs -> Observation]
    BY DEF IdTypeOK
  <2>3. \A o \in Obs : MovedTo(w, l, e)[o] =
          IF obs[o].at.issue = l THEN [obs[o] EXCEPT !.at = a, !.aside = TRUE] ELSE obs[o]
    BY DEF MovedTo, Attached
  <2> HIDE DEF a, e
  <2>4. ASSUME NEW o \in Obs
        PROVE  /\ MovedTo(w, l, e)[o] \in Observation
               /\ MovedTo(w, l, e)[o].keys = obs[o].keys
               /\ MovedTo(w, l, e)[o].identity = obs[o].identity
               /\ IF obs[o].at.issue = l
                  THEN MovedTo(w, l, e)[o].at = a /\ MovedTo(w, l, e)[o].aside
                  ELSE /\ MovedTo(w, l, e)[o].at = obs[o].at
                       /\ MovedTo(w, l, e)[o].aside = obs[o].aside
               /\ MovedTo(w, l, e)[o].resolvedSince = obs[o].resolvedSince
    <3>1. obs[o] \in Observation
      BY <2>2
    <3>2. CASE obs[o].at.issue # l
      BY <2>3, <3>1, <3>2
    <3>3. CASE obs[o].at.issue = l
      <4>1. MovedTo(w, l, e)[o] = [obs[o] EXCEPT !.at = a, !.aside = TRUE]
        BY <2>3, <3>3
      <4>2. QED
        BY <2>1, <3>1, <3>3, <4>1 DEF Observation
    <3>4. QED
      BY <3>2, <3>3
  <2> HIDE DEF Again
  <2>5. ASSUME NEW o \in Obs
        PROVE  /\ obs'[o] \in Observation
               /\ obs'[o].keys = obs[o].keys
               /\ obs'[o].identity = IF Again(o) THEN "pending" ELSE obs[o].identity
               /\ IF obs[o].at.issue = l
                  THEN obs'[o].at = a /\ obs'[o].aside
                  ELSE obs'[o].at = obs[o].at /\ obs'[o].aside = obs[o].aside
               /\ obs'[o].resolvedSince = obs[o].resolvedSince
    <3> DEFINE m == MovedTo(w, l, e)[o]
    <3>1. obs'[o] = IF Again(o) THEN [m EXCEPT !.identity = "pending"] ELSE m
      BY <1>2
    <3>2. /\ m \in Observation /\ m.keys = obs[o].keys /\ m.identity = obs[o].identity
          /\ IF obs[o].at.issue = l THEN m.at = a /\ m.aside
                                    ELSE m.at = obs[o].at /\ m.aside = obs[o].aside
          /\ m.resolvedSince = obs[o].resolvedSince
      BY <2>4
    <3> HIDE DEF m
    <3>3. QED
      BY <3>1, <3>2 DEF Observation
  <2>6. obs' \in [Obs -> Observation]
    BY <1>2, <2>5
  <2>7. QED
    BY <2>1, <2>5, <2>6
<1>6. /\ issue' \in [Issues -> Issue]
      /\ issue'[w].count = Recounted(w, l) /\ issue'[l].status = "merged"
      /\ \A i \in Issues : i # w => issue'[i].count = issue[i].count
      /\ \A i \in Issues : i # l => /\ issue'[i].status = issue[i].status
                                 /\ issue'[i].saved = issue[i].saved
  <2>1. Recounted(w, l) \in Nat
    <3>1. IsFiniteSet(Attached(w) \cup Attached(l))
      BY FS_Subset, FingerprintsAssumption DEF Attached
    <3>2. QED
      BY <3>1, FS_CardinalityType DEF Recounted
  <2>2. issue \in [Issues -> Issue] /\ LoudAfter(w) \subseteq BOOLEAN
    BY DEF IdTypeOK, Issue, LoudAfter
  <2>3. PICK late \in BOOLEAN :
          issue' = [issue EXCEPT ![w].count = Recounted(w, l), ![w].loud = late,
                                 ![l].status = "merged"]
    BY <1>1, <2>2
  <2> DEFINE n == Recounted(w, l)
             rw == [issue[w] EXCEPT !.count = n, !.loud = late]
             rl == [issue[l] EXCEPT !.status = "merged"]
  <2>4. /\ rw \in Issue /\ rl \in Issue
        /\ rw.count = n /\ rl.status = "merged" /\ rl.count = issue[l].count
        /\ rw.status = issue[w].status /\ rw.saved = issue[w].saved
    BY <2>1, <2>2 DEF Issue, Statuses
  <2>5. issue' = [issue EXCEPT ![w] = rw, ![l] = rl]
    <3> HIDE DEF n
    <3>1. issue' = [issue EXCEPT ![w].count = n, ![w].loud = late, ![l].status = "merged"]
      BY <2>3 DEF n
    <3>2. QED
      BY <1>1, <2>2, <3>1
  <2>6. n = Recounted(w, l)
    OBVIOUS
  <2> HIDE DEF n, rw, rl
  <2>7. issue'[w] = rw /\ issue'[l] = rl /\ \A i \in Issues \ {w, l} : issue'[i] = issue[i]
    BY <1>1, <2>2, <2>5
  <2>8. QED
    BY <2>2, <2>4, <2>5, <2>6, <2>7
<1>7. /\ episode' \in [Issues -> [seq : Nat, open : BOOLEAN]]
      /\ \A i \in Issues : episode'[i].seq >= episode[i].seq
      /\ episode'[w] = e
      /\ \A i \in Issues : i # w => episode'[i].seq = episode[i].seq /\ (episode'[i].open => episode[i].open)
  <2>1. episode \in [Issues -> [seq : Nat, open : BOOLEAN]]
    BY DEF IdTypeOK
  <2> DEFINE c == Closed(episode[l])
  <2>2. /\ c \in [seq : Nat, open : BOOLEAN] /\ c.seq = episode[l].seq /\ ~c.open
        /\ episode' = [episode EXCEPT ![w] = e, ![l] = c]
    BY <1>1, <2>1 DEF Closed
  <2> HIDE DEF e, c
  <2>3. /\ episode'[w] = e /\ episode'[l] = c
        /\ \A i \in Issues : i \notin {w, l} => episode'[i] = episode[i]
    BY <1>1, <2>1, <2>2
  <2>4. episode' \in [Issues -> [seq : Nat, open : BOOLEAN]]
    BY <1>4, <2>1, <2>2
  <2>5. \A i \in Issues : i # w => episode'[i].seq = episode[i].seq /\ (episode'[i].open => episode[i].open)
    BY <2>2, <2>3
  <2>6. \A i \in Issues : episode'[i].seq >= episode[i].seq
    <3>1. \A i \in Issues : episode[i].seq \in Nat
      BY <2>1
    <3>2. QED
      BY <1>4, <2>3, <2>5, <3>1
  <2>7. QED
    BY <2>3, <2>4, <2>5, <2>6
<1> HIDE DEF e, mooted
<1>8. \A o \in Obs : Again(o) => obs[o].identity = "conflict"
  OBVIOUS
<1>8a. ASSUME NEW o \in Obs, obs[o].identity = "settled"
       PROVE  obs[o].at.issue \in Issues
  BY <1>8a DEF SettledIsAttached
<1>8b. ASSUME NEW o \in Obs, obs[o].identity # "settled"
       PROVE  obs[o].at = Nowhere /\ obs[o].at.issue # l
  BY <1>8b, NoneAssumption DEF SettledIsAttached, Nowhere
<1>9. IdTypeOK'
  <2>1. alias' \in [Fingerprints -> Issues \cup {None}]
    BY <1>1 DEF IdTypeOK
  <2>2. losers' \subseteq Issues /\ conflicts' \subseteq (Obs \X SUBSET Issues)
    BY <1>1, <1>3 DEF IdTypeOK
  <2>3. QED
    BY <1>1, <1>1a, <1>5, <1>6, <1>7, <2>1, <2>2 DEF IdTypeOK
<1> HIDE DEF Again
<1>10. SettledIsAttached'
  <2>1. ASSUME NEW o \in Obs
        PROVE  IF obs'[o].identity = "settled" THEN obs'[o].at.issue \in Issues
                                               ELSE obs'[o].at = Nowhere
    <3>1. CASE obs[o].identity = "settled"
      <4>1. ~Again(o) /\ obs'[o].identity = "settled" /\ obs[o].at.issue \in Issues
        BY <1>5, <1>8, <1>8a, <3>1
      <4>2. obs'[o].at.issue \in Issues
        BY <1>5, <4>1
      <4>3. QED
        BY <4>1, <4>2
    <3>2. CASE obs[o].identity # "settled"
      <4>1. obs[o].at = Nowhere /\ obs[o].at.issue # l
        BY <1>8b, <3>2
      <4>2. obs'[o].identity # "settled"
        BY <1>5, <3>2
      <4>3. obs'[o].at = Nowhere
        BY <1>5, <4>1
      <4>4. QED
        BY <4>2, <4>3
    <3>3. QED
      BY <3>1, <3>2
  <2>2. QED
    BY <2>1 DEF SettledIsAttached
<1>11. InHandIsCaptured'
  <2>1. /\ \A s \in Settlers : inHand[s] \subseteq Obs
        /\ \A s \in Settlers : txn[s] # NoTxn => txn[s].obs \in Obs
    BY DEF IdTypeOK
  <2>2. QED
    BY <1>1, <1>5, <1>8, <2>1 DEF InHandIsCaptured, None
<1>12. LocksExclude'
  BY <1>1 DEF LocksExclude
<1>14. IssuesAreWhole'
  <2>1. ASSUME NEW i \in Issues, issue'[i].status # None \/ episode'[i].open
        PROVE  episode'[i].seq > 0
    <3>1. CASE i = w
      BY <1>4, <1>7, <3>1
    <3>2. CASE i # w
      BY <1>1, <1>6, <1>7, <2>1, <3>2 DEF IssuesAreWhole
    <3>3. QED
      BY <3>1, <3>2
  <2>2. QED
    BY <2>1 DEF IssuesAreWhole
<1>15. OneIssuePerFingerprint'
  <2>1. ASSUME NEW o \in Obs, obs'[o].identity = "settled"
        PROVE  \A f \in obs'[o].keys : alias'[f] = obs'[o].at.issue
    <3>1. /\ obs[o].identity = "settled" /\ obs'[o].keys = obs[o].keys
          /\ \A f \in obs[o].keys : f \in Fingerprints /\ alias[f] = obs[o].at.issue
      BY <1>5, <1>8, <2>1 DEF OneIssuePerFingerprint, IdTypeOK, Observation
    <3>2. CASE obs[o].at.issue = l
      BY <1>1, <1>5, <3>1, <3>2
    <3>3. CASE obs[o].at.issue # l
      BY <1>1, <1>5, <3>1, <3>3
    <3>4. QED
      BY <3>2, <3>3
  <2>2. QED
    BY <2>1 DEF OneIssuePerFingerprint
<1>16. CountsAreReal'
  <2>1. Attached(w)' = Attached(w) \cup Attached(l)
    BY <1>1, <1>5 DEF Attached
  <2>2. \A i \in Issues : i \notin {w, l} => Attached(i)' = Attached(i)
    BY <1>5 DEF Attached
  <2>3. ASSUME NEW i \in Issues \ losers'
        PROVE  issue'[i].count = Cardinality(Attached(i)')
    <3>1. i \in Issues /\ i \notin losers /\ i # l
      BY <1>1
    <3>2. CASE i = w
      BY <1>6, <2>1, <3>2 DEF Recounted
    <3>3. CASE i # w
      <4>1. issue'[i].count = issue[i].count /\ Attached(i)' = Attached(i)
        BY <1>6, <2>2, <3>1, <3>3
      <4>2. issue[i].count = Cardinality(Attached(i))
        BY <3>1 DEF CountsAreReal
      <4>3. QED
        BY <4>1, <4>2
    <3>4. QED
      BY <3>2, <3>3
  <2>4. QED
    BY <2>3 DEF CountsAreReal
<1>17. RoundExists'
  <2>1. ASSUME NEW o \in Obs, obs'[o].at # Nowhere
        PROVE  obs'[o].at.round \in 1..episode'[obs'[o].at.issue].seq
    <3>1. CASE obs[o].at.issue = l
      BY <1>4, <1>5, <1>7, <3>1
    <3>2. CASE obs[o].at.issue # l
      <4>1. obs'[o].at = obs[o].at /\ obs[o].at.issue \in Issues
        BY <1>5, <1>8a, <1>8b, <2>1, <3>2
      <4>2. /\ obs[o].at.round \in 1..episode[obs[o].at.issue].seq
            /\ episode[obs[o].at.issue].seq \in Nat /\ episode'[obs[o].at.issue].seq \in Nat
        BY <1>7, <2>1, <4>1 DEF RoundExists, IdTypeOK
      <4>3. episode'[obs[o].at.issue].seq >= episode[obs[o].at.issue].seq
        BY <1>7, <4>1
      <4> DEFINE r == obs[o].at.round
                 old == episode[obs[o].at.issue].seq
                 new == episode'[obs[o].at.issue].seq
      <4>4. r \in 1..old /\ old \in Nat /\ new \in Nat /\ new >= old
        BY <4>2, <4>3
      <4>5. obs'[o].at.round = r /\ episode'[obs'[o].at.issue].seq = new
        BY <4>1
      <4> HIDE DEF r, old, new
      <4>6. r \in 1..new
        BY <4>4
      <4>7. QED
        BY <4>5, <4>6
    <3>3. QED
      BY <3>1, <3>2
  <2>2. QED
    BY <2>1 DEF RoundExists
<1>18. QuietBeforeArchive'
  <2>1. ASSUME NEW o \in Obs, NEW i \in Issues,
               obs'[o].at.issue = i, ~obs'[o].aside, Quiet(i)'
        PROVE  i \in obs'[o].resolvedSince
    <3>1. i # l /\ Quiet(i)
      BY <1>6, <2>1 DEF Quiet
    <3>2. obs[o].at.issue = i /\ ~obs[o].aside
      BY <1>5, <2>1
    <3>3. QED
      BY <1>5, <3>1, <3>2 DEF QuietBeforeArchive
  <2>2. QED
    BY <2>1 DEF QuietBeforeArchive
<1>19. QED
  BY <1>9, <1>10, <1>11, <1>12, <1>14, <1>15, <1>16, <1>17, <1>18

-----------------------------------------------------------------------------
(* Every step keeps the inductive invariant. *)
LEMMA IdStep == IdInv /\ [IdNext]_ids => IdInv'
<1> SUFFICES ASSUME IdInv, [IdNext]_ids PROVE IdInv'
  OBVIOUS
<1>1. CASE UNCHANGED ids
  <2>1. UNCHANGED <<obs, alias, issue, episode, losers, conflicts, inHand, txn, changes>>
    BY <1>1 DEF ids
  <2>2. /\ obs' \in [Obs -> Observation] /\ inHand' \in [Settlers -> SUBSET Obs]
        /\ changes' \in 0..MaxChanges
        /\ \A s \in Settlers : txn[s] = NoTxn \/ txn[s].obs \in inHand'[s]
        /\ \A s \in Settlers : \A o \in inHand'[s] : obs'[o].identity # None
    BY <2>1 DEF IdInv, IdTypeOK, InHandIsCaptured
  <2>3. QED
    BY <2>1, <2>2, WaitingKeeps DEF Waits
<1>2. ASSUME NEW o \in Obs,
             \/ CaptureError(o)
             \/ ResolveStarts(o) \/ ResolveEnds(o)
             \/ ResolveFails(o) \/ ResolveDies(o)
             \/ WakePendingStackResolutions(o)
             \/ Sweep(o) \/ ResetAbandoned(o) \/ ResetHeld(o)
      PROVE  IdInv'
  BY <1>2, ResolveKeeps, LeaseKeeps
<1>3. ASSUME NEW s \in Settlers, SettlerDies(s) \/ SettleRefused(s)
      PROVE  IdInv'
  <2>1. \E H \in SUBSET inHand[s] :
          /\ txn' = [txn EXCEPT ![s] = NoTxn] /\ inHand' = [inHand EXCEPT ![s] = H]
          /\ changes' \in 0..MaxChanges
          /\ UNCHANGED <<obs, alias, issue, episode, losers, conflicts>>
    <3>1. CASE SettlerDies(s)
      <4>1. {} \in SUBSET inHand[s]
        OBVIOUS
      <4>2. changes' \in 0..MaxChanges
        BY <3>1, FingerprintsAssumption DEF SettlerDies, Change, IdInv, IdTypeOK
      <4>3. QED
        BY <3>1, <4>1, <4>2 DEF SettlerDies
    <3>2. CASE SettleRefused(s)
      <4>1. inHand[s] \ {txn[s].obs} \in SUBSET inHand[s]
        OBVIOUS
      <4>2. QED
        BY <3>2, <4>1 DEF SettleRefused, Ended, IdInv, IdTypeOK
    <3>3. QED
      BY <1>3, <3>1, <3>2
  <2>2. QED
    BY <2>1, GivingUpKeeps
<1>4. ASSUME NEW s \in Settlers,
             \/ TickClaims(s) \/ \E o \in Obs : SettleReads(s, o)
             \/ SettleConflicts(s) \/ SettleCommits(s)
      PROVE  IdInv'
  BY <1>4, TickKeeps, ReadKeeps, ConflictKeeps, CommitKeeps
<1>5. ASSUME NEW i \in Issues,
             \/ PersonResolves(i) \/ PersonArchives(i) \/ PersonUnarchives(i)
             \/ PRMerged(i) \/ ResolveSilentMerged(i)
             \/ \E l \in Issues : ConfirmMerge(i, l)
      PROVE  IdInv'
  BY <1>5, ResolvesKeeps, LeavesKeeps, MergeKeeps
<1>6. CASE CloseResolvedEpisodes
  BY <1>6, CloseKeeps
<1>7. QED
  BY <1>1, <1>2, <1>3, <1>4, <1>5, <1>6 DEF IdNext, IdSteps, Settling

(* What the run checks of settlement holds for any number of observations,  *)
(* fingerprints, issues and loops: one issue owns a fingerprint and all     *)
(* that settled under it, its count is real, rounds exist, and no           *)
(* regression is swallowed by a round that was resolved.                    *)
THEOREM IdentityAgreesHolds == IdSpec => []IdentityAgrees
<1>1. IdInv => IdentityAgrees
  BY DEF IdInv, IdentityAgrees, QuietBeforeArchive, Quiet, ResolvedIsQuiet
<1>2. QED
  BY <1>1, IdStarts, IdStep, PTL DEF IdSpec

-----------------------------------------------------------------------------
(* Admission, composed with Identity. *)

(* What a round keeps beside its types: a signature has one stored verdict,  *)
(* a decision newer than all that was asked is not spent yet, and before the *)
(* first job nothing was asked; an investigation is a stored verdict's.      *)
RoundSound(r) ==
    /\ r \in Round
    /\ \A s, t \in r.stored : s[1] = t[1] => s = t
    /\ r.credit >= 0
    /\ r.newer /\ r.outcome = "open_inquiry" => r.credit >= 1
    /\ r.jobs = 0 => r.job = None /\ (r.outcome = "open_inquiry" => r.newer)
    /\ r.investigation <=> \E s \in r.stored : s[2] = "investigate"

(* A place in the list of admissions that still counts is that of a round    *)
(* nobody has asked about since it was listed.                               *)
PlaceSound(i) ==
    tick.phase = "admitting" =>
        /\ tick.list[i] <= adm[i].jobs + 1
        /\ tick.list[i] > adm[i].jobs =>
             adm[i].job = None /\ adm[i].outcome = "open_inquiry" /\ adm[i].newer

AdmissionInv ==
    /\ IdInv
    /\ adm \in [Issues -> Round]
    /\ judged \in [Issues -> SUBSET Obs]
    /\ aged \subseteq {o \in Obs : obs[o].identity # None}
    /\ tick \in [phase : {"idle", "evaluating", "admitting"}, list : [Issues -> 0..MaxJobs]]
    /\ \A i \in Issues : RoundSound(adm[i]) /\ PlaceSound(i)

LEMMA UnitsCount == \A os \in SUBSET Obs : Affected(os) \in Units
<1> TAKE os \in SUBSET Obs
<1> DEFINE T == {User[o] : o \in os}
           f == [o \in os |-> User[o]]
<1>1. IsFiniteSet(os) /\ Cardinality(os) <= Cardinality(Obs)
    BY FingerprintsAssumption, FS_Subset
<1>2. f \in Surjection(os, T)
    BY DEF Surjection
<1>3. IsFiniteSet(T) /\ Cardinality(T) <= Cardinality(os)
    BY <1>1, <1>2, FS_Surjection
<1>4. Cardinality(T) \in Nat /\ Cardinality(os) \in Nat /\ Cardinality(Obs) \in Nat
    BY <1>1, <1>3, FingerprintsAssumption, FS_CardinalityType
<1>. QED BY <1>1, <1>3, <1>4 DEF Affected, Units

LEMMA OnIsCaptured ==
  ASSUME IdInv, NEW i \in Issues PROVE On(i) \subseteq {o \in Obs : obs[o].identity # None}
BY NoneAssumption DEF On, IdInv, SettledIsAttached, Nowhere, None

-----------------------------------------------------------------------------
(* The steps of a round. *)

LEMMA FreshIsSound == RoundSound(Fresh)
<1>1. 0 \in Units
    BY FS_CardinalityType, FingerprintsAssumption DEF Units
<1>. QED BY <1>1, AdmissionAssumption DEF RoundSound, Fresh, Round, None

LEMMA LapseKeeps ==
  ASSUME NEW r, RoundSound(r), NEW b \in BOOLEAN PROVE RoundSound([r EXCEPT !.lapsed = b])
BY DEF RoundSound, Round

LEMMA AnchorKeeps ==
  ASSUME NEW r, RoundSound(r) PROVE RoundSound([r EXCEPT !.anchored = TRUE])
BY DEF RoundSound, Round

LEMMA DecisionKeeps ==
  ASSUME NEW r, RoundSound(r), NEW out \in {"watch", "inactive", "open_inquiry"},
         NEW u \in Units, NEW n \in {0, 1}, out = "open_inquiry" => n = 1
  PROVE  RoundSound([r EXCEPT !.outcome = out, !.units = u, !.lapsed = FALSE, !.newer = TRUE,
                              !.credit = @ + n])
<1> DEFINE q == [r EXCEPT !.outcome = out, !.units = u, !.lapsed = FALSE, !.newer = TRUE,
                          !.credit = @ + n]
<1>1. r \in Round /\ r.credit \in Int /\ r.credit >= 0
    BY DEF RoundSound, Round
<1>2. r.credit + n \in Int /\ r.credit + n >= 0 /\ (out = "open_inquiry" => r.credit + n >= 1)
    BY <1>1
<1>3. q \in Round
    BY <1>1, <1>2 DEF Round
<1>4. /\ q.stored = r.stored /\ q.credit = r.credit + n /\ q.newer /\ q.outcome = out
      /\ q.jobs = r.jobs /\ q.job = r.job /\ q.investigation = r.investigation
    BY <1>1 DEF Round
<1> HIDE DEF q
<1>5. RoundSound(q)
    BY <1>2, <1>3, <1>4 DEF RoundSound
<1>. QED BY <1>5 DEF q

LEMMA AdmissionKeeps ==
  ASSUME NEW r, RoundSound(r), r.newer, r.outcome = "open_inquiry", r.jobs < MaxJobs
  PROVE  RoundSound([r EXCEPT !.anchored = TRUE, !.jobs = @ + 1, !.job = "pending", !.by = "auto",
                              !.newer = FALSE, !.credit = @ - 1])
<1> DEFINE q == [r EXCEPT !.anchored = TRUE, !.jobs = @ + 1, !.job = "pending", !.by = "auto",
                          !.newer = FALSE, !.credit = @ - 1]
<1>1. r \in Round /\ r.credit \in Int /\ r.credit >= 1 /\ r.jobs \in 0..MaxJobs
    BY DEF RoundSound, Round
<1>2. r.credit - 1 \in Int /\ r.credit - 1 >= 0 /\ r.jobs + 1 \in 0..MaxJobs /\ r.jobs + 1 # 0
    BY <1>1, AdmissionAssumption
<1>3. q \in Round
    BY <1>1, <1>2 DEF Round
<1>4. /\ q.stored = r.stored /\ q.credit = r.credit - 1 /\ ~q.newer
      /\ q.jobs = r.jobs + 1 /\ q.investigation = r.investigation
    BY <1>1 DEF Round
<1> HIDE DEF q
<1>5. RoundSound(q)
    BY <1>2, <1>3, <1>4 DEF RoundSound
<1>. QED BY <1>5 DEF q

LEMMA ReviewKeeps ==
  ASSUME NEW r, RoundSound(r), r.jobs < MaxJobs
  PROVE  RoundSound([r EXCEPT !.jobs = @ + 1, !.job = "pending", !.by = "human", !.newer = FALSE])
<1> DEFINE q == [r EXCEPT !.jobs = @ + 1, !.job = "pending", !.by = "human", !.newer = FALSE]
<1>1. r \in Round /\ r.jobs \in 0..MaxJobs
    BY DEF RoundSound, Round
<1>2. r.jobs + 1 \in 0..MaxJobs /\ r.jobs + 1 # 0
    BY <1>1, AdmissionAssumption
<1>3. q \in Round
    BY <1>1, <1>2 DEF Round
<1>4. /\ q.stored = r.stored /\ q.credit = r.credit /\ ~q.newer
      /\ q.jobs = r.jobs + 1 /\ q.investigation = r.investigation
    BY <1>1 DEF Round
<1> HIDE DEF q
<1>5. RoundSound(q)
    BY <1>2, <1>3, <1>4 DEF RoundSound
<1>. QED BY <1>5 DEF q

LEMMA JobKeeps ==
  ASSUME NEW r, RoundSound(r), r.job # None,
         NEW j \in {None, "pending", "claimed", "persisted"}, NEW u \in Units
  PROVE  /\ RoundSound([r EXCEPT !.job = j, !.newer = FALSE])
         /\ RoundSound([r EXCEPT !.job = j, !.newer = FALSE, !.read = u])
<1> DEFINE p == [r EXCEPT !.job = j, !.newer = FALSE]
           q == [r EXCEPT !.job = j, !.newer = FALSE, !.read = u]
<1>1. r \in Round /\ r.jobs # 0
    BY DEF RoundSound
<1>2. p \in Round /\ q \in Round
    BY <1>1 DEF Round
<1>3. /\ p.stored = r.stored /\ p.credit = r.credit /\ ~p.newer
      /\ p.jobs = r.jobs /\ p.investigation = r.investigation
      /\ q.stored = r.stored /\ q.credit = r.credit /\ ~q.newer
      /\ q.jobs = r.jobs /\ q.investigation = r.investigation
    BY <1>1 DEF Round
<1> HIDE DEF p, q
<1>4. RoundSound(p) /\ RoundSound(q)
    BY <1>1, <1>2, <1>3 DEF RoundSound
<1>. QED BY <1>4 DEF p, q

(* A verdict is stored once for its signature, and makes the investigation.  *)
LEMMA VerdictKeeps ==
  ASSUME NEW i \in Issues, adm \in [Issues -> Round], RoundSound(adm[i]), adm[i].job = "claimed",
         NEW verdict \in Verdicts
  PROVE  RoundSound([adm[i] EXCEPT !.job = "persisted",
           !.stored = IF Known(i) THEN @ ELSE @ \cup {<<Signature(i), verdict>>},
           !.asked = IF Known(i) THEN @ ELSE verdict,
           !.askedUnits = IF Known(i) THEN @ ELSE adm[i].read,
           !.investigation = @ \/ Effective(i, verdict) = "investigate"])
<1> DEFINE r == adm[i]
           stored == IF Known(i) THEN r.stored ELSE r.stored \cup {<<Signature(i), verdict>>}
           asked == IF Known(i) THEN r.asked ELSE verdict
           units == IF Known(i) THEN r.askedUnits ELSE r.read
           has == r.investigation \/ Effective(i, verdict) = "investigate"
           q == [r EXCEPT !.job = "persisted", !.stored = stored, !.asked = asked,
                          !.askedUnits = units, !.investigation = has]
<1>1. r \in Round /\ r.jobs # 0
    BY DEF RoundSound, None
<1>2. Signature(i) \in Signatures
    BY <1>1, AdmissionAssumption DEF Signature, Signatures, Round
<1>3. stored \in SUBSET (Signatures \X Verdicts)
    BY <1>1, <1>2 DEF Round
<1>4. asked \in Verdicts \cup {None} /\ units \in Units
    BY <1>1 DEF Round
<1>5. has \in BOOLEAN
    OBVIOUS
<1>6. \A s, t \in stored : s[1] = t[1] => s = t
  <2>1. CASE Known(i)
      BY <2>1 DEF RoundSound
  <2>2. CASE ~Known(i)
    <3>1. \A s \in r.stored : s[1] # Signature(i)
      <4>1. \A s \in r.stored : s = <<s[1], s[2]>> /\ s[2] \in Verdicts
          BY <1>1 DEF Round
      <4>. QED BY <2>2, <4>1 DEF Known
    <3>2. \A s \in stored : s \in r.stored \/ s = <<Signature(i), verdict>>
        BY <2>2
    <3>3. <<Signature(i), verdict>>[1] = Signature(i)
        OBVIOUS
    <3>4. \A s, t \in r.stored : s[1] = t[1] => s = t
        BY DEF RoundSound
    <3> HIDE DEF stored
    <3> TAKE s, t \in stored
    <3>. QED BY <3>1, <3>2, <3>3, <3>4
  <2>. QED BY <2>1, <2>2
<1>7. has <=> \E s \in stored : s[2] = "investigate"
  <2>1. r.investigation <=> \E s \in r.stored : s[2] = "investigate"
      BY DEF RoundSound
  <2>2. CASE Known(i)
    <3>1. <<Signature(i), Effective(i, verdict)>> \in r.stored
        BY <2>2 DEF Known, Effective
    <3>2. <<Signature(i), Effective(i, verdict)>>[2] = Effective(i, verdict)
        OBVIOUS
    <3>. QED BY <2>1, <2>2, <3>1, <3>2
  <2>3. CASE ~Known(i)
    <3>1. has <=> r.investigation \/ verdict = "investigate"
        BY <2>3 DEF Effective
    <3>2. stored = r.stored \cup {<<Signature(i), verdict>>}
        BY <2>3
    <3>3. <<Signature(i), verdict>>[2] = verdict
        OBVIOUS
    <3> HIDE DEF stored, has
    <3>. QED BY <2>1, <3>1, <3>2, <3>3
  <2>. QED BY <2>2, <2>3
<1> HIDE DEF stored, asked, units, has
<1>8. q \in Round
    BY <1>1, <1>3, <1>4, <1>5 DEF Round
<1>9. /\ q.stored = stored /\ q.credit = r.credit /\ q.newer = r.newer /\ q.outcome = r.outcome
      /\ q.jobs = r.jobs /\ q.investigation = has
    BY <1>1 DEF Round
<1> HIDE DEF q
<1>10. RoundSound(q)
    BY <1>1, <1>6, <1>7, <1>8, <1>9 DEF RoundSound
<1>. QED BY <1>10 DEF q, r, stored, asked, units, has

-----------------------------------------------------------------------------
(* The steps of the system. *)

(* What was captured stays captured, whatever settles, merges or lapses.     *)
LEMMA CapturedStays ==
  ASSUME IdInv, IdNext, NEW o \in Obs, obs[o].identity # None
  PROVE  obs'[o].identity # None
<1>i. obs \in [Obs -> Observation]
    BY DEF IdInv, IdTypeOK
<1>1. ASSUME NEW p \in Obs,
             \/ CaptureError(p)
             \/ ResolveStarts(p) \/ ResolveEnds(p)
             \/ ResolveFails(p) \/ ResolveDies(p)
             \/ WakePendingStackResolutions(p)
             \/ Sweep(p) \/ ResetAbandoned(p) \/ ResetHeld(p)
      PROVE  obs'[o].identity # None
  <2>1. CASE CaptureError(p) \/ ResetAbandoned(p) \/ ResetHeld(p)
    <3>1. CASE CaptureError(p)
      BY <1>i, <3>1 DEF CaptureError, Observation, None
    <3>2. CASE ResetAbandoned(p)
      BY <1>i, <3>2 DEF ResetAbandoned, Observation, None
    <3>3. CASE ResetHeld(p)
      BY <1>i, <3>3 DEF ResetHeld, Observation, None
    <3>4. QED
      BY <2>1, <3>1, <3>2, <3>3
  <2>2. ASSUME NEW job, NEW resolution, Resolution(p, job, resolution)
        PROVE  obs'[o].identity = obs[o].identity
      BY <1>i, <2>2 DEF Resolution, Observation
  <2>. QED BY <1>1, <2>1, <2>2 DEF ResolveStarts, ResolveEnds, ResolveFails, ResolveDies,
         WakePendingStackResolutions, Sweep
<1>2. ASSUME NEW s \in Settlers, Settling(s) \/ SettlerDies(s)
      PROVE  obs'[o].identity # None
  <2>1. CASE TickClaims(s)
      BY <1>i, <2>1 DEF TickClaims, Observation, None
  <2>2. CASE SettleConflicts(s)
      BY <1>i, <2>2 DEF SettleConflicts, Observation, None
  <2>3. CASE SettleCommits(s)
      BY <1>i, <2>3 DEF SettleCommits, Observation, None
  <2>4. CASE obs' = obs
      BY <2>4
  <2>. QED BY <1>2, <2>1, <2>2, <2>3, <2>4 DEF Settling, SettlerDies, SettleReads, SettleRefused
<1>3. ASSUME NEW i \in Issues, PersonResolves(i) \/ ResolveSilentMerged(i)
      PROVE  obs'[o].identity # None
    BY <1>i, <1>3 DEF PersonResolves, ResolveSilentMerged, Resolves, Observation
<1>4. ASSUME NEW i \in Issues, NEW l \in Issues, ConfirmMerge(i, l)
      PROVE  obs'[o].identity # None
  <2>1. PICK e : obs'[o] \in {MovedTo(i, l, e)[o], [MovedTo(i, l, e)[o] EXCEPT !.identity = "pending"]}
      BY <1>4 DEF ConfirmMerge
  <2>2. MovedTo(i, l, e)[o] \in {obs[o], [obs[o] EXCEPT !.at = [issue |-> i, round |-> e.seq],
                                                        !.aside = TRUE]}
      BY DEF MovedTo
  <2>. QED BY <1>i, <2>1, <2>2 DEF Observation, None
<1>5. CASE obs' = obs
    BY <1>5
<1>. QED BY <1>1, <1>2, <1>3, <1>4, <1>5 DEF IdNext, IdSteps, PersonArchives, PersonUnarchives, PRMerged,
     CloseResolvedEpisodes

(* The parts of the composed step that are Identity's. *)
LEMMA IdentityMoves ==
  ASSUME AdmissionInv, \/ [IdNext]_ids
                       \/ Change /\ UNCHANGED <<obs, alias, issue, episode, losers, conflicts, inHand, txn>>
  PROVE  IdInv' /\ \A o \in Obs : obs[o].identity # None => obs'[o].identity # None
<1>i. IdInv
    BY DEF AdmissionInv
<1>1. CASE [IdNext]_ids
    BY <1>i, <1>1, IdStep, CapturedStays DEF ids
<1>2. CASE Change /\ UNCHANGED <<obs, alias, issue, episode, losers, conflicts, inHand, txn>>
  <2>1. /\ obs' \in [Obs -> Observation] /\ inHand' \in [Settlers -> SUBSET Obs]
        /\ changes' \in 0..MaxChanges
        /\ \A s \in Settlers : txn[s] = NoTxn \/ txn[s].obs \in inHand'[s]
        /\ \A s \in Settlers : \A o \in inHand'[s] : obs'[o].identity # None
      BY <1>i, <1>2, FingerprintsAssumption DEF IdInv, IdTypeOK, InHandIsCaptured, Change
  <2>2. UNCHANGED <<obs, alias, issue, episode, losers, conflicts, inHand, txn>>
      BY <1>2
  <2>3. IdInv'
      BY <1>i, <2>1, <2>2, WaitingKeeps DEF Waits
  <2>. QED BY <2>2, <2>3
<1>. QED BY <1>1, <1>2

(* A step of one round, and perhaps of its place in the list.               *)
LEMMA RoundMoves ==
  ASSUME AdmissionInv, IdInv', NEW i \in Issues, NEW q, RoundSound(q),
         adm' = [adm EXCEPT ![i] = q],
         \A o \in Obs : obs[o].identity # None => obs'[o].identity # None,
         aged' = aged, judged' \in [Issues -> SUBSET Obs],
         NEW n \in 0..MaxJobs, tick' = [tick EXCEPT !.list[i] = n],
         tick.phase = "admitting" =>
           /\ n <= q.jobs + 1
           /\ n > q.jobs => q.job = None /\ q.outcome = "open_inquiry" /\ q.newer
  PROVE  AdmissionInv'
<1> DEFINE list == [tick.list EXCEPT ![i] = n]
<1>1. /\ tick \in [phase : {"idle", "evaluating", "admitting"}, list : [Issues -> 0..MaxJobs]]
      /\ adm \in [Issues -> Round] /\ q \in Round
      /\ aged \subseteq {o \in Obs : obs[o].identity # None}
    BY DEF AdmissionInv, RoundSound
<1>2. list \in [Issues -> 0..MaxJobs] /\ list[i] = n /\ \A j \in Issues \ {i} : list[j] = tick.list[j]
    BY <1>1
<1>3. tick'.phase = tick.phase /\ tick'.list = list
      /\ tick' \in [phase : {"idle", "evaluating", "admitting"}, list : [Issues -> 0..MaxJobs]]
    BY <1>1, <1>2
<1>4. adm' \in [Issues -> Round] /\ adm'[i] = q /\ \A j \in Issues \ {i} : adm'[j] = adm[j]
    BY <1>1
<1>5. aged' \subseteq {o \in Obs : obs'[o].identity # None}
    BY <1>1
<1> HIDE DEF list
<1>6. ASSUME NEW j \in Issues PROVE RoundSound(adm[j])' /\ PlaceSound(j)'
  <2>1. CASE j = i
      BY <1>2, <1>3, <1>4, <2>1 DEF PlaceSound, RoundSound
  <2>2. CASE j # i
      BY <1>2, <1>3, <1>4, <2>2 DEF PlaceSound, RoundSound, AdmissionInv
  <2>. QED BY <2>1, <2>2
<1>. QED BY <1>3, <1>4, <1>5, <1>6 DEF AdmissionInv

(* The same, of a step that leaves the places alone. *)
LEMMA JobMoves ==
  ASSUME AdmissionInv, IdInv', NEW i \in Issues, NEW q, RoundSound(q),
         adm' = [adm EXCEPT ![i] = q],
         \A o \in Obs : obs[o].identity # None => obs'[o].identity # None,
         UNCHANGED <<judged, aged, tick>>,
         q.jobs >= adm[i].jobs, adm[i].job # None \/ q.jobs > adm[i].jobs
  PROVE  AdmissionInv'
<1>1. /\ tick \in [phase : {"idle", "evaluating", "admitting"}, list : [Issues -> 0..MaxJobs]]
      /\ adm[i] \in Round /\ q \in Round /\ PlaceSound(i)
      /\ judged' \in [Issues -> SUBSET Obs]
    BY DEF AdmissionInv, RoundSound
<1>2. tick.list[i] \in 0..MaxJobs /\ adm[i].jobs \in 0..MaxJobs /\ q.jobs \in 0..MaxJobs
    BY <1>1 DEF Round
<1>3. tick' = [tick EXCEPT !.list[i] = tick.list[i]]
    BY <1>1
<1>4. tick.phase = "admitting" => tick.list[i] <= q.jobs
    BY <1>1, <1>2, AdmissionAssumption DEF PlaceSound
<1>5. tick.phase = "admitting" =>
        /\ tick.list[i] <= q.jobs + 1
        /\ tick.list[i] > q.jobs => q.job = None /\ q.outcome = "open_inquiry" /\ q.newer
    BY <1>2, <1>4, AdmissionAssumption
<1>. QED BY <1>1, <1>2, <1>3, <1>5, RoundMoves

LEMMA IdentityKeeps ==
  ASSUME AdmissionInv, IdentityStep PROVE AdmissionInv'
<1> DEFINE new == {i \in Issues : episode'[i].seq # episode[i].seq}
           begun == {txn'[s].obs : s \in {x \in Settlers : txn'[x] # txn[x]}}
           list == [i \in Issues |-> IF i \in new THEN 0 ELSE tick.list[i]]
<1>1. IdInv' /\ \A o \in Obs : obs[o].identity # None => obs'[o].identity # None
    BY IdentityMoves DEF IdentityStep, IdNext
<1>2. /\ tick \in [phase : {"idle", "evaluating", "admitting"}, list : [Issues -> 0..MaxJobs]]
      /\ adm \in [Issues -> Round] /\ judged \in [Issues -> SUBSET Obs]
      /\ aged \subseteq {o \in Obs : obs[o].identity # None}
      /\ \A i \in Issues : RoundSound(adm[i]) /\ PlaceSound(i)
    BY DEF AdmissionInv
<1>3. /\ adm' = [i \in Issues |-> IF i \in new THEN Fresh ELSE adm[i]]
      /\ judged' = [i \in Issues |-> IF i \in new THEN {} ELSE judged[i] \ begun]
      /\ tick' = [tick EXCEPT !.list = list]
      /\ aged' = aged
    BY DEF IdentityStep
<1> HIDE DEF new, begun
<1>4. list \in [Issues -> 0..MaxJobs]
    BY <1>2, AdmissionAssumption
<1>5. /\ tick' \in [phase : {"idle", "evaluating", "admitting"}, list : [Issues -> 0..MaxJobs]]
      /\ tick'.phase = tick.phase /\ tick'.list = list
    BY <1>2, <1>3, <1>4
<1>6. Fresh \in Round /\ Fresh.jobs = 0
    BY FreshIsSound DEF RoundSound, Fresh
<1>7. adm' \in [Issues -> Round] /\ judged' \in [Issues -> SUBSET Obs]
    BY <1>2, <1>3, <1>6
<1>8. ASSUME NEW j \in Issues PROVE RoundSound(adm[j])' /\ PlaceSound(j)'
  <2>1. CASE j \in new
    <3>1. adm'[j] = Fresh /\ tick'.list[j] = 0
        BY <1>3, <1>5, <2>1
    <3>2. RoundSound(Fresh)
        BY FreshIsSound
    <3>. QED BY <1>6, <3>1, <3>2 DEF PlaceSound, RoundSound
  <2>2. CASE j \notin new
    <3>1. adm'[j] = adm[j] /\ tick'.list[j] = tick.list[j]
        BY <1>3, <1>5, <2>2
    <3>. QED BY <1>2, <1>5, <3>1 DEF PlaceSound, RoundSound
  <2>. QED BY <2>1, <2>2
<1>. QED BY <1>1, <1>2, <1>3, <1>5, <1>7, <1>8 DEF AdmissionInv

LEMMA WeekKeeps ==
  ASSUME AdmissionInv, Week PROVE AdmissionInv'
<1>1. IdInv' /\ obs' = obs
    BY IdentityMoves DEF Week
<1>2. \A i \in Issues : adm[i] \in Round /\ RoundSound(adm[i]) /\ PlaceSound(i)
    BY DEF AdmissionInv
<1>3. /\ adm' = [i \in Issues |-> [adm[i] EXCEPT !.lapsed = adm[i].outcome # None]]
      /\ aged' = {o \in Obs : obs[o].identity # None}
      /\ UNCHANGED <<judged, tick>>
    BY DEF Week
<1>4. ASSUME NEW j \in Issues PROVE RoundSound(adm'[j]) /\ PlaceSound(j)'
  <2> DEFINE r == adm[j]
             b == r.outcome # None
             q == [r EXCEPT !.lapsed = b]
  <2>1. b \in BOOLEAN
      OBVIOUS
  <2> HIDE DEF b
  <2>2. RoundSound(q)
      BY <1>2, <2>1, LapseKeeps
  <2>3. r \in Round
      BY <1>2
  <2>4. q.jobs = r.jobs /\ q.job = r.job /\ q.outcome = r.outcome /\ q.newer = r.newer
      BY <2>3 DEF Round
  <2>5. adm'[j] = q
      BY <1>3 DEF b
  <2> HIDE DEF q
  <2>. QED BY <1>2, <1>3, <2>2, <2>4, <2>5 DEF PlaceSound
<1>5. adm' \in [Issues -> Round]
    BY <1>3, <1>4 DEF RoundSound
<1>6. \A j \in Issues : RoundSound(adm[j])' /\ PlaceSound(j)'
    BY <1>4 DEF RoundSound
<1>. QED BY <1>1, <1>3, <1>5, <1>6 DEF AdmissionInv

-----------------------------------------------------------------------------
(* The steps of the dispatcher. *)

(* A step that makes a new list, or drops it. *)
LEMMA ListKeeps ==
  ASSUME AdmissionInv, IdInv', UNCHANGED <<adm, judged, aged>>,
         \A o \in Obs : obs[o].identity # None => obs'[o].identity # None,
         tick' \in [phase : {"idle", "evaluating", "admitting"}, list : [Issues -> 0..MaxJobs]],
         \A i \in Issues : PlaceSound(i)'
  PROVE  AdmissionInv'
<1>1. /\ adm \in [Issues -> Round] /\ judged \in [Issues -> SUBSET Obs]
      /\ aged \subseteq {o \in Obs : obs[o].identity # None}
      /\ \A i \in Issues : RoundSound(adm[i])
    BY DEF AdmissionInv
<1>2. \A i \in Issues : RoundSound(adm[i])'
    BY <1>1 DEF RoundSound
<1>. QED BY <1>1, <1>2 DEF AdmissionInv

LEMMA PhasesKeep ==
  ASSUME AdmissionInv, TickStarts \/ ListCandidates \/ TickEnds \/ TickAborts
  PROVE  AdmissionInv'
<1>1. IdInv' /\ \A o \in Obs : obs[o].identity # None => obs'[o].identity # None
  <2>1. CASE TickStarts
      BY <2>1, IdentityMoves DEF TickStarts, IdNext
  <2>2. CASE ListCandidates \/ TickEnds
      BY <2>2, IdentityMoves DEF ListCandidates, TickEnds
  <2>3. CASE TickAborts
      BY <2>3, IdentityMoves DEF TickAborts
  <2>. QED BY <2>1, <2>2, <2>3
<1>2. /\ tick \in [phase : {"idle", "evaluating", "admitting"}, list : [Issues -> 0..MaxJobs]]
      /\ \A i \in Issues : adm[i] \in Round /\ RoundSound(adm[i])
    BY DEF AdmissionInv
<1>3. UNCHANGED <<adm, judged, aged>>
    BY DEF TickStarts, ListCandidates, TickEnds, TickAborts
<1>4. 0 \in 0..MaxJobs /\ 1 \in 0..MaxJobs
    BY AdmissionAssumption
<1>5. CASE TickStarts
  <2> DEFINE list == [i \in Issues |-> IF Stale(i) /\ episode'[i].open THEN 1 ELSE 0]
  <2>1. list \in [Issues -> 0..MaxJobs]
      BY <1>4
  <2>2. tick' = [phase |-> "evaluating", list |-> list]
      BY <1>5 DEF TickStarts
  <2> HIDE DEF list
  <2>. QED BY <1>1, <1>3, <2>1, <2>2, ListKeeps DEF PlaceSound
<1>6. CASE ListCandidates
  <2> DEFINE list == [i \in Issues |-> IF Candidate(i) THEN adm[i].jobs + 1 ELSE 0]
  <2>1. ASSUME NEW i \in Issues
        PROVE  /\ list[i] \in 0..MaxJobs /\ list[i] <= adm[i].jobs + 1
               /\ list[i] > adm[i].jobs =>
                    adm[i].job = None /\ adm[i].outcome = "open_inquiry" /\ adm[i].newer
    <3>1. adm[i].jobs \in 0..MaxJobs
        BY <1>2 DEF Round
    <3>2. CASE Candidate(i)
      <4>1. adm[i].job = None /\ adm[i].jobs < MaxJobs /\ adm[i].outcome = "open_inquiry" /\ adm[i].newer
          BY <1>2, <3>2 DEF Candidate, Readmissible, RoundSound
      <4>. QED BY <3>1, <3>2, <4>1, AdmissionAssumption
    <3>3. CASE ~Candidate(i)
        BY <3>1, <3>3, AdmissionAssumption
    <3>. QED BY <3>2, <3>3
  <2>2. list \in [Issues -> 0..MaxJobs]
    <3> DEFINE n(i) == IF Candidate(i) THEN adm[i].jobs + 1 ELSE 0
    <3>1. \A i \in Issues : list[i] = n(i)
        OBVIOUS
    <3>2. \A i \in Issues : n(i) \in 0..MaxJobs
        BY <2>1, <3>1
    <3>3. list = [i \in Issues |-> n(i)]
        OBVIOUS
    <3> HIDE DEF list, n
    <3>. QED BY <3>2, <3>3
  <2>3. tick' = [phase |-> "admitting", list |-> list]
      BY <1>6 DEF ListCandidates
  <2> HIDE DEF list
  <2>4. \A i \in Issues : PlaceSound(i)'
      BY <1>3, <2>1, <2>3 DEF PlaceSound
  <2>5. tick' \in [phase : {"idle", "evaluating", "admitting"}, list : [Issues -> 0..MaxJobs]]
      BY <2>2, <2>3
  <2>. QED BY <1>1, <1>3, <2>4, <2>5, ListKeeps
<1>7. CASE TickEnds
  <2>1. tick' = [tick EXCEPT !.phase = "idle"]
      BY <1>7 DEF TickEnds
  <2>2. tick' \in [phase : {"idle", "evaluating", "admitting"}, list : [Issues -> 0..MaxJobs]]
        /\ tick'.phase = "idle"
      BY <1>2, <2>1
  <2>. QED BY <1>1, <1>3, <2>2, ListKeeps DEF PlaceSound
<1>8. CASE TickAborts
  <2>1. tick' = [phase |-> "idle", list |-> Nothing]
      BY <1>8 DEF TickAborts
  <2>2. tick' \in [phase : {"idle", "evaluating", "admitting"}, list : [Issues -> 0..MaxJobs]]
        /\ tick'.phase = "idle"
      BY <1>4, <2>1 DEF Nothing
  <2>. QED BY <1>1, <1>3, <2>2, ListKeeps DEF PlaceSound
<1>. QED BY <1>5, <1>6, <1>7, <1>8

(* A decision is appended with the evidence of its moment, before any place  *)
(* in the list of admissions exists.                                         *)
LEMMA EvaluateKeeps ==
  ASSUME AdmissionInv, NEW i \in Issues, Evaluate(i) PROVE AdmissionInv'
<1> DEFINE units == Affected(On(i) \ aged)
           out == Outcome(i)
           n == IF out = "open_inquiry" THEN 1 ELSE 0
           q == [adm[i] EXCEPT !.outcome = out, !.units = units, !.lapsed = FALSE, !.newer = TRUE,
                               !.credit = @ + n]
<1>1. IdInv' /\ \A o \in Obs : obs[o].identity # None => obs'[o].identity # None
    BY IdentityMoves DEF Evaluate
<1>2. /\ adm \in [Issues -> Round] /\ RoundSound(adm[i]) /\ judged \in [Issues -> SUBSET Obs]
      /\ 0 \in 0..MaxJobs
    BY AdmissionAssumption DEF AdmissionInv
<1>3. aged' = aged /\ tick' = [tick EXCEPT !.list[i] = 0] /\ tick.phase = "evaluating"
    BY DEF Evaluate
<1>4. units \in Units
  <2>1. On(i) \ aged \in SUBSET Obs
      BY DEF On
  <2>. QED BY <2>1, UnitsCount
<1>5. out \in {"watch", "inactive", "open_inquiry"}
    BY DEF Outcome
<1>6. n \in {0, 1} /\ (out = "open_inquiry" => n = 1)
    OBVIOUS
<1>7. RoundSound(q)
  <2> HIDE DEF units, out, n
  <2>. QED BY <1>2, <1>4, <1>5, <1>6, DecisionKeeps
<1>8. CASE adm[i].outcome # out \/ adm[i].units # units
  <2>1. judged' = [judged EXCEPT ![i] =
                     {o \in Obs : \/ obs[o].identity = "settled"
                                  \/ \E s \in Settlers : txn[s].obs = o}]
      BY <1>8 DEF Evaluate
  <2>2. judged' \in [Issues -> SUBSET Obs]
      BY <1>2, <2>1
  <2>3. adm' = [adm EXCEPT ![i] = q]
    <3>1. adm' = [adm EXCEPT ![i].outcome = out, ![i].units = units,
                     ![i].lapsed = FALSE, ![i].newer = TRUE, ![i].credit = @ + n]
        BY <1>8 DEF Evaluate
    <3> HIDE DEF units, out, n
    <3>. QED BY <1>2, <3>1
  <2> HIDE DEF q
  <2>. QED BY <1>1, <1>2, <1>3, <1>7, <2>2, <2>3, RoundMoves
<1>9. CASE ~(adm[i].outcome # out \/ adm[i].units # units)
  <2>1. adm' = adm /\ judged' = judged
      BY <1>9 DEF Evaluate
  <2>2. adm' = [adm EXCEPT ![i] = adm[i]]
      BY <1>2, <2>1
  <2>. QED BY <1>1, <1>2, <1>3, <2>1, <2>2, RoundMoves
<1>. QED BY <1>8, <1>9

(* An admission takes the place of its round, and a decision to pay for it.  *)
LEMMA AdmitKeeps ==
  ASSUME AdmissionInv, NEW i \in Issues, AdmitOne(i) PROVE AdmissionInv'
<1> DEFINE a == [adm[i] EXCEPT !.anchored = TRUE]
           q == [adm[i] EXCEPT !.anchored = TRUE, !.jobs = @ + 1, !.job = "pending", !.by = "auto",
                               !.newer = FALSE, !.credit = @ - 1]
<1>1. IdInv' /\ \A o \in Obs : obs[o].identity # None => obs'[o].identity # None
    BY IdentityMoves DEF AdmitOne
<1>2. /\ adm \in [Issues -> Round] /\ adm[i] \in Round /\ RoundSound(adm[i])
      /\ judged' \in [Issues -> SUBSET Obs]
      /\ PlaceSound(i) /\ tick.list[i] \in 0..MaxJobs /\ 0 \in 0..MaxJobs
    BY AdmissionAssumption DEF AdmissionInv, AdmitOne
<1>3. aged' = aged /\ tick' = [tick EXCEPT !.list[i] = 0] /\ tick.phase = "admitting"
    BY DEF AdmitOne
<1>4. adm[i].jobs \in 0..MaxJobs
    BY <1>2 DEF Round
<1>5. adm' \in {adm, [adm EXCEPT ![i].anchored = TRUE]} \/
      /\ adm[i].job = None /\ tick.list[i] > adm[i].jobs
      /\ adm' = [adm EXCEPT ![i].anchored = TRUE, ![i].jobs = @ + 1, ![i].job = "pending",
                            ![i].by = "auto", ![i].newer = FALSE, ![i].credit = @ - 1]
    BY DEF AdmitOne
<1>6. CASE adm' = adm
  <2>1. adm' = [adm EXCEPT ![i] = adm[i]]
      BY <1>2, <1>6
  <2>2. 0 <= adm[i].jobs + 1 /\ ~(0 > adm[i].jobs)
      BY <1>4, AdmissionAssumption
  <2>. QED BY <1>1, <1>2, <1>3, <2>1, <2>2, RoundMoves
<1>7. CASE adm' = [adm EXCEPT ![i].anchored = TRUE]
  <2>1. adm' = [adm EXCEPT ![i] = a] /\ RoundSound(a) /\ a.jobs = adm[i].jobs
      BY <1>2, <1>7, AnchorKeeps DEF Round
  <2>2. 0 <= a.jobs + 1 /\ ~(0 > a.jobs)
      BY <1>4, <2>1, AdmissionAssumption
  <2> HIDE DEF a
  <2>. QED BY <1>1, <1>2, <1>3, <2>1, <2>2, RoundMoves
<1>8. CASE /\ adm[i].job = None /\ tick.list[i] > adm[i].jobs
           /\ adm' = [adm EXCEPT ![i].anchored = TRUE, ![i].jobs = @ + 1, ![i].job = "pending",
                                 ![i].by = "auto", ![i].newer = FALSE, ![i].credit = @ - 1]
  <2>1. adm[i].newer /\ adm[i].outcome = "open_inquiry"
      BY <1>2, <1>3, <1>8 DEF PlaceSound
  <2>2. adm[i].jobs < MaxJobs
      BY <1>2, <1>4, <1>8, AdmissionAssumption
  <2>3. RoundSound(q)
      BY <1>2, <2>1, <2>2, AdmissionKeeps
  <2>4. adm' = [adm EXCEPT ![i] = q]
      BY <1>2, <1>8
  <2>5. q.jobs = adm[i].jobs + 1
      BY <1>2 DEF Round
  <2>6. 0 <= q.jobs + 1 /\ ~(0 > q.jobs)
      BY <1>4, <2>5, AdmissionAssumption
  <2> HIDE DEF q
  <2>. QED BY <1>1, <1>2, <1>3, <2>3, <2>4, <2>6, RoundMoves
<1>. QED BY <1>5, <1>6, <1>7, <1>8

-----------------------------------------------------------------------------
(* The steps of an inquiry. *)

LEMMA InquiryKeeps ==
  ASSUME AdmissionInv, NEW i \in Issues,
         RequestIssueReview(i) \/ InquiryFails(i) \/ Inquiry(i)
  PROVE  AdmissionInv'
<1>1. IdInv' /\ \A o \in Obs : obs[o].identity # None => obs'[o].identity # None
  <2>1. CASE RequestIssueReview(i) \/ InquiryFails(i)
      BY <2>1, IdentityMoves DEF RequestIssueReview, InquiryFails
  <2>2. CASE Inquiry(i)
    <3>1. UNCHANGED ids
        BY <2>2 DEF Inquiry, InquiryStarts, InquiryUnanchored, InquiryPersists, InquiryCompletes
    <3>. QED BY <3>1, IdentityMoves
  <2>. QED BY <2>1, <2>2
<1>2. adm \in [Issues -> Round] /\ adm[i] \in Round /\ RoundSound(adm[i])
    BY DEF AdmissionInv
<1>3. UNCHANGED <<judged, aged, tick>>
    BY DEF RequestIssueReview, InquiryFails, Inquiry, InquiryStarts, InquiryUnanchored,
           InquiryPersists, InquiryCompletes
<1>4. adm[i].jobs \in 0..MaxJobs
    BY <1>2 DEF Round
<1>5. ASSUME NEW q, RoundSound(q), adm' = [adm EXCEPT ![i] = q],
             q.jobs \in {adm[i].jobs, adm[i].jobs + 1},
             adm[i].job # None \/ q.jobs = adm[i].jobs + 1
      PROVE  AdmissionInv'
  <2>1. q.jobs >= adm[i].jobs /\ (adm[i].job # None \/ q.jobs > adm[i].jobs)
      BY <1>4, <1>5, AdmissionAssumption
  <2>. QED BY <1>1, <1>3, <1>5, <2>1, JobMoves
<1>6. CASE RequestIssueReview(i)
  <2> DEFINE q == [adm[i] EXCEPT !.jobs = @ + 1, !.job = "pending", !.by = "human", !.newer = FALSE]
  <2>1. adm[i].jobs < MaxJobs
        /\ adm' = [adm EXCEPT ![i].jobs = @ + 1, ![i].job = "pending",
                              ![i].by = "human", ![i].newer = FALSE]
      BY <1>6 DEF RequestIssueReview
  <2>2. RoundSound(q)
      BY <1>2, <2>1, ReviewKeeps
  <2>3. adm' = [adm EXCEPT ![i] = q] /\ q.jobs = adm[i].jobs + 1
      BY <1>2, <2>1 DEF Round
  <2> HIDE DEF q
  <2>. QED BY <1>5, <2>2, <2>3
<1>7. ASSUME NEW j \in {None, "pending", "claimed", "persisted"}, adm[i].job # None,
             adm' = [adm EXCEPT ![i].job = j, ![i].newer = FALSE]
      PROVE  AdmissionInv'
  <2> DEFINE q == [adm[i] EXCEPT !.job = j, !.newer = FALSE]
  <2>1. 0 \in Units
      BY FS_CardinalityType, FingerprintsAssumption DEF Units
  <2>2. RoundSound(q)
      BY <1>2, <1>7, <2>1, JobKeeps
  <2>3. adm' = [adm EXCEPT ![i] = q] /\ q.jobs = adm[i].jobs
      BY <1>2, <1>7 DEF Round
  <2> HIDE DEF q
  <2>. QED BY <1>5, <1>7, <2>2, <2>3
<1>8. CASE InquiryFails(i)
  <2>1. adm[i].job # None
        /\ \E then \in {"pending", None} : adm' = [adm EXCEPT ![i].job = then, ![i].newer = FALSE]
      BY <1>8 DEF InquiryFails, None
  <2>. QED BY <1>7, <2>1
<1>9. CASE InquiryUnanchored(i) \/ InquiryCompletes(i)
  <2>1. adm[i].job # None /\ adm' = [adm EXCEPT ![i].job = None, ![i].newer = FALSE]
      BY <1>9 DEF InquiryUnanchored, InquiryCompletes, None
  <2>. QED BY <1>7, <2>1
<1>10. CASE InquiryStarts(i)
  <2> DEFINE u == Affected(On(i) \ aged)
             q == [adm[i] EXCEPT !.job = "claimed", !.newer = FALSE, !.read = u]
  <2>1. u \in Units
    <3>1. On(i) \ aged \in SUBSET Obs
        BY DEF On
    <3>. QED BY <3>1, UnitsCount
  <2>2. adm[i].job # None
        /\ adm' = [adm EXCEPT ![i].job = "claimed", ![i].newer = FALSE, ![i].read = u]
      BY <1>10 DEF InquiryStarts, None
  <2> HIDE DEF u
  <2>3. RoundSound(q)
      BY <1>2, <2>1, <2>2, JobKeeps
  <2>4. adm' = [adm EXCEPT ![i] = q] /\ q.jobs = adm[i].jobs
      BY <1>2, <2>2 DEF Round
  <2> HIDE DEF q
  <2>. QED BY <1>5, <2>2, <2>3, <2>4
<1>11. CASE InquiryPersists(i)
  <2>1. PICK verdict \in Verdicts :
         adm' = [adm EXCEPT ![i].job = "persisted",
           ![i].stored = IF Known(i) THEN @ ELSE @ \cup {<<Signature(i), verdict>>},
           ![i].asked = IF Known(i) THEN @ ELSE verdict,
           ![i].askedUnits = IF Known(i) THEN @ ELSE adm[i].read,
           ![i].investigation = @ \/ Effective(i, verdict) = "investigate"]
      BY <1>11 DEF InquiryPersists
  <2> DEFINE has == Effective(i, verdict) = "investigate"
             known == Known(i)
             sv == <<Signature(i), verdict>>
             q == [adm[i] EXCEPT !.job = "persisted",
                     !.stored = IF known THEN @ ELSE @ \cup {sv},
                     !.asked = IF known THEN @ ELSE verdict,
                     !.askedUnits = IF known THEN @ ELSE adm[i].read,
                     !.investigation = @ \/ has]
  <2>2. adm[i].job = "claimed"
      BY <1>11 DEF InquiryPersists
  <2>3. RoundSound(q)
      BY <1>2, <2>2, VerdictKeeps
  <2> HIDE DEF has, known, sv
  <2>4. adm' = [adm EXCEPT ![i] = q] /\ q.jobs = adm[i].jobs
      BY <1>2, <2>1 DEF has, known, sv, Round
  <2> HIDE DEF q
  <2>. QED BY <1>5, <2>2, <2>3, <2>4 DEF None
<1>. QED BY <1>6, <1>8, <1>9, <1>10, <1>11 DEF Inquiry

-----------------------------------------------------------------------------
LEMMA AdmissionStarts == Init => AdmissionInv
<1> SUFFICES ASSUME Init PROVE AdmissionInv
    OBVIOUS
<1>1. IdInv
    BY IdStarts DEF Init
<1>2. Fresh \in Round /\ RoundSound(Fresh)
    BY FreshIsSound DEF RoundSound
<1>3. /\ adm = [i \in Issues |-> Fresh] /\ judged = [i \in Issues |-> {}] /\ aged = {}
      /\ tick = [phase |-> "idle", list |-> Nothing]
    BY DEF Init
<1>4. tick \in [phase : {"idle", "evaluating", "admitting"}, list : [Issues -> 0..MaxJobs]]
      /\ tick.phase = "idle"
    BY <1>3, AdmissionAssumption DEF Nothing
<1>. QED BY <1>1, <1>2, <1>3, <1>4 DEF AdmissionInv, PlaceSound

LEMMA AdmissionStep == AdmissionInv /\ [Next]_vars => AdmissionInv'
<1> SUFFICES ASSUME AdmissionInv, [Next]_vars PROVE AdmissionInv'
    OBVIOUS
<1>1. CASE UNCHANGED vars
  <2>1. UNCHANGED ids /\ UNCHANGED <<adm, judged, aged, tick>>
      BY <1>1 DEF vars, admission
  <2>2. IdInv' /\ \A o \in Obs : obs[o].identity # None => obs'[o].identity # None
      BY <2>1, IdentityMoves
  <2>3. /\ tick' \in [phase : {"idle", "evaluating", "admitting"}, list : [Issues -> 0..MaxJobs]]
        /\ \A i \in Issues : PlaceSound(i)'
      BY <2>1 DEF AdmissionInv, PlaceSound
  <2>. QED BY <2>1, <2>2, <2>3, ListKeeps
<1>2. CASE IdentityStep
    BY <1>2, IdentityKeeps
<1>3. CASE Week
    BY <1>3, WeekKeeps
<1>4. CASE Dispatching
    BY <1>4, PhasesKeep, EvaluateKeeps, AdmitKeeps DEF Dispatching
<1>5. CASE TickAborts
    BY <1>5, PhasesKeep
<1>6. ASSUME NEW i \in Issues, RequestIssueReview(i) \/ InquiryFails(i) \/ Inquiry(i)
      PROVE  AdmissionInv'
    BY <1>6, InquiryKeeps
<1>. QED BY <1>1, <1>2, <1>3, <1>4, <1>5, <1>6 DEF Next

(* What the run checks of admission holds for any number of issues, units    *)
(* and inquiries: every inquiry the sweep asks for is paid for by a decision *)
(* of its own, however stale its lists are, and a round has an investigation *)
(* exactly when the one verdict stored for some evidence says so.            *)
THEOREM AdmissionAgreesHolds == Spec => []AdmissionAgrees
<1>1. AdmissionInv => AdmissionAgrees
    BY DEF AdmissionInv, RoundSound, AdmissionAgrees, TypeOK, InquiriesArePaid, DecisionHasWork
<1>. QED BY <1>1, AdmissionStarts, AdmissionStep, PTL DEF Spec
=============================================================================
