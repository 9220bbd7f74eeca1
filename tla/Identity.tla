------------------------------ MODULE Identity ------------------------------
(***************************************************************************)
(* From a captured error to the issue it belongs to: CaptureError, the     *)
(* stack_resolve job and its watchdog, and the settlement loop that binds  *)
(* the fingerprints of an observation to one canonical issue, with the     *)
(* confirmed merge of two issues and the ends an issue comes to.           *)
(*                                                                         *)
(* One project.  A settlement is one transaction; what it read before it   *)
(* locks the issue may be out of date then, so it takes two steps, between *)
(* which it holds the observation's row and the locks of its fingerprints. *)
(* Times are compared only with one another: for an observation the model  *)
(* keeps which issues were resolved after its capture.  The statuses of an  *)
(* issue whose work is under way are one here, "new".                      *)
(***************************************************************************)
EXTENDS Naturals, FiniteSets

CONSTANTS
    Obs,            \* observations: rows of error_events
    Issues,         \* canonical issues that may be created
    Fingerprints,   \* fingerprints, raw and resolved
    Raw,            \* Raw[o]: the fingerprint computed at capture
    Resolved,       \* Resolved[o]: the hash of its resolved envelope
    First,          \* observations that are settled already, on FirstIssue
    FirstIssue,
    Settlers,       \* ingestion processes, each running one Loop
    MaxChanges      \* bound: faults and acts of people, taken together

ASSUME FingerprintsAssumption == /\ Raw \in [Obs -> Fingerprints]
                                 /\ Resolved \in [Obs -> Fingerprints]
                                 /\ First \subseteq Obs /\ First # {} /\ FirstIssue \in Issues
                                 /\ IsFiniteSet(Obs)
                                 /\ MaxChanges \in Nat

None == "none"

ASSUME NoneAssumption == None \notin Obs \cup Issues

VARIABLES
    obs,        \* error_events, identities and resolutions, by observation
    alias,      \* canonical_issue_fingerprints
    issue,      \* error_groups of kind error
    episode,    \* issue_episodes: the latest of each issue
    losers,     \* issue_merges, by loser
    conflicts,  \* issue_alias_conflicts that are open
    inHand,      \* what each Loop has claimed and not yet settled
    txn,        \* the settlement each Loop has under way
    changes     \* how many faults and acts there have been

ids == <<obs, alias, issue, episode, losers, conflicts, inHand, txn, changes>>

(* An issue and the number of one of its rounds. *)
Episodes == [issue : Issues \cup {None}, round : Nat]
Nowhere == [issue |-> None, round |-> 0]

NoTxn == [obs |-> None, keys |-> {}, bound |-> {}]

(* An observation: the resolution row, the job that makes it, the identity  *)
(* row, what it settled with and where, and the issues resolved after its   *)
(* capture.  aside is history: it came to its issue by a merge, or while    *)
(* the issue was archived.                                                  *)
Observation ==
    [resolution : {None, "pending", "failed", "resolved", "no_map"},
     job : {None, "queued", "running"},
     identity : {None, "pending", "settling", "settled", "conflict"},
     keys : SUBSET Fingerprints, at : Episodes,
     resolvedSince : SUBSET Issues, aside : BOOLEAN]

Statuses == {None, "new", "merged", "resolved", "archived"}

(* An issue: its status and the one from before it was archived, its count  *)
(* of occurrences, and whether something on it is from after its fix was    *)
(* merged.                                                                  *)
Issue == [status : Statuses, saved : Statuses, count : Nat, loud : BOOLEAN]

(* The types; and a settlement under way is of an observation its Loop holds. *)
IdTypeOK ==
    /\ obs \in [Obs -> Observation]
    /\ alias \in [Fingerprints -> Issues \cup {None}]
    /\ issue \in [Issues -> Issue]
    /\ episode \in [Issues -> [seq : Nat, open : BOOLEAN]]
    /\ losers \subseteq Issues
    /\ conflicts \subseteq (Obs \X SUBSET Issues)
    /\ inHand \in [Settlers -> SUBSET Obs]
    /\ txn \in [Settlers -> [obs : Obs \cup {None}, keys : SUBSET Fingerprints,
                             bound : SUBSET Issues]]
    /\ \A s \in Settlers : txn[s] = NoTxn \/ txn[s].obs \in inHand[s]
    /\ changes \in 0..MaxChanges

Uncaptured == [resolution |-> None, job |-> None, identity |-> None, keys |-> {},
               at |-> Nowhere, resolvedSince |-> {}, aside |-> FALSE]

IdInit ==
    /\ obs = [o \in Obs |->
         IF o \in First
         THEN [resolution |-> "no_map", job |-> None, identity |-> "settled",
               keys |-> {Raw[o]}, at |-> [issue |-> FirstIssue, round |-> 1],
               resolvedSince |-> {}, aside |-> FALSE]
         ELSE Uncaptured]
    /\ alias = [f \in Fingerprints |-> IF f \in {Raw[o] : o \in First} THEN FirstIssue ELSE None]
    /\ issue = [i \in Issues |->
         [status |-> IF i = FirstIssue THEN "new" ELSE None, saved |-> None,
          count |-> IF i = FirstIssue THEN Cardinality(First) ELSE 0, loud |-> FALSE]]
    /\ episode = [i \in Issues |-> IF i = FirstIssue THEN [seq |-> 1, open |-> TRUE]
                                                     ELSE [seq |-> 0, open |-> FALSE]]
    /\ losers = {}
    /\ conflicts = {}
    /\ inHand = [s \in Settlers |-> {}]
    /\ txn = [s \in Settlers |-> NoTxn]
    /\ changes = 0

Change == changes < MaxChanges /\ changes' = changes + 1

Attached(i) == {o \in Obs : obs[o].at.issue = i}

-----------------------------------------------------------------------------
(* CaptureError: the event, its pending identity and its resolve job. *)
CaptureError(o) ==
    /\ obs[o].identity = None
    /\ obs' = [obs EXCEPT ![o].identity = "pending", ![o].job = "queued"]
    /\ UNCHANGED <<alias, issue, episode, losers, conflicts, inHand, txn, changes>>

(* recordResolution: a resolved row keeps its envelope, and the raw         *)
(* fallback gives way only to a resolution.                                 *)
Recorded(old, new) ==
    IF old = "resolved" \/ (old = "no_map" /\ new \in {"pending", "failed"})
    THEN old ELSE new

(* What the resolve job and the watchdog write. *)
Resolution(o, job, resolution) ==
    obs' = [obs EXCEPT ![o].job = job, ![o].resolution = resolution]

(* runStackResolve publishes the wait state before it looks for the maps. *)
ResolveStarts(o) ==
    /\ obs[o].job = "queued"
    /\ Resolution(o, "running", Recorded(obs[o].resolution, "pending"))
    /\ UNCHANGED <<alias, issue, episode, losers, conflicts, inHand, txn, changes>>

(* It parks a stack that misses a map, settles one that has none, resolves  *)
(* the others.                                                              *)
ResolveEnds(o) ==
    /\ obs[o].job = "running"
    /\ \E outcome \in {"pending", "no_map", "resolved"} :
         Resolution(o, None, Recorded(obs[o].resolution, outcome))
    /\ UNCHANGED <<alias, issue, episode, losers, conflicts, inHand, txn, changes>>

(* An attempt fails: it is tried again, or it was the last one, whose       *)
(* handler settles the raw fallback.                                        *)
ResolveFails(o) ==
    /\ Change
    /\ obs[o].job = "running"
    /\ \E last \in BOOLEAN :
         Resolution(o, IF last THEN None ELSE "queued",
                    Recorded(obs[o].resolution, IF last THEN "no_map" ELSE "failed"))
    /\ UNCHANGED <<alias, issue, episode, losers, conflicts, inHand, txn>>

(* The job is dead-lettered without its handler, or before its first write. *)
ResolveDies(o) ==
    /\ Change
    /\ obs[o].job # None
    /\ Resolution(o, None, obs[o].resolution)
    /\ UNCHANGED <<alias, issue, episode, losers, conflicts, inHand, txn>>

(* UploadSourceMap wakes the resolutions that wait. *)
WakePendingStackResolutions(o) ==
    /\ Change
    /\ obs[o].resolution = "pending" /\ obs[o].job = None
    /\ Resolution(o, "queued", obs[o].resolution)
    /\ UNCHANGED <<alias, issue, episode, losers, conflicts, inHand, txn>>

(* Mutant: an observation whose job died before its first write is left.    *)
OverdueWithRow(o) == obs[o].resolution \in {"pending", "failed"}

(* What is past the boundary and waits: a parked or failed row, or an       *)
(* identity that never got one.                                             *)
Overdue(o) == \/ obs[o].resolution \in {"pending", "failed"}
              \/ obs[o].resolution = None /\ obs[o].identity = "pending"

(* Watchdog.Sweep, for one observation. *)
Sweep(o) ==
    /\ Overdue(o)
    /\ Resolution(o, obs[o].job, "no_map")
    /\ UNCHANGED <<alias, issue, episode, losers, conflicts, inHand, txn, changes>>

-----------------------------------------------------------------------------
(* Loop.Tick. *)

TickClaims(s) ==
    /\ inHand[s] = {}
    /\ \E claimed \in SUBSET {o \in Obs : /\ obs[o].identity = "pending"
                                          /\ obs[o].resolution \in {"resolved", "no_map"}} :
         /\ claimed # {}
         /\ inHand' = [inHand EXCEPT ![s] = claimed]
         /\ obs' = [o \in Obs |-> IF o \in claimed
                                  THEN [obs[o] EXCEPT !.identity = "settling"]
                                  ELSE obs[o]]
    /\ UNCHANGED <<alias, issue, episode, losers, conflicts, txn, changes>>

(* resetAbandoned: the lease is old and its holder gone. *)
ResetAbandoned(o) ==
    /\ obs[o].identity = "settling"
    /\ \A s \in Settlers : o \notin inHand[s]
    /\ obs' = [obs EXCEPT ![o].identity = "pending"]
    /\ UNCHANGED <<alias, issue, episode, losers, conflicts, inHand, txn, changes>>

(* resetAbandoned: the lease is old; its holder is only slow. *)
ResetHeld(o) ==
    /\ Change
    /\ obs[o].identity = "settling"
    /\ \E s \in Settlers : o \in inHand[s]
    /\ \A s \in Settlers : txn[s].obs # o
    /\ obs' = [obs EXCEPT ![o].identity = "pending"]
    /\ UNCHANGED <<alias, issue, episode, losers, conflicts, inHand, txn>>

SettlerDies(s) ==
    /\ Change
    /\ inHand[s] # {}
    /\ inHand' = [inHand EXCEPT ![s] = {}]
    /\ txn' = [txn EXCEPT ![s] = NoTxn]
    /\ UNCHANGED <<obs, alias, issue, episode, losers, conflicts>>

(* The fingerprints a settlement works with: the raw one, and the resolved  *)
(* one when there is an envelope.                                           *)
Candidates(o) == {Raw[o]} \cup
                 (IF obs[o].resolution = "resolved" THEN {Resolved[o]} ELSE {})

(* lockAliases: nobody else is settling under one of these fingerprints. *)
Unlocked(o) ==
    \A s \in Settlers : txn[s].obs # o /\ txn[s].keys \cap Candidates(o) = {}

(* Settle, up to the lookup of the aliases. *)
SettleReads(s, o) ==
    /\ o \in inHand[s] /\ txn[s] = NoTxn
    /\ Unlocked(o)
    /\ IF obs[o].identity \in {"settled", "conflict"}
       THEN inHand' = [inHand EXCEPT ![s] = @ \ {o}] /\ UNCHANGED txn
       ELSE /\ txn' = [txn EXCEPT ![s] =
                 [obs |-> o, keys |-> Candidates(o),
                  bound |-> {alias[f] : f \in Candidates(o)} \ {None}]]
            /\ UNCHANGED inHand
    /\ UNCHANGED <<obs, alias, issue, episode, losers, conflicts, changes>>

Ended(s) == /\ txn' = [txn EXCEPT ![s] = NoTxn]
            /\ inHand' = [inHand EXCEPT ![s] = @ \ {txn[s].obs}]

(* The fingerprints are bound to two issues: the observation is parked. *)
SettleConflicts(s) ==
    /\ txn[s] # NoTxn /\ \E i, j \in txn[s].bound : i # j
    /\ conflicts' = conflicts \cup {<<txn[s].obs, txn[s].bound>>}
    /\ obs' = [obs EXCEPT ![txn[s].obs].identity = "conflict"]
    /\ Ended(s)
    /\ UNCHANGED <<alias, issue, episode, losers, changes>>

(* lockActiveIssue. *)
ActiveIssue(i) == issue[i].status # "merged"

(* Mutant: the aliases are not read again once the issue is locked.         *)
BindableUnchecked(s, i) == TRUE

(* bindAlias: an alias that is bound stays so, and one that is bound to     *)
(* another issue by now ends the settlement.                                *)
Bindable(s, i) == \A f \in txn[s].keys : alias[f] \in {None, i}

(* createIssue, or the one issue the fingerprints are bound to. *)
Targets(s) ==
    IF txn[s].bound = {}
    THEN {i \in Issues : issue[i].status = None}
    ELSE {i \in txn[s].bound : ActiveIssue(i)}

(* An issue merged meanwhile, or whose pull request was, is not attached    *)
(* to, nor one whose aliases a merge has moved: the transaction rolls back  *)
(* and the lease has to lapse.                                              *)
SettleRefused(s) ==
    /\ txn[s] # NoTxn
    /\ \E i \in Issues : txn[s].bound = {i} /\ ~(ActiveIssue(i) /\ Bindable(s, i))
    /\ Ended(s)
    /\ UNCHANGED <<obs, alias, issue, episode, losers, conflicts, changes>>

Opened(e) == IF e.open THEN e ELSE [seq |-> e.seq + 1, open |-> TRUE]
Closed(e) == [e EXCEPT !.open = FALSE]

(* episodeForObservation: an observation from before the resolution stays   *)
(* with the round that was resolved.                                        *)
TakesBack(i, o) == /\ issue[i].status = "resolved"
                   /\ i \in obs[o].resolvedSince

(* What is attached to an issue that was archived after its fix was merged  *)
(* may be from after that merge.                                            *)
LoudAfter(i) ==
    {issue[i].loud} \cup
    (IF issue[i].status = "archived" /\ issue[i].saved = "merged" THEN {TRUE} ELSE {})

(* Settle: bindAlias, attachObservation and episodeForObservation. *)
SettleCommits(s) ==
    /\ txn[s] # NoTxn /\ \A i, j \in txn[s].bound : i = j
    /\ \E i \in Targets(s) :
         LET o == txn[s].obs
             e == IF TakesBack(i, o) THEN episode[i] ELSE Opened(episode[i])
         IN  /\ Bindable(s, i)
             /\ alias' = [f \in Fingerprints |->
                            IF f \in txn[s].keys /\ alias[f] = None THEN i ELSE alias[f]]
             /\ \E late \in LoudAfter(i) :
                  issue' = [issue EXCEPT ![i].count = @ + 1, ![i].loud = late,
                    ![i].status = IF TakesBack(i, o) \/ @ \notin {None, "resolved"}
                                  THEN @ ELSE "new"]
             /\ episode' = [episode EXCEPT ![i] = e]
             /\ obs' = [obs EXCEPT ![o].identity = "settled", ![o].at = [issue |-> i, round |-> e.seq],
                                   ![o].keys = txn[s].keys,
                                   ![o].aside = issue[i].status = "archived"]
    /\ Ended(s)
    /\ UNCHANGED <<losers, conflicts, changes>>

-----------------------------------------------------------------------------
(* What becomes of an issue. *)

(* Resolution is stamped anew, and a trigger closes the round. *)
Resolves(i) ==
    /\ issue' = [issue EXCEPT ![i].status = "resolved"]
    /\ episode' = [episode EXCEPT ![i] = Closed(@)]
    /\ obs' = [o \in Obs |-> IF obs[o].identity = None THEN obs[o]
                 ELSE [obs[o] EXCEPT !.resolvedSince = @ \cup {i}]]
    /\ UNCHANGED <<alias, losers, conflicts, inHand, txn>>

(* ResolveErrorGroup: from any status but archived, that of a merged issue  *)
(* included.                                                                *)
PersonResolves(i) ==
    /\ Change
    /\ issue[i].status \notin {None, "archived"}
    /\ Resolves(i)

(* ArchiveErrorGroup: from any status, which it saves. *)
PersonArchives(i) ==
    /\ Change
    /\ issue[i].status \notin {None, "archived"}
    /\ issue' = [issue EXCEPT ![i].status = "archived", ![i].saved = issue[i].status]
    /\ UNCHANGED <<obs, alias, episode, losers, conflicts, inHand, txn>>

(* UnarchiveErrorGroup: the saved status, with the stamps that go with it;  *)
(* the trigger closes a round that was opened while it was archived.        *)
PersonUnarchives(i) ==
    /\ issue[i].status = "archived"
    /\ issue' = [issue EXCEPT ![i].status = issue[i].saved, ![i].saved = None]
    /\ episode' = IF issue[i].saved = "resolved" THEN [episode EXCEPT ![i] = Closed(@)]
                                                 ELSE episode
    /\ UNCHANGED <<obs, alias, losers, conflicts, inHand, txn, changes>>

(* The fix of the issue is merged.  The webhook may be late: something that *)
(* is attached already may be from after the merge.                         *)
PRMerged(i) ==
    /\ Change
    /\ issue[i].status = "new"
    /\ \E late \in BOOLEAN :
         /\ late => Attached(i) # {}
         /\ issue' = [issue EXCEPT ![i].status = "merged", ![i].loud = late]
    /\ UNCHANGED <<obs, alias, episode, losers, conflicts, inHand, txn>>

(* resolveSilentMergedGroups: no event attached to it is from after the     *)
(* merge, and no audited merge made it.                                     *)
ResolveSilentMerged(i) ==
    /\ issue[i].status = "merged" /\ i \notin losers
    /\ ~issue[i].loud
    /\ Resolves(i)
    /\ UNCHANGED changes

MovedTo(w, l, e) ==
    [o \in Obs |-> IF o \in Attached(l)
                   THEN [obs[o] EXCEPT !.at = [issue |-> w, round |-> e.seq], !.aside = TRUE]
                   ELSE obs[o]]

Recounted(w, l) == Cardinality(Attached(w) \cup Attached(l))

(* ConfirmMerge: aliases and observations move to the winner's round, its   *)
(* counters are rebuilt, and the observations the two issues disagreed      *)
(* about settle again.  A resolved winner is not reopened by it, and a      *)
(* winner may have been a loser whose status a person has changed since.    *)
ConfirmMerge(w, l) ==
    /\ Change
    /\ w # l
    /\ issue[w].status \notin {None, "merged"}
    /\ issue[l].status \notin {None, "merged"} /\ l \notin losers
    /\ LET e == IF issue[w].status = "resolved" THEN episode[w] ELSE Opened(episode[w])
           moved == MovedTo(w, l, e)
           mooted == {c \in conflicts : c[2] = {w, l}}
       IN  /\ alias' = [f \in Fingerprints |-> IF alias[f] = l THEN w ELSE alias[f]]
           /\ \E late \in LoudAfter(w) :
                issue' = [issue EXCEPT ![w].count = Recounted(w, l), ![w].loud = late,
                                       ![l].status = "merged"]
           /\ episode' = [episode EXCEPT ![w] = e, ![l] = Closed(@)]
           /\ conflicts' = conflicts \ mooted
           /\ obs' = [o \in Obs |->
                IF obs[o].identity = "conflict" /\ \E c \in mooted : c[1] = o
                THEN [moved[o] EXCEPT !.identity = "pending"] ELSE moved[o]]
    /\ losers' = losers \cup {l}
    /\ UNCHANGED <<inHand, txn>>

(* closeResolvedEpisodes, with which each tick of the filter begins. *)
CloseResolvedEpisodes ==
    /\ episode' = [i \in Issues |->
         IF issue[i].status \in {"resolved", "merged", "archived"}
         THEN Closed(episode[i]) ELSE episode[i]]
    /\ UNCHANGED <<obs, alias, issue, losers, conflicts, inHand, txn, changes>>

-----------------------------------------------------------------------------
Settling(s) == \/ TickClaims(s) \/ \E o \in Obs : SettleReads(s, o)
               \/ SettleConflicts(s) \/ SettleRefused(s) \/ SettleCommits(s)

IdSteps ==
    \/ \E o \in Obs : \/ CaptureError(o)
                      \/ ResolveStarts(o) \/ ResolveEnds(o)
                      \/ ResolveFails(o) \/ ResolveDies(o)
                      \/ WakePendingStackResolutions(o)
                      \/ Sweep(o) \/ ResetAbandoned(o) \/ ResetHeld(o)
    \/ \E s \in Settlers : Settling(s) \/ SettlerDies(s)
    \/ \E i \in Issues : \/ PersonResolves(i)
                         \/ PersonArchives(i) \/ PersonUnarchives(i)
                         \/ PRMerged(i) \/ ResolveSilentMerged(i)
                         \/ \E l \in Issues : ConfirmMerge(i, l)

IdNext == IdSteps \/ CloseResolvedEpisodes

(* The queue runs a job to its end, the watchdog and the loops tick for ever *)
(* and the worker's sweep is hourly.                                         *)
IdFairness ==
    /\ \A o \in Obs : /\ WF_ids(Sweep(o))
                      /\ WF_ids(ResetAbandoned(o))
    /\ \A s \in Settlers : WF_ids(Settling(s))
    /\ \A i \in Issues : WF_ids(ResolveSilentMerged(i))

IdSpec == IdInit /\ [][IdNext]_ids /\ IdFairness

-----------------------------------------------------------------------------
(* Properties. *)

(* Observations that settled under a common fingerprint are on one issue,   *)
(* the one the fingerprint is bound to: settlers that race on one           *)
(* fingerprint, or with a merge that commits between their lookup and their *)
(* lock, never split an issue, also when a person has meanwhile resolved or *)
(* archived the loser, so that lockActiveIssue lets it pass.                *)
OneIssuePerFingerprint ==
    \A o \in Obs : obs[o].identity = "settled" =>
        \A f \in obs[o].keys : alias[f] = obs[o].at.issue

(* The occurrence count of an issue that no merge took is the number of     *)
(* observations on it, through retries, abandoned leases and merges.        *)
CountsAreReal ==
    \A i \in Issues \ losers : issue[i].count = Cardinality(Attached(i))

(* An observation is in a round that its issue has had, and an issue with   *)
(* an open round is one whose work is not over or not yet swept; merges     *)
(* number the rounds of the winner, not those of the loser.                 *)
RoundExists ==
    \A o \in Obs : obs[o].at # Nowhere =>
        obs[o].at.round \in 1..episode[obs[o].at.issue].seq

(* A resolved issue is quiet: what settled on it was captured before it was *)
(* last resolved, so a regression is never swallowed by the round that was  *)
(* closed, through re-resolutions, archives and their end.  (A merge brings *)
(* newer observations in, and what settles on an archived issue is put away *)
(* with it: unarchived, it is resolved as it was.)                          *)
ResolvedIsQuiet ==
    \A o \in Obs, i \in Issues :
        obs[o].at.issue = i /\ ~obs[o].aside /\ issue[i].status = "resolved"
        => i \in obs[o].resolvedSince

(* Nothing can settle on a merged issue: it stays so if something on it is  *)
(* from after the merge, or if it was a loser once.                         *)
StaysMerged(i) ==
    /\ issue[i].status = "merged" /\ (issue[i].loud \/ i \in losers)
    /\ \E f \in Fingerprints : alias[f] = i

(* Every captured observation comes to an issue or to an open conflict,     *)
(* whatever becomes of its resolve job and of the loop that claims it,      *)
(* unless its issue stays merged for ever: nothing but silence ends that.   *)
EventuallySettled ==
    [](\A i \in Issues : ~StaysMerged(i))
    => \A o \in Obs : obs[o].identity = "pending" ~> obs[o].identity \in {"settled", "conflict"}

(* What the settlement leaves behind agrees, whatever raced: the aliases with *)
(* the issues the observations are on, the counts with the observations, and *)
(* the rounds and resolutions with when each was captured.                   *)
IdentityAgrees ==
  /\ IdTypeOK
  /\ OneIssuePerFingerprint
  /\ CountsAreReal
  /\ RoundExists
  /\ ResolvedIsQuiet
=============================================================================
