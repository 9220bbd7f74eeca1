------------------------------- MODULE Outbox -------------------------------
(***************************************************************************)
(* The notification outbox of the ingestion service.                       *)
(*                                                                         *)
(* A transaction that has something to tell (a new issue, a daily digest)  *)
(* stores an event and one delivery per destination that is enabled and    *)
(* subscribed at that moment.  Dispatchers, one per ingestion process,     *)
(* reap lapsed leases, claim a batch of due deliveries, send them all      *)
(* concurrently, and record each outcome under the lease generation they   *)
(* claimed with.  People edit the destinations meanwhile, and old rows are *)
(* pruned.                                                                 *)
(*                                                                         *)
(* Time is not modelled: a lease may lapse, a backoff elapse and a row     *)
(* grow old at any moment.  A statement over many rows that are treated    *)
(* independently (reapExpired, prune) is an action per row.                *)
(***************************************************************************)
EXTENDS Naturals, FiniteSets

CONSTANTS
    Events,         \* the outbox events, by their dedup key
    Destinations,   \* notification destinations, by id
    Dispatchers,    \* ingestion processes, each running one Dispatcher
    Topics,         \* event type and delivery policy, what a destination takes
    Topic,          \* the event type of each event
    MaxAttempts,    \* outbound_deliveries.max_attempts
    BatchSize,      \* Options.BatchSize
    MaxEdits        \* bound: edits of destinations people make

ASSUME TopicAssumption == Topic \in [Events -> Topics]
ASSUME BoundsAssumption == /\ MaxAttempts \in Nat \ {0}
                           /\ BatchSize \in Nat \ {0}
                           /\ MaxEdits \in Nat

VARIABLES
    dest,       \* notification_destinations
    stored,     \* the events told so far: "untold", "stored" or "pruned"
    status,     \* outbound_deliveries.status by event and destination
    attempts,   \* outbound_deliveries.attempts
    generation, \* outbound_deliveries.lease_generation
    claims,     \* the claims the dispatchers hold in memory
    received,   \* history: how often the message reached its destination
    verdict,    \* history: what the latest claim's send came to
    edits       \* how many edits people have made

outbox == <<stored, status, attempts, generation, received, verdict>>
vars == <<dest, stored, status, attempts, generation, claims, received,
          verdict, edits>>

Deliveries == Events \X Destinations

Outcomes == {"delivered", "retry", "permanent"}

(* deliveryClaim, with the outcome once the send has one. *)
Claims == [by : Dispatchers, of : Deliveries, attempt : Nat, gen : Nat,
           outcome : Outcomes \cup {"none"}]

TypeOK ==
    /\ dest \in [Destinations -> [state : {"absent", "live", "deleted"},
                                  enabled : BOOLEAN, topics : SUBSET Topics]]
    /\ stored \in [Events -> {"untold", "stored", "pruned"}]
    /\ status \in [Deliveries ->
                    {"none", "pending", "delivering", "delivered", "failed"}]
    /\ attempts \in [Deliveries -> 0..MaxAttempts]
    /\ generation \in [Deliveries -> Nat]
    /\ claims \in SUBSET Claims
    /\ received \in [Deliveries -> Nat]
    /\ verdict \in [Deliveries -> Outcomes \cup {"none"}]
    /\ edits \in 0..MaxEdits

Init ==
    /\ dest = [d \in Destinations |->
                  [state |-> "absent", enabled |-> FALSE, topics |-> {}]]
    /\ stored = [e \in Events |-> "untold"]
    /\ status = [k \in Deliveries |-> "none"]
    /\ attempts = [k \in Deliveries |-> 0]
    /\ generation = [k \in Deliveries |-> 0]
    /\ claims = {}
    /\ received = [k \in Deliveries |-> 0]
    /\ verdict = [k \in Deliveries |-> "none"]
    /\ edits = 0

-----------------------------------------------------------------------------
(* Destinations, as their administrators edit them. *)

(* CreateNotificationDestination: from the settings page, or disabled, by  *)
(* the agent setup, which enables it once its test message has arrived.     *)
CreateNotificationDestination(d) ==
    /\ dest[d].state = "absent"
    /\ \E on \in BOOLEAN, topics \in SUBSET Topics \ {{}} :
         dest' = [dest EXCEPT ![d] =
                    [state |-> "live", enabled |-> on, topics |-> topics]]
    /\ UNCHANGED <<outbox, claims, edits>>

(* UpdateNotificationDestination: enable, disable, change the event types   *)
(* or the delivery policy; never to no event type at all.                   *)
UpdateNotificationDestination(d) ==
    /\ dest[d].state = "live" /\ edits < MaxEdits
    /\ \E on \in BOOLEAN, topics \in SUBSET Topics \ {{}} :
         dest' = [dest EXCEPT ![d] =
                    [state |-> "live", enabled |-> on, topics |-> topics]]
    /\ edits' = edits + 1
    /\ UNCHANGED <<outbox, claims>>

(* The row of a delivery is gone: deleted by a cascade, or pruned.  Its     *)
(* history goes with it.                                                    *)
WithoutRows(gone) ==
    /\ status' = [k \in Deliveries |-> IF k \in gone THEN "none" ELSE status[k]]
    /\ attempts' = [k \in Deliveries |-> IF k \in gone THEN 0 ELSE attempts[k]]
    /\ generation' =
         [k \in Deliveries |-> IF k \in gone THEN 0 ELSE generation[k]]
    /\ received' = [k \in Deliveries |-> IF k \in gone THEN 0 ELSE received[k]]
    /\ verdict' =
         [k \in Deliveries |-> IF k \in gone THEN "none" ELSE verdict[k]]

(* DeleteNotificationDestination: the deliveries go with it.  A claim in    *)
(* memory stays where it is.                                                *)
DeleteNotificationDestination(d) ==
    /\ dest[d].state = "live" /\ edits < MaxEdits
    /\ dest' = [dest EXCEPT ![d] =
                  [state |-> "deleted", enabled |-> FALSE, topics |-> @.topics]]
    /\ WithoutRows(Events \X {d})
    /\ edits' = edits + 1
    /\ UNCHANGED <<stored, claims>>

-----------------------------------------------------------------------------
(* Publication. *)

Subscribers(e) == {d \in Destinations : /\ dest[d].state = "live"
                                        /\ dest[d].enabled
                                        /\ Topic[e] \in dest[d].topics}

(* publishIssueCreated, the post_triage insert of triagedOutboxCte, or the   *)
(* insert that ends a digest's publication: in the transaction of what the  *)
(* event tells.  With no subscriber nothing is stored, and the event is     *)
(* never told.                                                              *)
Publish(e) ==
    /\ stored[e] = "untold"
    /\ Subscribers(e) # {}
    /\ stored' = [stored EXCEPT ![e] = "stored"]
    /\ status' = [k \in Deliveries |->
                    IF k[1] = e /\ k[2] \in Subscribers(e)
                    THEN "pending" ELSE status[k]]
    /\ UNCHANGED <<dest, attempts, generation, claims, received, verdict, edits>>

-----------------------------------------------------------------------------
(* The dispatcher. *)

Idle(w) == \A c \in claims : c.by # w

Claimable == {k \in Deliveries : /\ status[k] = "pending"
                                 /\ attempts[k] < MaxAttempts}

AttemptsAfter(batch) ==
    [k \in Deliveries |-> IF k \in batch THEN attempts[k] + 1 ELSE attempts[k]]

(* claim: the attempt is counted, and the generation moves, before          *)
(* anything is sent.  Run claims again only when the whole batch is done.   *)
claim(w) ==
    /\ Idle(w)
    /\ \E batch \in SUBSET Claimable :
         /\ batch # {} /\ Cardinality(batch) <= BatchSize
         /\ status' = [k \in Deliveries |->
                         IF k \in batch THEN "delivering" ELSE status[k]]
         /\ attempts' = AttemptsAfter(batch)
         /\ generation' = [k \in Deliveries |->
                IF k \in batch THEN generation[k] + 1 ELSE generation[k]]
         /\ claims' = claims \cup
              {[by |-> w, of |-> k, attempt |-> AttemptsAfter(batch)[k],
                gen |-> generation[k] + 1, outcome |-> "none"] : k \in batch}
         /\ verdict' = [k \in Deliveries |->
                          IF k \in batch THEN "none" ELSE verdict[k]]
    /\ UNCHANGED <<dest, stored, received, edits>>

(* What a send can come to, and whether the message arrived: an answer of   *)
(* 2xx, a refusal, or a timeout or 5xx after which nobody knows.            *)
SendOutcomes == {<<"delivered", "arrived">>, <<"permanent", "lost">>,
                 <<"retry", "lost">>, <<"retry", "arrived">>}

(* What deliverClaim concludes without sending: the event or destination is *)
(* missing, the destination is disabled or its configuration unusable; the  *)
(* load failed or the goroutine panicked.                                   *)
Sendable(c) == /\ stored[c.of[1]] = "stored"
               /\ dest[c.of[2]].state = "live"
               /\ dest[c.of[2]].enabled

LoadOutcomes == {<<"permanent", "lost">>, <<"retry", "lost">>}

(* deliverClaim, up to the outcome it hands to finishClaim. *)
deliverClaim(c) ==
    /\ c.outcome = "none"
    /\ \E o \in IF Sendable(c) THEN SendOutcomes ELSE LoadOutcomes :
         /\ claims' = (claims \ {c}) \cup {[c EXCEPT !.outcome = o[1]]}
         /\ received' = IF o[2] = "arrived" /\ status[c.of] # "none"
                        THEN [received EXCEPT ![c.of] = @ + 1] ELSE received
         /\ verdict' = IF generation[c.of] = c.gen
                       THEN [verdict EXCEPT ![c.of] = o[1]] ELSE verdict
    /\ UNCHANGED <<dest, stored, status, attempts, generation, edits>>

(* Mutant of the fence: the status alone. *)
CurrentAnyGeneration(c) == status[c.of] = "delivering"

(* The fence of every update complete makes. *)
Current(c) == status[c.of] = "delivering" /\ generation[c.of] = c.gen

StatusAfter(c) ==
    CASE c.outcome = "delivered" -> "delivered"
      [] c.outcome = "permanent" -> "failed"
      [] c.outcome = "retry"     ->
           IF c.attempt >= MaxAttempts THEN "failed" ELSE "pending"

(* complete: the outcome is recorded only on the claim's own generation. *)
complete(c) ==
    /\ c.outcome # "none"
    /\ claims' = claims \ {c}
    /\ status' = IF Current(c) THEN [status EXCEPT ![c.of] = StatusAfter(c)]
                 ELSE status
    /\ UNCHANGED <<dest, stored, attempts, generation, received, verdict, edits>>

(* complete fails: the row stays delivering until its lease lapses. *)
CompleteFails(c) ==
    /\ c.outcome # "none"
    /\ claims' = claims \ {c}
    /\ UNCHANGED <<dest, outbox, edits>>

(* The process dies; what it held in memory is gone. *)
Crash(w) ==
    /\ ~Idle(w)
    /\ claims' = {c \in claims : c.by # w}
    /\ UNCHANGED <<dest, outbox, edits>>

(* Mutant: the reaper does not look at the limit that claim looks at. *)
ReapedToPending(k) == "pending"

ReapedStatus(k) == IF attempts[k] >= MaxAttempts THEN "failed" ELSE "pending"

(* reapExpired: a lapsed lease.  The generation stays, so the late outcome  *)
(* of the old claim still matches it, but the row is not delivering any     *)
(* more.                                                                    *)
reapExpired(k) ==
    /\ status[k] = "delivering"
    /\ status' = [status EXCEPT ![k] = ReapedStatus(k)]
    /\ UNCHANGED <<dest, stored, attempts, generation, claims, received,
                   verdict, edits>>

(* prune: settled deliveries first, then events that have none left. *)
PruneDelivery(k) ==
    /\ status[k] \in {"delivered", "failed"}
    /\ WithoutRows({k})
    /\ UNCHANGED <<dest, stored, claims, edits>>

Prunable(e) == \A d \in Destinations : status[<<e, d>>] = "none"

PruneEvent(e) ==
    /\ stored[e] = "stored"
    /\ Prunable(e)
    /\ stored' = [stored EXCEPT ![e] = "pruned"]
    /\ UNCHANGED <<dest, status, attempts, generation, claims, received,
                   verdict, edits>>

-----------------------------------------------------------------------------
Next ==
    \/ \E d \in Destinations : \/ CreateNotificationDestination(d)
                               \/ UpdateNotificationDestination(d)
                               \/ DeleteNotificationDestination(d)
    \/ \E e \in Events : Publish(e) \/ PruneEvent(e)
    \/ \E w \in Dispatchers : claim(w) \/ Crash(w)
    \/ \E c \in claims : deliverClaim(c) \/ complete(c) \/ CompleteFails(c)
    \/ \E k \in Deliveries : reapExpired(k) \/ PruneDelivery(k)

Spec == Init /\ [][Next]_vars

(* Run polls for ever, every send has an HTTP timeout, and the reaper runs  *)
(* before every claim.  Nothing is assumed of people, crashes or pruning.   *)
Finish(w) == \E c \in claims : c.by = w /\ (deliverClaim(c) \/ complete(c))

Fairness == /\ \A w \in Dispatchers : WF_vars(claim(w)) /\ WF_vars(Finish(w))
            /\ \A k \in Deliveries : WF_vars(reapExpired(k))

FairSpec == Spec /\ Fairness

-----------------------------------------------------------------------------
(* Properties. *)

(* Whatever dispatchers crash, stall past their lease or answer late, a     *)
(* destination receives one event at most as often as the delivery was      *)
(* claimed, and never more than max_attempts times: claim counts the        *)
(* attempt before deliverClaim sends.                                       *)
SendsAreCounted ==
    \A k \in Deliveries :
        status[k] # "none" =>
            received[k] <= attempts[k] /\ attempts[k] <= MaxAttempts

(* A settled delivery says what its latest claim came to: it is delivered   *)
(* only when that send was accepted, and failed only when that send was     *)
(* refused or no attempt is left.  complete must not let the answer of a    *)
(* claim that was reaped decide about the claim that followed it.           *)
OutcomeIsLatest ==
    \A k \in Deliveries :
        /\ status[k] = "delivered" => verdict[k] = "delivered"
        /\ status[k] = "failed" => \/ verdict[k] = "permanent"
                                  \/ attempts[k] = MaxAttempts

(* A delivery that still has to be sent has its event and its destination:  *)
(* pruning and the edits of people never leave one behind that deliverClaim *)
(* could only fail with destination_or_event_missing.                       *)
NoOrphanDelivery ==
    \A k \in Deliveries :
        status[k] \in {"pending", "delivering"} =>
            stored[k[1]] = "stored" /\ dest[k[2]].state = "live"

(* A delivery that is delivered or failed stays so until its row goes: no   *)
(* late answer of an old claim and no reaper sends it round again.          *)
SettledIsFinal ==
    [][\A k \in Deliveries :
          status[k] \in {"delivered", "failed"} =>
              status'[k] \in {status[k], "none"}]_vars

(* Every delivery settles: nothing is left pending with no attempt that     *)
(* claim would take, or delivering for a process that has died.             *)
EventuallyDelivered ==
    \A k \in Deliveries :
        status[k] \in {"pending", "delivering"} ~>
            status[k] \notin {"pending", "delivering"}

(* The deliveries agree with what was sent, with the answers and with the    *)
(* events and destinations they are for.                                     *)
OutboxAgrees ==
  /\ TypeOK
  /\ SendsAreCounted
  /\ OutcomeIsLatest
  /\ NoOrphanDelivery
=============================================================================
