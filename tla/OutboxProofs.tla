---------------------------- MODULE OutboxProofs ----------------------------
(***************************************************************************)
(* What holds of the outbox for any number of events, destinations and     *)
(* dispatchers.  OutboxInv is inductive: it says how the claims that live  *)
(* in the dispatchers' memory relate to the rows they were taken from.     *)
(***************************************************************************)
EXTENDS Outbox, FiniteSetTheorems, TLAPS

(* The claims of a delivery whose send is still under way. *)
Sending(k) == {c \in claims : c.of = k /\ c.outcome = "none"}

(* A row that is gone left nothing behind; one that exists has its event,   *)
(* and counts its claims in attempts and in generation alike.               *)
RowsAreWhole ==
    \A k \in Deliveries :
        /\ generation[k] = attempts[k]
        /\ status[k] = "none" => attempts[k] = 0 /\ received[k] = 0
        /\ status[k] # "none" => stored[k[1]] = "stored"

(* A claim in memory is at most as new as its row; it is the only one of    *)
(* its generation, and the newest one is what the verdict is about.         *)
ClaimsAreKnown ==
    /\ \A c \in claims :
        /\ c.gen > 0 /\ c.attempt = c.gen
        /\ stored[c.of[1]] # "untold"
        /\ status[c.of] # "none" => c.gen <= generation[c.of]
        /\ c.gen = generation[c.of] => c.outcome = verdict[c.of]
    /\ \A c, b \in claims : c.of = b.of /\ c.gen = b.gen => c = b

(* Every send under way is an attempt that has been counted. *)
SendsAreReserved ==
    \A k \in Deliveries :
        /\ IsFiniteSet(Sending(k))
        /\ status[k] # "none" => received[k] + Cardinality(Sending(k)) <= attempts[k]

(* Nobody holds the claim that settled a delivery. *)
SettledIsUnclaimed ==
    \A k \in Deliveries : \A c \in claims :
        c.of = k /\ c.gen = generation[k] =>
            /\ status[k] # "delivered"
            /\ status[k] = "failed" => attempts[k] = MaxAttempts

OutboxInv ==
    /\ TypeOK
    /\ RowsAreWhole
    /\ ClaimsAreKnown
    /\ SendsAreReserved
    /\ SettledIsUnclaimed
    /\ OutcomeIsLatest
    /\ NoOrphanDelivery

-----------------------------------------------------------------------------
(* The first states satisfy the inductive invariant: nothing is stored.     *)
LEMMA OutboxStarts == Init => OutboxInv
<1> SUFFICES ASSUME Init PROVE OutboxInv
  OBVIOUS
<1>1. TypeOK
  BY BoundsAssumption DEF Init, TypeOK, Claims, Outcomes
<1>2. RowsAreWhole /\ ClaimsAreKnown /\ SettledIsUnclaimed
  BY DEF Init, RowsAreWhole, ClaimsAreKnown, SettledIsUnclaimed
<1>3. SendsAreReserved
  <2>1. \A k \in Deliveries : Sending(k) = {}
    BY DEF Init, Sending
  <2>2. QED
    BY <2>1, FS_EmptySet DEF Init, SendsAreReserved
<1>4. OutcomeIsLatest /\ NoOrphanDelivery
  BY DEF Init, OutcomeIsLatest, NoOrphanDelivery
<1>5. QED
  BY <1>1, <1>2, <1>3, <1>4 DEF OutboxInv

(* A step that leaves the claims, the counters and the history alone keeps  *)
(* every send reserved, if it gives no row back.                            *)
LEMMA ReservedStays ==
  ASSUME SendsAreReserved, UNCHANGED <<claims, attempts, received>>,
         \A k \in Deliveries : status'[k] # "none" => status[k] # "none"
  PROVE  SendsAreReserved'
BY DEF SendsAreReserved, Sending

(* Editing a destination disturbs no delivery, for the destination of one   *)
(* that still has to be sent stays.                                         *)
LEMMA EditKeeps ==
  ASSUME OutboxInv, NEW d \in Destinations,
         CreateNotificationDestination(d) \/ UpdateNotificationDestination(d)
  PROVE  OutboxInv'
<1> USE DEF OutboxInv
<1>1. /\ UNCHANGED <<outbox, claims>>
      /\ \A f \in Destinations : dest[f].state = "live" => dest'[f].state = "live"
  BY DEF CreateNotificationDestination, UpdateNotificationDestination, TypeOK
<1>2. TypeOK'
  <2>1. CASE CreateNotificationDestination(d)
    BY <2>1 DEF CreateNotificationDestination, TypeOK, outbox
  <2>2. CASE UpdateNotificationDestination(d)
    BY <2>2, BoundsAssumption DEF UpdateNotificationDestination, TypeOK, outbox
  <2>3. QED
    BY <2>1, <2>2
<1>3. RowsAreWhole' /\ ClaimsAreKnown' /\ SettledIsUnclaimed' /\ OutcomeIsLatest'
  BY <1>1 DEF RowsAreWhole, ClaimsAreKnown, SettledIsUnclaimed, OutcomeIsLatest, outbox
<1>4. SendsAreReserved'
  BY <1>1, ReservedStays DEF outbox
<1>5. NoOrphanDelivery'
  BY <1>1 DEF NoOrphanDelivery, outbox, Deliveries
<1>6. QED
  BY <1>2, <1>3, <1>4, <1>5

(* Rows that go take their counters along; the claims of them that are      *)
(* still in memory match no row any more.                                   *)
LEMMA RowsGo ==
  ASSUME OutboxInv, NEW gone \in SUBSET Deliveries, WithoutRows(gone),
         UNCHANGED <<stored, claims>>,
         edits' \in 0..MaxEdits,
         dest' \in [Destinations -> [state : {"absent", "live", "deleted"},
                                     enabled : BOOLEAN, topics : SUBSET Topics]],
         \A k \in Deliveries \ gone : dest'[k[2]].state = dest[k[2]].state
  PROVE  OutboxInv'
<1> USE DEF OutboxInv
<1>1. TypeOK'
  BY BoundsAssumption DEF TypeOK, WithoutRows, Outcomes
<1>2. RowsAreWhole'
  BY DEF RowsAreWhole, WithoutRows
<1>3. ClaimsAreKnown'
  <2>1. \A c \in claims : c.of \in Deliveries /\ c.gen \in Nat
    BY DEF TypeOK, Claims
  <2>2. QED
    BY <2>1 DEF ClaimsAreKnown, WithoutRows
<1>4. SendsAreReserved'
  BY DEF SendsAreReserved, Sending, WithoutRows
<1>5. SettledIsUnclaimed' /\ OutcomeIsLatest' /\ NoOrphanDelivery'
  BY DEF SettledIsUnclaimed, OutcomeIsLatest, NoOrphanDelivery, WithoutRows
<1>6. QED
  BY <1>1, <1>2, <1>3, <1>4, <1>5

(* A destination that goes takes its deliveries along. *)
LEMMA DeleteKeeps ==
  ASSUME OutboxInv, NEW d \in Destinations, DeleteNotificationDestination(d)
  PROVE  OutboxInv'
<1>1. /\ Events \X {d} \in SUBSET Deliveries
      /\ \A k \in Deliveries \ (Events \X {d}) : k[2] # d
  BY DEF Deliveries
<1>2. /\ edits' \in 0..MaxEdits
      /\ dest' \in [Destinations -> [state : {"absent", "live", "deleted"},
                                     enabled : BOOLEAN, topics : SUBSET Topics]]
      /\ \A f \in Destinations \ {d} : dest'[f] = dest[f]
  BY BoundsAssumption DEF DeleteNotificationDestination, OutboxInv, TypeOK
<1>3. \A k \in Deliveries \ (Events \X {d}) : dest'[k[2]].state = dest[k[2]].state
  BY <1>1, <1>2 DEF Deliveries
<1>4. QED
  BY <1>1, <1>2, <1>3, RowsGo DEF DeleteNotificationDestination

(* A settled delivery that is pruned leaves no row behind. *)
LEMMA PruneKeeps ==
  ASSUME OutboxInv, NEW k \in Deliveries, PruneDelivery(k)
  PROVE  OutboxInv'
<1>1. edits' \in 0..MaxEdits /\ UNCHANGED <<dest, stored, claims>> /\ WithoutRows({k})
  BY DEF PruneDelivery, OutboxInv, TypeOK
<1>2. dest' \in [Destinations -> [state : {"absent", "live", "deleted"},
                                 enabled : BOOLEAN, topics : SUBSET Topics]]
  BY <1>1 DEF OutboxInv, TypeOK
<1>3. QED
  BY <1>1, <1>2, RowsGo

(* A new event is told for the first time, so no claim and no count of its  *)
(* deliveries exists, and every subscriber is live.                         *)
LEMMA PublishKeeps ==
  ASSUME OutboxInv, NEW e \in Events, Publish(e)
  PROVE  OutboxInv'
<1> USE DEF OutboxInv
<1> DEFINE new == {k \in Deliveries : k[1] = e /\ k[2] \in Subscribers(e)}
<1>1. /\ stored' = [stored EXCEPT ![e] = "stored"] /\ stored[e] = "untold"
      /\ status' = [k \in Deliveries |-> IF k \in new THEN "pending" ELSE status[k]]
      /\ UNCHANGED <<dest, attempts, generation, claims, received, verdict, edits>>
  BY DEF Publish
<1>2. /\ \A k \in Deliveries : k[1] \in Events /\ k[2] \in Destinations
      /\ \A c \in claims : c.of \in Deliveries
  BY DEF Deliveries, TypeOK, Claims
<1>3. /\ \A k \in new : status[k] = "none" /\ attempts[k] = 0 /\ received[k] = 0
      /\ \A k \in new : Sending(k) = {}
      /\ \A c \in claims : c.of \notin new /\ c.of[1] # e
  BY <1>1 DEF RowsAreWhole, ClaimsAreKnown, Sending
<1> HIDE DEF new
<1>4. TypeOK'
  BY <1>1 DEF TypeOK
<1>5. RowsAreWhole'
  <2>1. \A k \in new : k[1] = e
    BY DEF new
  <2>2. QED
    BY <1>1, <1>2, <1>3, <2>1 DEF RowsAreWhole, TypeOK
<1>6. ClaimsAreKnown'
  BY <1>1, <1>2, <1>3 DEF ClaimsAreKnown, TypeOK
<1>7. SendsAreReserved'
  <2>1. \A k \in Deliveries : Sending(k)' = Sending(k)
    BY <1>1 DEF Sending
  <2>2. SUFFICES ASSUME NEW k \in Deliveries
                 PROVE  /\ IsFiniteSet(Sending(k)')
                        /\ status'[k] # "none" =>
                             received'[k] + Cardinality(Sending(k)') <= attempts'[k]
    BY DEF SendsAreReserved
  <2>3. CASE k \in new
    <3>1. Sending(k)' = {} /\ received'[k] = 0 /\ attempts'[k] = 0
      BY <1>1, <1>3, <2>1, <2>3
    <3>2. IsFiniteSet({}) /\ Cardinality({}) = 0
      BY FS_EmptySet
    <3>3. QED
      BY <3>1, <3>2
  <2>4. CASE k \notin new
    BY <1>1, <2>1, <2>4 DEF SendsAreReserved
  <2>5. QED
    BY <2>3, <2>4
<1>8. SettledIsUnclaimed' /\ OutcomeIsLatest'
  BY <1>1 DEF SettledIsUnclaimed, OutcomeIsLatest
<1>9. NoOrphanDelivery'
  <2>1. \A k \in new : k[1] = e /\ dest[k[2]].state = "live"
    BY DEF new, Subscribers
  <2>2. QED
    BY <1>1, <1>2, <2>1 DEF NoOrphanDelivery, TypeOK
<1>10. QED
  BY <1>4, <1>5, <1>6, <1>7, <1>8, <1>9

(* An event is pruned once it has no delivery left. *)
LEMMA PruneEventKeeps ==
  ASSUME OutboxInv, NEW e \in Events, PruneEvent(e)
  PROVE  OutboxInv'
<1> USE DEF OutboxInv
<1>1. /\ stored' = [stored EXCEPT ![e] = "pruned"]
      /\ UNCHANGED <<dest, status, attempts, generation, claims, received, verdict, edits>>
  BY DEF PruneEvent
<1>2. \A k \in Deliveries : k[1] \in Events /\ (k[1] = e => status[k] = "none")
  BY DEF PruneEvent, Prunable, Deliveries
<1>3. \A c \in claims : c.of \in Deliveries
  BY DEF TypeOK, Claims
<1>4. TypeOK'
  BY <1>1 DEF TypeOK
<1>5. RowsAreWhole' /\ NoOrphanDelivery'
  BY <1>1, <1>2 DEF RowsAreWhole, NoOrphanDelivery, TypeOK
<1>6. ClaimsAreKnown'
  BY <1>1, <1>2, <1>3 DEF ClaimsAreKnown, TypeOK
<1>7. SendsAreReserved'
  BY <1>1, ReservedStays
<1>8. SettledIsUnclaimed' /\ OutcomeIsLatest'
  BY <1>1 DEF SettledIsUnclaimed, OutcomeIsLatest
<1>9. QED
  BY <1>4, <1>5, <1>6, <1>7, <1>8

(* The reaper ends a delivery only when no attempt is left. *)
LEMMA ReapKeeps ==
  ASSUME OutboxInv, NEW k \in Deliveries, reapExpired(k)
  PROVE  OutboxInv'
<1> USE DEF OutboxInv
<1>1. /\ status' = [status EXCEPT ![k] = ReapedStatus(k)]
      /\ status[k] = "delivering"
      /\ UNCHANGED <<dest, stored, attempts, generation, claims, received, verdict, edits>>
  BY DEF reapExpired
<1>2. /\ ReapedStatus(k) \in {"failed", "pending"}
      /\ ReapedStatus(k) = "failed" => attempts[k] = MaxAttempts
  BY BoundsAssumption DEF ReapedStatus, TypeOK
<1>3. \A c \in claims : c.of \in Deliveries
  BY DEF TypeOK, Claims
<1>4. TypeOK'
  BY <1>1, <1>2 DEF TypeOK
<1>5. RowsAreWhole' /\ NoOrphanDelivery'
  BY <1>1, <1>2 DEF RowsAreWhole, NoOrphanDelivery, TypeOK
<1>6. ClaimsAreKnown'
  BY <1>1, <1>2, <1>3 DEF ClaimsAreKnown, TypeOK
<1>7. SendsAreReserved'
  <2>1. \A i \in Deliveries : status'[i] # "none" => status[i] # "none"
    BY <1>1, <1>2 DEF TypeOK
  <2>2. QED
    BY <1>1, <2>1, ReservedStays
<1>8. SettledIsUnclaimed' /\ OutcomeIsLatest'
  BY <1>1, <1>2 DEF SettledIsUnclaimed, OutcomeIsLatest, TypeOK
<1>9. QED
  BY <1>4, <1>5, <1>6, <1>7, <1>8

(* Fewer claims in memory, and the rest as it was: CompleteFails, Crash.    *)
LEMMA ClaimsGo ==
  ASSUME OutboxInv, claims' \subseteq claims, UNCHANGED <<dest, outbox, edits>>
  PROVE  OutboxInv'
<1> USE DEF OutboxInv, outbox
<1>1. TypeOK' /\ RowsAreWhole' /\ OutcomeIsLatest' /\ NoOrphanDelivery'
  BY DEF TypeOK, RowsAreWhole, OutcomeIsLatest, NoOrphanDelivery
<1>2. ClaimsAreKnown' /\ SettledIsUnclaimed'
  BY DEF ClaimsAreKnown, SettledIsUnclaimed
<1>3. SendsAreReserved'
  <2>1. SUFFICES ASSUME NEW k \in Deliveries
                 PROVE  /\ IsFiniteSet(Sending(k)')
                        /\ status[k] # "none" =>
                             received[k] + Cardinality(Sending(k)') <= attempts[k]
    BY DEF SendsAreReserved
  <2>2. Sending(k)' \subseteq Sending(k) /\ IsFiniteSet(Sending(k))
    BY DEF Sending, SendsAreReserved
  <2>3. /\ IsFiniteSet(Sending(k)')
        /\ Cardinality(Sending(k)') <= Cardinality(Sending(k))
        /\ Cardinality(Sending(k)') \in Nat /\ Cardinality(Sending(k)) \in Nat
    BY <2>2, FS_Subset, FS_CardinalityType
  <2>4. QED
    BY <2>3 DEF SendsAreReserved, TypeOK
<1>4. QED
  BY <1>1, <1>2, <1>3

(* complete writes the outcome of the newest claim, which nobody holds any  *)
(* more, or nothing at all.                                                 *)
LEMMA CompleteKeeps ==
  ASSUME OutboxInv, NEW c \in claims, complete(c)
  PROVE  OutboxInv'
<1> USE DEF OutboxInv
<1>1. CASE ~ Current(c)
  BY <1>1, ClaimsGo DEF complete, outbox
<1>2. CASE Current(c)
  <2> DEFINE k == c.of
  <2>1. /\ k \in Deliveries
        /\ c.gen \in Nat /\ c.attempt \in Nat
        /\ c.outcome \in {"delivered", "retry", "permanent"}
        /\ status[k] = "delivering" /\ generation[k] = c.gen
        /\ c.attempt = attempts[k] /\ c.outcome = verdict[k]
    BY <1>2 DEF TypeOK, Claims, Outcomes, Current, complete, ClaimsAreKnown, RowsAreWhole
  <2>2. /\ StatusAfter(c) \in {"delivered", "failed", "pending"}
        /\ StatusAfter(c) = "delivered" => verdict[k] = "delivered"
        /\ StatusAfter(c) = "failed" => verdict[k] = "permanent" \/ attempts[k] = MaxAttempts
    BY <2>1, BoundsAssumption DEF StatusAfter, TypeOK
  <2>3. /\ claims' = claims \ {c}
        /\ status' = [status EXCEPT ![k] = StatusAfter(c)]
        /\ UNCHANGED <<dest, stored, attempts, generation, received, verdict, edits>>
    BY <1>2 DEF complete
  <2>4. \A b \in claims' : b \in claims /\ b.of \in Deliveries /\ (b.of = k => b.gen # generation[k])
    BY <2>1, <2>3 DEF ClaimsAreKnown, TypeOK, Claims
  <2> HIDE DEF k
  <2>5. TypeOK'
    BY <2>1, <2>2, <2>3 DEF TypeOK
  <2>6. RowsAreWhole' /\ NoOrphanDelivery'
    BY <2>1, <2>2, <2>3 DEF RowsAreWhole, NoOrphanDelivery, TypeOK
  <2>7. ClaimsAreKnown'
    BY <2>1, <2>2, <2>3, <2>4 DEF ClaimsAreKnown, TypeOK
  <2>8. SettledIsUnclaimed' /\ OutcomeIsLatest'
    BY <2>1, <2>2, <2>3, <2>4 DEF SettledIsUnclaimed, OutcomeIsLatest, TypeOK
  <2>9. SendsAreReserved'
    <3>1. \A i \in Deliveries : Sending(i)' = Sending(i)
      BY <2>1, <2>3 DEF Sending
    <3>2. QED
      BY <2>1, <2>2, <2>3, <3>1 DEF SendsAreReserved, TypeOK
  <2>10. QED
    BY <2>5, <2>6, <2>7, <2>8, <2>9
<1>3. QED
  BY <1>1, <1>2

(* A send that ends moves from the sends under way to those received, and   *)
(* its answer is the verdict only of the newest claim.                      *)
LEMMA DeliverKeeps ==
  ASSUME OutboxInv, NEW c \in claims, deliverClaim(c)
  PROVE  OutboxInv'
<1> USE DEF OutboxInv
<1>1. PICK o \in SendOutcomes \cup LoadOutcomes :
        /\ claims' = (claims \ {c}) \cup {[c EXCEPT !.outcome = o[1]]}
        /\ received' = IF o[2] = "arrived" /\ status[c.of] # "none"
                       THEN [received EXCEPT ![c.of] = @ + 1] ELSE received
        /\ verdict' = IF generation[c.of] = c.gen
                      THEN [verdict EXCEPT ![c.of] = o[1]] ELSE verdict
  BY DEF deliverClaim
<1>2. c.outcome = "none" /\ UNCHANGED <<dest, stored, status, attempts, generation, edits>>
  BY DEF deliverClaim
<1> DEFINE k == c.of
           d == [c EXCEPT !.outcome = o[1]]
<1>3. o[1] \in {"delivered", "retry", "permanent"}
  BY DEF SendOutcomes, LoadOutcomes
<1>4. /\ c \in Claims /\ d \in Claims /\ k \in Deliveries
      /\ d.of = k /\ d.gen = c.gen /\ d.attempt = c.attempt /\ d.outcome = o[1]
  BY <1>3 DEF TypeOK, Claims, Outcomes
<1>5. \A b \in claims : b \in Claims /\ b.of \in Deliveries
  BY DEF TypeOK, Claims
<1>6. \A b \in claims' : b = d \/ (b \in claims /\ b # c)
  BY <1>1
<1> HIDE DEF k, d
<1>7. /\ \A i \in Deliveries : i # k => verdict'[i] = verdict[i] /\ received'[i] = received[i]
      /\ verdict'[k] = IF generation[k] = c.gen THEN o[1] ELSE verdict[k]
      /\ received'[k] \in {received[k], received[k] + 1}
      /\ status[k] = "none" => received'[k] = received[k]
  BY <1>1, <1>4 DEF TypeOK, k
<1>8. TypeOK'
  <2>1. claims' \in SUBSET Claims
    BY <1>4, <1>5, <1>6
  <2>2. received' \in [Deliveries -> Nat]
    <3>1. [received EXCEPT ![c.of] = @ + 1] \in [Deliveries -> Nat]
      BY <1>4 DEF TypeOK, k
    <3>2. QED
      BY <1>1, <3>1 DEF TypeOK
  <2>3. verdict' \in [Deliveries -> Outcomes \cup {"none"}]
    BY <1>1, <1>3 DEF TypeOK, Outcomes
  <2>4. QED
    BY <1>2, <2>1, <2>2, <2>3 DEF TypeOK
<1>9. RowsAreWhole'
  BY <1>2, <1>4, <1>7 DEF RowsAreWhole
<1>10. ClaimsAreKnown'
  <2>1. ASSUME NEW b \in claims'
        PROVE  /\ b.gen > 0 /\ b.attempt = b.gen
               /\ stored'[b.of[1]] # "untold"
               /\ status'[b.of] # "none" => b.gen <= generation'[b.of]
               /\ b.gen = generation'[b.of] => b.outcome = verdict'[b.of]
    <3>1. CASE b = d
      BY <1>2, <1>4, <1>7, <3>1 DEF ClaimsAreKnown, k
    <3>2. CASE b \in claims /\ b # c
      <4>1. b.of = k => b.gen # c.gen
        BY <3>2 DEF ClaimsAreKnown, k
      <4>2. QED
        BY <1>2, <1>5, <1>7, <3>2, <4>1 DEF ClaimsAreKnown
    <3>3. QED
      BY <1>6, <3>1, <3>2
  <2>2. ASSUME NEW a \in claims', NEW b \in claims', a.of = b.of, a.gen = b.gen
        PROVE  a = b
    BY <1>4, <1>6, <2>2 DEF ClaimsAreKnown, k
  <2>3. QED
    BY <2>1, <2>2 DEF ClaimsAreKnown
<1>11. SendsAreReserved'
  <2>1. \A i \in Deliveries : i # k => Sending(i)' = Sending(i)
    BY <1>4, <1>6, <1>1 DEF Sending, d, k
  <2>2. Sending(k)' = Sending(k) \ {c} /\ c \in Sending(k)
    BY <1>1, <1>2, <1>3, <1>4 DEF Sending, d, k
  <2>3. /\ IsFiniteSet(Sending(k)')
        /\ Cardinality(Sending(k)') = Cardinality(Sending(k)) - 1
        /\ Cardinality(Sending(k)) \in Nat
    BY <1>4, <2>2, FS_RemoveElement, FS_CardinalityType DEF SendsAreReserved
  <2>4. status[k] # "none" => received'[k] + Cardinality(Sending(k)') <= attempts[k]
    BY <1>4, <1>7, <2>3 DEF SendsAreReserved, TypeOK
  <2>5. QED
    BY <1>2, <1>7, <2>1, <2>3, <2>4 DEF SendsAreReserved
<1>12. SettledIsUnclaimed'
  <2>1. \A b \in claims' : \E a \in claims : a.of = b.of /\ a.gen = b.gen
    BY <1>4, <1>6 DEF k
  <2>2. QED
    BY <1>2, <2>1 DEF SettledIsUnclaimed
<1>13. OutcomeIsLatest' /\ NoOrphanDelivery'
  <2>1. generation[k] = c.gen =>
          status[k] # "delivered" /\ (status[k] = "failed" => attempts[k] = MaxAttempts)
    BY <1>4 DEF SettledIsUnclaimed, k
  <2>2. QED
    BY <1>2, <1>7, <2>1 DEF OutcomeIsLatest, NoOrphanDelivery
<1>14. QED
  BY <1>8, <1>9, <1>10, <1>11, <1>12, <1>13

(* A claim is newer than all the others of its delivery, and reserves the   *)
(* send it is about to make.                                                *)
LEMMA ClaimKeeps ==
  ASSUME OutboxInv, NEW w \in Dispatchers, claim(w)
  PROVE  OutboxInv'
<1> USE DEF OutboxInv
<1> DEFINE c(k) == [by |-> w, of |-> k, attempt |-> attempts[k] + 1,
                    gen |-> generation[k] + 1, outcome |-> "none"]
<1>1. PICK batch \in SUBSET Claimable :
        /\ status' = [k \in Deliveries |-> IF k \in batch THEN "delivering" ELSE status[k]]
        /\ attempts' = AttemptsAfter(batch)
        /\ generation' = [k \in Deliveries |->
               IF k \in batch THEN generation[k] + 1 ELSE generation[k]]
        /\ claims' = claims \cup
             {[by |-> w, of |-> k, attempt |-> AttemptsAfter(batch)[k],
               gen |-> generation[k] + 1, outcome |-> "none"] : k \in batch}
        /\ verdict' = [k \in Deliveries |-> IF k \in batch THEN "none" ELSE verdict[k]]
  BY DEF claim
<1>2. UNCHANGED <<dest, stored, received, edits>>
  BY DEF claim
<1>3. \A k \in batch : k \in Deliveries /\ status[k] = "pending" /\ attempts[k] < MaxAttempts
  BY <1>1 DEF Claimable
<1>4. attempts' = [k \in Deliveries |-> IF k \in batch THEN attempts[k] + 1 ELSE attempts[k]]
  BY <1>1 DEF AttemptsAfter
<1>5. /\ \A b \in claims' : b \in claims \/ (\E k \in batch : b = c(k))
      /\ \A k \in batch : c(k) \in claims'
      /\ claims \subseteq claims'
  BY <1>1, <1>3 DEF AttemptsAfter
<1>6. \A b \in claims : b \in Claims /\ b.of \in Deliveries /\ b.gen \in Nat
  BY DEF TypeOK, Claims
<1>7. \A k \in batch :
        /\ c(k) \in Claims /\ c(k).of = k /\ c(k).outcome = "none"
        /\ c(k).attempt = attempts[k] + 1 /\ c(k).gen = generation[k] + 1
  BY <1>3, BoundsAssumption DEF TypeOK, Claims, Outcomes
<1> HIDE DEF c
<1>8. TypeOK'
  <2>1. claims' \in SUBSET Claims
    BY <1>5, <1>6, <1>7
  <2>2. attempts' \in [Deliveries -> 0..MaxAttempts]
    BY <1>3, <1>4, BoundsAssumption DEF TypeOK
  <2>3. QED
    BY <1>1, <1>2, <2>1, <2>2 DEF TypeOK, Outcomes
<1>9. RowsAreWhole'
  BY <1>1, <1>2, <1>3, <1>4 DEF RowsAreWhole, TypeOK
<1>10. \A b \in claims : \A k \in batch : b.of = k => b.gen <= generation[k]
  BY <1>3 DEF ClaimsAreKnown
<1>11. ClaimsAreKnown'
  <2>1. ASSUME NEW b \in claims'
        PROVE  /\ b.gen > 0 /\ b.attempt = b.gen
               /\ stored'[b.of[1]] # "untold"
               /\ status'[b.of] # "none" => b.gen <= generation'[b.of]
               /\ b.gen = generation'[b.of] => b.outcome = verdict'[b.of]
    <3>1. CASE b \in claims /\ b.of \in batch
      BY <1>1, <1>2, <1>3, <1>6, <1>10, <3>1 DEF ClaimsAreKnown, TypeOK
    <3>2. CASE b \in claims /\ b.of \notin batch
      BY <1>1, <1>2, <1>6, <3>2 DEF ClaimsAreKnown, TypeOK
    <3>3. ASSUME NEW k \in batch, b = c(k)
          PROVE  /\ b.gen > 0 /\ b.attempt = b.gen
                 /\ stored'[b.of[1]] # "untold"
                 /\ status'[b.of] # "none" => b.gen <= generation'[b.of]
                 /\ b.gen = generation'[b.of] => b.outcome = verdict'[b.of]
      <4>1. generation[k] \in Nat /\ attempts[k] = generation[k] /\ stored[k[1]] = "stored"
        BY <1>3 DEF TypeOK, RowsAreWhole
      <4>2. QED
        BY <1>1, <1>2, <1>3, <1>7, <3>3, <4>1
    <3>4. QED
      BY <1>5, <3>1, <3>2, <3>3
  <2>2. ASSUME NEW a \in claims', NEW b \in claims', a.of = b.of, a.gen = b.gen
        PROVE  a = b
    <3>1. \A k \in batch : generation[k] \in Nat
      BY <1>3 DEF TypeOK
    <3>2. CASE a \in claims /\ b \in claims
      BY <2>2, <3>2 DEF ClaimsAreKnown
    <3>3. CASE a \in claims /\ \E k \in batch : b = c(k)
      BY <1>6, <1>7, <1>10, <2>2, <3>1, <3>3
    <3>4. CASE b \in claims /\ \E k \in batch : a = c(k)
      BY <1>6, <1>7, <1>10, <2>2, <3>1, <3>4
    <3>5. CASE (\E k \in batch : a = c(k)) /\ (\E k \in batch : b = c(k))
      BY <1>7, <2>2, <3>5
    <3>6. QED
      BY <1>5, <3>2, <3>3, <3>4, <3>5
  <2>3. QED
    BY <2>1, <2>2 DEF ClaimsAreKnown
<1>12. SendsAreReserved'
  <2>1. \A k \in Deliveries : k \notin batch => Sending(k)' = Sending(k)
    BY <1>5, <1>7 DEF Sending
  <2>2. \A k \in batch : Sending(k)' = Sending(k) \cup {c(k)}
    BY <1>5, <1>7 DEF Sending
  <2>3. ASSUME NEW k \in batch
        PROVE  /\ IsFiniteSet(Sending(k)')
               /\ received[k] + Cardinality(Sending(k)') <= attempts[k] + 1
    <3>1. /\ IsFiniteSet(Sending(k)) /\ Cardinality(Sending(k)) \in Nat
          /\ received[k] + Cardinality(Sending(k)) <= attempts[k]
      BY <1>3, FS_CardinalityType DEF SendsAreReserved
    <3>2. /\ IsFiniteSet(Sending(k)')
          /\ Cardinality(Sending(k)') \in {Cardinality(Sending(k)), Cardinality(Sending(k)) + 1}
      BY <2>2, <3>1, FS_AddElement
    <3>3. QED
      BY <1>3, <3>1, <3>2 DEF TypeOK
  <2>4. QED
    BY <1>1, <1>2, <1>4, <2>1, <2>3 DEF SendsAreReserved
<1>13. SettledIsUnclaimed'
  <2>1. \A b \in claims' : b.of \notin batch => b \in claims
    BY <1>5, <1>7
  <2>2. QED
    BY <1>1, <1>4, <2>1 DEF SettledIsUnclaimed
<1>14. OutcomeIsLatest' /\ NoOrphanDelivery'
  BY <1>1, <1>2, <1>3, <1>4 DEF OutcomeIsLatest, NoOrphanDelivery
<1>15. QED
  BY <1>8, <1>9, <1>11, <1>12, <1>13, <1>14

-----------------------------------------------------------------------------
(* Every step of the outbox keeps the inductive invariant. *)
LEMMA OutboxStep == OutboxInv /\ [Next]_vars => OutboxInv'
<1> SUFFICES ASSUME OutboxInv, [Next]_vars PROVE OutboxInv'
  OBVIOUS
<1>1. CASE UNCHANGED vars
  BY <1>1, ClaimsGo DEF vars, outbox
<1>2. ASSUME NEW d \in Destinations,
             \/ CreateNotificationDestination(d)
             \/ UpdateNotificationDestination(d)
             \/ DeleteNotificationDestination(d)
      PROVE OutboxInv'
  BY <1>2, EditKeeps, DeleteKeeps
<1>3. ASSUME NEW e \in Events, Publish(e) \/ PruneEvent(e) PROVE OutboxInv'
  BY <1>3, PublishKeeps, PruneEventKeeps
<1>4. ASSUME NEW w \in Dispatchers, claim(w) PROVE OutboxInv'
  BY <1>4, ClaimKeeps
<1>5. ASSUME NEW w \in Dispatchers, Crash(w) PROVE OutboxInv'
  BY <1>5, ClaimsGo DEF Crash
<1>6. ASSUME NEW c \in claims, deliverClaim(c) \/ complete(c) PROVE OutboxInv'
  BY <1>6, DeliverKeeps, CompleteKeeps
<1>7. ASSUME NEW c \in claims, CompleteFails(c) PROVE OutboxInv'
  BY <1>7, ClaimsGo DEF CompleteFails
<1>8. ASSUME NEW k \in Deliveries, reapExpired(k) \/ PruneDelivery(k) PROVE OutboxInv'
  BY <1>8, ReapKeeps, PruneKeeps
<1>9. QED
  BY <1>1, <1>2, <1>3, <1>4, <1>5, <1>6, <1>7, <1>8 DEF Next

(* What the run checks of the outbox holds for any number of events,        *)
(* destinations, dispatchers and attempts: no message is sent more often    *)
(* than claim counted, a settled delivery says what its latest claim came   *)
(* to, and none that is due lost its event or its destination.              *)
THEOREM OutboxAgreesHolds == Spec => []OutboxAgrees
<1>1. OutboxInv => OutboxAgrees
  <2> SUFFICES ASSUME OutboxInv PROVE SendsAreCounted
    BY DEF OutboxInv, OutboxAgrees
  <2>1. SUFFICES ASSUME NEW k \in Deliveries, status[k] # "none"
                 PROVE  received[k] <= attempts[k] /\ attempts[k] <= MaxAttempts
    BY DEF SendsAreCounted
  <2>2. Cardinality(Sending(k)) \in Nat
    BY FS_CardinalityType DEF OutboxInv, SendsAreReserved
  <2>3. QED
    BY <2>1, <2>2, BoundsAssumption DEF OutboxInv, SendsAreReserved, TypeOK
<1>2. QED
  BY <1>1, OutboxStarts, OutboxStep, PTL DEF Spec

(* No late answer, reaper, claim or publication sends a settled delivery    *)
(* round again, for any number of dispatchers that hold old claims of it.   *)
THEOREM SettledIsFinalHolds == Spec => SettledIsFinal
<1> DEFINE Stays == \A k \in Deliveries :
                      status[k] \in {"delivered", "failed"} =>
                        status'[k] \in {status[k], "none"}
<1>1. OutboxInv /\ [Next]_vars => [Stays]_vars
  <2> SUFFICES ASSUME OutboxInv, Next PROVE Stays
    OBVIOUS
  <2> USE DEF OutboxInv
  <2>1. CASE UNCHANGED status
    BY <2>1
  <2>2. ASSUME NEW e \in Events, Publish(e) PROVE Stays
    BY <2>2 DEF Publish, RowsAreWhole
  <2>3. ASSUME NEW w \in Dispatchers, claim(w) PROVE Stays
    BY <2>3 DEF claim, Claimable
  <2>4. ASSUME NEW c \in claims, complete(c) PROVE Stays
    BY <2>4 DEF complete, Current, TypeOK
  <2>5. ASSUME NEW k \in Deliveries, reapExpired(k) PROVE Stays
    BY <2>5 DEF reapExpired, TypeOK
  <2>6. ASSUME NEW gone, WithoutRows(gone) PROVE Stays
    BY <2>6 DEF WithoutRows
  <2>7. QED
    BY <2>1, <2>2, <2>3, <2>4, <2>5, <2>6
       DEF Next, outbox, CreateNotificationDestination, UpdateNotificationDestination,
           DeleteNotificationDestination, PruneEvent, Crash, deliverClaim, CompleteFails,
           PruneDelivery
<1>2. QED
  BY <1>1, OutboxStarts, OutboxStep, PTL DEF Spec, SettledIsFinal
=============================================================================
