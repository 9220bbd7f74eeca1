-------------------------- MODULE OrganisationProofs --------------------------
(***************************************************************************)
(* What an organisation is told every day, how it was set up, and how it is *)
(* connected to GitHub.                                                     *)
(***************************************************************************)
EXTENDS Digest, SetupSession, Installations, FiniteSetTheorems, WellFoundedInduction,
        SequenceTheorems, TLAPS

-----------------------------------------------------------------------------
(* What the daily digest promises, for any finite set of issues, any set of *)
(* schedulers and any cap, budget and number of attempts.                   *)
(*                                                                          *)
(* Neither the scheduler's lock nor the lease of the write job is what      *)
(* keeps a day's run in order: both may be lost in the middle.  What does   *)
(* is the status of the run, which every statement checks, and two facts    *)
(* about its contents: an item's cached card is about the facts frozen with *)
(* it (ItemsSound), and so is every card the writer left (PayloadSound).    *)

\* What is sent, is included and is in the ledger.
RecordAgrees ==
  run.status = "delivered" =>
    run.included = {c.issue : c \in run.sent} /\ run.ledger = {c.issue : c \in run.sent}

\* An issue is frozen once, with the cached cards of its spell and its facts.
ItemsSound ==
  /\ \A n, m \in run.items : n.issue = m.issue => n = m
  /\ \A n \in run.items : \A r \in n.cached :
        r.issue = n.issue /\ r.spell = n.spell /\ r.about = n.facts

\* A card of the payload is about the facts its issue was frozen with.
PayloadSound ==
  /\ \A c \in run.payload : \E n \in run.items : c.issue = n.issue /\ c.about = n.facts
  /\ run.status = "none" => run.payload = {}

\* The variables beside the run and its lock; a job that waits has an attempt left.
OtherTypes ==
  /\ issue \in [Issues -> [on : BOOLEAN, spell : Time, facts : Time]]
  /\ enabled \in BOOLEAN
  /\ strict \in [writer : BOOLEAN, validator : BOOLEAN]
  /\ job \in [state : {"none", "pending", "claimed"}, tries : 0..MaxTries]
  /\ job.state = "pending" => job.tries < MaxTries
  /\ writers \subseteq {"owner", "zombie"}
  /\ tick \in [Schedulers -> {"idle", "freeze", "status", "enqueue", "publish", "mark"}]
  /\ changes \in 0..MaxChanges

DigestInv == TypeOK /\ OtherTypes /\ IsFiniteSet(lock) /\ RecordAgrees /\ ItemsSound /\ PayloadSound

-----------------------------------------------------------------------------
(* The operators. *)

LEMMA OldestIsOne ==
  ASSUME NEW S, S \subseteq Issues, S # {}, \A i \in S : issue[i].spell \in Nat
  PROVE  OldestOf(S) \in S
<1> DEFINE T == {issue[i].spell : i \in S}
<1>1. T \subseteq Nat /\ T # {}
    OBVIOUS
<1>2. PICK x \in T : \A y \in T : ~ (<<y, x>> \in OpToRel(<, Nat))
    BY <1>1, NatLessThanWellFounded, WFMin
<1>3. \A y \in T : ~ (y < x)
    BY <1>1, <1>2 DEF OpToRel
<1>4. ASSUME NEW y \in T PROVE x <= y
  <2>1. x \in Nat /\ y \in Nat /\ ~(y < x)
      BY <1>1, <1>3
  <2>. QED BY <2>1
<1>5. PICK i \in S : issue[i].spell = x
    OBVIOUS
<1>6. \A j \in S : issue[i].spell <= issue[j].spell
    BY <1>4, <1>5
<1>. QED BY <1>5, <1>6 DEF OldestOf

LEMMA SelectionsAreIssues ==
  ASSUME TypeOK, NEW chosen \in Selections
  PROVE  chosen \in SUBSET Issues
<1>1. IsFiniteSet(Waiting) /\ Waiting \subseteq Issues
    BY DigestAssumption, FS_Subset DEF Waiting
<1>2. \A i \in Issues : issue[i].spell \in Nat
    BY DigestAssumption DEF TypeOK, Time
<1>3. CASE Cardinality(Waiting) <= CardCap
    BY <1>1, <1>3 DEF Selections
<1>4. CASE ~(Cardinality(Waiting) <= CardCap)
  <2>1. PICK top \in SUBSET Waiting : /\ Cardinality(top) = CardCap - 1
                                     /\ chosen = top \cup {OldestOf(Waiting \ top)}
      BY <1>4 DEF Selections
  <2>2. Cardinality(Waiting) \in Nat
      BY <1>1, FS_CardinalityType
  <2>3. Waiting \ top # {}
    <3>1. Waiting \ top = {} => Waiting = top
        BY <2>1
    <3>. QED BY <2>1, <2>2, <3>1, <1>4, DigestAssumption
  <2>4. OldestOf(Waiting \ top) \in Waiting \ top
      BY <1>1, <1>2, <2>3, OldestIsOne
  <2>. QED BY <1>1, <2>1, <2>4
<1>. QED BY <1>3, <1>4

\* The items that are frozen are candidates, one for each issue, with the cards their facts match.
Frozen(chosen) ==
  {[issue |-> i, spell |-> issue[i].spell, facts |-> issue[i].facts, cached |-> CachedFor(i)] :
     i \in chosen}

LEMMA FrozenSound ==
  ASSUME TypeOK, NEW chosen \in SUBSET Issues
  PROVE  /\ Frozen(chosen) \in SUBSET Candidate
         /\ \A n, m \in Frozen(chosen) : n.issue = m.issue => n = m
         /\ \A n \in Frozen(chosen) : \A r \in n.cached :
               r.issue = n.issue /\ r.spell = n.spell /\ r.about = n.facts
<1>1. \A i \in Issues : CachedFor(i) \in SUBSET Row
    BY DEF TypeOK, CachedFor
<1>2. \A i \in Issues : issue[i].spell \in Time /\ issue[i].facts \in Time
    BY DEF TypeOK
<1>3. Frozen(chosen) \in SUBSET Candidate
    BY <1>1, <1>2 DEF Frozen, Candidate
<1>4. \A n, m \in Frozen(chosen) : n.issue = m.issue => n = m
    BY DEF Frozen
<1>5. \A n \in Frozen(chosen) : \A r \in n.cached :
         r.issue = n.issue /\ r.spell = n.spell /\ r.about = n.facts
    BY DEF Frozen, CachedFor
<1>. QED BY <1>3, <1>4, <1>5

LEMMA PayloadIsCards ==
  ASSUME TypeOK, ItemsSound, NEW wanted
  PROVE  /\ Payload(wanted) \in SUBSET Card
         /\ \A c \in Payload(wanted) : \E n \in run.items : c.issue = n.issue /\ c.about = n.facts
<1>1. run.items \in SUBSET Candidate
    BY DEF TypeOK, Run
<1>2. ASSUME NEW c \in CardsFrom(wanted)
      PROVE  c \in Card /\ \E n \in run.items : c.issue = n.issue /\ c.about = n.facts
  <2>1. PICK n \in run.items :
            /\ c = [issue |-> n.issue, about |-> n.facts, kind |-> wanted[n.issue]]
                               /\ c.kind \in Kinds
      BY DEF CardsFrom, Cold
  <2>2. n.issue \in Issues /\ n.facts \in Time
      BY <1>1 DEF Candidate
  <2>. QED BY <2>1, <2>2 DEF Card
<1>3. ASSUME NEW n \in run.items, NEW c \in FromCache(n)
      PROVE  c \in Card /\ c.issue = n.issue /\ c.about = n.facts
  <2>1. PICK r \in n.cached : c = [issue |-> n.issue, about |-> r.about, kind |-> r.kind]
      BY DEF FromCache
  <2>2. n.issue \in Issues /\ r \in Row
      BY <1>1 DEF Candidate
  <2>. QED BY <2>1, <2>2 DEF Card, Row, ItemsSound
<1>. QED BY <1>2, <1>3 DEF Payload

\* A card that is accepted is of an item, and about what is true of the issue now.
LEMMA ShippedIsCurrent ==
  ASSUME TypeOK, ItemsSound, PayloadSound
  PROVE  /\ Shipped \in SUBSET Card
         /\ \A c \in Shipped : issue[c.issue].on /\ c.about = issue[c.issue].facts
<1> SUFFICES ASSUME NEW c \in Shipped
             PROVE  c \in Card /\ issue[c.issue].on /\ c.about = issue[c.issue].facts
    OBVIOUS
<1>1. PICK n \in run.items : Accepted(n) /\ c \in run.payload /\ c.issue = n.issue
    BY DEF Shipped, Accepts, CardOf
<1>2. issue[n.issue].on /\ issue[n.issue].facts = n.facts
    BY <1>1 DEF Accepted, StillUnified
<1>3. PICK m \in run.items : c.issue = m.issue /\ c.about = m.facts
    BY <1>1 DEF PayloadSound
<1>4. m = n
    BY <1>1, <1>3 DEF ItemsSound
<1>. QED BY <1>1, <1>2, <1>3, <1>4 DEF TypeOK, Run

CacheIs(S) == S \subseteq Row /\ \A r, q \in S : r.issue = q.issue /\ r.spell = q.spell => r = q

LEMMA CacheAfterSound == TypeOK /\ ItemsSound => CacheIs(CacheAfter)
<1> SUFFICES ASSUME TypeOK, ItemsSound PROVE CacheIs(CacheAfter)
    OBVIOUS
<1> DEFINE fresh == {n \in Accepts : n.cached = {}}
           stale == {r \in cache : r.old /\ \E n \in fresh :
                       r.issue = n.issue /\ r.spell = n.spell /\ r.about # n.facts}
           kept == (cache \ Retired) \ stale
           added == {n \in fresh : ~\E r \in kept : r.issue = n.issue /\ r.spell = n.spell}
           rowOf(n) == [issue |-> n.issue, spell |-> n.spell, about |-> n.facts, old |-> FALSE,
                        kind |-> (CHOOSE c \in CardOf(n) : TRUE).kind]
<1>1. CacheAfter = kept \cup {rowOf(n) : n \in added}
    BY DEF CacheAfter
<1>2. CacheIs(cache)
    BY DEF TypeOK, CacheIs
<1>3. \A n \in added : rowOf(n) \in Row
  <2> SUFFICES ASSUME NEW n \in added PROVE rowOf(n) \in Row
      OBVIOUS
  <2>1. n \in run.items /\ Accepted(n)
      BY DEF Accepts
  <2>2. n \in Candidate /\ CardOf(n) \subseteq Card
      BY <2>1 DEF TypeOK, Run, CardOf
  <2>3. CardOf(n) # {}
      BY <2>1 DEF Accepted
  <2>4. (CHOOSE c \in CardOf(n) : TRUE) \in Card
      BY <2>2, <2>3
  <2>5. (CHOOSE c \in CardOf(n) : TRUE).kind \in Kinds
      BY <2>4 DEF Card
  <2>. QED BY <2>2, <2>5 DEF Candidate, Row
<1>4. \A n, m \in added : n.issue = m.issue => n = m
    BY DEF Accepts, ItemsSound
<1>5. \A n \in added : rowOf(n).issue = n.issue /\ rowOf(n).spell = n.spell
    OBVIOUS
<1>6. \A r \in kept, n \in added : ~(r.issue = n.issue /\ r.spell = n.spell)
    OBVIOUS
<1>7. kept \subseteq cache
    OBVIOUS
<1> HIDE DEF fresh, stale, kept, added, rowOf
<1>. QED BY <1>1, <1>2, <1>3, <1>4, <1>5, <1>6, <1>7 DEF CacheIs

-----------------------------------------------------------------------------
(* What one step may do to the run, to the cache and to the lock. *)

RunMoves ==
  \/ run' = run
  \/ /\ run.status = "none"
     /\ \E chosen \in Selections :
          run' = [run EXCEPT !.status = "frozen", !.items = Frozen(chosen), !.ledger = chosen]
  \/ run.writes < MaxWrites /\ run' = [run EXCEPT !.writes = @ + 1]
  \/ /\ run.status \in {"frozen", "failed"}
     /\ \E wanted \in [Issues -> Kinds \cup {"deferred"}] :
          run' = [run EXCEPT !.status = "written", !.payload = Payload(wanted),
                             !.included = {c.issue : c \in Payload(wanted)}]
  \/ run.status = "written" /\ run' = Accounted
  \/ run.status # "delivered" /\ run' = [run EXCEPT !.status = "failed"]
  \/ run' = NoRun

CacheMoves ==
  \/ cache' = cache \/ cache' = CacheAfter
  \/ cache' = {[r EXCEPT !.old = TRUE] : r \in cache}

LockMoves ==
  lock' = lock \/ lock' = {} \/ \E s \in Schedulers : lock' = {s} \/ lock' = lock \ {s}

WriterActions(w) == WriterDoesWell(w) \/ WriterDoesBadly(w)

LEMMA WriterPersistsRun ==
  ASSUME NEW w, WriterActions(w)
  PROVE  RunMoves /\ UNCHANGED <<issue, enabled, strict, cache, tick, lock>>
<1>1. PICK wanted \in [Issues -> Kinds \cup {"deferred"}] : WriterPersists(w, wanted)
    BY DEF WriterActions, WriterDoesWell, WriterDoesBadly, Kinds
<1>. QED BY <1>1 DEF WriterPersists, RunMoves

LEMMA RunSteps == [Next]_vars => RunMoves /\ CacheMoves
<1> SUFFICES ASSUME [Next]_vars PROVE RunMoves /\ CacheMoves
    OBVIOUS
<1>1. CASE UNCHANGED <<run, cache>>
    BY <1>1 DEF RunMoves, CacheMoves
<1>2. ASSUME NEW s \in Schedulers, Freeze(s) PROVE RunMoves /\ CacheMoves
    BY <1>2 DEF Freeze, RunMoves, CacheMoves, Frozen
<1>3. ASSUME NEW s \in Schedulers, EnqueueWrite(s) PROVE RunMoves /\ CacheMoves
    BY <1>3 DEF EnqueueWrite, MayWrite, RunMoves, CacheMoves
<1>4. ASSUME NEW w \in writers, WriterActions(w) PROVE RunMoves /\ CacheMoves
    BY <1>4, WriterPersistsRun DEF CacheMoves
<1>5. ASSUME NEW s \in Schedulers, Publishes(s) PROVE RunMoves /\ CacheMoves
    BY <1>5 DEF Publishes, RunMoves, CacheMoves
<1>6. ASSUME NEW s \in Schedulers, MarkFailed(s) PROVE RunMoves /\ CacheMoves
    BY <1>6 DEF MarkFailed, FailedRun, RunMoves, CacheMoves
<1>7. CASE NewDay
    BY <1>7 DEF NewDay, RunMoves, CacheMoves
<1>8. CASE \/ \E i \in Issues : IssueMoves(i) \/ FactsChange(i)
           \/ DestinationToggled \/ Deploy \/ LockIsLost \/ LeaseLost
           \/ \E w \in writers : WriterThrows(w)
           \/ WriterStarts
    BY <1>1, <1>8 DEF IssueMoves, FactsChange, DestinationToggled, Deploy, LockIsLost, LeaseLost,
       WriterThrows, WriterStarts
<1>9. ASSUME NEW s \in Schedulers, \/ TickAborts(s) \/ PublicationFails(s) \/ TickStarts(s)
                                   \/ ReadStatus(s) \/ AlreadyDelivered(s) \/ Refused(s)
      PROVE  RunMoves /\ CacheMoves
    BY <1>1, <1>9
       DEF TickAborts, PublicationFails, TickStarts, ReadStatus, AlreadyDelivered, Refused
<1>10. CASE UNCHANGED vars
    BY <1>1, <1>10 DEF vars
<1>. QED BY <1>2, <1>3, <1>4, <1>5, <1>6, <1>7, <1>8, <1>9, <1>10
        DEF Next, World, Steps, WriterActions

\* The message of a run is made by its publication.
LEMMA PublicationSteps ==
  ASSUME TypeOK, [Next]_vars, run.status # "delivered", run'.status = "delivered"
  PROVE  UNCHANGED issue /\ run' = Accounted
<1>1. run \in Run
    BY DEF TypeOK
<1>2. run' = Accounted
  <2>1. ASSUME NEW chosen,
               run' = [run EXCEPT !.status = "frozen", !.items = Frozen(chosen), !.ledger = chosen]
        PROVE  FALSE
      BY <1>1, <2>1 DEF Run
  <2>2. ASSUME NEW wanted,
               run' = [run EXCEPT !.status = "written", !.payload = Payload(wanted),
                                  !.included = {c.issue : c \in Payload(wanted)}]
        PROVE  FALSE
    <3>1. run'.status = "written"
        BY <1>1, <2>2 DEF Run
    <3>. QED BY <3>1
  <2>3. ASSUME run' = [run EXCEPT !.writes = @ + 1] PROVE FALSE
      BY <1>1, <2>3 DEF Run
  <2>4. ASSUME run' = [run EXCEPT !.status = "failed"] PROVE FALSE
      BY <1>1, <2>4 DEF Run
  <2>5. run' # run /\ run' # NoRun
      BY DEF NoRun
  <2>6. RunMoves
      BY RunSteps
  <2>. QED BY <2>1, <2>2, <2>3, <2>4, <2>5, <2>6, Zenon DEF RunMoves
<1>3. UNCHANGED run => FALSE
    OBVIOUS
<1>. QED BY <1>2, <1>3 DEF Next, vars, World, Steps, IssueMoves, FactsChange, DestinationToggled,
        Deploy, LockIsLost, LeaseLost, TickAborts, PublicationFails, WriterThrows,
        WriterDoesBadly, WriterDoesWell, WriterPersists, TickStarts, Freeze, ReadStatus,
        EnqueueWrite, Publishes, AlreadyDelivered, Refused, MarkFailed, WriterStarts, NewDay

LEMMA StatusRead ==
  ASSUME TypeOK, NEW s, ReadStatus(s)
  PROVE  EndTick(s) \/ (UNCHANGED lock /\ \E pc \in {"enqueue", "publish"} :
                                             tick' = [tick EXCEPT ![s] = pc])
<1>1. run.status \in {"none", "frozen", "written", "delivered", "failed"}
    BY DEF TypeOK, Run
<1>2. CASE run.status \in {"frozen", "failed"}
    BY <1>2 DEF ReadStatus
<1>3. CASE run.status = "written"
    BY <1>3 DEF ReadStatus
<1>4. CASE run.status \in {"none", "delivered"}
    BY <1>4 DEF ReadStatus
<1>. QED BY <1>1, <1>2, <1>3, <1>4

LEMMA LockSteps == TypeOK /\ [Next]_vars => LockMoves
<1> SUFFICES ASSUME TypeOK, [Next]_vars PROVE LockMoves
    OBVIOUS
<1>1. CASE UNCHANGED lock
    BY <1>1 DEF LockMoves
<1>2. ASSUME NEW s \in Schedulers, Steps(s) \/ TickAborts(s) \/ PublicationFails(s)
      PROVE  LockMoves
  <2>1. CASE Freeze(s) \/ Refused(s) \/ PublicationFails(s)
      BY <1>1, <2>1 DEF Freeze, Refused, PublicationFails
  <2>2. CASE TickStarts(s)
      BY <2>2 DEF TickStarts, LockMoves
  <2>3. CASE EndTick(s)
      BY <2>3 DEF EndTick, LockMoves
  <2>4. CASE ReadStatus(s)
      BY <1>1, <2>3, <2>4, StatusRead
  <2>5. CASE \/ EnqueueWrite(s) \/ Publishes(s) \/ AlreadyDelivered(s)
             \/ MarkFailed(s) \/ TickAborts(s)
      BY <2>3, <2>5 DEF EnqueueWrite, Publishes, AlreadyDelivered, MarkFailed, TickAborts
  <2>. QED BY <1>2, <2>1, <2>2, <2>4, <2>5 DEF Steps
<1>3. ASSUME NEW w \in writers, WriterActions(w) PROVE LockMoves
  <2>1. UNCHANGED <<issue, enabled, strict, cache, tick, lock>>
      BY <1>3, WriterPersistsRun
  <2>. QED BY <1>1, <2>1
<1>4. CASE LockIsLost
    BY <1>4 DEF LockIsLost, LockMoves
<1>5. CASE \/ \E i \in Issues : IssueMoves(i) \/ FactsChange(i)
           \/ DestinationToggled \/ Deploy \/ LeaseLost
           \/ \E w \in writers : WriterThrows(w)
           \/ WriterStarts \/ NewDay
    BY <1>1, <1>5 DEF IssueMoves, FactsChange, DestinationToggled, Deploy, LeaseLost, WriterThrows,
       WriterStarts, NewDay
<1>6. CASE UNCHANGED vars
    BY <1>1, <1>6 DEF vars
<1>. QED BY <1>2, <1>3, <1>4, <1>5, <1>6 DEF Next, World, WriterActions

LEMMA OtherSteps == TypeOK /\ OtherTypes /\ [Next]_vars => OtherTypes'
<1> SUFFICES ASSUME TypeOK, OtherTypes, [Next]_vars PROVE OtherTypes'
    OBVIOUS
<1> USE DEF OtherTypes
<1>1. CASE UNCHANGED <<issue, enabled, strict, job, writers, tick, changes>>
    BY <1>1
<1>c. Change => changes' \in 0..MaxChanges /\ changes + 1 \in Time
    BY DigestAssumption DEF Change, Time
<1> DEFINE Tries == /\ job' \in [state : {"none", "pending", "claimed"}, tries : 0..MaxTries]
                    /\ job'.state = "pending" => job'.tries < MaxTries
<1>j. AttemptFails => Tries
    BY DigestAssumption DEF AttemptFails, NoJob
<1>2. ASSUME NEW i \in Issues, IssueMoves(i) \/ FactsChange(i) PROVE OtherTypes'
  <2>1. CASE IssueMoves(i)
    <3>1. issue[i] \in [on : BOOLEAN, spell : Time, facts : Time] /\ changes + 1 \in Time
        BY <1>c, <2>1 DEF IssueMoves
    <3>2. [on |-> ~issue[i].on, spell |-> IF issue[i].on THEN issue[i].spell ELSE changes + 1,
           facts |-> issue[i].facts] \in [on : BOOLEAN, spell : Time, facts : Time]
        BY <3>1
    <3>. QED BY <1>c, <2>1, <3>2 DEF IssueMoves
  <2>2. CASE FactsChange(i)
    <3>1. issue' = [issue EXCEPT ![i].facts = changes + 1] /\ changes + 1 \in Time
        BY <1>c, <2>2 DEF FactsChange
    <3>2. issue' \in [Issues -> [on : BOOLEAN, spell : Time, facts : Time]]
        BY <3>1
    <3>. QED BY <1>c, <2>2, <3>2 DEF FactsChange
  <2>. QED BY <1>2, <2>1, <2>2
<1>3. CASE DestinationToggled \/ LockIsLost
    BY <1>3, <1>c DEF DestinationToggled, LockIsLost
<1>4. CASE Deploy
    BY <1>4, <1>c DEF Deploy
<1>5. CASE LeaseLost
    BY <1>5, <1>c, <1>j DEF LeaseLost
<1>6. ASSUME NEW w \in writers, WriterThrows(w) PROVE OtherTypes'
    BY <1>6, <1>c, <1>j DEF WriterThrows
<1>7. ASSUME NEW w \in writers, WriterActions(w) PROVE OtherTypes'
  <2>1. PICK wanted : WriterPersists(w, wanted) /\ (UNCHANGED changes \/ Change)
      BY <1>7 DEF WriterActions, WriterDoesWell, WriterDoesBadly
  <2>2. job' = NoJob \/ AttemptFails \/ UNCHANGED job
      BY <2>1 DEF WriterPersists
  <2>3. Tries
      BY <1>j, <2>2, DigestAssumption DEF NoJob
  <2>. QED BY <1>c, <2>1, <2>3 DEF WriterPersists
<1>8. ASSUME NEW s \in Schedulers, Steps(s) \/ TickAborts(s) \/ PublicationFails(s)
      PROVE  OtherTypes'
  <2>1. /\ UNCHANGED <<issue, enabled, strict, writers>>
        /\ UNCHANGED changes \/ Change
        /\ UNCHANGED job \/ job' = [state |-> "pending", tries |-> 0]
      BY <1>8 DEF Steps, TickStarts, Freeze, ReadStatus, EnqueueWrite, Publishes, AlreadyDelivered,
         Refused, MarkFailed, TickAborts, PublicationFails
  <2>3. tick' \in [Schedulers -> {"idle", "freeze", "status", "enqueue", "publish", "mark"}]
    <3>1. CASE EndTick(s)
        BY <3>1 DEF EndTick
    <3>2. CASE TickStarts(s) \/ Freeze(s) \/ Refused(s) \/ PublicationFails(s)
        BY <3>2 DEF TickStarts, Freeze, Refused, PublicationFails
    <3>3. CASE ReadStatus(s)
        BY <3>1, <3>3, StatusRead
    <3>4. CASE \/ EnqueueWrite(s) \/ Publishes(s) \/ AlreadyDelivered(s) \/ MarkFailed(s)
               \/ TickAborts(s)
        BY <3>1, <3>4 DEF EnqueueWrite, Publishes, AlreadyDelivered, MarkFailed, TickAborts
    <3>. QED BY <1>8, <3>2, <3>3, <3>4 DEF Steps
  <2>2. Tries
      BY <2>1, DigestAssumption
  <2>. QED BY <1>c, <2>1, <2>2, <2>3
<1>9. CASE WriterStarts
  <2>1. /\ UNCHANGED <<issue, enabled, strict, tick, changes>>
        /\ writers' \subseteq writers \cup {"owner"}
        /\ \/ job' = NoJob
           \/ job.state = "pending" /\ job' = [state |-> "claimed", tries |-> job.tries + 1]
      BY <1>9 DEF WriterStarts
  <2>2. Tries
      BY <2>1, DigestAssumption DEF NoJob
  <2>. QED BY <2>1, <2>2
<1>10. CASE NewDay
    BY <1>10, DigestAssumption DEF NewDay, NoJob
<1>11. CASE UNCHANGED vars
    BY <1>1, <1>11 DEF vars
<1>. QED BY <1>2, <1>3, <1>4, <1>5, <1>6, <1>7, <1>8, <1>9, <1>10, <1>11
        DEF Next, World, WriterActions

-----------------------------------------------------------------------------
(* The invariant. *)

LEMMA RunKept ==
  ASSUME DigestInv, [Next]_vars
  PROVE  run' \in Run /\ RecordAgrees' /\ ItemsSound' /\ PayloadSound'
<1> DEFINE Fine == run' \in Run /\ RecordAgrees' /\ ItemsSound' /\ PayloadSound'
<1>i. TypeOK /\ RecordAgrees /\ ItemsSound /\ PayloadSound /\ run \in Run
    BY DEF DigestInv, TypeOK
<1>1. CASE run' = run
    BY <1>1, <1>i DEF RecordAgrees, ItemsSound, PayloadSound
<1>2. ASSUME NEW chosen \in Selections, run.status = "none",
             run' = [run EXCEPT !.status = "frozen", !.items = Frozen(chosen), !.ledger = chosen]
      PROVE  Fine
  <2>1. chosen \in SUBSET Issues
      BY <1>i, SelectionsAreIssues
  <2>2. /\ Frozen(chosen) \in SUBSET Candidate
        /\ \A n, m \in Frozen(chosen) : n.issue = m.issue => n = m
        /\ \A n \in Frozen(chosen) : \A r \in n.cached :
              r.issue = n.issue /\ r.spell = n.spell /\ r.about = n.facts
      BY <1>i, <2>1, FrozenSound
  <2>3. /\ run' \in Run /\ run'.status = "frozen" /\ run'.items = Frozen(chosen)
        /\ run'.payload = run.payload
      BY <1>2, <1>i, <2>1, <2>2 DEF Run
  <2>4. run'.payload = {}
      BY <1>2, <1>i, <2>3 DEF PayloadSound
  <2>. QED BY <2>2, <2>3, <2>4 DEF RecordAgrees, ItemsSound, PayloadSound
<1>3. CASE run.writes < MaxWrites /\ run' = [run EXCEPT !.writes = @ + 1]
  <2>1. /\ run' \in Run /\ run'.status = run.status /\ run'.items = run.items
        /\ run'.payload = run.payload /\ run'.included = run.included
        /\ run'.ledger = run.ledger /\ run'.sent = run.sent
      BY <1>3, <1>i, DigestAssumption DEF Run
  <2>. QED BY <1>i, <2>1 DEF RecordAgrees, ItemsSound, PayloadSound
<1>4. ASSUME NEW wanted, run' = [run EXCEPT !.status = "written", !.payload = Payload(wanted),
                                            !.included = {c.issue : c \in Payload(wanted)}]
      PROVE  Fine
  <2>1. /\ Payload(wanted) \in SUBSET Card
        /\ \A c \in Payload(wanted) : \E n \in run.items : c.issue = n.issue /\ c.about = n.facts
      BY <1>i, PayloadIsCards
  <2>2. {c.issue : c \in Payload(wanted)} \in SUBSET Issues
      BY <2>1 DEF Card
  <2>3. /\ run' \in Run /\ run'.status = "written" /\ run'.items = run.items
        /\ run'.payload = Payload(wanted)
      BY <1>4, <1>i, <2>1, <2>2 DEF Run
  <2>. QED BY <1>i, <2>1, <2>3 DEF RecordAgrees, ItemsSound, PayloadSound
<1>5. CASE run' = Accounted
  <2>1. Shipped \in SUBSET Card
      BY <1>i, ShippedIsCurrent
  <2>2. {c.issue : c \in Shipped} \in SUBSET Issues
      BY <2>1 DEF Card
  <2>3. /\ run' \in Run /\ run'.status = "delivered" /\ run'.items = run.items
        /\ run'.payload = run.payload /\ run'.sent = Shipped
        /\ run'.included = {c.issue : c \in Shipped} /\ run'.ledger = {c.issue : c \in Shipped}
      BY <1>5, <1>i, <2>1, <2>2 DEF Run, Accounted
  <2>. QED BY <1>i, <2>3 DEF RecordAgrees, ItemsSound, PayloadSound
<1>6. CASE run' = [run EXCEPT !.status = "failed"]
  <2>1. /\ run' \in Run /\ run'.status = "failed" /\ run'.items = run.items
        /\ run'.payload = run.payload
      BY <1>6, <1>i DEF Run
  <2>. QED BY <1>i, <2>1 DEF RecordAgrees, ItemsSound, PayloadSound
<1>7. CASE run' = NoRun
    BY <1>7, DigestAssumption DEF NoRun, Run, RecordAgrees, ItemsSound, PayloadSound
<1>. QED BY <1>1, <1>2, <1>3, <1>4, <1>5, <1>6, <1>7, RunSteps DEF RunMoves

LEMMA CacheKept ==
  ASSUME DigestInv, [Next]_vars PROVE CacheIs(cache')
<1>i. TypeOK /\ ItemsSound /\ CacheIs(cache)
    BY DEF DigestInv, TypeOK, CacheIs
<1>1. CASE cache' = {[r EXCEPT !.old = TRUE] : r \in cache}
  <2>1. \A r \in cache : /\ [r EXCEPT !.old = TRUE] \in Row
                         /\ [r EXCEPT !.old = TRUE].issue = r.issue
                         /\ [r EXCEPT !.old = TRUE].spell = r.spell
      BY <1>i DEF CacheIs, Row
  <2>2. ASSUME NEW x \in cache', NEW y \in cache', x.issue = y.issue, x.spell = y.spell
        PROVE  x = y
    <3>1. PICK r \in cache : x = [r EXCEPT !.old = TRUE]
        BY <1>1
    <3>2. PICK q \in cache : y = [q EXCEPT !.old = TRUE]
        BY <1>1
    <3>3. r.issue = q.issue /\ r.spell = q.spell
        BY <2>1, <2>2, <3>1, <3>2
    <3>4. r = q
        BY <1>i, <3>3 DEF CacheIs
    <3>. QED BY <3>1, <3>2, <3>4
  <2>. QED BY <1>1, <2>1, <2>2 DEF CacheIs
<1>. QED BY <1>1, <1>i, RunSteps, CacheAfterSound DEF CacheMoves

LEMMA LockKept ==
  ASSUME DigestInv, [Next]_vars
  PROVE  lock' \subseteq Schedulers /\ IsFiniteSet(lock') /\ Cardinality(lock') <= 1
<1>i. /\ lock \subseteq Schedulers /\ IsFiniteSet(lock) /\ Cardinality(lock) <= 1
      /\ Cardinality(lock) \in Nat
    BY FS_CardinalityType DEF DigestInv, TypeOK
<1>1. CASE lock' = lock
    BY <1>1, <1>i
<1>2. ASSUME NEW s \in Schedulers, lock' = {s}
      PROVE  lock' \subseteq Schedulers /\ IsFiniteSet(lock') /\ Cardinality(lock') <= 1
    BY <1>2, FS_Singleton
<1>3. CASE lock' = {}
    BY <1>3, FS_EmptySet
<1>4. ASSUME NEW s \in Schedulers, lock' = lock \ {s}
      PROVE  lock' \subseteq Schedulers /\ IsFiniteSet(lock') /\ Cardinality(lock') <= 1
  <2>1. lock' \in SUBSET lock
      BY <1>4
  <2>2. IsFiniteSet(lock') /\ Cardinality(lock') <= Cardinality(lock)
      BY <1>i, <2>1, FS_Subset
  <2>3. Cardinality(lock') \in Nat
      BY <2>2, FS_CardinalityType
  <2>. QED BY <1>i, <2>1, <2>2, <2>3
<1>5. TypeOK
    BY DEF DigestInv
<1>6. LockMoves
    BY <1>5, LockSteps
<1>. QED BY <1>1, <1>2, <1>3, <1>4, <1>6 DEF LockMoves

LEMMA DigestInvInit == Init => DigestInv
<1> SUFFICES ASSUME Init PROVE DigestInv
    OBVIOUS
<1>1. IsFiniteSet(lock) /\ Cardinality(lock) = 0
    BY FS_EmptySet DEF Init
<1>2. run \in Run
    BY DigestAssumption DEF Init, NoRun, Run
<1>3. TypeOK
    BY <1>1, <1>2, DigestAssumption DEF Init, TypeOK, Time, NoJob
<1>4. OtherTypes
    BY <1>3 DEF TypeOK, OtherTypes, Init, NoJob
<1>. QED BY <1>1, <1>3, <1>4 DEF Init, DigestInv, RecordAgrees, ItemsSound, PayloadSound, NoRun

LEMMA DigestInvHolds == Spec => []DigestInv
<1>1. ASSUME DigestInv, [Next]_vars PROVE DigestInv'
  <2>1. OtherTypes'
      BY <1>1, OtherSteps DEF DigestInv
  <2>2. run' \in Run /\ RecordAgrees' /\ ItemsSound' /\ PayloadSound'
      BY <1>1, RunKept
  <2>3. CacheIs(cache')
      BY <1>1, CacheKept
  <2>4. lock' \subseteq Schedulers /\ IsFiniteSet(lock') /\ Cardinality(lock') <= 1
      BY <1>1, LockKept
  <2>5. TypeOK'
      BY <2>1, <2>2, <2>3, <2>4 DEF TypeOK, OtherTypes, CacheIs
  <2>. QED BY <2>1, <2>2, <2>4, <2>5 DEF DigestInv
<1>. QED BY <1>1, DigestInvInit, PTL DEF Spec

\* For any issues and schedulers, whatever locks, leases and deployments do: of a delivered run
\* the items and the ledger rows marked included are the issues whose cards were sent.
THEOREM LedgerIsMessageHolds == Spec => []LedgerIsMessage
<1>1. DigestInv => LedgerIsMessage
    BY DEF DigestInv, RecordAgrees, LedgerIsMessage
<1>. QED BY <1>1, DigestInvHolds, PTL

\* A run that was delivered is never written or sent again that day, and every card of a message
\* was, when it was sent, of a waiting issue and about its facts (ValidateAndPublish).
THEOREM PublishedOnceAndCurrentHolds == Spec => PublishedOnceAndCurrent
<1>1. ASSUME DigestInv, [Next]_vars PROVE DeliveredOnce /\ DigestIsCurrent
  <2>i. TypeOK /\ ItemsSound /\ PayloadSound /\ run \in Run
      BY <1>1 DEF DigestInv, TypeOK
  <2>1. DeliveredOnce
    <3> SUFFICES ASSUME run.status = "delivered", run' # NoRun PROVE run'.status = "delivered"
        BY DEF DeliveredOnce
    <3>1. run' = run \/ run' = [run EXCEPT !.writes = @ + 1]
        BY <1>1, RunSteps DEF RunMoves
    <3>. QED BY <2>i, <3>1 DEF Run
  <2>2. DigestIsCurrent
    <3> SUFFICES ASSUME run'.status = "delivered", run.status # "delivered"
                 PROVE  \A c \in run'.sent : issue[c.issue].on /\ c.about = issue[c.issue].facts
        BY DEF DigestIsCurrent
    <3>1. run' = Accounted
        BY <1>1, <2>i, PublicationSteps
    <3>2. run'.sent = Shipped
        BY <2>i, <3>1 DEF Accounted, Run
    <3>. QED BY <2>i, <3>2, ShippedIsCurrent
  <2>. QED BY <2>1, <2>2
<1>2. DigestInv /\ [Next]_vars => [DeliveredOnce /\ DigestIsCurrent]_vars
    BY <1>1
<1>. QED BY <1>2, DigestInvHolds, PTL DEF Spec, PublishedOnceAndCurrent

-----------------------------------------------------------------------------
(* What a setup session promises, for any number of people, organisations    *)
(* and polls, and any lifetimes.                                             *)
(*                                                                           *)
(* What has to be known beside the promises: the row's expiry only moves      *)
(* forward, so that what a handler read of it is never later than what it is  *)
(* (Reads, RouteReads); the stamp on an approved row is the first one, so     *)
(* that a poll begun after the window has read a stamp that closes it; and    *)
(* no project belongs to a session that nobody approved (Undecided).          *)

Undecided ==
  /\ sess.status \in {"none", "pending", "failed", "expired"} =>
       sess.project = "none" /\ firstStamp = 0 /\ sess.claimed = 0
  /\ sess.status = "none" => sess.expires = 0

FirstStampKept == sess.status \in Approved => sess.claimed = firstStamp

\* What a poll holds, against the row it is of.
Reads(p) ==
  LET r == polls[p] IN
  /\ r.at = "write" =>
       /\ r.expires <= sess.expires
       /\ r.status \in Approved => sess.status \in Approved \union {"deleted"}
       /\ r.status \in Approved /\ r.window = "over" =>
            r.claimed # 0 /\ clock > r.claimed + KeyWindow
  /\ r.at = "answer" =>
       /\ r.expires <= sess.expires
       /\ ~(r.keys = "sealed" /\ r.window = "over")

RouteReads == route # NoHandler => route.expires <= sess.expires

SetupInv ==
  /\ SetupKeepsWord
  /\ Undecided
  /\ FirstStampKept
  /\ \A p \in Pollers : Reads(p)
  /\ RouteReads

\* What a step may do to the row: type, a decision that stands, an expiry that only
\* moves forward, and a stamp that is the first one.
Moves ==
  /\ sess' \in Session
  /\ sess'.expires >= sess.expires
  /\ sess'.keys = "sealed" => sess'.status \in Approved
  /\ sess'.status \in Approved => sess'.project # "none" /\ sess'.org # Nobody
  /\ sess'.project = "old" => sess'.org = OldOrg
  /\ sess.status \in {"failed", "expired", "deleted"} => sess'.status \in {sess.status, "deleted"}
  /\ sess.status \in Approved => sess'.status \in Approved \union {"deleted"}
  /\ sess.status = "app_reporting" => sess'.status \notin {"provisioned", "key_ok"}
  /\ sess.project # "none" => sess'.project = sess.project /\ sess'.org = sess.org
  /\ Undecided'
  /\ FirstStampKept'

LEMMA Constants ==
  /\ SetupTTL \in Nat /\ KeyWindow \in Nat /\ Retention \in Nat /\ MaxClock \in Nat
  /\ NetworkBack \in Nat /\ MaxClock > 0
  /\ OldOrg \in Orgs /\ Nobody \notin Orgs
BY SetupConstants DEF Orgs, Nobody

\* The sweep leaves the organisation, the project, the stamp and the expiry alone,
\* and takes the keys before it deletes.
LEMMA Sweeps ==
  ASSUME NEW s \in Session, s.keys = "sealed" => s.status \in Approved, clock \in Nat
  PROVE  LET t == Deleted(Purged(Expired(s))) IN
         /\ t \in Session
         /\ t.org = s.org /\ t.project = s.project
         /\ t.claimed = s.claimed /\ t.expires = s.expires
         /\ t.keys = "sealed" => t.status \in Approved
         /\ t.status \in {s.status, "deleted"} \/ (s.status = "pending" /\ t.status = "expired")
<1> DEFINE a == Expired(s)
           b == Purged(a)
           t == Deleted(b)
<1>1. /\ a \in Session /\ a.org = s.org /\ a.project = s.project
      /\ a.claimed = s.claimed /\ a.expires = s.expires /\ a.keys = s.keys
      /\ a.status = s.status \/ (s.status = "pending" /\ a.status = "expired")
    BY DEF Session, SessionStatuses, Expired
<1>2. /\ b \in Session /\ b.org = a.org /\ b.project = a.project
      /\ b.claimed = a.claimed /\ b.expires = a.expires /\ b.status = a.status
      /\ b.keys \in {a.keys, "none"}
      /\ a.expires <= clock => b.keys = "none"
  <2> HIDE DEF a
  <2>. QED BY <1>1 DEF Session, Purged, Keys
<1>3. /\ t \in Session /\ t.org = b.org /\ t.project = b.project
      /\ t.claimed = b.claimed /\ t.expires = b.expires /\ t.keys = b.keys
      /\ t.status = b.status \/ (t.status = "deleted" /\ b.expires + Retention <= clock)
  <2> HIDE DEF b
  <2>. QED BY <1>2 DEF Session, SessionStatuses, Deleted
<1>4. b.expires \in Nat
    BY <1>2, Constants DEF Session, Expiries
<1>5. b.expires + Retention <= clock => b.expires <= clock
    BY <1>4, Constants
<1> HIDE DEF a, b, t
<1>6. t.keys = "sealed" => t.status \in Approved
    BY <1>1, <1>2, <1>3, <1>5 DEF Approved
<1>. QED BY <1>1, <1>2, <1>3, <1>6 DEF a, b, t

LEMMA RowMoves == SetupInv /\ [SetupNext]_setupVars => Moves
<1> SUFFICES ASSUME SetupInv, [SetupNext]_setupVars PROVE Moves
    OBVIOUS
<1> USE Constants DEF SetupInv, SetupKeepsWord, SetupTypeOK
<1>0. clock \in Nat /\ sess.expires \in Nat
    BY DEF Session, Expiries
<1>1. CASE UNCHANGED <<sess, firstStamp>>
    BY <1>0, <1>1 DEF Moves, Undecided, FirstStampKept, Session, SessionStatuses, Approved
<1>2. CASE AgentSetup
  <2>1. clock + SetupTTL \in Expiries
      BY DEF Expiries
  <2>2. /\ sess' = [sess EXCEPT !.status = "pending", !.expires = clock + SetupTTL]
        /\ firstStamp' = firstStamp /\ sess.status = "none"
      BY <1>2 DEF AgentSetup, history
  <2>3. sess' \in Session
      BY <2>1, <2>2 DEF Session, SessionStatuses
  <2>. QED BY <1>0, <2>1, <2>2, <2>3 DEF Moves, Undecided, FirstStampKept, Session, SessionStatuses, Approved
<1>3. ASSUME NEW project \in {"old", "new"}, ApproveCommits(project)
      PROVE  Moves
  <2> DEFINE u == approval.by
             again == approval.start + SetupTTL
  <2>1. u \in Approvers /\ approval.start \in Clock /\ sess.status = "pending" /\ firstStamp' = firstStamp
      BY <1>3 DEF ApproveCommits, history
  <2>2. OrgOf[u] \in Orgs /\ again \in Expiries
      BY <2>1 DEF Orgs, Expiries, Clock
  <2>3. CASE sess' = sess
      BY <1>0, <2>1, <2>3 DEF Moves, Undecided, FirstStampKept, Session, SessionStatuses, Approved
  <2>4. ASSUME NEW x \in Expiries, x >= sess.expires, NEW o \in Orgs, project = "old" => o = OldOrg,
               sess' = [sess EXCEPT !.status = "provisioned", !.org = o, !.project = project,
                                    !.keys = "sealed", !.expires = x]
        PROVE  Moves
    <3>1. /\ sess'.status = "provisioned" /\ sess'.org = o /\ sess'.project = project
          /\ sess'.keys = "sealed" /\ sess'.expires = x /\ sess'.claimed = sess.claimed
          BY <2>4 DEF Session
    <3>2. sess' \in Session
        BY <2>4 DEF Session, SessionStatuses, Approved, Keys
    <3>. QED BY <1>0, <2>1, <2>4, <3>1, <3>2 DEF Moves, Undecided, FirstStampKept, Approved
  <2>5. CASE sess.expires > approval.start
    <3> DEFINE x == IF again > sess.expires THEN again ELSE sess.expires
               o == OrgOf[u]
    <3>1. x \in Expiries /\ x >= sess.expires
        BY <1>0, <2>2 DEF Session, Expiries
    <3>2. o \in Orgs /\ (project = "old" => o = OldOrg)
        BY <1>3, <2>2 DEF ApproveCommits
    <3>3. sess' = [sess EXCEPT !.status = "provisioned", !.org = o, !.project = project,
                               !.keys = "sealed", !.expires = x]
        BY <1>3, <2>1, <2>5 DEF ApproveCommits
    <3> HIDE DEF x, o
    <3>. QED BY <2>4, <3>1, <3>2, <3>3
  <2>6. CASE ~(sess.expires > approval.start)
      BY <1>3, <2>3, <2>6 DEF ApproveCommits
  <2>. QED BY <2>5, <2>6
<1>4. ASSUME NEW u \in Approvers, AgentDeny(u)
      PROVE  Moves
    BY <1>0, <1>4 DEF AgentDeny, MarkAgentSessionFailed, history, Moves, Undecided, FirstStampKept, Session,
                SessionStatuses, Approved
<1>5. ASSUME NEW p \in Pollers, NEW stamps \in BOOLEAN, PollDelivers(p, stamps)
      PROVE  Moves
  <2>1. CASE sess' = MarkAgentKeyDelivered(sess) /\ firstStamp' = (IF firstStamp = 0 THEN clock ELSE firstStamp)
    <3>1. polls[p].status \in Approved /\ polls[p].at = "write"
        BY <1>5 DEF PollDelivers
    <3>2. sess.status \in Approved \union {"deleted"}
        BY <3>1 DEF Reads
    <3>3. CASE sess.status = "deleted"
        BY <1>0, <2>1, <3>3 DEF MarkAgentKeyDelivered, Moves, Undecided, FirstStampKept, Session, SessionStatuses, Approved
    <3>4. CASE sess.status \in Approved
      <4>1. clock \in Clock
          BY DEF Clock
      <4>2. ASSUME NEW c \in Clock, NEW st \in Approved,
                   sess' = [sess EXCEPT !.claimed = c, !.status = st]
            PROVE  /\ sess' \in Session /\ sess'.expires = sess.expires /\ sess'.keys = sess.keys
                   /\ sess'.project = sess.project /\ sess'.org = sess.org
                   /\ sess'.claimed = c /\ sess'.status = st
          BY <4>2 DEF Session, SessionStatuses, Approved
      <4>3. DEFINE c == IF sess.claimed = 0 THEN clock ELSE sess.claimed
                   st == IF sess.status = "provisioned" THEN "key_ok" ELSE sess.status
      <4>4. c \in Clock /\ st \in Approved /\ sess' = [sess EXCEPT !.claimed = c, !.status = st]
          BY <2>1, <3>4, <4>1 DEF MarkAgentKeyDelivered, Approved, Session
      <4>5. /\ sess' \in Session /\ sess'.expires = sess.expires /\ sess'.keys = sess.keys
            /\ sess'.project = sess.project /\ sess'.org = sess.org
            /\ sess'.claimed = c /\ sess'.status = st
          BY <4>2, <4>4
      <4>. QED BY <1>0, <2>1, <3>4, <4>4, <4>5 DEF Moves, Undecided, FirstStampKept, Approved
    <3>. QED BY <3>2, <3>3, <3>4
  <2>. QED BY <1>1, <1>5, <2>1 DEF PollDelivers
<1>6. CASE ExpireAgentSessions
  <2>1. sess' = Deleted(Purged(Expired(sess))) /\ firstStamp' = firstStamp
      BY <1>6 DEF ExpireAgentSessions, history
  <2>2. /\ sess' \in Session
        /\ sess'.org = sess.org /\ sess'.project = sess.project
        /\ sess'.claimed = sess.claimed /\ sess'.expires = sess.expires
        /\ sess'.keys = "sealed" => sess'.status \in Approved
        /\ sess'.status \in {sess.status, "deleted"} \/ (sess.status = "pending" /\ sess'.status = "expired")
      BY <1>0, <2>1, Sweeps
  <2>. QED BY <1>0, <2>1, <2>2 DEF Moves, Undecided, FirstStampKept, Session, SessionStatuses, Approved
<1>7. CASE AppReports
    BY <1>0, <1>7 DEF AppReports, history, Moves, Undecided, FirstStampKept, Session,
                SessionStatuses, Approved
<1>. QED
  BY <1>1, <1>2, <1>3, <1>4, <1>5, <1>6, <1>7
  DEF SetupNext, setupVars, history, agent, Tick, ApproveLocks, ApproveRollsBack, PollSteps, PollReads, PollRefuses,
      PollAnswers, RouteGate, RouteRefresh, RouteActs, RouteAnswers, EventArrives

\* What a poll or a route has read stays true of the row, which only moves forward,
\* as long as the clock does.
LEMMA ReadsStay ==
  ASSUME SetupInv, Moves, clock' >= clock, clock' \in Nat, NEW p \in Pollers, polls'[p] = polls[p]
  PROVE  Reads(p)'
<1>1. polls[p] \in {NoHandler} \union Writing \union Answering
    BY DEF SetupInv, SetupKeepsWord, SetupTypeOK
<1>2. sess.expires \in Nat /\ sess'.expires \in Nat /\ clock \in Nat
    BY Constants DEF SetupInv, SetupKeepsWord, SetupTypeOK, Moves, Session, Expiries
<1>3. CASE polls[p] = NoHandler
    BY <1>3 DEF Reads, NoHandler
<1>4. CASE polls[p] \in Writing
  <2>1. polls[p].expires \in Nat /\ polls[p].claimed \in Nat /\ polls[p].at = "write"
      BY <1>4, Constants DEF Writing, Expiries, Clock
  <2>. QED BY <1>2, <2>1, Constants DEF SetupInv, Reads, Moves
<1>5. CASE polls[p] \in Answering
  <2>1. polls[p].expires \in Nat /\ polls[p].at = "answer"
      BY <1>5, Constants DEF Answering, Expiries
  <2>. QED BY <1>2, <2>1 DEF SetupInv, Reads, Moves
<1>. QED BY <1>1, <1>3, <1>4, <1>5

LEMMA RouteStays ==
  ASSUME SetupInv, Moves, route' = route
  PROVE  RouteReads'
<1>1. sess.expires \in Nat /\ sess'.expires \in Nat
    BY Constants DEF SetupInv, SetupKeepsWord, SetupTypeOK, Moves, Session, Expiries
<1>2. route # NoHandler => route.expires \in Nat
    BY Constants DEF SetupInv, SetupKeepsWord, SetupTypeOK, OnRoute, Expiries
<1>. QED BY <1>1, <1>2 DEF SetupInv, RouteReads, Moves

\* An answer in time is no later than the row says.
LEMMA InTimeIsInTime ==
  ASSUME SetupInv, NEW x \in Nat, x <= sess.expires, clock < x, Releases
  PROVE  late' = late
<1>1. sess.expires \in Nat /\ clock \in Nat /\ late \in BOOLEAN
    BY Constants DEF SetupInv, SetupKeepsWord, SetupTypeOK, Session, Expiries
<1>. QED BY <1>1 DEF Releases

\* The part of the invariant that is not about the row itself.
Around ==
  /\ clock' \in 1..MaxClock
  /\ approval' \in {NoHandler} \union [at : {"locked"}, by : Approvers, start : Clock]
  /\ approval' # NoHandler => sess'.status = "pending"
  /\ polls' \in [Pollers -> {NoHandler} \union Writing \union Answering]
  /\ route' \in {NoHandler} \union OnRoute
  /\ told' \in BOOLEAN /\ onboarded' \in BOOLEAN
  /\ seen' \subseteq {"old", "new"}
  /\ firstStamp' \in Clock
  /\ late' = FALSE /\ outside' = FALSE
  /\ onboarded' => sess'.project \in seen'
  /\ \A p \in Pollers : Reads(p)'
  /\ RouteReads'

LEMMA AroundIsEnough == Moves /\ Around => SetupInv'
BY DEF Moves, Around, SetupInv, SetupKeepsWord, SetupTypeOK, NothingAfterExpiry, KeysStayInWindow,
       OnboardedIsProven

\* A project that is set is the one it was.
LEMMA Proven ==
  ASSUME SetupInv, Moves
  PROVE  onboarded => sess'.project \in seen /\ sess.project \in seen
<1>1. onboarded => sess.project # "none"
    BY DEF SetupInv, SetupKeepsWord, SetupTypeOK, OnboardedIsProven
<1>. QED BY <1>1 DEF SetupInv, SetupKeepsWord, SetupTypeOK, OnboardedIsProven, Moves

LEMMA PollReading ==
  ASSUME SetupInv, Moves, NEW p \in Pollers, PollReads(p)
  PROVE  Around
<1> USE Constants DEF SetupInv, SetupKeepsWord, SetupTypeOK
<1> DEFINE w == IF firstStamp # 0 /\ clock > firstStamp + KeyWindow THEN "over" ELSE "open"
           r == [at |-> "write", status |-> sess.status, keys |-> sess.keys, claimed |-> sess.claimed,
                 expires |-> sess.expires, window |-> w]
<1>1. /\ polls' = [polls EXCEPT ![p] = r]
      /\ UNCHANGED <<clock, sess, approval, told, route, seen, onboarded, firstStamp, late, outside>>
    BY DEF PollReads, history
<1>2. w \in {"open", "over"}
    OBVIOUS
<1>3. r \in Writing
    BY <1>2 DEF Writing, Session
<1>4. /\ r.at = "write" /\ r.status = sess.status /\ r.claimed = sess.claimed
      /\ r.expires = sess.expires /\ r.window = w
    OBVIOUS
<1>5. sess.expires \in Nat /\ firstStamp \in Nat /\ clock \in Nat
    BY DEF Session, Expiries, Clock
<1>6. w = "over" => firstStamp # 0 /\ clock > firstStamp + KeyWindow
    OBVIOUS
<1> HIDE DEF r, w
<1>7. Reads(p)'
  <2>1. polls'[p] = r
      BY <1>1
  <2>. QED BY <1>1, <1>4, <1>5, <1>6, <2>1 DEF Reads, FirstStampKept
<1>8. ASSUME NEW q \in Pollers, q # p PROVE Reads(q)'
  <2>1. polls'[q] = polls[q] /\ clock' = clock
      BY <1>1, <1>8
  <2>. QED BY <1>5, <2>1, ReadsStay
<1>9. RouteReads'
    BY <1>1, RouteStays
<1>10. polls' \in [Pollers -> {NoHandler} \union Writing \union Answering]
    BY <1>1, <1>3
<1>. QED BY <1>1, <1>7, <1>8, <1>9, <1>10 DEF Around, NothingAfterExpiry, KeysStayInWindow,
            OnboardedIsProven

\* A poll that ends, with an answer that may be lost.
LEMMA PollEnds ==
  ASSUME SetupInv, Moves, NEW p \in Pollers, NEW final \in BOOLEAN, NEW lose \in BOOLEAN,
         Answer(p, final, lose),
         UNCHANGED <<clock, sess, approval, route, seen, onboarded, firstStamp>>,
         late' = FALSE, outside' = FALSE
  PROVE  Around
<1> USE Constants DEF SetupInv, SetupKeepsWord, SetupTypeOK
<1>1. polls' = [polls EXCEPT ![p] = NoHandler] /\ told' = (told \/ (final /\ ~lose))
    BY DEF Answer
<1>2. told' \in BOOLEAN
    BY <1>1
<1>3. polls' \in [Pollers -> {NoHandler} \union Writing \union Answering]
    BY <1>1
<1>4. Reads(p)'
    BY <1>1 DEF Reads, NoHandler
<1>5. clock \in Nat
    OBVIOUS
<1>6. ASSUME NEW q \in Pollers, q # p PROVE Reads(q)'
  <2>1. polls'[q] = polls[q]
      BY <1>1, <1>6
  <2>. QED BY <1>5, <2>1, ReadsStay
<1>7. RouteReads'
    BY RouteStays
<1>. QED BY <1>2, <1>3, <1>4, <1>6, <1>7 DEF Around, OnboardedIsProven

LEMMA PollDelivering ==
  ASSUME SetupInv, Moves, NEW p \in Pollers, NEW stamps \in BOOLEAN, PollDelivers(p, stamps)
  PROVE  Around
<1> USE Constants DEF SetupInv, SetupKeepsWord, SetupTypeOK
<1> DEFINE r == polls[p]
           opens == r.keys = "sealed" /\ (r.claimed # 0 => clock - r.claimed <= KeyWindow)
           k == IF opens THEN "sealed" ELSE "none"
           a == [at |-> "answer", keys |-> k, expires |-> r.expires, window |-> r.window]
<1>1. /\ polls' = [polls EXCEPT ![p] = a] /\ r.at = "write" /\ r.status \in Approved
      /\ UNCHANGED <<clock, approval, told, route, seen, onboarded, late, outside>>
    BY DEF PollDelivers
<1>2. r \in Writing
    BY <1>1 DEF NoHandler, Answering
<1>3. a \in Answering
    BY <1>2 DEF Writing, Answering, Keys
<1>4. polls' \in [Pollers -> {NoHandler} \union Writing \union Answering]
    BY <1>1, <1>3
<1>5. approval' # NoHandler => sess'.status = "pending"
    BY DEF PollDelivers
<1>6. firstStamp' \in Clock
    BY DEF PollDelivers, Clock
<1>7. clock \in Nat /\ sess.expires \in Nat /\ sess'.expires \in Nat
    BY DEF Session, Expiries, Moves
<1>8. Reads(p)'
  <2>1. polls'[p] = a
      BY <1>1
  <2>2. Reads(p)
      OBVIOUS
  <2>3. r.expires \in Nat /\ r.claimed \in Nat
      BY <1>2 DEF Writing, Expiries, Clock
  <2>4. r.window = "over" => k = "none"
      BY <1>1, <1>7, <2>2, <2>3 DEF Reads
  <2>5. r.expires <= sess'.expires
      BY <1>1, <1>7, <2>2, <2>3 DEF Reads, Moves
  <2>6. a.at = "answer" /\ a.expires = r.expires /\ a.keys = k /\ a.window = r.window
      OBVIOUS
  <2> HIDE DEF a, k
  <2>. QED BY <2>1, <2>4, <2>5, <2>6 DEF Reads
<1>9. ASSUME NEW q \in Pollers, q # p PROVE Reads(q)'
  <2>1. polls'[q] = polls[q] /\ clock' = clock
      BY <1>1, <1>9
  <2>. QED BY <1>7, <2>1, ReadsStay
<1>10. RouteReads'
    BY <1>1, RouteStays
<1>11. onboarded => sess'.project \in seen
    BY Proven
<1>. QED BY <1>1, <1>4, <1>5, <1>6, <1>8, <1>9, <1>10, <1>11 DEF Around, NothingAfterExpiry, KeysStayInWindow

LEMMA PollAnswering ==
  ASSUME SetupInv, Moves, NEW p \in Pollers, NEW lose \in BOOLEAN, PollAnswers(p, lose)
  PROVE  Around
<1> USE Constants DEF SetupInv, SetupKeepsWord, SetupTypeOK
<1> DEFINE r == polls[p]
<1>1. /\ Answer(p, TRUE, lose) /\ r.at = "answer"
      /\ UNCHANGED <<clock, sess, approval, route, seen, onboarded, firstStamp>>
    BY DEF PollAnswers
<1>2. r \in Answering
    BY <1>1 DEF NoHandler, Writing
<1>3. r.expires \in Nat /\ r.expires <= sess.expires /\ ~(r.keys = "sealed" /\ r.window = "over")
    BY <1>1, <1>2 DEF Answering, Expiries, Reads
<1>4. late = FALSE /\ outside = FALSE
    BY DEF NothingAfterExpiry, KeysStayInWindow
<1>5. late' = FALSE /\ outside' = FALSE
  <2>1. CASE InTime(r.expires)
    <3>1. clock < r.expires /\ Releases /\ outside' = (outside \/ (r.keys = "sealed" /\ r.window = "over"))
        BY <2>1 DEF PollAnswers, InTime
    <3>2. late' = late
        BY <1>3, <3>1, InTimeIsInTime
    <3>. QED BY <1>3, <1>4, <3>1, <3>2
  <2>2. CASE ~InTime(r.expires)
      BY <1>4, <2>2 DEF PollAnswers
  <2>. QED BY <2>1, <2>2
<1>. QED BY <1>1, <1>5, PollEnds

LEMMA PollRefusing ==
  ASSUME SetupInv, Moves, NEW p \in Pollers, NEW lose \in BOOLEAN, PollRefuses(p, lose)
  PROVE  Around
<1> DEFINE final == polls[p].status # "pending" \/ clock > polls[p].expires
<1>1. /\ Answer(p, final, lose) /\ final \in BOOLEAN
      /\ UNCHANGED <<clock, sess, approval, route, seen, onboarded, firstStamp, late, outside>>
    BY DEF PollRefuses, history
<1>2. late' = FALSE /\ outside' = FALSE
    BY <1>1 DEF SetupInv, SetupKeepsWord, SetupTypeOK, NothingAfterExpiry, KeysStayInWindow
<1> HIDE DEF final
<1>. QED BY <1>1, <1>2, PollEnds

\* The steps that touch neither a poll nor a route.
LEMMA OtherStep ==
  ASSUME SetupInv, Moves,
         \/ Tick \/ AgentSetup \/ ApproveRollsBack \/ ExpireAgentSessions \/ AppReports
         \/ \E u \in Approvers : ApproveLocks(u) \/ AgentDeny(u)
         \/ \E project \in {"old", "new"} : ApproveCommits(project) \/ EventArrives(project)
  PROVE  Around
<1> USE Constants DEF SetupInv, SetupKeepsWord, SetupTypeOK
<1>1. UNCHANGED <<polls, route, told, onboarded, firstStamp, late, outside>>
    BY DEF Tick, AgentSetup, ApproveRollsBack, ExpireAgentSessions, AppReports, ApproveLocks,
           AgentDeny, ApproveCommits, EventArrives, agent, history
<1>2. clock' \in 1..MaxClock /\ clock' >= clock
    BY DEF Tick, AgentSetup, ApproveRollsBack, ExpireAgentSessions, AppReports, ApproveLocks,
           AgentDeny, ApproveCommits, EventArrives
<1>3. ASSUME NEW p \in Pollers PROVE Reads(p)'
    BY <1>1, <1>2, ReadsStay
<1>4. RouteReads'
    BY <1>1, RouteStays
<1>5. seen \subseteq seen' /\ seen' \subseteq {"old", "new"}
    BY DEF Tick, AgentSetup, ApproveRollsBack, ExpireAgentSessions, AppReports, ApproveLocks,
           AgentDeny, ApproveCommits, EventArrives
<1>6. onboarded' => sess'.project \in seen'
    BY <1>1, <1>5, Proven
<1>7. /\ approval' \in {NoHandler} \union [at : {"locked"}, by : Approvers, start : Clock]
      /\ approval' # NoHandler => sess'.status = "pending"
  <2>1. CASE \E u \in Approvers : ApproveLocks(u)
    <3>1. PICK u \in Approvers : ApproveLocks(u)
        BY <2>1
    <3>. QED BY <3>1 DEF ApproveLocks, Clock
  <2>2. CASE approval' = NoHandler
      BY <2>2
  <2>3. CASE UNCHANGED <<approval, sess>>
      BY <2>3
  <2>. QED
    BY <2>1, <2>2, <2>3 DEF Tick, AgentSetup, ApproveRollsBack, ExpireAgentSessions, AppReports,
       AgentDeny, ApproveCommits, EventArrives
<1>. QED BY <1>1, <1>2, <1>3, <1>4, <1>5, <1>6, <1>7 DEF Around, NothingAfterExpiry, KeysStayInWindow

LEMMA RouteStep ==
  ASSUME SetupInv, Moves,
         RouteRefresh \/ RouteActs \/ RouteAnswers \/ \E kind \in Routes : RouteGate(kind)
  PROVE  Around
<1> USE Constants DEF SetupInv, SetupKeepsWord, SetupTypeOK
<1>1. UNCHANGED <<clock, sess, approval, polls, told, seen, firstStamp, outside>>
    BY DEF RouteRefresh, RouteActs, RouteAnswers, RouteGate, agent, history
<1>2. clock \in Nat /\ sess.expires \in Nat /\ sess.expires \in Expiries
    BY DEF Session, Expiries
<1>3. ASSUME NEW p \in Pollers PROVE Reads(p)'
    BY <1>1, <1>2, ReadsStay
<1>4. route.at \in {"refresh", "act", "answer"} =>
        /\ route \in OnRoute /\ route.expires \in Nat /\ route.expires <= sess.expires
    BY DEF NoHandler, OnRoute, RouteReads, Expiries
<1>5. ASSUME NEW at \in {"refresh", "act", "answer"}, NEW kind \in Routes, NEW x \in Expiries,
             x <= sess.expires, route' = [at |-> at, kind |-> kind, expires |-> x]
      PROVE  route' \in OnRoute /\ RouteReads'
    BY <1>1, <1>5 DEF OnRoute, RouteReads
<1>6. route' = NoHandler => RouteReads'
    BY DEF RouteReads
<1>7. CASE \E kind \in Routes : RouteGate(kind)
  <2>1. PICK kind \in Routes : RouteGate(kind)
      BY <1>7
  <2>2. route' \in OnRoute /\ RouteReads'
      BY <1>2, <1>5, <2>1 DEF RouteGate
  <2>. QED BY <1>1, <1>3, <2>1, <2>2 DEF RouteGate, history, Around, NothingAfterExpiry, KeysStayInWindow,
              OnboardedIsProven
<1>8. CASE RouteRefresh
  <2>1. route.kind \in Routes
      BY <1>4, <1>8 DEF RouteRefresh, OnRoute
  <2>2. route' \in {NoHandler} \union OnRoute /\ RouteReads'
      BY <1>2, <1>5, <1>6, <1>8, <2>1 DEF RouteRefresh
  <2>. QED BY <1>1, <1>3, <1>8, <2>2 DEF RouteRefresh, history, Around, NothingAfterExpiry, KeysStayInWindow,
              OnboardedIsProven
<1>9. CASE RouteActs
  <2>1. route \in OnRoute /\ route.expires \in Nat /\ route.expires <= sess.expires /\ clock < route.expires
      BY <1>4, <1>9 DEF RouteActs
  <2>2. route' = [route EXCEPT !.at = "answer"]
      BY <1>9 DEF RouteActs
  <2>3. route' \in OnRoute /\ route'.expires = route.expires
      BY <2>1, <2>2 DEF OnRoute
  <2>4. RouteReads'
      BY <1>1, <2>1, <2>3 DEF RouteReads
  <2>5. late' = FALSE
      BY <1>9, <2>1, InTimeIsInTime DEF RouteActs, NothingAfterExpiry
  <2>6. onboarded' \in BOOLEAN /\ (onboarded' => onboarded \/ sess.project \in seen)
      BY <1>9 DEF RouteActs, HasEventsSince
  <2>. QED BY <1>1, <1>3, <2>3, <2>4, <2>5, <2>6 DEF Around, KeysStayInWindow, OnboardedIsProven
<1>10. CASE RouteAnswers
  <2>1. late' = FALSE
    <3>1. CASE route.at = "answer" /\ InTime(route.expires)
        BY <1>4, <1>10, <3>1, InTimeIsInTime DEF RouteAnswers, InTime, NothingAfterExpiry
    <3>2. CASE ~(route.at = "answer" /\ InTime(route.expires))
        BY <1>10, <3>2 DEF RouteAnswers, NothingAfterExpiry
    <3>. QED BY <3>1, <3>2
  <2>2. route' = NoHandler /\ onboarded' = onboarded
      BY <1>10 DEF RouteAnswers
  <2>. QED BY <1>1, <1>3, <1>6, <2>1, <2>2 DEF Around, KeysStayInWindow, OnboardedIsProven
<1>. QED BY <1>7, <1>8, <1>9, <1>10

LEMMA SetupStep == SetupInv /\ [SetupNext]_setupVars => SetupInv'
<1> SUFFICES ASSUME SetupInv, [SetupNext]_setupVars PROVE SetupInv'
    OBVIOUS
<1>1. Moves
    BY RowMoves
<1>2. CASE UNCHANGED setupVars
  <2>1. ASSUME NEW p \in Pollers PROVE Reads(p)'
      BY <1>2 DEF SetupInv, Reads, setupVars, agent
  <2>. QED
    BY <1>2, <2>1 DEF setupVars, agent, history, SetupInv, SetupKeepsWord, SetupTypeOK, NothingAfterExpiry,
       KeysStayInWindow, OnboardedIsProven, Undecided, FirstStampKept, RouteReads
<1>3. CASE SetupNext
  <2>1. CASE \E p \in Pollers : PollSteps(p)
      BY <1>1, <2>1, PollReading, PollDelivering, PollRefusing, PollAnswering, AroundIsEnough
      DEF PollSteps
  <2>2. CASE RouteRefresh \/ RouteActs \/ RouteAnswers \/ \E kind \in Routes : RouteGate(kind)
      BY <1>1, <2>2, RouteStep, AroundIsEnough
  <2>3. CASE \/ Tick \/ AgentSetup \/ ApproveRollsBack \/ ExpireAgentSessions \/ AppReports
             \/ \E u \in Approvers : ApproveLocks(u) \/ AgentDeny(u)
             \/ \E project \in {"old", "new"} : ApproveCommits(project) \/ EventArrives(project)
      BY <1>1, <2>3, OtherStep, AroundIsEnough
  <2>. QED BY <1>3, <2>1, <2>2, <2>3 DEF SetupNext
<1>. QED BY <1>2, <1>3

LEMMA SetupInvHolds == SetupSpec => []SetupInv
<1>1. SetupInit => SetupInv
  <2> SUFFICES ASSUME SetupInit PROVE SetupInv
      OBVIOUS
  <2> USE Constants DEF SetupInit
  <2>1. sess \in Session
      BY DEF Session, SessionStatuses, Keys, Clock, Expiries
  <2>2. ASSUME NEW p \in Pollers PROVE Reads(p)
      BY DEF Reads, NoHandler
  <2>3. clock \in 1..MaxClock /\ firstStamp \in Clock
      BY DEF Clock
  <2>4. polls \in [Pollers -> {NoHandler} \union Writing \union Answering]
      OBVIOUS
  <2>5. /\ approval \in {NoHandler} \union [at : {"locked"}, by : Approvers, start : Clock]
        /\ route \in {NoHandler} \union OnRoute
      OBVIOUS
  <2>6. seen \subseteq {"old", "new"}
      OBVIOUS
  <2>7. told \in BOOLEAN /\ onboarded \in BOOLEAN /\ late \in BOOLEAN /\ outside \in BOOLEAN
      OBVIOUS
  <2>8. sess.status = "none" /\ sess.project = "none" /\ sess.keys = "none"
        /\ sess.claimed = 0 /\ sess.expires = 0
      OBVIOUS
  <2>9. SetupTypeOK
      BY <2>1, <2>3, <2>4, <2>5, <2>6, <2>7, <2>8 DEF SetupTypeOK, Approved
  <2>10. NothingAfterExpiry /\ KeysStayInWindow /\ OnboardedIsProven /\ Undecided /\ FirstStampKept /\ RouteReads
      BY <2>8 DEF NothingAfterExpiry, KeysStayInWindow, OnboardedIsProven, Undecided, FirstStampKept,
         RouteReads, Approved
  <2>. QED
    BY <2>2, <2>9, <2>10 DEF SetupInv, SetupKeepsWord
<1>. QED BY <1>1, SetupStep, PTL DEF SetupSpec

\* Whatever handlers overlap, a setup session gives nothing out after its expiry, no
\* keys to a poll begun after their window, and onboards an organisation only by an
\* event of its own project (AgentPoll, MarkAgentKeyDelivered, AgentSessionAuth).
THEOREM SetupKeepsWordHolds == SetupSpec => []SetupKeepsWord
<1>1. SetupInv => SetupKeepsWord
    BY DEF SetupInv
<1>. QED BY <1>1, SetupInvHolds, PTL

\* A denial, an expiry and an approval stand, with the project and the organisation
\* they are for, however approvals, denials, sweeps and polls overlap
\* (ApproveAgentSession, MarkAgentSessionFailed, ExpireAgentSessions).
THEOREM DecisionStandsHolds == SetupSpec => DecisionStands
<1>1. SetupInv /\ [SetupNext]_setupVars =>
        [ /\ sess.status \in {"failed", "expired"} => sess'.status \in {sess.status, "deleted"}
          /\ sess.status \in Approved => sess'.status \in Approved \union {"deleted"}
          /\ sess.status = "app_reporting" => sess'.status \notin {"provisioned", "key_ok"}
          /\ sess.project # "none" => sess'.project = sess.project /\ sess'.org = sess.org
        ]_setupVars
    BY RowMoves DEF Moves
<1>. QED BY <1>1, SetupInvHolds, PTL DEF SetupSpec, DecisionStands

-----------------------------------------------------------------------------
(* The records of GitHub App installations. *)

(* The events about the suspension of an installation, and about one of its  *)
(* repositories; those that tell what GitHub says now.                       *)
Suspensions == [event : {"suspend", "unsuspend", "deleted"}]
RepoEvents(r) == [event : {"added", "removed"}, repo : {r}]
TrueSuspensions(i) == IF github[i].state = "active" THEN [event : {"unsuspend"}]
                                                    ELSE [event : {"suspend", "deleted"}]
TrueRepoEvents(i, r) == IF r \in github[i].repos THEN [event : {"added"}, repo : {r}]
                                                 ELSE [event : {"removed"}, repo : {r}]

(* The last of the webhooks under way that is one of A is one of V; there is  *)
(* none of A.                                                                 *)
NewestIn(q, A, V) ==
  \A k \in 1..Len(q) : q[k] \in A /\ (\A l \in 1..Len(q) : l > k => q[l] \notin A) => q[k] \in V
Silent(q, A) == \A k \in 1..Len(q) : q[k] \notin A

(* What is under way ends with the truth, and where nothing is under way the  *)
(* record is true.                                                            *)
SuspensionTold(i) ==
  /\ NewestIn(mail[i], Suspensions, TrueSuspensions(i))
  /\ Silent(mail[i], Suspensions) /\ record[i] # NoRecord
       => (record[i].suspended <=> github[i].state # "active")
RepoTold(i, r) ==
  /\ NewestIn(mail[i], RepoEvents(r), TrueRepoEvents(i, r))
  /\ Silent(mail[i], RepoEvents(r)) /\ record[i] # NoRecord
       => (r \in record[i].repos <=> r \in github[i].repos)
Told(i) == SuspensionTold(i) /\ \A r \in InstallRepos : RepoTold(i, r)

(* The types InstallTypeOK leaves out. *)
CallbackStates == {NoRequest}
    \union [at : {"reserved"}, org : InstallOrgs, install : Installs]
    \union [at : {"listed"}, org : InstallOrgs, install : Installs, repos : SUBSET InstallRepos]
AskingStates == {NoRequest} \union [at : {"ask"}, install : Installs, repo : InstallRepos]
                            \union [at : {"retire"}, install : Installs]
RequestTypes ==
  /\ mail \in [Installs -> Seq(InstallEvents)]
  /\ callbacks \in [Callbacks -> CallbackStates]
  /\ asking \in [InstallOrgs -> AskingStates]

(* A record belongs to an organisation, and an organisation's pointer is at a *)
(* record of its own that is not suspended.                                   *)
RecordsMapped == \A i \in Installs : record[i] # NoRecord => record[i].org \in InstallOrgs
PointersLive ==
  \A o \in InstallOrgs : \A i \in Installs :
    pointer[o] = i => record[i].org = o /\ ~record[i].suspended

InstallInv ==
  /\ InstallTypeOK /\ RequestTypes /\ RecordsMapped /\ PointersLive
  /\ \A i \in Installs \ disturbed : Told(i)

-----------------------------------------------------------------------------
(* Webhooks under way. *)

LEMMA NewestAppends ==
  ASSUME NEW S, NEW q \in Seq(S), NEW e \in S, NEW A, NEW V, NEW W
  PROVE  /\ e \in A /\ e \in W => NewestIn(Append(q, e), A, W) /\ ~Silent(Append(q, e), A)
         /\ e \notin A /\ NewestIn(q, A, V) => NewestIn(Append(q, e), A, V)
         /\ e \notin A /\ Silent(Append(q, e), A) => Silent(q, A)
<1>1. /\ Len(Append(q, e)) = Len(q) + 1 /\ Append(q, e)[Len(q) + 1] = e /\ Len(q) \in Nat
      /\ \A k \in 1..Len(q) : Append(q, e)[k] = q[k]
    BY AppendProperties
<1> DEFINE p == Append(q, e)
<1> HIDE DEF p
<1>2. ASSUME e \in A, e \in W PROVE NewestIn(p, A, W) /\ ~Silent(p, A)
  <2>1. Len(p) \in 1..Len(p) /\ p[Len(p)] = e /\ \A k \in 1..Len(p) : k = Len(p) \/ Len(p) > k
      BY <1>1 DEF p
  <2>. QED BY <1>2, <2>1 DEF NewestIn, Silent
<1>3. ASSUME e \notin A, NewestIn(q, A, V) PROVE NewestIn(p, A, V)
  <2> SUFFICES ASSUME NEW k \in 1..Len(p), p[k] \in A, \A l \in 1..Len(p) : l > k => p[l] \notin A
               PROVE  p[k] \in V
      BY DEF NewestIn
  <2>1. k \in 1..Len(q) /\ p[k] = q[k]
      BY <1>1, <1>3 DEF p
  <2>2. \A l \in 1..Len(q) : l > k => q[l] \notin A
      BY <1>1 DEF p
  <2>. QED BY <1>3, <2>1, <2>2 DEF NewestIn
<1>4. ASSUME Silent(p, A) PROVE Silent(q, A)
  <2>1. \A k \in 1..Len(q) : k \in 1..Len(p) /\ p[k] = q[k]
      BY <1>1 DEF p
  <2>. QED BY <1>4, <2>1 DEF Silent
<1>. QED BY <1>2, <1>3, <1>4 DEF p

LEMMA NewestAdvances ==
  ASSUME NEW S, NEW q \in Seq(S), q # <<>>, NEW A, NEW V, NewestIn(q, A, V)
  PROVE  /\ NewestIn(Tail(q), A, V)
         /\ Silent(Tail(q), A) => Silent(q, A) \/ Head(q) \in V
<1>1. /\ Len(q) \in Nat /\ Len(q) > 0 /\ Len(Tail(q)) = Len(q) - 1 /\ Head(q) = q[1]
      /\ \A k \in 1..Len(q) - 1 : Tail(q)[k] = q[k + 1]
    BY HeadTailProperties, EmptySeq
<1> DEFINE p == Tail(q)
<1> HIDE DEF p
<1>2. \A k \in 1..Len(p) : p[k] = q[k + 1] /\ k + 1 \in 1..Len(q)
    BY <1>1 DEF p
<1>3. \A l \in 1..Len(q) : l = 1 \/ (l - 1 \in 1..Len(p) /\ p[l - 1] = q[l])
    BY <1>1 DEF p
<1>4. NewestIn(p, A, V)
  <2> SUFFICES ASSUME NEW k \in 1..Len(p), p[k] \in A, \A l \in 1..Len(p) : l > k => p[l] \notin A
               PROVE  p[k] \in V
      BY DEF NewestIn
  <2>1. \A l \in 1..Len(q) : l > k + 1 => q[l] \notin A
      BY <1>1, <1>3
  <2>. QED BY <1>2, <2>1 DEF NewestIn
<1>5. ASSUME Silent(p, A) PROVE Silent(q, A) \/ Head(q) \in V
  <2>1. \A l \in 1..Len(q) : l > 1 => q[l] \notin A
      BY <1>3, <1>5 DEF Silent
  <2>2. CASE q[1] \in A
      BY <1>1, <2>1, <2>2 DEF NewestIn
  <2>3. CASE q[1] \notin A
    <3>1. \A l \in 1..Len(q) : q[l] \notin A
        BY <1>1, <2>1, <2>3
    <3>. QED BY <3>1 DEF Silent
  <2>. QED BY <2>2, <2>3
<1>. QED BY <1>4, <1>5 DEF p

LEMMA MailStaysMail ==
  ASSUME NEW S, NEW q \in Seq(S), NEW k \in 1..Len(q)
  PROVE  RemoveAt(q, k) \in Seq(S) /\ q[k] \in S
<1>1. k \in Nat /\ Len(q) \in Nat /\ q[k] \in S
    BY ElementOfSeq
<1>2. SubSeq(q, 1, k - 1) \in Seq(S) /\ SubSeq(q, k + 1, Len(q)) \in Seq(S)
  <2>1. \A x \in 1..(k - 1) : q[x] \in S
      BY <1>1, ElementOfSeq
  <2>2. \A x \in (k + 1)..Len(q) : q[x] \in S
      BY <1>1, ElementOfSeq
  <2>. QED BY <1>1, <2>1, <2>2, SubSeqProperties
<1>. QED BY <1>1, <1>2, ConcatProperties DEF RemoveAt

-----------------------------------------------------------------------------
(* Records and pointers. *)

LEMMA RetiredKeeps ==
  ASSUME InstallInv, NEW i \in Installs, NEW orgs, orgs \subseteq InstallOrgs, InstallRetired(i, orgs)
  PROVE  /\ record' \in [Installs -> [org : InstallOrgs \union {NoInstall}, suspended : BOOLEAN,
                                      repos : SUBSET InstallRepos]]
         /\ pointer' \in [InstallOrgs -> Installs \union {NoInstall}]
         /\ RecordsMapped' /\ PointersLive'
         /\ \A j \in Installs \ {i} : record'[j] = record[j]
         /\ record'[i].repos = record[i].repos
         /\ record'[i] # NoRecord <=> record[i] # NoRecord
         /\ record'[i].suspended = record[i].suspended \/ record'[i].suspended
         /\ record[i] # NoRecord /\ orgs = InstallOrgs => record'[i].suspended
<1>1. /\ record \in [Installs -> [org : InstallOrgs \union {NoInstall}, suspended : BOOLEAN,
                                  repos : SUBSET InstallRepos]]
      /\ pointer \in [InstallOrgs -> Installs \union {NoInstall}]
      /\ RecordsMapped /\ PointersLive
      /\ NoInstall \notin Installs /\ NoInstall \notin InstallOrgs
    BY InstallConstants DEF InstallInv, InstallTypeOK
<1>2. pointer' = [o \in InstallOrgs |-> IF o \in orgs /\ pointer[o] = i THEN NoInstall ELSE pointer[o]]
    BY DEF InstallRetired
<1>3. pointer' \in [InstallOrgs -> Installs \union {NoInstall}]
    BY <1>1, <1>2
<1>4. CASE record[i].org \in orgs
  <2>1. record' = [record EXCEPT ![i].suspended = TRUE]
      BY <1>4 DEF InstallRetired
  <2>2. record[i] # NoRecord
      BY <1>1, <1>4 DEF NoRecord
  <2>3. /\ record' \in [Installs -> [org : InstallOrgs \union {NoInstall}, suspended : BOOLEAN,
                                  repos : SUBSET InstallRepos]]
        /\ \A j \in Installs \ {i} : record'[j] = record[j]
        /\ record'[i].repos = record[i].repos /\ record'[i].org = record[i].org /\ record'[i].suspended
      BY <1>1, <2>1
  <2>4. record'[i] # NoRecord
      BY <1>1, <1>4, <2>3 DEF NoRecord
  <2>5. RecordsMapped'
      BY <1>1, <1>4, <2>3 DEF RecordsMapped
  <2>6. PointersLive'
    <3> SUFFICES ASSUME NEW o \in InstallOrgs, NEW j \in Installs, pointer'[o] = j
                 PROVE  record'[j].org = o /\ ~record'[j].suspended
        BY DEF PointersLive
    <3>1. pointer[o] = j /\ ~(o \in orgs /\ j = i)
        BY <1>1, <1>2
    <3>2. record[j].org = o /\ ~record[j].suspended
        BY <1>1, <3>1 DEF PointersLive
    <3>3. j # i
        BY <1>4, <3>1, <3>2
    <3>. QED BY <2>3, <3>2, <3>3
  <2>. QED BY <1>3, <2>2, <2>3, <2>4, <2>5, <2>6
<1>5. CASE record[i].org \notin orgs
  <2>1. record' = record
      BY <1>5 DEF InstallRetired
  <2>2. RecordsMapped'
      BY <1>1, <2>1 DEF RecordsMapped
  <2>3. PointersLive'
      BY <1>1, <1>2, <2>1 DEF PointersLive
  <2>4. record[i] # NoRecord => orgs # InstallOrgs
      BY <1>1, <1>5 DEF RecordsMapped
  <2>. QED BY <1>1, <1>3, <2>1, <2>2, <2>3, <2>4
<1>. QED BY <1>4, <1>5

LEMMA ReactivatedKeeps ==
  ASSUME InstallInv, NEW i \in Installs, record[i] # NoRecord, Reactivated(i)
  PROVE  /\ record' \in [Installs -> [org : InstallOrgs \union {NoInstall}, suspended : BOOLEAN,
                                      repos : SUBSET InstallRepos]]
         /\ pointer' \in [InstallOrgs -> Installs \union {NoInstall}]
         /\ RecordsMapped' /\ PointersLive'
         /\ \A j \in Installs \ {i} : record'[j] = record[j]
         /\ record'[i].repos = record[i].repos /\ record'[i] # NoRecord
         /\ ~record'[i].suspended
<1> DEFINE o == record[i].org
<1>1. /\ record \in [Installs -> [org : InstallOrgs \union {NoInstall}, suspended : BOOLEAN,
                                  repos : SUBSET InstallRepos]]
      /\ pointer \in [InstallOrgs -> Installs \union {NoInstall}]
      /\ RecordsMapped /\ PointersLive /\ o \in InstallOrgs
      /\ NoInstall \notin Installs /\ NoInstall \notin InstallOrgs
    BY InstallConstants DEF InstallInv, InstallTypeOK, RecordsMapped
<1>2. /\ pointer' = IF pointer[o] = NoInstall THEN [pointer EXCEPT ![o] = i] ELSE pointer
      /\ record' = [record EXCEPT ![i].suspended = FALSE]
    BY DEF Reactivated
<1>3. /\ record' \in [Installs -> [org : InstallOrgs \union {NoInstall}, suspended : BOOLEAN,
                                  repos : SUBSET InstallRepos]]
      /\ \A j \in Installs \ {i} : record'[j] = record[j]
      /\ record'[i].repos = record[i].repos /\ record'[i].org = o /\ ~record'[i].suspended
    BY <1>1, <1>2
<1>4. record'[i] # NoRecord
    BY <1>1, <1>3 DEF NoRecord
<1>5. pointer' \in [InstallOrgs -> Installs \union {NoInstall}]
    BY <1>1, <1>2
<1>6. RecordsMapped'
    BY <1>1, <1>3 DEF RecordsMapped
<1>7. PointersLive'
  <2> SUFFICES ASSUME NEW p \in InstallOrgs, NEW j \in Installs, pointer'[p] = j
               PROVE  record'[j].org = p /\ ~record'[j].suspended
      BY DEF PointersLive
  <2> HIDE DEF o
  <2>1. pointer[p] = j \/ (p = o /\ j = i)
      BY <1>1, <1>2
  <2>. QED BY <1>1, <1>3, <2>1 DEF PointersLive, o
<1>. QED BY <1>3, <1>4, <1>5, <1>6, <1>7

(* handleInstallationWebhook, whatever event it is given. *)
LEMMA AppliedKeeps ==
  ASSUME InstallInv, NEW i \in Installs, NEW m \in InstallEvents, Applies(i, m)
  PROVE  /\ record' \in [Installs -> [org : InstallOrgs \union {NoInstall}, suspended : BOOLEAN,
                                      repos : SUBSET InstallRepos]]
         /\ pointer' \in [InstallOrgs -> Installs \union {NoInstall}]
         /\ RecordsMapped' /\ PointersLive'
         /\ \A j \in Installs \ {i} : record'[j] = record[j]
         /\ record'[i] # NoRecord <=> record[i] # NoRecord
         /\ record[i] # NoRecord =>
              /\ record'[i].suspended = IF m \in Suspensions THEN m.event # "unsuspend"
                                                             ELSE record[i].suspended
              /\ \A r \in InstallRepos :
                   r \in record'[i].repos <=> IF m \in RepoEvents(r) THEN m.event = "added"
                                                                    ELSE r \in record[i].repos
<1>1. /\ record \in [Installs -> [org : InstallOrgs \union {NoInstall}, suspended : BOOLEAN,
                                  repos : SUBSET InstallRepos]]
      /\ pointer \in [InstallOrgs -> Installs \union {NoInstall}]
      /\ RecordsMapped /\ PointersLive
      /\ NoInstall \notin Installs /\ NoInstall \notin InstallOrgs
    BY InstallConstants DEF InstallInv, InstallTypeOK
<1>2. CASE record[i] = NoRecord
  <2>1. record' = record /\ pointer' = pointer
      BY <1>2 DEF Applies
  <2>. QED BY <1>1, <1>2, <2>1 DEF RecordsMapped, PointersLive
<1>3. CASE record[i] # NoRecord /\ m.event \in {"deleted", "suspend"}
  <2>1. InstallRetired(i, InstallOrgs)
      BY <1>3 DEF Applies
  <2>2. m \in Suspensions /\ m.event # "unsuspend" /\ \A r \in InstallRepos : m \notin RepoEvents(r)
      BY <1>3 DEF InstallEvents, Suspensions, RepoEvents
  <2>3. record'[i].suspended
      BY <1>3, <2>1, RetiredKeeps
  <2>4. record'[i].suspended \in BOOLEAN
      BY <2>1, RetiredKeeps
  <2>. QED BY <1>3, <2>1, <2>2, <2>3, <2>4, RetiredKeeps
<1>4. CASE record[i] # NoRecord /\ m.event = "unsuspend"
  <2>1. Reactivated(i)
      BY <1>4 DEF Applies
  <2>2. m \in Suspensions /\ \A r \in InstallRepos : m \notin RepoEvents(r)
      BY <1>4 DEF InstallEvents, Suspensions, RepoEvents
  <2>3. record'[i].suspended \in BOOLEAN
      BY <1>4, <2>1, ReactivatedKeeps
  <2>. QED BY <1>4, <2>1, <2>2, <2>3, ReactivatedKeeps
<1>5. CASE record[i] # NoRecord /\ m.event \in {"added", "removed"}
  <2> DEFINE new == IF m.event = "added" THEN record[i].repos \union {m.repo} ELSE record[i].repos \ {m.repo}
  <2>1. m.repo \in InstallRepos /\ m \notin Suspensions /\ m \in RepoEvents(m.repo)
        /\ \A r \in InstallRepos : m \in RepoEvents(r) => r = m.repo
      BY <1>5 DEF InstallEvents, Suspensions, RepoEvents
  <2>2. pointer' = pointer /\ record' = [record EXCEPT ![i].repos = new]
      BY <1>5 DEF Applies
  <2>3. new \in SUBSET InstallRepos
        /\ \A r \in InstallRepos : r \in new <=> IF r = m.repo THEN m.event = "added" ELSE r \in record[i].repos
      BY <1>1, <1>5, <2>1
  <2> HIDE DEF new
  <2>4. /\ record' \in [Installs -> [org : InstallOrgs \union {NoInstall}, suspended : BOOLEAN,
                                  repos : SUBSET InstallRepos]]
        /\ \A j \in Installs \ {i} : record'[j] = record[j]
        /\ record'[i].repos = new /\ record'[i].org = record[i].org
        /\ record'[i].suspended = record[i].suspended
      BY <1>1, <2>2, <2>3
  <2>5. record'[i] # NoRecord
      BY <1>1, <1>5, <2>4 DEF NoRecord, RecordsMapped
  <2>6. RecordsMapped' /\ PointersLive'
      BY <1>1, <1>5, <2>2, <2>4 DEF RecordsMapped, PointersLive
  <2>. QED BY <1>1, <1>5, <2>1, <2>2, <2>3, <2>4, <2>5, <2>6
<1>. QED BY <1>2, <1>3, <1>4, <1>5 DEF InstallEvents

LEMMA ToldKeeps ==
  ASSUME NEW i, Told(i), github'[i] = github[i], mail'[i] = mail[i], record'[i] = record[i]
  PROVE  Told(i)'
BY DEF Told, SuspensionTold, RepoTold, TrueSuspensions, TrueRepoEvents, NewestIn, Silent

-----------------------------------------------------------------------------
(* The steps. *)

(* What GitHub does, it tells. *)
LEMMA GitHubKeeps ==
  ASSUME InstallInv, NEW i \in Installs,
         \/ GitHubSuspends(i) \/ GitHubUnsuspends(i) \/ GitHubDeletes(i)
         \/ \E r \in InstallRepos : GitHubRepos(i, r)
  PROVE  InstallInv'
<1>1. /\ github \in [Installs -> [state : GitHubStates, repos : SUBSET InstallRepos]]
      /\ mail \in [Installs -> Seq(InstallEvents)] /\ mail[i] \in Seq(InstallEvents)
      /\ moves \in 0..MaxGitHub
      /\ \A j \in Installs \ disturbed : Told(j)
    BY DEF InstallInv, InstallTypeOK, RequestTypes
<1>2. PICK became, event : GitHubChanges(i, became, event)
    BY DEF GitHubSuspends, GitHubUnsuspends, GitHubDeletes, GitHubRepos
<1>3. /\ UNCHANGED <<record, pointer, connected, states, callbacks, asking, asks, disturbed>>
      /\ moves' \in 0..MaxGitHub
    BY <1>1, <1>2, InstallConstants DEF GitHubChanges
<1>4. ASSUME NEW b \in [state : GitHubStates, repos : SUBSET InstallRepos], NEW e \in InstallEvents,
             github' = [github EXCEPT ![i] = b], mail' = [mail EXCEPT ![i] = Append(@, e)],
             \/ /\ e \in Suspensions /\ b.repos = github[i].repos
                /\ e.event = "unsuspend" <=> b.state = "active"
             \/ /\ \E r \in InstallRepos :
                     /\ e \in RepoEvents(r) /\ (e.event = "added" <=> r \in b.repos)
                     /\ \A x \in InstallRepos \ {r} : x \in b.repos <=> x \in github[i].repos
                /\ b.state = github[i].state
      PROVE  InstallInv'
  <2>1. /\ github' \in [Installs -> [state : GitHubStates, repos : SUBSET InstallRepos]]
        /\ github'[i] = b /\ \A j \in Installs \ {i} : github'[j] = github[j]
      BY <1>1, <1>4
  <2>2. /\ Append(mail[i], e) \in Seq(InstallEvents)
        /\ \A k \in DOMAIN Append(mail[i], e) : Append(mail[i], e)[k] \in InstallEvents
      BY <1>1, AppendProperties, ElementOfSeq
  <2>3. /\ mail' \in [Installs -> Seq(InstallEvents)]
        /\ mail'[i] = Append(mail[i], e) /\ \A j \in Installs \ {i} : mail'[j] = mail[j]
      BY <1>1, <1>4, <2>2
  <2>4. InstallTypeOK' /\ RequestTypes' /\ RecordsMapped' /\ PointersLive'
    <3>1. \A j \in Installs : \A k \in DOMAIN mail'[j] : mail'[j][k] \in InstallEvents
        BY <2>2, <2>3 DEF InstallInv, InstallTypeOK
    <3>. QED BY <1>3, <2>1, <2>3, <3>1 DEF InstallInv, InstallTypeOK, RequestTypes, RecordsMapped, PointersLive
  <2>5. ASSUME NEW j \in Installs \ disturbed, j # i PROVE Told(j)'
      BY <1>1, <1>3, <2>1, <2>3, <2>5, ToldKeeps
  <2>6. ASSUME Told(i) PROVE Told(i)'
    <3>1. CASE /\ e \in Suspensions /\ b.repos = github[i].repos
               /\ e.event = "unsuspend" <=> b.state = "active"
      <4>1. e \in TrueSuspensions(i)'
          BY <2>1, <3>1 DEF TrueSuspensions, Suspensions
      <4>2. SuspensionTold(i)'
        <5>1. e \in Suspensions
            BY <3>1
        <5>2. /\ NewestIn(Append(mail[i], e), Suspensions, TrueSuspensions(i)')
              /\ ~Silent(Append(mail[i], e), Suspensions)
            BY <1>1, <4>1, <5>1, NewestAppends
        <5>. QED BY <2>3, <5>2 DEF SuspensionTold
      <4>3. ASSUME NEW r \in InstallRepos PROVE RepoTold(i, r)'
        <5>1. e \notin RepoEvents(r)
            BY <3>1 DEF Suspensions, RepoEvents
        <5>2. TrueRepoEvents(i, r)' = TrueRepoEvents(i, r)
            BY <2>1, <3>1 DEF TrueRepoEvents
        <5>3. RepoTold(i, r)
            BY <2>6 DEF Told
        <5>. QED BY <1>1, <1>3, <2>1, <2>3, <3>1, <5>1, <5>2, <5>3, NewestAppends DEF RepoTold
      <4>. QED BY <4>2, <4>3 DEF Told
    <3>2. ASSUME NEW r \in InstallRepos, e \in RepoEvents(r), e.event = "added" <=> r \in b.repos,
                 \A x \in InstallRepos \ {r} : x \in b.repos <=> x \in github[i].repos,
                 b.state = github[i].state
          PROVE  Told(i)'
      <4>1. e \in TrueRepoEvents(i, r)' /\ e \notin Suspensions
          BY <2>1, <3>2 DEF TrueRepoEvents, RepoEvents, Suspensions
      <4>2. RepoTold(i, r)'
        <5>1. e \in RepoEvents(r)
            BY <3>2
        <5>2. /\ NewestIn(Append(mail[i], e), RepoEvents(r), TrueRepoEvents(i, r)')
              /\ ~Silent(Append(mail[i], e), RepoEvents(r))
            BY <1>1, <4>1, <5>1, NewestAppends
        <5>. QED BY <2>3, <5>2 DEF RepoTold
      <4>3. SuspensionTold(i)'
        <5>1. TrueSuspensions(i)' = TrueSuspensions(i)
            BY <2>1, <3>2 DEF TrueSuspensions
        <5>2. SuspensionTold(i)
            BY <2>6 DEF Told
        <5>. QED BY <1>1, <1>3, <2>1, <2>3, <3>2, <4>1, <5>1, <5>2, NewestAppends DEF SuspensionTold
      <4>4. ASSUME NEW x \in InstallRepos, x # r PROVE RepoTold(i, x)'
        <5>1. e \notin RepoEvents(x)
            BY <3>2, <4>4 DEF RepoEvents
        <5>2. TrueRepoEvents(i, x)' = TrueRepoEvents(i, x) /\ (x \in b.repos <=> x \in github[i].repos)
            BY <2>1, <3>2, <4>4 DEF TrueRepoEvents
        <5>3. RepoTold(i, x)
            BY <2>6 DEF Told
        <5>. QED BY <1>1, <1>3, <2>1, <2>3, <5>1, <5>2, <5>3, NewestAppends DEF RepoTold
      <4>. QED BY <4>2, <4>3, <4>4 DEF Told
    <3>. QED BY <1>4, <3>1, <3>2
  <2>. QED BY <1>1, <1>3, <2>4, <2>5, <2>6 DEF InstallInv
<1>5. github[i] \in [state : GitHubStates, repos : SUBSET InstallRepos]
    BY <1>1
<1>6. ASSUME NEW x \in {"active", "suspended", "gone"}, NEW v \in {"suspend", "unsuspend", "deleted"},
             v = "unsuspend" <=> x = "active",
             GitHubChanges(i, [github[i] EXCEPT !.state = x], [event |-> v])
      PROVE  InstallInv'
  <2> DEFINE b == [github[i] EXCEPT !.state = x]
             e == [event |-> v]
  <2>1. /\ b \in [state : GitHubStates, repos : SUBSET InstallRepos] /\ b.repos = github[i].repos
        /\ b.state = x
      BY <1>5 DEF GitHubStates
  <2>2. e \in InstallEvents /\ e \in Suspensions /\ e.event = v
      BY DEF InstallEvents, Suspensions
  <2>3. github' = [github EXCEPT ![i] = b] /\ mail' = [mail EXCEPT ![i] = Append(@, e)]
      BY <1>6 DEF GitHubChanges
  <2> HIDE DEF b, e
  <2>. QED BY <1>4, <1>6, <2>1, <2>2, <2>3
<1>7. ASSUME NEW r \in InstallRepos, NEW R \in SUBSET InstallRepos, NEW v \in {"added", "removed"},
             v = "added" <=> r \in R, \A x \in InstallRepos \ {r} : x \in R <=> x \in github[i].repos,
             GitHubChanges(i, [github[i] EXCEPT !.repos = R], [event |-> v, repo |-> r])
      PROVE  InstallInv'
  <2> DEFINE b == [github[i] EXCEPT !.repos = R]
             e == [event |-> v, repo |-> r]
  <2>1. /\ b \in [state : GitHubStates, repos : SUBSET InstallRepos] /\ b.repos = R
        /\ b.state = github[i].state
      BY <1>5
  <2>2. e \in InstallEvents /\ e \in RepoEvents(r) /\ e.event = v
      BY DEF InstallEvents, RepoEvents
  <2>3. github' = [github EXCEPT ![i] = b] /\ mail' = [mail EXCEPT ![i] = Append(@, e)]
      BY <1>7 DEF GitHubChanges
  <2> HIDE DEF b, e
  <2>. QED BY <1>4, <1>7, <2>1, <2>2, <2>3
<1>8. CASE GitHubSuspends(i) \/ GitHubUnsuspends(i) \/ GitHubDeletes(i)
    BY <1>6, <1>8 DEF GitHubSuspends, GitHubUnsuspends, GitHubDeletes
<1>9. ASSUME NEW r \in InstallRepos, GitHubRepos(i, r) PROVE InstallInv'
  <2>1. CASE r \in github[i].repos
    <3> DEFINE R == github[i].repos \ {r}
    <3>1. R \in SUBSET InstallRepos /\ r \notin R
          /\ "removed" \in {"added", "removed"} /\ ("removed" = "added" <=> r \in R)
          /\ \A x \in InstallRepos \ {r} : x \in R <=> x \in github[i].repos
        BY <1>5
    <3>2. GitHubChanges(i, [github[i] EXCEPT !.repos = R], [event |-> "removed", repo |-> r])
        BY <1>9, <2>1 DEF GitHubRepos
    <3> HIDE DEF R
    <3>. QED BY <1>7, <3>1, <3>2
  <2>2. CASE r \notin github[i].repos
    <3> DEFINE R == github[i].repos \union {r}
    <3>1. R \in SUBSET InstallRepos /\ r \in R
          /\ "added" \in {"added", "removed"} /\ ("added" = "added" <=> r \in R)
          /\ \A x \in InstallRepos \ {r} : x \in R <=> x \in github[i].repos
        BY <1>5
    <3>2. GitHubChanges(i, [github[i] EXCEPT !.repos = R], [event |-> "added", repo |-> r])
        BY <1>9, <2>2 DEF GitHubRepos
    <3> HIDE DEF R
    <3>. QED BY <1>7, <3>1, <3>2
  <2>. QED BY <2>1, <2>2
<1>. QED BY <1>8, <1>9

(* A webhook in its order, out of it, or never. *)
LEMMA WebhooksKeep ==
  ASSUME InstallInv, NEW i \in Installs,
         Webhook(i) \/ WebhookLost(i) \/ \E k \in 2..MaxGitHub : WebhookEarly(i, k)
  PROVE  InstallInv'
<1>1. /\ mail \in [Installs -> Seq(InstallEvents)] /\ mail[i] \in Seq(InstallEvents)
      /\ disturbed \subseteq Installs
      /\ \A j \in Installs \ disturbed : Told(j)
    BY DEF InstallInv, InstallTypeOK, RequestTypes
<1>2. UNCHANGED <<github, connected, states, callbacks, asking, moves, asks>>
    BY DEF Webhook, WebhookLost, WebhookEarly, counters
<1>3. ASSUME NEW q \in Seq(InstallEvents), mail' = [mail EXCEPT ![i] = q],
             disturbed' \in SUBSET Installs, disturbed \subseteq disturbed',
             \/ record' = record /\ pointer' = pointer
             \/ \E m \in InstallEvents : Applies(i, m),
             i \notin disturbed' => Told(i)'
      PROVE  InstallInv'
  <2>1. /\ mail' \in [Installs -> Seq(InstallEvents)]
        /\ \A j \in Installs \ {i} : mail'[j] = mail[j]
        /\ \A j \in Installs : \A k \in DOMAIN mail'[j] : mail'[j][k] \in InstallEvents
    <3>1. mail' \in [Installs -> Seq(InstallEvents)]
        BY <1>1, <1>3
    <3>2. \A j \in Installs : \A k \in DOMAIN mail'[j] : mail'[j][k] \in InstallEvents
      <4> TAKE j \in Installs
      <4>1. mail'[j] \in Seq(InstallEvents)
          BY <3>1
      <4>. QED BY <4>1, ElementOfSeq, LenProperties
    <3>. QED BY <1>1, <1>3, <3>1, <3>2
  <2>2. /\ record' \in [Installs -> [org : InstallOrgs \union {NoInstall}, suspended : BOOLEAN,
                                    repos : SUBSET InstallRepos]]
        /\ pointer' \in [InstallOrgs -> Installs \union {NoInstall}]
        /\ RecordsMapped' /\ PointersLive'
        /\ \A j \in Installs \ {i} : record'[j] = record[j]
    <3>1. CASE record' = record /\ pointer' = pointer
        BY <3>1 DEF InstallInv, InstallTypeOK, RecordsMapped, PointersLive
    <3>2. CASE \E m \in InstallEvents : Applies(i, m)
        BY <3>2, AppliedKeeps
    <3>. QED BY <1>3, <3>1, <3>2
  <2>3. InstallTypeOK' /\ RequestTypes'
      BY <1>2, <1>3, <2>1, <2>2 DEF InstallInv, InstallTypeOK, RequestTypes
  <2>4. ASSUME NEW j \in Installs \ disturbed', j # i PROVE Told(j)'
      BY <1>1, <1>2, <1>3, <2>1, <2>2, <2>4, ToldKeeps
  <2>. QED BY <1>3, <2>2, <2>3, <2>4 DEF InstallInv
<1>4. CASE Webhook(i)
  <2> DEFINE m == Head(mail[i])
             q == Tail(mail[i])
  <2>1. /\ mail[i] # <<>> /\ mail' = [mail EXCEPT ![i] = q] /\ Applies(i, m)
        /\ disturbed' = disturbed
      BY <1>4 DEF Webhook
  <2>2. q \in Seq(InstallEvents) /\ m \in InstallEvents
      BY <1>1, <2>1, HeadTailProperties
  <2>3. mail'[i] = q /\ github' = github
      BY <1>1, <1>2, <2>1
  <2>4. ASSUME i \notin disturbed PROVE Told(i)'
    <3>1. Told(i)
        BY <1>1, <2>4
    <3>2. SuspensionTold(i)'
      <4>1. NewestIn(mail[i], Suspensions, TrueSuspensions(i))
          BY <3>1 DEF Told, SuspensionTold
      <4>2. NewestIn(q, Suspensions, TrueSuspensions(i))
          BY <1>1, <2>1, <4>1, NewestAdvances
      <4>3. ASSUME Silent(q, Suspensions), record'[i] # NoRecord
            PROVE  record'[i].suspended <=> github[i].state # "active"
        <5>1. record[i] # NoRecord
              /\ record'[i].suspended = IF m \in Suspensions THEN m.event # "unsuspend"
                                                            ELSE record[i].suspended
            BY <2>1, <2>2, <4>3, AppliedKeeps
        <5>2. Silent(mail[i], Suspensions) \/ m \in TrueSuspensions(i)
            BY <1>1, <2>1, <4>1, <4>3, NewestAdvances
        <5>3. CASE m \in TrueSuspensions(i)
            BY <5>1, <5>3 DEF TrueSuspensions, Suspensions
        <5>4. CASE Silent(mail[i], Suspensions)
          <6>1. m \notin Suspensions
              BY <1>1, <2>1, <5>4, HeadTailProperties, EmptySeq DEF Silent
          <6>. QED BY <3>1, <5>1, <5>4, <6>1 DEF Told, SuspensionTold
        <5>. QED BY <5>2, <5>3, <5>4
      <4>4. TrueSuspensions(i)' = TrueSuspensions(i)
          BY <2>3 DEF TrueSuspensions
      <4>. QED BY <2>3, <4>2, <4>3, <4>4 DEF SuspensionTold
    <3>3. ASSUME NEW r \in InstallRepos PROVE RepoTold(i, r)'
      <4>1. NewestIn(mail[i], RepoEvents(r), TrueRepoEvents(i, r))
          BY <3>1 DEF Told, RepoTold
      <4>2. NewestIn(q, RepoEvents(r), TrueRepoEvents(i, r))
          BY <1>1, <2>1, <4>1, NewestAdvances
      <4>3. ASSUME Silent(q, RepoEvents(r)), record'[i] # NoRecord
            PROVE  r \in record'[i].repos <=> r \in github[i].repos
        <5>1. record[i] # NoRecord
              /\ (r \in record'[i].repos <=> IF m \in RepoEvents(r) THEN m.event = "added"
                                                                   ELSE r \in record[i].repos)
            BY <2>1, <2>2, <4>3, AppliedKeeps
        <5>2. Silent(mail[i], RepoEvents(r)) \/ m \in TrueRepoEvents(i, r)
            BY <1>1, <2>1, <4>1, <4>3, NewestAdvances
        <5>3. CASE m \in TrueRepoEvents(i, r)
            BY <5>1, <5>3 DEF TrueRepoEvents, RepoEvents
        <5>4. CASE Silent(mail[i], RepoEvents(r))
          <6>1. m \notin RepoEvents(r)
              BY <1>1, <2>1, <5>4, HeadTailProperties, EmptySeq DEF Silent
          <6>2. RepoTold(i, r)
              BY <3>1 DEF Told
          <6>. QED BY <5>1, <5>4, <6>1, <6>2 DEF RepoTold
        <5>. QED BY <5>2, <5>3, <5>4
      <4>4. TrueRepoEvents(i, r)' = TrueRepoEvents(i, r)
          BY <2>3 DEF TrueRepoEvents
      <4>. QED BY <2>3, <4>2, <4>3, <4>4 DEF RepoTold
    <3>. QED BY <3>2, <3>3 DEF Told
  <2> HIDE DEF m, q
  <2>. QED BY <1>1, <1>3, <2>1, <2>2, <2>4
<1>5. CASE WebhookLost(i)
  <2>1. /\ mail[i] # <<>> /\ mail' = [mail EXCEPT ![i] = Tail(mail[i])]
        /\ disturbed' = disturbed \union {i} /\ record' = record /\ pointer' = pointer
      BY <1>5 DEF WebhookLost
  <2>2. Tail(mail[i]) \in Seq(InstallEvents)
      BY <1>1, <2>1, HeadTailProperties
  <2>. QED BY <1>1, <1>3, <2>1, <2>2
<1>6. ASSUME NEW k \in 2..MaxGitHub, WebhookEarly(i, k) PROVE InstallInv'
  <2>1. /\ k \in 1..Len(mail[i]) /\ mail' = [mail EXCEPT ![i] = RemoveAt(mail[i], k)]
        /\ disturbed' = disturbed \union {i} /\ Applies(i, mail[i][k])
      BY <1>1, <1>6 DEF WebhookEarly
  <2>2. RemoveAt(mail[i], k) \in Seq(InstallEvents) /\ mail[i][k] \in InstallEvents
      BY <1>1, <2>1, MailStaysMail
  <2>. QED BY <1>1, <1>3, <2>1, <2>2
<1>. QED BY <1>4, <1>5, <1>6

(* Where neither GitHub, nor the webhooks, nor the records change, only the    *)
(* types of what changes are left to show.                                    *)
LEMMA RequestsKeep ==
  ASSUME InstallInv, UNCHANGED <<github, mail, record, pointer, disturbed>>,
         connected' \in [InstallOrgs -> InstallRepos \union {NoInstall}],
         states' \in [InstallOrgs -> [holder : Callbacks \union {NoInstall}, live : BOOLEAN,
                                      used : BOOLEAN]],
         \A o \in InstallOrgs : states'[o].live => states'[o].holder # NoInstall /\ ~states'[o].used,
         callbacks' \in [Callbacks -> CallbackStates], asking' \in [InstallOrgs -> AskingStates],
         moves' = moves, asks' \in 0..MaxAsks
  PROVE  InstallInv'
<1>1. InstallTypeOK' /\ RequestTypes'
  <2>1. \A c \in Callbacks : callbacks'[c].at \in {"idle", "reserved", "listed"}
      BY DEF CallbackStates, NoRequest
  <2>2. \A o \in InstallOrgs : asking'[o].at \in {"idle", "ask", "retire"}
      BY DEF AskingStates, NoRequest
  <2>. QED BY <2>1, <2>2 DEF InstallInv, InstallTypeOK, RequestTypes
<1>2. RecordsMapped' /\ PointersLive'
    BY DEF InstallInv, RecordsMapped, PointersLive
<1>3. \A i \in Installs \ disturbed' : Told(i)'
  <2> SUFFICES ASSUME NEW i \in Installs \ disturbed PROVE Told(i)'
      OBVIOUS
  <2>. QED BY ToldKeeps DEF InstallInv
<1>. QED BY <1>1, <1>2, <1>3 DEF InstallInv

(* A step that leaves one installation's record such that what was told of it  *)
(* stays true, or marks it, and touches nothing of the others.                *)
LEMMA RecordsKeep ==
  ASSUME InstallInv, UNCHANGED <<github, mail, connected, moves, asks>>, NEW i \in Installs,
         record' \in [Installs -> [org : InstallOrgs \union {NoInstall}, suspended : BOOLEAN,
                                   repos : SUBSET InstallRepos]],
         pointer' \in [InstallOrgs -> Installs \union {NoInstall}],
         RecordsMapped', PointersLive',
         \A j \in Installs \ {i} : record'[j] = record[j],
         disturbed \subseteq disturbed', disturbed' \subseteq disturbed \union {i},
         i \notin disturbed' => Told(i)',
         states' \in [InstallOrgs -> [holder : Callbacks \union {NoInstall}, live : BOOLEAN,
                                      used : BOOLEAN]],
         \A o \in InstallOrgs : states'[o].live => states'[o].holder # NoInstall /\ ~states'[o].used,
         callbacks' \in [Callbacks -> CallbackStates], asking' \in [InstallOrgs -> AskingStates]
  PROVE  InstallInv'
<1>1. InstallTypeOK' /\ RequestTypes'
  <2>1. \A c \in Callbacks : callbacks'[c].at \in {"idle", "reserved", "listed"}
      BY DEF CallbackStates, NoRequest
  <2>2. \A o \in InstallOrgs : asking'[o].at \in {"idle", "ask", "retire"}
      BY DEF AskingStates, NoRequest
  <2>3. disturbed' \subseteq Installs
      BY DEF InstallInv, InstallTypeOK
  <2>. QED BY <2>1, <2>2, <2>3 DEF InstallInv, InstallTypeOK, RequestTypes
<1>2. ASSUME NEW j \in Installs \ disturbed', j # i PROVE Told(j)'
  <2>1. Told(j) /\ github'[j] = github[j] /\ mail'[j] = mail[j] /\ record'[j] = record[j]
      BY <1>2 DEF InstallInv
  <2>. QED BY <2>1, ToldKeeps
<1>. QED BY <1>1, <1>2 DEF InstallInv

(* Where GitHub agrees with the record, or has told, the record may be set to *)
(* what GitHub says.                                                          *)
LEMMA TrueRecordTold ==
  ASSUME NEW i \in Installs, Told(i), UNCHANGED <<github, mail>>,
         record'[i].suspended <=> github[i].state # "active",
         \/ record'[i].repos = record[i].repos /\ record[i] # NoRecord
         \/ record'[i].repos = github[i].repos
  PROVE  Told(i)'
<1>1. TrueSuspensions(i)' = TrueSuspensions(i)
    BY DEF TrueSuspensions
<1>2. SuspensionTold(i)'
    BY <1>1 DEF Told, SuspensionTold, NewestIn, Silent
<1>3. ASSUME NEW r \in InstallRepos PROVE RepoTold(i, r)'
  <2>1. TrueRepoEvents(i, r)' = TrueRepoEvents(i, r) /\ RepoTold(i, r)
      BY DEF Told, TrueRepoEvents
  <2>. QED BY <2>1 DEF RepoTold, NewestIn, Silent
<1>. QED BY <1>2, <1>3 DEF Told

(* An installation is retired, for some organisation, while GitHub does not   *)
(* show it as active, or it is marked.                                        *)
LEMMA RetiringKeeps ==
  ASSUME InstallInv, NEW i \in Installs, NEW o \in InstallOrgs, InstallRetired(i, {o}),
         UNCHANGED <<github, mail>>, github[i].state # "active", i \notin disturbed
  PROVE  Told(i)'
<1>1. Told(i)
    BY DEF InstallInv
<1>2. CASE record' = record
    BY <1>1, <1>2, ToldKeeps
<1>3. CASE record' # record
  <2>1. record[i].org = o /\ record' = [record EXCEPT ![i].suspended = TRUE]
      BY <1>3 DEF InstallRetired
  <2>2. record'[i].suspended /\ record'[i].repos = record[i].repos
      BY <2>1 DEF InstallInv, InstallTypeOK
  <2>3. record[i] # NoRecord
      BY <2>1, InstallConstants DEF NoRecord
  <2>. QED BY <1>1, <2>2, <2>3, TrueRecordTold
<1>. QED BY <1>2, <1>3

(* The login states after ReleaseOAuthLoginState. *)
LEMMA ReleaseKeeps ==
  ASSUME InstallInv, NEW c \in Callbacks, callbacks[c] # NoRequest, Release(c)
  PROVE  /\ states' \in [InstallOrgs -> [holder : Callbacks \union {NoInstall}, live : BOOLEAN,
                                         used : BOOLEAN]]
         /\ \A o \in InstallOrgs : states'[o].live => states'[o].holder # NoInstall /\ ~states'[o].used
<1> DEFINE o == callbacks[c].org
           new == [states[o] EXCEPT !.holder = NoInstall, !.live = FALSE]
<1>1. /\ states \in [InstallOrgs -> [holder : Callbacks \union {NoInstall}, live : BOOLEAN,
                                     used : BOOLEAN]]
      /\ \A p \in InstallOrgs : states[p].live => states[p].holder # NoInstall /\ ~states[p].used
      /\ callbacks[c] \in CallbackStates
    BY DEF InstallInv, InstallTypeOK, RequestTypes
<1>2. o \in InstallOrgs
    BY <1>1 DEF CallbackStates
<1>3. new \in [holder : Callbacks \union {NoInstall}, live : BOOLEAN, used : BOOLEAN] /\ ~new.live
    BY <1>1, <1>2
<1>4. states' = states \/ states' = [states EXCEPT ![o] = new]
    BY DEF Release
<1> HIDE DEF o, new
<1>. QED BY <1>1, <1>2, <1>3, <1>4

(* The steps of a callback. *)
LEMMA CallbackKeeps ==
  ASSUME InstallInv, NEW c \in Callbacks,
         \/ \E o \in InstallOrgs, i \in Installs : Reserve(c, o, i)
         \/ CallbackLists(c) \/ CallbackDies(c) \/ CallbackPersists(c)
         \/ \E noToken \in BOOLEAN : CallbackFails(c, noToken)
  PROVE  InstallInv'
<1> DEFINE LoginStates == [holder : Callbacks \union {NoInstall}, live : BOOLEAN, used : BOOLEAN]
<1>1. /\ states \in [InstallOrgs -> LoginStates]
      /\ \A p \in InstallOrgs : states[p].live => states[p].holder # NoInstall /\ ~states[p].used
      /\ connected \in [InstallOrgs -> InstallRepos \union {NoInstall}]
      /\ callbacks \in [Callbacks -> CallbackStates] /\ asking \in [InstallOrgs -> AskingStates]
      /\ asks \in 0..MaxAsks /\ MaxAsks \in Nat
      /\ github \in [Installs -> [state : GitHubStates, repos : SUBSET InstallRepos]]
    BY InstallConstants DEF InstallInv, InstallTypeOK, RequestTypes
<1>2. [callbacks EXCEPT ![c] = NoRequest] \in [Callbacks -> CallbackStates]
    BY <1>1 DEF CallbackStates
<1>3. callbacks[c] # NoRequest => callbacks[c].org \in InstallOrgs /\ callbacks[c].install \in Installs
    BY <1>1 DEF CallbackStates
<1>4. ASSUME NEW o \in InstallOrgs, NEW i \in Installs, Reserve(c, o, i) PROVE InstallInv'
  <2> DEFINE new == [holder |-> c, live |-> TRUE, used |-> FALSE]
             request == [at |-> "reserved", org |-> o, install |-> i]
  <2>1. /\ states' = [states EXCEPT ![o] = new] /\ callbacks' = [callbacks EXCEPT ![c] = request]
        /\ asks' = asks + 1 /\ asks < MaxAsks /\ moves' = moves
        /\ UNCHANGED <<github, mail, record, pointer, connected, asking, disturbed>>
      BY <1>4 DEF Reserve
  <2>2. new \in LoginStates /\ c # NoInstall /\ request \in CallbackStates
      BY InstallConstants DEF CallbackStates
  <2>3. new.holder = c /\ ~new.used
      OBVIOUS
  <2> HIDE DEF new, request, LoginStates
  <2>4. /\ states' \in [InstallOrgs -> LoginStates]
        /\ \A p \in InstallOrgs : states'[p].live => states'[p].holder # NoInstall /\ ~states'[p].used
      BY <1>1, <2>1, <2>2, <2>3
  <2>5. callbacks' \in [Callbacks -> CallbackStates] /\ asks' \in 0..MaxAsks
      BY <1>1, <2>1, <2>2
  <2>. QED BY <1>1, <2>1, <2>4, <2>5, RequestsKeep DEF LoginStates
<1>5. CASE CallbackLists(c)
  <2> DEFINE request == [at |-> "listed", org |-> callbacks[c].org, install |-> callbacks[c].install,
                         repos |-> github[callbacks[c].install].repos]
  <2>1. /\ callbacks' = [callbacks EXCEPT ![c] = request] /\ callbacks[c].at = "reserved"
        /\ UNCHANGED <<github, mail, record, pointer, connected, states, asking, moves, asks, disturbed>>
      BY <1>5 DEF CallbackLists, counters
  <2>2. callbacks[c] # NoRequest
      BY <2>1 DEF NoRequest
  <2>3. request \in CallbackStates
      BY <1>1, <1>3, <2>2 DEF CallbackStates
  <2> HIDE DEF request
  <2>4. callbacks' \in [Callbacks -> CallbackStates]
      BY <1>1, <2>1, <2>3
  <2>. QED BY <1>1, <2>1, <2>4, RequestsKeep
<1>6. CASE CallbackDies(c)
  <2>1. /\ callbacks' = [callbacks EXCEPT ![c] = NoRequest]
        /\ UNCHANGED <<github, mail, record, pointer, connected, states, asking, moves, asks, disturbed>>
      BY <1>6 DEF CallbackDies, counters
  <2>. QED BY <1>1, <1>2, <2>1, RequestsKeep
<1>7. ASSUME NEW noToken \in BOOLEAN, CallbackFails(c, noToken) PROVE InstallInv'
  <2>0. callbacks[c] # NoRequest
      BY <1>7 DEF CallbackFails
  <2>2. PICK o \in InstallOrgs, i \in Installs : callbacks[c].org = o /\ callbacks[c].install = i
      BY <1>3, <2>0
  <2>1. /\ callbacks' = [callbacks EXCEPT ![c] = NoRequest] /\ callbacks[c] # NoRequest /\ Release(c)
        /\ noToken => github[i].state # "active"
        /\ IF noToken THEN InstallRetired(i, {o}) ELSE UNCHANGED <<record, pointer>>
        /\ UNCHANGED <<github, mail, connected, asking, moves, asks, disturbed>>
      BY <1>7, <2>2 DEF CallbackFails, counters
  <2>3. /\ states' \in [InstallOrgs -> LoginStates]
        /\ \A p \in InstallOrgs : states'[p].live => states'[p].holder # NoInstall /\ ~states'[p].used
      BY <2>1, ReleaseKeeps
  <2>4. CASE noToken
    <3>1. i \notin disturbed => Told(i)'
        BY <2>1, <2>2, <2>4, RetiringKeeps
    <3>2. /\ record' \in [Installs -> [org : InstallOrgs \union {NoInstall}, suspended : BOOLEAN,
                                       repos : SUBSET InstallRepos]]
          /\ pointer' \in [InstallOrgs -> Installs \union {NoInstall}]
          /\ RecordsMapped' /\ PointersLive'
          /\ \A j \in Installs \ {i} : record'[j] = record[j]
      <4>1. {o} \subseteq InstallOrgs /\ InstallRetired(i, {o})
          BY <2>1, <2>2, <2>4
      <4>. QED BY <2>2, <4>1, RetiredKeeps
    <3>. QED BY <1>1, <1>2, <2>1, <2>2, <2>3, <3>1, <3>2, RecordsKeep
  <2>5. CASE ~noToken
      BY <1>1, <1>2, <2>1, <2>3, <2>5, RequestsKeep
  <2>. QED BY <2>4, <2>5
<1>8. CASE CallbackPersists(c)
  <2>0. callbacks[c] # NoRequest
      BY <1>8 DEF CallbackPersists, NoRequest
  <2>2. PICK o \in InstallOrgs, i \in Installs : callbacks[c].org = o /\ callbacks[c].install = i
      BY <1>3, <2>0
  <2> DEFINE found == [org |-> o, suspended |-> FALSE, repos |-> callbacks[c].repos]
             new == [holder |-> NoInstall, live |-> FALSE, used |-> TRUE]
  <2>1. /\ callbacks' = [callbacks EXCEPT ![c] = NoRequest] /\ callbacks[c].at = "listed"
        /\ UNCHANGED <<github, mail, connected, asking, moves, asks>>
      BY <1>8 DEF CallbackPersists, counters
  <2>6. callbacks[c].repos \in SUBSET InstallRepos
      BY <1>1, <2>1 DEF CallbackStates, NoRequest
  <2>3. \/ UNCHANGED <<states, record, pointer, disturbed>>
        \/ /\ Mappable(i, o)
           /\ states' = [states EXCEPT ![o] = new]
           /\ record' = [record EXCEPT ![i] = found]
           /\ pointer' = [pointer EXCEPT ![o] = i]
           /\ disturbed' = IF github[i] = [state |-> "active", repos |-> callbacks[c].repos]
                             THEN disturbed ELSE disturbed \union {i}
      BY <1>8, <2>2 DEF CallbackPersists
  <2>4. CASE UNCHANGED <<states, record, pointer, disturbed>>
      BY <1>1, <1>2, <2>1, <2>4, RequestsKeep
  <2>5. CASE /\ Mappable(i, o)
             /\ states' = [states EXCEPT ![o] = new]
             /\ record' = [record EXCEPT ![i] = found]
             /\ pointer' = [pointer EXCEPT ![o] = i]
             /\ disturbed' = IF github[i] = [state |-> "active", repos |-> callbacks[c].repos]
                               THEN disturbed ELSE disturbed \union {i}
    <3>1. /\ record \in [Installs -> [org : InstallOrgs \union {NoInstall}, suspended : BOOLEAN,
                                      repos : SUBSET InstallRepos]]
          /\ pointer \in [InstallOrgs -> Installs \union {NoInstall}]
          /\ RecordsMapped /\ PointersLive
          /\ NoInstall \notin Installs /\ NoInstall \notin InstallOrgs
        BY InstallConstants DEF InstallInv, InstallTypeOK
    <3>2. /\ found \in [org : InstallOrgs \union {NoInstall}, suspended : BOOLEAN,
                        repos : SUBSET InstallRepos]
          /\ found.org = o /\ ~found.suspended /\ found.repos = callbacks[c].repos
          /\ new \in LoginStates /\ ~new.live
        BY <2>6
    <3>3. \A p \in InstallOrgs \ {o} : pointer[p] # i
        BY <2>2, <2>5, <3>1 DEF Mappable, NoRecord, PointersLive
    <3>4. disturbed \subseteq disturbed' /\ disturbed' \subseteq disturbed \union {i}
        BY <2>5
    <3>5. i \notin disturbed' => i \notin disturbed /\ github[i].state = "active"
                                 /\ github[i].repos = callbacks[c].repos
        BY <2>5
    <3> HIDE DEF found, new
    <3>6. /\ record' \in [Installs -> [org : InstallOrgs \union {NoInstall}, suspended : BOOLEAN,
                                       repos : SUBSET InstallRepos]]
          /\ pointer' \in [InstallOrgs -> Installs \union {NoInstall}]
          /\ \A j \in Installs \ {i} : record'[j] = record[j]
          /\ record'[i] = found /\ pointer'[o] = i /\ \A p \in InstallOrgs \ {o} : pointer'[p] = pointer[p]
        BY <2>2, <2>5, <3>1, <3>2
    <3>7. RecordsMapped'
        BY <2>2, <3>1, <3>2, <3>6 DEF RecordsMapped
    <3>8. PointersLive'
      <4> SUFFICES ASSUME NEW p \in InstallOrgs, NEW j \in Installs, pointer'[p] = j
                   PROVE  record'[j].org = p /\ ~record'[j].suspended
          BY DEF PointersLive
      <4>1. CASE p = o
          BY <2>2, <3>2, <3>6, <4>1
      <4>2. CASE p # o
        <5>1. pointer[p] = j /\ j # i
            BY <3>3, <3>6, <4>2
        <5>. QED BY <3>1, <3>6, <5>1 DEF PointersLive
      <4>. QED BY <4>1, <4>2
    <3>9. ASSUME i \notin disturbed' PROVE Told(i)'
      <4>1. Told(i)
          BY <2>2, <3>5, <3>9 DEF InstallInv
      <4>2. (record'[i].suspended <=> github[i].state # "active") /\ record'[i].repos = github[i].repos
          BY <3>2, <3>5, <3>6, <3>9
      <4>. QED BY <2>1, <2>2, <4>1, <4>2, TrueRecordTold
    <3>10. /\ states' \in [InstallOrgs -> LoginStates]
           /\ \A p \in InstallOrgs : states'[p].live => states'[p].holder # NoInstall /\ ~states'[p].used
        BY <1>1, <2>2, <2>5, <3>2
    <3>. QED BY <1>1, <1>2, <2>1, <2>2, <3>4, <3>6, <3>7, <3>8, <3>9, <3>10, RecordsKeep
  <2>. QED BY <2>3, <2>4, <2>5
<1>. QED BY <1>4, <1>5, <1>6, <1>7, <1>8

(* The steps of a settings request, and the end of a lease. *)
LEMMA SettingsKeep ==
  ASSUME InstallInv, NEW o \in InstallOrgs,
         \/ LeaseEnds(o) \/ AttachAsks(o)
         \/ \E r \in InstallRepos : AttachReads(o, r)
         \/ \E confirmed \in BOOLEAN : AttachRetires(o, confirmed)
  PROVE  InstallInv'
<1> DEFINE LoginStates == [holder : Callbacks \union {NoInstall}, live : BOOLEAN, used : BOOLEAN]
<1>1. /\ states \in [InstallOrgs -> LoginStates]
      /\ \A p \in InstallOrgs : states[p].live => states[p].holder # NoInstall /\ ~states[p].used
      /\ connected \in [InstallOrgs -> InstallRepos \union {NoInstall}]
      /\ callbacks \in [Callbacks -> CallbackStates] /\ asking \in [InstallOrgs -> AskingStates]
      /\ asks \in 0..MaxAsks /\ MaxAsks \in Nat
      /\ pointer \in [InstallOrgs -> Installs \union {NoInstall}]
    BY InstallConstants DEF InstallInv, InstallTypeOK, RequestTypes
<1>2. [asking EXCEPT ![o] = NoRequest] \in [InstallOrgs -> AskingStates]
    BY <1>1 DEF AskingStates
<1>3. CASE LeaseEnds(o)
  <2> DEFINE new == [states[o] EXCEPT !.live = FALSE]
  <2>1. /\ states' = [states EXCEPT ![o] = new]
        /\ UNCHANGED <<github, mail, record, pointer, connected, callbacks, asking, moves, asks, disturbed>>
      BY <1>3 DEF LeaseEnds, counters
  <2>2. new \in LoginStates /\ ~new.live
      BY <1>1
  <2> HIDE DEF new
  <2>3. /\ states' \in [InstallOrgs -> LoginStates]
        /\ \A p \in InstallOrgs : states'[p].live => states'[p].holder # NoInstall /\ ~states'[p].used
      BY <1>1, <2>1, <2>2
  <2>. QED BY <1>1, <2>1, <2>3, RequestsKeep
<1>4. ASSUME NEW r \in InstallRepos, AttachReads(o, r) PROVE InstallInv'
  <2> DEFINE request == [at |-> "ask", install |-> pointer[o], repo |-> r]
  <2>1. /\ asking' = [asking EXCEPT ![o] = request] /\ pointer[o] # NoInstall
        /\ asks' = asks + 1 /\ asks < MaxAsks /\ moves' = moves
        /\ UNCHANGED <<github, mail, record, pointer, connected, states, callbacks, disturbed>>
      BY <1>4 DEF AttachReads
  <2>2. request \in AskingStates
      BY <1>1, <2>1 DEF AskingStates
  <2> HIDE DEF request
  <2>3. asking' \in [InstallOrgs -> AskingStates] /\ asks' \in 0..MaxAsks
      BY <1>1, <2>1, <2>2
  <2>. QED BY <1>1, <2>1, <2>3, RequestsKeep
<1>5. CASE AttachAsks(o)
  <2> DEFINE request == [at |-> "retire", install |-> asking[o].install]
  <2>1. /\ asking' = [asking EXCEPT ![o] = NoRequest] \/ asking' = [asking EXCEPT ![o] = request]
        /\ connected' = connected \/ connected' = [connected EXCEPT ![o] = asking[o].repo]
        /\ asking[o].at = "ask"
        /\ UNCHANGED <<github, mail, record, pointer, states, callbacks, moves, asks, disturbed>>
      BY <1>5 DEF AttachAsks, counters
  <2>2. asking[o].install \in Installs /\ asking[o].repo \in InstallRepos
      BY <1>1, <2>1 DEF AskingStates, NoRequest
  <2>3. request \in AskingStates
      BY <2>2 DEF AskingStates
  <2> HIDE DEF request
  <2>4. asking' \in [InstallOrgs -> AskingStates] /\ connected' \in [InstallOrgs -> InstallRepos \union {NoInstall}]
      BY <1>1, <1>2, <2>1, <2>2, <2>3
  <2>. QED BY <1>1, <2>1, <2>4, RequestsKeep
<1>6. ASSUME NEW confirmed \in BOOLEAN, AttachRetires(o, confirmed) PROVE InstallInv'
  <2>1. /\ asking' = [asking EXCEPT ![o] = NoRequest] /\ asking[o].at = "retire"
        /\ UNCHANGED <<github, mail, connected, states, callbacks, moves, asks>>
      BY <1>6 DEF AttachRetires, counters
  <2>2. PICK i \in Installs : asking[o].install = i
      BY <1>1, <2>1 DEF AskingStates, NoRequest
  <2>3. CASE confirmed
    <3>1. /\ InstallRetired(i, {o})
          /\ disturbed' = IF github[i].state = "active" THEN disturbed \union {i} ELSE disturbed
        BY <1>6, <2>2, <2>3 DEF AttachRetires
    <3>2. i \notin disturbed' => Told(i)'
        BY <2>1, <2>2, <3>1, RetiringKeeps
    <3>3. /\ record' \in [Installs -> [org : InstallOrgs \union {NoInstall}, suspended : BOOLEAN,
                                       repos : SUBSET InstallRepos]]
          /\ pointer' \in [InstallOrgs -> Installs \union {NoInstall}]
          /\ RecordsMapped' /\ PointersLive'
          /\ \A j \in Installs \ {i} : record'[j] = record[j]
      <4>1. {o} \subseteq InstallOrgs
          OBVIOUS
      <4>. QED BY <2>2, <3>1, <4>1, RetiredKeeps
    <3>4. disturbed \subseteq disturbed' /\ disturbed' \subseteq disturbed \union {i}
        BY <3>1
    <3>. QED BY <1>1, <1>2, <2>1, <2>2, <3>2, <3>3, <3>4, RecordsKeep
  <2>4. CASE ~confirmed
    <3>1. UNCHANGED <<record, pointer, disturbed>>
        BY <1>6, <2>4 DEF AttachRetires
    <3>. QED BY <1>1, <1>2, <2>1, <3>1, RequestsKeep
  <2>. QED BY <2>3, <2>4
<1>. QED BY <1>3, <1>4, <1>5, <1>6

-----------------------------------------------------------------------------
(* What the invariant says of the worker's choice, and of the records once    *)
(* nothing is under way.                                                      *)
LEMMA InstallInvAgrees == InstallInv => InstallAgrees
<1> SUFFICES ASSUME InstallInv PROVE InstallAgrees
    OBVIOUS
<1>1. PickIsLive
  <2> SUFFICES ASSUME NEW o \in InstallOrgs, NEW i \in Picks(o)
               PROVE  record[i].org = o /\ ~record[i].suspended
      BY DEF PickIsLive
  <2>1. \/ i \in Installs /\ record[i].org = o /\ ~record[i].suspended
        \/ i = pointer[o] /\ pointer[o] # NoInstall
      BY DEF Picks
  <2>2. pointer[o] # NoInstall => pointer[o] \in Installs
      BY DEF InstallInv, InstallTypeOK
  <2>. QED BY <2>1, <2>2 DEF InstallInv, PointersLive
<1>2. ASSUME NEW i \in Installs \ disturbed, record[i] # NoRecord, mail[i] = <<>>
      PROVE  (record[i].suspended <=> github[i].state # "active") /\ record[i].repos = github[i].repos
  <2>1. Told(i)
      BY DEF InstallInv
  <2>2. \A A : Silent(mail[i], A)
      BY <1>2 DEF Silent
  <2>3. record[i].suspended <=> github[i].state # "active"
      BY <1>2, <2>1, <2>2 DEF Told, SuspensionTold
  <2>4. \A r \in InstallRepos : r \in record[i].repos <=> r \in github[i].repos
      BY <1>2, <2>1, <2>2 DEF Told, RepoTold
  <2>5. record[i].repos \subseteq InstallRepos /\ github[i].repos \subseteq InstallRepos
      BY DEF InstallInv, InstallTypeOK
  <2>. QED BY <2>3, <2>4, <2>5
<1>3. MirrorsGitHub
    BY <1>2 DEF MirrorsGitHub
<1>. QED BY <1>1, <1>3 DEF InstallAgrees, InstallInv

LEMMA InstallStarts == InstallInit => InstallInv
<1> SUFFICES ASSUME InstallInit PROVE InstallInv
    OBVIOUS
<1>1. /\ github = [i \in Installs |-> [state |-> "active", repos |-> InstallRepos]]
      /\ mail = [i \in Installs |-> <<>>] /\ record = [i \in Installs |-> NoRecord]
      /\ pointer = [o \in InstallOrgs |-> NoInstall] /\ connected = [o \in InstallOrgs |-> NoInstall]
      /\ states = [o \in InstallOrgs |-> [holder |-> NoInstall, live |-> FALSE, used |-> FALSE]]
      /\ callbacks = [c \in Callbacks |-> NoRequest] /\ asking = [o \in InstallOrgs |-> NoRequest]
      /\ moves = 0 /\ asks = 0 /\ disturbed = {} /\ MaxGitHub \in Nat /\ MaxAsks \in Nat
      /\ NoInstall \notin Installs
    BY InstallConstants DEF InstallInit
<1>2. RequestTypes
  <2>1. \A i \in Installs : mail[i] \in Seq(InstallEvents)
      BY <1>1
  <2>. QED BY <1>1, <2>1 DEF RequestTypes, CallbackStates, AskingStates
<1>3. InstallTypeOK
  <2>1. \A c \in Callbacks : callbacks[c].at = "idle"
      BY <1>1 DEF NoRequest
  <2>2. \A o \in InstallOrgs : asking[o].at = "idle"
      BY <1>1 DEF NoRequest
  <2>3. \A i \in Installs : \A k \in DOMAIN mail[i] : mail[i][k] \in InstallEvents
      BY <1>1
  <2>4. github \in [Installs -> [state : GitHubStates, repos : SUBSET InstallRepos]]
      BY <1>1 DEF GitHubStates
  <2>5. record \in [Installs -> [org : InstallOrgs \union {NoInstall}, suspended : BOOLEAN,
                                 repos : SUBSET InstallRepos]]
      BY <1>1 DEF NoRecord
  <2>6. states \in [InstallOrgs -> [holder : Callbacks \union {NoInstall}, live : BOOLEAN, used : BOOLEAN]]
        /\ \A o \in InstallOrgs : ~states[o].live
      BY <1>1
  <2>. QED BY <1>1, <2>1, <2>2, <2>3, <2>4, <2>5, <2>6 DEF InstallTypeOK
<1>4. RecordsMapped /\ PointersLive
    BY <1>1 DEF RecordsMapped, PointersLive
<1>5. ASSUME NEW i \in Installs PROVE Told(i)
  <2>1. mail[i] = <<>> /\ record[i] = NoRecord
      BY <1>1
  <2>2. \A A, V : NewestIn(mail[i], A, V)
      BY <2>1 DEF NewestIn
  <2>. QED BY <2>1, <2>2 DEF Told, SuspensionTold, RepoTold
<1>. QED BY <1>2, <1>3, <1>4, <1>5 DEF InstallInv

LEMMA InstallSteps == InstallInv /\ [InstallNext]_installVars => InstallInv'
<1> SUFFICES ASSUME InstallInv, [InstallNext]_installVars PROVE InstallInv'
    OBVIOUS
<1>1. ASSUME NEW i \in Installs,
             \/ GitHubSuspends(i) \/ GitHubUnsuspends(i) \/ GitHubDeletes(i)
             \/ \E r \in InstallRepos : GitHubRepos(i, r)
      PROVE  InstallInv'
    BY <1>1, GitHubKeeps
<1>2. ASSUME NEW i \in Installs,
             \/ Webhook(i) \/ WebhookLost(i) \/ \E k \in 2..MaxGitHub : WebhookEarly(i, k)
      PROVE  InstallInv'
    BY <1>2, WebhooksKeep
<1>3. ASSUME NEW c \in Callbacks,
             \/ \E o \in InstallOrgs, i \in Installs : Reserve(c, o, i)
             \/ CallbackLists(c) \/ CallbackDies(c) \/ CallbackPersists(c)
             \/ \E noToken \in BOOLEAN : CallbackFails(c, noToken)
      PROVE  InstallInv'
    BY <1>3, CallbackKeeps
<1>4. ASSUME NEW o \in InstallOrgs,
             \/ LeaseEnds(o) \/ AttachAsks(o) \/ \E r \in InstallRepos : AttachReads(o, r)
             \/ \E confirmed \in BOOLEAN : AttachRetires(o, confirmed)
      PROVE  InstallInv'
    BY <1>4, SettingsKeep
<1>5. CASE UNCHANGED installVars
  <2>1. UNCHANGED <<github, mail, record, pointer, connected, states, callbacks, asking, moves, asks, disturbed>>
      BY <1>5 DEF installVars
  <2>. QED BY <2>1, RequestsKeep DEF InstallInv, InstallTypeOK, RequestTypes
<1>. QED BY <1>1, <1>2, <1>3, <1>4, <1>5 DEF InstallNext

(* The records of GitHub App installations agree with GitHub once its webhooks *)
(* were delivered, and the worker picks from them only what is live and its    *)
(* organisation's own.                                                         *)
THEOREM InstallAgreesHolds == InstallSpec => []InstallAgrees
<1>1. InstallSpec => []InstallInv
    BY InstallStarts, InstallSteps, PTL DEF InstallSpec
<1>. QED BY <1>1, InstallInvAgrees, PTL

(* A live reservation of a login state is ended only by its own callback. *)
THEOREM LeaseIsKept == InstallSpec => LeaseKept
<1>1. InstallInv /\ [InstallNext]_installVars
        => [\A o \in InstallOrgs :
              states[o].live /\ states'[o].holder # states[o].holder
                => callbacks'[states[o].holder] # callbacks[states[o].holder]]_installVars
  <2> SUFFICES ASSUME InstallInv, InstallNext, NEW o \in InstallOrgs,
                      states[o].live, states'[o].holder # states[o].holder
               PROVE  callbacks'[states[o].holder] # callbacks[states[o].holder]
      BY DEF installVars
  <2>1. /\ states \in [InstallOrgs -> [holder : Callbacks \union {NoInstall}, live : BOOLEAN,
                                       used : BOOLEAN]]
        /\ callbacks \in [Callbacks -> CallbackStates]
      BY DEF InstallInv, InstallTypeOK, RequestTypes
  <2>2. \/ \E c \in Callbacks : \/ \E p \in InstallOrgs, i \in Installs : Reserve(c, p, i)
                                \/ CallbackPersists(c)
                                \/ \E noToken \in BOOLEAN : CallbackFails(c, noToken)
        \/ \E p \in InstallOrgs : LeaseEnds(p)
    <3>1. states' # states
        OBVIOUS
    <3>2. ASSUME NEW i \in Installs,
                 \/ GitHubSuspends(i) \/ GitHubUnsuspends(i) \/ GitHubDeletes(i)
                 \/ \E r \in InstallRepos : GitHubRepos(i, r)
          PROVE  FALSE
        BY <3>1, <3>2 DEF GitHubSuspends, GitHubUnsuspends, GitHubDeletes, GitHubRepos, GitHubChanges
    <3>3. ASSUME NEW i \in Installs,
                 \/ Webhook(i) \/ WebhookLost(i) \/ \E k \in 2..MaxGitHub : WebhookEarly(i, k)
          PROVE  FALSE
        BY <3>1, <3>3 DEF Webhook, WebhookLost, WebhookEarly
    <3>4. ASSUME NEW c \in Callbacks, CallbackLists(c) \/ CallbackDies(c) PROVE FALSE
        BY <3>1, <3>4 DEF CallbackLists, CallbackDies
    <3>5. ASSUME NEW p \in InstallOrgs,
                 \/ AttachAsks(p) \/ \E r \in InstallRepos : AttachReads(p, r)
                 \/ \E confirmed \in BOOLEAN : AttachRetires(p, confirmed)
          PROVE  FALSE
        BY <3>1, <3>5 DEF AttachAsks, AttachReads, AttachRetires
    <3>. QED BY <3>2, <3>3, <3>4, <3>5 DEF InstallNext
  <2>3. ASSUME NEW c \in Callbacks, NEW p \in InstallOrgs, NEW i \in Installs, Reserve(c, p, i) PROVE FALSE
    <3>1. ~states[p].live /\ states' = [states EXCEPT ![p] = [holder |-> c, live |-> TRUE, used |-> FALSE]]
        BY <2>3 DEF Reserve
    <3>. QED BY <2>1, <3>1
  <2>4. ASSUME NEW p \in InstallOrgs, LeaseEnds(p) PROVE FALSE
    <3>1. states' = [states EXCEPT ![p].live = FALSE]
        BY <2>4 DEF LeaseEnds
    <3>. QED BY <2>1, <3>1
  <2>5. ASSUME NEW c \in Callbacks,
               CallbackPersists(c) \/ \E noToken \in BOOLEAN : CallbackFails(c, noToken)
        PROVE  callbacks'[states[o].holder] # callbacks[states[o].holder]
    <3>1. /\ states[o].holder = c /\ callbacks[c] # NoRequest
          /\ callbacks' = [callbacks EXCEPT ![c] = NoRequest]
      <4>1. CASE CallbackPersists(c)
        <5>1. callbacks[c].at = "listed" /\ callbacks' = [callbacks EXCEPT ![c] = NoRequest]
            BY <4>1 DEF CallbackPersists
        <5>2. \/ states' = states
              \/ /\ states[callbacks[c].org].holder = c
                 /\ states' = [states EXCEPT ![callbacks[c].org] =
                                 [holder |-> NoInstall, live |-> FALSE, used |-> TRUE]]
            BY <4>1 DEF CallbackPersists
        <5>. QED BY <2>1, <5>1, <5>2 DEF NoRequest
      <4>2. CASE \E noToken \in BOOLEAN : CallbackFails(c, noToken)
        <5>1. callbacks[c] # NoRequest /\ callbacks' = [callbacks EXCEPT ![c] = NoRequest] /\ Release(c)
            BY <4>2 DEF CallbackFails
        <5>2. states[callbacks[c].org].holder = c /\ o = callbacks[c].org
            BY <2>1, <5>1 DEF Release
        <5>. QED BY <5>1, <5>2
      <4>. QED BY <2>5, <4>1, <4>2
    <3>. QED BY <2>1, <3>1
  <2>. QED BY <2>2, <2>3, <2>4, <2>5
<1>2. InstallSpec => []InstallInv
    BY InstallStarts, InstallSteps, PTL DEF InstallSpec
<1>. QED BY <1>1, <1>2, PTL DEF InstallSpec, LeaseKept
=============================================================================
