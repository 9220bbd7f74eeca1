------------------------------- MODULE Digest -------------------------------
(***************************************************************************)
(* The daily digest of one project: the scheduler that freezes the day's   *)
(* candidates, the digest_write job that has their cards authored, and the *)
(* validation that publishes them, with the cache of authored cards that   *)
(* outlives the day.                                                       *)
(*                                                                         *)
(* One action is one transaction, or one statement made outside one.  The  *)
(* run of a past day is never looked at again, so only today's is kept; a  *)
(* write job left over from yesterday touches nothing but yesterday's run. *)
(* The text of a card is abstracted to whether a stricter rule would       *)
(* refuse it, and the facts of an issue to a version of its fingerprint.   *)
(***************************************************************************)
EXTENDS Naturals, FiniteSets

CONSTANTS
    Issues,         \* the issues of the project
    Schedulers,     \* ingestion processes, each running one Scheduler
    CardCap,        \* notify.DigestV4CardCap
    MaxWrites,      \* maxWritesPerRun
    MaxTries,       \* max_attempts of a digest_write job
    MaxChanges      \* bound: edits of the world and faults, taken together

ASSUME DigestAssumption == /\ IsFiniteSet(Issues)
                           /\ CardCap \in Nat \ {0}
                           /\ MaxWrites \in Nat \ {0}
                           /\ MaxTries \in Nat \ {0}
                           /\ MaxChanges \in Nat

VARIABLES
    issue,      \* error_groups: on the card, since which spell, which facts
    enabled,    \* an enabled destination takes digest.daily
    strict,     \* the rules deployed: of the writer, of the validator
    cache,      \* digest_card_copy, the rows not invalidated
    run,        \* today's row of digest_runs with its items and its ledger
    job,        \* today's digest_write job
    writers,    \* executions of that job that have loaded the run
    tick,       \* where a scheduler is in its Tick
    lock,       \* who holds the scheduler's advisory lock
    changes     \* how many edits and faults there have been

vars == <<issue, enabled, strict, cache, run, job, writers, tick, lock, changes>>

Time == 0..MaxChanges

Kinds == {"plain", "risky"}

Card == [issue : Issues, about : Time, kind : Kinds]
Row == [issue : Issues, spell : Time, about : Time, kind : Kinds, old : BOOLEAN]

(* Candidate: the facts frozen, and the cached card if one matched them. *)
Candidate == [issue : Issues, spell : Time, facts : Time, cached : SUBSET Row]

(* A run: its items, what the writer made of each, and what was sent.  An   *)
(* item's outcome and its row in the evaluations ledger name it included.   *)
Run == [status : {"none", "frozen", "written", "delivered", "failed"},
        items : SUBSET Candidate, payload : SUBSET Card,
        included : SUBSET Issues, ledger : SUBSET Issues,
        writes : 0..MaxWrites, sent : SUBSET Card]

NoRun == [status |-> "none", items |-> {}, payload |-> {}, included |-> {},
          ledger |-> {}, writes |-> 0, sent |-> {}]

NoJob == [state |-> "none", tries |-> 0]

TypeOK ==
    /\ issue \in [Issues -> [on : BOOLEAN, spell : Time, facts : Time]]
    /\ enabled \in BOOLEAN
    /\ strict \in [writer : BOOLEAN, validator : BOOLEAN]
    /\ cache \subseteq Row
    /\ \A r, q \in cache : r.issue = q.issue /\ r.spell = q.spell => r = q
    /\ run \in Run
    /\ job \in [state : {"none", "pending", "claimed"}, tries : 0..MaxTries]
    /\ writers \subseteq {"owner", "zombie"}
    /\ tick \in [Schedulers ->
                  {"idle", "freeze", "status", "enqueue", "publish", "mark"}]
    /\ lock \subseteq Schedulers /\ Cardinality(lock) <= 1
    /\ changes \in 0..MaxChanges

Init ==
    /\ issue = [i \in Issues |-> [on |-> TRUE, spell |-> 0, facts |-> 0]]
    /\ enabled = TRUE
    /\ strict = [writer |-> FALSE, validator |-> FALSE]
    /\ cache = {}
    /\ run = NoRun
    /\ job = NoJob
    /\ writers = {}
    /\ tick = [s \in Schedulers |-> "idle"]
    /\ lock = {}
    /\ changes = 0

(* An edit of the world, or a fault: finitely many of them. *)
Change == changes < MaxChanges /\ changes' = changes + 1

-----------------------------------------------------------------------------
(* The world around the digest. *)

(* The issue leaves the card, or comes back: a new spell of waiting. *)
IssueMoves(i) ==
    /\ Change
    /\ issue' = [issue EXCEPT ![i] =
         [on |-> ~@.on, spell |-> IF @.on THEN @.spell ELSE changes + 1,
          facts |-> @.facts]]
    /\ UNCHANGED <<enabled, strict, cache, run, job, writers, tick, lock>>

(* A diagnosis, a diff or a pull request changes the issue's fingerprint. *)
FactsChange(i) ==
    /\ Change
    /\ issue' = [issue EXCEPT ![i].facts = changes + 1]
    /\ UNCHANGED <<enabled, strict, cache, run, job, writers, tick, lock>>

DestinationToggled ==
    /\ Change
    /\ enabled' = ~enabled
    /\ UNCHANGED <<issue, strict, cache, run, job, writers, tick, lock>>

(* The worker or the ingestion service is deployed with other rules for the *)
(* text of a card, without a new version in the fingerprint.                *)
Deploy ==
    /\ Change
    /\ \E side \in {"writer", "validator"} :
         strict' = [strict EXCEPT ![side] = ~@]
    /\ UNCHANGED <<issue, enabled, cache, run, job, writers, tick, lock>>

-----------------------------------------------------------------------------
(* FreezeCandidates. *)

OldestOf(S) == CHOOSE i \in S : \A j \in S : issue[i].spell <= issue[j].spell

Waiting == {i \in Issues : issue[i].on}

(* selectActionable: the most impactful, and one slot for the oldest that   *)
(* is not among them.                                                       *)
Selections ==
    IF Cardinality(Waiting) <= CardCap THEN {Waiting}
    ELSE {top \cup {OldestOf(Waiting \ top)} :
            top \in {S \in SUBSET Waiting : Cardinality(S) = CardCap - 1}}

(* attachCachedCard: a current row of this spell, authored of these facts. *)
CachedFor(i) == {r \in cache : /\ r.issue = i
                               /\ r.spell = issue[i].spell
                               /\ r.about = issue[i].facts}

Freeze(s) ==
    /\ tick[s] = "freeze"
    /\ tick' = [tick EXCEPT ![s] = "status"]
    /\ IF run.status # "none" THEN UNCHANGED run
       ELSE \E chosen \in Selections :
              run' = [run EXCEPT
                !.status = "frozen",
                !.items = {[issue |-> i, spell |-> issue[i].spell,
                            facts |-> issue[i].facts,
                            cached |-> CachedFor(i)] : i \in chosen},
                !.ledger = chosen]
    /\ UNCHANGED <<issue, enabled, strict, cache, job, writers, lock, changes>>

-----------------------------------------------------------------------------
(* The scheduler's Tick. *)

(* A tick over a delivered run changes nothing and is left out.  The        *)
(* advisory lock belongs to a connection the tick does not use again.       *)
TickStarts(s) ==
    /\ tick[s] = "idle" /\ lock = {} /\ enabled
    /\ run.status # "delivered"
    /\ lock' = {s}
    /\ tick' = [tick EXCEPT ![s] = "freeze"]
    /\ UNCHANGED <<issue, enabled, strict, cache, run, job, writers, changes>>

LockIsLost ==
    /\ Change
    /\ lock # {}
    /\ lock' = {}
    /\ UNCHANGED <<issue, enabled, strict, cache, run, job, writers, tick>>

EndTick(s) == /\ tick' = [tick EXCEPT ![s] = "idle"]
              /\ lock' = lock \ {s}

(* A query fails, or the process dies. *)
TickAborts(s) ==
    /\ Change
    /\ tick[s] # "idle"
    /\ EndTick(s)
    /\ UNCHANGED <<issue, enabled, strict, cache, run, job, writers>>

ReadStatus(s) ==
    /\ tick[s] = "status"
    /\ CASE run.status \in {"frozen", "failed"} ->
              tick' = [tick EXCEPT ![s] = "enqueue"] /\ UNCHANGED lock
         [] run.status = "written" ->
              tick' = [tick EXCEPT ![s] = "publish"] /\ UNCHANGED lock
         [] run.status \in {"none", "delivered"} -> EndTick(s)
    /\ UNCHANGED <<issue, enabled, strict, cache, run, job, writers, changes>>

MayWrite == job.state = "none" /\ run.writes < MaxWrites

(* enqueueWrite: unless one is active, and within the run's budget. *)
EnqueueWrite(s) ==
    /\ tick[s] = "enqueue"
    /\ EndTick(s)
    /\ IF MayWrite
       THEN /\ job' = [state |-> "pending", tries |-> 0]
            /\ run' = [run EXCEPT !.writes = @ + 1]
       ELSE UNCHANGED <<job, run>>
    /\ UNCHANGED <<issue, enabled, strict, cache, writers, changes>>

-----------------------------------------------------------------------------
(* The writer. *)

(* writeDigestInner: a run that is past writing ends the job at once. *)
WriterStarts ==
    /\ job.state = "pending" /\ "owner" \notin writers
    /\ IF run.status \in {"frozen", "failed"}
       THEN /\ job' = [state |-> "claimed", tries |-> job.tries + 1]
            /\ writers' = writers \cup {"owner"}
       ELSE job' = NoJob /\ UNCHANGED writers
    /\ UNCHANGED <<issue, enabled, strict, cache, run, tick, lock, changes>>

(* The job's attempt is over without success. *)
AttemptFails == job' = IF job.tries < MaxTries
                       THEN [job EXCEPT !.state = "pending"] ELSE NoJob

(* The execution loses its lease; it may be dead, or only slow. *)
LeaseLost ==
    /\ Change
    /\ job.state = "claimed"
    /\ AttemptFails
    /\ writers' \in {writers \ {"owner"}, {"zombie"}}
    /\ UNCHANGED <<issue, enabled, strict, cache, run, tick, lock>>

(* The model is unreachable, or answers what groundPayload cannot read. *)
WriterThrows(w) ==
    /\ Change
    /\ w \in writers
    /\ writers' = writers \ {w}
    /\ IF w = "owner" THEN AttemptFails ELSE UNCHANGED job
    /\ UNCHANGED <<issue, enabled, strict, cache, run, tick, lock>>

(* A card the writer's own checks let through; the others are deferred. *)
Authored(side, kind) == ~(strict[side] /\ kind = "risky")

FromCache(n) == {[issue |-> n.issue, about |-> r.about, kind |-> r.kind] :
                    r \in {q \in n.cached : Authored("writer", q.kind)}}

Cold == {n \in run.items : n.cached = {}}

CardsFrom(wanted) ==
    {c \in {[issue |-> n.issue, about |-> n.facts, kind |-> wanted[n.issue]] :
              n \in Cold} : c.kind \in Kinds /\ Authored("writer", c.kind)}

(* What the model makes of the cold candidates: a card, or a deferral.  The *)
(* budget of DIGEST_WRITER_MAX_WRITES defers too.                           *)
Payload(wanted) ==
    CardsFrom(wanted) \cup UNION {FromCache(n) : n \in run.items}

(* persistWrittenDigest: only over a frozen or failed run, whoever writes;  *)
(* the outcomes of an earlier payload are reset.  Otherwise the job throws. *)
WriterPersists(w, wanted) ==
    /\ w \in writers
    /\ writers' = writers \ {w}
    /\ IF run.status \in {"frozen", "failed"}
       THEN /\ run' = [run EXCEPT !.status = "written",
                                  !.payload = Payload(wanted),
                                  !.included = {c.issue : c \in Payload(wanted)}]
            /\ IF w = "owner" THEN job' = NoJob ELSE UNCHANGED job
       ELSE /\ IF w = "owner" THEN AttemptFails ELSE UNCHANGED job
            /\ UNCHANGED run
    /\ UNCHANGED <<issue, enabled, strict, cache, tick, lock>>

(* The writer does what is asked of it: a plain card for every candidate. *)
WriterDoesWell(w) ==
    /\ WriterPersists(w, [i \in Issues |-> "plain"])
    /\ UNCHANGED changes

WriterDoesBadly(w) ==
    \E wanted \in [Issues -> Kinds \cup {"deferred"}] :
        Change /\ WriterPersists(w, wanted)

-----------------------------------------------------------------------------
(* ValidateAndPublish. *)

(* Mutant: the facts are not compared again. *)
StillUnifiedByStatus(n) == issue[n.issue].on /\ issue[n.issue].spell = n.spell

(* candidateStillUnified: on the card, the same spell, the same facts. *)
StillUnified(n) == /\ issue[n.issue].on
                   /\ issue[n.issue].spell = n.spell
                   /\ issue[n.issue].facts = n.facts

CardOf(n) == {c \in run.payload : c.issue = n.issue}

(* checkUnifiedWrittenCard. *)
Accepted(n) == \E c \in CardOf(n) :
                   Authored("validator", c.kind) /\ StillUnified(n)

Accepts == {n \in run.items : Accepted(n)}

(* Mutant: only what the validator itself refused is retired. *)
RetiredIfRefused ==
    UNION {n.cached : n \in {m \in run.items \ Accepts : CardOf(m) # {}}}

(* retireRejectedCachedCard: the cached rows of the candidates that were    *)
(* deferred or refused, each by its full key.                               *)
Retired == UNION {n.cached : n \in run.items \ Accepts}

(* cacheValidatedCard: rows of other facts from before this run make way,   *)
(* and the card is stored unless a current row of its spell is left.        *)
CacheAfter ==
    LET fresh == {n \in Accepts : n.cached = {}}
        stale == {r \in cache : r.old /\ \E n \in fresh :
                    /\ r.issue = n.issue /\ r.spell = n.spell
                    /\ r.about # n.facts}
        kept == (cache \ Retired) \ stale
    IN  kept \cup
        {[issue |-> n.issue, spell |-> n.spell, about |-> n.facts, old |-> FALSE,
          kind |-> (CHOOSE c \in CardOf(n) : TRUE).kind] :
            n \in {f \in fresh : ~\E r \in kept : /\ r.issue = f.issue
                                                  /\ r.spell = f.spell}}

Shipped == UNION {CardOf(n) : n \in Accepts}

(* Mutant: a card that was held back keeps the outcome the writer gave it. *)
AccountedAsWritten == [run EXCEPT !.status = "delivered", !.sent = Shipped,
                                  !.ledger = {c.issue : c \in Shipped}]

Accounted == [run EXCEPT !.status = "delivered", !.sent = Shipped,
                         !.included = {c.issue : c \in Shipped},
                         !.ledger = {c.issue : c \in Shipped}]

(* The publication commits: outcomes, ledger, cache, and, if there is a     *)
(* card to send, the outbox event with its deliveries.                      *)
Publishes(s) ==
    /\ tick[s] = "publish"
    /\ run.status = "written"
    /\ Shipped # {} => enabled
    /\ run' = Accounted
    /\ cache' = CacheAfter
    /\ EndTick(s)
    /\ UNCHANGED <<issue, enabled, strict, job, writers, changes>>

(* The run was delivered meanwhile: nothing to do. *)
AlreadyDelivered(s) ==
    /\ tick[s] = "publish" /\ run.status = "delivered"
    /\ EndTick(s)
    /\ UNCHANGED <<issue, enabled, strict, cache, run, job, writers, changes>>

(* The transaction rolls back on an error that is not transient: the run is *)
(* not written any more, or nobody takes the digest.                        *)
Refused(s) ==
    /\ tick[s] = "publish"
    /\ \/ run.status \notin {"written", "delivered"}
       \/ run.status = "written" /\ Shipped # {} /\ ~enabled
    /\ tick' = [tick EXCEPT ![s] = "mark"]
    /\ UNCHANGED <<issue, enabled, strict, cache, run, job, writers, lock, changes>>

(* Any other such error: a payload or a query nobody expected. *)
PublicationFails(s) ==
    /\ Change
    /\ tick[s] = "publish" /\ run.status = "written"
    /\ tick' = [tick EXCEPT ![s] = "mark"]
    /\ UNCHANGED <<issue, enabled, strict, cache, run, job, writers, lock>>

FailedRun == IF run.status # "delivered"
             THEN [run EXCEPT !.status = "failed"] ELSE run

(* The run is marked failed outside the transaction that was rolled back. *)
MarkFailed(s) ==
    /\ tick[s] = "mark"
    /\ run' = FailedRun
    /\ EndTick(s)
    /\ UNCHANGED <<issue, enabled, strict, cache, job, writers, changes>>

-----------------------------------------------------------------------------
(* The next morning.  A day is long against a tick and a write: it ends     *)
(* when its run is delivered, has used up its writes, or cannot be sent.    *)
DayIsOver ==
    \/ run.status = "delivered"
    \/ /\ run.status \in {"frozen", "failed"}
       /\ run.writes = MaxWrites /\ job.state = "none" /\ writers = {}
    \/ ~enabled

NewDay ==
    /\ DayIsOver /\ run # NoRun
    /\ \A s \in Schedulers : tick[s] = "idle"
    /\ run' = NoRun
    /\ job' = NoJob
    /\ writers' = {}
    /\ cache' = {[r EXCEPT !.old = TRUE] : r \in cache}
    /\ UNCHANGED <<issue, enabled, strict, tick, lock, changes>>

World == \/ \E i \in Issues : IssueMoves(i) \/ FactsChange(i)
         \/ DestinationToggled \/ Deploy \/ LockIsLost \/ LeaseLost
         \/ \E s \in Schedulers : TickAborts(s) \/ PublicationFails(s)
         \/ \E w \in writers : WriterThrows(w) \/ WriterDoesBadly(w)

Steps(s) == \/ TickStarts(s) \/ Freeze(s) \/ ReadStatus(s) \/ EnqueueWrite(s)
            \/ Publishes(s) \/ AlreadyDelivered(s) \/ Refused(s) \/ MarkFailed(s)

Next == \/ World
        \/ \E s \in Schedulers : Steps(s)
        \/ WriterStarts
        \/ \E w \in writers : WriterDoesWell(w)
        \/ NewDay

Spec == Init /\ [][Next]_vars

(* The scheduler ticks every five minutes and the workers poll; a day ends. *)
Fairness == /\ \A s \in Schedulers : SF_vars(Steps(s))
            /\ WF_vars(WriterStarts)
            /\ \A w \in {"owner", "zombie"} : WF_vars(WriterDoesWell(w))
            /\ SF_vars(NewDay)

FairSpec == Spec /\ Fairness

-----------------------------------------------------------------------------
(* Properties. *)

(* A run is published once: after validateAndPublish has committed, no      *)
(* writer that was slow and no scheduler that lost its lock and failed      *)
(* takes the run back to be written and sent again that day.                *)
DeliveredOnce == run.status = "delivered" => run'.status = "delivered" \/ run' = NoRun

(* The digest is current: every card of the message is of an issue that     *)
(* waits at that moment, in the spell and with the facts it was written     *)
(* about, whether it was authored today or cached on an earlier day.        *)
DigestIsCurrent ==
    run'.status = "delivered" /\ run.status # "delivered" =>
        \A c \in run'.sent : issue[c.issue].on /\ c.about = issue[c.issue].facts

(* What validateAndPublish sends is current, and it is sent once. *)
PublishedOnceAndCurrent == [][DeliveredOnce /\ DigestIsCurrent]_vars

(* The rows are of their types, and the record agrees with the message: of  *)
(* a delivered run, the items and the ledger rows marked included are the   *)
(* issues whose cards were sent, after any number of rewrites, holds and    *)
(* failed publications.                                                     *)
LedgerIsMessage ==
    /\ TypeOK
    /\ run.status = "delivered" =>
         LET told == {c.issue : c \in run.sent}
         IN  run.included = told /\ run.ledger = told

(* No issue is held back for ever: one that keeps waiting, with room on the *)
(* card and somebody to take the digest, is told again and again once the   *)
(* faults end, although a cached card that newer rules refuse is attached   *)
(* to it every morning.                                                     *)
EventuallyTold ==
    \A i \in Issues :
        <>[](issue[i].on /\ enabled /\ Cardinality(Waiting) <= CardCap) =>
            []<>(\E c \in run.sent : c.issue = i)
=============================================================================
