# Opslane: TLA+ specifications, TLC runs and TLAPS proofs

Opslane captures browser and Python errors and session replays, groups them into
issues, and lets agents investigate an issue, fix it in a sandbox and deliver the
fix as a pull request. This directory holds specifications of its stateful parts,
from the queues of the SDKs to the merged pull request, the instances TLC
model-checks and the theorems TLAPS checks.

1. The system · 2. Modules · 3. The runs: instances, bounds, fairness · 4. What is
proved · 5. Where code and documents disagree · 6. What is not modelled

## 1. The system

| Component | State it keeps | Operations | Talks to |
| --- | --- | --- | --- |
| Browser SDK `packages/sdk` | event queue, session id, replay buffer and chunk uploads | capture, batch, retry, upload a chunk, end a session | ingestion HTTP API |
| Build tools `packages/sdk/{vite-plugin,sourcemaps-cli,src/build}` | the files of a build, the maps still to upload | stamp debug IDs, upload maps | ingestion HTTP API |
| Python SDK `packages/sdk-python` | bounded queue, background sender | capture, flush | ingestion HTTP API |
| Ingestion `packages/ingestion` | all of Postgres: events, groups, episodes, jobs, sessions, notifications, digests | capture, settle identity, filter, dispatch, webhooks, human actions, sweepers, notification delivery, retention | SDKs, worker (only through Postgres), GitHub, email/Slack |
| Worker queue `packages/worker/src/{db,poller}.ts` | `error_group_jobs`: status, owner, lease, generation, attempts, re-runs | claim, heartbeat, complete, fail, reschedule, reap, re-run dead letters | every producer of jobs |
| Worker handlers `packages/worker/src/{index,pipeline,pr,ci-watch}.ts`, `friction/*`, `digest-writer/*`, `narrative/*`, `product-context/*`, `resolve/*`, `run-logs/*` | group status, decisions, delivery reservations, tickets, narratives, run logs | inquire, investigate, fix, deliver, watch CI, confirm friction, write the digest | GitHub, model providers, sandboxes, object storage |
| Dashboard `packages/dashboard` | none durable | human actions through the ingestion API | ingestion |

The server's parts meet only in Postgres rows. A job row says who may act; an
issue row (`error_groups`) says what a reader sees; a reservation
(`delivery_reservations`) says what may exist on GitHub. Nearly every hard
behaviour is two transactions on these rows in an order nobody planned: a lease
that runs out under a running handler, a person who acts while an agent works, a
webhook that arrives before the worker recorded what it is about, a process that
dies between two commits.

### What each part must guarantee, and what makes it hard

| Part | Correct when | Hard because |
| --- | --- | --- |
| Job queue | one execution at a time passes the fence; a live lease is honoured; caps hold; executions are bounded; every job settles | loops share a `worker_id`, stale loops keep running, two reapers race, answers are lost, re-runs keep `attempts` |
| Claim order | neither lane starves the other | the scheduler's memory is `claimed_at`, which failures erase |
| Investigation | a fix or an insight rests on what the model opened; a stored verdict stands | a crash between the verdict and `completeJob`, a stream that breaks while it is drained |
| Fix run | a verdict was observed on the very diff handed on | the machine vanishes at any step; results of an earlier try linger |
| Delivery | what is published is what was reserved; automatic work opens drafts; the cap holds | job, issue, reservation and GitHub are written one after the other, and each answer can be lost |
| CI watch, webhooks | merged means merged; redeliveries change nothing | deliveries are late, reordered, repeated, and come before the worker recorded the pull request |
| Identity, admission | an event belongs to one issue; new evidence is weighed; the sweep does not pay twice | settlement races merges and resolutions; the sweep works through stale lists |
| Notifications | every send was counted, the row's outcome is its newest claim's | a send outlives its lease |
| Digest | a run is sent once, of current facts, with a ledger that says so | hours and a model pass between freeze and publication |
| Friction tickets, fix attempts | publication rests on confirmed evidence; late work of an old generation changes nothing | answers of models are planned with, then applied to a world that moved |
| Sessions, retention | what is readable is redacted; what was deleted stays erased | upload, scrub, analysis and deletion are four processes; storage answers late |
| Narratives | observations are emitted and paid once | claims are not fenced by the lease |
| Source maps | code bears the ID of its own map, and the server has it | three tools rewrite the files; uploads race resolutions |
| Route map | at rest the rows describe the connected repository's head | pushes and switches come while a refresh runs |
| Setup, installations | a decision stands; nothing leaves after expiry; the record follows GitHub | handlers read without a lock; webhooks come out of order |
| SDKs | bounded queues lose nothing uncounted; chunks carry their own session and number | timers, page life cycle, threads, forks |
| Run logs | index and transcript tell of the run that happened | writes are given up at a deadline without being undone |

`PROJECT.json` lists every hazard at its line with the property that watches it.

## 2. Modules

| Module | Models | Run | Proofs |
| --- | --- | --- | --- |
| `JobQueue` | `db.ts` queue statements, `poller.ts`, boot, reaper and shutdown of `index.ts`, the unfenced writers | `queue_lease`, `queue_settle` | `JobQueueProofs` |
| `AbstractQueue`, `JobQueueRefines` | what the queue promises; the mapping of the rows onto it | `queue_settle` | `JobQueueProofs` |
| `ClaimOrder` | the `ORDER BY` of `claimJob` and what writes the columns it reads | `worker_run` | |
| `FixRun` | `agent-fix.ts` and `harness/`: one run of the fix agent | `worker_run` | `AgentProofs` |
| `Incident` | the jobs of error issues, from the investigation to the merged pull request | `incident_retry`, `incident_people` | `IncidentProofs` |
| `Identity` | capture, resolution as settlement sees it, settlement, merges of issues | `deliveries` | `IdentityProofs` |
| `Admission` | the filter's tick and the inquiry, over `Identity` | `admission_rounds` | `IdentityProofs` |
| `Investigation` | one investigation, from the clone to the stored route | `admission_rounds` | `AgentProofs` |
| `Outbox` | notification destinations, deliveries, dispatchers | `deliveries` | `OutboxProofs` |
| `Digest` | freeze, write, validate and publish the daily digest | `organisation` | `OrganisationProofs` |
| `SetupSession` | an agent's setup session | `organisation` | `OrganisationProofs` |
| `Installations` | GitHub App installations | `deliveries` | `OrganisationProofs` |
| `Tickets` | friction tickets: match, confirm, publish, fold, take back, purge | `tickets_publish` | |
| `FixAttempts` | the fixes of a published problem and their pull requests | `fix_attempts` | `CodeProofs` |
| `ProductContext` | the route map of a project | `tickets_publish` | `CodeProofs` |
| `RunLog` | the log of one agent run | `tickets_publish` | |
| `Recording` | a recorded session on the server, from its first chunk to its erasure | `sessions` | `SessionProofs` |
| `Narrative` | the narrative of a session | `sessions` | `SessionProofs` |
| `SdkCapture`, `BrowserEvents` | the browser SDK's recording and its event transport | `tickets_publish`, `deliveries` | |
| `PythonEvents` | the Python SDK's transport | `deliveries` | |
| `SourceMaps` | Vite plugin, command line tool and uploader | `fix_attempts`, `build_prologue` | |
| `StackResolution` | uploads of maps against `stack_resolve` jobs | `fix_attempts` | `CodeProofs` |

An action is one transaction, one statement outside a transaction, one call of an
external system, or (in the SDKs) one task up to its next `await`. Everything else
may happen in between. Actions bear the names of the functions they stand for, and
`PROJECT.json` maps every definition to its lines.

The instances are in `MCJobQueue`, `MCIncident` and `MCIncidents`, `MCAdmission`,
`MCOrganisation`, `MCTickets`, `MCFixAttempts`, `MCDeliveries`, `MCSessions`,
`MCWorker` and `MCSourceMaps`. Two kinds of composition occur. `Admission` extends
`Identity` and shares its variables: the rounds it weighs are those settlement
opens. `MCAdmission`, `MCOrganisation`, `MCTickets`, `MCFixAttempts`,
`MCDeliveries`, `MCSessions` and `MCWorker` put parts side by side that share no
state: a variable `part` fixes at the start which of them moves, the others stay
at their initial states, so that the states to explore are the sum of theirs. Their
fairness (`PartFairness`) is that of the part that moves.

### The queue and its use

`JobQueue`: `job` holds the rows of `error_group_jobs`: status, owner, generation,
attempts, re-runs, dead-letter class. Time is what the statements compare with
`now()`: the ticks left of a lease, whether `available_at` has passed, whether a
dead letter is past the boot age or its backoff. `loop` is a poll loop: idle,
holding a claim not yet started, working, or unsure whether its completion was
written. `proc` is a process (one `worker_id`), up, stopping or down; `reap` is the
candidate set of its reaper between the two statements of `requeueStaleJobs`. The
actions are `Claim`, `Heartbeat` and `HeartbeatThrows`, `HandlerReturns`,
`CompleteThrows` and `FinalizerCompletes`, `HandlerThrows` and `FailAfterComplete`,
`HandlerReschedules` and `Handback`, `ReapSelect` and `ReapCommit`,
`RequeueInterval` and `Boot`, `Withdraw` and `CancelWatch` (writers without a
fence), `Stop`, `Exit`, and the clock.

What the model takes from Postgres: a statement reads and writes at one instant; a
row lock orders two writers; the advisory lock of `claimJob` makes a claim atomic.
`FOR UPDATE SKIP LOCKED` and the claim order become "any claimable row", which
allows more; `ClaimOrder` is about the order. The `now()` of a claim that waited
for the lock is older than the instant of the write, which only makes it see more
leases live. A process keeps its `worker_id` over a restart (`WORKER_ID`), the
harder case.

`AbstractQueue` states the promise in a third of the size: a task is waiting,
running, parked or settled, has at most one holder, is granted, charged and
returned, and only its holder or a cancellation settles it. `JobQueueRefines`
reads a task off a row (`TaskOf`); its holder is the loop that passes the fence
(`HolderOf`). TLC checks the refinement as the property `ImplementsQueue`, and
`JobQueueProofs` proves it. The other modules use this queue: in them a row
is owned by its last claim, which `OneOwner` justifies, a lease is live or lapsed,
and an earlier execution goes on without knowing.

`ClaimOrder`: the rows in the order of insertion, and `stamps`, the rows and lanes
in the order of their `claimed_at`. A claim takes the first eligible row in the
code's order; completing keeps the stamp, failing and handing back erase it.

### An issue, from its first event to its pull request

`Identity`: an observation is captured, its stack resolved or given up on, and
settled: `SettleReads` locks the fingerprints and reads the aliases, `SettleCommits`
binds the observation to their issue, or to a new one, and opens or extends a
round, unless the issue is merged by then (`ActiveIssue`) or an alias no longer
says what was read (`Bindable`). Merges confirmed by a person, fixes, resolutions
and archivings come in between, from every status the statements accept, a
loser's "merged" included; unarchiving restores the saved status and, by the trigger
of migration 055, closes the round when that is "resolved". `Admission` adds the decision of a round, the list the
tick works through and the inquiry; both of the tick's lists may be stale when it
comes to an entry.

`Investigation` is one execution of `processInvestigateJob` or of its friction
sibling: rent a machine, clone, let the model read files and submit, correct it,
check every citation against what was opened, ask the judge, store the route. The
machine vanishes, the stream breaks, a write fails, the worker dies. What the
model concludes is a choice among submissions that exercise each check.

`Incident`: `group` is the issue row, `job` the jobs in order of insertion, `work`
the program counter and the locals of each worker, `reserved` the delivery
reservation, `branch`, `pull` and `event` GitHub's side, `receipt` `pr_outcomes`,
`cleanup` and `reconcile` the two continuations after a commit (branch deletion in
the webhook handler, reconciliation in the reaper). GitHub is modelled from how the
code uses it: a push without force to a branch that exists is rejected, one open
pull request per branch, deleting a branch closes its pull request, a closed one
can be reopened while the branch is where it was, each close or merge is one
delivery, delivered any number of times, at any time. A patch is named by the job
and attempt that wrote it; only `kind = 'error'` issues appear, and each has one
episode. `FixRun` is the agent's run that `Incident` takes as one step: setup,
baseline, a cascade of model tiers with a retry each, and the gates (suite, build,
judge, the declared test red without the fix and green with it).

`Tickets` and `FixAttempts` are the friction side. In `Tickets` the look of a
match, the view of a confirmation and the plan of a reconciliation are read
without a lock and applied later. `FixAttempts` follows the published generations
of a problem, their investigations, the attempts, pull requests and the events
about them. Each execution of an investigate job carries the claim it was started
under (`lease_generation`); one that lost its job goes on beside its successor, and
its answer meets the fence of `finishInvestigation` (`OwnsProbe`, `AppliesResult`).

### What comes in and goes out

`BrowserEvents`, `PythonEvents` and `SdkCapture` are the SDKs' queues, sender and
recorder. `SourceMaps` is a build: files with the lines of their code and maps,
rewritten by the plugin, by foreign plugins (`Meddle`), by the command line tool,
and uploaded. `StackResolution` orders the steps of an upload (object, row, wake)
against those of a job (publish that it waits, look, settle). `Recording` is the
server's side of a session; `Narrative` what is written about it. `Outbox` and
`Digest` tell people; `SetupSession` and `Installations` let them in.
`ProductContext` keeps the route map. `RunLog` follows the transcribers of
`run-logs/` over the blocks of a response, and the four writes of a log.

## 3. The runs

| Run | Instance | Properties |
| --- | --- | --- |
| `queue_lease` | two capped jobs (`friction_confirm`, cap 1), two loops of one worker, a second process whose reaper races, leases of 2 ticks | `OneOwner`, `LaneCaps`, `LeaseHonoured` |
| `queue_settle` | an investigation that may be re-run and a CI watch that hands itself back and is cancelled, under fairness | `ExecutionBudget`, `EventuallySettles`, `ImplementsQueue` |
| `worker_run` | two analyses and a fix, cap 1, two slots; a fix run of two tiers with one retry; deadlock checked | `NoLaneStarves`, `FixRunHonest`, `EventuallyReleased` |
| `incident_retry` | one issue retried by two workers while a second waits, or two issues that compete for one draft slot | `DeliveryAgrees`, `CapHeldUntilOutcome`, `AdoptedOnce` |
| `incident_people` | one issue, one execution, four acts of people | `StatusIsHonest` |
| `admission_rounds` | three observations of three users on one issue; one investigation of one file and one path that is not there | `AdmissionAgrees`, `RoundsAreWeighed`, `InvestigationHonest`, `VerdictStands` |
| `tickets_publish` | two look-alike problems, two recordings, three signals; two repositories with two routes; one tab with three session ids; one run of two responses | `TicketsAgree`, `GateHolds`, `ContextAgrees`, `RecordsIntact` |
| `fix_attempts` | two problems, one automatic pull request; two chunks; one stack of two maps | `AttemptsAgree`, `NeverBackwards`, `SourceMapsAgree`, `ResolutionAgrees` |
| `deliveries` | five events through each SDK; three observations under two settlement loops; an installation two organisations ask for; one delivery, two dispatchers | `QueuesIntact`, `IdentityAgrees`, `EventuallySettled`, `InstallAgrees`, `OutboxAgrees`, `EventuallyDelivered` |
| `sessions` | a chunk, two uploads, two scrubbers; a narrative, two workers | `RecordingAgrees`, `EventuallyErased`, `NarrativeAgrees`, `NarrativeIsFinal` |
| `organisation` | two issues, one card a day, two schedulers; a setup session, two approvers, two polls | `LedgerIsMessage`, `PublishedOnceAndCurrent`, `EventuallyTold`, `SetupKeepsWord`, `AgentIsTold` |
| `build_prologue` | a chunk whose prologue shares its last line | violates `AddedLinesCounted` |

An invariant whose name ends in `Agrees`, `Honest` or `Intact` is a conjunction of
named parts, the component's `TypeOK` among them:

* `StatusIsHonest`: what an automatic fix opens itself is a draft (`AutoOpensDraft`,
  which does not speak of a ready pull request it finds and adopts; in the one round
  modelled no automatic fix meets the reservation of a person's), and merged
  means a pull request of the issue was merged (`MergedIsReal`). `DeliveryAgrees`:
  what is on the branch is the reserved patch until a person pushes
  (`PublishedIsReserved`), and the issue and its reservation name one pull request
  (`LinkedPR`).
* `InvestigationHonest`: the model is not let at the machine while the clone
  credential is on it (`MachineInOrder`), fix and insight rest on files that exist and were opened
  (`FixIsGrounded`, `InsightIsGrounded`), the decision and the issue agree.
* `FixRunHonest`: `fix_ready` was proven on this diff (`ReadyIsProven`), a dead
  machine never became a verdict (`DeadMachineNoVerdict`), the diff is of one tier
  (`DiffIsOneTiers`), the agent's budget holds.
* `IdentityAgrees`: all that settled under a fingerprint is on the one issue it is
  bound to, the counts are those of the observations, their rounds exist, a resolved
  issue is quiet (what settled while it was archived is put `aside`). `AdmissionAgrees`:
  inquiries are paid for, and a decision has the work it calls for.
* `OutboxAgrees`: sends were counted, the outcome is the latest claim's, no
  delivery without its event. `LedgerIsMessage`: items and ledger of a delivered run name
  the issues whose cards were sent.
* `TicketsAgree`: publication has the evidence it counts, folds leave nothing
  behind, no recording is forgotten before its first answer. `GateHolds`: a ticket that comes to be published was
  judged against every similar problem published by then and needs another fix.
  `AttemptsAgree`: the incident shows what its attempts are (`SubstateAgrees`), the cap on automatic
  pull requests holds, outcomes are real, waiting means there is work.
* `RecordingAgrees`: whatever can be read was redacted, a key has one writer that
  counts, `chunk_count` is what was committed, a tombstoned session stays
  tombstoned, a late chunk is analysed. `NarrativeAgrees`: emitted once, exactly
  when the narrative ends, a stage takes one unit of the budget.
* `SetupKeepsWord`, `InstallAgrees`, `ContextAgrees`, `SourceMapsAgree`,
  `ResolutionAgrees`, `QueuesIntact`, `RecordsIntact` (the recorder's chunks and
  the run logs): see the comments above them.

The action properties say what no step may do: take a row from a live lease
(`LeaseHonoured`), write an issue for a fix that already ended it (`AdoptedOnce`),
go back on a verdict (`VerdictStands`), an outcome or a newer answer (`NeverBackwards`), a narrative
(`NarrativeIsFinal`) or a publication (`PublishedOnceAndCurrent`).

### Bounds

Two loops on one `worker_id` are the smallest case in which the owner alone does
not identify a claim, and a second process the smallest in which two reapers race.
Leases of two ticks separate a renewal from a fresh lease. Two attempts give a
retried and a last execution. Two jobs are enough for a cap of one. In `Incident`
one issue meets every race of its own life, and two are needed only for the draft
cap, which is all that issues share; `incident_retry` explores the union of two
instances (`Explored`): one issue whose fix two workers retry while the second
issue still waits (`OneMoves`), or two issues with one execution at a time whose
failures are not followed (`OneAtATime`). Nobody acts in it, so episodes stay open;
four acts of people, which reach trigger, promote, close and reopen in one
behaviour, are `incident_people`'s. `Quiet` names the issues that stay silent long
enough for the sweeps.

Elsewhere the rule is the same: two of every actor that races with its like
(dispatchers, settlement loops, schedulers, polls, scrubbers, narrators,
callbacks, uploads of one number), one more of a resource than a limit admits
(five events for a queue of three, two problems for one pull request, two issues
for one card), one failure beyond what is retried. In `deliveries` one observation
is settled and two are to come, since two loops must meet on one fingerprint and a
third observation on the issue they agree on. In `tickets_publish` an answer may be
unavailable once and be asked for again; such behaviours are followed with two of the
three observations (`Bounded`). In `fix_attempts` the two problems
are alike until one is attempted, so the first attempt is of `a`, and once `a` has
a second generation or new evidence there is one attempt (`Bounded`): what
generations do to attempts, and what attempts do to one another, are explored
each to the end but not multiplied. A second attempt is an automatic one, as the
cap is about those, and is explored while the setting stays on and neither problem
is taken back; what a switch or a retraction does is explored with one attempt, and
proved for any number (`CodeProofs`). Counters of edits, faults, switches, pushes,
acts and clock ticks (`MaxChanges`, `MaxFaults`, `MaxActs`, `MaxClock`, ...) bound
the environment only; `MaxReturns` and `MaxReschedules` bound repetitions that
change nothing but a counter.

Symmetry is used for workers and loops in `incident_retry` and `queue_lease`, where
nothing distinguishes them and no liveness is checked. Deadlock is checked in
`worker_run`. Elsewhere it is not: a queue with nothing due, an issue at rest, a
page that left and a bounded environment that has used up its changes may stop.

### Fairness

Fairness is stated for what the code schedules itself, never for people, faults,
webhooks or lost answers.

* `JobQueue`: the clock advances; loops poll for ever and a due row is eventually
  taken (each row alone, which `ClaimOrder` supports: no lane starves and rows of a
  lane are served by age); a started handler ends, since every model call, sandbox
  command and clone has a timeout; the reaper interval fires. `EventuallySettles`
  is conditional on processes that eventually stay up.
* `ClaimOrder`: loops poll, backoffs elapse, a claimed row completes or fails; the
  property assumes that a row is handed back only finitely often.
* `Identity`, `Admission`: their intervals fire, and a settlement that holds its
  locks ends. `Outbox`: dispatchers tick, a send has a timeout, the reaper runs.
* `Digest`: strong fairness of a scheduler's steps, as a tick may be cut short
  again and again by the loss of its lock, and of the end of a day; the writer
  starts and does well. `SetupSession`: the clock advances, a poll that began ends.
* `Recording`: requests, scrubbers, analyses and the retention intervals go on, and
  a late write lands or is lost at last. `FixRun`: the run proceeds, and a machine
  nobody gives back ends by its own timeout.

## 4. What is proved

Eight modules hold theorems. Each is for every value of the constants that the
component's named assumption admits (`QueueAssumption`, `IncidentAssumption`,
`StackAssumption`, ...: finite sets, typed functions, positive limits, and what the
caller guarantees); TLC evaluates the assumptions in every run. Invariants were
checked by TLC on the small instances before they were proved.

| Module | Theorem | Establishes |
| --- | --- | --- |
| `JobQueueProofs` | `QueueTypeCorrect`, `GenerationsIdentifyHolds`, `OneOwnerHolds`, `LeaseHonouredHolds`, `LaneCapsHold`, `ExecutionBudgetHolds`, `TerminalIsFinalHolds` | the queue's safety, for any jobs, loops, processes, types, caps and limits |
| | `QueueRefinement` | the rows, loops and reapers implement the abstract queue |
| `IncidentProofs` | `SoundAlways`, `StatusIsHonestHolds`, `DeliveryAgreesHolds`, `CapHeldUntilOutcomeHolds`, `AdoptedOnceHolds` | what an issue, its jobs, its reservation and its pull requests may say of one another |
| `AgentProofs` | `InvestigationHonestHolds`, `VerdictStandsHolds` | a decision rests on what was read and checked in this checkout, and is not overwritten |
| | `FixRunHonestHolds` | a claimed fix passed every gate as it is handed on, within the budget |
| `IdentityProofs` | `IdentityAgreesHolds` | one live issue owns a fingerprint, with real counts |
| | `AdmissionAgreesHolds` | inquiries are paid for, verdicts have their work |
| `SessionProofs` | `RecordingAgreesHolds` | what is readable is redacted, what is deleted stays so, nothing readable escapes the analysis unnoticed |
| | `NarrativeAgreesHolds`, `NarrativeIsFinalHolds` | observations are emitted once, a stage is paid once, an outcome is not overwritten |
| `OrganisationProofs` | `LedgerIsMessageHolds`, `PublishedOnceAndCurrentHolds` | the ledger is the message, sent once and of issues that still wait |
| | `SetupKeepsWordHolds`, `DecisionStandsHolds` | nothing leaves a setup session after its expiry; decisions stand |
| | `InstallAgreesHolds`, `LeaseIsKept` | delivered webhooks leave a true record, the worker picks a live one; a login state is its callback's |
| `OutboxProofs` | `OutboxAgreesHolds`, `SettledIsFinalHolds` | sends are counted, the newest claim's outcome stands, settled rows are final |
| `CodeProofs` | `ResolutionAgreesHolds` | no stack waits for maps that have arrived, though uploads and resolutions share no lock |
| | `ContextAgreesHolds` | at rest the route map describes the connected repository's head |
| | `AttemptsAgreeHolds`, `NeverBackwardsHolds` | an incident shows what its one attempt is, the cap holds, outcomes are real and stay |

### The arguments

*Queue.* Twenty kinds of step touch a row in only a few ways, so the proofs go
through two lemmas: `StepMovesRows` says every step moves every row by one of the
row operators (`Claimed`, `Renewed`, `Failed`, ...), and `StepMovesLoops` that every
loop keeps its claim, gives it up or takes a new one. Each invariant is preserved
move by move. `OneOwner` is not inductive: two loops with one `worker_id` could
pass the fence if they held the same generation. The strengthening is
`GenerationsIdentify`: a loop's generation is at most its row's, and two loops that
hold the same row hold different generations; a claim raises the row's above every
one handed out. `ExecutionBudget` needs `Accounting`: the generation of a row is
what was charged or handed back, plus one while it is claimed. `LaneCaps` follows
because a claim counts the live leases it joins and no other move makes a lapsed
lease live again. The refinement uses the same moves: each maps a task to a step of
`AbstractQueue` or leaves it as it was.

*Outbox.* What a dispatcher holds in memory is tied to the row: a claim's
generation is at most the row's (`ClaimsAreKnown`), and the attempts of the row
cover every send made or still to be made (`SendsAreReserved`).

*Identity.* The race is that of a settlement with a merge: what it read of the
aliases before it locked the issue. The lock of the issue does not settle it, since a
person may have resolved or archived the loser meanwhile; that `bindAlias` reads each
alias again (`Bindable`) does. `QuietBeforeArchive` makes quiet inductive: an
issue that was resolved before it was archived is as quiet as a resolved one, but for
what settled on it since, so unarchiving it breaks nothing.

*Admission* rests on *Identity*'s invariant. The tick works through a list that was
true when it was made; `PlaceSound` says what is left of it: a place whose number is
still above the inquiries of its round belongs to a round nobody has asked about
since, whose decision is newer than all that was asked. `RoundSound` says that such
a decision is not spent, that a signature has one stored verdict, and that the
investigation follows the stored verdicts. The composed steps go through
`IdentityMoves`: whatever settles, merges or lapses, what was captured stays
captured and `IdInv` holds.

*Stack resolution.* A row is stored after its object (`ObjectFirst`), a job's
reading of the rows is as of a moment at which it had already announced that it
waits (`Looks`), and so either the job saw the row or the upload sees the job.

*Route map.* Freshness at rest is not inductive. `Covered` says of a row that is not
fresh that the refresh queued or running will look at it, or that a push on its way
tells of its file; `AskedWell` that what the lease's holder has cloned is of the
connected repository, and older than a file only where a push will tell, and that
what it does not ask about is accounted for. Whatever makes that wrong queues the
refresh anew and takes the lease away; the bound on pushes needs `RoomToPush`.

*Fix attempts.* `OneFix`: an outstanding attempt is of the generation that is
published and is the only one of its problem; retiring a generation takes its
attempts along, so nothing outstanding is left for the next. `Delivers`: the pull
request an execution or an event carries exists, and what an event says of it is what
happened, since a decided pull request is decided for good; an automatic attempt that
delivers has its slot, which is why the cap holds for executions that lost their job
too. `Investigates`: only the last investigation is queued, executions are numbered
in the order they began, and the newest knows no less than what was adopted; and
(`Fenced`) a job that is claimed anew belongs to nobody who began before, and its
owner is the newest execution, so an owner is refused only when its incident was
resolved. A step
of the delivery moves one attempt and its incident together (`Moves`), a step of the
investigation neither (`ProbingKeeps`); every step is shown to keep the invariant and
to go `Forward`, which is `NeverBackwards` of that step.

*Setup session.* A handler's reading of the row is older than the row, and the
expiry only moves later: `Reads` and `RouteReads` say so of each kind of handler;
`FirstStampKept` that the first approval's stamp is the one kept.

*Installations.* That a record is true once its webhooks were delivered is not
inductive: `Told` says, of the suspension and of each repository apart, that the
newest event under way about it is what GitHub says now, and that the record is
right where none is under way. A webhook in order keeps that, and so does a callback
or a settings request that acts on what is still true. `PointersLive` is about the
other way to an installation: an organisation's pointer is at a record of its own
that is not suspended.

*Narrative.* Claims do not look at the lease, writes do. `Answers` says what an
execution may still write, `Unchecked` that a check follows only a narrative that
was written well, `Charged` that stamp and unit go together.

*Recording.* Requests and scrubbers share rows without a lock. `Writes` says that a
request still writing has to do with a chunk that is not settled, `Scrubs` that a
scrubber only has to do with one that is, `Settled` that what is settled is committed
and no raw bytes are on their way to it. `Covers` follows the analysis: what it read
and what it was told it has not read are all that may be read. `RowsGo` and `Tombs`
are about the end: rows go only after their objects, and a tombstone keeps its prefix.

*Digest.* The order freeze, write, publish is kept by the status of the run, not by
the advisory lock or the job's lease: `ItemsSound` and `PayloadSound` say what holds
of items and payload in each status, whoever lost what in between. A card is about
the facts frozen with its item, and the publication compares those with the issue's.
Comparison and commit are one step of the model (section 6).

*Investigation.* `WorkIsPending`: whoever is at work has an issue nobody has decided.
`MissingIsMissing`, `ProbeAnswers` and `RulingIsOnSubmission` carry what was read
from the checkout to the ruling, `ParkedIsFix` a fix that waits for its score.

*Fix run.* `TreeIsCandidates` says whose changes are in the working tree at each
point of the run, `ChecksAreCandidates` of what the gates have spoken; `AgentIsLatest`
that the tier at work is the last one paid for, and `Paid` what each has cost.

*Incident.* Two inductive invariants. `Sound` gives types, and says that what rows
and executions refer to exists (`Referred`) and that an execution is at a point of
its own kind of job (`Role`). `Related` says what the tables say of each other:

* an issue has one investigation ever and one fix in flight (`OneOfAKind`), and none
  while it is new or an execution with a live lease analyses it (`Diagnosing`);
* an issue that shows a pull request, or hides it in the archive, shows its own, its
  reservation is open on it, and a fix still in flight is the one that ended it
  (`LinkKept`);
* the owner of a fix that is not yet finalized acts on an issue that shows no pull
  request and has not been ended by this fix (`Fixing`): what `StartFix` read when
  it began is still true, because only a lost lease lets anything intervene and a
  lost lease is noticed at the fence;
* nothing is on GitHub that was not reserved, and a delivering execution carries the
  reserved patch, which never changes (`Reserved`); a closed one has a receipt (`CapKept`), which is why the cap holds
  only until an outcome arrives;
* `Drafts` and `MergedKept` are the posture and the merge, as one would expect.

With about forty actions and ten variables, one lemma per action and invariant
would be four hundred. Instead the actions are read once per variable: `JobMoves`,
`PullMoves`, `GroupMoves`, `WorkMoves`, `ReservedMoves`, `EventMoves`, ... each say
everything a step may do to it, and the invariants follow from those. `AdoptedOnce`
is an action property that follows from `Related` at both ends of the step.

### What is only model-checked

* Liveness: `EventuallySettles`, `NoLaneStarves`, `EventuallyReleased`,
  `EventuallyDelivered`, `EventuallySettled`, `EventuallyErased`, `EventuallyTold`,
  `AgentIsTold`, `RoundsAreWeighed`. The prover has no `ENABLED`, on which fairness
  rests.
* The invariants `TicketsAgree`, `RecordsIntact`, `SourceMapsAgree` and
  `QueuesIntact`, and the action property `GateHolds`. Nothing puts them out of
  reach in principle. Those that lean on folds (the run log's transcript, the lines of
  `SourceMaps`, the quorum counts of `Tickets`) need inductions over data for which
  the library's theorems, which take an operator as a parameter, cannot be used.
* The violation of `AddedLinesCounted`.

## 5. Where code and documents disagree

One run violates a statement of the repository: `build_prologue`. The comment on
`preludeInsertion` says that `addedLines` counts every line it introduces
(`packages/sdk/src/build/stamp.ts:222`); when a prologue of several lines shares
its last line with other code it introduces more than the two it counts (line
273), and every frame of the chunk resolves to a wrong line. `unstamp` leaves a
repeated one-line prologue of this kind in the code.

The models also reach what follows. Where a property would forbid it, the property
says so in its own words ("unless ...") or is stated of the rest.

*Queue.* Two due dead letters of one unique identity make `requeueDeadLetters` fail
as a whole. `failJob` dead-letters a fix and leaves its issue in `fixing`, although
`docs/contracts/reliability.md:10` has stopped jobs reconciled. The reaper's unfenced
`updateGroupStatus` can turn a delivered issue into `needs_human`.

*Delivery.* The reservation of a dead fix holds a draft slot for ever. A retriable
clone failure becomes `needs_human`. A close or merge delivered before
`finalizeDelivery`, or before `recordAttemptPr`, matches nothing and is dropped. A
draft is promoted on the checks of a commit that is no longer its head. A crash
between `finishInvestigation` and `requestFix` loses the automatic request. An orphan
of a retired generation writes its own pull request over the number of an attempt
that is already merged or closed, so that `OutcomeIsReal` holds of the recorded number
only while the generation is published (`applyPrEvent`, `fix-attempts.ts:276`). A
confirmation that finds nothing to select completes and queues none for a recording
that waits for its retry, although the comment at `confirm-job.ts:582` has it retried
"after 1, 6 and 24 hours"; a later arrival or reconciliation takes it up, so
`NoneForgotten` is about recordings that were never answered for.

*Investigation.* `createReadOnlyCheckout` removes the clone credential in a `finally`
whose own failure replaces `MachineUnavailableError`, so that a lost machine is
reported as `repo_access_denied`; on the friction path a failed
`cacheProjectDefaultBranch` does the same and leaks the machine. The probe of the
cited paths is best effort: when it fails, a first location that does not exist
passes. A verdict submitted just before the stream breaks is lost. An investigation
that dead-letters leaves its issue `analyzing`, a ticket's `pending`.

*Fix run.* A retry within a tier keeps the staged, failed candidate. The fail-first
commit may contain files a gate wrote. A judge asked on a dead sandbox reports a
rejection. An infrastructure error in a gate followed by a failed agent ends
`budget_exhausted`.

*Identity and admission.* A regression can be swallowed: what settles on an issue
that was resolved and then archived opens round two, which unarchiving closes while
it restores "resolved" and the old `resolved_at`, although migration 055 promises that
"a genuinely later recurrence opens round two and reads as returned". A merge loser can
be resolved or archived by a person, and win a merge again, although
`resolveSilentMergedGroups` says that losers stay merged "forever" (`db.ts:2150`); it
then skips that issue for good once its fix is merged (`StaysMerged`).
`resolveSilentMergedGroups` does not take the lock settlement takes. A conflict opened
after a merge is never mooted. `ConfirmMerge` has no caller outside tests. Evidence can settle with a `settled_at` (the start of its
transaction) older than the decision made meanwhile: the tick's `EXISTS` does not see
it, and it is weighed only with later evidence. A review can be asked for on a round
that was never admitted.

*Sessions.* `setSessionAnalysisStatus` and the reaper overwrite `deleting`. A chunk may
be marked scrubbed after the analysis has read the prefix. What an analysis stores is
fenced only at its start. The object of a committed chunk whose answer was lost is
removed; a crashed upload's reservation is kept until the purge. `ChunkUpload` never
returns 410. Claims of narratives are not fenced by the lease.

*SDKs.* The flush on unload loses events when the server answers with an error
status. A late 403 of an old session stops the capture of a newer one. A duplicated
tab shares its session id and numbers. `has_full_snapshot` says how a chunk was sent,
not what it holds: true of every upload, false of every inline tail, which opens with a
snapshot like the others (`SelfContained`).

*Source maps.* The command line tool, killed between writing a map and its code,
leaves a pair every later run reports as stale. A nested stamped asset beside a
foreign map, in a build with stamping off, bears an ID whose map nobody has. Without
a key the Vite plugin stamps and then removes maps nobody keeps. A partial
resolution is parked although all its maps are stored; only the daily watchdog
settles it.

*Route map, installations.* A refresh that is dead-lettered leaves stale rows
(`tainted`), and a job of the sweeper's kind is not superseded by a push.
Organisations with two installations lose their pointer; a change between the listing
and the persistence of a callback is overwritten; webhooks are applied in the order
they come (`disturbed` marks what `InstallAgrees` then does not claim).

*Run logs.* A validator's rejection is logged before the response it answers. An
INSERT given up at its deadline may land later: a started row that lands after the
finished one was refused leaves the run `unfinished`. `RunLogAgrees` is stated of
what was confirmed.

## 6. What is not modelled

| Part | Why |
| --- | --- |
| Score synchronisation, billing | idempotent calls to an external service; nothing reads their state. `Incident` has the refusal of an investigation, and a refused fix as one that ends `needs_human` |
| Grouping, masking, event formatting | pure functions of strings, which a small model cannot enumerate usefully; fingerprints are constants |
| Dashboard, MCP and read API | no durable state of their own; people's actions are modelled at the API |
| Operational commands, docs, scripts, end-to-end tests | run by an operator, or tests of the rest. `friction/promotion-db.ts`, `upsertRouteMapRows` and `listUnmappedPatterns` are retired code nothing imports |
| What a model answers, what a session contains, where a stack frame points | choices; the decoding of maps is library code |

Simplifications inside the modelled parts:

* `Incident`: decisions, scores and evidence texts are left out; one episode per
  issue. `FixRun` and `FixAttempts`: the second try of `withInfraRetry` is folded
  into the first, the agent's own commits, a crash of the worker in mid-run and the
  provider's `opened` webhook are left out, a lapse and the reaper's visit are one
  step (so the lease does not lapse inside the transaction that checks it), an
  execution that lost its job before `beginInvestigation` is forgotten, since
  `lockJob` ends it, investigations of archived generations are forgotten, every problem is a
  defect.
* `Tickets`: "inconclusive" is "refuted", which every rule counts alike; an answer of
  the model that is rejected (asked again once, then the job fails) changes nothing.
* `SourceMaps`: the dry run is left out, and retries after a 429 are part of
  `Refused`. `RunLog`: every line has size 1; usage and cost are left out; a run ends,
  and its writes land, within the retention.
* `Digest`: the publication's transaction is READ COMMITTED and locks only the run, so
  an issue may change between `candidateStillUnified` and the commit.
  `PublishedOnceAndCurrent` is about facts that went stale in the hours before, not in
  that window, which the code leaves open.
* `SetupSession`: rate limits, and the GitHub and Slack routes, which pass the gate
  that is modelled. `Installations`: organisations that predate the record, and
  installations of all repositories. `ProductContext`: back-off, and lost webhooks.
