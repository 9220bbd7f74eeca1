------------------------------- MODULE FixRun -------------------------------
(***************************************************************************)
(* One run of the fix agent (agent-fix.ts, harness/): a sandbox machine is   *)
(* set up on the repository, a cascade of model tiers edits the working      *)
(* tree, each with one retry, and every candidate diff passes through the    *)
(* suite, the build, the quality judge and the red-then-green run of the     *)
(* test the agent declared, before the run may say fix_ready.  The machine   *)
(* may vanish at any moment; the harness learns of it from the first command *)
(* that fails and latches it.                                                *)
(*                                                                         *)
(* A working tree is the set of edits in it.  An edit is named by the tier   *)
(* and attempt whose agent made it; Junk is what a gate wrote.               *)
(***************************************************************************)
EXTENDS Integers, FiniteSets

CONSTANTS
  Tiers,        \* models in MODEL_CASCADE
  MaxRetries    \* MAX_TEST_RETRIES: retries within one tier

ASSUME FixRunAssumption == Tiers \in Nat \ {0} /\ MaxRetries \in Nat

VARIABLES
  step,    \* where runAgentFix is
  plan,    \* what setup found: who asked, the test plan, the baseline's outcome
  box,     \* the sandbox: machine, latch, tree, staged index, results file
  try,     \* the cascade: tier, attempt, runs paid, the agent's last result
  checks,  \* what the gates have said of the candidate
  result   \* what the run returned or threw

fixRunVars == <<step, plan, box, try, checks, result>>

Edits == (1 .. Tiers) \X (0 .. MaxRetries)
Junk == <<0, 0>>
TestFile == <<0, 1>>      \* the declared test's files laid over the base commit
NoTree == {<<0, 2>>}      \* no report, or no tree
Trees == {NoTree, {TestFile}} \cup SUBSET (Edits \cup {Junk})

Runs == Tiers * (MaxRetries + 1)
Nothing == [seen |-> "not_run", of |-> NoTree]
NoChecks(i) == [infra |-> i, suite |-> Nothing, build |-> Nothing, red |-> Nothing,
                green |-> Nothing, quality |-> FALSE]

Steps == {"authorise", "setup", "baseline", "clean", "preload", "pre_loop", "agent", "after_agent",
          "suite", "build", "retry", "tier_over", "next_tier", "quality", "red", "green", "restore",
          "precision", "done"}

\* One type invariant: every piece of the run holds a value the code gives it.
FixRunTypeOK ==
  /\ step \in Steps
  /\ plan \in [by : {"human", "policy"}, tests : {"unknown", "none", "script", "suite", "uninstalled"},
               baseline : {"none", "ran", "infra"}]
  /\ box \in [machine : {"none", "alive", "gone"}, latched : BOOLEAN,
              tree : Trees, index : Trees, report : Trees]
  /\ try \in [tier : 1 .. Tiers, attempt : 0 .. MaxRetries + 1, runs : 0 .. Runs + 1,
              how : {"none", "success", "gave_up", "failed"}, tainted : BOOLEAN, ok : BOOLEAN,
              candidate : Trees, declared : {"none", "test", "impossible"}, by : Edits]
  /\ checks \in [infra : BOOLEAN, suite : [seen : {"not_run", "clean", "dirty", "infra"}, of : Trees],
                 build : [seen : {"not_run", "passed", "failed", "skipped", "infra"}, of : Trees],
                 red : [seen : {"not_run", "yes", "no"}, of : Trees],
                 green : [seen : {"not_run", "yes", "no"}, of : Trees], quality : BOOLEAN]
  /\ result \in [status : {"none", "fix_ready", "needs_human", "infra"},
                 reason : {"none", "refused", "setup", "gave_up", "budget", "tests", "empty", "judge",
                           "low", "runtime"}, draft : BOOLEAN]

FixRunInit ==
  /\ step = "authorise"
  /\ plan \in [by : {"human", "policy"}, tests : {"unknown"}, baseline : {"none"}]
  /\ box = [machine |-> "none", latched |-> FALSE, tree |-> {}, index |-> {}, report |-> NoTree]
  /\ try = [tier |-> 1, attempt |-> 0, runs |-> 0, how |-> "none", tainted |-> FALSE, ok |-> FALSE,
            candidate |-> {}, declared |-> "none", by |-> <<1, 0>>]
  /\ checks = NoChecks(FALSE)
  /\ result = [status |-> "none", reason |-> "none", draft |-> FALSE]
-----------------------------------------------------------------------------
Gone == box.machine = "gone"
Alive == box.machine = "alive"
LastTier == try.tier = Tiers
ThisEdit == <<try.tier, try.attempt>>

\* Every way out passes the finally that kills the sandbox, on a best-effort basis.
Finish(status, reason, draft, b) ==
  /\ step' = "done"
  /\ result' = [status |-> status, reason |-> reason, draft |-> draft]
  /\ \E m \in IF b.machine = "alive" THEN {"gone", "alive"} ELSE {b.machine} :
       box' = [b EXCEPT !.machine = m]
  /\ UNCHANGED <<plan, try, checks>>

NeedsHuman(reason) == Finish("needs_human", reason, FALSE, box)

\* A command on a machine that is gone: the adapter latches it and throws, and the
\* catch of runAgentFixCore turns that into VerificationInfraError.
Throws == Gone /\ Finish("infra", "none", FALSE, [box EXCEPT !.latched = TRUE])
Raise == Finish("infra", "none", FALSE, box)

\* The policy decision, the missing key or the inline investigation refuses the run.
\* A person's request bypasses the decision and always carries its context.
Refused ==
  /\ step = "authorise" /\ plan.by = "policy"
  /\ NeedsHuman("refused")

Authorised ==
  /\ step = "authorise"
  /\ step' = "setup"
  /\ UNCHANGED <<plan, box, try, checks, result>>

\* planTests: nothing this harness can run, a script that reports no single tests, or a
\* runner with a report and a filter.
TestPlans == {"none", "script", "suite"}

\* selectPythonInstall: a Python repository of none of the managers it knows cannot be
\* installed, and nothing of it is tested.
Plans == TestPlans \cup {"uninstalled"}

\* createRepoSandbox: clone, credential removed, dependencies, a baseline commit.  Only a
\* Python repository without a manifest goes on without its dependencies.
SetUp ==
  /\ step = "setup"
  /\ \E t \in Plans :
       /\ plan' = [plan EXCEPT !.tests = t]
       /\ checks' = [checks EXCEPT !.infra = (t = "uninstalled")]
       /\ step' = IF t \in {"script", "suite"} THEN "baseline" ELSE "preload"
  /\ box' = [box EXCEPT !.machine = "alive"]
  /\ UNCHANGED <<try, result>>

\* What the customer can act on (clone, dependencies) is reported to them.
SetUpEnds(customers, b) ==
  IF customers THEN Finish("needs_human", "setup", FALSE, b)
  ELSE Finish("infra", "none", FALSE, b)

\* No machine could be had, or one was and the setup on it failed: it is killed before the
\* error goes on.
SetUpFails ==
  /\ step = "setup"
  /\ \E m \in {"none", "alive"}, customers \in BOOLEAN :
       SetUpEnds(customers, [box EXCEPT !.machine = m])

-----------------------------------------------------------------------------
\* compareSuiteRuns: new failures against the baseline, or tests no longer collected.
Compared == {"clean", "dirty"}

\* Mutant: the removal fails and the suite is parsed all the same.
SuiteResultsStale(tree) ==
  {[seen |-> "infra", of |-> NoTree, left |-> NoTree]}
  \cup {[seen |-> v, of |-> tree, left |-> tree] : v \in Compared}
  \cup {[seen |-> "clean", of |-> box.report, left |-> box.report] : x \in {box.report} \ {NoTree}}

(* runSuite: the results file of earlier runs is removed first, and any       *)
(* failure to remove it is infrastructure.  A run that writes no report, or   *)
(* one that cannot be parsed, is infrastructure too.                          *)
SuiteResults(tree) ==
  {[seen |-> "infra", of |-> NoTree, left |-> box.report],
   [seen |-> "infra", of |-> NoTree, left |-> NoTree]}
  \cup {[seen |-> v, of |-> tree, left |-> tree] : v \in Compared}

\* A gate may write snapshots, coverage or fixtures into the tree.
Written(tree) == {tree, tree \cup {Junk}}

\* withInfraRetry: HEAD is read before a gate runs, so a lost machine throws; a gate that
\* met infrastructure trouble runs once more, and may do no better.
GateThrows == Throws

\* The suite on the untouched tree.
Baseline ==
  /\ step = "baseline"
  /\ \/ GateThrows
     \/ /\ Alive
        /\ \E r \in SuiteResults(box.tree), t \in Written(box.tree) :
             /\ box' = [box EXCEPT !.report = r.left, !.tree = t]
             /\ plan' = [plan EXCEPT !.baseline = IF r.seen = "infra" THEN "infra" ELSE "ran"]
             /\ checks' = [checks EXCEPT !.infra = @ \/ r.seen = "infra"]
        /\ step' = "clean"
        /\ UNCHANGED <<try, result>>

\* git checkout -- . && git clean -fd: the tree becomes what is staged.
CleanBaseline ==
  /\ step = "clean"
  /\ \/ Throws
     \/ /\ Alive
        /\ box' = [box EXCEPT !.tree = box.index]
        /\ step' = "preload"
        /\ UNCHANGED <<plan, try, checks, result>>

\* git ls-files throws on a lost machine; the reads of the stack trace's files swallow it.
Preload ==
  /\ step = "preload"
  /\ \/ Throws
     \/ /\ \E l \in {FALSE, Gone} : box' = [box EXCEPT !.latched = l]
        /\ step' = "pre_loop"
        /\ UNCHANGED <<plan, try, checks, result>>

\* The latch is read once more before the cascade spends anything.
EntersCascade ==
  /\ step = "pre_loop"
  /\ \/ box.latched /\ Raise
     \/ /\ ~box.latched
        /\ step' = "agent"
        /\ UNCHANGED <<plan, box, try, checks, result>>
-----------------------------------------------------------------------------
\* toolLoop: the model ends its turn, a diagnosis was submitted, or the loop was cut
\* short by its turns, its budget, an abort or a model error.
LoopEnds == {"success", "gave_up", "failed"}

\* The two declaring tools, each of which withdraws the other's declaration.
Declarations == {"none", "test", "impossible"}

\* The editing tools.
Edited(tree) == {tree, tree \cup {ThisEdit}}

(* One agent loop.  The declarations of earlier attempts were cleared.  On a  *)
(* machine that is gone every tool call comes back to the model as text, so   *)
(* the loop still ends in some verdict of the agent's; that verdict is        *)
(* tainted.  An agent that touches nothing leaves the latch as it is.         *)
AgentRuns ==
  /\ step = "agent"
  /\ \E how \in LoopEnds, d \in Declarations :
       \/ /\ Alive
          /\ \E t \in Edited(box.tree) : box' = [box EXCEPT !.tree = t]
          /\ try' = [try EXCEPT !.runs = IF @ > Runs THEN @ ELSE @ + 1, !.how = how,
                                !.declared = d, !.by = ThisEdit]
       \/ /\ Gone
          /\ \E used \in BOOLEAN :
               /\ box' = [box EXCEPT !.latched = used]
               /\ try' = [try EXCEPT !.runs = IF @ > Runs THEN @ ELSE @ + 1, !.how = how,
                                     !.declared = d, !.by = ThisEdit, !.tainted = used]
  /\ step' = "after_agent"
  /\ UNCHANGED <<plan, checks, result>>

\* extractDiff: git add -A.
Staged(b) == [b EXCEPT !.index = b.tree]

\* The branches after the loop: a submitted diagnosis ends the run, a failure ends the
\* tier, and a success stages the whole tree as the candidate (extractDiff).
Branch ==
  \/ try.how = "gave_up" /\ NeedsHuman("gave_up")
  \/ /\ try.how = "failed"
     /\ step' = "tier_over" /\ try' = [try EXCEPT !.ok = FALSE]
     /\ UNCHANGED <<plan, box, checks, result>>
  \/ try.how = "success" /\ Throws
  \/ /\ try.how = "success" /\ Alive
     /\ box' = Staged(box)
     /\ try' = [try EXCEPT !.candidate = box.tree]
     /\ step' = "suite"
     /\ UNCHANGED <<plan, checks, result>>

\* The latch is read before any of the agent's verdicts.
AfterAgent ==
  /\ step = "after_agent"
  /\ \/ box.latched /\ Raise
     \/ ~box.latched /\ Branch
-----------------------------------------------------------------------------
NoSuite == plan.tests \in {"none", "uninstalled"} \/ plan.baseline = "infra"

\* The post-patch suite.  Infrastructure trouble is remembered for the whole run and
\* the gate is passed over; new failures send the attempt back.
SuiteGate ==
  /\ step = "suite"
  /\ \/ /\ NoSuite
        /\ step' = "build"
        /\ UNCHANGED <<plan, box, try, checks, result>>
     \/ ~NoSuite /\ GateThrows
     \/ /\ ~NoSuite /\ Alive
        /\ \E r \in SuiteResults(box.tree), t \in Written(box.tree) :
             /\ box' = [box EXCEPT !.report = r.left, !.tree = t]
             /\ checks' = [checks EXCEPT !.suite = [seen |-> r.seen, of |-> r.of],
                                         !.infra = @ \/ r.seen = "infra"]
             /\ step' = IF r.seen = "dirty" THEN "retry" ELSE "build"
        /\ UNCHANGED <<plan, try, result>>

\* The build or typecheck; a repository may have neither.
BuildOutcomes == {"passed", "failed", "skipped", "infra"}

BuildGate ==
  /\ step = "build"
  /\ \/ plan.tests # "uninstalled" /\ GateThrows
     \/ /\ plan.tests = "uninstalled" \/ Alive
        /\ \E v \in IF plan.tests = "uninstalled" THEN {"infra"} ELSE BuildOutcomes,
              t \in Written(box.tree) :
             /\ box' = [box EXCEPT !.tree = t]
             /\ checks' = [checks EXCEPT !.build = [seen |-> v, of |-> box.tree],
                                         !.infra = @ \/ v = "infra"]
             /\ step' = IF v = "failed" THEN "retry" ELSE "tier_over"
             /\ try' = [try EXCEPT !.ok = (v # "failed")]
        /\ UNCHANGED <<plan, result>>

\* A gate failed: git checkout -- . && git clean -fd, which goes back to what is staged
\* (the failed candidate), and one more attempt, or the end of the tier.
Retry ==
  /\ step = "retry"
  /\ \/ Throws
     \/ /\ Alive
        /\ box' = [box EXCEPT !.tree = box.index]
        /\ try' = [try EXCEPT !.attempt = @ + 1, !.ok = FALSE]
        /\ step' = IF try.attempt < MaxRetries THEN "agent" ELSE "tier_over"
        /\ UNCHANGED <<plan, checks, result>>

Escalates == step' = "next_tier" /\ UNCHANGED <<plan, box, try, checks, result>>

\* What becomes of a tier: escalation, one of the failures of the last tier, the
\* infrastructure error that forbids any claim, or on to the judges.
TierOver ==
  /\ step = "tier_over"
  /\ \/ ~try.ok /\ ~LastTier /\ Escalates
     \/ ~try.ok /\ LastTier /\ try.how = "failed" /\ NeedsHuman("budget")
     \/ /\ ~try.ok /\ LastTier /\ try.how = "success"
        /\ NeedsHuman(IF try.candidate = {} THEN "empty" ELSE "tests")
     \/ try.ok /\ checks.infra /\ Raise
     \/ try.ok /\ ~checks.infra /\ try.candidate = {} /\ ~LastTier /\ Escalates
     \/ try.ok /\ ~checks.infra /\ try.candidate = {} /\ LastTier /\ NeedsHuman("empty")
     \/ /\ try.ok /\ ~checks.infra /\ try.candidate # {}
        /\ step' = "quality"
        /\ UNCHANGED <<plan, box, try, checks, result>>

\* git reset HEAD && git checkout -- . && git clean -fd, and a fresh agent state.
NextTier ==
  /\ step = "next_tier"
  /\ \/ Throws
     \/ /\ Alive
        /\ box' = [box EXCEPT !.tree = {}, !.index = {}]
        /\ try' = [try EXCEPT !.tier = @ + 1, !.attempt = 0, !.ok = FALSE, !.candidate = {},
                              !.declared = "none"]
        /\ checks' = NoChecks(checks.infra)
        /\ step' = "agent"
        /\ UNCHANGED <<plan, result>>

\* judgeDiff scores the diff alone.
Confirmed == BOOLEAN

\* A judge that fails has not confirmed anything.
QualityGate ==
  /\ step = "quality"
  /\ \E q \in Confirmed :
       /\ checks' = [checks EXCEPT !.quality = q]
       /\ step' = IF ~q /\ ~LastTier THEN "next_tier" ELSE "red"
  /\ UNCHANGED <<plan, box, try, result>>
-----------------------------------------------------------------------------
\* runDeclaredTest: the one test must be in the report, and fail as an assertion does.
Observed(r, wanted) == IF plan.tests = "suite" /\ r.seen = wanted THEN {"yes", "no"} ELSE {"no"}

\* No declaration, or one that validateDeclaration refuses once HEAD was read.
NoContract == try.declared # "test" \/ Alive

(* runFailFirst: the candidate is committed, the declared test runs on the    *)
(* base commit with only its own files laid over it, then on the candidate.   *)
FailFirstRed ==
  /\ step = "red"
  /\ \/ try.declared = "test" /\ Throws
     \/ /\ NoContract
        /\ step' = "precision"
        /\ UNCHANGED <<plan, box, try, checks, result>>
     \/ /\ try.declared = "test" /\ Alive
        /\ \E r \in SuiteResults({TestFile}) : \E s \in Observed(r, "dirty") :
             /\ checks' = [checks EXCEPT !.red = [seen |-> s, of |-> r.of]]
             /\ box' = [box EXCEPT !.report = r.left]
        /\ step' = "green"
        /\ UNCHANGED <<plan, try, result>>

FailFirstGreen ==
  /\ step = "green"
  /\ \/ Throws
     \/ /\ Alive
        /\ \E r \in SuiteResults(box.tree) : \E s \in Observed(r, "clean") :
             /\ checks' = [checks EXCEPT !.green = [seen |-> s, of |-> r.of]]
             /\ box' = [box EXCEPT !.report = r.left]
        /\ step' = "restore"
        /\ UNCHANGED <<plan, try, result>>

\* The finally: back to the candidate, or no claim at all.
FailFirstRestore ==
  /\ step = "restore"
  /\ \/ Throws
     \/ Alive /\ Raise
     \/ /\ Alive
        /\ step' = "precision"
        /\ UNCHANGED <<plan, box, try, checks, result>>
-----------------------------------------------------------------------------
(* deriveTierRecord and the precision gate.                                    *)
CleanSuite == checks.suite.seen = "clean"
Reproduced ==
  /\ try.declared = "test" /\ checks.red.seen = "yes" /\ checks.green.seen = "yes"
  /\ CleanSuite /\ plan.tests = "suite"
Checked ==
  try.declared = "impossible" /\ CleanSuite /\ checks.build.seen = "passed" /\ checks.quality
Verified == Reproduced /\ checks.build.seen = "passed" /\ checks.quality

\* judgeFixAttempt fails closed: no verdict is not an approval.
Verdicts == {"approved", "vetoed", "no_verdict"}

\* Who is asked to judge, and what the verdict changes.  A probe on a machine that is
\* gone ends the judge without a verdict, which for an automated run is a rejection.
PrecisionGate ==
  /\ step = "precision"
  /\ \E verdict \in IF plan.by = "human" \/ Verified \/ Checked THEN Verdicts
                    ELSE {"unasked"} :
     \E probed \in {FALSE} \cup {verdict = "no_verdict" /\ Gone} :
       LET b == [box EXCEPT !.latched = @ \/ probed] IN
       \/ /\ plan.by = "policy" /\ verdict \in {"vetoed", "no_verdict"}
          /\ Finish("needs_human", "judge", FALSE, b)
       \/ /\ plan.by = "human" \/ verdict \in {"approved", "unasked"}
          /\ IF Verified THEN Finish("fix_ready", "none", FALSE, b)
             ELSE Finish("needs_human", "low", Checked, b)

\* Any command or model call may fail for a reason of its own; the catch reports a
\* harness error unless the latch says the machine is lost.
HarnessFails ==
  /\ step \notin {"authorise", "setup", "done"}
  /\ \/ box.latched /\ Raise
     \/ ~box.latched /\ NeedsHuman("runtime")

\* Mutant: the machine is created without a lifetime of its own.
MachineStays ==
  /\ Alive /\ step # "done"
  /\ box' = [box EXCEPT !.machine = "gone"]
  /\ UNCHANGED <<step, plan, try, checks, result>>

\* The provider: the machine is evicted, or reaches the lifetime it was created with.
MachineGoes ==
  /\ Alive
  /\ box' = [box EXCEPT !.machine = "gone"]
  /\ UNCHANGED <<step, plan, try, checks, result>>

RunSteps ==
  \/ Refused \/ Authorised \/ SetUp \/ SetUpFails \/ Baseline \/ CleanBaseline \/ Preload \/ EntersCascade
  \/ AgentRuns \/ AfterAgent \/ SuiteGate \/ BuildGate \/ Retry \/ TierOver \/ NextTier
  \/ QualityGate \/ FailFirstRed \/ FailFirstGreen \/ FailFirstRestore \/ PrecisionGate
  \/ HarnessFails

FixRunDone == step = "done" /\ UNCHANGED fixRunVars

FixRunNext == RunSteps \/ MachineGoes \/ FixRunDone

\* The worker carries its run on, and the provider enforces the machine's lifetime.
FixRunFairness == WF_fixRunVars(RunSteps) /\ WF_fixRunVars(MachineGoes)

FixRunSpec == FixRunInit /\ [][FixRunNext]_fixRunVars /\ FixRunFairness
-----------------------------------------------------------------------------
Claims == result.status = "fix_ready" \/ result.draft

\* What the run claims of its diff was observed, and on that very diff: the suite's
\* clean report was written by a run on the candidate, the build passed on it, quality
\* was confirmed and no infrastructure error was passed over; a ready fix also saw the
\* test its own agent declared fail on the bare base and pass on the candidate.  What
\* the gates wrote is never part of the diff (agent-fix.ts 645-1600, test-runner.ts).
ReadyIsProven ==
  Claims =>
    /\ checks.suite = [seen |-> "clean", of |-> try.candidate]
    /\ checks.build.seen = "passed" /\ checks.build.of \ {Junk} = try.candidate
    /\ checks.quality /\ ~checks.infra /\ try.candidate # {} /\ Junk \notin try.candidate
    /\ try.by = ThisEdit
    /\ result.status = "fix_ready" =>
         /\ try.declared = "test"
         /\ checks.red = [seen |-> "yes", of |-> {TestFile}]
         /\ checks.green.seen = "yes" /\ checks.green.of \ {Junk} = try.candidate

\* "No agent verdict is trustworthy once the machine is gone": a loop that ended on a
\* lost machine never becomes a verdict about the fix (agent-fix.ts, raiseSandboxGone).
DeadMachineNoVerdict == try.tainted => result.status \in {"none", "infra"}

\* The diff a run hands on holds the edits of one tier only: what a weaker model left
\* behind is gone when a stronger one starts (the reset at the top of the tier loop).
DiffIsOneTiers == step \notin {"tier_over", "next_tier"} => \A e \in try.candidate : e[1] = try.tier

\* At most two tiers of two attempts of real model calls are paid for (agent-fix.ts,
\* the comment at the pre-agent-loop check).
AgentBudget == try.runs <= Runs

\* A run that has begun ends, and the machine it was given does not outlive it for ever:
\* the finally kills it, or the provider's lifetime does.
EventuallyReleased == <>[](step \in {"authorise", "done"} /\ ~Alive)

(* What a fix run claims was observed, on the very diff it hands on, by a    *)
(* machine that was there, within its budget.                                *)
FixRunHonest ==
  /\ FixRunTypeOK
  /\ ReadyIsProven
  /\ DeadMachineNoVerdict
  /\ DiffIsOneTiers
  /\ AgentBudget
=============================================================================
