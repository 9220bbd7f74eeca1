---------------------------- MODULE ProductContext ----------------------------
(***************************************************************************)
(* What a project's repository does: the route map (product-context/job.ts *)
(* and the queries around it).  Connecting a repository and every push to  *)
(* its default branch queue a refresh; the sweeper queues one of its own    *)
(* kind for routes that sessions revealed.  A refresh clones the head, asks *)
(* the model and writes its claims under its job's lease.                   *)
(*                                                                          *)
(* A route stands for its row of route_map and for the file the row cites;  *)
(* a commit is its number in its repository.  The leases are those of       *)
(* JobQueue, reduced to one job row per kind; a retry's back-off is left    *)
(* out, and so is a push webhook that is lost.  No code of the repository   *)
(* writes rows with source 'human'.                                         *)
(***************************************************************************)
EXTENDS Naturals, FiniteSets

CONSTANTS
  Repositories, CtxRoutes, CtxWorkers, NoRepo,
  MaxPushes,      \* bound: pushes, to all repositories
  MaxSwitches,    \* bound: repository changes
  MaxCtxClaims,   \* bound: claims of one kind's jobs
  MaxCtxAttempts  \* max_attempts

ASSUME ContextConstants ==
  /\ NoRepo \notin Repositories \union CtxWorkers /\ IsFiniteSet(Repositories)
  /\ {MaxPushes, MaxSwitches, MaxCtxClaims} \subseteq Nat /\ MaxCtxAttempts \in Nat \ {0}

VARIABLES
  linked,     \* projects.github_repo
  switches,
  head,       \* each repository's default branch
  changedAt,  \* the commit that last changed a route's file
  pushes,     \* push webhooks on their way
  receipts,   \* product_context_push_receipts
  ctxJobs,    \* the active or last job of each kind
  ctxRun,     \* what each worker is doing
  routeMap,   \* route_map
  tainted     \* routes about which nothing is promised, see the actions that set it

contextVars == <<linked, switches, head, changedAt, pushes, receipts, ctxJobs, ctxRun, routeMap, tainted>>

ContextKinds == {"product_context", "route_map"}
Commits == 0..MaxPushes
Webhooks == [repo : Repositories, id : 1..MaxPushes, changed : SUBSET CtxRoutes]
NoRun == [kind |-> NoRepo]

ContextTypeOK ==
  /\ linked \in Repositories \union {NoRepo} /\ switches \in 0..MaxSwitches
  /\ head \in [Repositories -> Commits] /\ changedAt \in [Repositories -> [CtxRoutes -> Commits]]
  /\ pushes \subseteq Webhooks /\ receipts \subseteq Repositories \X (1..MaxPushes)
  /\ ctxJobs \in [ContextKinds -> [status : {"none", "pending", "claimed", "completed", "dead"},
                            gen : 0..MaxCtxClaims, owner : CtxWorkers \union {NoRepo},
                            attempts : 0..MaxCtxAttempts, changed : SUBSET CtxRoutes]]
  /\ \A k \in ContextKinds : (ctxJobs[k].status = "claimed") <=> (ctxJobs[k].owner # NoRepo)
  /\ ctxRun \in [CtxWorkers -> {NoRun}
       \union [kind : ContextKinds, gen : 1..MaxCtxClaims, at : {"prepare", "settle"}]
       \union [kind : ContextKinds, gen : 1..MaxCtxClaims, at : {"ask"},
               repo : Repositories, commit : Commits, routes : SUBSET CtxRoutes]]
  /\ routeMap \in [CtxRoutes -> {NoRepo} \union [repo : Repositories, commit : Commits]]
  /\ tainted \subseteq CtxRoutes

ContextInit ==
  /\ linked = NoRepo /\ switches = 0
  /\ head = [r \in Repositories |-> 0] /\ changedAt = [r \in Repositories |-> [p \in CtxRoutes |-> 0]]
  /\ pushes = {} /\ receipts = {}
  /\ ctxJobs = [k \in ContextKinds |-> [status |-> "none", gen |-> 0, owner |-> NoRepo,
                                 attempts |-> 0, changed |-> {}]]
  /\ ctxRun = [w \in CtxWorkers |-> NoRun]
  /\ routeMap = [p \in CtxRoutes |-> NoRepo] /\ tainted = {}

-----------------------------------------------------------------------------
ContextActive(k) == ctxJobs[k].status \in {"pending", "claimed"}

\* A job row as the INSERT makes it, or as the conflict arm resets it.
FreshJob(k, changed) ==
  [ctxJobs[k] EXCEPT !.status = "pending", !.owner = NoRepo,
                     !.attempts = 0, !.changed = changed]

\* The conflict arm: a newer trigger supersedes the active refresh, whose paths
\* are lost, so that every stale claim is asked for.  (Mutant: DO NOTHING.)
RefreshOnce(changed) ==
  IF ContextActive("product_context") THEN ctxJobs
  ELSE [ctxJobs EXCEPT !["product_context"] = FreshJob("product_context", changed)]
Refreshed(changed) ==
  [ctxJobs EXCEPT !["product_context"] =
     FreshJob("product_context", IF ContextActive("product_context") THEN CtxRoutes ELSE changed)]

Switch(r) ==
  /\ r # linked => switches < MaxSwitches
  /\ switches' = IF r = linked THEN switches ELSE switches + 1
  /\ linked' = r

\* SetProjectGitHubConfig: gaining or switching a repository queues a refresh.
SetProjectGitHubConfig(r) ==
  /\ Switch(r)
  /\ ctxJobs' = IF r = linked THEN ctxJobs ELSE Refreshed(CtxRoutes)
  /\ UNCHANGED <<head, changedAt, pushes, receipts, ctxRun, routeMap, tainted>>

ClearProjectGitHubConfig ==
  /\ Switch(NoRepo)
  /\ UNCHANGED <<head, changedAt, pushes, receipts, ctxJobs, ctxRun, routeMap, tainted>>

\* The pushes so far, to all repositories.
PushesSoFar == {c \in Repositories \X (1..MaxPushes) : c[2] <= head[c[1]]}

\* A push to the default branch, and its webhook.  GitHub lists the changed paths
\* unless there are too many; no list and every path are the same to the job.
PushToDefault(r, files, listed) ==
  /\ Cardinality(PushesSoFar) < MaxPushes /\ files # {}
  /\ head' = [head EXCEPT ![r] = @ + 1]
  /\ changedAt' = [changedAt EXCEPT ![r] = [p \in CtxRoutes |-> IF p \in files THEN head[r] + 1 ELSE @[p]]]
  /\ pushes' = pushes \union
       {[repo |-> r, id |-> head[r] + 1, changed |-> IF listed THEN files ELSE CtxRoutes]}
  /\ UNCHANGED <<linked, switches, receipts, ctxJobs, ctxRun, routeMap, tainted>>

\* handlePushWebhook, EnqueueProductContextPush: for a project connected to the
\* repository, once per delivery; GitHub may deliver it again.
HandlePush(w, again) ==
  /\ w \in pushes
  /\ pushes' = IF again THEN pushes ELSE pushes \ {w}
  /\ IF linked = w.repo /\ <<w.repo, w.id>> \notin receipts
       THEN /\ receipts' = receipts \union {<<w.repo, w.id>>}
            /\ ctxJobs' = Refreshed(w.changed)
       ELSE UNCHANGED <<receipts, ctxJobs>>
  /\ UNCHANGED <<linked, switches, head, changedAt, ctxRun, routeMap, tainted>>

\* enqueueRouteMapJobsSQL: a connected project with an observed route that has no
\* row, once in 24 hours, which here is once.
EnqueueRouteMapJob ==
  /\ linked # NoRepo /\ \E p \in CtxRoutes : routeMap[p] = NoRepo
  /\ ctxJobs["route_map"].status = "none"
  /\ ctxJobs' = [ctxJobs EXCEPT !["route_map"] = FreshJob("route_map", CtxRoutes)]
  /\ UNCHANGED <<linked, switches, head, changedAt, pushes, receipts, ctxRun, routeMap, tainted>>

-----------------------------------------------------------------------------
\* claimJob.
ClaimsContext(w, k) ==
  /\ ctxRun[w] = NoRun
  /\ ctxJobs[k].status = "pending" /\ ctxJobs[k].gen < MaxCtxClaims
  /\ ctxJobs' = [ctxJobs EXCEPT ![k] = [@ EXCEPT !.status = "claimed", !.gen = ctxJobs[k].gen + 1, !.owner = w]]
  /\ ctxRun' = [ctxRun EXCEPT ![w] = [kind |-> k, gen |-> ctxJobs[k].gen + 1, at |-> "prepare"]]
  /\ UNCHANGED <<linked, switches, head, changedAt, pushes, receipts, routeMap, tainted>>

\* What the guards of the job's writes ask of its row.
HoldsJob(w) ==
  LET j == ctxJobs[ctxRun[w].kind] IN
  j.status = "claimed" /\ j.owner = w /\ j.gen = ctxRun[w].gen

\* listProductContextPatterns: routes without a row, and rows of another commit
\* whose files are among the changed ones.
PatternsFor(commit, changed) ==
  {p \in CtxRoutes : routeMap[p] = NoRepo \/ (routeMap[p] # commit /\ p \in changed)}

\* prepareProductContext: the project's repository is cloned at its head.  The
\* payload is the one read by the claim, the row's own while the lease holds.
PrepareContext(w) ==
  /\ ctxRun[w] # NoRun /\ ctxRun[w].at = "prepare" /\ linked # NoRepo
  /\ LET commit == [repo |-> linked, commit |-> head[linked]] IN
     ctxRun' = [ctxRun EXCEPT ![w] =
       [kind |-> @.kind, gen |-> @.gen, at |-> "ask", repo |-> linked, commit |-> head[linked],
        routes |-> PatternsFor(commit, ctxJobs[@.kind].changed)]]
  /\ UNCHANGED <<linked, switches, head, changedAt, pushes, receipts, ctxJobs, routeMap, tainted>>

\* A refresh of the other kind is superseded by nothing, so nothing is promised
\* about what it writes; and a clone older than a route's file repairs nothing.
StillTainted(w, wrote) ==
  IF ctxRun[w].kind = "route_map" THEN tainted \union wrote
  ELSE tainted \ {p \in wrote : ctxRun[w].commit >= changedAt[ctxRun[w].repo][p]}

\* An answer that parses and whose citations are of files that were read: claims
\* about any routes.
Answers == SUBSET CtxRoutes

\* runProductContext: an asked route that the answer leaves out is unknown.
Wrote(w, found) == ctxRun[w].routes \union found

\* upsertProductContextClaims, of the listed routes and whatever else the model
\* found: only under the lease.
PersistClaims(w, found) ==
  /\ ctxRun[w] # NoRun /\ ctxRun[w].at = "ask"
  /\ IF HoldsJob(w)
       THEN LET wrote == Wrote(w, found) IN
            /\ routeMap' = [p \in CtxRoutes |-> IF p \in wrote
                  THEN [repo |-> ctxRun[w].repo, commit |-> ctxRun[w].commit] ELSE routeMap[p]]
            /\ tainted' = StillTainted(w, wrote)
            /\ ctxRun' = [ctxRun EXCEPT ![w] = [kind |-> @.kind, gen |-> @.gen, at |-> "settle"]]
       ELSE ctxRun' = [ctxRun EXCEPT ![w] = NoRun] /\ UNCHANGED <<routeMap, tainted>>
  /\ UNCHANGED <<linked, switches, head, changedAt, pushes, receipts, ctxJobs>>

\* The poller's completeJob, which asks for the lease too.
CompleteContext(w) ==
  /\ ctxRun[w] # NoRun /\ ctxRun[w].at = "settle"
  /\ ctxJobs' = IF HoldsJob(w) THEN [ctxJobs EXCEPT ![ctxRun[w].kind] =
                                    [@ EXCEPT !.status = "completed", !.owner = NoRepo]]
                ELSE ctxJobs
  /\ ctxRun' = [ctxRun EXCEPT ![w] = NoRun]
  /\ UNCHANGED <<linked, switches, head, changedAt, pushes, receipts, routeMap, tainted>>

\* A job that ends without its claims: again, or dead, and nothing is promised.
GivenUp(k, final) ==
  LET dead == final \/ ctxJobs[k].attempts + 1 >= MaxCtxAttempts IN
  /\ ctxJobs' = [ctxJobs EXCEPT ![k] = [@ EXCEPT !.status = IF dead THEN "dead" ELSE "pending",
                                                 !.attempts = ctxJobs[k].attempts + 1, !.owner = NoRepo]]
  /\ tainted' = IF dead THEN CtxRoutes ELSE tainted

\* No repository, no clone, no usable answer, which the next attempt may mend or
\* not: failJob, under the lease.
FailContext(w, final) ==
  /\ ctxRun[w] # NoRun /\ ctxRun[w].at \in {"prepare", "ask"}
  /\ IF HoldsJob(w) THEN GivenUp(ctxRun[w].kind, final) ELSE UNCHANGED <<ctxJobs, tainted>>
  /\ ctxRun' = [ctxRun EXCEPT ![w] = NoRun]
  /\ UNCHANGED <<linked, switches, head, changedAt, pushes, receipts, routeMap>>

\* The lease lapses and the reaper takes the job back; its worker may still run.
LeaseLapses(k) ==
  /\ ctxJobs[k].status = "claimed"
  /\ GivenUp(k, FALSE)
  /\ UNCHANGED <<linked, switches, head, changedAt, pushes, receipts, ctxRun, routeMap>>

ContextNext ==
  \/ \E r \in Repositories : SetProjectGitHubConfig(r)
  \/ ClearProjectGitHubConfig
  \/ \E r \in Repositories, files \in SUBSET CtxRoutes, listed \in BOOLEAN : PushToDefault(r, files, listed)
  \/ \E w \in pushes, again \in BOOLEAN : HandlePush(w, again)
  \/ EnqueueRouteMapJob
  \/ \E w \in CtxWorkers, k \in ContextKinds : ClaimsContext(w, k)
  \/ \E w \in CtxWorkers : PrepareContext(w) \/ CompleteContext(w)
  \/ \E w \in CtxWorkers, found \in Answers : PersistClaims(w, found)
  \/ \E w \in CtxWorkers, final \in BOOLEAN : FailContext(w, final)
  \/ \E k \in ContextKinds : LeaseLapses(k)

ContextSpec == ContextInit /\ [][ContextNext]_contextVars

-----------------------------------------------------------------------------
\* Once no refresh is queued or running and every push webhook was handled, each
\* row of the route map describes the connected repository, as of a commit no
\* older than the last change of the file it cites: whatever was pushed, switched
\* or retried while a refresh ran, and however late its worker wrote.
ContextFresh ==
  LET handled == \A w \in pushes : w.repo = linked => <<w.repo, w.id>> \in receipts IN
  linked # NoRepo /\ ~ContextActive("product_context") /\ handled
    => \A p \in CtxRoutes \ tainted :
         routeMap[p] # NoRepo => /\ routeMap[p].repo = linked
                               /\ routeMap[p].commit >= changedAt[linked][p]

(* The route map is well formed and fresh.                                   *)
ContextAgrees ==
  /\ ContextTypeOK
  /\ ContextFresh
=============================================================================
