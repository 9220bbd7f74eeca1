----------------------------- MODULE SetupSession -----------------------------
(***************************************************************************)
(* One setup session of a coding agent: AgentSetup creates it, the agent    *)
(* polls, a signed-in person approves or denies it, the agent fetches the   *)
(* project's keys, reports progress and completes the onboarding, and an    *)
(* hourly sweep expires, purges and deletes.  Handlers read the row without *)
(* a lock and use what they read later; only the approval locks it.         *)
(*                                                                          *)
(* Time is a clock that moves between any two steps.  The poll token always *)
(* matches.  How long a poll waits, and for what, only decides when it reads *)
(* the row for its answer, which here is any time.  Left out: rate limits,  *)
(* the GitHub and Slack routes, which pass the same gate, and rows of the   *)
(* retired status 'completed'.                                              *)
(***************************************************************************)
EXTENDS Naturals, FiniteSets

CONSTANTS
  Approvers,   \* signed-in people
  OrgOf,       \* their organisations
  OldOrg,      \* the one that has a project with events already
  Pollers,     \* the agent's polls, in flight at the same time
  SetupTTL, KeyWindow, Retention,
  MaxClock,    \* bound: the clock
  NetworkBack  \* bound: the time from which the network loses no answer

ASSUME SetupConstants ==
  /\ {SetupTTL, KeyWindow, Retention, MaxClock, NetworkBack} \subseteq Nat
  /\ MaxClock > 0
  /\ OldOrg \in {OrgOf[u] : u \in Approvers}
  /\ "nobody" \notin {OrgOf[u] : u \in Approvers}

VARIABLES
  clock,
  sess,        \* the row of agent_sessions
  approval,    \* the approval that holds its row lock
  polls,       \* each poll, with the row as it read it
  route,       \* a request on a route of the session
  seen,        \* the projects an event reached since the session began
  onboarded,   \* whether a session's completion marked the organisation
  told,        \* whether the agent has an answer after which it stops polling
  firstStamp,  \* when the keys were first stamped as delivered
  late,        \* whether anything was handed out or written at or after the expiry
  outside      \* whether a poll that began after the keys' window got them

agent == <<polls, told>>
history == <<firstStamp, late, outside>>
setupVars == <<clock, sess, approval, agent, route, seen, onboarded, history>>

Nobody == "nobody"
Approved == {"provisioned", "key_ok", "app_reporting"}
SessionStatuses == {"none", "pending", "failed", "expired", "deleted"} \union Approved
Routes == {"state", "progress", "complete"}
NoHandler == [at |-> "idle"]
Clock == 0..MaxClock
Expiries == 0..(MaxClock + SetupTTL)
Keys == {"none", "sealed"}
Orgs == {OrgOf[u] : u \in Approvers}

Session == [status : SessionStatuses, org : Orgs \union {Nobody}, project : {"none", "old", "new"},
            keys : Keys, claimed : Clock, expires : Expiries]

\* A poll that has read the row, and one that has decided on its answer.  The window
\* is over if the keys were stamped so long ago when the poll began.
Writing == [at : {"write"}, status : SessionStatuses, keys : Keys, claimed : Clock,
            expires : Expiries, window : {"open", "over"}]
Answering == [at : {"answer"}, keys : Keys, expires : Expiries, window : {"open", "over"}]

OnRoute == [at : {"refresh", "act", "answer"}, kind : Routes, expires : Expiries]

SetupTypeOK ==
  /\ clock \in 1..MaxClock
  /\ sess \in Session
  /\ sess.status \in Approved => sess.project # "none" /\ sess.org # Nobody
  /\ sess.project = "old" => sess.org = OldOrg
  /\ sess.keys = "sealed" => sess.status \in Approved
  /\ approval \in {NoHandler} \union [at : {"locked"}, by : Approvers, start : Clock]
  /\ approval # NoHandler => sess.status = "pending"
  /\ polls \in [Pollers -> {NoHandler} \union Writing \union Answering]
  /\ route \in {NoHandler} \union OnRoute
  /\ told \in BOOLEAN /\ onboarded \in BOOLEAN
  /\ seen \subseteq {"old", "new"}
  /\ firstStamp \in Clock /\ late \in BOOLEAN /\ outside \in BOOLEAN

SetupInit ==
  /\ clock = 1
  /\ sess = [status |-> "none", org |-> Nobody, project |-> "none", keys |-> "none",
             claimed |-> 0, expires |-> 0]
  /\ approval = NoHandler
  /\ polls = [p \in Pollers |-> NoHandler] /\ route = NoHandler /\ seen = {}
  /\ onboarded = FALSE /\ told = FALSE
  /\ firstStamp = 0 /\ late = FALSE /\ outside = FALSE

\* The clock starts with the session.
Tick ==
  /\ sess.status # "none" /\ clock < MaxClock /\ clock' = clock + 1
  /\ UNCHANGED <<sess, approval, agent, route, seen, onboarded, history>>

\* AgentSetup.
AgentSetup ==
  /\ sess.status = "none"
  /\ sess' = [sess EXCEPT !.status = "pending", !.expires = clock + SetupTTL]
  /\ UNCHANGED <<clock, approval, agent, route, seen, onboarded, history>>

-----------------------------------------------------------------------------
Exists == sess.status \notin {"none", "deleted"}

\* loadApproveSession, read without the lock.
MayDecide(u) == Exists /\ sess.org \in {Nobody, OrgOf[u]}

\* AgentApprove: the transaction begins, which fixes its now(), locks the row and
\* looks at it.  The wait for the lock is left out; a refused request changes nothing.
ApproveLocks(u) ==
  /\ MayDecide(u) /\ approval = NoHandler
  /\ clock <= sess.expires /\ sess.status = "pending"
  /\ approval' = [at |-> "locked", by |-> u, start |-> clock]
  /\ UNCHANGED <<clock, sess, agent, route, seen, onboarded, history>>

\* A new project or one of the organisation's, the keys, the UPDATE and the commit;
\* the window starts again.
ApproveCommits(project) ==
  /\ approval # NoHandler /\ (project = "old" => OrgOf[approval.by] = OldOrg)
  /\ sess' = IF sess.status = "pending" /\ sess.expires > approval.start
               THEN LET again == approval.start + SetupTTL IN
                    [sess EXCEPT !.status = "provisioned", !.org = OrgOf[approval.by],
                                 !.project = project, !.keys = "sealed",
                                 !.expires = IF again > @ THEN again ELSE @]
               ELSE sess
  /\ approval' = NoHandler
  /\ UNCHANGED <<clock, agent, route, seen, onboarded, history>>

\* The project is another organisation's, a key cannot be made, or the process dies.
ApproveRollsBack ==
  /\ approval # NoHandler /\ approval' = NoHandler
  /\ UNCHANGED <<clock, sess, agent, route, seen, onboarded, history>>

\* MarkAgentSessionFailed asks that the session is pending.
MarkAgentSessionFailed(s) == IF s.status = "pending" THEN [s EXCEPT !.status = "failed"] ELSE s

\* AgentDeny, which the row lock holds back.
AgentDeny(u) ==
  /\ MayDecide(u) /\ approval = NoHandler
  /\ sess' = MarkAgentSessionFailed(sess)
  /\ UNCHANGED <<clock, approval, agent, route, seen, onboarded, history>>

-----------------------------------------------------------------------------
\* HasEventsSince the session began.
HasEventsSince(project) == project \in seen

\* AgentPoll, in the turn of its loop that answers; the agent polls until it is told.
PollReads(p) ==
  /\ polls[p] = NoHandler /\ sess.status # "none" /\ ~told
  /\ polls' = [polls EXCEPT ![p] = [at |-> "write", status |-> sess.status,
       keys |-> sess.keys, claimed |-> sess.claimed, expires |-> sess.expires,
       window |-> IF firstStamp # 0 /\ clock > firstStamp + KeyWindow THEN "over" ELSE "open"]]
  /\ UNCHANGED <<clock, sess, approval, told, route, seen, onboarded, history>>

\* An answer, which the network may lose: a final one ends the agent's polling.
Answer(p, final, lose) ==
  /\ polls' = [polls EXCEPT ![p] = NoHandler]
  /\ lose => clock < NetworkBack
  /\ told' = (told \/ (final /\ ~lose))

\* writeAgentPollResponse for a session that is not approved any more, or not yet.
\* (Mutant: only the sweep's word counts, so that one nobody swept stays pending.)
PollTrustsSweep(p, lose) ==
  /\ polls[p].at = "write" /\ (polls[p].status \notin Approved \/ clock > polls[p].expires)
  /\ Answer(p, polls[p].status # "pending", lose)
  /\ UNCHANGED <<clock, sess, approval, route, seen, onboarded, history>>
PollRefuses(p, lose) ==
  LET expired == clock > polls[p].expires IN
  /\ polls[p].at = "write" /\ (polls[p].status \notin Approved \/ expired)
  /\ Answer(p, polls[p].status # "pending" \/ expired, lose)
  /\ UNCHANGED <<clock, sess, approval, route, seen, onboarded, history>>

\* MarkAgentKeyDelivered.  (Mutant: a retry moves the stamp.)
DeliveredAgain(s) ==
  IF s.status \notin Approved THEN s
  ELSE [s EXCEPT !.claimed = clock, !.status = IF @ = "provisioned" THEN "key_ok" ELSE @]
MarkAgentKeyDelivered(s) ==
  IF s.status \notin Approved THEN s
  ELSE [s EXCEPT !.claimed = IF @ = 0 THEN clock ELSE @,
                 !.status = IF @ = "provisioned" THEN "key_ok" ELSE @]

\* writeAgentPollResponse for an approved one: the keys, unless their window as the
\* poll read it has closed; a stamp that fails is only logged.
PollDelivers(p, stamps) ==
  LET r == polls[p]
      open == r.keys = "sealed" /\ (r.claimed # 0 => clock - r.claimed <= KeyWindow) IN
  /\ r.at = "write" /\ r.status \in Approved /\ clock <= r.expires
  /\ polls' = [polls EXCEPT ![p] = [at |-> "answer", keys |-> IF open THEN "sealed" ELSE "none",
                                    expires |-> r.expires, window |-> r.window]]
  /\ IF open /\ stamps
       THEN /\ approval = NoHandler
            /\ sess' = MarkAgentKeyDelivered(sess)
            /\ firstStamp' = IF firstStamp = 0 THEN clock ELSE firstStamp
       ELSE UNCHANGED <<sess, firstStamp>>
  /\ UNCHANGED <<clock, approval, told, route, seen, onboarded, late, outside>>

\* The last look at the clock before an answer leaves.
InTime(expires) == clock < expires

\* Something leaves, or is written, for the session.
Releases == late' = (late \/ clock >= sess.expires)

PollAnswers(p, lose) ==
  LET r == polls[p] IN
  /\ r.at = "answer"
  /\ Answer(p, TRUE, lose)
  /\ IF InTime(r.expires) THEN Releases /\ outside' = (outside \/ (r.keys = "sealed" /\ r.window = "over"))
     ELSE UNCHANGED <<late, outside>>
  /\ UNCHANGED <<clock, sess, approval, route, seen, onboarded, firstStamp>>

-----------------------------------------------------------------------------
\* loadAgentSessionForToken.
Gate == sess.status \in Approved /\ clock <= sess.expires

\* AgentSessionAuth: the deadline of everything the request does is the expiry read
\* here.  The agent uses these routes once a poll told it of the approval.
RouteGate(kind) ==
  /\ route = NoHandler /\ told /\ Gate
  /\ route' = [at |-> IF kind = "state" THEN "act" ELSE "refresh", kind |-> kind, expires |-> sess.expires]
  /\ UNCHANGED <<clock, sess, approval, agent, seen, onboarded, history>>

\* refreshAgentSession, once the body is read.
RouteRefresh ==
  /\ route.at = "refresh"
  /\ route' = IF clock < route.expires /\ Gate
                THEN [at |-> "act", kind |-> route.kind, expires |-> sess.expires] ELSE NoHandler
  /\ UNCHANGED <<clock, sess, approval, agent, seen, onboarded, history>>

\* What a route does, in a context that ends at the expiry: read the facts, write a
\* step, or mark the organisation once an event proves the session.
RouteActs ==
  /\ route.at = "act" /\ clock < route.expires
  /\ LET completes == route.kind = "complete" /\ HasEventsSince(sess.project) IN
     /\ onboarded' = (onboarded \/ completes)
     /\ IF completes \/ route.kind = "progress" THEN Releases ELSE UNCHANGED late
  /\ route' = [route EXCEPT !.at = "answer"]
  /\ UNCHANGED <<clock, sess, approval, agent, seen, firstStamp, outside>>

\* The middleware lets the buffered answer go, or reports the session as expired.
RouteAnswers ==
  /\ route.at = "answer" \/ (route.at = "act" /\ clock >= route.expires)
  /\ IF route.at = "answer" /\ InTime(route.expires) THEN Releases ELSE UNCHANGED late
  /\ route' = NoHandler
  /\ UNCHANGED <<clock, sess, approval, agent, seen, onboarded, firstStamp, outside>>

-----------------------------------------------------------------------------
Expired(s) == IF s.status = "pending" /\ s.expires <= clock THEN [s EXCEPT !.status = "expired"] ELSE s
\* The three statements of ExpireAgentSessions.
Purged(s) ==
  IF \/ s.expires <= clock
     \/ s.status \in {"failed", "expired"}
     \/ s.claimed # 0 /\ s.claimed + KeyWindow <= clock
    THEN [s EXCEPT !.keys = "none"] ELSE s
Deleted(s) == IF s.expires + Retention <= clock THEN [s EXCEPT !.status = "deleted"] ELSE s

\* One pass, after the row lock.  Between its statements a row only goes the same way.
ExpireAgentSessions ==
  /\ approval = NoHandler /\ Exists
  /\ sess' = Deleted(Purged(Expired(sess)))
  /\ UNCHANGED <<clock, approval, agent, route, seen, onboarded, history>>

\* The SDK registers a session: MarkAgentSessionsAppReporting.
AppReports ==
  /\ approval = NoHandler /\ sess.status \in {"provisioned", "key_ok"}
  /\ sess' = [sess EXCEPT !.status = "app_reporting"]
  /\ UNCHANGED <<clock, approval, agent, route, seen, onboarded, history>>

\* An error of the project arrives.
EventArrives(project) ==
  /\ sess.status # "none" /\ project \notin seen
  /\ IF project = "new" THEN sess.project = "new" ELSE sess.project # "new"
  /\ seen' = seen \union {project}
  /\ UNCHANGED <<clock, sess, approval, agent, route, onboarded, history>>

PollSteps(p) ==
  \/ PollReads(p)
  \/ \E stamps \in BOOLEAN : PollDelivers(p, stamps)
  \/ \E lose \in BOOLEAN : PollRefuses(p, lose) \/ PollAnswers(p, lose)

SetupNext ==
  \/ Tick \/ AgentSetup
  \/ \E u \in Approvers : ApproveLocks(u) \/ AgentDeny(u)
  \/ ApproveRollsBack
  \/ \E project \in {"old", "new"} : ApproveCommits(project)
  \/ \E p \in Pollers : PollSteps(p)
  \/ \E kind \in Routes : RouteGate(kind)
  \/ RouteRefresh \/ RouteActs \/ RouteAnswers
  \/ ExpireAgentSessions \/ AppReports
  \/ \E project \in {"old", "new"} : EventArrives(project)

\* Time passes, the agent polls until it is told, and a handler runs to its end.
SetupFairness == WF_setupVars(Tick) /\ \A p \in Pollers : WF_setupVars(PollSteps(p))
SetupSpec == SetupInit /\ [][SetupNext]_setupVars /\ SetupFairness

-----------------------------------------------------------------------------
\* A decision stands: however approvals, denials, sweeps and polls overlap, nothing
\* follows a denial or an expiry but deletion, an approved session never goes back,
\* and the project and organisation of an approval never change.
DecisionStands ==
  [][ /\ sess.status \in {"failed", "expired"} => sess'.status \in {sess.status, "deleted"}
      /\ sess.status \in Approved => sess'.status \in Approved \union {"deleted"}
      /\ sess.status = "app_reporting" => sess'.status \notin {"provisioned", "key_ok"}
      /\ sess.project # "none" => sess'.project = sess.project /\ sess'.org = sess.org
    ]_setupVars

\* Nothing is handed out or written for a session at or after its expiry, however
\* long the handler took between reading the row and answering
\* ("nothing about an expired session is returned").
NothingAfterExpiry == ~late

\* Once the keys were stamped as delivered, a poll that reads the session after
\* their window gets none, although polls that overlap stamp the row in any order.
KeysStayInWindow == ~outside

\* An organisation is onboarded through a session only by an event that reached the
\* approved project since the session began, not by the project's history.
OnboardedIsProven == onboarded => sess.project \in seen

\* An agent that keeps polling is told in the end: the keys, that their window is
\* closed, that the person declined, or that the session is over.
AgentIsTold == sess.status = "pending" ~> told

(* What a setup session gives out, it gives out in time and to whom it may,  *)
(* however its handlers overlap.                                             *)
SetupKeepsWord ==
  /\ SetupTypeOK
  /\ NothingAfterExpiry
  /\ KeysStayInWindow
  /\ OnboardedIsProven
=============================================================================
