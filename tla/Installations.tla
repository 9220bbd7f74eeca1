----------------------------- MODULE Installations -----------------------------
(***************************************************************************)
(* GitHub App installations.  An administrator's browser comes back from     *)
(* GitHub to gitHubInstallCallback, perhaps twice, which reserves the login  *)
(* state, asks GitHub and persists the installation for the organisation     *)
(* the state names.  Webhooks keep the record up to date, and a settings     *)
(* request that finds the installation gone or suspended retires it.  The    *)
(* worker picks an installation by the record.                               *)
(*                                                                           *)
(* Each transaction is one step.  Organisations that predate the record, and *)
(* installations of "all repositories", whose list is asked for again, are   *)
(* left out, as are audit rows and cached default branches.                  *)
(***************************************************************************)
EXTENDS Naturals, FiniteSets, Sequences, SequencesExt

CONSTANTS
  Installs, InstallOrgs, InstallRepos, Callbacks, NoInstall,
  MaxGitHub,    \* bound: changes on GitHub's side
  MaxAsks       \* bound: reservations and settings requests

ASSUME InstallConstants ==
  /\ {MaxGitHub, MaxAsks} \subseteq Nat
  /\ NoInstall \notin Installs \union InstallOrgs \union Callbacks

VARIABLES
  github,      \* what GitHub says of each installation
  mail,        \* its webhooks on their way
  record,      \* github_app_installations
  pointer,     \* orgs.github_installation_id
  connected,   \* the repository of each organisation's project
  states,      \* oauth_login_states, one for each organisation
  callbacks,   \* the callbacks in flight
  asking,      \* the settings requests in flight
  moves, asks,
  disturbed    \* installations whose record may differ for good, see the actions

installVars == <<github, mail, record, pointer, connected, states, callbacks, asking,
                 moves, asks, disturbed>>
counters == <<moves, asks>>

NoRecord == [org |-> NoInstall, suspended |-> FALSE, repos |-> {}]
NoRequest == [at |-> "idle"]
GitHubStates == {"active", "suspended", "gone"}
InstallEvents == [event : {"suspend", "unsuspend", "deleted"}]
                   \union [event : {"added", "removed"}, repo : InstallRepos]

InstallTypeOK ==
  /\ github \in [Installs -> [state : GitHubStates, repos : SUBSET InstallRepos]]
  /\ \A i \in Installs : \A k \in DOMAIN mail[i] : mail[i][k] \in InstallEvents
  /\ record \in [Installs -> [org : InstallOrgs \union {NoInstall}, suspended : BOOLEAN,
                              repos : SUBSET InstallRepos]]
  /\ pointer \in [InstallOrgs -> Installs \union {NoInstall}]
  /\ connected \in [InstallOrgs -> InstallRepos \union {NoInstall}]
  /\ states \in [InstallOrgs -> [holder : Callbacks \union {NoInstall}, live : BOOLEAN, used : BOOLEAN]]
  /\ \A o \in InstallOrgs : states[o].live => states[o].holder # NoInstall /\ ~states[o].used
  /\ \A c \in Callbacks : callbacks[c].at \in {"idle", "reserved", "listed"}
  /\ \A o \in InstallOrgs : asking[o].at \in {"idle", "ask", "retire"}
  /\ moves \in 0..MaxGitHub /\ asks \in 0..MaxAsks /\ disturbed \subseteq Installs

InstallInit ==
  /\ github = [i \in Installs |-> [state |-> "active", repos |-> InstallRepos]]
  /\ mail = [i \in Installs |-> <<>>]
  /\ record = [i \in Installs |-> NoRecord]
  /\ pointer = [o \in InstallOrgs |-> NoInstall]
  /\ connected = [o \in InstallOrgs |-> NoInstall]
  /\ states = [o \in InstallOrgs |-> [holder |-> NoInstall, live |-> FALSE, used |-> FALSE]]
  /\ callbacks = [c \in Callbacks |-> NoRequest] /\ asking = [o \in InstallOrgs |-> NoRequest]
  /\ moves = 0 /\ asks = 0 /\ disturbed = {}

-----------------------------------------------------------------------------
\* GitHub's side: an owner changes the installation, and a webhook tells.
GitHubChanges(i, became, event) ==
  /\ moves < MaxGitHub /\ moves' = moves + 1
  /\ github[i].state # "gone"
  /\ github' = [github EXCEPT ![i] = became]
  /\ mail' = [mail EXCEPT ![i] = Append(@, event)]
  /\ UNCHANGED <<record, pointer, connected, states, callbacks, asking, asks, disturbed>>

GitHubSuspends(i) ==
  /\ github[i].state = "active"
  /\ GitHubChanges(i, [github[i] EXCEPT !.state = "suspended"], [event |-> "suspend"])
GitHubUnsuspends(i) ==
  /\ github[i].state = "suspended"
  /\ GitHubChanges(i, [github[i] EXCEPT !.state = "active"], [event |-> "unsuspend"])
GitHubDeletes(i) ==
  GitHubChanges(i, [github[i] EXCEPT !.state = "gone"], [event |-> "deleted"])
GitHubRepos(i, r) ==
  IF r \in github[i].repos
    THEN GitHubChanges(i, [github[i] EXCEPT !.repos = @ \ {r}], [event |-> "removed", repo |-> r])
    ELSE GitHubChanges(i, [github[i] EXCEPT !.repos = @ \union {r}], [event |-> "added", repo |-> r])

-----------------------------------------------------------------------------
\* RetireGitHubInstallation, for one organisation or, from a webhook, for all.
InstallRetired(i, orgs) ==
  /\ record' = IF record[i].org \in orgs THEN [record EXCEPT ![i].suspended = TRUE] ELSE record
  /\ pointer' = [o \in InstallOrgs |-> IF o \in orgs /\ pointer[o] = i THEN NoInstall ELSE pointer[o]]

\* ReactivateGitHubInstallation never overwrites a pointer to another installation.
\* (Mutant: the record stays suspended where the organisation has moved on.)
ReactivatedIfPointed(i) ==
  LET o == record[i].org IN
  /\ pointer[o] = NoInstall /\ pointer' = [pointer EXCEPT ![o] = i]
  /\ record' = record
Reactivated(i) ==
  LET o == record[i].org IN
  /\ pointer' = IF pointer[o] = NoInstall THEN [pointer EXCEPT ![o] = i] ELSE pointer
  /\ record' = [record EXCEPT ![i].suspended = FALSE]

\* handleInstallationWebhook and handleInstallationRepositoriesWebhook: events of an
\* installation nobody mapped are ignored.
Applies(i, m) ==
  IF record[i] = NoRecord THEN UNCHANGED <<record, pointer>>
  ELSE \/ m.event \in {"deleted", "suspend"} /\ InstallRetired(i, InstallOrgs)
       \/ m.event = "unsuspend" /\ Reactivated(i)
       \/ /\ m.event = "added" /\ UNCHANGED pointer
          /\ record' = [record EXCEPT ![i].repos = @ \union {m.repo}]
       \/ /\ m.event = "removed" /\ UNCHANGED pointer
          /\ record' = [record EXCEPT ![i].repos = @ \ {m.repo}]

Webhook(i) ==
  /\ mail[i] # <<>>
  /\ mail' = [mail EXCEPT ![i] = Tail(@)]
  /\ Applies(i, Head(mail[i]))
  /\ UNCHANGED <<github, connected, states, callbacks, asking, counters, disturbed>>

\* GitHub promises no order: a later event may come first, after which nothing is
\* promised of the record.
WebhookEarly(i, k) ==
  /\ k \in 2..Len(mail[i])
  /\ mail' = [mail EXCEPT ![i] = RemoveAt(@, k)]
  /\ Applies(i, mail[i][k])
  /\ disturbed' = disturbed \union {i}
  /\ UNCHANGED <<github, connected, states, callbacks, asking, counters>>

WebhookLost(i) ==
  /\ mail[i] # <<>> /\ mail' = [mail EXCEPT ![i] = Tail(@)]
  /\ disturbed' = disturbed \union {i}
  /\ UNCHANGED <<github, record, pointer, connected, states, callbacks, asking, counters>>

-----------------------------------------------------------------------------
\* ReserveOAuthLoginState: the state is unused, and free or its lease is over.
Reserve(c, o, i) ==
  /\ asks < MaxAsks /\ asks' = asks + 1
  /\ callbacks[c] = NoRequest /\ ~states[o].used /\ ~states[o].live
  /\ states' = [states EXCEPT ![o] = [holder |-> c, live |-> TRUE, used |-> FALSE]]
  /\ callbacks' = [callbacks EXCEPT ![c] = [at |-> "reserved", org |-> o, install |-> i]]
  /\ UNCHANGED <<github, mail, record, pointer, connected, asking, moves, disturbed>>

\* Two minutes pass.
LeaseEnds(o) ==
  /\ states[o].live /\ states' = [states EXCEPT ![o].live = FALSE]
  /\ UNCHANGED <<github, mail, record, pointer, connected, callbacks, asking, counters, disturbed>>

\* ReleaseOAuthLoginState, by its token.
Release(c) ==
  states' = IF states[callbacks[c].org].holder = c
              THEN [states EXCEPT ![callbacks[c].org] = [@ EXCEPT !.holder = NoInstall, !.live = FALSE]]
              ELSE states

\* The code, the user's installations, the installation itself, a token and the
\* repositories are asked of GitHub.
CallbackLists(c) ==
  LET i == callbacks[c].install IN
  /\ callbacks[c].at = "reserved" /\ github[i].state = "active"
  /\ callbacks' = [callbacks EXCEPT ![c] = [at |-> "listed", org |-> @.org, install |-> i,
                                            repos |-> github[i].repos]]
  /\ UNCHANGED <<github, mail, record, pointer, connected, states, asking, counters, disturbed>>

\* GitHub refuses or cannot be reached: the state is released, and an installation
\* that gives no token is retired for this organisation.
CallbackFails(c, noToken) ==
  LET i == callbacks[c].install IN
  /\ callbacks[c] # NoRequest
  /\ noToken => callbacks[c].at = "reserved" /\ github[i].state # "active"
  /\ Release(c) /\ callbacks' = [callbacks EXCEPT ![c] = NoRequest]
  /\ IF noToken THEN InstallRetired(i, {callbacks[c].org}) ELSE UNCHANGED <<record, pointer>>
  /\ UNCHANGED <<github, mail, connected, asking, counters, disturbed>>

\* The process dies, or the client goes away, and nothing is released.
CallbackDies(c) ==
  /\ callbacks[c] # NoRequest /\ callbacks' = [callbacks EXCEPT ![c] = NoRequest]
  /\ UNCHANGED <<github, mail, record, pointer, connected, states, asking, counters, disturbed>>

\* PersistInstallation refuses what is mapped to another organisation.
Mappable(i, o) ==
  /\ record[i].org \in {o, NoInstall}
  /\ record[i] = NoRecord => \A p \in InstallOrgs \ {o} : pointer[p] # i

\* FinalizeOAuthLoginState and PersistInstallation in one transaction.  What was
\* listed may be old by now.
CallbackPersists(c) ==
  LET o == callbacks[c].org  i == callbacks[c].install  s == states[callbacks[c].org] IN
  /\ callbacks[c].at = "listed"
  /\ IF s.holder = c /\ s.live /\ ~s.used /\ Mappable(i, o)
       THEN /\ states' = [states EXCEPT ![o] = [holder |-> NoInstall, live |-> FALSE, used |-> TRUE]]
            /\ record' = [record EXCEPT ![i] = [org |-> o, suspended |-> FALSE, repos |-> callbacks[c].repos]]
            /\ pointer' = [pointer EXCEPT ![o] = i]
            /\ disturbed' = IF github[i] = [state |-> "active", repos |-> callbacks[c].repos]
                              THEN disturbed ELSE disturbed \union {i}
       ELSE UNCHANGED <<states, record, pointer, disturbed>>
  /\ callbacks' = [callbacks EXCEPT ![c] = NoRequest]
  /\ UNCHANGED <<github, mail, connected, asking, counters>>

-----------------------------------------------------------------------------
\* attachGitHubRepo reads the organisation's pointer ...
AttachReads(o, r) ==
  /\ asks < MaxAsks /\ asks' = asks + 1
  /\ asking[o] = NoRequest /\ pointer[o] # NoInstall
  /\ asking' = [asking EXCEPT ![o] = [at |-> "ask", install |-> pointer[o], repo |-> r]]
  /\ UNCHANGED <<github, mail, record, pointer, connected, states, callbacks, moves, disturbed>>

\* ... asks GitHub, and stores the repository if the installation lists it ...
AttachAsks(o) ==
  /\ asking[o].at = "ask"
  /\ LET g == github[asking[o].install] IN
     IF g.state = "active"
       THEN /\ connected' = IF asking[o].repo \in g.repos
                              THEN [connected EXCEPT ![o] = asking[o].repo] ELSE connected
            /\ asking' = [asking EXCEPT ![o] = NoRequest]
       ELSE /\ asking' = [asking EXCEPT ![o] = [at |-> "retire", install |-> @.install]]
            /\ UNCHANGED connected
  /\ UNCHANGED <<github, mail, record, pointer, states, callbacks, counters, disturbed>>

\* ... or retires the installation, once the App's own credentials are confirmed,
\* although it may be back by now.
AttachRetires(o, confirmed) ==
  LET i == asking[o].install IN
  /\ asking[o].at = "retire" /\ asking' = [asking EXCEPT ![o] = NoRequest]
  /\ IF confirmed
       THEN /\ InstallRetired(i, {o})
            /\ disturbed' = IF github[i].state = "active" THEN disturbed \union {i} ELSE disturbed
       ELSE UNCHANGED <<record, pointer, disturbed>>
  /\ UNCHANGED <<github, mail, connected, states, callbacks, counters>>

\* getProjectGitHubInstallation: by the repository, else by the pointer.
Picks(o) ==
  LET covering == {i \in Installs : /\ record[i].org = o /\ ~record[i].suspended
                                    /\ connected[o] \in record[i].repos} IN
  IF covering # {} THEN covering ELSE {pointer[o]} \ {NoInstall}

InstallNext ==
  \/ \E i \in Installs : \/ GitHubSuspends(i) \/ GitHubUnsuspends(i) \/ GitHubDeletes(i)
                         \/ \E r \in InstallRepos : GitHubRepos(i, r)
                         \/ Webhook(i) \/ WebhookLost(i)
                         \/ \E k \in 2..MaxGitHub : WebhookEarly(i, k)
  \/ \E c \in Callbacks : \/ \E o \in InstallOrgs, i \in Installs : Reserve(c, o, i)
                          \/ CallbackLists(c) \/ CallbackDies(c) \/ CallbackPersists(c)
                          \/ \E noToken \in BOOLEAN : CallbackFails(c, noToken)
  \/ \E o \in InstallOrgs : \/ LeaseEnds(o) \/ AttachAsks(o)
                            \/ \E r \in InstallRepos : AttachReads(o, r)
                            \/ \E confirmed \in BOOLEAN : AttachRetires(o, confirmed)

InstallSpec == InstallInit /\ [][InstallNext]_installVars

-----------------------------------------------------------------------------
\* The worker never asks for a token of an installation that the record shows as
\* suspended or as another organisation's, whichever of the two ways picked it.
PickIsLive ==
  \A o \in InstallOrgs : \A i \in Picks(o) : record[i].org = o /\ ~record[i].suspended

\* A live reservation of a login state is ended only by a step of the callback that
\* made it: a callback whose own lease is over ends nobody else's.
LeaseKept ==
  [][\A o \in InstallOrgs :
       states[o].live /\ states'[o].holder # states[o].holder
         => callbacks'[states[o].holder] # callbacks[states[o].holder]]_installVars

\* Once GitHub's events were all delivered, in order, the record of an installation
\* says what GitHub says, however callbacks and settings requests came between,
\* unless one of them acted on an answer that was no longer true.
MirrorsGitHub ==
  \A i \in Installs \ disturbed :
    record[i] # NoRecord /\ mail[i] = <<>>
      => /\ record[i].suspended <=> github[i].state # "active"
         /\ record[i].repos = github[i].repos

(* The records agree with GitHub, and the worker picks from them only what is *)
(* live and its own.                                                         *)
InstallAgrees ==
  /\ InstallTypeOK
  /\ PickIsLive
  /\ MirrorsGitHub
=============================================================================
