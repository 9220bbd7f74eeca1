----------------------------- MODULE MCTickets -----------------------------
(* Two problems that look alike; recordings with one or two observations.   *)
(* The route map of a project that switches between two repositories.  The  *)
(* browser SDK's recording of a tab.  And the log of one run of an agent.   *)
(* They share no state: a behaviour is one of one of them, the others       *)
(* staying at their initial states.                                         *)
EXTENDS Tickets, ProductContext, SdkCapture, RunLog
CONSTANTS pa, pb, x1, x2, x3
MCSessionOf == [x \in Signals |-> IF x = x1 THEN 1 ELSE 2]
MCUserOf == [s \in 1..MaxTime |-> s]
MCFirst == [x \in Signals |-> IF x = x1 THEN pa ELSE None]
MCNear == {<<pa, pb>>, <<pb, pa>>}

\* Bound: once a recording's answer was unavailable, the observation x3 is of no
\* problem, so that retries are not multiplied with a second match of its recording.
Bounded ==
    (\E t \in Problems, s \in Sessions : retry[t][s].tries > 0)
    => decision[x3] \in {None, "not_a_problem"}

VARIABLE part

TicketPart == part = "tickets" /\ Next /\ UNCHANGED <<part, contextVars, sdkVars, runLogVars>>
MapPart == part = "map" /\ ContextNext /\ UNCHANGED <<part, vars, sdkVars, runLogVars>>
SdkPart == part = "capture" /\ SdkNext /\ UNCHANGED <<part, vars, contextVars, runLogVars>>
LogPart == part = "log" /\ RunLogNext /\ UNCHANGED <<part, vars, contextVars, sdkVars>>

PartInit ==
  /\ Init /\ ContextInit /\ SdkInit /\ RunLogInit
  /\ part \in {"tickets", "map", "capture", "log"}
  /\ part # "log" => gateway = "sdk"

PartSpec ==
  PartInit /\ [][TicketPart \/ MapPart \/ SdkPart \/ LogPart]_
                <<part, vars, contextVars, sdkVars, runLogVars>>

\* CaptureIntact and RunLogAgrees: what is kept of a tab's recording, and of an agent's run,
\* is what happened in it.
RecordsIntact == CaptureIntact /\ RunLogAgrees
=============================================================================
