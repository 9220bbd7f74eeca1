----------------------------- MODULE MCDeliveries -----------------------------
(* What comes in and goes out over an unreliable network: the event queues of  *)
(* the SDKs, the observations that become issues (one issue with an            *)
(* observation under k1, and two observations to come, under k1 and under k2,  *)
(* which may resolve to the same stack), GitHub's webhooks about an            *)
(* installation two organisations ask for, and the notification outbox (two    *)
(* dispatchers, so that one can be late while the other has claimed again, and *)
(* a destination people edit).  They share no state: a behaviour is one of one *)
(* of them, the others staying at their initial states, so that the states to  *)
(* explore are the sum of theirs and not the product.                          *)
EXTENDS Outbox, BrowserEvents, PythonEvents, Installations, Identity

CONSTANTS e1, d1, w1, w2, t1, t2, oa, ob, o1, o2, o3

OneTopic == [e \in {e1} |-> "issue.created"]

RawOf == [o \in {o1, o2, o3} |-> IF o = o2 THEN "k2" ELSE "k1"]
OneStack == [o \in {o1, o2, o3} |-> "r"]

VARIABLE part

On(p) == part = p

OutboxPart  == On("outbox") /\ Next
               /\ UNCHANGED <<part, browserVars, pythonVars, installVars, ids>>
BrowserPart == On("browser") /\ BrowserNext
               /\ UNCHANGED <<part, vars, pythonVars, installVars, ids>>
PythonPart  == On("python") /\ PythonNext
               /\ UNCHANGED <<part, vars, browserVars, installVars, ids>>
InstallPart == On("install") /\ InstallNext
               /\ UNCHANGED <<part, vars, browserVars, pythonVars, ids>>
SettlePart  == On("settle") /\ IdNext
               /\ UNCHANGED <<part, vars, browserVars, pythonVars, installVars>>

\* Fairness and IdFairness, each for its own behaviours.
PartFairness ==
  /\ \A w \in Dispatchers : WF_vars(On("outbox") /\ claim(w)) /\ WF_vars(On("outbox") /\ Finish(w))
  /\ \A k \in Deliveries : WF_vars(On("outbox") /\ reapExpired(k))
  /\ \A o \in Obs : WF_ids(On("settle") /\ Sweep(o)) /\ WF_ids(On("settle") /\ ResetAbandoned(o))
  /\ \A s \in Settlers : WF_ids(On("settle") /\ Settling(s))
  /\ \A i \in Issues : WF_ids(On("settle") /\ ResolveSilentMerged(i))

PartInit ==
  /\ Init /\ BrowserInit /\ PythonInit /\ InstallInit /\ IdInit
  /\ part \in {"outbox", "browser", "python", "install", "settle"}

PartSpec ==
  /\ PartInit
  /\ [][OutboxPart \/ BrowserPart \/ PythonPart \/ InstallPart \/ SettlePart]_
       <<part, vars, browserVars, pythonVars, installVars, ids>>
  /\ PartFairness

\* QueueIntact and SenderHonest: the bounded event queues of both SDKs.
QueuesIntact == QueueIntact /\ SenderHonest
=============================================================================
