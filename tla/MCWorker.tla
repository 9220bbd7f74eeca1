------------------------------ MODULE MCWorker ------------------------------
(* Two parts of a worker: which row a claim takes, with two analysis rows or   *)
(* one against the interactive lane, and one run of the fix agent.  They share *)
(* no state: a behaviour is one of the order or one of the run, the other      *)
(* staying at its initial state, so that the states to explore are the sum of  *)
(* theirs and not the product.                                                 *)
EXTENDS ClaimOrder, FixRun

CONSTANTS a1, a2, f1

LaneTypes == [j \in {a1, a2, f1} |-> IF j = f1 THEN "fix" ELSE "session_analysis"]

VARIABLE part

On(p) == part = p

OrderPart == On("order") /\ Next /\ UNCHANGED <<part, fixRunVars>>
FixRunPart == On("run") /\ FixRunNext /\ UNCHANGED <<part, vars>>

\* Fairness and FixRunFairness, each for its own behaviours.
PartFairness ==
  /\ WF_vars(On("order") /\ \E j \in Rows : Claim(j))
  /\ \A j \in Rows : /\ WF_vars(On("order") /\ (Complete(j) \/ Fail(j)))
                     /\ WF_vars(On("order") /\ BecomesDue(j))
  /\ WF_fixRunVars(On("run") /\ RunSteps)
  /\ WF_fixRunVars(On("run") /\ MachineGoes)

PartInit ==
  /\ Init /\ FixRunInit /\ part \in {"order", "run"}

PartSpec ==
  /\ PartInit
  /\ [][OrderPart \/ FixRunPart]_<<part, vars, fixRunVars>>
  /\ PartFairness
=============================================================================
