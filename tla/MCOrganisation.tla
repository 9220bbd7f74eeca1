---------------------------- MODULE MCOrganisation ----------------------------
(* What the server does for one organisation besides its issues: the daily     *)
(* digest (two issues that compete for the one card of a day, two schedulers   *)
(* that meet once one loses its lock) and the setup session of its coding      *)
(* agent (two people of different organisations who may approve it, two polls  *)
(* in flight).  They share no state: a behaviour is one of one of them, the    *)
(* other staying at its initial state, so that the states to explore are the   *)
(* sum of theirs and not the product.                                          *)
EXTENDS Digest, SetupSession

CONSTANTS i1, i2, s1, s2, ua, ub, oa, ob

EachOwnOrg == [u \in {ua, ub} |-> IF u = ua THEN oa ELSE ob]

VARIABLE part

On(p) == part = p

DigestPart  == On("digest") /\ Next /\ UNCHANGED <<part, setupVars>>
SetupPart   == On("setup") /\ SetupNext /\ UNCHANGED <<part, vars>>

\* Fairness and SetupFairness, each for its own behaviours.
PartFairness ==
  /\ \A s \in Schedulers : SF_vars(On("digest") /\ Steps(s))
  /\ WF_vars(On("digest") /\ WriterStarts)
  /\ \A w \in {"owner", "zombie"} : WF_vars(On("digest") /\ WriterDoesWell(w))
  /\ SF_vars(On("digest") /\ NewDay)
  /\ WF_setupVars(On("setup") /\ Tick)
  /\ \A p \in Pollers : WF_setupVars(On("setup") /\ PollSteps(p))

PartInit ==
  /\ Init /\ SetupInit
  /\ part \in {"digest", "setup"}

PartSpec ==
  /\ PartInit
  /\ [][DigestPart \/ SetupPart]_<<part, vars, setupVars>>
  /\ PartFairness
=============================================================================
