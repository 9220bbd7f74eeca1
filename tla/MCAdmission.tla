---------------------------- MODULE MCAdmission ----------------------------
(* The rounds of an issue, for three users who meet its error, and one         *)
(* investigation.  They share no state: a behaviour is one of the rounds or    *)
(* one of the investigation, the other staying at its initial state, so that   *)
(* the states to explore are the sum of theirs and not the product.            *)
EXTENDS Admission, Investigation

CONSTANTS o1, o2, o3, src, ghost

MCRaw == [o \in Obs |-> "f1"]
MCUser == [o \in Obs |-> o]

(* A sound verdict on a cause in the code, and one outside it.                 *)
LocalVerdict ==
  [shape |-> "whole", cause |-> "local", strength |-> "enough", brief |-> "given",
   first |-> src, evidence |-> {src}, rival |-> Nil, ruledOut |-> Nil]
OutsideVerdict ==
  [LocalVerdict EXCEPT !.cause = "outside", !.brief = "none", !.first = Nil,
                       !.rival = src, !.ruledOut = src]

(* They and what may be wrong with one: each flaw of a verdict by itself.      *)
MCSubmissions ==
  {LocalVerdict, OutsideVerdict,
   [LocalVerdict EXCEPT !.shape = "empty"], [LocalVerdict EXCEPT !.strength = "insufficient"],
   [LocalVerdict EXCEPT !.brief = "none"], [LocalVerdict EXCEPT !.first = ghost],
   [LocalVerdict EXCEPT !.evidence = {src, ghost}], [OutsideVerdict EXCEPT !.ruledOut = ghost]}

VARIABLE part

In(p) == part = p

RoundsPart == In("rounds") /\ Next /\ UNCHANGED <<part, invVars>>
InvestigationPart == In("investigation") /\ InvNext /\ UNCHANGED <<part, vars>>

PartInit ==
  /\ Init /\ InvInit /\ part \in {"rounds", "investigation"}
  /\ In("rounds") => lane = "error"

\* The fairness of Admission's Spec, for the behaviours of the rounds.
PartSpec ==
  /\ PartInit
  /\ [][RoundsPart \/ InvestigationPart]_<<part, vars, invVars>>
  /\ WF_vars(In("rounds") /\ Dispatching)

(* EvidenceIsWeighed where there is a dispatcher: behind an investigation the  *)
(* rounds stand at their initial state.                                        *)
RoundsAreWeighed == In("rounds") => EvidenceIsWeighed
=============================================================================
