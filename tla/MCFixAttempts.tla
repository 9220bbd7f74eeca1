--------------------------- MODULE MCFixAttempts ---------------------------
(* Two problems that compete for one automatic pull request; the source maps  *)
(* of a customer's build, of one chunk with an ordinary prologue and one      *)
(* whose prologue shares its line; and the maps of a captured stack of two    *)
(* chunks, uploaded while it is resolved.  They share no state: a behaviour   *)
(* is one of one of them, the others staying at their initial states.         *)
EXTENDS FixAttempts, SourceMaps, StackResolution

CONSTANTS a, b

(* Bound: the first attempt is of problem a (until then the two are alike),   *)
(* and once a has a second generation or new evidence there is no other, so   *)
(* that the two instances of interest (two attempts in one generation each;   *)
(* one attempt and what follows its generation) are not multiplied.  A second *)
(* attempt is an automatic one, as the cap is about those, made and played    *)
(* out while the setting stays on and neither problem is taken back.          *)
Bounded ==
    /\ att # <<>> => att[1].t = a
    /\ (ticket[a].gen = 1 /\ ticket[a].ev = 0) \/ Len(att) <= 1
    /\ Len(att) <= 1 \/ (att[2].by = "auto" /\ autonomy /\ \A t \in Problems : Live(t))

MCHeads == [f \in {a, b} |-> IF f = a THEN 0 ELSE 1]
MCFrames == [e \in {a} |-> {a, b}]
MCUploadOf == [u \in {a, b} |-> u]

VARIABLE part

AttemptsPart == part = "attempts" /\ Next /\ UNCHANGED <<part, mapsVars, stackVars>>
BuildPart    == part = "build" /\ MapsNext /\ UNCHANGED <<part, vars, stackVars>>
StacksPart   == part = "stacks" /\ StackNext /\ UNCHANGED <<part, vars, mapsVars>>

PartInit ==
    /\ part \in {"attempts", "build", "stacks"}
    /\ Init /\ StackInit /\ MapsInit
    /\ part # "build" =>
         stage = "built" /\ \A f \in Files : dir[f] = [code |-> PlainCode(f), map |-> PlainMap]

PartSpec ==
    PartInit /\ [][AttemptsPart \/ BuildPart \/ StacksPart]_<<part, vars, mapsVars, stackVars>>
=============================================================================
