---------------------------- MODULE MCSourceMaps ----------------------------
(* A chunk whose prologue takes two lines and shares the second with other     *)
(* code, beside one without a prologue.                                        *)
EXTENDS SourceMaps

CONSTANTS f1, f2

LongHead == [f \in {f1, f2} |-> IF f = f1 THEN 2 ELSE 0]
=============================================================================
