------------------------------ MODULE MCFanOut -------------------------------
(* A finite instance of FanOut. *)
EXTENDS FanOut, TLC

CONSTANTS f1, f2, i1, i2

\* One call loads up to two pages, and the other one page at the same time.
TwoAndOne == [c \in Callers |-> IF c = f1 THEN SUBSET Items ELSE {{i1}}]

=============================================================================
