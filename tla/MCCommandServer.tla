-------------------------- MODULE MCCommandServer --------------------------
(* Model checking CommandServer: two goroutines that call at once, one of   *)
(* which tries again after a minute.                                       *)
EXTENDS CommandServer

CONSTANTS a, b

TwoCallers == {a, b}
TwoAndOne == [g \in TwoCallers |-> IF g = a THEN 2 ELSE 1]
=============================================================================
