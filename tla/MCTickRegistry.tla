--------------------------- MODULE MCTickRegistry ---------------------------
(* Model checking TickRegistry: model values for the vehicles.             *)
EXTENDS TickRegistry

CONSTANTS a, b, c

TwoVehicles == {a, b}
ThreeVehicles == {a, b, c}
=============================================================================
