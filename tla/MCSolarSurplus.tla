--------------------------- MODULE MCSolarSurplus ---------------------------
(* Values for TLC: too little sun, some, and more than the car can take.   *)
EXTENDS SolarSurplus

CONSTANTS a

Alone == {a}
Skies == {900, 2000, 5000}

Changes(faults, suns, outages) == [faults |-> faults, suns |-> suns, outages |-> outages]
Changing == Changes(1, 2, 1)
Clouds == Changes(0, 1, 0)
=============================================================================
