------------------------- MODULE MCVehicleLifecycle -------------------------
(* Model checking VehicleLifecycle: vehicles, requests and setups.          *)
EXTENDS VehicleLifecycle

CONSTANTS a, b, q1, q2

TwoVehicles == {a, b}
TwoRequests == {q1, q2}

Budget(reports, seconds, connects, requests, works, faults) ==
    [k \in Bounded |->
        CASE k = "reports" -> reports [] k = "seconds" -> seconds [] k = "connects" -> connects
          [] k = "requests" -> requests [] k = "works" -> works [] k = "faults" -> faults]

With(own, added, budget) == [cars |-> own, added |-> added, left |-> budget]

Comings == With({a}, {}, Budget(0, 0, 0, 4, 0, 1))
Pair == With({a, b}, {a}, Budget(0, 0, 0, 2, 0, 0))
Busy == With({a}, {a}, Budget(1, 0, 0, 2, 1, 1))
Reporting == With({a}, {a}, Budget(3, 1, 1, 0, 0, 1))
All == {Comings, Pair, Busy, Reporting}
=============================================================================
