---------------------------- MODULE MCChargeBot ----------------------------
(* Model checking ChargeBot: settings, cars and the setups of the runs.    *)
EXTENDS ChargeBot

CONSTANTS a, b

OneVehicle == {a}
TwoVehicles == {a, b}
OneTick == {"tick"}
TwoTicks == {"tick", "late"}

On == [enabled |-> TRUE, surplus |-> TRUE, lowcost |-> FALSE, target |-> 2, minTime |-> 1, maxAmps |-> 1]
Less == [On EXCEPT !.target = 1]
Strong == [On EXCEPT !.maxAmps = 3]
Brief == [On EXCEPT !.minTime = 0]
Off == [Brief EXCEPT !.enabled = FALSE]
Half == [Brief EXCEPT !.target = 1]
Cheap == [Brief EXCEPT !.surplus = FALSE, !.lowcost = TRUE]

OnlyOn == {On}
OnLessStrong == {On, Less, Strong}
BriefAndOff == {Brief, Off}
BriefHalfCheap == {Brief, Half, Cheap}

One == {1}
Two == {2}
OneTwo == {1, 2}
OneThree == {1, 3}
Sunny == {"sunny"}
SunnyAndCheap == {"sunny", "cheap"}
Changing == {"sunny", "dark"}

Away == [plugged |-> FALSE, charging |-> FALSE, soc |-> 0, amps |-> 1, limit |-> 2, home |-> FALSE]
AtHome == [Away EXCEPT !.home = TRUE]
AtStation == [AtHome EXCEPT !.plugged = TRUE]
Limited == [AtStation EXCEPT !.limit = 1]

With(c, vehicle, known, budget) == [cfg |-> c, car |-> vehicle, known |-> known, left |-> budget]
Once(ks) == [k \in Bounded |-> IF k \in ks THEN 1 ELSE 0]
TwoFaults == [Once({}) EXCEPT !["faults"] = 2]

Session == {With(On, AtStation, TRUE, TwoFaults),
            With(On, AtStation, TRUE, Once({"unplugs"})),
            With(Less, AtHome, TRUE, Once({"plugs", "unplugs"})),
            With(Less, AtStation, TRUE, Once({"drives", "faults"})),
            With(On, Limited, TRUE, Once({"faults"})),
            With(On, Limited, TRUE, Once({"edits"}))}
Quiet == {With(On, AtStation, TRUE, Once({}))}
Recoveries == {With(Brief, AtStation, TRUE, Once({"faults", "edits"})),
               With(Brief, AtStation, TRUE, Once({"restarts"})),
               With(Off, AtStation, TRUE, Once({"faults", "drives"}))}
Plugs == {With(Brief, AtHome, FALSE, Once({"plugs", "faults"})),
          With(Cheap, AtStation, FALSE, Once({"restarts"})),
          With(Brief, Away, FALSE, Once({"plugs", "unplugs"})),
          With(Half, AtStation, FALSE, Once({"unplugs", "trips", "faults"}))}
=============================================================================
