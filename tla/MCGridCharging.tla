--------------------------- MODULE MCGridCharging ---------------------------
(***************************************************************************)
(* Values for TLC.  Days of six hours and weeks of two days.               *)
(***************************************************************************)
EXTENDS GridCharging

\* Prices in which some hours are low, some middling, the others high.
Profile(low, mid) == [h \in Hours |-> IF h \in low THEN 1 ELSE IF h \in mid THEN 2 ELSE 3]
Profiles == {Profile({a, b}, {c}) : a, b, c \in 4..8}

Setup(strategy, days, minute, limit, at, soc0, stored, faults, restarts, profiles) ==
    {[cfg |-> [strategy |-> strategy, days |-> days, hour |-> 3, minute |-> minute,
               target |-> 80, maxPrice |-> limit],
      now |-> at, soc |-> soc0, known |-> stored, price |-> p,
      left |-> [faults |-> faults, restarts |-> restarts]] : p \in profiles}

\* Without a limit: prices known in advance, and prices that have to be fetched
\* (the second with a departure every day); with a limit and with or without a
\* departure; and days that have not been chosen.
SomeSetups ==
    Setup("depart", {2}, 0, 0, 240, 60, 0..10, 0, 1, Profiles)
      \cup Setup("depart", {1, 2}, 0, 0, 210, 54, {}, 1, 0, Profiles)
      \cup Setup("departWithLimit", {2}, 30, 2, 180, 60, {}, 0, 1, Profiles)
      \cup Setup("priceLimit", {}, 0, 2, 180, 60, {}, 1, 0, Profiles)
      \cup Setup("depart", {}, 0, 0, 180, 60, {}, 0, 0, {Profile({5}, {})})

ASSUME HypothesesHold == GainsAsEstimated /\ BeginsOnTheHour
=============================================================================
