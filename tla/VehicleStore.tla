---------------------------- MODULE VehicleStore ----------------------------
(***************************************************************************)
(* What the node keeps in its database and shares between its goroutines:  *)
(* the vehicles' settings, their states, and the time of the latest event  *)
(* of the kinds that code reads back.  Every statement is atomic.          *)
(*                                                                         *)
(* The unit of time is the minute, the period of the controller's ticker.  *)
(* An event is known by its age.  An age stops growing one minute past the *)
(* longest span the code compares it with (Cap): from there on every       *)
(* comparison has one and the same outcome.                                *)
(***************************************************************************)
EXTENDS Integers

CONSTANTS
    VIN,            \* vehicles added to the node
    Configs,        \* settings a vehicle may be given
    MaxSoC,         \* states of charge are 0..MaxSoC
    Limits,         \* charge limits
    Amps,           \* charging currents
    MaxFails,       \* MaxChargeStartFailCounts
    BackoffStep,    \* minutes added to the wait by every failed start
    AdjustEvery,    \* minutes between adjustments of the current
    Grace,          \* minutes a start outweighs telemetry
    AnomalyFrom,    \* a stop is too recent to be found ineffective before ...
    AnomalyTo,      \* ... and forgotten after so many minutes
    DataEvery       \* MaxVehicleDataUpdateIntervalMinutes

ASSUME StoreAssumption ==
    /\ {MaxSoC, MaxFails, BackoffStep, AdjustEvery, Grace,
        AnomalyFrom, AnomalyTo, DataEvery} \subseteq Nat
    /\ Limits \subseteq Nat \ {0} /\ Amps \subseteq Nat \ {0}
    /\ Configs \subseteq [enabled : BOOLEAN, surplus : BOOLEAN, lowcost : BOOLEAN,
                          target : Limits, minTime : Nat, maxAmps : Amps]

VARIABLES
    cfg,        \* table vehicles
    st,         \* table vehicle_states; known is FALSE as long as there is no row
    age,        \* table logs: minutes since the latest event of each kind
    permErr     \* setting permanent_error

storeVars == <<cfg, st, age, permErr>>

Not == "not"
Solar == "solar"
Grid == "grid"
ChargeState == {Not, Solar, Grid}

StateRow ==
    [known : BOOLEAN, plugged : BOOLEAN, charging : ChargeState,
     soc : 0..MaxSoC \cup {-1}, amps : Amps \cup {0}, limit : Limits \cup {0},
     home : BOOLEAN]

NoRow == [known |-> FALSE, plugged |-> FALSE, charging |-> Not,
          soc |-> -1, amps |-> 0, limit |-> 0, home |-> FALSE]

\* The upserts: each sets one column and creates the row if there is none.
SetPlugged(v, b)  == st' = [st EXCEPT ![v] = [@ EXCEPT !.known = TRUE, !.plugged = b]]
SetCharging(v, c) == st' = [st EXCEPT ![v] = [@ EXCEPT !.known = TRUE, !.charging = c]]
SetAmps(v, n)     == st' = [st EXCEPT ![v] = [@ EXCEPT !.known = TRUE, !.amps = n]]
SetLimit(v, n)    == st' = [st EXCEPT ![v] = [@ EXCEPT !.known = TRUE, !.limit = n]]
-----------------------------------------------------------------------------
Kinds == {"start", "stop", "amps", "data"}
Never == -1

Largest(S) == CHOOSE m \in S : \A n \in S : n <= m

Cap(kind) ==
    CASE kind = "start" -> 1 + Largest({Grace, BackoffStep * (MaxFails - 1), AdjustEvery}
                                         \cup {c.minTime : c \in Configs})
      [] kind = "stop"  -> AnomalyTo
      [] kind = "amps"  -> AdjustEvery
      [] kind = "data"  -> DataEvery + 1

Ages == Nat \cup {Never}

LogEvent(v, kind) == age' = [age EXCEPT ![v][kind] = 0]

\* A minute passes.
Older(n, kind) == IF n = Never THEN Never ELSE IF n < Cap(kind) THEN n + 1 ELSE n
AgeEvents == age' = [v \in VIN |-> [k \in Kinds |-> Older(age[v][k], k)]]

\* event.Timestamp.Before(now - m) and .After(now - m), of an event there is.
LongerAgo(n, m) == n # Never /\ n > m
WithinLast(n, m) == n # Never /\ n < m
-----------------------------------------------------------------------------
StoreTypeOK ==
    /\ cfg \in [VIN -> Configs]
    /\ st \in [VIN -> StateRow]
    /\ age \in [VIN -> [Kinds -> Ages]]
    /\ permErr \in BOOLEAN
=============================================================================
