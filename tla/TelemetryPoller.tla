--------------------------- MODULE TelemetryPoller ---------------------------
(***************************************************************************)
(* The node's telemetry poller and the handlers of plugging in and out.    *)
(* Every five seconds the poller asks the server for each vehicle's latest *)
(* telemetry and, if it is news, corrects the state row with it.  It is    *)
(* one goroutine, at work on one vehicle at a time; the goroutines of      *)
(* OnVehiclePluggedIn run beside it, several for one vehicle at times.     *)
(*                                                                         *)
(* The plug state comes from the poller (Autodetect) or from webhooks that *)
(* the user's wall box or smart home calls.                                *)
(***************************************************************************)
EXTENDS ChargeController

CONSTANTS
    Telemetry,      \* whether the vehicles are enrolled in fleet telemetry
    LateReports,    \* whether telemetry may be older than a minute when it comes
    Autodetect,     \* PLUG_AUTODETECT
    MaxPlugJobs     \* bound: goroutines of OnVehiclePluggedIn per vehicle
                    \* that are followed; no more are counted than that

VARIABLES
    tel,        \* per vehicle, a telemetry state the poller has not seen yet
    poll,       \* the poller's goroutine, inside processState
    plug,       \* number of OnVehiclePluggedIn goroutines at each of their steps
    hooks       \* webhook calls under way, in order (external)

pollVars == <<tel, poll, plug, hooks>>

Report == [charging : BOOLEAN, soc : 0..MaxSoC, amps : Amps, limit : Limits, home : BOOLEAN]

Idle == [pc |-> "idle"]

PollCarPCs == {"stop", "data"}
PollPCs == {"reset", "anomaly", "setStopped", "logStop", "detect"} \cup PollCarPCs

Poll == [pc : PollPCs, vin : VIN, enabled : BOOLEAN,
         was : ChargeState, plugged : BOOLEAN, charging : BOOLEAN, home : BOOLEAN]

PollAt(pc) == down = "no" /\ poll.pc = pc
PollGoto(pc) == poll' = [poll EXCEPT !.pc = pc]

PollStepDue ==
    \/ poll.pc \notin PollCarPCs \cup {"idle"}
    \/ \E v \in VIN : plug[v].setting > 0
-----------------------------------------------------------------------------
(***************************************************************************)
(* Telemetry and webhooks on their way to the node (external).             *)
(***************************************************************************)
ReportOf(c) == [charging |-> c.charging, soc |-> c.soc, amps |-> c.amps,
                limit |-> c.limit, home |-> c.home]

Send(v) ==
    /\ Telemetry
    /\ tel[v] = None
    /\ tel' = [tel EXCEPT ![v] = ReportOf(car[v])]
    /\ UNCHANGED <<storeVars, carVars, ctlVars, poll, plug, hooks>>

\* The poller gets the latest state, so that only the way from the car to the
\* server makes it old.
Refreshed == [v \in VIN |-> IF tel[v] = None \/ LateReports THEN tel[v]
                                                        ELSE ReportOf(car[v])]

\* Plugging in or out makes the wall box call the node.
CallHook(v) ==
    hooks' = IF ~Autodetect /\ car'[v].plugged # car[v].plugged
               THEN [hooks EXCEPT ![v] = Append(@, car'[v].plugged)]
               ELSE hooks
-----------------------------------------------------------------------------
(***************************************************************************)
(* OnVehicleUnplugged, given the state the caller had read, and the start  *)
(* of the goroutine of OnVehiclePluggedIn.                                 *)
(***************************************************************************)
Unplugged(v, was) ==
    st' = [st EXCEPT ![v].known = TRUE, ![v].plugged = FALSE,
                     ![v].charging = IF was = Not THEN @ ELSE Not]

PluggedIn(v, enabled) ==
    plug' = IF plug[v].stopping + plug[v].setting = MaxPlugJobs THEN plug
            ELSE IF enabled THEN [plug EXCEPT ![v].stopping = @ + 1]
            ELSE [plug EXCEPT ![v].setting = @ + 1]

\* The goroutine: after 20 seconds a ChargeStop, whose error is only logged.
PlugStop(v) ==
    /\ down = "no" /\ plug[v].stopping > 0
    /\ CarriedOut(v, Stopped(car[v])) \/ Fails(v, Stopped(car[v]))
    /\ plug' = [plug EXCEPT ![v] = [stopping |-> @.stopping - 1, setting |-> @.setting + 1]]
    /\ UNCHANGED <<storeVars, ctlVars, tel, poll, hooks>>

PlugSet(v) ==
    /\ down = "no" /\ plug[v].setting > 0
    /\ SetPlugged(v, TRUE)
    /\ plug' = [plug EXCEPT ![v].setting = @ - 1]
    /\ UNCHANGED <<cfg, age, permErr, carVars, ctlVars, tel, poll, hooks>>

\* The webhook routes, which exist only without autodetection.
HookArrives(v) ==
    /\ down = "no" /\ hooks[v] # <<>>
    /\ hooks' = [hooks EXCEPT ![v] = Tail(@)]
    /\ IF Head(hooks[v])
         THEN PluggedIn(v, cfg[v].enabled) /\ UNCHANGED st
         ELSE Unplugged(v, IF st[v].known THEN st[v].charging ELSE Not) /\ UNCHANGED plug
    /\ UNCHANGED <<cfg, age, permErr, carVars, ctlVars, tel, poll>>
-----------------------------------------------------------------------------
(***************************************************************************)
(* processState.  Reading the old row and correcting current, charge and   *)
(* limit are one step here: a write of the controller's in between leaves  *)
(* the same row as one before or after.  What later steps use of the old   *)
(* row is kept as it was read.                                             *)
(***************************************************************************)
\* Mutant: two columns mixed up.
CorrectedMixed(row, t) == [row EXCEPT !.known = TRUE, !.amps = t.limit,
                                      !.soc = t.soc, !.limit = t.amps]

Corrected(row, t) == [row EXCEPT !.known = TRUE, !.amps = t.amps,
                                 !.soc = t.soc, !.limit = t.limit]

Receive(v) ==
    /\ PollAt("idle") /\ tel[v] # None
    /\ tel' = [tel EXCEPT ![v] = None]
    /\ st' = [st EXCEPT ![v] = Corrected(@, tel[v])]
    /\ poll' = [pc |-> "reset", vin |-> v, enabled |-> cfg[v].enabled,
                was |-> st[v].charging, plugged |-> st[v].plugged,
                charging |-> tel[v].charging, home |-> tel[v].home]
    /\ UNCHANGED <<cfg, age, permErr, carVars, ctlVars, plug, hooks>>

\* A session that telemetry does not confirm ends, unless it is young.  The
\* event is used unchecked: without one the process would go down.
UnconfirmedGridOnly == poll.was = Grid /\ ~poll.charging   \* mutant
Unconfirmed == poll.was # Not /\ ~poll.charging

StaleStartAny(v) == age[v]["start"] # Never                  \* mutant
StaleStart(v) == LongerAgo(age[v]["start"], Grace)

Reset ==
    LET v == poll.vin IN
    /\ PollAt("reset")
    /\ IF Unconfirmed /\ age[v]["start"] = Never
         THEN down' = "event" /\ UNCHANGED <<st, poll>>
         ELSE /\ st' = [st EXCEPT ![v].home = poll.home,
                                  ![v].charging = IF Unconfirmed /\ StaleStart(v)
                                                    THEN Not ELSE @]
              /\ PollGoto("anomaly")
              /\ UNCHANGED down
    /\ UNCHANGED <<cfg, age, permErr, carVars, inTick, failCount, arr, job, tornVINs,
                   tel, plug, hooks>>

\* The car charges though the row says it does not: it was plugged in just
\* now, or it goes on after a stop.
Unexpected == poll.enabled /\ poll.was = Not /\ poll.charging
JustPluggedIn == ~poll.plugged /\ poll.home

StopIneffective(v) == /\ WithinLast(age[v]["stop"], AnomalyTo)
                      /\ LongerAgo(age[v]["stop"], AnomalyFrom)

Anomaly ==
    LET v == poll.vin IN
    /\ PollAt("anomaly")
    /\ \/ /\ Unexpected /\ JustPluggedIn /\ Autodetect
          /\ PluggedIn(v, poll.enabled)
          /\ poll' = Idle
       \/ /\ ~(Unexpected /\ JustPluggedIn /\ Autodetect)
          /\ PollGoto(IF Unexpected /\ ~JustPluggedIn /\ StopIneffective(v)
                        THEN "stop" ELSE "detect")
          /\ UNCHANGED plug
    /\ UNCHANGED <<storeVars, carVars, ctlVars, tel, hooks>>

\* The controller's stopCharging, run by the poller.
PollStop ==
    LET v == poll.vin IN
    /\ PollAt("stop")
    /\ \/ (CarriedOut(v, Stopped(car[v])) \/ Asleep(v)) /\ PollGoto("setStopped") /\ UNCHANGED age
       \/ Fails(v, Stopped(car[v])) /\ PollGoto("detect") /\ LogEvent(v, "stop")
    /\ UNCHANGED <<cfg, st, permErr, ctlVars, tel, plug, hooks>>

PollRecordStopped ==
    /\ PollAt("setStopped")
    /\ SetCharging(poll.vin, Not)
    /\ PollGoto("logStop")
    /\ UNCHANGED <<cfg, age, permErr, carVars, ctlVars, tel, plug, hooks>>

PollLogStop ==
    /\ PollAt("logStop")
    /\ LogEvent(poll.vin, "stop")
    /\ PollGoto("detect")
    /\ UNCHANGED <<cfg, st, permErr, carVars, ctlVars, tel, plug, hooks>>

\* Plug state from telemetry: a car that is away is not plugged in; of a car
\* at home the vehicle data is asked for, not more often than DataEvery.
CanUpdateKnownData(v) == LongerAgo(age[v]["data"], DataEvery)   \* mutant

CanUpdateVehicleData(v) == age[v]["data"] = Never \/ LongerAgo(age[v]["data"], DataEvery)

Detect ==
    LET v == poll.vin IN
    /\ PollAt("detect")
    /\ \/ /\ Autodetect /\ poll.plugged /\ ~poll.home
          /\ Unplugged(v, poll.was) /\ poll' = Idle
       \/ /\ ~(Autodetect /\ poll.plugged /\ ~poll.home)
          /\ IF Autodetect /\ poll.home /\ CanUpdateVehicleData(v)
               THEN PollGoto("data") ELSE poll' = Idle
          /\ UNCHANGED st
    /\ UNCHANGED <<cfg, age, permErr, carVars, ctlVars, tel, plug, hooks>>

\* GetVehicleData answers whether a cable is connected.
VehicleData ==
    LET v == poll.vin IN
    /\ PollAt("data")
    /\ UNCHANGED car
    /\ poll' = Idle
    /\ \/ Spend("faults") /\ UNCHANGED <<st, age, plug>>
       \/ /\ UNCHANGED left
          /\ LogEvent(v, "data")
          /\ IF poll.plugged /\ ~car[v].plugged THEN Unplugged(v, poll.was) ELSE UNCHANGED st
          /\ IF ~poll.plugged /\ car[v].plugged THEN PluggedIn(v, poll.enabled) ELSE UNCHANGED plug
    /\ UNCHANGED <<cfg, permErr, ctlVars, tel, hooks>>
-----------------------------------------------------------------------------
PollStep == \/ \E v \in VIN : Receive(v)
            \/ Reset \/ Anomaly \/ PollStop \/ PollRecordStopped \/ PollLogStop
            \/ Detect \/ VehicleData

PlugStep(v) == PlugStop(v) \/ PlugSet(v)

PollerIdle ==
    /\ poll = Idle
    /\ plug = [v \in VIN |-> [stopping |-> 0, setting |-> 0]]

PollerTypeOK ==
    /\ tel \in [VIN -> Report \cup {None}]
    /\ poll \in Poll \cup {Idle}
    /\ plug \in [VIN -> [stopping : Nat, setting : Nat]]
    /\ hooks \in [VIN -> Seq(BOOLEAN)]
=============================================================================
