---------------------------- MODULE SolarSurplus ----------------------------
(***************************************************************************)
(* Charging on solar surplus, as a loop: the meter tells what the house    *)
(* feeds into the grid, the controller derives a current from the two      *)
(* latest readings, and the current changes what the meter reads next.     *)
(* In watts, amperes and minutes, for vehicles that stay plugged in and do *)
(* not get full.  The calls to the car that a decision leads to are one    *)
(* step here, which may end early with a call that fails.  The module      *)
(* ChargeController has them one by one, with the wait after a failed      *)
(* start, and with starts and stops carried out although their answer is   *)
(* lost, which are left out here.                                          *)
(***************************************************************************)
EXTENDS Integers, Sequences, FiniteSetsExt

CONSTANTS
    VIN,
    NumPhases, MaxAmps, MinSurplus, Buffer, MinChargeTime,  \* settings
    Window,         \* minutes for which a reading counts (5)
    AdjustEvery,    \* minutes from a change of the current to the next (5)
    ReportEvery,    \* external: minutes in which the meter reports once
    Suns,           \* external: watts the house may have to spare
    Bounds,         \* bounds: faults, and times sun and meter change
    Cap             \* bound: age from which on ages are the same

ASSUME SolarAssumption ==
    /\ {NumPhases, MaxAmps} \subseteq Nat \ {0}
    /\ {MinSurplus, Buffer, MinChargeTime, Window, AdjustEvery, ReportEvery, Cap} \subseteq Nat
    /\ Cap > 2 * Window + AdjustEvery /\ Cap > MinChargeTime + 3
    /\ IsFiniteSet(VIN)
    /\ Suns \subseteq Int
    /\ Bounds \in [{"faults", "suns", "outages"} -> Nat]

VARIABLES
    sun,        \* external: what the house has to spare, without the cars
    meter,      \* external: whether the meter works
    car,        \* external: the cars
    readings,   \* table surpluses: the latest two, the newer first
    row,        \* the vehicles' states
    since,      \* minutes since the latest events of a vehicle
    due,        \* the vehicles whose tick of this minute is still to come
    job,        \* per vehicle, the goroutine that waits for the car
    excess,     \* minutes since the sun changed for which the cars draw too much
    left        \* bounds

vars == <<sun, meter, car, readings, row, since, due, job, excess, left>>

Spend(what) == left[what] > 0 /\ left' = [left EXCEPT ![what] = @ - 1]
-----------------------------------------------------------------------------
(***************************************************************************)
(* The quantities a decision rests on.                                     *)
(***************************************************************************)
Watts(amps) == amps * NumPhases * 230

Load(v) == IF car[v].charging THEN Watts(car[v].amps) ELSE 0
TotalLoad == MapThenSumSet(Load, VIN)

\* Mutant: readings of any age.
FreshAny == DOMAIN readings

Fresh == {r \in DOMAIN readings : readings[r].age < Window}

\* getActualSurplus of a vehicle that does not charge: the higher reading if none
\* is below the minimum, else the oldest that is.
SurplusToStart ==
    LET below == {r \in Fresh : readings[r].watts < MinSurplus} IN
    IF Fresh = {} THEN 0
    ELSE IF below # {} THEN readings[Max(below)].watts
    ELSE Max({readings[r].watts : r \in Fresh})

\* Mutants: the lower; without what the vehicle draws.
SurplusToGoOnLower(v) ==
    IF Fresh = {} THEN 0 ELSE Min({readings[r].watts + Watts(row[v].amps) : r \in Fresh})

SurplusToGoOnRaw(v) == Max({0} \cup {readings[r].watts : r \in Fresh})

\* getActualSurplus of one that does: the higher, with what the vehicle itself draws.
SurplusToGoOn(v) ==
    Max({0} \cup {readings[r].watts + Watts(row[v].amps) : r \in Fresh})

\* checkStartOnSolar: amperes, 0 for no.
CheckStartOnSolar(v) ==
    LET surplus == (IF row[v].charging THEN SurplusToGoOn(v) ELSE SurplusToStart) - Buffer IN
    IF surplus <= 0 \/ surplus < MinSurplus THEN 0
    ELSE Min({surplus \div Watts(1), MaxAmps})

\* Mutant: the start is forgotten.
CanAdjustAfterStart(v) ==
    readings # <<>> /\ since[v].amps - readings[1].age >= AdjustEvery

\* canAdjustSolarAmps, minimumChargeTimeReached.
CanAdjust(v) ==
    /\ readings # <<>>
    /\ Min({since[v].amps, since[v].start}) - readings[1].age >= AdjustEvery

MinTimeReached(v) == since[v].start > MinChargeTime
-----------------------------------------------------------------------------
(***************************************************************************)
(* The tick of a vehicle, up to the call it makes (processVehicle,         *)
(* checkStartCharging, checkChargeProcess).  While a goroutine waits for   *)
(* the car the next ticks are skipped.                                     *)
(***************************************************************************)
\* A start with 0 amperes leaves the current as it is.
None == [do |-> "nothing"]
Call(do, amps) == [do |-> do, amps |-> amps, late |-> FALSE]

Decision(v) ==
    LET amps == CheckStartOnSolar(v) IN
    IF ~row[v].charging
    THEN IF amps = 0 THEN None ELSE Call("start", IF amps = row[v].amps THEN 0 ELSE amps)
    ELSE IF amps > 0 /\ amps # row[v].amps /\ CanAdjust(v) THEN Call("adjust", amps)
    ELSE IF amps = 0 /\ MinTimeReached(v) THEN Call("stop", 0)
    ELSE None

Tick(v) ==
    /\ v \in due
    /\ due' = due \ {v}
    /\ job' = IF job[v] = None THEN [job EXCEPT ![v] = Decision(v)] ELSE job
    /\ UNCHANGED <<sun, meter, car, readings, row, since, excess, left>>

\* activateCharging, chargeProcessAdjustSolarAmps and stopCharging: the calls, and
\* the writes that follow them.  Failures are events as well.
AmpsSet(v, amps, table) == IF amps = 0 THEN table[v].amps ELSE amps

StartEvents(v, amps) ==
    since' = [since EXCEPT ![v] = [start |-> 0, amps |-> IF amps = 0 THEN @.amps ELSE 0]]

Started(v, amps) ==
    /\ car' = [car EXCEPT ![v] = [charging |-> TRUE, amps |-> AmpsSet(v, amps, car)]]
    /\ row' = [row EXCEPT ![v] = [charging |-> TRUE, amps |-> AmpsSet(v, amps, row)]]
    /\ StartEvents(v, amps)

Adjusted(v, amps) ==
    /\ car' = [car EXCEPT ![v].amps = amps]
    /\ row' = [row EXCEPT ![v].amps = amps]
    /\ since' = [since EXCEPT ![v].amps = 0]

Stopped(v) ==
    /\ car' = [car EXCEPT ![v].charging = FALSE]
    /\ row' = [row EXCEPT ![v].charging = FALSE]
    /\ UNCHANGED since

\* The current may have been set although the answer is lost.
AmpsFailed(v, amps) ==
    /\ car' = car \/ car' = [car EXCEPT ![v].amps = amps]
    /\ since' = [since EXCEPT ![v].amps = 0]
    /\ UNCHANGED row

StartRefused(v, amps) ==
    /\ car' = [car EXCEPT ![v].amps = AmpsSet(v, amps, car)]
    /\ row' = [row EXCEPT ![v].amps = AmpsSet(v, amps, row)]
    /\ StartEvents(v, amps)

Failed(v, do, amps) ==
    \/ do \in {"start", "stop"} /\ UNCHANGED <<car, row, since>>    \* Wakeup, ChargeStop
    \/ do \in {"start", "adjust"} /\ amps > 0 /\ AmpsFailed(v, amps)
    \/ do = "start" /\ StartRefused(v, amps)

Answer(v) ==
    /\ job[v] # None
    /\ job' = [job EXCEPT ![v] = None]
    /\ \/ /\ \/ job[v].do = "start" /\ Started(v, job[v].amps)
             \/ job[v].do = "adjust" /\ Adjusted(v, job[v].amps)
             \/ job[v].do = "stop" /\ Stopped(v)
          /\ UNCHANGED left
       \/ Failed(v, job[v].do, job[v].amps) /\ Spend("faults")
    /\ UNCHANGED <<sun, meter, readings, due, excess>>

\* The poller corrects the current.
Telemetry(v) ==
    /\ row[v].amps # car[v].amps
    /\ row' = [row EXCEPT ![v].amps = car[v].amps]
    /\ UNCHANGED <<sun, meter, car, readings, since, due, job, excess, left>>
-----------------------------------------------------------------------------
\* recordSurplus, by the web API or MQTT.  That a reading also remembers what each
\* car drew is for the properties.
NewReading == [age |-> 0, watts |-> sun - TotalLoad, load |-> [v \in VIN |-> Load(v)]]

\* Mutant: keeps all readings.
ReportAll ==
    /\ meter /\ (readings # <<>> => readings[1].age > 0)
    /\ readings' = <<NewReading>> \o readings
    /\ UNCHANGED <<sun, meter, car, row, since, due, job, excess, left>>

Report ==
    /\ meter /\ (readings # <<>> => readings[1].age > 0)
    /\ readings' = IF readings = <<>> THEN <<NewReading>> ELSE <<NewReading, readings[1]>>
    /\ UNCHANGED <<sun, meter, car, row, since, due, job, excess, left>>

SunChanges ==
    /\ Spend("suns")
    /\ sun' \in Suns \ {sun} /\ excess' = 0
    /\ UNCHANGED <<meter, car, readings, row, since, due, job>>

MeterChanges ==
    /\ Spend("outages")
    /\ meter' = ~meter
    /\ UNCHANGED <<sun, car, readings, row, since, due, job, excess>>

\* A minute passes, in which all ticks were, the meter reported as it should, the
\* poller saw the cars, and no call has been under way since the minute before.
Older(age) == Min({age + 1, Cap})

Minute ==
    /\ due = {}
    /\ meter => readings # <<>> /\ readings[1].age < ReportEvery
    /\ \A v \in VIN : row[v].amps = car[v].amps /\ (job[v] # None => ~job[v].late)
    /\ due' = VIN
    /\ job' = [v \in VIN |-> IF job[v] = None THEN None ELSE [job[v] EXCEPT !.late = TRUE]]
    /\ readings' = [r \in DOMAIN readings |->
                      [readings[r] EXCEPT !.age = Min({@ + 1, Window})]]
    /\ since' = [v \in VIN |-> [amps |-> Older(since[v].amps), start |-> Older(since[v].start)]]
    /\ excess' = IF TotalLoad > 0 /\ TotalLoad > sun THEN Older(excess) ELSE 0
    /\ UNCHANGED <<sun, meter, car, row, left>>

Init ==
    /\ sun \in Suns /\ meter = TRUE /\ readings = <<>>
    /\ car = [v \in VIN |-> [charging |-> FALSE, amps |-> MaxAmps]]
    /\ row = car
    /\ since = [v \in VIN |-> [amps |-> Cap, start |-> Cap]]
    /\ due = VIN /\ job = [v \in VIN |-> None] /\ excess = 0 /\ left = Bounds

Vehicle(v) == Tick(v) \/ Answer(v) \/ Telemetry(v)

Next == (\E v \in VIN : Vehicle(v)) \/ Report \/ SunChanges \/ MeterChanges \/ Minute

Spec == /\ Init /\ [][Next]_vars
        /\ WF_vars(Report) /\ WF_vars(Minute)
        /\ \A v \in VIN : WF_vars(Tick(v)) /\ WF_vars(Answer(v)) /\ WF_vars(Telemetry(v))
-----------------------------------------------------------------------------
Reading == [age : 0..Window, watts : Int, load : [VIN -> Int]]
Charge == [charging : BOOLEAN, amps : 1..MaxAmps]
Calls == [do : {"start", "adjust", "stop"}, amps : 0..MaxAmps, late : BOOLEAN]

TypeOK ==
    /\ sun \in Suns /\ meter \in BOOLEAN
    /\ car \in [VIN -> Charge] /\ row \in [VIN -> Charge]
    /\ readings \in Seq(Reading) /\ Len(readings) <= 2
    /\ since \in [VIN -> [amps : 0..Cap, start : 0..Cap]]
    /\ due \subseteq VIN /\ job \in [VIN -> Calls \cup {None}]
    /\ excess \in 0..Cap /\ left \in [{"faults", "suns", "outages"} -> Nat]

Decides(v, do) == job[v] = None /\ job'[v] # None /\ job'[v].do = do

\* A new current is derived only from readings that the present one is part of:
\* what is added for the car is what it drew at the time ("...and only if the last
\* amps adjustment occured before the latest surplus data came in").
EstimateIsTrue ==
    [][\A v \in VIN : Decides(v, "adjust") =>
          \A r \in Fresh : readings[r].load[v] = Watts(row[v].amps)]_vars

\* What there was to spare for v by a reading, less the buffer, is too little.
TooLow(r, v) == LET watts == readings[r].watts + readings[r].load[v] - Buffer
                IN  watts < MinSurplus \/ watts < Watts(1)

\* Charging is not stopped against a reading taken since its current has changed
\* (getActualSurplus).
StopHasReason ==
    [][\A v \in VIN : Decides(v, "stop") =>
          \A r \in Fresh : readings[r].age < Min({since[v].amps, since[v].start}) => TooLow(r, v)]_vars

\* "if aleady charging on solar, at least one sample must be above threshold"
\* (charge-controller.go:606): if one is, charging is not stopped.
StopNeedsLowSamples ==
    [][\A v \in VIN : Decides(v, "stop") => \A r \in Fresh : TooLow(r, v)]_vars

\* Without failures a car on its own takes more than there is for some minutes at
\* most after the sun has changed, also if the meter falls silent: until no reading
\* from before counts any more, a change made for one of them is as old as a change
\* has to be, a window before the latest reading, and the call to the car is over;
\* or until the minimum time is over (chargeProcessAdjustSolarAmps,
\* minimumChargeTimeReached).
MaxExcess == Max({2 * Window + AdjustEvery, MinChargeTime + 3})

ExcessIsShort == left.faults = Bounds.faults => excess <= MaxExcess

\* Once sun and meter stay as they are, the car comes to charge with all that can
\* be spared, or not at all if that is too little (a vehicle on its own).
Spared == Min({(sun - Buffer) \div Watts(1), MaxAmps})
Enough == sun - Buffer >= MinSurplus /\ Spared > 0

Settles ==
    <>[]meter => \A v \in VIN : <>[](IF Enough THEN car[v] = [charging |-> TRUE, amps |-> Spared]
                                               ELSE ~car[v].charging)

\* When the meter has gone silent, charging on solar ends.
SilenceStops == \A v \in VIN : ~meter ~> meter \/ ~car[v].charging
=============================================================================
