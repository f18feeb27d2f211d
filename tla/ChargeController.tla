-------------------------- MODULE ChargeController --------------------------
(***************************************************************************)
(* The node's charge controller.  A goroutine of a tick reads the state of *)
(* its vehicle, registers in inTick, decides, and then works through calls *)
(* to the car, each of which may take long and fail; a test drive runs the *)
(* same procedures from another goroutine with a controller of its own.    *)
(*                                                                         *)
(* The lookup in inTick takes no mutex and is no one step: a removal that  *)
(* shifts the slice meanwhile can make it miss its VIN (torn, as it is in  *)
(* TickRegistry), and then several goroutines work on one vehicle.         *)
(*                                                                         *)
(* A goroutine that waits for the car stands at the pc of the call.  The   *)
(* other pcs are local steps: they touch the database and memory only, and *)
(* no minute passes while one is due.  Whether there is surplus energy or  *)
(* a good price is open (Weather), within what the settings allow.         *)
(***************************************************************************)
EXTENDS TeslaCar, InTickList

CONSTANTS
    Weather,    \* what a look at surplus and prices may find
    DriveAmps,  \* half of the vehicles' MaxAmps
    Ticks       \* bound: goroutines of ticks at work on one vehicle

ASSUME ControllerAssumption ==
    /\ Weather \subseteq {"sunny", "cheap", "dark"} /\ Weather # {}
    /\ DriveAmps \in Amps
    /\ "drive" \notin Ticks

VARIABLES
    inTick,     \* ChargeController.inTick
    failCount,  \* ChargeController.ChargeStartFailCount
    arr,        \* per vehicle, the tick's goroutine up to setInTick
    job,        \* per worker and vehicle, the goroutine at work
    down,       \* why the process is down, "no" if it is up
    tornVINs    \* auxiliary: vehicles whose lookup a removal has torn

ctlVars == <<inTick, failCount, arr, job, down, tornVINs>>

Workers == Ticks \cup {"drive"}
None == [pc |-> "none"]

CallPCs == {"wake", "setLimit", "setAmps", "start", "checkLimit", "adjustWake", "adjustAmps"}
CarPCs == CallPCs \cup {"stop", "hold"}

Arrival == [pc : {"read"}, cfg : Configs]
             \cup [pc : {"scan", "torn", "register"}, cfg : Configs, st : StateRow]

\* A goroutine with the variables it still needs: in activateCharging, in
\* checkChargeProcess, and in the steps that end them.
Activation ==
    [pc : {"activate", "wake", "setLimit", "setAmps", "start"},
     cfg : Configs, st : StateRow, to : {Solar, Grid}, amps : Amps]
Check ==
    [pc : {"checkLimit", "verdict", "minTime"},
     cfg : Configs, st : StateRow, to : ChargeState, amps : Amps \cup {0}]
      \cup [pc : {"adjustWake", "adjustAmps"},
            cfg : Configs, st : StateRow, to : {Solar, Grid}, amps : Amps]

Job == Activation \cup Check
         \cup [pc : {"logStart", "setCharging"}, to : {Solar, Grid}]
         \cup [pc : {"countFailure"}, n : Nat]
         \cup [pc : {"logFailure", "stop", "setStopped", "logStop", "hold", "release"}]

\* The goroutine moves on; it moves on with other variables; with none.
Goto(w, v, pc) == job' = [job EXCEPT ![w][v].pc = pc]
Become(w, v, j) == job' = [job EXCEPT ![w][v] = j]
Leave(w, v, pc) == Become(w, v, [pc |-> pc])

At(w, v, pc) == down = "no" /\ job[w][v].pc = pc

LocalStepDue ==
    \E v \in VIN : \/ arr[v] # None
                   \/ \E w \in Workers : job[w][v].pc \notin CarPCs \cup {"none"}
-----------------------------------------------------------------------------
(***************************************************************************)
(* OnTick: one goroutine per vehicle, each with the settings just read.    *)
(***************************************************************************)
OnTick ==
    /\ arr' = IF permErr THEN arr ELSE [v \in VIN |-> [pc |-> "read", cfg |-> cfg[v]]]
    /\ UNCHANGED <<inTick, failCount, job, down, tornVINs, permErr>>

\* processVehicle up to where the lookup in inTick begins; the state read here
\* is used to the end of the round.
NothingToDo(c, s) == \/ ~s.known
                     \/ ~s.plugged
                     \/ ~c.enabled /\ s.charging = Not

ReadState(v) ==
    /\ down = "no" /\ arr[v].pc = "read"
    /\ arr' = [arr EXCEPT ![v] =
                 IF NothingToDo(arr[v].cfg, st[v]) THEN None
                 ELSE [pc |-> "scan", cfg |-> arr[v].cfg, st |-> st[v]]]
    /\ UNCHANGED <<storeVars, carVars, inTick, failCount, job, down, tornVINs>>

(***************************************************************************)
(* checkTargetState: solar first, then the grid, else nothing.             *)
(***************************************************************************)
Choices(c) ==
    LET solar == IF c.surplus /\ "sunny" \in Weather THEN {Solar} \X {n \in Amps : n <= c.maxAmps} ELSE {}
        grid  == IF c.lowcost /\ "cheap" \in Weather THEN {<<Grid, c.maxAmps>>} ELSE {}
        none  == IF "dark" \in Weather \/ solar \cup grid = {} THEN {<<Not, 0>>} ELSE {}
    IN  solar \cup grid \cup none

\* Mutant: one step too low.
IsChargingRequiredLate(s, c) == s.soc < c.target - 2

IsChargingRequired(s, c) == s.soc < c.target - 1

\* Mutant: disabling is forgotten.
DisallowedBySource(c, s) == \/ ~c.surplus /\ s.charging = Solar
                            \/ ~c.lowcost /\ s.charging = Grid

\* Charging that the settings do not allow any more.
Disallowed(c, s) == \/ ~c.enabled /\ s.charging # Not
                    \/ ~c.surplus /\ s.charging = Solar
                    \/ ~c.lowcost /\ s.charging = Grid

\* The branches of processVehicle, and checkStartCharging: what the goroutine
\* may be about to do once its round has begun.  Nothing shared is looked at.
Rounds(c, s) ==
    LET round(pc) == [pc |-> pc, cfg |-> c, st |-> s, to |-> Not, amps |-> 0]
    IN  IF Disallowed(c, s) THEN {[pc |-> "stop"]}
        ELSE IF s.charging # Not
               THEN {round(IF s.limit # c.target THEN "checkLimit" ELSE "verdict")}
        ELSE IF ~IsChargingRequired(s, c) THEN {[pc |-> "release"]}
        ELSE {IF d[1] = Not THEN [pc |-> "release"]
              ELSE [round("activate") EXCEPT !.to = d[1], !.amps = d[2]] : d \in Choices(c)}

\* Mutant: the removal is deferred before the lookup.
SkipRoundRemoving(v) ==
    /\ down = "no" /\ arr[v].pc \in {"scan", "torn"} /\ InList(inTick, v)
    /\ arr' = [arr EXCEPT ![v] = None]
    /\ inTick' = UnsetInTick(inTick, v)
    /\ UNCHANGED <<storeVars, carVars, failCount, job, down, tornVINs>>

\* isInTick finds the VIN, or does not; a torn lookup may miss it.
SkipRound(v) ==
    /\ down = "no" /\ arr[v].pc \in {"scan", "torn"} /\ InList(inTick, v)
    /\ arr' = [arr EXCEPT ![v] = None]
    /\ UNCHANGED <<storeVars, carVars, inTick, failCount, job, down, tornVINs>>

NotFound(v) ==
    /\ down = "no" /\ arr[v].pc \in {"scan", "torn"}
    /\ arr[v].pc = "scan" => ~InList(inTick, v)
    /\ arr' = [arr EXCEPT ![v].pc = "register"]
    /\ UNCHANGED <<storeVars, carVars, inTick, failCount, job, down, tornVINs>>

\* setInTick, and the round begins.
Register(v) ==
    /\ down = "no" /\ arr[v].pc = "register"
    /\ arr' = [arr EXCEPT ![v] = None]
    /\ inTick' = SetInTick(inTick, v)
    /\ \E w \in Ticks, j \in Rounds(arr[v].cfg, arr[v].st) : job[w][v] = None /\ Become(w, v, j)
    /\ UNCHANGED <<storeVars, carVars, failCount, down, tornVINs>>
-----------------------------------------------------------------------------
(***************************************************************************)
(* activateCharging.                                                       *)
(***************************************************************************)
AfterActivate(w) == IF w = "drive" THEN "hold" ELSE "release"

\* A test drive has a controller of its own, on which no start has failed.
FailsOf(w) == IF w = "drive" THEN 0 ELSE failCount

BacksOff(w, v) == FailsOf(w) > 0 /\ WithinLast(age[v]["start"], BackoffStep * FailsOf(w))

Activate(w, v) ==
    /\ At(w, v, "activate")
    /\ \/ /\ FailsOf(w) >= MaxFails
          /\ permErr' = TRUE
          /\ failCount' = 0
          /\ Leave(w, v, AfterActivate(w))
       \/ /\ FailsOf(w) < MaxFails
          /\ IF BacksOff(w, v) THEN Leave(w, v, AfterActivate(w)) ELSE Goto(w, v, "wake")
          /\ UNCHANGED <<permErr, failCount>>
    /\ UNCHANGED <<cfg, st, age, carVars, inTick, arr, down, tornVINs>>

\* The calls left to make before the start, given what the row said.
LimitCall(j) == IF j.st.limit # j.cfg.target THEN "setLimit" ELSE "none"
AmpsCall(j) == IF j.st.amps # j.amps THEN "setAmps" ELSE "start"
FirstCall(j) == IF LimitCall(j) = "none" THEN AmpsCall(j) ELSE LimitCall(j)

Wake(w, v) ==
    /\ At(w, v, "wake")
    /\ \/ CarriedOut(v, car[v]) /\ Goto(w, v, FirstCall(job[w][v]))
       \/ Spend("faults") /\ UNCHANGED car /\ Leave(w, v, AfterActivate(w))
    /\ UNCHANGED <<storeVars, inTick, failCount, arr, down, tornVINs>>

ActivateLimit(w, v) ==
    LET j == job[w][v]
        c == [car[v] EXCEPT !.limit = j.cfg.target] IN
    /\ At(w, v, "setLimit")
    /\ \/ CarriedOut(v, c) /\ SetLimit(v, j.cfg.target) /\ Goto(w, v, AmpsCall(j))
       \/ Fails(v, c) /\ UNCHANGED st /\ Leave(w, v, AfterActivate(w))
    /\ UNCHANGED <<cfg, age, permErr, inTick, failCount, arr, down, tornVINs>>

ActivateAmps(w, v) ==
    LET j == job[w][v]
        c == [car[v] EXCEPT !.amps = j.amps] IN
    /\ At(w, v, "setAmps")
    /\ LogEvent(v, "amps")
    /\ \/ CarriedOut(v, c) /\ SetAmps(v, j.amps) /\ Goto(w, v, "start")
       \/ Fails(v, c) /\ UNCHANGED st /\ Leave(w, v, AfterActivate(w))
    /\ UNCHANGED <<cfg, permErr, inTick, failCount, arr, down, tornVINs>>

\* ChargeStart; a car that cannot charge refuses.
Start(w, v) ==
    LET c == Started(car[v]) IN
    /\ At(w, v, "start")
    /\ \/ /\ CanCharge(car[v]) /\ CarriedOut(v, c)
          /\ Become(w, v, [pc |-> "logStart", to |-> job[w][v].to])
       \/ CanCharge(car[v]) /\ Fails(v, c) /\ Leave(w, v, "logFailure")
       \/ ~CanCharge(car[v]) /\ UNCHANGED carVars /\ Leave(w, v, "logFailure")
    /\ UNCHANGED <<storeVars, inTick, failCount, arr, down, tornVINs>>

\* The failure is logged; c.ChargeStartFailCount++ reads and then writes.
LogFailure(w, v) ==
    /\ At(w, v, "logFailure")
    /\ LogEvent(v, "start")
    /\ IF w = "drive"
         THEN Leave(w, v, AfterActivate(w))
         ELSE Become(w, v, [pc |-> "countFailure", n |-> failCount])
    /\ UNCHANGED <<cfg, st, permErr, carVars, inTick, failCount, arr, down, tornVINs>>

CountFailure(w, v) ==
    /\ At(w, v, "countFailure")
    /\ failCount' = job[w][v].n + 1
    /\ Leave(w, v, AfterActivate(w))
    /\ UNCHANGED <<storeVars, carVars, inTick, arr, down, tornVINs>>

\* Mutant: the event is not logged.
LogStartNowhere(w, v) ==
    /\ At(w, v, "logStart")
    /\ failCount' = IF w = "drive" THEN failCount ELSE 0
    /\ Goto(w, v, "setCharging")
    /\ UNCHANGED <<storeVars, carVars, inTick, arr, down, tornVINs>>

LogStart(w, v) ==
    /\ At(w, v, "logStart")
    /\ failCount' = IF w = "drive" THEN failCount ELSE 0
    /\ LogEvent(v, "start")
    /\ Goto(w, v, "setCharging")
    /\ UNCHANGED <<cfg, st, permErr, carVars, inTick, arr, down, tornVINs>>

RecordCharging(w, v) ==
    /\ At(w, v, "setCharging")
    /\ SetCharging(v, job[w][v].to)
    /\ Leave(w, v, AfterActivate(w))
    /\ UNCHANGED <<cfg, age, permErr, carVars, inTick, failCount, arr, down, tornVINs>>
-----------------------------------------------------------------------------
(***************************************************************************)
(* checkChargeProcess: only a tick's goroutine gets here.                  *)
(***************************************************************************)
CheckLimit(w, v) ==
    LET target == job[w][v].cfg.target
        c == [car[v] EXCEPT !.limit = target] IN
    /\ At(w, v, "checkLimit")
    /\ \/ CarriedOut(v, c) /\ SetLimit(v, target)
       \/ Fails(v, c) /\ UNCHANGED st
    /\ Goto(w, v, "verdict")
    /\ UNCHANGED <<cfg, age, permErr, inTick, failCount, arr, down, tornVINs>>

\* canAdjustSolarAmps; how old the latest surplus reading is, is open.
CanAdjust(v) ==
    LET known == {age[v]["amps"], age[v]["start"]} \ {Never}
    IN  known # {} /\ \A n \in known : n >= AdjustEvery

Adjusts(v, s, amps) ==
    s.charging = Solar /\ amps > 0 /\ amps # s.amps /\ CanAdjust(v)

Verdict(w, v) ==
    LET j == job[w][v] IN
    /\ At(w, v, "verdict")
    /\ \/ j.st.soc >= j.cfg.target /\ Leave(w, v, "stop")
       \/ /\ j.st.soc < j.cfg.target
          /\ \E d \in Choices(j.cfg) :
             \E pc \in {"minTime"} \cup (IF Adjusts(v, j.st, d[2]) THEN {"adjustWake"} ELSE {}) :
                Become(w, v, [j EXCEPT !.pc = pc, !.to = d[1], !.amps = d[2]])
    /\ UNCHANGED <<storeVars, carVars, inTick, failCount, arr, down, tornVINs>>

AdjustWake(w, v) ==
    /\ At(w, v, "adjustWake")
    /\ \/ CarriedOut(v, car[v]) /\ Goto(w, v, "adjustAmps") /\ UNCHANGED age
       \/ /\ Spend("faults") /\ UNCHANGED car
          /\ LogEvent(v, "amps") /\ Goto(w, v, "minTime")
    /\ UNCHANGED <<cfg, st, permErr, inTick, failCount, arr, down, tornVINs>>

AdjustAmps(w, v) ==
    LET amps == job[w][v].amps
        c == [car[v] EXCEPT !.amps = amps] IN
    /\ At(w, v, "adjustAmps")
    /\ \/ CarriedOut(v, c) /\ SetAmps(v, amps)
       \/ Fails(v, c) /\ UNCHANGED st
    /\ LogEvent(v, "amps")
    /\ Goto(w, v, "minTime")
    /\ UNCHANGED <<cfg, permErr, inTick, failCount, arr, down, tornVINs>>

\* Mutant: the time is kept for grid charging.
MinTimeReachedGrid(v, j) ==
    \/ age[v]["start"] = Never
    \/ j.st.charging # Grid
    \/ LongerAgo(age[v]["start"], j.cfg.minTime)

\* minimumChargeTimeReached looks at the log as it is now.
MinTimeReached(v, j) ==
    \/ age[v]["start"] = Never
    \/ j.st.charging # Solar
    \/ LongerAgo(age[v]["start"], j.cfg.minTime)

MinTime(w, v) ==
    LET j == job[w][v] IN
    /\ At(w, v, "minTime")
    /\ Leave(w, v, IF MinTimeReached(v, j) /\ j.to = Not THEN "stop" ELSE "release")
    /\ UNCHANGED <<storeVars, carVars, inTick, failCount, arr, down, tornVINs>>
-----------------------------------------------------------------------------
(***************************************************************************)
(* stopCharging, and the end of the goroutine.                             *)
(***************************************************************************)
Stop(w, v) ==
    LET c == Stopped(car[v]) IN
    /\ At(w, v, "stop")
    /\ \/ (CarriedOut(v, c) \/ Asleep(v)) /\ Goto(w, v, "setStopped") /\ UNCHANGED age
       \/ Fails(v, c) /\ Leave(w, v, "release") /\ LogEvent(v, "stop")
    /\ UNCHANGED <<cfg, st, permErr, inTick, failCount, arr, down, tornVINs>>

RecordStopped(w, v) ==
    /\ At(w, v, "setStopped")
    /\ SetCharging(v, Not)
    /\ Goto(w, v, "logStop")
    /\ UNCHANGED <<cfg, age, permErr, carVars, inTick, failCount, arr, down, tornVINs>>

LogStop(w, v) ==
    /\ At(w, v, "logStop")
    /\ LogEvent(v, "stop")
    /\ Goto(w, v, "release")
    /\ UNCHANGED <<cfg, st, permErr, carVars, inTick, failCount, arr, down, tornVINs>>

\* Mutant: the drive ends without a stop.
EndHoldNoStop(v) ==
    /\ At("drive", v, "hold")
    /\ Goto("drive", v, "release")
    /\ UNCHANGED <<storeVars, carVars, inTick, failCount, arr, down, tornVINs>>

\* A test drive waits 30 seconds and stops whatever came of the start.
EndHold(v) ==
    /\ At("drive", v, "hold")
    /\ Goto("drive", v, "stop")
    /\ UNCHANGED <<storeVars, carVars, inTick, failCount, arr, down, tornVINs>>

\* The lookups under way that a removal of v tears: elements move, and the VIN
\* looked for is in the slice all the time.
TornBy(v, list) ==
    {u \in VIN \ {v} : arr[u].pc \in {"scan", "torn"} /\ list # inTick /\ InList(list, u)}

\* The deferred unsetInTick of a tick's goroutine; a panic ends the process.
Unset(v) ==
    LET list == UnsetInTick(inTick, v)
        torn == TornBy(v, list)
    IN  /\ inTick' = list
        /\ arr' = [u \in VIN |-> IF u \in torn THEN [arr[u] EXCEPT !.pc = "torn"] ELSE arr[u]]
        /\ tornVINs' = tornVINs \cup torn
        /\ UNCHANGED down

Release(w, v) ==
    /\ At(w, v, "release")
    /\ Become(w, v, None)
    /\ IF w = "drive" THEN UNCHANGED <<inTick, arr, down, tornVINs>>
       ELSE IF UnsetPanics(inTick, v) THEN down' = "list" /\ UNCHANGED <<inTick, arr, tornVINs>>
       ELSE Unset(v)
    /\ UNCHANGED <<storeVars, carVars, failCount>>
-----------------------------------------------------------------------------
(***************************************************************************)
(* The routes of the web UI that reach the controller's state.             *)
(***************************************************************************)
TestDrive(v) ==
    /\ down = "no" /\ job["drive"][v] = None
    /\ Spend("drives") /\ UNCHANGED car
    /\ LET row == [st[v] EXCEPT !.known = TRUE] IN
          /\ st' = [st EXCEPT ![v] = row]
          /\ Become("drive", v, [pc |-> "activate", cfg |-> cfg[v], st |-> row,
                                 to |-> Grid, amps |-> DriveAmps])
    /\ UNCHANGED <<cfg, age, permErr, inTick, failCount, arr, down, tornVINs>>

UpdateVehicle(v) ==
    /\ down = "no"
    /\ Spend("edits") /\ UNCHANGED car
    /\ \E c \in Configs \ {cfg[v]} : cfg' = [cfg EXCEPT ![v] = c]
    /\ UNCHANGED <<st, age, permErr, ctlVars>>

ResolvePermanentError ==
    /\ down = "no" /\ permErr
    /\ permErr' = FALSE
    /\ UNCHANGED <<cfg, st, age, carVars, ctlVars>>
-----------------------------------------------------------------------------
\* The steps of a tick's goroutine up to inTick, and of a worker after it.
Arriving(v) == ReadState(v) \/ SkipRound(v) \/ NotFound(v) \/ Register(v)

Working(w, v) ==
    \/ Activate(w, v) \/ Wake(w, v) \/ ActivateLimit(w, v) \/ ActivateAmps(w, v)
    \/ Start(w, v) \/ LogFailure(w, v) \/ CountFailure(w, v)
    \/ LogStart(w, v) \/ RecordCharging(w, v)
    \/ Stop(w, v) \/ RecordStopped(w, v) \/ LogStop(w, v) \/ Release(w, v)
    \/ w \in Ticks /\ (\/ CheckLimit(w, v) \/ Verdict(w, v) \/ AdjustWake(w, v)
                       \/ AdjustAmps(w, v) \/ MinTime(w, v))
    \/ w = "drive" /\ EndHold(v)

ControllerNext(v) == Arriving(v) \/ \E w \in Workers : Working(w, v)

UserNext(v) == TestDrive(v) \/ UpdateVehicle(v)

ControllerIdle ==
    /\ inTick = <<>>
    /\ failCount = 0
    /\ arr = [v \in VIN |-> None]
    /\ job = [w \in Workers |-> [v \in VIN |-> None]]
    /\ tornVINs = {}

ControllerTypeOK ==
    /\ inTick \in Seq(VIN)
    /\ failCount \in Nat
    /\ arr \in [VIN -> Arrival \cup {None}]
    /\ job \in [Workers -> [VIN -> Job \cup {None}]]
    /\ down \in {"no", "list", "event", "restart"}
    /\ tornVINs \subseteq VIN
=============================================================================
