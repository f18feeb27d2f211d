------------------------------ MODULE ChargeBot ------------------------------
(***************************************************************************)
(* The node as a whole: charge controller, telemetry poller, plug handlers *)
(* and web UI over one database, with the cars.                            *)
(***************************************************************************)
EXTENDS TelemetryPoller

vars == <<storeVars, carVars, ctlVars, pollVars>>

\* What the node starts with: a vehicle's settings, its car, whether there is
\* a row of it from before, and the bounds.
CONSTANT Setups

ASSUME SetupAssumption ==
    Setups \subseteq [cfg : Configs, car : CarState, known : BOOLEAN, left : [Bounded -> Nat]]

FirstRow(s) ==
    IF s.known THEN [known |-> TRUE, plugged |-> s.car.plugged, charging |-> Not,
                     soc |-> s.car.soc, amps |-> s.car.amps, limit |-> s.car.limit,
                     home |-> s.car.home]
               ELSE NoRow

Init ==
    /\ \E s \in Setups :
          /\ cfg = [v \in VIN |-> s.cfg]
          /\ car = [v \in VIN |-> s.car]
          /\ st = [v \in VIN |-> FirstRow(s)]
          /\ left = s.left
    /\ age = [v \in VIN |-> [k \in Kinds |-> Never]]
    /\ permErr = FALSE
    /\ down = "no"
    /\ ControllerIdle
    /\ tel = [v \in VIN |-> None]
    /\ PollerIdle
    /\ hooks = [v \in VIN |-> <<>>]
-----------------------------------------------------------------------------
\* A minute passes; it ends with the controller's tick.
Minute ==
    /\ down = "no" /\ ~LocalStepDue /\ ~PollStepDue
    /\ AgeEvents
    /\ OnTick
    /\ tel' = Refreshed
    /\ UNCHANGED <<cfg, st, carVars, poll, plug, hooks>>

\* Docker stops the container, or starts it again: the database stays.
Crash ==
    /\ down = "no"
    /\ Spend("restarts") /\ UNCHANGED car
    /\ down' = "restart"
    /\ UNCHANGED <<storeVars, inTick, failCount, arr, job, tornVINs, pollVars>>

Restart ==
    /\ down # "no"
    /\ down' = "no"
    /\ inTick' = <<>>
    /\ failCount' = 0
    /\ tornVINs' = {}
    /\ arr' = [v \in VIN |-> None]
    /\ job' = [w \in Workers |-> [v \in VIN |-> None]]
    /\ poll' = Idle
    /\ plug' = [v \in VIN |-> [stopping |-> 0, setting |-> 0]]
    /\ UNCHANGED <<storeVars, carVars, tel, hooks>>

Controller(v) == ControllerNext(v) /\ UNCHANGED pollVars
User(v) == UserNext(v) /\ UNCHANGED pollVars
Resolve == ResolvePermanentError /\ UNCHANGED pollVars
World(v) == /\ CarNext(v) /\ CallHook(v)
            /\ UNCHANGED <<storeVars, ctlVars, tel, poll, plug>>

Next == \/ Minute \/ Crash \/ Restart \/ Resolve \/ PollStep
        \/ \E v \in VIN : \/ Controller(v) \/ User(v) \/ World(v)
                          \/ Send(v) \/ PlugStep(v) \/ HookArrives(v)

Spec == Init /\ [][Next]_vars

(***************************************************************************)
(* Goroutines are scheduled, calls end (the HTTP client's timeout is one   *)
(* minute, with three tries), both tickers tick, a container that is down  *)
(* is started again (restart: always), and telemetry and webhooks arrive.  *)
(* Minute needs strong fairness because local steps, of which there are    *)
(* always more to come, hold it back for an instant each.                  *)
(* Nothing is assumed of drivers, users and batteries.                     *)
(***************************************************************************)
Fairness ==
    /\ SF_vars(Minute) /\ WF_vars(Restart) /\ WF_vars(PollStep)
    /\ \A v \in VIN :
          /\ WF_vars(Arriving(v) /\ UNCHANGED pollVars)
          /\ \A w \in Workers : WF_vars(Working(w, v) /\ UNCHANGED pollVars)
          /\ WF_vars(PlugStep(v)) /\ WF_vars(HookArrives(v)) /\ WF_vars(Send(v))

FairSpec == Spec /\ Fairness
-----------------------------------------------------------------------------
TypeOK == StoreTypeOK /\ CarTypeOK /\ ControllerTypeOK /\ PollerTypeOK

\* A row that says the vehicle charges is backed by a logged start: the event
\* whose time processState takes without a check (telemetry-poller.go:206) is
\* there, so that the poller never brings the process down.
ChargingHasStartEvent ==
    /\ \A v \in VIN : st[v].charging # Not => age[v]["start"] # Never
    /\ down # "event"

\* A tick's goroutine that works on a vehicle has it in inTick, so that later
\* ticks leave the vehicle alone until the work is done (charge-controller.go:104),
\* unless a removal has torn the lookup of one of the vehicle's goroutines.
BusyIsRegistered ==
    \A v \in VIN \ tornVINs, w \in Ticks : job[w][v] # None => InList(inTick, v)

\* What the comment at charge-controller.go:105 says: a round is skipped while
\* the vehicle is still being processed, so no two rounds process it at once.
RoundIsSkippedWhileProcessing ==
    \A v \in VIN, w, x \in Ticks : job[w][v] # None /\ job[x][v] # None => w = x

\* The car has just answered a start, whose outcome is still to be recorded.
BeingRecorded(v, pcs) == \E w \in Workers : job[w][v].pc \in pcs

\* The poller takes a session for ended only if the car really does not charge
\* any more, or if the record of another start is about to follow, whatever the
\* order in which calls, records and telemetry come (telemetry-poller.go:202).
PollerKeepsLiveSession ==
    [][\A v \in VIN :
        (/\ poll.pc = "reset" /\ poll'.pc = "anomaly"
         /\ st[v].charging # Not /\ st'[v].charging = Not)
            => ~car[v].charging \/ BeingRecorded(v, {"logStart", "setCharging", "logFailure"})]_vars

\* A tick stops a car that charges on surplus before the minimum charging time
\* is over only if the settings or the target SoC end the session, never for
\* a cloud (charge-controller.go:666).  Two goroutines that work on one vehicle
\* know nothing of each other's sessions: a vehicle with a torn lookup is left out.
MinChargeTimeHonoured ==
    [][\A v \in VIN \ tornVINs, w \in Ticks :
        (/\ job[w][v].pc = "stop" /\ job'[w][v].pc # "stop"
         /\ car[v].charging /\ ~car'[v].charging
         /\ st[v].charging = Solar
         /\ ~Disallowed(cfg[v], st[v]) /\ st[v].soc < cfg[v].target)
            => LongerAgo(age[v]["start"], cfg[v].minTime)]_vars

\* An anomaly stop ends only what goes on after a stop, never a session that
\* the controller has started since, as telemetry-poller.go:222 says.
AnomalyStopsLeftoversOnly ==
    [][\A v \in VIN :
        (/\ poll.pc = "stop" /\ poll.vin = v /\ poll'.pc # "stop"
         /\ car[v].charging /\ ~car'[v].charging)
            => /\ st[v].charging = Not
               /\ ~BeingRecorded(v, {"logStart", "setCharging"})]_vars
-----------------------------------------------------------------------------
\* A session of a vehicle that is not enabled any more is ended, although
\* single calls to the car fail.
DisabledVehicleStops ==
    \A v \in VIN :
        (~cfg[v].enabled /\ st[v].charging # Not /\ st[v].plugged)
            ~> (cfg[v].enabled \/ ~car[v].charging \/ ~st[v].plugged \/ permErr)

\* A test drive leaves a car that its vehicle's settings keep from charging
\* stopped, even if one of its commands fails: nothing in testDrive looks at
\* the outcome of stopCharging (manual-ctrl-router.go:45).
TestDriveEnds ==
    \A v \in VIN : job["drive"][v].pc = "hold" ~> ~car[v].charging

\* A session the car does not run any more is not believed in for ever.
PhantomSessionEnds ==
    \A v \in VIN :
        (st[v].charging # Not /\ ~car[v].charging)
            ~> (st[v].charging = Not \/ car[v].charging)

\* A vehicle that is plugged in at home, with lasting surplus, gets to charge,
\* again and again until the controller sees no need any more.
PluggedInIsCharged ==
    \A v \in VIN :
        (car[v].plugged /\ cfg[v].enabled)
            ~> \/ car[v].charging \/ car[v].soc >= cfg[v].target - 1
               \/ ~car[v].plugged \/ ~cfg[v].enabled \/ permErr

\* With autodetection the row comes to agree with the cable.
PlugStateSettles ==
    \A v \in VIN : (st[v].plugged # car[v].plugged) ~> (st[v].plugged = car[v].plugged)
=============================================================================
