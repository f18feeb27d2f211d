# chargebot, specified

TLA+ modules of chargebot: of the node, the program a Tesla owner runs at home, and of
the way through the server to the car and back. They say what the node does to the car
while its goroutines, the telemetry, the webhooks and the user interleave, while calls
fail and processes crash. TLC checks the modules on small instances; TLAPS proves the results listed under "Proofs" for every
value of the constants. Paths below are relative to `src/`.

## The system and its parts

| Part | Source | State | Operations | Interaction |
| --- | --- | --- | --- | --- |
| inTick registry | `node/charge-controller.go` 66-85 | the slice `inTick`, a mutex | `setInTick`, `unsetInTick`, `isInTick` | every tick's goroutines; the lookup takes no mutex |
| Charge controller | `node/charge-controller.go` | `inTick`, `ChargeStartFailCount`; the goroutines of the ticks | a tick per minute, one goroutine per vehicle: start, check, adjust, stop | reads rows and events, commands the car, writes rows and events |
| Solar surplus | `node/charge-controller.go` 263-283, 578-639; `node/user-router.go`, `node/mqtt-listener.go`, `node/telemetry-poller.go` | table `surpluses` | record, read the latest, derive a current | asked by the controller |
| Grid schedule | `node/charge-controller.go` 285-540, `node/db.go` | tables `tibber_prices`, `grid_hourblocks` | choose the hours to charge, with or without a departure | asked by the controller |
| Price update | `node/price-update-controller.go`, `node/tibber-api.go` | table `tibber_prices` | fetch today's and tomorrow's prices, again if it failed | feeds the grid schedule |
| Telemetry poller | `node/telemetry-poller.go` | list of vehicles, their last state | every 5 seconds, a state per vehicle: correct the row, end unconfirmed sessions, stop anomalies, detect the plug | same rows as the controller; stops the car |
| Plug handlers | `node/util.go` 126-165, `node/user-router.go` | goroutines that wait 20 seconds | plugged in, plugged out | started by the poller or by webhooks |
| Node database | `node/db.go` | `vehicles`, `vehicle_states`, `logs`, `settings` | upserts of one column, events | shared by all of the above |
| Node web API | `node/*-router.go` | none of its own | test drive, settings, resolve the permanent error; add and delete vehicles | the test drive has a controller of its own |
| Access token, HTTP retry | `node/tesla-api-proxy.go`, `node/util.go` 51-124 | the cached access token with its expiry, the refresh token | refresh; three tries per request | every call to the server |
| Server: telemetry relay | `zmq-proxy/zmq.go`, `server/vehicle-state-telemetry.go`, `server/telemetry-queue.go`, `server/rpc-handler.go` | the latest state per vehicle, in memory and in the database; the websocket's connections | receive a payload, store, hand out, push to subscribers | polled by the node |
| Server: accounts and sessions | `server/db.go`, `server/memcache.go`, `server/*-router.go` | users, vehicles, sessions with cars | sign in; register and unregister vehicles; commands through a cached session | used by the node with token and password |
| Server: Tesla client, OIDC | `server/tesla-api.go`, `server/oidc.go` | none | calls to Tesla and the identity provider | - |
| Push notifications, web frontends | `node/push-notification.go`, `frontend-node/`, `website*/` | none | output | - |

What makes the node hard to get right:

* one car is commanded by ticks, test drives, plug-in goroutines and the poller, and
  only ticks exclude each other, by a list that is read without its lock;
* every call to a car takes seconds to minutes, and the goroutine goes on with the row
  it read before;
* a command may fail although the car carries it out;
* telemetry tells an earlier state of the car, events and states are separate rows, and
  the process may be restarted between any two writes;
* a call passes two processes that may crash, time out and try again, with a token that
  expires meanwhile and is renewed by whoever finds it old;
* adding and deleting a vehicle changes the server's table, two of the node's and the
  poller's list, step by step, beside all of the above.

What has to hold, per part. Registry: no duplicates, no two goroutines on a vehicle, the
VIN leaves the list, no panic. Controller: a session starts when there is reason to,
lasts the minimum time, ends when the settings say so, and every command lost is made up
for. Poller: it corrects what went wrong and disturbs nothing that is right; it never
meets a session without its event. Plug handlers: the row comes to agree with the cable.
Surplus and schedule: the current covers what it should, the car is full in time at the
lowest price. Calls: a command is repeated only if its request had to be given up, with a
token that is good; the newest refresh token is never lost to a race; every call ends. Vehicles: the node's rows
and the server's table agree, and so do a vehicle's own rows; the node learns reports in
order, the latest in the end, and a subscriber is shown the latest that was sent.

`PROJECT.json` lists the hazards behind these, each with its line and the properties that
cover it.

## Modules

| Module | Models | State |
| --- | --- | --- |
| `InTickList` | `setInTick`, `unsetInTick`, `isInTick`, `slices.Delete` as functions on sequences | - |
| `TickRegistry` | the registry alone, lookup and insertion taken apart, torn lookups, the panic | `inTick`, `arriving`, `working`, `panicked`, `tornVINs` |
| `InTickListProofs` | lemmas on the slice | |
| `TickRegistryProofs` | theorems about the registry | |
| `VehicleStore` | the shared tables | `cfg`, `st`, `age`, `permErr` |
| `TeslaCar` | external: the cars, their drivers, commands that fail | `car`, `left` |
| `ChargeController` | `processVehicle`, `activateCharging`, `checkChargeProcess`, `stopCharging`, test drive, settings | `inTick`, `failCount`, `arr`, `job`, `down`, `tornVINs` |
| `TelemetryPoller` | `processState`, the plug handlers, the webhooks | `tel`, `poll`, `plug`, `hooks` |
| `ChargeBot` | the node: all of the above over one database, ticks, crash and restart; the properties | |
| `ChargeBotProofs` | theorems about the node | |
| `PriceUpdate` | the update of prices, step by step, and Tibber (external) | `now`, `price`, `published`, `known`, `update`, `left` |
| `GridCharging` | `checkStartOnGrid`, its three strategies, `getNextDeparture`, the chosen hours; a vehicle that charges by them | `first`, `soc`, `charging`, `blocks`, `tick`, `down` |
| `GridChargingProofs` | theorems about both | |
| `SolarSurplus` | recording surpluses, `getActualSurplus`, `checkStartOnSolar`, `canAdjustSolarAmps` and what follows from them; sun, meter and cars (external) | `sun`, `meter`, `car`, `readings`, `row`, `since`, `due`, `job`, `excess`, `left` |
| `SolarSurplusProofs` | theorems about it | |
| `TokenCache` | `GetCachedAccessToken`, `GetOrRefreshAccessToken`, `RefreshToken`, field by field; Tesla's grants (external) | `access`, `expiry`, `stored`, `grant`, `life`, `call` |
| `CommandServer` | `sendRequest`, `RetryHTTPRequest`; the server's handlers, `getOrInitSession`, `InMemoryCache` | `session`, `handler`, `carriedOut`, `unanswered` |
| `CommandServerProofs` | theorems about both | |
| `TelemetryRelay` | `zmqLoop`, `updateVehicleState`, `TelemetryQueue`, `websocket` with its two goroutines; a subscriber (external) | `registered`, `saved`, `queue`, `update`, `reader`, `ticker`, `vins`, `lastTs`, `shown` |
| `LatestReport` | abstract: what the way of telemetry promises | `latest`, `learnt`, `orderly` |
| `VehicleLifecycle` | `addVehicle`, `deleteVehicle` of node and server, `updateVehicle`, `DeleteVehicle`, `Poll`, `getVehicleState`, `Reconnect`; refines `LatestReport` | `rows`, `charging`, `events`, `polled`, `lastKnown`, `poll`, `req`, `handlers`, `work`, `known` |
| `VehicleLifecycleProofs` | theorems about it, the refinement included | |
| `NumberLemmas` | induction by a least counterexample, division, sums and greatest elements, for the proofs | |
| `MCTickRegistry`, `MCChargeBot`, `MCGridCharging`, `MCSolarSurplus`, `MCCommandServer`, `MCVehicleLifecycle` | values for TLC | |

`VehicleStore` <- `TeslaCar` <- `ChargeController` (with `InTickList`) <- `TelemetryPoller`
<- `ChargeBot` is one chain of EXTENDS, because the parts share variables as the code
shares tables. `TickRegistry` is the registry by itself, for more vehicles and goroutines
than `ChargeBot` could afford; lookup, insertion and removal are the same steps in both. `GridCharging`
extends `PriceUpdate` and stands beside that chain: it computes what `ChargeController`
leaves open, the answer of `checkStartOnGrid`, and leaves out what is modelled there, calls
to the car that take time and fail. `SolarSurplus` does the same for `checkStartOnSolar`,
and closes the loop: the current it derives changes what the meter reads next.
`TokenCache` <- `CommandServer` is a chain of its own, about what the others take for one
step, a call; so is `TelemetryRelay` <- `VehicleLifecycle`, about the telemetry that
`TelemetryPoller` takes as given and the rows that `ChargeBot` takes to be there.

### How the modules correspond to the code

*A goroutine is a record with a pc.* `arr[v]` is the tick's goroutine up to `setInTick`:
`"read"` before `GetVehicleState`, `"scan"` in the lookup of `isInTick` (`"torn"` once a
removal has shifted the slice under it), `"register"` after a lookup that found nothing, with
the settings and the row it holds. `job[w][v]` are goroutines at work, of ticks (`w` in
`Ticks`: as many on one vehicle as there are names) and `"drive"`: at `"wake"`,
`"setLimit"`, `"setAmps"`, `"start"`, `"checkLimit"`, `"adjustWake"`, `"adjustAmps"`,
`"stop"` they wait for the car, at the other pcs they are about to touch database or
memory. The record carries `cfg` and `st` as they were read, since the code goes on with
them; what the code reads anew (the events, `inTick`, the fail count) is read from the
variables. `poll` is the poller's goroutine in `processState`; `plug[v]` counts the
goroutines of `OnVehiclePluggedIn` before and after their `ChargeStop`.

*Actions.* `Minute` is the controller's ticker (`OnTick`). `ReadState`, `SkipRound`,
`NotFound`, `Register` are `processVehicle` up to its branches, which `Rounds` lists. `Activate` ... `RecordCharging`
are `activateCharging` call by call and write by write; `CheckLimit` ... `MinTime` are
`checkChargeProcess`; `Stop`, `RecordStopped`, `LogStop` are `stopCharging`; `Release` is
the deferred `unsetInTick`, whose panic ends the process; otherwise `Unset` says what it
leaves of the slice and which lookups it tears (`tornVINs` remembers them). `TestDrive`, `EndHold` are
`testDrive`; `UpdateVehicle` and `ResolvePermanentError` routes of the web UI. `Receive`,
`Reset`, `Anomaly`, `PollStop` ..., `Detect`, `VehicleData` are `processState` in the
order of its lines; `PlugStop`, `PlugSet`, `HookArrives` the plug handlers. `Crash` and
`Restart` keep the tables and lose all that is in memory. The cars (`PlugIn` ...
`Interrupt`) and `Send` are the world outside.

*Time.* The unit is a minute, the period of the ticker. An event is kept as the age of
the latest of its kind, which is all that the code asks of the log; ages stop growing
where no comparison can tell them apart any more (`Cap`). Local steps take no time: no
minute passes while one is due. Calls to the car may take any number of minutes, so the
HTTP client's retries need no steps of their own: a command and its retries are one call
that succeeds, is refused, or is carried out with its answer lost.

*Data.* Charge, limit and current are small numbers. What surplus and prices say is an
open choice of every look at them (`Weather`), limited by what the settings allow.

*Prices and hours.* In `GridCharging` time is absolute, in minutes from a Monday, UTC, and
passes in slots of half an hour with one tick each; an hour is its number. `known` is the
table of prices (a price, once told, does not change), `blocks` the table of chosen hours,
`first` the setup with the settings, which do not change. `update` is the goroutine of the
price update: it asks for today's prices if the table has none from today on, after noon
for tomorrow's, and writes what it gets hour by hour, between which ticks may come.
`CheckStartOnGrid` is the set of possible answers, more than one where equal prices leave
the order to SQLite. Prices are numbers to compare; the estimate of the charging time is
computed as in the code.

*Sun and current.* `SolarSurplus` counts in watts, amperes and minutes. `readings` is what
`GetLatestSurplusRecords` returns, the newer first, with its age; `since` the ages of the
events for current and start. A minute has one tick per vehicle (`Tick`, `Decision`), the
calls that follow are one step (`Answer`), in this minute or the next, and may end early
with any call that fails; a current may be set although the call failed, until `Telemetry`
corrects the row. `Report` is `recordSurplus` (a pair of inverter power and consumption is
its difference) or the MQTT subscriber's. A reading also remembers what each car drew when
it was taken (`load`), and `excess` counts the minutes since the sun last changed for which
the cars have been drawing more than there is: both are for the properties only, no action
looks at them. Settings do not change, and the cars stay plugged in and do not get full.

*Tokens and calls.* Tesla numbers its grants; grant `k` is a refresh token, taken once, and
an access token with `life[k]` minutes left. `call[g]` is a goroutine of the node in a call:
at `"expired"` and `"asking"` it refreshes the token, at `"granted"`, `"cached"`, `"dated"`
it writes `accessToken`, `expiry` and the setting, at `"ready"` it has a request to send,
at `"sent"` it waits. A request is a try of a caller; `handler[r]` is the server's handler of
request `r`, which goes on when the node has given up and stands beside that of the next try: it looks up the session
(`Lookup`), makes one (`InitSession`, `SetSession`) and sends the command. All calls are about one
vehicle, since a session is found by its VIN. `InTime` says how long the calls may take
(60 seconds for a client, 60 and 10 for the server's contexts) in terms of minutes:
what is between the choice of a token and its use takes at most `Delay`. The server's
plain requests to Tesla (`vehicle_data`, `wake_up`) go through a client without a timeout
(`server/util.go` 69): for those `Delay` is an assumption, not something the code enforces.
The tries of `RetryHTTPRequest` share one `http.Request` (`node/util.go` 94), whose body the
first one sent has used up. What becomes of the next depends on its connection: on one that was
kept open, as the poller's calls every five seconds keep one, the transport finds that nothing
could be written, reads the body anew (`GetBody`, which `http.NewRequest` sets for a
`bytes.Reader`) and sends the request in full (`Deliver`); on a new one the try fails without
reaching the server (`TryFails`, which takes no fault then). So a command may be carried out as often
as it is tried. `MaxTries` bounds the tries of each caller for TLC, three in the code.
The status codes that are retried (405, 408, 412) come from no handler, so that any answer is the last.
The server's calls to Tesla that are repeated are `vehicle_data`, `wake_up` and the telemetry
configuration, and nothing changes for that.

*Vehicles and reports.* A report is its number, in the order of acceptance, and the second
of its stamp; `known[v]` is the number of the report the node has processed last. `req[r]`
is a request of the web UI: `"register"`, `"create"` for adding, `"rows"`, `"logs"`,
`"states"`, `"unregister"` for deleting, then `"clear"`, `"query"`, `"fill"` for
`initVins`. `handlers` are the server's handlers of `vehicle_add` and `vehicle_delete`,
`by` the request that waits for one. `work[v]` is a goroutine of controller or test drive
between reading the vehicle and recording a session (`ChargeController` in three steps).
`spoiled`, `tangled`, `torn`, `overlap`, `crossed` are for the properties only: they
remember that two requests worked on a vehicle or one wrote a row that was not there, that two
filled the poller's list, that a vehicle was deleted under work or half deleted in a crash,
that two reports were saved at once, that two goroutines sent at once. Each stands for a
defect that TLC has found behind the property when it is left out (below).

Simplifications to know of:

* A lookup in `isInTick` is one step that sees the slice as it is, unless a removal has torn it:
  then it may miss a VIN that is there, or not.
* `Ticks` bounds the ticks' goroutines at work on one vehicle: one in the runs with one vehicle,
  where no lookup is torn, two in `skipped_round`.
* `Receive` merges reading the old row with the three corrections. A write of the
  controller's in between leaves the row it would leave before or after.
* The writes of `OnVehicleUnplugged` are one step.
* Telemetry is at most a minute old when it comes to the poller, unless `LateReports`.
  (`Grace` is five minutes in the code, `telemetry-poller.go` 206.) Reports are complete.
* `MaxPlugJobs` bounds the plug-in goroutines that are followed per vehicle: two in `plugging`,
  so that a late one meets another. Starting one more never holds the poller up; it is not counted.
* In `GridCharging` commands to the car succeed at once, and the battery gains a fixed
  amount per slot. The departure's time is taken as UTC, as the code does.
* In `SolarSurplus` telemetry reaches the row within the minute, a start or stop carried
  out although its answer is lost and the wait after a failed start are left out;
  `ChargeController` has these.
* In all modules but `VehicleLifecycle` the set of vehicles is fixed.
* `Direct` and `Command` are one step of the server each. A torn read of a Go string, which the unlocked
  fields of `TeslaAPIProxy` allow, is not modelled.
* In `VehicleLifecycle` a call for the telemetry configuration changes nothing, as its
  errors are only logged; what a report does to the row is `TelemetryPoller`'s matter, and
  here it either ends a session or does not. `activeVINs` is never read and left out. The
  server's `telemetry_state` stays when a vehicle is deleted, as in the code.

## What is checked

The runs `registry` and `release_forgets` are on `MCTickRegistry`, `grid` on
`MCGridCharging`, `solar` and `solar_stop` on `MCSolarSurplus`, `access` on
`MCCommandServer`, `vehicles` on `MCVehicleLifecycle`, all others on `MCChargeBot`.
A *setup*
gives a vehicle's settings, its car, whether the database has a row of it, and the bounds:
how many faults (a command refused, an answer lost, the car's charging interrupted),
edits of the settings, test drives, plug-ins, plug-outs, trips and restarts may happen.
They may happen anywhere.

| Run | Setup | Shows |
| --- | --- | --- |
| `registry` | 3 vehicles, 2 goroutines each when a tick comes | two goroutines on a vehicle only after a torn lookup; the panic needs three VINs in the slice; the vehicle in front is released (types and no duplicates are proved) |
| `sessions` | changing weather; two faults, or a plug-out, or webhooks, or a test drive with a fault, or a limit to be set, with a fault or an edit that has the current adjusted too | types; `PollerKeepsLiveSession`: the poller takes no running session for ended; `MinChargeTimeHonoured`: no cloud ends a session before its minimum time; `BusyIsRegistered`: who works is in the list |
| `recovery` | a fault and an edit, or a restart, or a drive of a disabled vehicle with a fault | a session has its event; disabled vehicles stop, drives end, phantom sessions end |
| `plugging` | autodetection from an empty database, telemetry of any age, cars that begin to charge by themselves: plugged in with a fault; with cheap energy and a restart; plugged in and out; or plugged out, on a trip, with a fault | `PlugStateSettles`: the row comes to agree with the cable; `PluggedInIsCharged` (first three setups): the car gets to charge, again and again |
| `grid` | every strategy; low, middling and high prices in any of five hours; prices known, or fetched with a failure or a restart | types; no decision panics; the departure planned for is the next; no charging above the limit; the car is charged at departure, in the cheapest hours only; an hour begun is used to its end; tomorrow's prices are in the table before tomorrow |
| `solar` | too little sun, some, and more than the car can take; two changes of it, an outage of the meter, a failed call | types; a current is adjusted on true estimates; no stop against a reading taken since the current has changed; the car draws too much for a bounded time only; it settles on all that can be spared; a silent meter ends charging |
| `access` | 2 goroutines that call, as often as they like; 2 grants; one lost answer, outage or crash | types (as many tries as allowed at most); `RepeatsWereUnanswered`: a command is carried out once more only if the node has had to give up the request before; tokens in use are good; the newest refresh token is kept; the cached expiry promises nothing; calls end |
| `vehicles` | 2 requests at a time, up to 4, to add, update and delete a vehicle, or two vehicles, or one that reports and is worked on; or 3 reports, polled and pushed to a subscriber; a fault | types; a row is registered; a session has its event; the poller knows the vehicles; the subscriber is current; reports are learnt in order (`LatestReport`), and the latest in the end |
| `release_forgets` | 2 vehicles | violation: `unsetInTick` leaves the second VIN in the list |
| `skipped_round` | 2 vehicles, two goroutines of ticks on each at most | violation: a torn lookup lets a second round begin on a vehicle |
| `anomaly` | changing weather, nothing goes wrong | violation: the poller stops a new session as an anomaly |
| `solar_stop` | one change of the sun, no failures | violation: charging is stopped on samples that were above the threshold |

The bounds. Every pair of actors and every place of a fault is in some run. Two faults let
a failed start be followed by a failed retry or stop, which is what `MaxFails = 2` needs;
one restart, drive or edit meets every point of a session; a charge of 0..2 passes from
"required" over "not required" to "at target"; the spans (minimum time, grace, wait after
a failed start, age of a stop) are one or two minutes, so that an event falls inside, at
the edge of and outside each. `recovery` and `plugging` have spans of zero where they do
not matter, for liveness is costly. (`BusyIsRegistered` of several vehicles is proved.)
`plugging` has a battery that does not fill and a target beyond what it has, so that in
three of its setups charging is always required and `PluggedInIsCharged` can only be met by a
charging car; the fourth, with the target reached, is there for the trip and `PlugStateSettles`.
In `registry` three vehicles are the least with which
the removal panics, and two goroutines per vehicle the least overlap.

`grid` has days of six hours and weeks of two days, with noon and the customer's time zone
to scale: two days hold a departure today and one tomorrow, hours before and after the
publication, and a midnight of either clock. `TomorrowIsStored` names the day on its left side: the
prices of the next have to be known while it lasts, if more updates are still to come in it than can fail. Twenty percent need two hours (of the five
before departure), so that the choice among hours, ties included, and the shrinking need
both matter. `PlanNeverPanics` is about vehicles with days to depart on; `ChargedAtDeparture`
about those that had the time and whose prices came without failure.

`solar` has a window and an interval between adjustments of three minutes for the five of
the code, equal as there, and a meter that reports every one or two minutes, so that the
two latest readings may straddle a change, or both precede it. The three suns are below the
minimum plus buffer, in between, and above the car's maximum. `MaxExcess` is what the code's
constants amount to: two windows and an interval (until no reading from before the change counts;
until a current set for one of those may be changed again; and, as that is measured up to the latest
reading, until there is a reading as late), or the minimum time and three minutes for reading, tick
and call. `Cap` lies beyond it, so that a count that no longer grows cannot pass for a short one.
The excess is one of 7 minutes at most with the two changes of the sun that `solar` has; with three
TLC finds one of 9, the bound, and none longer (1.3 million states; the theorem `ExcessEndsInTime`
has any number).
All is checked for a car on its own. With two, TLC finds `ExcessIsShort` and `Settles`
violated: each derives its current as if the other were not there. The code says nothing
of several vehicles on one surplus, so no run states it.

`access` has a token valid for three minutes that is renewed two before its end, a delay of
one and a session of two: a token may get old while it is cached, while it is on its way and
while it is in a session, in turn, and every comparison is met at the edge. One caller tries twice, so that
two requests of one call are with the server at once, the other once (three tries each are in the
theorems). `Delay` covers all the tries of a call: three minutes and some seconds, less than the
lead of five. Two callers are the
least that race, two grants the least for a stored token to be overwritten by an older.
`CacheNeverOverstates` holds although nothing is locked, because Tesla takes a refresh token
once, which lets only one goroutine past a refresh.

In `vehicles` each setup has one question, since the product of all bounds is out of reach:
requests against requests with a fault; two vehicles in the poller's list; requests against
a report, a goroutine at work and a fault; reports against poller and subscriber. Four requests
add, delete and add again with one more in between; two seconds let two of three
reports share one. The invariants are proved for any bounds.

Each property has a mutant in `PROJECT.json`: a defect of the kind one makes in such code,
under which TLC finds the property violated.

### Fairness

In `GridCharging`, `Spec` has weak fairness of the tick, the update and the passing of
time: tickers in goroutines of their own (`node/main.go` 57-90). In `SolarSurplus` it has
that of every vehicle's tick, of the answers to calls and of telemetry (same reasons as
below), of time, and of the reports of a meter that works. In `ChargeBot`, `FairSpec`
assumes that goroutines are scheduled and that every call ends (client timeout
60 seconds, `node/util.go` 88; three tries), that the poller polls and the minute passes,
that telemetry and webhooks arrive, and that a container that is down is started again
(`restart: always`, `README.md` 26). `Minute` is strongly fair: it is held back for an
instant by every local step, and there are always more of them to come. Nothing is assumed
of drivers, users, batteries, weather, or of the success of any command: the bound on
faults is all that makes commands succeed in the end. In `CommandServer` the node's goroutines
go on, requests arrive or fail, and a client gives up after its timeout; nothing is assumed
of the server, which may never answer: `CallsEnd` is the node's own doing. In
`VehicleLifecycle` the poller's ticker ticks and its calls end, started requests of the web UI
go on, and so do the two writes of a report at the server; nothing is assumed of calls
that register vehicles, of requests to come, subscribers or restarts. In `TickRegistry` the same holds of
ticks, goroutines and the restart.

### Disagreements found

1. `unsetInTick` passes 1 where `slices.Delete` takes the end of a range
   (`node/charge-controller.go` 79). A VIN second in the list stays there, and its vehicle
   is skipped from then on until it comes to the front or the node restarts; further back
   the call panics. The only test has one VIN.
2. The lookup in `isInTick` (84) reads the slice without the mutex while a removal shifts
   it, and may miss a VIN that is in it throughout: a second round begins on that vehicle, and the
   first of the two to end takes the VIN out of the list under the other ("skip this round if vehicle is
   still processing", 105).
3. The anomaly stop (`node/telemetry-poller.go` 229) looks at the latest stop only. A
   session the controller starts within five minutes of a stop can be stopped before its
   record is written.
4. `getActualSurplus` adds the current of now to samples of the last five minutes (611).
   When the current has been lowered, and no sample has come since, the next tick corrects
   the old samples by the new, smaller current, finds nothing to spare, and stops the
   session it has just adjusted, against "at least one sample must be above threshold"
   (606).

Also met in a round: a tick's goroutine reads the row (`node/charge-controller.go` 88) before it asks
`isInTick` (104), and uses it throughout. When the goroutine of the tick before records its start
and is done in between, the row read says "not charging", or names a source that is no longer the
session's: TLC finds a car that charges on cheap energy and is started again on surplus, and a round that
has read "grid" meanwhile stops that session in the minute of its start. It takes a vehicle with both
sources (`Weather` of all three kinds, the setup of `anomaly`), or what `SolarSessionsLast` excludes (see
Proofs).

Also met at the plug: with webhooks, plugging in takes effect after 20 seconds and plugging
out at once (`node/util.go` 147), so that a car plugged in and out within that time stays
plugged in for the node. In `sessions` this may happen; `PlugStateSettles` is about
autodetection, which makes up for it.

Also met in the prices: `getNextDeparture` compares hours only (366). With a departure at
half past, the plan of that hour is for the next departure, and the car misses the minutes
counted on, although the strategy is called "min. price, certainly charged at departure"
(`frontend-node/src/app/vehicle/page.tsx` 297); of the departures of `grid` those with a
limit are at half past, and `DepartureIsNext` says just that the current hour's is passed over.
A departure strategy without days ends the process at every tick
(`dayTokens[0]`, 381; a setup of `grid` has it). A restart in the middle of writing prices
leaves a day incomplete, which counts as fetched (`node/db.go` 442), so that
`TomorrowIsStored` leaves restarts out. The second loop of
`checkStartOnGrid_DepartureWithPriceLimit` does nothing that the first has not done. The
departure is taken as UTC, although it is entered in the user's time.

Also met in the calls (`access`; no text of the repository says otherwise, so these are no
findings). A command whose answer is lost or late is sent again, up to three times in all, and the car
may carry it out each time; `ChargeStart` and its like do no harm twice, but a late repetition comes
in between other commands. On a connection that was not kept open, and with HTTP/2, the second and third try of a request
with a body cannot succeed, and a lost answer is not made up for by `RetryHTTPRequest`. A crash, or a lost answer, between Tesla's grant and `SetSetting` leaves
a used refresh token in the database (`node/tesla-api-proxy.go` 72), and the sanity check
takes `TESLA_REFRESH_TOKEN` only if there is none (`node/main.go` 33): every call fails
until the database is repaired. `InMemoryCache.Get` reads its map without the mutex
(`server/memcache.go` 46), which may end the server's process.

Also met in the life of vehicles, each the reason for one of the exceptions in the
properties. A crash between the second and third statement of `DeleteVehicle`
(`node/db.go` 261-264), or a session recorded by a goroutine that was at work on the vehicle,
leaves a state that says charging and no event; when the vehicle is added again the poller
dereferences nil, and again after every restart. `updateVehicle` creates a row for a vehicle that
is not there, unregistered and unknown to the poller. A handler of the server that the node
has given up on may unregister a vehicle that has been added again. Reports may be saved in the
wrong order when the proxy is restarted while the server is at one. Two
requests in `initVins` may leave the poller without a vehicle, or with one twice;
`lastKnown` is a map that requests and poller write at once, which may end the process. The two
goroutines of a websocket write to the connection and to `lastTs` at once, and the
subscriber may be left with the older of two states. Reports of the same second count as one.

Also met, and in every run but not stated as a property: `ChargeStartFailCount` is counted
up without a lock (238), so that the reset by one vehicle's success can be undone by
another's failure. And restarted between a car's answer to a start and its record, the
node takes the late report for the end of the session (why `sessions` has no restarts).

## Proofs

`TickRegistryProofs`, for any set of vehicles and any `MaxWorking`:

* `RegistryTypeOK`, `RegistryNoDuplicates`, and `RegistryIsSound`, the invariant behind all.
* `OverlapNeedsTornLookup`: an untorn vehicle is never worked on twice. This property is
  not inductive: that a lookup which found nothing leads to no overlap rests on the
  vehicle not being worked on, which rests on working vehicles being in the list.
  `RegistryInv` says both, for the untorn. The faulty `unsetInTick` preserves it because
  it errs on the safe side, which `UnsetOutcome` states: on a list without duplicates it
  drops the VIN at the front, keeps all at the second place, and panics beyond.
* `PanicNeedsThreeVehicles`: three VINs in the slice, which is not three vehicles at work, since a removal
  may have left one behind.

`ChargeBotProofs`, for any set of vehicles, any settings, setups, weather and spans:

* `NodeTypeOK`. `TypeOK` is not inductive either: that `inTick` stays a sequence of VINs
  after the faulty removal needs that it has no duplicates, so the invariant is `TypeInv`,
  both together.
* `WorkersAreRegistered`: while a tick's goroutine works on a vehicle, `inTick` has it, unless a removal has
  torn one of the vehicle's lookups. `RegistryInv` says of an untorn vehicle what that takes with
  lookup and insertion apart: at most one goroutine of a tick works on it, it is in the list, and a lookup
  that found nothing has none at work beside it. `WorkingFrame` says that a worker's step leaves other goroutines alone, and the list but
  at its end; `UnsetKeepsOthers` that a removal, right or wrong, drops no other vehicle.
* `SessionsHaveEvents`: a row that says "charging" has its start event, and the poller
  never dereferences a missing one. `EventInv` follows the event through the steps between:
  a goroutine about to write the row has logged it, and the row the poller has read in
  an earlier step still has its event when it is used. `StartsNothing` names what all but
  three kinds of steps have in common.
* `LiveSessionsAreKept`: the poller takes no running session for ended, for cars that begin to
  charge only when told to (`~SelfStart`), where telemetry is not late (`~LateReports`), and as long as the
  process stays up (`[](down = "no")`; a restart between answer and record is met, see
  above). The news the poller holds says "not charging" only of a car that was so when it was
  sent; `NewsHolds` says that a session that has begun since has its start event in this
  minute (`JustStarted`) or is still to be recorded, which the code's look at the events
  tells apart. Every run but `plugging`, whose cars start by themselves, meets these hypotheses.
* `SolarSessionsLast`: no cloud ends a session before its minimum time, under `SunOnly`:
  vehicles that charge on surplus only, stay at home, keep their settings and are not
  test-driven. Faults, plug-ins and plug-outs, webhooks, crashes and any number of vehicles are
  allowed. The hypotheses are there because the property fails without them: with both sources
  (see above), two edits, a test drive, or a trip TLC finds a session cut short, as
  the row or the settings a goroutine has read are no longer the vehicle's. (`sessions` has some of
  these within bounds where the property holds.) `SolarInv` says what a goroutine holds at
  each pc on the way to `stopCharging`: the vehicle's settings, and a row (`Seen`) that names no
  source but the sun and no charge that the car has not had (`ChargeIsPast`). At `"stop"` it has one
  of the reasons of `MayStop`: the settings, the target, or a start long enough ago, which no
  other goroutine of a tick can make more recent, since `RegistryInv` says that there is none; a vehicle with
  a torn lookup is therefore left out, as in `MinChargeTimeHonoured`.

Both rest on frame lemmas (`AgeSteps`, `JobSteps`, `ArrSteps`, `CarSteps`, `RowSteps`,
`ReportSteps`) that list, variable by variable, which steps may change it and how.

`GridChargingProofs`, for any prices, settings, setups and faults, and days, weeks and slots
of any length:

* `GridTypeOK`.
* `LimitIsKept`: no charging above the limit after a tick's decision. Not inductive by
  itself, since an hour chosen earlier counts without another look at its price:
  `BlocksBelowLimit` says that with a limit all chosen hours are below it. `Decisions`
  states what each answer of `checkStartOnGrid` says of the hour.
* `NeverPanics`: for a vehicle with a day to depart on no decision runs into an empty list (without one the
  code does, 381). `PlanInv` says that from the hour that runs
  on there is no gap in the prices known (`NoGap`), which an update keeps because it writes the
  hours in order (`WritesInOrder`). It takes two assumptions that the code's setting justifies:
  an hour is a whole number of slots (`SlotAssumption`; a slot of the code is a minute), and
  the table at the beginning is one that updates leave (`TableAssumption`).
* `NextDepartureIsRight`: `getNextDeparture` returns the earliest departure in an hour that has not begun,
  for any set of days, any hour and minute; that of the current hour is passed over also when its
  minute is still to come (366). A fact of arithmetic about days and weeks, not of steps.
* `HoursAreUsedToTheEnd`: a car that charges in the middle of an hour has chosen it
  (`ChosenHourIsUsed`), and what is in `grid_hourblocks` is not asked for again.
* `CheapestHoursOnly`: with prices known up to the departure, only hours that are among the cheapest
  until then are chosen, as many as were needed at the beginning, for any prices, equal ones included.
  The code decides anew in every hour, with fewer hours left and less to charge; that this
  comes out as if it had planned once is what has to be shown. `CheapInv` speaks of the hours
  charged in so far (`used`) and of what is needed (`InStep`): used and needed hours are together no
  more than at first, and an hour that was passed over has left at least as many that cost no
  more as are needed now. When an hour is chosen, all cheaper ones that are gone have therefore been
  used, or it would not be among the cheapest of those left (`ChosenIsCheap`); when one is over,
  both sides have shrunk by one or neither (`HourIsOver`).
* `ChargedInTheCheapestHours`: such a car is also charged at its departure, if there was the time: at the end
  no hour is left, so either one was passed over, and then nothing is needed, or all were used,
  and they were enough (`NothingIsLeft`). `FirstIsPlanned` has it from `DepartureIsNext` that it is one
  departure that all decisions until then plan for.

The last two have three hypotheses. `GainsAsEstimated`: in a slot the battery gains no less than the
code counts for a slot; with a battery of more than the 100 kWh the code takes for granted both are
false. Since charge is counted in whole percents, it takes slots long enough for one: it is
a statement about slots like those of the run (half an hour), not of a minute.
`BeginsOnTheHour`: the car is plugged in when an hour begins, and departs when one does; a part of an hour at
either end is an hour to `RequiredBlocks`. And for the second at most 240 kW, beyond
which two percent take less than half a minute and are rounded to nothing. `MCGridCharging` assumes the first two, so that TLC finds that the run's values satisfy them.

`SolarSurplusProofs`, for any vehicles, settings, suns and faults:

* `SolarTypes`.
* `AdjustsOnTrueEstimates`: where readings count no longer than the current has to stay
  (`Window <= AdjustEvery`; five minutes both), a new current is derived only from readings
  that the present current is part of. The invariant follows the two tables the estimate
  combines: row and car agree but for a change just reported failed (`RowAgrees`), and a
  reading taken since the vehicle's latest event has the car's present draw in it
  (`LoadsKnown`), which a tick then finds to be all readings that count. `ShapeOK` says of
  the types only what this needs: the argument is about which reading was taken when, never
  about how many watts it says.
* `StopsForAReason`: charging is never stopped against a reading taken since its current has
  changed, from the same invariant and what `getActualSurplus` makes of such a reading.
* `ExcessEndsInTime`: a car on its own (`OneCar`) draws too much for at most `MaxExcess` minutes,
  counted from the latest change of the sun, also if the meter falls silent, while no call has
  failed, whatever the window, the interval, the minimum time, the suns and how often they change. `ExcessInv` says why, of the
  readings that count (after a minute of excess, those taken since tell of it; after a window,
  all that count), of the events (a car that draws too much has got its current before or
  soon after the excess began, `EventsNearExcess`), and of each call that is under way
  (`StartIsSafe`, `AdjustIsSafe`, `StopIsSafe`); `DoneInTime` counts down to the bound, with a
  minute for the tick and one for the call. `Cap` has to lie beyond the bound, and without
  `Window <= AdjustEvery` estimates are not true.

`CommandServerProofs`, for any number of goroutines, grants and faults, any spans of time:

* `AccessTypeOK`.
* `RepeatsNeedSilence`: if the car has carried out two requests of one call, the node has given up on the
  earlier. `RepeatInv` says it of all requests that have reached the server, carried out or still
  with a handler: those before the present try have been given up. An answer that is awaited ends the call,
  also one that says the command has failed.
* `NewestGrantIsKept`, `CacheIsNeverAhead`: at most one goroutine is past a refresh, since
  only the holder of the newest refresh token gets a grant and nobody can hold it until it is
  stored; then three unlocked writes have one writer at a time.
* `TokensInUseAreGood`, where `SessionLife <= Lead + 1` (five minutes both): a token's life is
  bounded below by what is left of its lead and of its session's age at every place it passes.

`VehicleLifecycleProofs`, for any vehicles, requests and bounds:

* `LifecycleTypeOK`.
* `NodeLearnsInOrder`: the specification implements `LatestReport`, with the server's table as
  the latest report, the node's knowledge as what is learnt, and order as long as reports are
  saved one at a time. Every step is mapped to one of its actions or a stutter. `OrderInv` says
  that what the poller holds is between what the node knows and what is saved, and that a
  report under way is newer than the one saved.
* `RowsAreRegistered`: `LaneInv` says that an unspoiled vehicle has one request and one handler
  at most, and where each stands when the other is at a given step.
* `SessionsHaveEvents` rests on `LaneInv`: without contention a vehicle's rows are deleted by
  one request, and whoever else touches them is torn.
* `PollerListIsRight`: the list, with the rows that a request has read and is still to append,
  is what rows there are, but for vehicles on whose account the list will be read again
  (`Reread`).
* `SubscribersAreCurrent`.

The lemmas on the slice the first two use are in `InTickListProofs`. The modules depend on
the named assumptions on constants of the modules they extend, which say of which kind each
constant is.

Induction over data is done by a least counterexample: the library's induction theorems
take an operator, which none of the provers can instantiate, but that a set of naturals that
is not empty has a least member (`LeastNatural` in `NumberLemmas`) they can prove and use. From
it come the lemmas on division, on sums over finite sets (`SumsAreIntegers`) and
on greatest elements that the modules on prices and surplus cite.

Only model-checked are

* all properties that need fairness, since the prover has no ENABLED: `FrontIsReleased`,
  `DisabledVehicleStops`, `TestDriveEnds`, `PhantomSessionEnds`, `PlugStateSettles`,
  `PluggedInIsCharged`, `TomorrowIsStored`, `Settles`, `SilenceStops`, `CallsEnd`,
  `LatestReportArrives`;
* `ChargedAtDeparture` where prices are not known up to the departure from the beginning: how
  much time is left when they arrive depends on when Tibber publishes them and for how long, and
  that `Cheapest` waits no longer than twice the time needed is enough for the run's numbers, not for any.

All other properties of passing runs are proved, under the hypotheses said. Proofs assume nothing but the named
assumptions of the modules and, where a theorem says so, its hypotheses.

## Not modelled, and why

* Users, API tokens with passwords, one-time auth codes and signing in at the server
  (`server/db.go`, `server/auth-router.go`, `server/tesla-auth-router.go`): lookups and single
  writes of one request each, with no step of another actor in between that could
  matter to the node. The modules take a node's token and password as right.
* OIDC, the exchange of the first Tesla token, push notifications, frontends: calls to others
  without state of their own. Generated protobuf code.
* Payloads that lack fields, which `zmqLoop` fills with zero and false: every report of the modules
  is complete. What such a report does to a session is what a late one does.
* Several vehicles on one surplus: see the bounds of `solar`.
* The node's routes for single commands, the encryption of the refresh token, upgrades of the
  database's structure.

What could be added next: the composition of `VehicleLifecycle` with `ChargeBot`, of which the
former has the controller in three steps only; a one-step start and stop of which
`activateCharging` and `stopCharging` are refinements where nothing fails;
slots of a minute with a charge counted finer than in percents, and `ChargedInTheCheapestHours` for them.
