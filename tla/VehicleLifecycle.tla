-------------------------- MODULE VehicleLifecycle --------------------------
(***************************************************************************)
(* Adding and deleting vehicles, and how the node keeps up with their      *)
(* telemetry meanwhile.  A request of the web UI changes the node's        *)
(* database, calls the server to register or unregister the vehicle, and   *)
(* has the poller read its list of vehicles anew.  Requests may run at the *)
(* same time; the poller, the controller's goroutines and the server's     *)
(* handlers go on beside them, a handler also when the node has given up   *)
(* waiting for it.                                                         *)
(*                                                                         *)
(* What a report does to the state row is TelemetryPoller's matter.  Here  *)
(* it counts which report the node has got to know, and that the poller    *)
(* uses the latest start event of a vehicle whose row says it charges      *)
(* without asking whether there is one.                                    *)
(***************************************************************************)
EXTENDS TelemetryRelay

CONSTANTS
    Req,        \* requests of the web UI that may run at the same time
    Setups      \* the user's cars, those added at first, and the bounds

ASSUME SetupAssumption == 
    Setups \subseteq [cars : SUBSET VIN, added : SUBSET VIN, left : [Bounded -> Nat]]

VARIABLES
    cars,       \* Tesla: the vehicles of the user, as ListVehicles returns them
    rows,       \* the node's table vehicles
    charging,   \* vehicle_states: vehicles whose row says that they charge
    events,     \* logs: vehicles with a charge start
    known,      \* auxiliary: number of the report the node knows of each vehicle
    polled,     \* TelemetryPoller.vins
    lastKnown,  \* TelemetryPoller.lastKnown, -1 where there is no entry
    poll,       \* the poller's goroutine
    req,        \* requests under way
    handlers,   \* the server's handlers of vehicle_add and vehicle_delete
    work,       \* a goroutine that starts to charge the vehicle
    spoiled,    \* auxiliary: vehicles two requests were at work on at once, or
                \* that were updated without being there
    tangled,    \* auxiliary: two requests have read the list of vehicles at once
    torn        \* auxiliary: vehicles deleted while a goroutine worked on them,
                \* or with a crash between the last two statements

dbVars == <<rows, charging, events>>
pollerVars == <<known, polled, lastKnown, poll>>
reqVars == <<req, handlers, spoiled, tangled>>
nodeVars == <<dbVars, pollerVars, reqVars, work, torn>>
relayVars == <<storeVars, wsVars>>
vars == <<nodeVars, relayVars, left, cars>>

Waiting == {"register", "unregister"}
Deleting == {"rows", "logs", "states"}
Reading == {"query", "fill"}
ReqPC == {"idle", "create", "clear"} \cup Waiting \cup Deleting \cup Reading

Request == [pc : ReqPC, vin : SUBSET VIN, todo : SUBSET VIN, seen : SUBSET VIN]
NoRequest == [pc |-> "idle", vin |-> {}, todo |-> {}, seen |-> {}]

Handler == [op : Waiting, vin : VIN, by : SUBSET Req]

NoPoll == [pc |-> "idle", todo |-> {}, vin |-> {}, got |-> NoReport]

Init ==
    /\ \E s \in Setups :
          /\ RelayInit(s.added, s.left)
          /\ cars = s.cars
          /\ rows = s.added /\ polled = s.added
          /\ lastKnown = [v \in VIN |-> IF v \in s.added THEN 0 ELSE -1]
    /\ charging = {} /\ events = {}
    /\ known = [v \in VIN |-> 0]
    /\ poll = NoPoll
    /\ req = [r \in Req |-> NoRequest]
    /\ handlers = {}
    /\ work = [v \in VIN |-> "none"]
    /\ spoiled = {} /\ tangled = FALSE /\ torn = {}

At(r, pc) == req[r].pc = pc
Goto(r, pc) == req' = [req EXCEPT ![r].pc = pc]
On(r, v) == v \in req[r].vin
-----------------------------------------------------------------------------
(***************************************************************************)
(* Requests.  Each first asks Tesla whether the vehicle is the user's, and *)
(* so does the server.  The calls for the telemetry configuration, whose   *)
(* errors are only logged, change nothing here.                            *)
(***************************************************************************)
Contended(v) == (\E r \in Req : On(r, v)) \/ \E h \in handlers : h.vin = v

Begin(r, v, pc) ==
    /\ At(r, "idle") /\ v \in cars /\ Spend("requests")
    /\ req' = [req EXCEPT ![r] = [NoRequest EXCEPT !.pc = pc, !.vin = {v}]]
    /\ spoiled' = IF Contended(v) THEN spoiled \cup {v} ELSE spoiled

\* A call to the server, which starts a handler there.
Call(r, v, op) == handlers' = handlers \cup {[op |-> op, vin |-> v, by |-> {r}]}

\* Mutant: the row first.
AddRowFirst(r, v) ==
    /\ Begin(r, v, "register") /\ Call(r, v, "register")
    /\ rows' = rows \cup {v}
    /\ UNCHANGED <<charging, events, pollerVars, tangled, work, torn, relayVars>>

Add(r, v) ==
    /\ Begin(r, v, "register") /\ Call(r, v, "register")
    /\ UNCHANGED <<dbVars, pollerVars, tangled, work, torn, relayVars>>

Create(r, v) ==
    /\ At(r, "create") /\ On(r, v)
    /\ rows' = rows \cup {v}
    /\ Goto(r, "clear")
    /\ UNCHANGED <<charging, events, pollerVars, handlers, spoiled, tangled, work, torn, relayVars, left>>

\* updateVehicle writes the row without asking whether there is one.
UpdateVehicle(v) ==
    /\ v \in cars /\ Spend("requests")
    /\ rows' = rows \cup {v}
    /\ spoiled' = IF v \in rows /\ ~Contended(v) THEN spoiled ELSE spoiled \cup {v}
    /\ UNCHANGED <<charging, events, pollerVars, req, handlers, tangled, work, torn, relayVars>>

\* deleteVehicle asks for the row, and DeleteVehicle has three statements.
Delete(r, v) ==
    /\ v \in rows
    /\ Begin(r, v, "rows")
    /\ UNCHANGED <<dbVars, pollerVars, handlers, tangled, work, torn, relayVars>>

\* A goroutine that has read the vehicle goes on with it.
AtWork(v) == work[v] # "none" \/ (poll.pc = "process" /\ poll.vin = {v})
Races(v) == torn' = IF AtWork(v) THEN torn \cup {v} ELSE torn

DeleteRow(r, v) ==
    /\ At(r, "rows") /\ On(r, v)
    /\ rows' = rows \ {v}
    /\ Races(v)
    /\ Goto(r, "logs")
    /\ UNCHANGED <<charging, events, pollerVars, handlers, spoiled, tangled, work, relayVars, left>>

DeleteLogs(r, v) ==
    /\ At(r, "logs") /\ On(r, v)
    /\ events' = events \ {v}
    /\ Goto(r, "states")
    /\ UNCHANGED <<rows, charging, pollerVars, handlers, spoiled, tangled, work, torn, relayVars, left>>

\* Mutant: the state is left, as the prices are.
DeleteNoState(r, v) ==
    /\ At(r, "states") /\ On(r, v)
    /\ Goto(r, "unregister") /\ Call(r, v, "unregister")
    /\ UNCHANGED <<dbVars, pollerVars, spoiled, tangled, work, torn, relayVars, left>>

DeleteState(r, v) ==
    /\ At(r, "states") /\ On(r, v)
    /\ charging' = charging \ {v}
    /\ Goto(r, "unregister") /\ Call(r, v, "unregister")
    /\ UNCHANGED <<rows, events, pollerVars, spoiled, tangled, work, torn, relayVars, left>>

\* The server's handler, whose answer the node gets if it waits for it still.
Carry(h) ==
    /\ registered' = IF h.op = "register" THEN registered \cup {h.vin} ELSE registered \ {h.vin}
    /\ handlers' = handlers \ {h}
    /\ req' = [r \in Req |-> IF r \notin h.by THEN req[r]
                             ELSE [req[r] EXCEPT !.pc = IF h.op = "register" THEN "create" ELSE "clear"]]
    /\ UNCHANGED <<dbVars, pollerVars, spoiled, tangled, work, torn, left,
                   saved, queue, update, second, accepted, overlap, wsVars>>

\* The call fails, while the server may go on with it.  That ends adding, and
\* is nothing to deleting.
Unanswered(rs) ==
    req' = [r \in Req |-> IF r \notin rs THEN req[r]
                         ELSE IF At(r, "register") THEN NoRequest
                         ELSE [req[r] EXCEPT !.pc = "clear"]]

CallFails(h) ==
    /\ Spend("faults") /\ h.by # {}
    /\ Unanswered(h.by)
    /\ \E on \in {{}, {[h EXCEPT !.by = {}]}} : handlers' = (handlers \ {h}) \cup on
    /\ UNCHANGED <<dbVars, pollerVars, spoiled, tangled, work, torn, relayVars>>

\* The server's process ends, and its handlers with it.
ServerRestart ==
    /\ ServerEnds
    /\ handlers' = {}
    /\ Unanswered({r \in Req : req[r].pc \in Waiting})
    /\ UNCHANGED <<dbVars, pollerVars, spoiled, tangled, work, torn>>
-----------------------------------------------------------------------------
(***************************************************************************)
(* initVins, run by the request: the poller's fields are emptied, and      *)
(* filled from the database, without a lock.                               *)
(***************************************************************************)
\* Mutant: the vehicles known before stay in the list.
ClearTimes(r) ==
    /\ At(r, "clear")
    /\ lastKnown' = [v \in VIN |-> -1]
    /\ tangled' = (tangled \/ \E s \in Req : req[s].pc \in Reading)
    /\ Goto(r, "query")
    /\ UNCHANGED <<dbVars, known, polled, poll, handlers, spoiled, work, torn, relayVars, left>>

Clear(r) ==
    /\ At(r, "clear")
    /\ polled' = {} /\ lastKnown' = [v \in VIN |-> -1]
    /\ tangled' = (tangled \/ \E s \in Req : req[s].pc \in Reading)
    /\ Goto(r, "query")
    /\ UNCHANGED <<dbVars, known, poll, handlers, spoiled, work, torn, relayVars, left>>

Query(r) ==
    /\ At(r, "query")
    /\ req' = [req EXCEPT ![r].pc = "fill", ![r].todo = rows, ![r].seen = polled]
    /\ UNCHANGED <<dbVars, pollerVars, handlers, spoiled, tangled, work, torn, relayVars, left>>

\* append may add to what the goroutine has seen before, if others add too.
Fill(r, v) ==
    /\ At(r, "fill") /\ v \in req[r].todo
    /\ \E before \in {polled, req[r].seen} : polled' = before \cup {v}
    /\ lastKnown' = [lastKnown EXCEPT ![v] = 0]
    /\ req' = [req EXCEPT ![r].todo = @ \ {v}, ![r].seen = polled']
    /\ UNCHANGED <<dbVars, known, poll, handlers, spoiled, tangled, work, torn, relayVars, left>>

Respond(r) ==
    /\ At(r, "fill") /\ req[r].todo = {}
    /\ req' = [req EXCEPT ![r] = NoRequest]
    /\ UNCHANGED <<dbVars, pollerVars, handlers, spoiled, tangled, work, torn, relayVars, left>>
-----------------------------------------------------------------------------
(***************************************************************************)
(* The poller: every five seconds, the state of each of its vehicles.      *)
(***************************************************************************)
NextVehicle(p) == [NoPoll EXCEPT !.pc = IF p.todo = {} THEN "idle" ELSE "get", !.todo = p.todo]

PollTick ==
    /\ poll.pc = "idle"
    /\ poll' = NextVehicle([poll EXCEPT !.todo = polled])
    /\ UNCHANGED <<dbVars, known, polled, lastKnown, reqVars, work, torn, relayVars, left>>

\* Mutant: the state in memory instead of the one in the database.
GetQueuedState(v) ==
    /\ poll.pc = "get" /\ v \in poll.todo
    /\ poll' = [poll EXCEPT !.pc = "check", !.todo = @ \ {v}, !.vin = {v}, !.got = queue[v]]
    /\ UNCHANGED <<dbVars, known, polled, lastKnown, reqVars, work, torn, relayVars, left>>

\* The server answers for a vehicle that is registered.
GetState(v) ==
    /\ poll.pc = "get" /\ v \in poll.todo
    /\ LET p == [poll EXCEPT !.pc = "check", !.todo = @ \ {v}, !.vin = {v}, !.got = saved[v]] IN
       \/ v \in registered /\ poll' = p /\ UNCHANGED left
       \/ v \notin registered /\ poll' = NextVehicle(p) /\ UNCHANGED left
       \/ Spend("faults") /\ poll' = NextVehicle(p)
    /\ UNCHANGED <<dbVars, known, polled, lastKnown, reqVars, work, torn, relayVars>>

\* getVehicleState, and the look at the vehicle's row in processState.
Check(v) ==
    /\ poll.pc = "check" /\ poll.vin = {v}
    /\ poll' = IF lastKnown[v] >= poll.got.utc THEN NextVehicle(poll)
               ELSE [poll EXCEPT !.pc = IF v \in rows /\ poll.got.no # 0 THEN "process" ELSE "note"]
    /\ UNCHANGED <<dbVars, known, polled, lastKnown, reqVars, work, torn, relayVars, left>>

\* processState, with a report that does not confirm a session or one that does.
Eventless(v) == v \in charging /\ v \notin events

Process(v) ==
    /\ poll.pc = "process" /\ poll.vin = {v}
    /\ known' = [known EXCEPT ![v] = poll.got.no]
    /\ \/ UNCHANGED charging
       \/ ~Eventless(v) /\ charging' = charging \ {v}
    /\ poll' = [poll EXCEPT !.pc = "note"]
    /\ UNCHANGED <<rows, events, polled, lastKnown, reqVars, work, torn, relayVars, left>>

\* Mutant: the time of polling is noted, not the time of the report.
NoteNow(v) ==
    /\ poll.pc = "note" /\ poll.vin = {v}
    /\ lastKnown' = [lastKnown EXCEPT ![v] = second]
    /\ poll' = NextVehicle(poll)
    /\ UNCHANGED <<dbVars, known, polled, reqVars, work, torn, relayVars, left>>

Note(v) ==
    /\ poll.pc = "note" /\ poll.vin = {v}
    /\ lastKnown' = [lastKnown EXCEPT ![v] = poll.got.utc]
    /\ poll' = NextVehicle(poll)
    /\ UNCHANGED <<dbVars, known, polled, reqVars, work, torn, relayVars, left>>
-----------------------------------------------------------------------------
(***************************************************************************)
(* A goroutine of the controller or of a test drive (ChargeController): it *)
(* has read the vehicle, starts to charge it and records that.             *)
(***************************************************************************)
Work(v) ==
    /\ v \in rows /\ work[v] = "none" /\ Spend("works")
    /\ work' = [work EXCEPT ![v] = "log"]
    /\ UNCHANGED <<dbVars, pollerVars, reqVars, torn, relayVars>>

LogStart(v) ==
    /\ work[v] = "log"
    /\ events' = events \cup {v}
    /\ work' = [work EXCEPT ![v] = "set"]
    /\ UNCHANGED <<rows, charging, pollerVars, reqVars, torn, relayVars, left>>

SetCharging(v) ==
    /\ work[v] = "set"
    /\ charging' = charging \cup {v}
    /\ work' = [work EXCEPT ![v] = "none"]
    /\ UNCHANGED <<rows, events, pollerVars, reqVars, torn, relayVars, left>>

\* The node's process ends and is started again: Poll reads the vehicles.
NodeDown ==
    /\ poll' = NoPoll
    /\ polled' = rows
    /\ lastKnown' = [v \in VIN |-> IF v \in rows THEN 0 ELSE -1]
    /\ req' = [r \in Req |-> NoRequest]
    /\ handlers' = {[h EXCEPT !.by = {}] : h \in handlers}
    /\ work' = [v \in VIN |-> "none"]
    /\ tangled' = FALSE
    /\ torn' = torn \cup UNION {req[r].vin : r \in {s \in Req : At(s, "states")}}
    /\ UNCHANGED <<dbVars, known, spoiled, relayVars>>

NodeRestart == Spend("faults") /\ NodeDown

\* Two ways in which the process ends by itself: a session without its event,
\* and lastKnown read or written by the poller while a request writes it.
Crashes ==
    \/ poll.pc = "process" /\ \E v \in poll.vin : Eventless(v)
    \/ poll.pc \in {"check", "note"} /\ \E r \in Req : req[r].pc = "fill" /\ req[r].todo # {}

NodeFault == Crashes /\ NodeDown /\ UNCHANGED left

RequestStep(r) ==
    \/ Clear(r) \/ Query(r) \/ Respond(r)
    \/ \E v \in VIN : \/ Create(r, v) \/ DeleteRow(r, v) \/ DeleteLogs(r, v)
                      \/ DeleteState(r, v) \/ Fill(r, v)
Requests == \/ \E r \in Req : RequestStep(r) \/ \E v \in VIN : Add(r, v) \/ Delete(r, v)
            \/ \E v \in VIN : UpdateVehicle(v)
            \/ \E h \in handlers : Carry(h) \/ CallFails(h)
PollStep == PollTick \/ \E v \in VIN : GetState(v) \/ Check(v) \/ Process(v) \/ Note(v)
WorkStep == \E v \in VIN : Work(v) \/ LogStart(v) \/ SetCharging(v)

Step == \/ RelayNext /\ UNCHANGED nodeVars
        \/ Requests \/ PollStep \/ WorkStep \/ ServerRestart \/ NodeRestart \/ NodeFault

Next == Step /\ UNCHANGED cars

Spec == Init /\ [][Next]_vars

(***************************************************************************)
(* The poller's ticker ticks, its calls end, and so do the server's calls  *)
(* to the database.                                                        *)
(***************************************************************************)
FairSpec ==
    /\ Spec
    /\ WF_vars(PollStep /\ UNCHANGED cars)
    /\ WF_vars(UpdateStep /\ UNCHANGED <<nodeVars, cars>>)
    /\ WF_vars((\E r \in Req : RequestStep(r)) /\ UNCHANGED cars)
-----------------------------------------------------------------------------
TypeOK ==
    /\ RelayTypeOK
    /\ cars \subseteq VIN /\ rows \subseteq VIN /\ charging \subseteq VIN /\ events \subseteq VIN
    /\ known \in [VIN -> 0..MaxReports]
    /\ polled \subseteq VIN /\ lastKnown \in [VIN -> -1..MaxSecond]
    /\ poll \in [pc : {"idle", "get", "check", "process", "note"}, todo : SUBSET VIN,
                 vin : SUBSET VIN, got : Report]
    /\ req \in [Req -> Request] /\ handlers \subseteq Handler
    /\ work \in [VIN -> {"none", "log", "set"}]
    /\ spoiled \subseteq VIN /\ tangled \in BOOLEAN /\ torn \subseteq VIN

(***************************************************************************)
(* The server refuses every call about a vehicle that is not registered,   *)
(* so that a row of the node must have its registration.  It has, whatever *)
(* fails or crashes in the middle of adding and deleting, as long as       *)
(* requests for a vehicle, the server's part included, follow each other.  *)
(***************************************************************************)
RowIsRegistered == rows \subseteq registered \cup spoiled

(***************************************************************************)
(* A row that says the vehicle charges has its start event: without one    *)
(* the poller brings the process down, and again after every restart.      *)
(* DeleteVehicle takes both away in two statements, while others work on:  *)
(* only a crash between them, a goroutine that works on the vehicle while  *)
(* it is deleted, or another request for it can leave one without the      *)
(* other (db.go:257), for a vehicle that is added again to meet.           *)
(***************************************************************************)
SessionHasEvent ==
    \A v \in VIN \ (torn \cup spoiled) :
        Eventless(v) => v \notin rows /\ ~(poll.pc = "process" /\ poll.vin = {v})

(***************************************************************************)
(* When no request is under way the poller knows the vehicles that there   *)
(* are, unless two requests have read them at the same time.               *)
(***************************************************************************)
PollerKnowsVehicles ==
    (~tangled /\ \A r \in Req : At(r, "idle"))
        => /\ rows \subseteq polled \cup spoiled
           /\ polled \subseteq rows \cup spoiled
           /\ \A v \in polled : lastKnown[v] # -1

(***************************************************************************)
(* The node learns the reports in order.                                   *)
(***************************************************************************)
InOrder == INSTANCE LatestReport WITH
               latest <- [v \in VIN |-> saved[v].no], learnt <- known, orderly <- ~overlap

ReportsInOrder == InOrder!Spec

(***************************************************************************)
(* The latest report of a vehicle that stays added reaches the node, but   *)
(* for one of the same second as one that it knows.                        *)
(***************************************************************************)
Knows(v) == known[v] = saved[v].no \/ lastKnown[v] = saved[v].utc

LatestReportArrives ==
    \A v \in VIN :
        (v \in rows /\ saved[v].no # known[v])
            ~> \/ Knows(v)
               \/ v \notin rows \cap registered \/ overlap \/ tangled
               \/ v \in spoiled \/ torn # {}
=============================================================================
