--------------------------- MODULE TelemetryRelay ---------------------------
(***************************************************************************)
(* The server's part in telemetry.  The proxy receives a vehicle's data    *)
(* and hands them to the server, one call at a time; the server keeps the  *)
(* latest report of each vehicle in memory and in its database, and sends  *)
(* it to the subscribers of its websocket.                                 *)
(*                                                                         *)
(* A report is known by its number, in the order of acceptance, and by the *)
(* second of the server's clock it is stamped with: order in time is all   *)
(* that readers compare.  Data that the proxy cannot read or hand over are *)
(* lost and never become a report.  One subscriber (external) connects and *)
(* sends the password; what it is shown is all that counts of it.          *)
(***************************************************************************)
EXTENDS Integers

CONSTANTS
    VIN,
    MaxReports,     \* bound: reports
    MaxSecond       \* bound: seconds of the server's clock

ASSUME RelayAssumption == MaxReports \in Nat /\ MaxSecond \in Nat \ {0}

VARIABLES
    registered, \* the server's table vehicles
    saved,      \* the server's table telemetry_state
    queue,      \* TelemetryQueue.states
    update,     \* calls of VehicleStateTelemetry.Update under way
    second,     \* the server's clock
    accepted,   \* number of reports so far
    reader,     \* the websocket: the goroutine that reads the password
    ticker,     \* the websocket: what the handler's ticker has sent, to be noted
    vins,       \* the websocket: vehicleVINs
    lastTs,     \* the websocket: lastTs, -1 where there is no entry
    shown,      \* the subscriber: the report it has got last
    overlap,    \* auxiliary: two calls of Update were under way at once
    crossed,    \* auxiliary: reader and ticker have sent at the same time
    left        \* bound: what is still to happen of each kind

storeVars == <<registered, saved, queue, update, second, accepted, overlap>>
wsVars == <<reader, ticker, vins, lastTs, shown, crossed>>

Report == [no : 0..MaxReports, utc : 0..MaxSecond]
NoReport == [no |-> 0, utc |-> 0]
Bounded == {"reports", "seconds", "connects", "requests", "works", "faults"}

Spend(k) == left[k] > 0 /\ left' = [left EXCEPT ![k] = @ - 1]

Update == [pc : {"queue", "save"}, vin : VIN, report : Report, awaited : BOOLEAN]

Closed == [pc |-> "closed", todo |-> {}, vin |-> {}, held |-> NoReport]
Nothing == [vin |-> {}, utc |-> 0]

RelayInit(owned, budget) ==
    /\ registered = owned
    /\ saved = [v \in VIN |-> NoReport]
    /\ queue = [v \in VIN |-> NoReport]
    /\ update = {}
    /\ second = 1 /\ accepted = 0
    /\ reader = Closed /\ ticker = Nothing
    /\ vins = {}
    /\ lastTs = [v \in VIN |-> -1]
    /\ shown = [v \in VIN |-> NoReport]
    /\ overlap = FALSE /\ crossed = FALSE
    /\ left = budget
-----------------------------------------------------------------------------
\* Mutant: the time of a report is rounded up.
AcceptRounded(v) ==
    /\ \A u \in update : ~u.awaited
    /\ v \in registered
    /\ accepted < MaxReports /\ Spend("reports")
    /\ accepted' = accepted + 1
    /\ update' = update \cup {[pc |-> "queue", vin |-> v, awaited |-> TRUE,
                               report |-> [no |-> accepted + 1, utc |-> second + 1]]}
    /\ overlap' = (overlap \/ update # {})
    /\ UNCHANGED <<registered, saved, queue, second, wsVars>>

\* zmqLoop passes a payload on, and updateVehicleState makes a report of it.
Accept(v) ==
    /\ \A u \in update : ~u.awaited
    /\ v \in registered
    /\ accepted < MaxReports /\ Spend("reports")
    /\ accepted' = accepted + 1
    /\ update' = update \cup {[pc |-> "queue", vin |-> v, awaited |-> TRUE,
                               report |-> [no |-> accepted + 1, utc |-> second]]}
    /\ overlap' = (overlap \/ update # {})
    /\ UNCHANGED <<registered, saved, queue, second, wsVars>>

SetState(u) ==
    /\ u.pc = "queue"
    /\ queue' = [queue EXCEPT ![u.vin] = u.report]
    /\ update' = (update \ {u}) \cup {[u EXCEPT !.pc = "save"]}
    /\ UNCHANGED <<registered, saved, second, accepted, overlap, wsVars, left>>

SaveTelemetryState(u) ==
    /\ u.pc = "save"
    /\ saved' = [saved EXCEPT ![u.vin] = u.report]
    /\ update' = update \ {u}
    /\ UNCHANGED <<registered, queue, second, accepted, overlap, wsVars, left>>

\* The proxy is restarted; what it has called goes on.
ProxyRestart ==
    /\ Spend("faults") /\ update # {}
    /\ update' = {[u EXCEPT !.awaited = FALSE] : u \in update}
    /\ UNCHANGED <<registered, saved, queue, second, accepted, overlap, wsVars>>

Second ==
    /\ second < MaxSecond /\ Spend("seconds")
    /\ second' = second + 1
    /\ UNCHANGED <<registered, saved, queue, update, accepted, overlap, wsVars>>
-----------------------------------------------------------------------------
Connect ==
    /\ reader.pc = "closed" /\ ticker = Nothing
    /\ Spend("connects")
    /\ reader' = [Closed EXCEPT !.pc = "open"]
    /\ vins' = {} /\ lastTs' = [v \in VIN |-> -1]
    /\ crossed' = FALSE
    /\ UNCHANGED <<storeVars, ticker, shown>>

\* The password is right: the vehicles of the token's user, one by one.
Authorize ==
    /\ reader.pc = "open"
    /\ reader' = [reader EXCEPT !.pc = "list", !.todo = registered]
    /\ UNCHANGED <<storeVars, ticker, vins, lastTs, shown, crossed, left>>

Subscribe(v) ==
    /\ reader.pc = "list" /\ v \in reader.todo
    /\ vins' = vins \cup {v}
    /\ reader' = [pc |-> IF saved[v].no = 0 THEN "list" ELSE "send",
                  todo |-> reader.todo \ {v}, vin |-> {v}, held |-> saved[v]]
    /\ UNCHANGED <<storeVars, ticker, lastTs, shown, crossed, left>>

SendSaved(v) ==
    /\ reader.pc = "send" /\ reader.vin = {v}
    /\ shown' = [shown EXCEPT ![v] = reader.held]
    /\ reader' = [reader EXCEPT !.pc = "note"]
    /\ crossed' = (crossed \/ ticker # Nothing)
    /\ UNCHANGED <<storeVars, ticker, vins, lastTs, left>>

NoteSaved(v) ==
    /\ reader.pc = "note" /\ reader.vin = {v}
    /\ lastTs' = [lastTs EXCEPT ![v] = reader.held.utc]
    /\ reader' = [reader EXCEPT !.pc = "list"]
    /\ UNCHANGED <<storeVars, ticker, vins, shown, crossed, left>>

\* The handler's ticker: what is newer than the latest sent is sent.
IsNews(v) == queue[v].no # 0 /\ lastTs[v] < queue[v].utc

TickSend(v) ==
    /\ reader.pc \in {"list", "send", "note"} /\ ticker = Nothing
    /\ v \in vins /\ IsNews(v)
    /\ shown' = [shown EXCEPT ![v] = queue[v]]
    /\ ticker' = [vin |-> {v}, utc |-> queue[v].utc]
    /\ crossed' = (crossed \/ reader.pc \in {"send", "note"})
    /\ UNCHANGED <<storeVars, reader, vins, lastTs, left>>

\* Mutant: the time of sending is noted, not the time of the report.
TickNoteNow(v) ==
    /\ ticker.vin = {v}
    /\ lastTs' = [lastTs EXCEPT ![v] = second]
    /\ ticker' = Nothing
    /\ UNCHANGED <<storeVars, reader, vins, shown, crossed, left>>

TickNote(v) ==
    /\ ticker.vin = {v}
    /\ lastTs' = [lastTs EXCEPT ![v] = ticker.utc]
    /\ ticker' = Nothing
    /\ UNCHANGED <<storeVars, reader, vins, shown, crossed, left>>

\* The connection ends, by either side.
Hangup ==
    /\ reader.pc # "closed"
    /\ reader' = Closed /\ ticker' = Nothing
    /\ UNCHANGED <<vins, lastTs, shown, crossed>>

Disconnect == Spend("faults") /\ Hangup /\ UNCHANGED storeVars

ServerDown ==
    /\ queue' = [v \in VIN |-> NoReport]
    /\ update' = {}
    /\ reader' = Closed /\ ticker' = Nothing
    /\ UNCHANGED <<registered, saved, second, accepted, overlap, vins, lastTs, shown, crossed>>

\* What runs at the same time without a lock: GetState reads the map that
\* SetState writes, and reader and ticker write to the connection and to
\* lastTs.  The runtime or the websocket library may end the process.
Unlocked ==
    \/ vins # {} /\ reader.pc # "closed" /\ \E u \in update : u.pc = "queue"
    \/ reader.pc \in {"send", "note"} /\ (ticker # Nothing \/ \E v \in vins : IsNews(v))

ServerEnds == ServerDown /\ (Spend("faults") \/ (Unlocked /\ UNCHANGED left))

UpdateStep == \E u \in update : SetState(u) \/ SaveTelemetryState(u)
ReaderStep == Authorize \/ \E v \in VIN : Subscribe(v) \/ SendSaved(v) \/ NoteSaved(v)
TickerStep == \E v \in VIN : TickSend(v) \/ TickNote(v)

RelayNext == \/ \E v \in VIN : Accept(v)
             \/ UpdateStep \/ ReaderStep \/ TickerStep
             \/ Second \/ ProxyRestart
             \/ Connect \/ Disconnect
-----------------------------------------------------------------------------
RelayTypeOK ==
    /\ registered \subseteq VIN
    /\ saved \in [VIN -> Report] /\ queue \in [VIN -> Report] /\ shown \in [VIN -> Report]
    /\ update \subseteq Update
    /\ second \in 0..MaxSecond /\ accepted \in 0..MaxReports
    /\ reader \in [pc : {"closed", "open", "list", "send", "note"}, todo : SUBSET VIN,
                   vin : SUBSET VIN, held : Report]
    /\ ticker \in [vin : SUBSET VIN, utc : 0..MaxSecond]
    /\ vins \subseteq VIN
    /\ lastTs \in [VIN -> -1..MaxSecond]
    /\ overlap \in BOOLEAN /\ crossed \in BOOLEAN
    /\ left \in [Bounded -> Nat]

(***************************************************************************)
(* What the server has noted as sent is what the subscriber has got last,  *)
(* whenever neither of the two goroutines is about to note something: else *)
(* the subscriber would keep an old state until the next report.  Only if  *)
(* both send at the same time, which nothing prevents, may it be wrong.    *)
(***************************************************************************)
SubscriberIsCurrent ==
    \A v \in vins :
        (reader.pc = "list" /\ ticker = Nothing /\ ~crossed /\ lastTs[v] # -1)
            => lastTs[v] = shown[v].utc
=============================================================================
