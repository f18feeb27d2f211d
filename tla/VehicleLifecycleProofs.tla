----------------------- MODULE VehicleLifecycleProofs -----------------------
(***************************************************************************)
(* Proofs about VehicleLifecycle and TelemetryRelay, for any vehicles,     *)
(* requests, setups, reports and faults.                                   *)
(***************************************************************************)
EXTENDS VehicleLifecycle, TLAPS

-----------------------------------------------------------------------------
(***************************************************************************)
(* Types, one group of variables after the other.                          *)
(***************************************************************************)
StoreOK ==
    /\ registered \subseteq VIN
    /\ saved \in [VIN -> Report] /\ queue \in [VIN -> Report]
    /\ update \subseteq Update
    /\ second \in 0..MaxSecond /\ accepted \in 0..MaxReports

SocketOK ==
    /\ reader \in [pc : {"closed", "open", "list", "send", "note"}, todo : SUBSET VIN,
                   vin : SUBSET VIN, held : Report]
    /\ ticker \in [vin : SUBSET VIN, utc : 0..MaxSecond]
    /\ vins \subseteq VIN
    /\ lastTs \in [VIN -> -1..MaxSecond]
    /\ shown \in [VIN -> Report]

TablesOK ==
    /\ cars \subseteq VIN /\ rows \subseteq VIN /\ charging \subseteq VIN /\ events \subseteq VIN
    /\ work \in [VIN -> {"none", "log", "set"}]
    /\ spoiled \subseteq VIN /\ torn \subseteq VIN

PollerOK ==
    /\ known \in [VIN -> 0..MaxReports]
    /\ polled \subseteq VIN /\ lastKnown \in [VIN -> -1..MaxSecond]
    /\ poll \in [pc : {"idle", "get", "check", "process", "note"}, todo : SUBSET VIN,
                 vin : SUBSET VIN, got : Report]

RequestsOK == req \in [Req -> Request] /\ handlers \subseteq Handler
BudgetOK == left \in [Bounded -> Nat]
FlagsOK == overlap \in BOOLEAN /\ crossed \in BOOLEAN /\ tangled \in BOOLEAN

LEMMA TypeParts ==
    TypeOK <=> StoreOK /\ SocketOK /\ TablesOK /\ PollerOK /\ RequestsOK /\ BudgetOK /\ FlagsOK
BY DEF TypeOK, RelayTypeOK, StoreOK, SocketOK, TablesOK, PollerOK, RequestsOK, BudgetOK, FlagsOK

LEMMA NoReportIsOne == NoReport \in Report /\ NoReport.no = 0
BY RelayAssumption DEF NoReport, Report

LEMMA InitType == Init => TypeOK
<1> SUFFICES ASSUME Init PROVE TypeOK
  OBVIOUS
<1>1. PICK s \in Setups : /\ RelayInit(s.added, s.left)
                          /\ cars = s.cars
                          /\ rows = s.added /\ polled = s.added
                          /\ lastKnown = [v \in VIN |-> IF v \in s.added THEN 0 ELSE -1]
  BY DEF Init
<1>2. s.cars \subseteq VIN /\ s.added \subseteq VIN /\ s.left \in [Bounded -> Nat]
  BY SetupAssumption
<1> USE <1>1, <1>2, RelayAssumption, NoReportIsOne
<1>3. StoreOK
  BY DEF RelayInit, StoreOK
<1>4. SocketOK
  BY DEF RelayInit, SocketOK, Closed, Nothing
<1>5. TablesOK
  BY DEF Init, TablesOK
<1>6. PollerOK
  BY DEF Init, PollerOK, NoPoll
<1>7. RequestsOK
  BY DEF Init, RequestsOK, NoRequest, Request, ReqPC
<1>8. BudgetOK
  BY DEF RelayInit, BudgetOK
<1>9. FlagsOK
  BY Zenon DEF RelayInit, Init, FlagsOK
<1> QED
  BY <1>3, <1>4, <1>5, <1>6, <1>7, <1>8, <1>9, TypeParts

\* A step spends at most one of what is still to happen.
LEMMA NextBudget == BudgetOK /\ [Next]_vars => BudgetOK'
<1> SUFFICES ASSUME BudgetOK, [Next]_vars
             PROVE  left' = left \/ \E k \in Bounded : Spend(k)
  BY DEF BudgetOK, Spend
<1> QED
  BY ZenonT(30) DEF Next, Step, RelayNext, UpdateStep, ReaderStep, TickerStep, Requests, RequestStep,
     PollStep, WorkStep, vars, Bounded, Accept, SetState, SaveTelemetryState, Second, ProxyRestart,
     Connect, Disconnect, Hangup, Authorize, Subscribe, SendSaved, NoteSaved, TickSend, TickNote,
     Begin, Add, Create, UpdateVehicle, Delete, DeleteRow, DeleteLogs, DeleteState, Carry,
     CallFails, ServerRestart, ServerEnds, Clear, Query, Fill, Respond, PollTick, GetState, Check,
     Process, Note, Work, LogStart, SetCharging, NodeRestart, NodeFault

LEMMA NextStore == StoreOK /\ RequestsOK /\ BudgetOK /\ [Next]_vars => StoreOK'
<1> SUFFICES ASSUME StoreOK, RequestsOK, BudgetOK, [Next]_vars PROVE StoreOK'
  OBVIOUS
<1> USE RelayAssumption, NoReportIsOne DEF StoreOK
<1>1. ASSUME NEW v \in VIN, Accept(v) PROVE StoreOK'
  <2>1. accepted + 1 \in 0..MaxReports
    BY <1>1 DEF Accept
  <2>2. [pc |-> "queue", vin |-> v, awaited |-> TRUE,
         report |-> [no |-> accepted + 1, utc |-> second]] \in Update
    BY <2>1 DEF Update, Report
  <2> QED
    BY <1>1, <2>1, <2>2 DEF Accept
<1>2. ASSUME NEW u \in update, SetState(u) PROVE StoreOK'
  <2>1. u.vin \in VIN /\ u.report \in Report /\ [u EXCEPT !.pc = "save"] \in Update
    BY DEF Update
  <2> QED
    BY <1>2, <2>1 DEF SetState
<1>3. ASSUME NEW u \in update, SaveTelemetryState(u) PROVE StoreOK'
  <2>1. u.vin \in VIN /\ u.report \in Report
    BY DEF Update
  <2> QED
    BY <1>3, <2>1 DEF SaveTelemetryState
<1>4. CASE ProxyRestart
  <2>1. \A u \in update : [u EXCEPT !.awaited = FALSE] \in Update
    BY DEF Update
  <2> QED
    BY <1>4, <2>1 DEF ProxyRestart
<1>5. CASE Second
  BY <1>5 DEF Second
<1>6. ASSUME NEW h \in handlers, Carry(h) PROVE StoreOK'
  <2>1. h.vin \in VIN
    BY DEF RequestsOK, Handler
  <2> QED
    BY <1>6, <2>1 DEF Carry
<1>7. CASE ServerRestart
  BY <1>7 DEF ServerRestart, ServerEnds, ServerDown
<1>8. CASE UNCHANGED storeVars
  BY <1>8 DEF storeVars
<1> QED
  BY <1>1, <1>2, <1>3, <1>4, <1>5, <1>6, <1>7, <1>8, ZenonT(30)
  DEF Next, Step, RelayNext, UpdateStep, ReaderStep, TickerStep, Requests, RequestStep,
     PollStep, WorkStep, vars, relayVars,
     Connect, Disconnect, Authorize, Subscribe, SendSaved, NoteSaved, TickSend, TickNote,
     Add, Create, UpdateVehicle, Delete, DeleteRow, DeleteLogs, DeleteState,
     CallFails, Clear, Query, Fill, Respond, PollTick, GetState, Check,
     Process, Note, Work, LogStart, SetCharging, NodeRestart, NodeFault, NodeDown

LEMMA NextSocket == StoreOK /\ SocketOK /\ [Next]_vars => SocketOK'
<1> SUFFICES ASSUME StoreOK, SocketOK, [Next]_vars PROVE SocketOK'
  OBVIOUS
<1> USE RelayAssumption, NoReportIsOne DEF SocketOK
<1>1. CASE Connect
  BY <1>1 DEF Connect, Closed
<1>2. CASE Authorize
  BY <1>2 DEF Authorize, StoreOK
<1>3. ASSUME NEW v \in VIN, Subscribe(v) PROVE SocketOK'
  <2>1. saved[v] \in Report
    BY DEF StoreOK
  <2> QED
    BY <1>3, <2>1 DEF Subscribe
<1>4. ASSUME NEW v \in VIN, SendSaved(v) PROVE SocketOK'
  BY <1>4 DEF SendSaved
<1>5. ASSUME NEW v \in VIN, NoteSaved(v) PROVE SocketOK'
  <2>1. reader.held.utc \in -1..MaxSecond
    BY DEF Report
  <2> QED
    BY <1>5, <2>1 DEF NoteSaved
<1>6. ASSUME NEW v \in VIN, TickSend(v) PROVE SocketOK'
  <2>1. queue[v] \in Report /\ queue[v].utc \in 0..MaxSecond
    BY DEF StoreOK, Report
  <2> QED
    BY <1>6, <2>1 DEF TickSend
<1>7. ASSUME NEW v \in VIN, TickNote(v) PROVE SocketOK'
  BY <1>7 DEF TickNote, Nothing
<1>8. CASE Disconnect \/ ServerRestart
  BY <1>8 DEF Disconnect, Hangup, ServerRestart, ServerEnds, ServerDown, Closed, Nothing
<1>9. CASE UNCHANGED <<reader, ticker, vins, lastTs, shown>>
  BY <1>9
<1> QED
  BY <1>1, <1>2, <1>3, <1>4, <1>5, <1>6, <1>7, <1>8, <1>9, ZenonT(30)
  DEF Next, Step, RelayNext, UpdateStep, ReaderStep, TickerStep, Requests, RequestStep,
     PollStep, WorkStep, vars, relayVars, wsVars, Accept, SetState, SaveTelemetryState,
     Second, ProxyRestart, Add, Create, UpdateVehicle, Delete, DeleteRow, DeleteLogs, DeleteState,
     Carry, CallFails, Clear, Query, Fill, Respond, PollTick, GetState, Check,
     Process, Note, Work, LogStart, SetCharging, NodeRestart, NodeFault, NodeDown

LEMMA NextTables == TablesOK /\ RequestsOK /\ [Next]_vars => TablesOK'
<1> SUFFICES ASSUME TablesOK, RequestsOK, [Next]_vars PROVE TablesOK'
  OBVIOUS
<1>1. cars' = cars
  BY DEF Next, vars
<1> USE <1>1 DEF TablesOK, dbVars
<1>2. ASSUME NEW r \in Req, NEW v \in VIN, Add(r, v) \/ Delete(r, v) PROVE TablesOK'
  BY <1>2 DEF Add, Delete, Begin
<1>3. ASSUME NEW r \in Req, NEW v \in VIN,
             Create(r, v) \/ DeleteRow(r, v) \/ DeleteLogs(r, v) \/ DeleteState(r, v)
      PROVE  TablesOK'
  BY <1>3 DEF Create, DeleteRow, Races, DeleteLogs, DeleteState
<1>4. ASSUME NEW v \in VIN, UpdateVehicle(v) PROVE TablesOK'
  BY <1>4 DEF UpdateVehicle
<1>5. ASSUME NEW v \in VIN, Process(v) PROVE TablesOK'
  <2>1. charging' \in {charging, charging \ {v}} /\ UNCHANGED <<rows, events, work, spoiled, torn>>
    BY <1>5 DEF Process, reqVars
  <2> QED
    BY <2>1
<1>6. ASSUME NEW v \in VIN, Work(v) \/ LogStart(v) \/ SetCharging(v) PROVE TablesOK'
  BY <1>6 DEF Work, LogStart, SetCharging, reqVars
<1>7. CASE NodeDown
  <2>1. \A r \in Req : req[r].vin \subseteq VIN
    BY DEF RequestsOK, Request
  <2>2. torn' \subseteq VIN
    BY <1>7, <2>1 DEF NodeDown
  <2> QED
    BY <1>7, <2>2 DEF NodeDown
<1>8. CASE UNCHANGED <<dbVars, work, spoiled, torn>>
  BY <1>8
<1> QED
  BY <1>2, <1>3, <1>4, <1>5, <1>6, <1>7, <1>8
  DEF Next, Step, RelayNext, UpdateStep, ReaderStep, TickerStep, Requests, RequestStep, PollStep,
      WorkStep, vars, nodeVars, reqVars, relayVars, ServerRestart, Carry, CallFails, Clear, Query,
      Fill, Respond, PollTick, GetState, Check, Note, NodeRestart, NodeFault

LEMMA NextPoller ==
    StoreOK /\ TablesOK /\ PollerOK /\ RequestsOK /\ [Next]_vars => PollerOK'
<1> SUFFICES ASSUME StoreOK, TablesOK, PollerOK, RequestsOK, [Next]_vars PROVE PollerOK'
  OBVIOUS
<1> USE RelayAssumption, NoReportIsOne DEF PollerOK
<1>1. ASSUME NEW r \in Req, Clear(r) PROVE PollerOK'
  BY <1>1 DEF Clear
<1>2. ASSUME NEW r \in Req, NEW v \in VIN, Fill(r, v) PROVE PollerOK'
  <2>1. req[r].seen \subseteq VIN
    BY DEF RequestsOK, Request
  <2> QED
    BY <1>2, <2>1 DEF Fill
<1>3. \A p : p \in [pc : {"idle", "get", "check", "process", "note"}, todo : SUBSET VIN,
                    vin : SUBSET VIN, got : Report]
             => NextVehicle(p) \in [pc : {"idle", "get", "check", "process", "note"},
                                    todo : SUBSET VIN, vin : SUBSET VIN, got : Report]
  BY DEF NextVehicle, NoPoll
<1>4. CASE PollTick
  BY <1>4, <1>3 DEF PollTick
<1>5. ASSUME NEW v \in VIN, GetState(v) PROVE PollerOK'
  <2> DEFINE p == [poll EXCEPT !.pc = "check", !.todo = @ \ {v}, !.vin = {v}, !.got = saved[v]]
  <2>1. p \in [pc : {"idle", "get", "check", "process", "note"}, todo : SUBSET VIN,
               vin : SUBSET VIN, got : Report]
    BY DEF StoreOK
  <2>2. poll' \in {p, NextVehicle(p)} /\ UNCHANGED <<known, polled, lastKnown>>
    BY <1>5 DEF GetState
  <2> HIDE DEF p
  <2> QED
    BY <1>3, <2>1, <2>2
<1>6. ASSUME NEW v \in VIN, Check(v) PROVE PollerOK'
  BY <1>6, <1>3 DEF Check
<1>7. ASSUME NEW v \in VIN, Process(v) PROVE PollerOK'
  <2>1. poll.got.no \in 0..MaxReports
    BY DEF Report
  <2> QED
    BY <1>7, <2>1 DEF Process
<1>8. ASSUME NEW v \in VIN, Note(v) PROVE PollerOK'
  <2>1. poll.got.utc \in -1..MaxSecond
    BY DEF Report
  <2> QED
    BY <1>8, <2>1, <1>3 DEF Note
<1>9. CASE NodeDown
  BY <1>9 DEF NodeDown, NoPoll, TablesOK
<1>10. CASE UNCHANGED pollerVars
  BY <1>10 DEF pollerVars
<1> QED
  BY <1>1, <1>2, <1>4, <1>5, <1>6, <1>7, <1>8, <1>9, <1>10
  DEF Next, Step, RelayNext, UpdateStep, ReaderStep, TickerStep, Requests, RequestStep, PollStep,
      WorkStep, vars, nodeVars, ServerRestart, Carry, CallFails, Query, Respond, Add, Create,
      UpdateVehicle, Delete, DeleteRow, DeleteLogs, DeleteState, Work, LogStart, SetCharging,
      NodeRestart, NodeFault

LEMMA NextRequests == TablesOK /\ PollerOK /\ RequestsOK /\ [Next]_vars => RequestsOK'
<1> SUFFICES ASSUME TablesOK, PollerOK, RequestsOK, [Next]_vars PROVE RequestsOK'
  OBVIOUS
<1> USE DEF RequestsOK
<1>1. \A r \in Req, pc \in ReqPC : [req EXCEPT ![r].pc = pc] \in [Req -> Request]
  BY DEF Request
<1>2. NoRequest \in Request
  BY DEF NoRequest, Request, ReqPC
<1>3. ASSUME NEW r \in Req, NEW v \in VIN, Add(r, v) \/ Delete(r, v) PROVE RequestsOK'
  <2>1. \A pc \in ReqPC : [NoRequest EXCEPT !.pc = pc, !.vin = {v}] \in Request
    BY <1>2 DEF Request
  <2>2. req' \in [Req -> Request]
    BY <1>3, <2>1 DEF Add, Delete, Begin, ReqPC, Waiting, Deleting
  <2>3. handlers' \subseteq Handler
    BY <1>3 DEF Add, Delete, Call, Handler, Waiting
  <2> QED
    BY <2>2, <2>3
<1>4. ASSUME NEW r \in Req, NEW v \in VIN,
             Create(r, v) \/ DeleteRow(r, v) \/ DeleteLogs(r, v) \/ DeleteState(r, v)
      PROVE  RequestsOK'
  <2>1. req' \in [Req -> Request]
    BY <1>4, <1>1 DEF Create, DeleteRow, DeleteLogs, DeleteState, Goto, ReqPC, Waiting, Deleting
  <2>2. handlers' \subseteq Handler
    BY <1>4 DEF Create, DeleteRow, DeleteLogs, DeleteState, Call, Handler, Waiting
  <2> QED
    BY <2>1, <2>2
<1>5. ASSUME NEW h \in handlers, Carry(h) PROVE RequestsOK'
  <2>1. \A r \in Req, pc \in ReqPC : [req[r] EXCEPT !.pc = pc] \in Request
    BY DEF Request
  <2> QED
    BY <1>5, <2>1 DEF Carry, ReqPC
<1>6. \A rs : Unanswered(rs) => req' \in [Req -> Request]
  <2>1. \A r \in Req : [req[r] EXCEPT !.pc = "clear"] \in Request
    BY DEF Request, ReqPC
  <2> QED
    BY <1>2, <2>1 DEF Unanswered
<1>7. ASSUME NEW h \in handlers, CallFails(h) PROVE RequestsOK'
  <2>1. [h EXCEPT !.by = {}] \in Handler
    BY DEF Handler
  <2> QED
    BY <1>6, <1>7, <2>1 DEF CallFails
<1>8. CASE ServerRestart
  BY <1>6, <1>8 DEF ServerRestart
<1>9. ASSUME NEW r \in Req, Clear(r) PROVE RequestsOK'
  BY <1>1, <1>9 DEF Clear, Goto, ReqPC, Reading
<1>10. ASSUME NEW r \in Req, Query(r) PROVE RequestsOK'
  <2>1. rows \subseteq VIN /\ polled \subseteq VIN /\ "fill" \in ReqPC
    BY DEF TablesOK, PollerOK, ReqPC, Reading
  <2>2. [req[r] EXCEPT !.pc = "fill", !.todo = rows, !.seen = polled] \in Request
    BY <2>1 DEF Request
  <2> QED
    BY <1>10, <2>2 DEF Query
<1>11. ASSUME NEW r \in Req, NEW v \in VIN, Fill(r, v) PROVE RequestsOK'
  <2>1. PICK before \in {polled, req[r].seen} : polled' = before \cup {v}
    BY <1>11 DEF Fill
  <2>2. polled' \subseteq VIN /\ req[r].todo \ {v} \subseteq VIN
    BY <2>1 DEF PollerOK, Request
  <2> QED
    BY <1>11, <2>2 DEF Fill, Request
<1>12. ASSUME NEW r \in Req, Respond(r) PROVE RequestsOK'
  BY <1>2, <1>12 DEF Respond
<1>13. CASE NodeDown
  <2>1. \A h \in handlers : [h EXCEPT !.by = {}] \in Handler
    BY DEF Handler
  <2> QED
    BY <1>2, <1>13, <2>1 DEF NodeDown
<1>14. CASE UNCHANGED <<req, handlers>>
  BY <1>14
<1> QED
  BY <1>3, <1>4, <1>5, <1>7, <1>8, <1>9, <1>10, <1>11, <1>12, <1>13, <1>14
  DEF Next, Step, RelayNext, UpdateStep, ReaderStep, TickerStep, Requests, RequestStep, PollStep,
      WorkStep, vars, nodeVars, reqVars, UpdateVehicle, PollTick, GetState, Check, Process, Note,
      Work, LogStart, SetCharging, NodeRestart, NodeFault

LEMMA NextFlags == FlagsOK /\ [Next]_vars => FlagsOK'
<1> SUFFICES ASSUME FlagsOK, [Next]_vars PROVE FlagsOK'
  OBVIOUS
<1>1. ASSUME NEW v \in VIN, Accept(v) \/ SendSaved(v) \/ TickSend(v),
             UNCHANGED tangled
      PROVE  FlagsOK'
  BY <1>1, Zenon DEF FlagsOK, Accept, SendSaved, TickSend, wsVars, storeVars
<1>2. ASSUME Connect, UNCHANGED tangled PROVE FlagsOK'
  BY <1>2, Zenon DEF FlagsOK, Connect, storeVars
<1>3. ASSUME NEW r \in Req, Clear(r) PROVE FlagsOK'
  BY <1>3, Zenon DEF FlagsOK, Clear, relayVars, storeVars, wsVars
<1>4. CASE NodeDown
  BY <1>4, Zenon DEF FlagsOK, NodeDown, relayVars, storeVars, wsVars
<1>5. CASE UNCHANGED <<overlap, crossed, tangled>>
  BY <1>5, Zenon DEF FlagsOK
<1> QED
  BY <1>1, <1>2, <1>3, <1>4, <1>5, ZenonT(60)
  DEF Next, Step, RelayNext, UpdateStep, ReaderStep, TickerStep, Requests, RequestStep, PollStep,
      WorkStep, vars, nodeVars, reqVars, relayVars, storeVars, wsVars, SetState,
      SaveTelemetryState, Second, ProxyRestart, Disconnect, Hangup, Authorize, Subscribe,
      NoteSaved, TickNote, Add, Create, UpdateVehicle, Delete, DeleteRow, DeleteLogs, DeleteState,
      Carry, CallFails, ServerRestart, ServerEnds, ServerDown, Query, Fill, Respond, PollTick,
      GetState, Check, Process, Note, Work, LogStart, SetCharging, NodeRestart, NodeFault

LEMMA NextType == TypeOK /\ [Next]_vars => TypeOK'
<1> SUFFICES ASSUME TypeOK, [Next]_vars PROVE TypeOK'
  OBVIOUS
<1>1. StoreOK /\ SocketOK /\ TablesOK /\ PollerOK /\ RequestsOK /\ BudgetOK /\ FlagsOK
  BY TypeParts
<1>2. StoreOK' /\ SocketOK' /\ TablesOK' /\ PollerOK' /\ RequestsOK' /\ BudgetOK' /\ FlagsOK'
  BY <1>1, NextStore, NextSocket, NextTables, NextPoller, NextRequests, NextBudget, NextFlags
<1>3. (StoreOK /\ SocketOK /\ TablesOK /\ PollerOK /\ RequestsOK /\ BudgetOK /\ FlagsOK)' => TypeOK'
  BY TypeParts, PTL
<1> QED
  BY <1>2, <1>3

\* The types of the server's and the node's part, in any number of vehicles.
THEOREM LifecycleTypeOK == Spec => []TypeOK
<1>1. Init => TypeOK
  BY InitType
<1>2. TypeOK /\ [Next]_vars => TypeOK'
  BY NextType
<1> QED
  BY <1>1, <1>2, PTL DEF Spec

-----------------------------------------------------------------------------
(***************************************************************************)
(* Reports in order.  While reports are taken one at a time, the one under *)
(* way is newer than the one in the database, the node knows none that the *)
(* database has not had, and what the poller holds lies between them.      *)
(***************************************************************************)
OneAtATime == \A u, w \in update : u = w
NewerUnderWay == \A u \in update : saved[u.vin].no < u.report.no
KnownWasSaved == \A v \in VIN : known[v] <= saved[v].no
PolledBetween ==
    \A v \in VIN : poll.vin = {v} => known[v] <= poll.got.no /\ poll.got.no <= saved[v].no

Accepted ==
    /\ \A u \in update : u.report.no <= accepted
    /\ \A v \in VIN : saved[v].no <= accepted

InSequence == OneAtATime /\ NewerUnderWay /\ KnownWasSaved /\ PolledBetween
OrderInv == Accepted /\ (overlap = FALSE => InSequence)

\* Calls under way once stay calls that have been under way at once.
LEMMA OverlapStays == FlagsOK /\ [Next]_vars /\ overlap' = FALSE => overlap = FALSE
<1> SUFFICES ASSUME FlagsOK, [Next]_vars, overlap' = FALSE PROVE overlap = FALSE
  OBVIOUS
<1>1. ASSUME NEW v \in VIN, Accept(v) PROVE overlap = FALSE
  BY <1>1, Zenon DEF FlagsOK, Accept
<1>2. CASE UNCHANGED overlap
  BY <1>2, Zenon
<1> QED
  BY <1>1, <1>2, ZenonT(60)
  DEF Next, Step, RelayNext, UpdateStep, ReaderStep, TickerStep, Requests, RequestStep, PollStep,
      WorkStep, vars, nodeVars, reqVars, relayVars, storeVars, wsVars, SetState,
      SaveTelemetryState, Second, ProxyRestart, Connect, Disconnect, Hangup, Authorize, Subscribe,
      SendSaved, NoteSaved, TickSend, TickNote, Add, Create, UpdateVehicle, Delete, DeleteRow,
      DeleteLogs, DeleteState, Carry, CallFails, ServerRestart, ServerEnds, ServerDown, Clear,
      Query, Fill, Respond, PollTick, GetState, Check, Process, Note, Work, LogStart, SetCharging,
      NodeRestart, NodeFault, NodeDown

\* A report that is accepted while another is under way spoils the order.
LEMMA AcceptAlone ==
    ASSUME NEW v \in VIN, FlagsOK, Accept(v), overlap' = FALSE
    PROVE  update = {}
BY Zenon DEF FlagsOK, Accept

\* The steps by which an update, the table or what the node knows changes.
LEMMA OrderSteps ==
    ASSUME [Next]_vars
    PROVE  \/ \E v \in VIN : Accept(v) /\ UNCHANGED pollerVars
           \/ \E u \in update : (SetState(u) \/ SaveTelemetryState(u)) /\ UNCHANGED pollerVars
           \/ ProxyRestart /\ UNCHANGED pollerVars
           \/ /\ UNCHANGED <<update, saved, accepted>> \/ (update' = {} /\ UNCHANGED <<saved, accepted>>)
              /\ UNCHANGED overlap
              /\ \/ UNCHANGED <<known, poll>>
                 \/ poll'.vin = {} /\ UNCHANGED known
                 \/ \E v \in VIN : GetState(v) \/ Check(v) \/ Process(v) \/ Note(v)
<1>1. CASE RelayNext /\ UNCHANGED nodeVars
  BY <1>1 DEF RelayNext, UpdateStep, ReaderStep, TickerStep, nodeVars, pollerVars, storeVars,
     Second, Connect, Disconnect, Authorize, Subscribe, SendSaved, NoteSaved, TickSend, TickNote
<1>2. CASE Requests
  <2>1. ASSUME NEW r \in Req, RequestStep(r) PROVE UNCHANGED <<storeVars, known, poll>>
    BY <2>1 DEF RequestStep, relayVars, pollerVars, Create, DeleteRow, DeleteLogs, DeleteState,
       Clear, Query, Fill, Respond
  <2>2. UNCHANGED <<update, saved, accepted, overlap, known, poll>>
    BY <1>2, <2>1 DEF Requests, relayVars, storeVars, pollerVars, Add, UpdateVehicle, Delete,
       Carry, CallFails
  <2> QED
    BY <2>2
<1>3. CASE PollStep
  BY <1>3 DEF PollStep, PollTick, GetState, Check, Process, Note, NextVehicle, NoPoll, relayVars,
     storeVars
<1>4. CASE WorkStep
  BY <1>4 DEF WorkStep, Work, LogStart, SetCharging, relayVars, storeVars, pollerVars
<1>5. CASE ServerRestart
  BY <1>5 DEF ServerRestart, ServerEnds, ServerDown, pollerVars
<1>6. CASE NodeDown
  BY <1>6 DEF NodeDown, NoPoll, relayVars, storeVars
<1>7. CASE UNCHANGED vars
  BY <1>7 DEF vars, nodeVars, relayVars, storeVars, pollerVars
<1> QED
  BY <1>1, <1>2, <1>3, <1>4, <1>5, <1>6, <1>7 DEF Next, Step, NodeRestart, NodeFault

LEMMA NextAccepted == TypeOK /\ Accepted /\ [Next]_vars => Accepted'
<1> SUFFICES ASSUME TypeOK, Accepted, [Next]_vars PROVE Accepted'
  OBVIOUS
<1>1. /\ \A u \in update : u.vin \in VIN /\ u.report \in Report /\ u.report.no \in Nat
      /\ saved \in [VIN -> Report] /\ \A v \in VIN : saved[v].no \in Nat
      /\ accepted \in Nat
  BY RelayAssumption DEF TypeOK, RelayTypeOK, Update, Report
<1>2. ASSUME NEW v \in VIN, Accept(v) PROVE Accepted'
  BY <1>1, <1>2 DEF Accept, Accepted
<1>3. ASSUME NEW u \in update, SetState(u) PROVE Accepted'
  <2>1. [u EXCEPT !.pc = "save"].report = u.report
    BY DEF TypeOK, RelayTypeOK, Update
  <2> QED
    BY <1>1, <1>3, <2>1 DEF SetState, Accepted
<1>4. ASSUME NEW u \in update, SaveTelemetryState(u) PROVE Accepted'
  BY <1>1, <1>4 DEF SaveTelemetryState, Accepted
<1>5. CASE ProxyRestart
  <2>1. \A u \in update : [u EXCEPT !.awaited = FALSE].report = u.report
    BY DEF TypeOK, RelayTypeOK, Update
  <2> QED
    BY <1>1, <1>5, <2>1 DEF ProxyRestart, Accepted
<1>6. CASE update' \subseteq update /\ UNCHANGED <<saved, accepted>>
  BY <1>6 DEF Accepted
<1> QED
  BY <1>2, <1>3, <1>4, <1>5, <1>6, OrderSteps

LEMMA NextSequence ==
    ASSUME TypeOK, Accepted, InSequence, [Next]_vars, overlap' = FALSE
    PROVE  InSequence'
<1>1. /\ \A u \in update : u.vin \in VIN /\ u.report \in Report /\ u.report.no \in Nat
      /\ saved \in [VIN -> Report] /\ \A v \in VIN : saved[v].no \in Nat
      /\ accepted \in Nat
      /\ known \in [VIN -> 0..MaxReports] /\ \A v \in VIN : known[v] \in Nat
      /\ poll.got \in Report /\ poll.got.no \in Nat
  BY RelayAssumption DEF TypeOK, RelayTypeOK, Update, Report
<1> USE <1>1 DEF InSequence, OneAtATime, NewerUnderWay, KnownWasSaved, PolledBetween
<1>2. ASSUME NEW v \in VIN, Accept(v), UNCHANGED pollerVars PROVE InSequence'
  <2>1. update = {}
    BY <1>2, AcceptAlone, TypeParts
  <2>2. \A u \in update' : u = [pc |-> "queue", vin |-> v, awaited |-> TRUE,
                                report |-> [no |-> accepted + 1, utc |-> second]]
    BY <1>2, <2>1 DEF Accept
  <2>3. UNCHANGED <<saved, known, poll>>
    BY <1>2 DEF Accept, pollerVars
  <2>4. saved[v].no < accepted + 1
    BY DEF Accepted
  <2>5. \A u \in update' : u.vin = v /\ u.report.no = accepted + 1
    BY <2>2
  <2>6. OneAtATime' /\ NewerUnderWay'
    BY <2>2, <2>3, <2>4, <2>5
  <2>7. KnownWasSaved' /\ PolledBetween'
    BY <2>3
  <2> QED
    BY <2>6, <2>7
<1>3. ASSUME NEW u \in update, SetState(u), UNCHANGED pollerVars PROVE InSequence'
  <2>1. /\ [u EXCEPT !.pc = "save"].report = u.report
        /\ [u EXCEPT !.pc = "save"].vin = u.vin
    BY DEF TypeOK, RelayTypeOK, Update
  <2>2. update' = {[u EXCEPT !.pc = "save"]}
    BY <1>3 DEF SetState
  <2>3. UNCHANGED <<saved, known, poll>>
    BY <1>3 DEF SetState, pollerVars
  <2> QED
    BY <2>1, <2>2, <2>3
<1>4. ASSUME NEW u \in update, SaveTelemetryState(u), UNCHANGED pollerVars PROVE InSequence'
  <2>1. update' = {} /\ saved' = [saved EXCEPT ![u.vin] = u.report]
    BY <1>4 DEF SaveTelemetryState
  <2>2. UNCHANGED <<known, poll>>
    BY <1>4 DEF pollerVars
  <2>3. \A v \in VIN : saved[v].no <= saved'[v].no /\ saved'[v].no \in Nat
    BY <2>1
  <2> QED
    BY <2>1, <2>2, <2>3
<1>5. CASE ProxyRestart /\ UNCHANGED pollerVars
  <2>1. \A u \in update : /\ [u EXCEPT !.awaited = FALSE].report = u.report
                          /\ [u EXCEPT !.awaited = FALSE].vin = u.vin
    BY DEF TypeOK, RelayTypeOK, Update
  <2>2. update' = {[u EXCEPT !.awaited = FALSE] : u \in update}
    BY <1>5 DEF ProxyRestart
  <2>3. UNCHANGED <<saved, known, poll>>
    BY <1>5 DEF ProxyRestart, pollerVars
  <2> QED
    BY <2>1, <2>2, <2>3, ZenonT(30)
<1>6. ASSUME update' \subseteq update, UNCHANGED saved,
             \/ UNCHANGED <<known, poll>>
             \/ poll'.vin = {} /\ UNCHANGED known
             \/ \E v \in VIN : GetState(v) \/ Check(v) \/ Process(v) \/ Note(v)
      PROVE  InSequence'
  <2>1. OneAtATime' /\ NewerUnderWay'
    BY <1>6
  <2>2. CASE UNCHANGED known /\ (UNCHANGED poll \/ poll'.vin = {})
    BY <1>6, <2>1, <2>2
  <2>3. ASSUME NEW v \in VIN, GetState(v) PROVE InSequence'
    <3>1. UNCHANGED known /\ (poll'.vin = {} \/ (poll'.vin = {v} /\ poll'.got = saved[v]))
      BY <2>3 DEF GetState, NextVehicle, NoPoll, TypeOK
    <3> QED
      BY <1>6, <2>1, <3>1
  <2>4. ASSUME NEW v \in VIN, Check(v) \/ Note(v) PROVE InSequence'
    <3>1. /\ UNCHANGED known
          /\ poll'.vin = {} \/ (poll'.vin = poll.vin /\ poll'.got = poll.got)
      BY <2>4 DEF Check, Note, NextVehicle, NoPoll, TypeOK
    <3> QED
      BY <1>6, <2>1, <3>1
  <2>5. ASSUME NEW v \in VIN, Process(v) PROVE InSequence'
    <3>1. poll'.vin = {v} /\ poll.vin = {v} /\ poll'.got = poll.got
      BY <2>5 DEF Process, TypeOK
    <3>2. known' = [known EXCEPT ![v] = poll.got.no]
      BY <2>5 DEF Process
    <3>3. known[v] <= poll.got.no /\ poll.got.no <= saved[v].no
      BY <3>1
    <3>4. KnownWasSaved'
      BY <1>6, <3>2, <3>3
    <3>5. \A w \in VIN : poll'.vin = {w} => w = v
      BY <3>1
    <3>6. PolledBetween'
      BY <1>6, <3>1, <3>2, <3>3, <3>5
    <3> QED
      BY <2>1, <3>4, <3>6
  <2> QED
    BY <1>6, <2>2, <2>3, <2>4, <2>5
<1> QED
  BY <1>2, <1>3, <1>4, <1>5, <1>6, OrderSteps

LEMMA InitOrder == Init => OrderInv
BY RelayAssumption
DEF Init, RelayInit, OrderInv, Accepted, InSequence, OneAtATime, NewerUnderWay, KnownWasSaved,
    PolledBetween, NoReport, NoPoll

LEMMA OrderAlways == Spec => [](TypeOK /\ OrderInv)
<1>1. Init => TypeOK /\ OrderInv
  BY InitType, InitOrder
<1>2. TypeOK /\ OrderInv /\ [Next]_vars => (TypeOK /\ OrderInv)'
  BY NextType, NextAccepted, NextSequence, OverlapStays, TypeParts DEF OrderInv
<1> QED
  BY <1>1, <1>2, PTL DEF Spec

\* A step in sequence: the table takes a newer report, or the node learns one.
LEMMA SequenceStep ==
    ASSUME TypeOK, OrderInv, [Next]_vars, overlap = FALSE, overlap' = FALSE
    PROVE  \/ UNCHANGED <<saved, known>>
           \/ \E v \in VIN : /\ UNCHANGED known
                             /\ \E s \in Report : s.no > saved[v].no /\ saved' = [saved EXCEPT ![v] = s]
           \/ \E v \in VIN : /\ UNCHANGED saved
                             /\ \E n \in known[v]..saved[v].no : known' = [known EXCEPT ![v] = n]
<1>1. InSequence
  BY DEF OrderInv
<1>2. /\ \A u \in update : u.vin \in VIN /\ u.report \in Report /\ u.report.no \in Nat
      /\ \A v \in VIN : saved[v].no \in Nat /\ known[v] \in Nat
      /\ poll.got.no \in Nat
  BY RelayAssumption DEF TypeOK, RelayTypeOK, Update, Report
<1>3. ASSUME NEW v \in VIN, Accept(v), UNCHANGED pollerVars PROVE UNCHANGED <<saved, known>>
  BY <1>3 DEF Accept, pollerVars
<1>4. ASSUME NEW u \in update, SetState(u), UNCHANGED pollerVars PROVE UNCHANGED <<saved, known>>
  BY <1>4 DEF SetState, pollerVars
<1>5. ASSUME NEW u \in update, SaveTelemetryState(u), UNCHANGED pollerVars
      PROVE  /\ UNCHANGED known
             /\ u.report.no > saved[u.vin].no /\ saved' = [saved EXCEPT ![u.vin] = u.report]
  BY <1>1, <1>2, <1>5 DEF SaveTelemetryState, pollerVars, InSequence, NewerUnderWay
<1>6. CASE ProxyRestart /\ UNCHANGED pollerVars
  BY <1>6 DEF ProxyRestart, pollerVars
<1>7. ASSUME NEW v \in VIN, GetState(v) \/ Check(v) \/ Note(v) PROVE UNCHANGED known
  BY <1>7 DEF GetState, Check, Note
<1>8. ASSUME NEW v \in VIN, Process(v)
      PROVE  poll.got.no \in known[v]..saved[v].no /\ known' = [known EXCEPT ![v] = poll.got.no]
  BY <1>1, <1>2, <1>8 DEF Process, InSequence, PolledBetween
<1> QED
  BY <1>2, <1>3, <1>4, <1>5, <1>6, <1>7, <1>8, OrderSteps

LEMMA InOrderStep ==
    ASSUME TypeOK, OrderInv, FlagsOK, FlagsOK', [Next]_vars
    PROVE  [InOrder!Next]_<<[v \in VIN |-> saved[v].no], known, ~overlap>>
<1>1. CASE overlap' = TRUE
  BY <1>1, Zenon DEF InOrder!Next, InOrder!Disorder
<1>2. CASE overlap' = FALSE
  <2>1. overlap = FALSE
    BY <1>2, OverlapStays
  <2>2. ~overlap /\ (~overlap)' = ~overlap
    BY <1>2, <2>1, Zenon
  <2>3. CASE UNCHANGED <<saved, known>>
    BY <2>2, <2>3
  <2>4. ASSUME NEW v \in VIN, UNCHANGED known,
               NEW s \in Report, s.no > saved[v].no, saved' = [saved EXCEPT ![v] = s]
        PROVE  InOrder!Accept(v)
    <3>1. saved \in [VIN -> Report]
      BY DEF TypeOK, RelayTypeOK
    <3>2. saved'[v].no = s.no
      BY <2>4, <3>1
    <3>3. [w \in VIN |-> saved'[w].no] = [[w \in VIN |-> saved[w].no] EXCEPT ![v] = s.no]
      BY <2>4, <3>1
    <3> QED
      BY <2>2, <2>4, <3>2, <3>3 DEF InOrder!Accept
  <2>5. ASSUME NEW v \in VIN, UNCHANGED saved,
               NEW n \in known[v]..saved[v].no, known' = [known EXCEPT ![v] = n]
        PROVE  InOrder!Learn(v)
    <3>1. known'[v] = n
      BY <2>5 DEF TypeOK
    <3> QED
      BY <2>2, <2>5, <3>1 DEF InOrder!Learn
  <2> QED
    BY <1>2, <2>1, <2>2, <2>3, <2>4, <2>5, SequenceStep DEF InOrder!Next
<1> QED
  BY <1>1, <1>2, Zenon DEF FlagsOK

(***************************************************************************)
(* The way of telemetry from the proxy through the server's table and the  *)
(* poller to the node's state implements LatestReport: while the proxy     *)
(* hands over one report at a time the node never learns them out of       *)
(* order, in the middle of adding and deleting vehicles, restarts of the   *)
(* node and of the server, and answers that fail included.                 *)
(***************************************************************************)
THEOREM NodeLearnsInOrder == Spec => ReportsInOrder
<1>1. Init => InOrder!Init
  <2> SUFFICES ASSUME Init PROVE InOrder!Init
    OBVIOUS
  <2>1. overlap = FALSE
    BY Zenon DEF Init, RelayInit
  <2>2. (~overlap) = TRUE
    BY <2>1, Zenon
  <2>3. [v \in VIN |-> saved[v].no] \in [VIN -> Nat]
    BY DEF Init, RelayInit, NoReport
  <2> QED
    BY <2>2, <2>3 DEF Init, InOrder!Init
<1>2. TypeOK /\ OrderInv /\ TypeOK' /\ [Next]_vars
        => [InOrder!Next]_<<[v \in VIN |-> saved[v].no], known, ~overlap>>
  <2>1. TypeOK' => FlagsOK'
    BY TypeParts, PTL
  <2> QED
    BY <2>1, InOrderStep, TypeParts
<1> QED
  BY <1>1, <1>2, OrderAlways, PTL DEF Spec, ReportsInOrder, InOrder!Spec

-----------------------------------------------------------------------------
(***************************************************************************)
(* Rows and registrations.  A request waits for one handler, which works   *)
(* for it alone; and for a vehicle that is not spoiled there is never more *)
(* than one request and one handler, of which neither is behind the other: *)
(* a handler that nobody waits for is the only one at work, or unregisters *)
(* a vehicle whose row is gone, while its request reads the vehicles.      *)
(***************************************************************************)
Single == \A r \in Req, v \in VIN : On(r, v) => req[r].vin = {v}

Paired ==
    \A h \in handlers : \A r \in h.by : h.by = {r} /\ req[r].vin = {h.vin} /\ req[r].pc = h.op

OneRequest(v) == \A r, s \in Req : On(r, v) /\ On(s, v) => r = s
OneHandler(v) == \A h, k \in handlers : h.vin = v /\ k.vin = v => h = k
InStep(v) ==
    \A h \in handlers, r \in Req :
        (h.vin = v /\ On(r, v))
            => \/ h.by = {r}
               \/ h.by = {} /\ h.op = "unregister" /\ req[r].pc \in {"clear", "query", "fill"}

Withdrawn(v) == \A h \in handlers : h.vin = v /\ h.op = "unregister" => v \notin rows
Gone(v) == \A r \in Req : On(r, v) /\ req[r].pc \in {"logs", "states", "unregister"} => v \notin rows
ToCreate(v) == \A r \in Req : On(r, v) /\ req[r].pc = "create" => v \in registered
Matched(v) == v \in rows => v \in registered

Lane(v) == /\ OneRequest(v) /\ OneHandler(v) /\ InStep(v)
           /\ Withdrawn(v) /\ Gone(v) /\ ToCreate(v) /\ Matched(v)

LaneInv == Single /\ Paired /\ \A v \in VIN \ spoiled : Lane(v)

LEMMA GotoFacts ==
    ASSUME req \in [Req -> Request], NEW r \in Req, NEW pc, Goto(r, pc)
    PROVE  /\ req'[r].pc = pc /\ req'[r].vin = req[r].vin
           /\ \A s \in Req : s # r => req'[s] = req[s]
BY DEF Goto, Request

\* What a step does to requests, handlers, rows and registrations.
LEMMA LaneSteps ==
    ASSUME [Next]_vars
    PROVE  \/ UNCHANGED <<req, handlers, rows, registered, spoiled>>
           \/ Requests \/ ServerRestart \/ NodeDown
BY DEF Next, Step, RelayNext, UpdateStep, ReaderStep, TickerStep, PollStep, WorkStep, vars, nodeVars,
   dbVars, reqVars, relayVars, storeVars, wsVars, Accept, SetState, SaveTelemetryState, Second,
   ProxyRestart, Connect, Disconnect, Hangup, Authorize, Subscribe, SendSaved, NoteSaved, TickSend,
   TickNote, PollTick, GetState, Check, Process, Note, Work, LogStart, SetCharging, NodeRestart,
   NodeFault

LEMMA AddLane ==
    ASSUME TypeOK, LaneInv, NEW r \in Req, NEW v \in VIN, Add(r, v)
    PROVE  LaneInv'
<1> DEFINE new == [op |-> "register", vin |-> v, by |-> {r}]
<1>1. /\ req[r].pc = "idle"
      /\ req'[r].pc = "register" /\ req'[r].vin = {v}
      /\ \A s \in Req : s # r => req'[s] = req[s]
  BY DEF Add, Begin, At, TypeOK, NoRequest
<1>2. /\ handlers' = handlers \cup {new}
      /\ UNCHANGED <<rows, registered>>
      /\ spoiled' = IF Contended(v) THEN spoiled \cup {v} ELSE spoiled
  BY DEF Add, Begin, Call, dbVars, relayVars, storeVars
<1>3. new.op = "register" /\ new.vin = v /\ new.by = {r}
  OBVIOUS
<1>4. \A h \in handlers : r \notin h.by
  BY <1>1 DEF LaneInv, Paired, TypeOK, Handler, Waiting
<1> HIDE DEF new
<1>5. Single'
  BY <1>1 DEF LaneInv, Single, On
<1>6. Paired'
  BY <1>1, <1>2, <1>3, <1>4 DEF LaneInv, Paired, TypeOK, Handler
<1>7. ASSUME NEW w \in VIN \ spoiled' PROVE Lane(w)'
  <2>1. CASE w = v
    <3>1. ~Contended(v) /\ w \notin spoiled
      BY <1>2, <2>1
    <3>2. /\ \A s \in Req : w \notin req[s].vin
          /\ \A h \in handlers : h.vin # w
          /\ Lane(w)
      BY <2>1, <3>1 DEF Contended, On, LaneInv
    <3> QED
      BY <1>1, <1>2, <1>3, <2>1, <3>2
      DEF Lane, OneRequest, OneHandler, InStep, Withdrawn, Gone, ToCreate, Matched, On
  <2>2. CASE w # v
    <3>1. Lane(w)
      BY <1>2, <2>2 DEF LaneInv
    <3> QED
      BY <1>1, <1>2, <1>3, <2>2, <3>1
      DEF Lane, OneRequest, OneHandler, InStep, Withdrawn, Gone, ToCreate, Matched, On
  <2> QED
    BY <2>1, <2>2
<1> QED
  BY <1>5, <1>6, <1>7 DEF LaneInv

LEMMA DeleteLane ==
    ASSUME TypeOK, LaneInv, NEW r \in Req, NEW v \in VIN, Delete(r, v)
    PROVE  LaneInv'
<1>1. /\ req[r].pc = "idle"
      /\ req'[r].pc = "rows" /\ req'[r].vin = {v}
      /\ \A s \in Req : s # r => req'[s] = req[s]
  BY DEF Delete, Begin, At, TypeOK, NoRequest
<1>2. /\ UNCHANGED <<handlers, rows, registered>>
      /\ spoiled' = IF Contended(v) THEN spoiled \cup {v} ELSE spoiled
  BY DEF Delete, Begin, dbVars, relayVars, storeVars
<1>3. \A h \in handlers : r \notin h.by
  BY <1>1 DEF LaneInv, Paired, TypeOK, Handler, Waiting
<1>4. Single'
  BY <1>1 DEF LaneInv, Single, On
<1>5. Paired'
  BY <1>1, <1>2, <1>3 DEF LaneInv, Paired, TypeOK, Handler
<1>6. ASSUME NEW w \in VIN \ spoiled' PROVE Lane(w)'
  <2>1. CASE w = v
    <3>1. ~Contended(v) /\ w \notin spoiled
      BY <1>2, <2>1
    <3>2. /\ \A s \in Req : w \notin req[s].vin
          /\ \A h \in handlers : h.vin # w
          /\ Lane(w)
      BY <2>1, <3>1 DEF Contended, On, LaneInv
    <3> QED
      BY <1>1, <1>2, <2>1, <3>2
      DEF Lane, OneRequest, OneHandler, InStep, Withdrawn, Gone, ToCreate, Matched, On
  <2>2. CASE w # v
    <3>1. Lane(w)
      BY <1>2, <2>2 DEF LaneInv
    <3> QED
      BY <1>1, <1>2, <2>2, <3>1
      DEF Lane, OneRequest, OneHandler, InStep, Withdrawn, Gone, ToCreate, Matched, On
  <2> QED
    BY <2>1, <2>2
<1> QED
  BY <1>4, <1>5, <1>6 DEF LaneInv

\* A request that goes on without calling the server: the row may come or go.
LEMMA GoLane ==
    ASSUME TypeOK, LaneInv, NEW r \in Req,
           req[r].pc \notin Waiting,
           \A s \in Req : s # r => req'[s] = req[s],
           req'[r].vin \subseteq req[r].vin, \A v \in req'[r].vin : req'[r].vin = req[r].vin,
           UNCHANGED <<handlers, registered, spoiled>>,
           \/ req[r].pc = "create" /\ rows' = rows \cup req[r].vin /\ req'[r].pc = "clear"
           \/ req[r].pc = "rows" /\ rows' = rows \ req[r].vin /\ req'[r].pc = "logs"
           \/ req[r].pc = "logs" /\ rows' = rows /\ req'[r].pc = "states"
           \/ /\ req[r].pc \in {"clear", "query", "fill"} /\ rows' = rows
              /\ req'[r].vin = {} \/ req'[r].pc \in {"query", "fill"}
    PROVE  LaneInv'
<1>1. \A h \in handlers : r \notin h.by
  BY DEF LaneInv, Paired, TypeOK, Handler
<1>2. Single'
  BY DEF LaneInv, Single, On
<1>3. Paired'
  BY <1>1 DEF LaneInv, Paired, TypeOK, Handler
<1>4. ASSUME NEW w \in VIN \ spoiled' PROVE Lane(w)'
  <2>1. Lane(w)
    BY DEF LaneInv
  <2>2. OneRequest(w)' /\ OneHandler(w)'
    BY <2>1 DEF Lane, OneRequest, OneHandler, On
  <2>3. InStep(w)'
    BY <1>1, <2>1 DEF Lane, InStep, On
  <2>4. rows' \subseteq rows \/ (req[r].pc = "create" /\ rows' = rows \cup req[r].vin)
    OBVIOUS
  <2>5. Withdrawn(w)'
    BY <1>1, <2>1, <2>4 DEF Lane, Withdrawn, InStep, On
  <2>6. Gone(w)'
    BY <2>1, <2>4 DEF Lane, Gone, OneRequest, On
  <2>7. ToCreate(w)'
    BY <2>1 DEF Lane, ToCreate, On
  <2>8. Matched(w)'
    BY <2>1, <2>4 DEF Lane, Matched, ToCreate, On
  <2> QED
    BY <2>2, <2>3, <2>5, <2>6, <2>7, <2>8 DEF Lane
<1> QED
  BY <1>2, <1>3, <1>4 DEF LaneInv

LEMMA UpdateLane ==
    ASSUME TypeOK, LaneInv, NEW v \in VIN, UpdateVehicle(v)
    PROVE  LaneInv'
<1>1. /\ UNCHANGED <<req, handlers, registered>> /\ rows' = rows \cup {v}
      /\ spoiled' = IF v \in rows /\ ~Contended(v) THEN spoiled ELSE spoiled \cup {v}
  BY DEF UpdateVehicle, relayVars, storeVars
<1>2. Single' /\ Paired'
  BY <1>1 DEF LaneInv, Single, Paired, On
<1>3. ASSUME NEW w \in VIN \ spoiled' PROVE Lane(w)'
  <2>1. Lane(w) /\ (w \in rows' <=> w \in rows)
    BY <1>1 DEF LaneInv
  <2> QED
    BY <1>1, <2>1
    DEF Lane, OneRequest, OneHandler, InStep, Withdrawn, Gone, ToCreate, Matched, On
<1> QED
  BY <1>2, <1>3 DEF LaneInv

LEMMA StateLane ==
    ASSUME TypeOK, LaneInv, NEW r \in Req, NEW v \in VIN, DeleteState(r, v)
    PROVE  LaneInv'
<1> DEFINE new == [op |-> "unregister", vin |-> v, by |-> {r}]
<1>1. /\ req[r].pc = "states" /\ req[r].vin = {v}
      /\ req'[r].pc = "unregister" /\ req'[r].vin = {v}
      /\ \A s \in Req : s # r => req'[s] = req[s]
  BY GotoFacts DEF DeleteState, At, On, TypeOK, LaneInv, Single
<1>2. handlers' = handlers \cup {new} /\ UNCHANGED <<rows, registered, spoiled>>
  BY DEF DeleteState, Call, relayVars, storeVars
<1>3. new.op = "unregister" /\ new.vin = v /\ new.by = {r}
  OBVIOUS
<1>4. \A h \in handlers : r \notin h.by
  BY <1>1 DEF LaneInv, Paired, TypeOK, Handler, Waiting
<1> HIDE DEF new
<1>5. Single'
  BY <1>1 DEF LaneInv, Single, On
<1>6. Paired'
  BY <1>1, <1>2, <1>3, <1>4 DEF LaneInv, Paired, TypeOK, Handler
<1>7. ASSUME NEW w \in VIN \ spoiled' PROVE Lane(w)'
  <2>1. Lane(w)
    BY <1>2 DEF LaneInv
  <2>2. CASE w = v
    <3>1. \A h \in handlers : h.vin # w
      BY <1>1, <1>4, <2>1, <2>2 DEF Lane, InStep, On
    <3>2. w \notin rows
      BY <1>1, <2>1, <2>2 DEF Lane, Gone, On
    <3> QED
      BY <1>1, <1>2, <1>3, <2>1, <2>2, <3>1, <3>2
      DEF Lane, OneRequest, OneHandler, InStep, Withdrawn, Gone, ToCreate, Matched, On
  <2>3. CASE w # v
    BY <1>1, <1>2, <1>3, <2>1, <2>3
    DEF Lane, OneRequest, OneHandler, InStep, Withdrawn, Gone, ToCreate, Matched, On
  <2> QED
    BY <2>2, <2>3
<1> QED
  BY <1>5, <1>6, <1>7 DEF LaneInv

LEMMA SameHandler ==
    ASSUME NEW h \in Handler, NEW k \in Handler, h.op = k.op, {h.vin} = {k.vin}, h.by = k.by
    PROVE  h = k
<1>1. h.vin = k.vin
  OBVIOUS
<1> QED
  BY <1>1 DEF Handler

LEMMA CarryLane ==
    ASSUME TypeOK, LaneInv, NEW h \in handlers, Carry(h)
    PROVE  LaneInv'
<1>1. /\ h.vin \in VIN /\ h.op \in {"register", "unregister"} /\ h.by \subseteq Req
      /\ handlers' = handlers \ {h} /\ UNCHANGED <<rows, spoiled>>
      /\ registered' = IF h.op = "register" THEN registered \cup {h.vin} ELSE registered \ {h.vin}
  BY DEF Carry, dbVars, TypeOK, Handler, Waiting
<1>2. /\ \A r \in Req : r \notin h.by => req'[r] = req[r]
      /\ \A r \in h.by : /\ req'[r].vin = req[r].vin /\ req[r].vin = {h.vin}
                         /\ req[r].pc = h.op
                         /\ req'[r].pc = IF h.op = "register" THEN "create" ELSE "clear"
  BY <1>1 DEF Carry, TypeOK, Request, LaneInv, Paired
<1>3. \A r \in Req : req'[r].vin = req[r].vin
  BY <1>2
<1>4. \A k \in handlers' : \A r \in k.by : r \notin h.by
  <2> SUFFICES ASSUME NEW k \in handlers', NEW r \in k.by, r \in h.by PROVE k = h
    BY <1>1
  <2>1. /\ k.by = {r} /\ h.by = {r} /\ {k.vin} = {h.vin} /\ k.op = h.op
    BY <1>1 DEF LaneInv, Paired
  <2> QED
    BY <1>1, <2>1, SameHandler DEF TypeOK
<1>5. Single'
  BY <1>3 DEF LaneInv, Single, On
<1>6. Paired'
  BY <1>1, <1>2, <1>4 DEF LaneInv, Paired, TypeOK, Handler
<1>7. ASSUME NEW w \in VIN \ spoiled' PROVE Lane(w)'
  <2>1. Lane(w)
    BY <1>1 DEF LaneInv
  <2>2. CASE w = h.vin
    <3>1. \A k \in handlers' : k.vin # w
      BY <1>1, <2>1, <2>2 DEF Lane, OneHandler
    <3>2. OneRequest(w)' /\ OneHandler(w)' /\ InStep(w)' /\ Withdrawn(w)'
      BY <1>3, <2>1, <3>1 DEF Lane, OneRequest, OneHandler, InStep, Withdrawn, On
    <3>3. h.op = "unregister" => w \notin rows
      BY <2>1, <2>2 DEF Lane, Withdrawn
    <3>4. Gone(w)' /\ Matched(w)'
      BY <1>1, <1>2, <2>1, <2>2, <3>3 DEF Lane, Gone, Matched, On
    <3>5. ToCreate(w)'
      BY <1>1, <1>2, <1>3, <2>1, <2>2 DEF Lane, ToCreate, InStep, On
    <3> QED
      BY <3>2, <3>4, <3>5 DEF Lane
  <2>3. CASE w # h.vin
    <3>1. \A r \in Req : On(r, w) => req'[r] = req[r]
      BY <1>2, <2>3 DEF On
    <3> QED
      BY <1>1, <1>3, <2>1, <2>3, <3>1
      DEF Lane, OneRequest, OneHandler, InStep, Withdrawn, Gone, ToCreate, Matched, On
  <2> QED
    BY <2>2, <2>3
<1> QED
  BY <1>5, <1>6, <1>7 DEF LaneInv

LEMMA FailLane ==
    ASSUME TypeOK, LaneInv, NEW h \in handlers, CallFails(h)
    PROVE  LaneInv'
<1> DEFINE alone == [h EXCEPT !.by = {}]
<1>1. /\ h.vin \in VIN /\ h.op \in {"register", "unregister"} /\ h.by \subseteq Req
      /\ handlers' \subseteq (handlers \ {h}) \cup {alone}
      /\ UNCHANGED <<rows, spoiled, registered>>
  BY DEF CallFails, dbVars, relayVars, storeVars, TypeOK, Handler, Waiting
<1>2. alone.by = {} /\ alone.vin = h.vin /\ alone.op = h.op
  BY DEF TypeOK, Handler
<1>3. PICK q \in Req : h.by = {q} /\ req[q].vin = {h.vin} /\ req[q].pc = h.op
  BY <1>1 DEF CallFails, LaneInv, Paired
<1>4. /\ \A r \in Req : r # q => req'[r] = req[r]
      /\ h.op = "register" => req'[q].vin = {}
      /\ h.op = "unregister" => req'[q].vin = req[q].vin /\ req'[q].pc = "clear"
  BY <1>3 DEF CallFails, Unanswered, At, TypeOK, Request, NoRequest
<1>5. \A k \in handlers' : k # alone => k \in handlers /\ q \notin k.by
  <2> SUFFICES ASSUME NEW k \in handlers \ {h}, q \in k.by PROVE k = h
    BY <1>1
  <2>1. /\ k.by = {q} /\ {k.vin} = {h.vin} /\ k.op = h.op
    BY <1>3 DEF LaneInv, Paired
  <2> QED
    BY <1>3, <2>1, SameHandler DEF TypeOK
<1> HIDE DEF alone
<1>6. \A r \in Req : req'[r].vin \subseteq req[r].vin /\ (req'[r].vin # {} => req'[r].vin = req[r].vin)
  BY <1>1, <1>4
<1>7. Single'
  BY <1>6 DEF LaneInv, Single, On
<1>8. Paired'
  BY <1>1, <1>2, <1>4, <1>5 DEF LaneInv, Paired, TypeOK, Handler
<1>9. ASSUME NEW w \in VIN \ spoiled' PROVE Lane(w)'
  <2>1. Lane(w)
    BY <1>1 DEF LaneInv
  <2>2. OneRequest(w)'
    BY <1>6, <2>1 DEF Lane, OneRequest, On
  <2>3. OneHandler(w)'
    BY <1>1, <1>2, <1>5, <2>1 DEF Lane, OneHandler
  <2>4. InStep(w)'
    <3> SUFFICES ASSUME NEW k \in handlers', NEW r \in Req, k.vin = w, On(r, w)'
                 PROVE  \/ k.by = {r}
                        \/ /\ k.by = {} /\ k.op = "unregister"
                           /\ req'[r].pc \in {"clear", "query", "fill"}
      BY DEF InStep
    <3>1. On(r, w)
      BY <1>6 DEF On
    <3>2. CASE k = alone
      <4>1. r = q
        BY <1>2, <1>3, <2>1, <3>1, <3>2 DEF Lane, OneRequest, On
      <4> QED
        BY <1>1, <1>2, <1>4, <3>2, <4>1 DEF On
    <3>3. CASE k # alone
      <4>1. w # h.vin
        BY <1>1, <1>5, <2>1, <3>3 DEF Lane, OneHandler
      <4>2. r # q
        BY <1>3, <3>1, <4>1 DEF On
      <4> QED
        BY <1>4, <1>5, <2>1, <3>1, <3>3, <4>2 DEF Lane, InStep
    <3> QED
      BY <3>2, <3>3
  <2>5. Withdrawn(w)'
    BY <1>1, <1>2, <1>5, <2>1 DEF Lane, Withdrawn
  <2>6. Gone(w)' /\ ToCreate(w)' /\ Matched(w)'
    BY <1>1, <1>4, <2>1 DEF Lane, Gone, ToCreate, Matched, On
  <2> QED
    BY <2>1, <2>2, <2>3, <2>4, <2>5, <2>6 DEF Lane
<1> QED
  BY <1>7, <1>8, <1>9 DEF LaneInv

\* The server's process ends, or the node's.
LEMMA CrashLane ==
    ASSUME TypeOK, LaneInv, ServerRestart \/ NodeDown
    PROVE  LaneInv'
<1>1. UNCHANGED <<rows, spoiled, registered>>
  BY DEF ServerRestart, ServerEnds, ServerDown, NodeDown, dbVars, relayVars, storeVars
<1>2. CASE ServerRestart
  <2>1. /\ handlers' = {}
        /\ \A r \in Req : \/ req'[r] = req[r]
                          \/ req'[r].vin = {}
                          \/ req'[r].vin = req[r].vin /\ req'[r].pc = "clear"
    BY <1>2 DEF ServerRestart, Unanswered, NoRequest, TypeOK, Request
  <2> QED
    BY <1>1, <2>1 DEF LaneInv, Single, Paired, Lane, OneRequest, OneHandler, InStep, Withdrawn,
                      Gone, ToCreate, Matched, On
<1>3. CASE NodeDown
  <2>1. /\ \A r \in Req : req'[r].vin = {}
        /\ \A k \in handlers' : k.by = {}
        /\ \A k \in handlers' : \E h \in handlers : k = [h EXCEPT !.by = {}]
    BY <1>3 DEF NodeDown, NoRequest, TypeOK, Handler
  <2>2. Single' /\ Paired'
    BY <2>1 DEF Single, Paired, On
  <2>3. ASSUME NEW w \in VIN \ spoiled' PROVE Lane(w)'
    <3>1. Lane(w)
      BY <1>1 DEF LaneInv
    <3>2. \A h \in handlers : [h EXCEPT !.by = {}].vin = h.vin /\ [h EXCEPT !.by = {}].op = h.op
      BY DEF TypeOK, Handler
    <3>3. Withdrawn(w)'
      <4> SUFFICES ASSUME NEW k \in handlers', k.vin = w, k.op = "unregister"
                   PROVE  w \notin rows
        BY <1>1 DEF Withdrawn
      <4>1. PICK h \in handlers : k = [h EXCEPT !.by = {}]
        BY <2>1
      <4> QED
        BY <3>1, <3>2, <4>1 DEF Lane, Withdrawn
    <3>4. OneHandler(w)'
      <4> SUFFICES ASSUME NEW k \in handlers', NEW l \in handlers', k.vin = w, l.vin = w
                   PROVE  k = l
        BY DEF OneHandler
      <4>1. PICK h \in handlers : k = [h EXCEPT !.by = {}]
        BY <2>1
      <4>2. PICK g \in handlers : l = [g EXCEPT !.by = {}]
        BY <2>1
      <4>3. h = g
        BY <3>1, <3>2, <4>1, <4>2 DEF Lane, OneHandler
      <4> QED
        BY <4>1, <4>2, <4>3
    <3> QED
      BY <1>1, <2>1, <3>1, <3>3, <3>4 DEF Lane, OneRequest, InStep, Gone, ToCreate, Matched, On
  <2> QED
    BY <2>2, <2>3 DEF LaneInv
<1> QED
  BY <1>2, <1>3

LEMMA NextLane == TypeOK /\ LaneInv /\ [Next]_vars => LaneInv'
<1> SUFFICES ASSUME TypeOK, LaneInv, [Next]_vars PROVE LaneInv'
  OBVIOUS
<1>1. ASSUME NEW r \in Req, RequestStep(r) PROVE LaneInv'
  <2>1. req \in [Req -> Request]
    BY DEF TypeOK
  <2>2. \A v \in VIN : On(r, v) => req[r].vin = {v}
    BY DEF LaneInv, Single
  <2>3. ASSUME NEW v \in VIN, Create(r, v) \/ DeleteRow(r, v) \/ DeleteLogs(r, v) PROVE LaneInv'
    <3>1. /\ \E pc \in ReqPC : Goto(r, pc) /\ UNCHANGED <<handlers, registered, spoiled>>
          /\ \/ req[r].pc = "create" /\ rows' = rows \cup req[r].vin /\ Goto(r, "clear")
             \/ req[r].pc = "rows" /\ rows' = rows \ req[r].vin /\ Goto(r, "logs")
             \/ req[r].pc = "logs" /\ rows' = rows /\ Goto(r, "states")
      BY <2>2, <2>3 DEF Create, DeleteRow, DeleteLogs, At, relayVars, storeVars, ReqPC, Deleting
    <3> QED
      BY <2>1, <3>1, GotoFacts, GoLane DEF Waiting
  <2>4. CASE Clear(r)
    <3>1. /\ req[r].pc = "clear" /\ Goto(r, "query")
          /\ UNCHANGED <<handlers, registered, spoiled, rows>>
      BY <2>4 DEF Clear, At, relayVars, storeVars, dbVars
    <3> QED
      BY <2>1, <3>1, GotoFacts, GoLane DEF Waiting
  <2>5. CASE Query(r) \/ Respond(r) \/ \E v \in VIN : Fill(r, v)
    <3>1. /\ req[r].pc \in {"query", "fill"}
          /\ UNCHANGED <<handlers, registered, spoiled, rows>>
      BY <2>5 DEF Query, Respond, Fill, At, relayVars, storeVars, dbVars
    <3>2. /\ \A s \in Req : s # r => req'[s] = req[s]
          /\ req'[r].vin = {} \/ (req'[r].vin = req[r].vin /\ req'[r].pc \in {"query", "fill"})
      <4>1. CASE Query(r)
        BY <2>1, <4>1 DEF Query, Request
      <4>2. CASE Respond(r)
        BY <2>1, <4>2 DEF Respond, NoRequest
      <4>3. ASSUME NEW v \in VIN, Fill(r, v)
            PROVE  /\ \A s \in Req : s # r => req'[s] = req[s]
                   /\ req'[r].vin = req[r].vin /\ req'[r].pc = "fill"
        BY <2>1, <3>1, <4>3 DEF Fill, At, Request
      <4> QED
        BY <2>5, <4>1, <4>2, <4>3
    <3> QED
      BY <3>1, <3>2, GoLane DEF Waiting
  <2>6. ASSUME NEW v \in VIN, DeleteState(r, v) PROVE LaneInv'
    BY <2>6, StateLane
  <2> QED
    BY <1>1, <2>3, <2>4, <2>5, <2>6 DEF RequestStep
<1>2. CASE Requests
  BY <1>1, <1>2, AddLane, DeleteLane, UpdateLane, CarryLane, FailLane DEF Requests
<1>3. CASE UNCHANGED <<req, handlers, rows, registered, spoiled>>
  BY <1>3 DEF LaneInv, Single, Paired, Lane, OneRequest, OneHandler, InStep, Withdrawn, Gone,
              ToCreate, Matched, On
<1> QED
  BY <1>2, <1>3, LaneSteps, CrashLane

LEMMA InitLane == Init => LaneInv
BY DEF Init, RelayInit, NoRequest, LaneInv, Single, Paired, Lane, OneRequest, OneHandler, InStep,
       Withdrawn, Gone, ToCreate, Matched, On

(***************************************************************************)
(* A row of the node has its registration with the server, whatever calls  *)
(* fail and whoever crashes in the middle of adding and deleting, for a    *)
(* vehicle whose requests have followed each other.                        *)
(***************************************************************************)
THEOREM RowsAreRegistered == Spec => []RowIsRegistered
<1>1. Init => TypeOK /\ LaneInv
  BY InitType, InitLane
<1>2. TypeOK /\ LaneInv /\ [Next]_vars => (TypeOK /\ LaneInv)'
  BY NextType, NextLane
<1>3. TypeOK /\ LaneInv => RowIsRegistered
  BY DEF TypeOK, LaneInv, Lane, Matched, RowIsRegistered
<1> QED
  BY <1>1, <1>2, <1>3, PTL DEF Spec

-----------------------------------------------------------------------------
(***************************************************************************)
(* The websocket.  As long as reader and ticker have not sent at the same  *)
(* time: what one of them is about to note is what the subscriber has got, *)
(* and what is noted of other vehicles has been right all the time.        *)
(***************************************************************************)
ReaderNotes ==
    reader.pc = "note"
        => ticker = Nothing /\ \A v \in VIN : reader.vin = {v} => shown[v] = reader.held
TickerNotes == \A v \in VIN : ticker.vin = {v} => shown[v].utc = ticker.utc
Noted ==
    \A v \in VIN :
        lastTs[v] # -1
            => \/ lastTs[v] = shown[v].utc
               \/ reader.pc = "note" /\ reader.vin = {v}
               \/ ticker.vin = {v}

SubscriberInv == (crossed = FALSE /\ reader.pc # "closed") => ReaderNotes /\ TickerNotes /\ Noted

LEMMA SocketSteps ==
    ASSUME [Next]_vars
    PROVE  \/ Connect \/ Authorize \/ reader'.pc = "closed"
           \/ \E v \in VIN : \/ Subscribe(v) \/ SendSaved(v) \/ NoteSaved(v)
                             \/ TickSend(v) \/ TickNote(v)
           \/ UNCHANGED wsVars
<1>1. CASE RelayNext
  BY <1>1 DEF RelayNext, UpdateStep, ReaderStep, TickerStep, Accept, SetState, SaveTelemetryState,
     Second, ProxyRestart, Disconnect, Hangup, Closed
<1>2. CASE ServerRestart
  BY <1>2 DEF ServerRestart, ServerEnds, ServerDown, Closed
<1>3. CASE Requests
  BY <1>3, ZenonT(30) DEF Requests, RequestStep, relayVars, Add, Create, UpdateVehicle, Delete, DeleteRow,
     DeleteLogs, DeleteState, Carry, CallFails, Clear, Query, Fill, Respond
<1>4. CASE PollStep \/ WorkStep \/ NodeDown \/ UNCHANGED vars
  BY <1>4 DEF PollStep, WorkStep, vars, relayVars, PollTick, GetState, Check, Process, Note, Work,
     LogStart, SetCharging, NodeDown
<1> QED
  BY <1>1, <1>2, <1>3, <1>4 DEF Next, Step, NodeRestart, NodeFault

LEMMA SendAlone ==
    ASSUME FlagsOK, NEW v \in VIN, crossed' = FALSE
    PROVE  /\ SendSaved(v) => crossed = FALSE /\ ticker = Nothing
           /\ TickSend(v) => crossed = FALSE /\ reader.pc \notin {"send", "note"}
<1>1. ASSUME SendSaved(v) PROVE crossed = FALSE /\ ticker = Nothing
  BY <1>1, Zenon DEF SendSaved, FlagsOK
<1>2. ASSUME TickSend(v) PROVE crossed = FALSE /\ reader.pc \notin {"send", "note"}
  BY <1>2, Zenon DEF TickSend, FlagsOK
<1> QED
  BY <1>1, <1>2

LEMMA NextSubscriber == TypeOK /\ SubscriberInv /\ [Next]_vars => SubscriberInv'
<1> SUFFICES ASSUME TypeOK, SubscriberInv, [Next]_vars, crossed' = FALSE, reader'.pc # "closed"
             PROVE  (ReaderNotes /\ TickerNotes /\ Noted)'
  BY DEF SubscriberInv
<1>1. /\ shown \in [VIN -> Report] /\ lastTs \in [VIN -> -1..MaxSecond]
      /\ reader \in [pc : {"closed", "open", "list", "send", "note"}, todo : SUBSET VIN,
                     vin : SUBSET VIN, held : Report]
      /\ FlagsOK
  BY TypeParts DEF TypeOK, RelayTypeOK
<1> USE DEF ReaderNotes, TickerNotes, Noted
<1>2. CASE Connect
  BY <1>2 DEF Connect, Closed, Nothing
<1>3. CASE Authorize
  BY <1>1, <1>3 DEF Authorize, SubscriberInv
<1>4. ASSUME NEW v \in VIN, Subscribe(v) PROVE (ReaderNotes /\ TickerNotes /\ Noted)'
  BY <1>1, <1>4 DEF Subscribe, SubscriberInv
<1>5. ASSUME NEW v \in VIN, SendSaved(v) PROVE (ReaderNotes /\ TickerNotes /\ Noted)'
  <2>1. crossed = FALSE /\ ticker = Nothing
    BY <1>1, <1>5, SendAlone
  <2>2. ReaderNotes /\ TickerNotes /\ Noted /\ reader.pc = "send" /\ reader.vin = {v}
    BY <1>5, <2>1 DEF SendSaved, SubscriberInv
  <2>3. /\ UNCHANGED <<ticker, lastTs>> /\ shown' = [shown EXCEPT ![v] = reader.held]
        /\ reader'.pc = "note" /\ reader'.vin = {v} /\ reader'.held = reader.held
    BY <1>1, <1>5, <2>2 DEF SendSaved
  <2>4. ticker.vin = {}
    BY <2>1 DEF Nothing
  <2> QED
    BY <1>1, <2>1, <2>2, <2>3, <2>4
<1>6. ASSUME NEW v \in VIN, NoteSaved(v) PROVE (ReaderNotes /\ TickerNotes /\ Noted)'
  <2>1. /\ reader.pc = "note" /\ reader.vin = {v} /\ UNCHANGED <<ticker, shown, crossed>>
        /\ reader'.pc = "list" /\ lastTs' = [lastTs EXCEPT ![v] = reader.held.utc]
    BY <1>1, <1>6 DEF NoteSaved
  <2>2. ReaderNotes /\ TickerNotes /\ Noted
    BY <2>1 DEF SubscriberInv
  <2> QED
    BY <1>1, <2>1, <2>2
<1>7. ASSUME NEW v \in VIN, TickSend(v) PROVE (ReaderNotes /\ TickerNotes /\ Noted)'
  <2>1. crossed = FALSE /\ reader.pc \notin {"send", "note"}
    BY <1>1, <1>7, SendAlone
  <2>2. /\ reader.pc = "list" /\ ticker = Nothing /\ UNCHANGED <<reader, lastTs>>
        /\ shown' = [shown EXCEPT ![v] = queue[v]]
        /\ ticker'.vin = {v} /\ ticker'.utc = queue[v].utc
    BY <1>7, <2>1 DEF TickSend
  <2>3. ReaderNotes /\ TickerNotes /\ Noted /\ ticker.vin = {}
    BY <2>1, <2>2 DEF SubscriberInv, Nothing
  <2> QED
    BY <1>1, <2>2, <2>3
<1>8. ASSUME NEW v \in VIN, TickNote(v) PROVE (ReaderNotes /\ TickerNotes /\ Noted)'
  <2>1. /\ ticker.vin = {v} /\ ticker' = Nothing /\ ticker'.vin = {}
        /\ UNCHANGED <<reader, shown, crossed>> /\ lastTs' = [lastTs EXCEPT ![v] = ticker.utc]
    BY <1>8 DEF TickNote, Nothing
  <2>2. ReaderNotes /\ TickerNotes /\ Noted
    BY <2>1 DEF SubscriberInv
  <2> QED
    BY <1>1, <2>1, <2>2
<1>9. CASE UNCHANGED wsVars
  BY <1>9 DEF wsVars, SubscriberInv
<1> QED
  BY <1>2, <1>3, <1>4, <1>5, <1>6, <1>7, <1>8, <1>9, SocketSteps

(***************************************************************************)
(* What the server has noted as sent is what the subscriber has got last,  *)
(* as long as the websocket's two goroutines have not sent at once.        *)
(***************************************************************************)
THEOREM SubscribersAreCurrent == Spec => []SubscriberIsCurrent
<1>1. Init => TypeOK /\ SubscriberInv
  BY InitType DEF Init, RelayInit, Closed, SubscriberInv
<1>2. TypeOK /\ SubscriberInv /\ [Next]_vars => (TypeOK /\ SubscriberInv)'
  BY NextType, NextSubscriber
<1>3. TypeOK /\ SubscriberInv => SubscriberIsCurrent
  <2> SUFFICES ASSUME TypeOK, SubscriberInv, NEW v \in vins, reader.pc = "list",
                      ticker = Nothing, ~crossed, lastTs[v] # -1
               PROVE  lastTs[v] = shown[v].utc
    BY DEF SubscriberIsCurrent
  <2>1. crossed = FALSE
    BY TypeParts, Zenon DEF FlagsOK
  <2>2. Noted /\ v \in VIN /\ ticker.vin = {}
    BY <2>1 DEF SubscriberInv, TypeOK, RelayTypeOK, Nothing
  <2> QED
    BY <2>2 DEF Noted
<1> QED
  BY <1>1, <1>2, <1>3, PTL DEF Spec

-----------------------------------------------------------------------------
(***************************************************************************)
(* Sessions and events, of a vehicle that is neither spoiled nor torn: who *)
(* works on it has its row, records the start before the state, and only   *)
(* deleteVehicle is ever between taking the events and taking the state.   *)
(***************************************************************************)
WorkHasRow(v) == AtWork(v) => v \in rows
LogFirst(v) == work[v] = "set" => v \in events
OnlyDeleting(v) == Eventless(v) => \E r \in Req : At(r, "states") /\ On(r, v)

Session(v) == WorkHasRow(v) /\ LogFirst(v) /\ OnlyDeleting(v)
SessionInv == \A v \in VIN \ (torn \cup spoiled) : Session(v)

\* Whoever deletes the states goes on with that, until it has done so.
LEMMA StatesStay ==
    ASSUME TypeOK, LaneInv, [Next]_vars, NEW v \in VIN, NEW r \in Req, At(r, "states"), On(r, v)
    PROVE  \/ (At(r, "states") /\ On(r, v))'
           \/ v \notin charging'
           \/ v \in torn'
<1>1. /\ req[r].pc = "states" /\ req[r].vin = {v}
      /\ \A h \in handlers : r \notin h.by
  BY DEF At, On, LaneInv, Single, Paired, TypeOK, Handler, Waiting
<1> USE <1>1 DEF At, On
<1>2. CASE req'[r] = req[r]
  BY <1>2
<1>3. ASSUME NEW q \in Req, RequestStep(q) PROVE req'[r] = req[r] \/ v \notin charging'
  <2>1. CASE q # r
    BY <1>3, <2>1
    DEF TypeOK, RequestStep, Create, DeleteRow, DeleteLogs, DeleteState, Clear, Query, Fill, Respond,
        Goto
  <2>2. CASE q = r
    BY <1>3, <2>2
    DEF RequestStep, Create, DeleteRow, DeleteLogs, DeleteState, Clear, Query, Fill, Respond
  <2> QED
    BY <2>1, <2>2
<1>4. ASSUME NEW q \in Req, NEW w \in VIN, Add(q, w) \/ Delete(q, w) PROVE req'[r] = req[r]
  BY <1>4 DEF Add, Delete, Begin, TypeOK
<1>5. ASSUME NEW h \in handlers, Carry(h) \/ CallFails(h) PROVE req'[r] = req[r]
  BY <1>5 DEF Carry, CallFails, Unanswered
<1>6. CASE ServerRestart
  BY <1>6 DEF ServerRestart, Unanswered, Waiting
<1>7. CASE NodeDown
  BY <1>7 DEF NodeDown
<1>8. CASE UNCHANGED req
  BY <1>8
<1> QED
  BY <1>2, <1>3, <1>4, <1>5, <1>6, <1>7, <1>8
  DEF Next, Step, Requests, PollStep, WorkStep, UpdateVehicle, PollTick, GetState, Check, Process,
      Note, Work, LogStart, SetCharging, NodeRestart, NodeFault, vars, nodeVars, reqVars

\* What a step does to rows, states, events and the goroutines at work.
LEMMA SessionSteps ==
    ASSUME TypeOK, [Next]_vars
    PROVE  \/ \E r \in Req, v \in VIN : \/ Create(r, v) \/ DeleteRow(r, v)
                                        \/ DeleteLogs(r, v) \/ DeleteState(r, v)
           \/ \E v \in VIN : \/ UpdateVehicle(v) \/ Check(v) \/ Process(v)
                             \/ Work(v) \/ LogStart(v) \/ SetCharging(v)
           \/ UNCHANGED dbVars /\ UNCHANGED work /\ poll'.pc # "process"
           \/ UNCHANGED dbVars /\ UNCHANGED work /\ UNCHANGED poll
           \/ NodeDown
<1>1. CASE RelayNext /\ UNCHANGED nodeVars
  BY <1>1 DEF nodeVars, pollerVars
<1>2. CASE Requests
  BY <1>2 DEF Requests, RequestStep, pollerVars, Add, Delete, Carry, CallFails, Clear, Query, Fill,
     Respond
<1>3. CASE PollStep
  <2>1. CASE PollTick
    BY <2>1 DEF PollTick, NextVehicle, NoPoll
  <2>2. ASSUME NEW v \in VIN, GetState(v) PROVE UNCHANGED <<dbVars, work>> /\ poll'.pc # "process"
    BY <2>2 DEF GetState, NextVehicle, NoPoll, TypeOK
  <2>3. ASSUME NEW v \in VIN, Note(v) PROVE UNCHANGED <<dbVars, work>> /\ poll'.pc # "process"
    BY <2>3 DEF Note, NextVehicle, NoPoll
  <2> QED
    BY <1>3, <2>1, <2>2, <2>3 DEF PollStep
<1>4. CASE WorkStep
  BY <1>4 DEF WorkStep
<1>5. CASE ServerRestart \/ UNCHANGED vars
  BY <1>5 DEF ServerRestart, pollerVars, vars, nodeVars
<1> QED
  BY <1>1, <1>2, <1>3, <1>4, <1>5 DEF Next, Step, NodeRestart, NodeFault

LEMMA AuxGrows == TypeOK /\ [Next]_vars => spoiled \subseteq spoiled' /\ torn \subseteq torn'
<1> SUFFICES ASSUME TypeOK, [Next]_vars PROVE spoiled \subseteq spoiled' /\ torn \subseteq torn'
  OBVIOUS
<1>1. CASE Requests
  BY <1>1, ZenonT(30) DEF Requests, RequestStep, Add, Delete, Begin, Create, DeleteRow, Races, DeleteLogs,
     DeleteState, Clear, Query, Fill, Respond, UpdateVehicle, Carry, CallFails
<1>2. CASE NodeDown
  BY <1>2 DEF NodeDown
<1>3. CASE UNCHANGED <<spoiled, torn>>
  BY <1>3
<1> QED
  BY <1>1, <1>2, <1>3
  DEF Next, Step, PollStep, WorkStep, vars, nodeVars, reqVars, ServerRestart, PollTick, GetState,
      Check, Process, Note, Work, LogStart, SetCharging, NodeRestart, NodeFault

LEMMA NextSession == TypeOK /\ LaneInv /\ SessionInv /\ [Next]_vars => SessionInv'
<1> SUFFICES ASSUME TypeOK, LaneInv, SessionInv, [Next]_vars,
                    NEW v \in VIN, v \notin torn', v \notin spoiled'
             PROVE  Session(v)'
  BY DEF SessionInv
<1>1. /\ v \notin torn /\ v \notin spoiled
      /\ WorkHasRow(v) /\ LogFirst(v) /\ OnlyDeleting(v)
  BY AuxGrows DEF SessionInv, Session
<1>2. \A r \in Req : On(r, v) /\ req[r].pc \in {"logs", "states", "unregister"} => v \notin rows
  BY <1>1 DEF LaneInv, Lane, Gone
<1>3. \A r \in Req : At(r, "states") /\ On(r, v) => (At(r, "states") /\ On(r, v))' \/ v \notin charging'
  BY StatesStay
<1>4. work \in [VIN -> {"none", "log", "set"}] /\ poll \in [pc : {"idle", "get", "check", "process",
        "note"}, todo : SUBSET VIN, vin : SUBSET VIN, got : Report]
  BY DEF TypeOK
<1>5. ASSUME v \in charging' => v \in charging, v \in events => v \in events' PROVE OnlyDeleting(v)'
  BY <1>1, <1>3, <1>5 DEF OnlyDeleting, Eventless
<1> USE DEF Session, WorkHasRow, LogFirst, AtWork
<1>6. ASSUME UNCHANGED dbVars, UNCHANGED work, UNCHANGED poll \/ poll'.pc # "process"
      PROVE  Session(v)'
  <2>1. OnlyDeleting(v)'
    BY <1>5, <1>6 DEF dbVars
  <2> QED
    BY <1>1, <1>6, <2>1 DEF dbVars
<1>7. ASSUME NEW r \in Req, NEW w \in VIN, Create(r, w) PROVE Session(v)'
  <2>1. OnlyDeleting(v)'
    BY <1>5, <1>7 DEF Create
  <2> QED
    BY <1>1, <1>7, <2>1 DEF Create, pollerVars
<1>8. ASSUME NEW r \in Req, NEW w \in VIN, DeleteRow(r, w) PROVE Session(v)'
  <2>1. OnlyDeleting(v)'
    BY <1>5, <1>8 DEF DeleteRow
  <2>2. w = v => ~AtWork(v)
    BY <1>8 DEF DeleteRow, Races
  <2> QED
    BY <1>1, <1>8, <2>1, <2>2 DEF DeleteRow, pollerVars
<1>9. ASSUME NEW r \in Req, NEW w \in VIN, DeleteLogs(r, w) PROVE Session(v)'
  <2>1. CASE w = v
    <3>1. req'[r].pc = "states" /\ req'[r].vin = req[r].vin /\ req[r].pc = "logs" /\ On(r, v)
      BY <1>9, <2>1, GotoFacts DEF DeleteLogs, At, TypeOK
    <3>2. OnlyDeleting(v)'
      BY <3>1 DEF OnlyDeleting, At, On
    <3>3. ~AtWork(v)
      BY <1>1, <1>2, <3>1
    <3> QED
      BY <1>4, <1>9, <3>2, <3>3 DEF DeleteLogs, pollerVars
  <2>2. CASE w # v
    <3>1. OnlyDeleting(v)'
      BY <1>5, <1>9, <2>2 DEF DeleteLogs
    <3> QED
      BY <1>1, <1>9, <2>2, <3>1 DEF DeleteLogs, pollerVars
  <2> QED
    BY <2>1, <2>2
<1>10. ASSUME NEW r \in Req, NEW w \in VIN, DeleteState(r, w) PROVE Session(v)'
  <2>1. OnlyDeleting(v)'
    BY <1>5, <1>10 DEF DeleteState
  <2> QED
    BY <1>1, <1>10, <2>1 DEF DeleteState, pollerVars
<1>11. ASSUME NEW w \in VIN, UpdateVehicle(w) PROVE Session(v)'
  <2>1. OnlyDeleting(v)'
    BY <1>5, <1>11 DEF UpdateVehicle
  <2> QED
    BY <1>1, <1>11, <2>1 DEF UpdateVehicle, pollerVars
<1>12. ASSUME NEW w \in VIN, Check(w) PROVE Session(v)'
  <2>1. UNCHANGED <<dbVars, work>>
    BY <1>12 DEF Check
  <2>2. OnlyDeleting(v)'
    BY <1>5, <2>1 DEF dbVars
  <2>3. poll'.pc = "process" => poll'.vin = {w} /\ w \in rows
    BY <1>4, <1>12 DEF Check, NextVehicle, NoPoll
  <2> QED
    BY <1>1, <2>1, <2>2, <2>3 DEF dbVars
<1>13. ASSUME NEW w \in VIN, Process(w) PROVE Session(v)'
  <2>1. /\ UNCHANGED <<rows, events, work>> /\ poll'.pc = "note" /\ charging' \subseteq charging
    BY <1>4, <1>13 DEF Process
  <2>2. OnlyDeleting(v)'
    BY <1>5, <2>1
  <2> QED
    BY <1>1, <2>1, <2>2
<1>14. ASSUME NEW w \in VIN, Work(w) PROVE Session(v)'
  <2>1. OnlyDeleting(v)'
    BY <1>5, <1>14 DEF Work, dbVars
  <2> QED
    BY <1>1, <1>4, <1>14, <2>1 DEF Work, dbVars, pollerVars
<1>15. ASSUME NEW w \in VIN, LogStart(w) PROVE Session(v)'
  <2>1. OnlyDeleting(v)'
    BY <1>5, <1>15 DEF LogStart
  <2> QED
    BY <1>1, <1>4, <1>15, <2>1 DEF LogStart, pollerVars
<1>16. ASSUME NEW w \in VIN, SetCharging(w) PROVE Session(v)'
  <2>1. CASE w = v
    <3>1. v \in events' /\ v \in rows'
      BY <1>1, <1>16, <2>1 DEF SetCharging
    <3> QED
      BY <1>4, <1>16, <2>1, <3>1 DEF SetCharging, pollerVars, OnlyDeleting, Eventless
  <2>2. CASE w # v
    <3>1. OnlyDeleting(v)'
      BY <1>5, <1>16, <2>2 DEF SetCharging
    <3> QED
      BY <1>1, <1>4, <1>16, <2>2, <3>1 DEF SetCharging, pollerVars
  <2> QED
    BY <2>1, <2>2
<1>17. CASE NodeDown
  <2>1. OnlyDeleting(v)'
    BY <1>5, <1>17 DEF NodeDown, dbVars
  <2> QED
    BY <1>17, <2>1 DEF NodeDown, NoPoll
<1> QED
  BY <1>6, <1>7, <1>8, <1>9, <1>10, <1>11, <1>12, <1>13, <1>14, <1>15, <1>16, <1>17, SessionSteps

(***************************************************************************)
(* No row of a vehicle that is there, and none that the poller is about to *)
(* use, says it charges without its start event, but for vehicles that are *)
(* torn or spoiled.                                                        *)
(***************************************************************************)
THEOREM SessionsHaveEvents == Spec => []SessionHasEvent
<1>1. Init => TypeOK /\ LaneInv /\ SessionInv
  <2>1. Init => SessionInv
    <3> SUFFICES ASSUME Init, NEW v \in VIN PROVE Session(v)
      BY DEF SessionInv
    <3>1. work[v] = "none" /\ charging = {} /\ poll.pc = "idle"
      BY DEF Init, NoPoll
    <3> QED
      BY <3>1 DEF Session, WorkHasRow, LogFirst, OnlyDeleting, AtWork, Eventless
  <2> QED
    BY <2>1, InitType, InitLane
<1>2. TypeOK /\ LaneInv /\ SessionInv /\ [Next]_vars => (TypeOK /\ LaneInv /\ SessionInv)'
  BY NextType, NextLane, NextSession
<1>3. LaneInv /\ SessionInv => SessionHasEvent
  <2> SUFFICES ASSUME LaneInv, SessionInv, NEW v \in VIN \ (torn \cup spoiled), Eventless(v)
               PROVE  v \notin rows /\ ~(poll.pc = "process" /\ poll.vin = {v})
    BY DEF SessionHasEvent
  <2>1. PICK r \in Req : At(r, "states") /\ On(r, v)
    BY DEF SessionInv, Session, OnlyDeleting
  <2>2. v \notin rows
    BY <2>1 DEF LaneInv, Lane, Gone, At
  <2> QED
    BY <2>2 DEF SessionInv, Session, WorkHasRow, AtWork
<1> QED
  BY <1>1, <1>2, <1>3, PTL DEF Spec

-----------------------------------------------------------------------------
(***************************************************************************)
(* What the poller knows.  Unless two requests have read the vehicles at   *)
(* once: a vehicle is in the list, or about to be filled in, just when its *)
(* row is there, or some request is on its way to read them anew.          *)
(***************************************************************************)
OneReader == \A r, s \in Req : req[r].pc \in Reading /\ req[s].pc \in Reading => r = s

ReaderSees ==
    \A r \in Req : /\ At(r, "query") => polled = {}
                   /\ At(r, "fill") => req[r].seen = polled

Dated == \A v \in polled : lastKnown[v] # -1

Viewed(v) == v \in polled \/ \E r \in Req : At(r, "fill") /\ v \in req[r].todo

ToRead == {"logs", "states", "unregister", "clear"}
Reread(v) == \E r \in Req : At(r, "query") \/ (On(r, v) /\ req[r].pc \in ToRead)

Current == \A v \in VIN \ spoiled : (Viewed(v) <=> v \in rows) \/ Reread(v)

Reads == OneReader /\ ReaderSees /\ Dated /\ Current
PollerInv == tangled = FALSE => Reads

LEMMA Untangled ==
    ASSUME FlagsOK, [Next]_vars, tangled' = FALSE
    PROVE  tangled = FALSE \/ NodeDown
<1>1. ASSUME NEW r \in Req, Clear(r) PROVE tangled = FALSE
  BY <1>1, Zenon DEF Clear, FlagsOK
<1>2. CASE UNCHANGED tangled
  BY <1>2, Zenon
<1> QED
  BY <1>1, <1>2, ZenonT(30)
  DEF Next, Step, Requests, RequestStep, PollStep, WorkStep, vars, nodeVars, reqVars, Add, Create,
      UpdateVehicle, Delete, DeleteRow, DeleteLogs, DeleteState, Carry, CallFails, ServerRestart,
      Query, Fill, Respond, PollTick, GetState, Check, Process, Note, Work, LogStart, SetCharging,
      NodeRestart, NodeFault

\* Requests that come, go on or fail without reading the vehicles.
LEMMA GoOn ==
    ASSUME TypeOK, Reads, UNCHANGED polled,
           \A v \in polled : lastKnown'[v] # -1,
           \A s \in Req :
              \/ req'[s] = req[s]
              \/ /\ req[s].pc \notin Reading /\ req'[s].pc \notin Reading
                 /\ req[s].pc \in ToRead => req'[s].pc \in ToRead /\ req'[s].vin = req[s].vin,
           \A v \in VIN \ spoiled' :
              v \notin spoiled /\ \/ v \in rows' <=> v \in rows
                                  \/ \E s \in Req : v \in req'[s].vin /\ req'[s].pc \in ToRead
    PROVE  Reads'
<1> USE DEF Reading
<1>1. OneReader'
  BY DEF Reads, OneReader
<1>2. ReaderSees' /\ Dated'
  BY DEF Reads, ReaderSees, Dated, At
<1>3. ASSUME NEW v \in VIN \ spoiled' PROVE (Viewed(v)' <=> v \in rows') \/ Reread(v)'
  <2>1. Viewed(v)' <=> Viewed(v)
    BY DEF Viewed, At
  <2>2. Reread(v) => Reread(v)'
    BY DEF Reread, At, On
  <2>3. (Viewed(v) <=> v \in rows) \/ Reread(v)
    BY DEF Reads, Current
  <2> QED
    BY <2>1, <2>2, <2>3 DEF Reread, On
<1> QED
  BY <1>1, <1>2, <1>3 DEF Reads, Current

LEMMA ReadStep ==
    ASSUME TypeOK, Reads, tangled' = FALSE, NEW r \in Req,
           Clear(r) \/ Query(r) \/ Respond(r) \/ \E v \in VIN : Fill(r, v)
    PROVE  Reads'
<1>1. req \in [Req -> Request] /\ FlagsOK /\ lastKnown \in [VIN -> -1..MaxSecond] /\ polled \subseteq VIN
  BY TypeParts DEF TypeOK
<1> USE DEF Reading
<1>2. CASE Clear(r)
  <2>1. \A s \in Req : req[s].pc \notin Reading
    BY <1>1, <1>2, Zenon DEF Clear, FlagsOK
  <2>2. /\ polled' = {} /\ req'[r].pc = "query"
        /\ \A s \in Req : s # r => req'[s] = req[s]
    BY <1>1, <1>2, GotoFacts DEF Clear
  <2>3. \A v \in VIN : Reread(v)'
    BY <2>2 DEF Reread, At
  <2> QED
    BY <2>1, <2>2, <2>3 DEF Reads, OneReader, ReaderSees, Dated, Current, At
<1>3. CASE Query(r)
  <2>1. /\ req[r].pc = "query" /\ UNCHANGED <<polled, lastKnown, rows, spoiled>>
        /\ req'[r].pc = "fill" /\ req'[r].todo = rows /\ req'[r].seen = polled
        /\ \A s \in Req : s # r => req'[s] = req[s]
    BY <1>1, <1>3 DEF Query, At, dbVars, pollerVars, Request
  <2>2. polled = {} /\ \A s \in Req : s # r => req[s].pc \notin Reading
    BY <2>1 DEF Reads, OneReader, ReaderSees, At
  <2>3. OneReader' /\ ReaderSees' /\ Dated'
    BY <2>1, <2>2 DEF Reads, OneReader, ReaderSees, Dated, At
  <2>4. \A v \in VIN : Viewed(v)' <=> v \in rows'
    BY <2>1, <2>2 DEF Viewed, At
  <2> QED
    BY <2>3, <2>4 DEF Reads, Current
<1>4. CASE Respond(r)
  <2>1. /\ req[r].pc = "fill" /\ req[r].todo = {} /\ UNCHANGED <<polled, lastKnown, rows, spoiled>>
        /\ req'[r].pc = "idle"
        /\ \A s \in Req : s # r => req'[s] = req[s]
    BY <1>1, <1>4 DEF Respond, At, dbVars, pollerVars, NoRequest
  <2>2. \A v \in VIN : Viewed(v)' <=> Viewed(v)
    BY <2>1 DEF Viewed, At
  <2>3. \A v \in VIN : Reread(v) => Reread(v)'
    BY <2>1 DEF Reread, At, On, ToRead
  <2> QED
    BY <2>1, <2>2, <2>3 DEF Reads, OneReader, ReaderSees, Dated, Current, At
<1>5. ASSUME NEW v \in VIN, Fill(r, v) PROVE Reads'
  <2>1. req[r].pc = "fill" /\ v \in req[r].todo /\ req[r].seen = polled
    BY <1>5 DEF Fill, At, Reads, ReaderSees
  <2>2. /\ polled' = polled \cup {v} /\ lastKnown' = [lastKnown EXCEPT ![v] = 0]
        /\ UNCHANGED <<rows, spoiled>>
        /\ req'[r].pc = "fill" /\ req'[r].todo = req[r].todo \ {v} /\ req'[r].seen = polled'
        /\ \A s \in Req : s # r => req'[s] = req[s]
    <3>1. /\ polled' = polled \cup {v} /\ lastKnown' = [lastKnown EXCEPT ![v] = 0]
          /\ UNCHANGED <<rows, spoiled>>
      BY <1>5, <2>1 DEF Fill, dbVars
    <3>2. req' = [req EXCEPT ![r].todo = @ \ {v}, ![r].seen = polled']
      BY <1>5 DEF Fill
    <3>3. /\ req'[r].pc = "fill" /\ req'[r].todo = req[r].todo \ {v} /\ req'[r].seen = polled'
          /\ \A s \in Req : s # r => req'[s] = req[s]
      BY <1>1, <2>1, <3>2 DEF Request
    <3> QED
      BY <3>1, <3>3
  <2>3. \A s \in Req : s # r => req[s].pc \notin Reading
    BY <2>1 DEF Reads, OneReader
  <2>4. OneReader' /\ ReaderSees' /\ Dated'
    BY <1>1, <2>2, <2>3 DEF Reads, OneReader, ReaderSees, Dated, At
  <2>5. \A w \in VIN : Viewed(w)' <=> Viewed(w)
    BY <2>1, <2>2 DEF Viewed, At
  <2>6. \A w \in VIN : Reread(w) => Reread(w)'
    BY <2>1, <2>2 DEF Reread, At, On, ToRead
  <2> QED
    BY <2>2, <2>4, <2>5, <2>6 DEF Reads, Current
<1> QED
  BY <1>2, <1>3, <1>4, <1>5

LEMMA NodeDownReads == TypeOK /\ NodeDown => Reads'
BY DEF NodeDown, Reads, OneReader, ReaderSees, Dated, Current, Viewed, At, dbVars, NoRequest,
       TypeOK, Reading

LEMMA NextReads ==
    ASSUME TypeOK, LaneInv, Reads, [Next]_vars, tangled' = FALSE
    PROVE  Reads'
<1>1. req \in [Req -> Request] /\ lastKnown \in [VIN -> -1..MaxSecond] /\ polled \subseteq VIN
  BY DEF TypeOK
<1>2. \A r \in Req, v \in VIN : On(r, v) => req[r].vin = {v}
  BY DEF LaneInv, Single
<1> USE DEF Reading, ToRead
<1>3. ASSUME NEW r \in Req, NEW v \in VIN, Add(r, v) \/ Delete(r, v) PROVE Reads'
  <2>1. /\ req[r].pc = "idle" /\ req'[r].pc \in {"register", "rows"}
        /\ \A s \in Req : s # r => req'[s] = req[s]
    BY <1>1, <1>3 DEF Add, Delete, Begin, At, NoRequest
  <2>2. /\ UNCHANGED <<polled, lastKnown, rows>> /\ spoiled \subseteq spoiled'
    BY <1>3 DEF Add, Delete, Begin, dbVars, pollerVars
  <2> QED
    BY <2>1, <2>2, GoOn DEF Reads, Dated
<1>4. ASSUME NEW r \in Req, NEW v \in VIN,
             Create(r, v) \/ DeleteRow(r, v) \/ DeleteLogs(r, v) \/ DeleteState(r, v)
      PROVE  Reads'
  <2>1. /\ UNCHANGED <<polled, lastKnown, spoiled>> /\ req[r].vin = {v}
        /\ \/ req[r].pc = "create" /\ rows' = rows \cup {v} /\ Goto(r, "clear")
           \/ req[r].pc = "rows" /\ rows' = rows \ {v} /\ Goto(r, "logs")
           \/ req[r].pc = "logs" /\ rows' = rows /\ Goto(r, "states")
           \/ req[r].pc = "states" /\ rows' = rows /\ Goto(r, "unregister")
    BY <1>2, <1>4 DEF Create, DeleteRow, DeleteLogs, DeleteState, At, pollerVars
  <2>2. /\ req[r].pc \notin Reading /\ req'[r].pc \in ToRead
        /\ req'[r].vin = {v}
        /\ \A s \in Req : s # r => req'[s] = req[s]
    BY <1>1, <2>1, GotoFacts
  <2>3. \A w \in VIN : (w \in rows' <=> w \in rows) \/ w \in req'[r].vin
    BY <2>1, <2>2
  <2> QED
    BY <2>1, <2>2, <2>3, GoOn DEF Reads, Dated
<1>5. ASSUME NEW v \in VIN, UpdateVehicle(v) PROVE Reads'
  <2>1. /\ UNCHANGED <<req, polled, lastKnown>> /\ spoiled \subseteq spoiled'
        /\ \A w \in VIN \ spoiled' : w \in rows' <=> w \in rows
    BY <1>5 DEF UpdateVehicle, pollerVars
  <2> QED
    BY <2>1, GoOn DEF Reads, Dated
<1>6. ASSUME NEW h \in handlers, Carry(h) \/ CallFails(h) PROVE Reads'
  <2>1. /\ UNCHANGED <<polled, lastKnown, rows, spoiled>>
    BY <1>6 DEF Carry, CallFails, dbVars, pollerVars
  <2>2. h.by \subseteq Req /\ \A r \in h.by : req[r].pc = h.op /\ h.op \in {"register", "unregister"}
    BY DEF LaneInv, Paired, TypeOK, Handler, Waiting
  <2>3. \A r \in Req : \/ req'[r] = req[r]
                       \/ req[r].pc = "register" /\ req'[r].pc \in {"idle", "create"}
                       \/ /\ req[r].pc = "unregister" /\ req'[r].pc = "clear"
                          /\ req'[r].vin = req[r].vin
    BY <1>1, <1>6, <2>2 DEF Carry, CallFails, Unanswered, At, NoRequest, Request
  <2> QED
    BY <2>1, <2>3, GoOn DEF Reads, Dated
<1>7. CASE ServerRestart
  <2>1. /\ UNCHANGED <<polled, lastKnown, rows, spoiled>>
    BY <1>7 DEF ServerRestart, dbVars, pollerVars
  <2>2. \A r \in Req : \/ req'[r] = req[r]
                       \/ req[r].pc = "register" /\ req'[r].pc = "idle"
                       \/ /\ req[r].pc = "unregister" /\ req'[r].pc = "clear"
                          /\ req'[r].vin = req[r].vin
    BY <1>1, <1>7 DEF ServerRestart, Unanswered, At, NoRequest, Request, Waiting
  <2> QED
    BY <2>1, <2>2, GoOn DEF Reads, Dated
<1>8. ASSUME NEW r \in Req, RequestStep(r) PROVE Reads'
  BY <1>4, <1>8, ReadStep DEF RequestStep
<1>9. ASSUME UNCHANGED <<req, polled, rows, spoiled>>, \A v \in polled : lastKnown'[v] # -1
      PROVE  Reads'
  BY <1>9, GoOn
<1>10. ASSUME NEW v \in VIN, Note(v) PROVE Reads'
  <2>1. poll.got.utc \in 0..MaxSecond
    BY DEF TypeOK, Report
  <2>2. /\ UNCHANGED <<req, polled, rows, spoiled>>
        /\ lastKnown' = [lastKnown EXCEPT ![v] = poll.got.utc]
    BY <1>10 DEF Note, dbVars, reqVars
  <2>3. \A w \in polled : lastKnown'[w] # -1
    BY <1>1, <2>1, <2>2 DEF Reads, Dated
  <2> QED
    BY <1>9, <2>2, <2>3
<1>11. CASE NodeDown
  BY <1>11, NodeDownReads
<1>12. CASE UNCHANGED <<req, polled, rows, spoiled, lastKnown>>
  BY <1>9, <1>12 DEF Reads, Dated
<1> QED
  BY <1>3, <1>5, <1>6, <1>7, <1>8, <1>10, <1>11, <1>12
  DEF Next, Step, Requests, PollStep, WorkStep, PollTick, GetState, Check, Process, Work, LogStart,
      SetCharging, NodeRestart, NodeFault, vars, nodeVars, reqVars, dbVars, pollerVars

(***************************************************************************)
(* The poller's list of vehicles is that of the database whenever no       *)
(* request is under way, however adding and deleting have interleaved,     *)
(* failed or been cut off, unless two requests have read the vehicles at   *)
(* once.                                                                   *)
(***************************************************************************)
THEOREM PollerListIsRight == Spec => []PollerKnowsVehicles
<1>1. Init => TypeOK /\ LaneInv /\ PollerInv
  <2>1. Init => Reads
    <3> SUFFICES ASSUME Init PROVE Reads
      OBVIOUS
    <3>1. PICK s \in Setups :
             polled = s.added /\ rows = s.added
             /\ lastKnown = [v \in VIN |-> IF v \in s.added THEN 0 ELSE -1]
      BY DEF Init
    <3>2. s.added \subseteq VIN /\ \A r \in Req : req[r].pc = "idle"
      BY SetupAssumption DEF Init, NoRequest
    <3>3. OneReader /\ ReaderSees
      BY <3>2 DEF OneReader, ReaderSees, At, Reading
    <3>4. \A v \in polled : lastKnown[v] = 0
      BY <3>1, <3>2
    <3>5. Dated
      BY <3>4 DEF Dated
    <3>6. Current
      BY <3>1, <3>2 DEF Current, Viewed, At
    <3> QED
      BY <3>3, <3>5, <3>6 DEF Reads
  <2> QED
    BY <2>1, InitType, InitLane DEF PollerInv
<1>2. TypeOK /\ LaneInv /\ PollerInv /\ [Next]_vars => (TypeOK /\ LaneInv /\ PollerInv)'
  BY NextType, NextLane, NextReads, NodeDownReads, Untangled, TypeParts DEF PollerInv
<1>3. TypeOK /\ PollerInv => PollerKnowsVehicles
  <2> SUFFICES ASSUME TypeOK, PollerInv, ~tangled, \A r \in Req : At(r, "idle")
               PROVE  /\ rows \subseteq polled \cup spoiled
                      /\ polled \subseteq rows \cup spoiled
                      /\ \A v \in polled : lastKnown[v] # -1
    BY DEF PollerKnowsVehicles
  <2>1. tangled = FALSE
    BY TypeParts, Zenon DEF FlagsOK
  <2>2. Reads
    BY <2>1 DEF PollerInv
  <2>3. \A v \in VIN : (Viewed(v) <=> v \in polled) /\ ~Reread(v)
    BY DEF Viewed, Reread, At, ToRead
  <2> QED
    BY <2>2, <2>3 DEF Reads, Current, Dated, TypeOK
<1> QED
  BY <1>1, <1>2, <1>3, PTL DEF Spec
=============================================================================
