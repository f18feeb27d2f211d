--------------------------- MODULE ChargeBotProofs ---------------------------
(***************************************************************************)
(* Proofs about ChargeBot, for any vehicles, settings, setups and spans:   *)
(* types; workers are registered; sessions have their event; and, from     *)
(* what each step may change, that the poller ends no session that goes    *)
(* on, and clouds none before its minimum time.                            *)
(***************************************************************************)
EXTENDS ChargeBot, InTickListProofs

(***************************************************************************)
(* Shapes of the controller's goroutines.                                  *)
(***************************************************************************)
Jobs == [Workers -> [VIN -> Job \cup {None}]]

\* The pc tells which variables a goroutine has.
LEMMA JobShape ==
    ASSUME NEW j \in Job \cup {None}
    PROVE  /\ j.pc \in {"activate", "wake", "setLimit", "setAmps", "start"} => j \in Activation
           /\ j.pc \in {"checkLimit", "verdict", "minTime"} =>
                j \in [pc : {"checkLimit", "verdict", "minTime"},
                       cfg : Configs, st : StateRow, to : ChargeState, amps : Amps \cup {0}]
           /\ j.pc \in {"adjustWake", "adjustAmps"} =>
                j \in [pc : {"adjustWake", "adjustAmps"},
                       cfg : Configs, st : StateRow, to : {Solar, Grid}, amps : Amps]
           /\ j.pc \in {"logStart", "setCharging"} =>
                j \in [pc : {"logStart", "setCharging"}, to : {Solar, Grid}]
           /\ j.pc = "countFailure" => j \in [pc : {"countFailure"}, n : Nat]
  BY DEF Job, Activation, Check, None

\* A goroutine that takes on another legal shape.
LEMMA BecomeType ==
    ASSUME job \in Jobs, NEW w \in Workers, NEW v \in VIN,
           NEW j \in Job \cup {None}, Become(w, v, j)
    PROVE  job' \in Jobs
  BY DEF Jobs, Become

\* A goroutine that moves on and keeps its variables.
LEMMA GotoType ==
    ASSUME job \in Jobs, NEW w \in Workers, NEW v \in VIN, NEW pc,
           [job[w][v] EXCEPT !.pc = pc] \in Job \cup {None}, Goto(w, v, pc)
    PROVE  job' \in Jobs
  BY DEF Jobs, Goto

(***************************************************************************)
(* What single statements and calls do to the types.                       *)
(***************************************************************************)
Events == [VIN -> [Kinds -> Ages]]
Rows == [VIN -> StateRow]

LEMMA LogType ==
    ASSUME age \in Events, NEW v \in VIN, NEW kind \in Kinds, LogEvent(v, kind)
    PROVE  age' \in Events
  BY DEF Events, LogEvent, Ages

LEMMA RowType ==
    ASSUME st \in Rows, NEW v \in VIN,
           \/ \E b \in BOOLEAN : SetPlugged(v, b)
           \/ \E c \in ChargeState : SetCharging(v, c)
           \/ \E n \in Amps : SetAmps(v, n)
           \/ \E n \in Limits : SetLimit(v, n)
    PROVE  st' \in Rows
<1>1. ASSUME NEW row \in StateRow
      PROVE  /\ \A b \in BOOLEAN : [row EXCEPT !.known = TRUE, !.plugged = b] \in StateRow
             /\ \A c \in ChargeState : [row EXCEPT !.known = TRUE, !.charging = c] \in StateRow
             /\ \A n \in Amps : [row EXCEPT !.known = TRUE, !.amps = n] \in StateRow
             /\ \A n \in Limits : [row EXCEPT !.known = TRUE, !.limit = n] \in StateRow
  BY DEF StateRow
<1>2. \E row \in StateRow : st' = [st EXCEPT ![v] = row]
  BY <1>1 DEF Rows, SetPlugged, SetCharging, SetAmps, SetLimit
<1> QED
  BY <1>2 DEF Rows

LEMMA SpendType ==
    ASSUME CarTypeOK, NEW what \in Bounded, Spend(what)
    PROVE  left' \in [Bounded -> Nat]
  BY DEF CarTypeOK, Spend

LEMMA CallType ==
    ASSUME CarTypeOK, NEW v \in VIN, NEW c \in CarState, CarriedOut(v, c) \/ Fails(v, c)
    PROVE  CarTypeOK'
<1>1. "faults" \in Bounded
  BY DEF Bounded
<1> QED
  BY <1>1, SpendType DEF CarTypeOK, CarriedOut, Fails

LEMMA StopCallType ==
    ASSUME CarTypeOK, NEW v \in VIN,
           CarriedOut(v, Stopped(car[v])) \/ Asleep(v) \/ Fails(v, Stopped(car[v]))
    PROVE  CarTypeOK'
<1>1. Stopped(car[v]) \in CarState
  BY DEF CarTypeOK, CarState, Stopped
<1>2. Asleep(v) => CarTypeOK'
  BY DEF Asleep, CarTypeOK, carVars
<1> QED
  BY <1>1, <1>2, CallType
-----------------------------------------------------------------------------
(***************************************************************************)
(* The controller keeps the types.                                         *)
(***************************************************************************)
LEMMA ChoicesType ==
    ASSUME NEW c \in Configs, NEW d \in Choices(c)
    PROVE  \/ d = <<Not, 0>>
           \/ d[1] \in {Solar, Grid} /\ d[2] \in Amps
<1>1. c.maxAmps \in Amps
  BY StoreAssumption
<1> QED
  BY <1>1 DEF Choices

LEMMA RoundsType ==
    ASSUME NEW c \in Configs, NEW s \in StateRow
    PROVE  Rounds(c, s) \subseteq Job
<1>1. ASSUME NEW d \in Choices(c), d[1] # Not
      PROVE  d[1] \in {Solar, Grid} /\ d[2] \in Amps
  BY <1>1, ChoicesType
<1>2. \A pc \in {"checkLimit", "verdict"} :
        [pc |-> pc, cfg |-> c, st |-> s, to |-> Not, amps |-> 0] \in Job
  BY DEF Job, Check, ChargeState
<1>3. [pc |-> "stop"] \in Job /\ [pc |-> "release"] \in Job
  BY DEF Job
<1>4. ASSUME NEW d \in Choices(c), d[1] # Not
      PROVE  [[pc |-> "activate", cfg |-> c, st |-> s, to |-> Not, amps |-> 0]
                EXCEPT !.to = d[1], !.amps = d[2]] \in Job
  BY <1>1, <1>4 DEF Job, Activation
<1> QED
  BY <1>2, <1>3, <1>4 DEF Rounds

LEMMA ArrivingType ==
    ASSUME TypeOK, Injective(inTick), NEW v \in VIN, Arriving(v), UNCHANGED pollVars
    PROVE  TypeOK' /\ Injective(inTick')
<1> USE DEF TypeOK, StoreTypeOK, CarTypeOK, ControllerTypeOK
<1>1. PollerTypeOK'
  BY DEF PollerTypeOK, pollVars
<1>2. CASE ReadState(v)
  <2>1. arr' \in [VIN -> Arrival \cup {None}]
    <3>1. [pc |-> "scan", cfg |-> arr[v].cfg, st |-> st[v]] \in Arrival
      <4>1. arr[v] \in Arrival \cup {None} /\ arr[v].pc = "read"
        BY <1>2 DEF ReadState
      <4>2. arr[v].cfg \in Configs
        BY <4>1 DEF Arrival, None
      <4> QED
        BY <4>2 DEF Arrival
    <3> QED
      BY <1>2, <3>1 DEF ReadState
  <2> QED
    BY <1>1, <1>2, <2>1 DEF ReadState, storeVars, carVars
<1>3. CASE SkipRound(v)
  <2>1. arr' \in [VIN -> Arrival \cup {None}]
    BY <1>3 DEF SkipRound
  <2> QED
    BY <1>1, <1>3, <2>1 DEF SkipRound, storeVars, carVars
<1>4. CASE NotFound(v)
  <2>1. arr[v] \in [pc : {"scan", "torn", "register"}, cfg : Configs, st : StateRow]
    BY <1>4 DEF NotFound, Arrival, None
  <2>2. [arr[v] EXCEPT !.pc = "register"] \in Arrival
    BY <2>1 DEF Arrival
  <2>3. arr' \in [VIN -> Arrival \cup {None}]
    BY <1>4, <2>2 DEF NotFound
  <2> QED
    BY <1>1, <1>4, <2>3 DEF NotFound, storeVars, carVars
<1>5. CASE Register(v)
  <2>1. arr' \in [VIN -> Arrival \cup {None}]
    BY <1>5 DEF Register
  <2>2. arr[v] \in [pc : {"register"}, cfg : Configs, st : StateRow]
    BY <1>5 DEF Register, Arrival, None
  <2>3. PICK w \in Ticks, j \in Rounds(arr[v].cfg, arr[v].st) : Become(w, v, j)
    BY <1>5 DEF Register
  <2>4. job' \in Jobs
    <3>1. j \in Job /\ w \in Workers
      BY <2>2, <2>3, RoundsType DEF Workers
    <3> QED
      BY <2>3, <3>1, BecomeType DEF Jobs
  <2>5. inTick' \in Seq(VIN) /\ Injective(inTick')
    BY <1>5, SetOutcome DEF Register
  <2> QED
    BY <1>1, <1>5, <2>1, <2>4, <2>5 DEF Register, storeVars, carVars, Jobs
<1> QED
  BY <1>2, <1>3, <1>4, <1>5 DEF Arriving

\* A goroutine that goes on to its end: it keeps no variables.
LEMMA LeaveType ==
    ASSUME job \in Jobs, NEW w \in Workers, NEW v \in VIN,
           NEW pc \in {"logFailure", "stop", "setStopped", "logStop", "hold", "release"},
           Leave(w, v, pc)
    PROVE  job' \in Jobs
<1>1. [pc |-> pc] \in Job
  BY DEF Job
<1> QED
  BY <1>1, BecomeType DEF Leave

\* Steps between the calls of activateCharging.
LEMMA ActivationGoto ==
    ASSUME job \in Jobs, NEW w \in Workers, NEW v \in VIN, job[w][v] \in Activation,
           NEW pc \in {"wake", "setLimit", "setAmps", "start"}, Goto(w, v, pc)
    PROVE  job' \in Jobs
<1>1. [job[w][v] EXCEPT !.pc = pc] \in Job
  BY DEF Job, Activation
<1> QED
  BY <1>1, GotoType

LEMMA FirstCallPC ==
    ASSUME NEW j
    PROVE  /\ AmpsCall(j) \in {"setAmps", "start"}
           /\ FirstCall(j) \in {"setLimit", "setAmps", "start"}
  BY DEF AmpsCall, FirstCall, LimitCall

LEMMA ActivatingType ==
    ASSUME TypeOK, Injective(inTick), NEW w \in Workers, NEW v \in VIN, UNCHANGED pollVars,
           \/ Activate(w, v) \/ Wake(w, v) \/ ActivateLimit(w, v)
           \/ ActivateAmps(w, v) \/ Start(w, v) \/ LogFailure(w, v)
           \/ CountFailure(w, v) \/ LogStart(w, v) \/ RecordCharging(w, v)
    PROVE  TypeOK' /\ Injective(inTick')
<1> USE DEF TypeOK, StoreTypeOK, ControllerTypeOK
<1> DEFINE j == job[w][v]
<1>1. /\ PollerTypeOK'
      /\ job \in Jobs /\ j \in Job \cup {None}
      /\ st \in Rows /\ age \in Events /\ CarTypeOK
      /\ AfterActivate(w) \in {"release", "hold"}
  BY DEF PollerTypeOK, pollVars, Jobs, Rows, Events, AfterActivate
<1>2. UNCHANGED carVars => CarTypeOK'
  BY DEF CarTypeOK, carVars
<1>3. CASE Activate(w, v)
  <2>1. j \in Activation
    BY <1>1, <1>3, JobShape DEF Activate, At
  <2>2. job' \in Jobs
    BY <1>1, <1>3, <2>1, LeaveType, ActivationGoto DEF Activate
  <2>3. permErr' \in BOOLEAN
    BY <1>3, Zenon DEF Activate
  <2>4. failCount' \in Nat
    BY <1>3 DEF Activate
  <2>5. UNCHANGED <<cfg, st, age, carVars, inTick, arr, down, tornVINs>>
    BY <1>3 DEF Activate
  <2> QED
    BY <1>1, <1>2, <2>2, <2>3, <2>4, <2>5 DEF Jobs
<1>4. CASE Wake(w, v)
  <2>1. j \in Activation
    BY <1>1, <1>4, JobShape DEF Wake, At
  <2>2. job' \in Jobs
    BY <1>1, <1>4, <2>1, LeaveType, ActivationGoto, FirstCallPC DEF Wake
  <2>3. CarTypeOK'
    <3>1. car[v] \in CarState /\ "faults" \in Bounded
      BY <1>1 DEF CarTypeOK, Bounded
    <3> QED
      BY <1>1, <1>4, <3>1, CallType, SpendType DEF Wake, CarTypeOK
  <2> QED
    BY <1>1, <1>4, <2>2, <2>3 DEF Wake, storeVars, Jobs
<1>5. CASE ActivateLimit(w, v)
  <2>1. j \in Activation
    BY <1>1, <1>5, JobShape DEF ActivateLimit, At
  <2>2. j.cfg.target \in Limits
    BY <2>1, StoreAssumption DEF Activation
  <2>3. job' \in Jobs
    BY <1>1, <1>5, <2>1, LeaveType, ActivationGoto, FirstCallPC DEF ActivateLimit
  <2>4. CarTypeOK'
    <3>1. [car[v] EXCEPT !.limit = j.cfg.target] \in CarState
      BY <1>1, <2>2 DEF CarTypeOK, CarState
    <3> QED
      BY <1>1, <1>5, <3>1, CallType DEF ActivateLimit
  <2>5. st' \in Rows
    BY <1>1, <1>5, <2>2, RowType DEF ActivateLimit
  <2> QED
    BY <1>1, <1>5, <2>3, <2>4, <2>5 DEF ActivateLimit, Jobs, Rows
<1>6. CASE ActivateAmps(w, v)
  <2>1. j \in Activation
    BY <1>1, <1>6, JobShape DEF ActivateAmps, At
  <2>2. j.amps \in Amps
    BY <2>1 DEF Activation
  <2>3. job' \in Jobs
    BY <1>1, <1>6, <2>1, LeaveType, ActivationGoto DEF ActivateAmps
  <2>4. CarTypeOK'
    <3>1. [car[v] EXCEPT !.amps = j.amps] \in CarState
      BY <1>1, <2>2 DEF CarTypeOK, CarState
    <3> QED
      BY <1>1, <1>6, <3>1, CallType DEF ActivateAmps
  <2>5. st' \in Rows /\ age' \in Events
    BY <1>1, <1>6, <2>2, RowType, LogType DEF ActivateAmps, Kinds
  <2> QED
    BY <1>1, <1>6, <2>3, <2>4, <2>5 DEF ActivateAmps, Jobs, Rows, Events
<1>7. CASE Start(w, v)
  <2>1. j \in Activation
    BY <1>1, <1>7, JobShape DEF Start, At
  <2>2. [pc |-> "logStart", to |-> j.to] \in Job
    BY <2>1 DEF Activation, Job
  <2>3. job' \in Jobs
    BY <1>1, <1>7, <2>2, LeaveType, BecomeType DEF Start
  <2>4. CarTypeOK'
    <3>1. Started(car[v]) \in CarState
      BY <1>1 DEF CarTypeOK, CarState, Started
    <3> QED
      BY <1>1, <1>2, <1>7, <3>1, CallType DEF Start
  <2> QED
    BY <1>1, <1>7, <2>3, <2>4 DEF Start, storeVars, Jobs
<1>8. CASE LogFailure(w, v)
  <2>1. [pc |-> "countFailure", n |-> failCount] \in Job
    BY DEF Job
  <2>2. job' \in Jobs
    BY <1>1, <1>8, <2>1, LeaveType, BecomeType DEF LogFailure
  <2>3. age' \in Events
    BY <1>1, <1>8, LogType DEF LogFailure, Kinds
  <2> QED
    BY <1>1, <1>2, <1>8, <2>2, <2>3 DEF LogFailure, Jobs, Events
<1>9. CASE CountFailure(w, v)
  <2>1. j.n \in Nat
    BY <1>1, <1>9, JobShape DEF CountFailure, At
  <2>2. job' \in Jobs
    BY <1>1, <1>9, LeaveType DEF CountFailure
  <2> QED
    BY <1>1, <1>2, <1>9, <2>1, <2>2 DEF CountFailure, storeVars, Jobs
<1>10. CASE LogStart(w, v)
  <2>1. j \in [pc : {"logStart", "setCharging"}, to : {Solar, Grid}]
    BY <1>1, <1>10, JobShape DEF LogStart, At
  <2>2. [j EXCEPT !.pc = "setCharging"] \in Job
    BY <2>1 DEF Job
  <2>3. job' \in Jobs
    BY <1>1, <1>10, <2>2, GotoType DEF LogStart
  <2>4. age' \in Events
    BY <1>1, <1>10, LogType DEF LogStart, Kinds
  <2> QED
    BY <1>1, <1>2, <1>10, <2>3, <2>4 DEF LogStart, Jobs, Events
<1>11. CASE RecordCharging(w, v)
  <2>1. j.to \in ChargeState
    BY <1>1, <1>11, JobShape DEF RecordCharging, At, ChargeState
  <2>2. job' \in Jobs /\ st' \in Rows
    BY <1>1, <1>11, <2>1, LeaveType, RowType DEF RecordCharging
  <2> QED
    BY <1>1, <1>2, <1>11, <2>2 DEF RecordCharging, Jobs, Rows
<1> QED
  BY <1>3, <1>4, <1>5, <1>6, <1>7, <1>8, <1>9, <1>10, <1>11

LEMMA CheckingType ==
    ASSUME TypeOK, Injective(inTick), NEW w \in Workers, NEW v \in VIN, UNCHANGED pollVars,
           \/ CheckLimit(w, v) \/ Verdict(w, v) \/ AdjustWake(w, v)
           \/ AdjustAmps(w, v) \/ MinTime(w, v)
    PROVE  TypeOK' /\ Injective(inTick')
<1> USE DEF TypeOK, StoreTypeOK, ControllerTypeOK
<1> DEFINE j == job[w][v]
<1>1. /\ PollerTypeOK'
      /\ job \in Jobs /\ j \in Job \cup {None}
      /\ st \in Rows /\ age \in Events /\ CarTypeOK
  BY DEF PollerTypeOK, pollVars, Jobs, Rows, Events
<1>2. UNCHANGED carVars => CarTypeOK'
  BY DEF CarTypeOK, carVars
<1>3. CASE CheckLimit(w, v)
  <2>1. j \in [pc : {"checkLimit", "verdict", "minTime"},
               cfg : Configs, st : StateRow, to : ChargeState, amps : Amps \cup {0}]
    BY <1>1, <1>3, JobShape DEF CheckLimit, At
  <2>2. j.cfg.target \in Limits
    BY <2>1, StoreAssumption
  <2>3. [j EXCEPT !.pc = "verdict"] \in Job
    BY <2>1 DEF Job, Check
  <2>4. job' \in Jobs
    BY <1>1, <1>3, <2>3, GotoType DEF CheckLimit
  <2>5. CarTypeOK'
    <3>1. [car[v] EXCEPT !.limit = j.cfg.target] \in CarState
      BY <1>1, <2>2 DEF CarTypeOK, CarState
    <3> QED
      BY <1>1, <1>3, <3>1, CallType DEF CheckLimit
  <2>6. st' \in Rows
    BY <1>1, <1>3, <2>2, RowType DEF CheckLimit
  <2> QED
    BY <1>1, <1>3, <2>4, <2>5, <2>6 DEF CheckLimit, Jobs, Rows
<1>4. CASE Verdict(w, v)
  <2>1. j \in [pc : {"checkLimit", "verdict", "minTime"},
               cfg : Configs, st : StateRow, to : ChargeState, amps : Amps \cup {0}]
    BY <1>1, <1>4, JobShape DEF Verdict, At
  <2>2. ASSUME NEW d \in Choices(j.cfg)
        PROVE  [j EXCEPT !.pc = "minTime", !.to = d[1], !.amps = d[2]] \in Job
    <3>1. d[1] \in ChargeState /\ d[2] \in Amps \cup {0}
      BY <2>1, ChoicesType DEF ChargeState
    <3> QED
      BY <2>1, <3>1 DEF Job, Check
  <2>3. ASSUME NEW d \in Choices(j.cfg), Adjusts(v, j.st, d[2])
        PROVE  [j EXCEPT !.pc = "adjustWake", !.to = d[1], !.amps = d[2]] \in Job
    <3>1. d[1] \in {Solar, Grid} /\ d[2] \in Amps
      BY <2>1, <2>3, ChoicesType, StoreAssumption DEF Adjusts
    <3> QED
      BY <2>1, <3>1 DEF Job, Check
  <2>4. job' \in Jobs
    <3>1. CASE Leave(w, v, "stop")
      BY <1>1, <3>1, LeaveType
    <3>2. ASSUME NEW d \in Choices(j.cfg),
                 NEW pc \in {"minTime"} \cup (IF Adjusts(v, j.st, d[2]) THEN {"adjustWake"} ELSE {}),
                 Become(w, v, [j EXCEPT !.pc = pc, !.to = d[1], !.amps = d[2]])
          PROVE  job' \in Jobs
      <4>1. [j EXCEPT !.pc = pc, !.to = d[1], !.amps = d[2]] \in Job
        BY <2>2, <2>3
      <4> QED
        BY <1>1, <3>2, <4>1, BecomeType
    <3> QED
      BY <1>4, <3>1, <3>2 DEF Verdict
  <2> QED
    BY <1>1, <1>2, <1>4, <2>4 DEF Verdict, storeVars, Jobs
<1>5. ASSUME AdjustWake(w, v) \/ AdjustAmps(w, v)
      PROVE  TypeOK' /\ Injective(inTick')
  <2>1. j \in [pc : {"adjustWake", "adjustAmps"},
               cfg : Configs, st : StateRow, to : {Solar, Grid}, amps : Amps]
    BY <1>1, <1>5, JobShape DEF AdjustWake, AdjustAmps, At
  <2>2. /\ [j EXCEPT !.pc = "adjustAmps"] \in Job
        /\ [j EXCEPT !.pc = "minTime"] \in Job
    BY <2>1 DEF Job, Check, ChargeState
  <2>3. job' \in Jobs
    BY <1>1, <1>5, <2>2, GotoType DEF AdjustWake, AdjustAmps
  <2>4. car[v] \in CarState /\ [car[v] EXCEPT !.amps = j.amps] \in CarState /\ "faults" \in Bounded
    <3>1. car[v] \in CarState /\ j.amps \in Amps
      BY <1>1, <2>1 DEF CarTypeOK
    <3>2. [car[v] EXCEPT !.amps = j.amps] \in CarState
      BY <3>1 DEF CarState
    <3> QED
      BY <3>1, <3>2 DEF Bounded
  <2>5. CarTypeOK'
    <3>1. CASE AdjustWake(w, v)
      BY <1>1, <2>4, <3>1, CallType, SpendType DEF AdjustWake, CarTypeOK
    <3>2. CASE AdjustAmps(w, v)
      BY <1>1, <2>4, <3>2, CallType DEF AdjustAmps
    <3> QED
      BY <1>5, <3>1, <3>2
  <2>6. age' \in Events
    BY <1>1, <1>5, LogType DEF AdjustWake, AdjustAmps, Kinds
  <2>7. st' \in Rows
    BY <1>1, <1>5, <2>1, RowType DEF AdjustWake, AdjustAmps
  <2> QED
    BY <1>1, <1>5, <2>3, <2>5, <2>6, <2>7 DEF AdjustWake, AdjustAmps, Jobs, Rows, Events
<1>6. CASE MinTime(w, v)
  <2>1. job' \in Jobs
    BY <1>1, <1>6, LeaveType DEF MinTime
  <2> QED
    BY <1>1, <1>2, <1>6, <2>1 DEF MinTime, storeVars, Jobs
<1> QED
  BY <1>3, <1>4, <1>5, <1>6

LEMMA StoppingType ==
    ASSUME TypeOK, Injective(inTick), NEW w \in Workers, NEW v \in VIN, UNCHANGED pollVars,
           \/ Stop(w, v) \/ RecordStopped(w, v) \/ LogStop(w, v)
           \/ (w = "drive" /\ EndHold(v)) \/ Release(w, v)
    PROVE  TypeOK' /\ Injective(inTick')
<1> USE DEF TypeOK, StoreTypeOK, ControllerTypeOK
<1>1. /\ PollerTypeOK'
      /\ job \in Jobs /\ st \in Rows /\ age \in Events /\ CarTypeOK
      /\ Not \in ChargeState /\ "stop" \in Kinds
  BY DEF PollerTypeOK, pollVars, Jobs, Rows, Events, ChargeState, Kinds
<1>2. UNCHANGED carVars => CarTypeOK'
  BY DEF CarTypeOK, carVars
<1>3. ASSUME NEW pc \in {"setStopped", "logStop", "release", "stop"}, Goto(w, v, pc),
             job[w][v].pc \in {"stop", "setStopped", "logStop", "hold"}
      PROVE  job' \in Jobs
  <2>1. job[w][v] \in Job \cup {None}
    BY <1>1 DEF Jobs
  <2>2. job[w][v] \in [pc : {"stop", "setStopped", "logStop", "hold"}]
    BY <1>3, <2>1 DEF Job, Activation, Check, None
  <2>3. [job[w][v] EXCEPT !.pc = pc] \in Job
    BY <2>2 DEF Job
  <2> QED
    BY <1>1, <1>3, <2>3, GotoType
<1>4. CASE Stop(w, v)
  <2>1. job' \in Jobs
    BY <1>1, <1>3, <1>4, LeaveType DEF Stop, At
  <2>2. CarTypeOK'
    BY <1>1, <1>4, StopCallType DEF Stop
  <2>3. age' \in Events
    BY <1>1, <1>4, LogType DEF Stop
  <2> QED
    BY <1>1, <1>4, <2>1, <2>2, <2>3 DEF Stop, Jobs, Events
<1>5. CASE RecordStopped(w, v)
  <2>1. job' \in Jobs /\ st' \in Rows
    BY <1>1, <1>3, <1>5, RowType DEF RecordStopped, At
  <2> QED
    BY <1>1, <1>2, <1>5, <2>1 DEF RecordStopped, Jobs, Rows
<1>6. CASE LogStop(w, v)
  <2>1. job' \in Jobs /\ age' \in Events
    BY <1>1, <1>3, <1>6, LogType DEF LogStop, At
  <2> QED
    BY <1>1, <1>2, <1>6, <2>1 DEF LogStop, Jobs, Events
<1>7. CASE w = "drive" /\ EndHold(v)
  <2>1. job' \in Jobs
    BY <1>1, <1>3, <1>7 DEF EndHold, At
  <2> QED
    BY <1>1, <1>2, <1>7, <2>1 DEF EndHold, storeVars, Jobs
<1>8. CASE Release(w, v)
  <2>1. job' \in Jobs
    BY <1>1, <1>8, BecomeType DEF Release
  <2>2. inTick' \in Seq(VIN) /\ Injective(inTick')
    BY <1>8, UnsetKeepsOthers DEF Release, Unset
  <2>3. down' \in {"no", "list", "event", "restart"}
    BY <1>8 DEF Release, Unset
  <2>4. arr' \in [VIN -> Arrival \cup {None}] /\ tornVINs' \subseteq VIN
    <3>1. CASE UNCHANGED <<arr, tornVINs>>
      BY <3>1
    <3>2. CASE Unset(v)
      <4>1. ASSUME NEW u \in VIN, NEW list, u \in TornBy(v, list)
            PROVE  [arr[u] EXCEPT !.pc = "torn"] \in Arrival
        <5>1. arr[u] \in [pc : {"scan", "torn", "register"}, cfg : Configs, st : StateRow]
          BY <4>1 DEF TornBy, Arrival, None
        <5> QED
          BY <5>1 DEF Arrival
      <4>2. \A list : TornBy(v, list) \subseteq VIN
        BY DEF TornBy
      <4> QED
        BY <3>2, <4>1, <4>2 DEF Unset
    <3> QED
      BY <1>8, <3>1, <3>2 DEF Release
  <2>5. UNCHANGED <<storeVars, carVars, failCount>>
    BY <1>8 DEF Release
  <2> QED
    BY <1>1, <1>2, <2>1, <2>2, <2>3, <2>4, <2>5 DEF storeVars, Jobs
<1> QED
  BY <1>4, <1>5, <1>6, <1>7, <1>8

LEMMA KnownRow ==
    ASSUME NEW r \in StateRow
    PROVE  [r EXCEPT !.known = TRUE] \in StateRow
  BY DEF StateRow

LEMMA UserType ==
    ASSUME TypeOK, Injective(inTick), UNCHANGED pollVars,
           ResolvePermanentError \/ \E v \in VIN : UserNext(v)
    PROVE  TypeOK' /\ Injective(inTick')
<1> USE DEF TypeOK, StoreTypeOK, ControllerTypeOK
<1>1. /\ PollerTypeOK'
      /\ job \in Jobs /\ CarTypeOK /\ {"drives", "edits"} \subseteq Bounded
  BY DEF PollerTypeOK, pollVars, Jobs, Bounded
<1>2. CASE ResolvePermanentError
  BY <1>1, <1>2 DEF ResolvePermanentError, ctlVars, CarTypeOK, carVars
<1>3. ASSUME NEW v \in VIN, TestDrive(v)
      PROVE  TypeOK' /\ Injective(inTick')
  <2> DEFINE row == [st[v] EXCEPT !.known = TRUE]
  <2>1. row \in StateRow
    BY KnownRow
  <2>2. [pc |-> "activate", cfg |-> cfg[v], st |-> row, to |-> Grid, amps |-> DriveAmps] \in Job
    BY <2>1, ControllerAssumption DEF Job, Activation
  <2>3. job' \in Jobs
    BY <1>1, <1>3, <2>2, BecomeType DEF TestDrive, Workers
  <2>4. CarTypeOK'
    BY <1>1, <1>3, SpendType DEF TestDrive, CarTypeOK
  <2>5. st' \in Rows
    BY <1>3, <2>1 DEF TestDrive, Rows
  <2> QED
    BY <1>1, <1>3, <2>3, <2>4, <2>5 DEF TestDrive, Jobs, Rows
<1>4. ASSUME NEW v \in VIN, UpdateVehicle(v)
      PROVE  TypeOK' /\ Injective(inTick')
  <2>1. CarTypeOK'
    BY <1>1, <1>4, SpendType DEF UpdateVehicle, CarTypeOK
  <2> QED
    BY <1>1, <1>4, <2>1 DEF UpdateVehicle, ctlVars
<1> QED
  BY <1>2, <1>3, <1>4 DEF UserNext
-----------------------------------------------------------------------------
(***************************************************************************)
(* The poller, the plug handlers, the cars and the node keep the types.    *)
(***************************************************************************)
PlugCounts == [VIN -> [stopping : Nat, setting : Nat]]

\* OnVehicleUnplugged and the start of OnVehiclePluggedIn.
LEMMA UnpluggedType ==
    ASSUME st \in Rows, NEW v \in VIN, NEW was, Unplugged(v, was)
    PROVE  st' \in Rows
<1>1. ASSUME NEW row \in StateRow, NEW c \in {row.charging, Not}
      PROVE  [row EXCEPT !.known = TRUE, !.plugged = FALSE, !.charging = c] \in StateRow
  BY DEF StateRow, ChargeState
<1>2. st[v] \in StateRow
  BY DEF Rows
<1>3. \E row \in StateRow : st' = [st EXCEPT ![v] = row]
  BY <1>1, <1>2 DEF Unplugged
<1> QED
  BY <1>3 DEF Rows

LEMMA PluggedInType ==
    ASSUME plug \in PlugCounts, NEW v \in VIN, NEW enabled, PluggedIn(v, enabled)
    PROVE  plug' \in PlugCounts
  BY DEF PlugCounts, PluggedIn

LEMMA PlugStepType ==
    ASSUME TypeOK, Injective(inTick), NEW v \in VIN, PlugStep(v) \/ HookArrives(v)
    PROVE  TypeOK' /\ Injective(inTick')
<1> USE DEF TypeOK, StoreTypeOK, PollerTypeOK
<1>1. /\ st \in Rows /\ plug \in PlugCounts /\ CarTypeOK
      /\ UNCHANGED ctlVars => ControllerTypeOK' /\ Injective(inTick')
  BY DEF Rows, PlugCounts, ctlVars, ControllerTypeOK
<1>2. CASE PlugStop(v)
  <2>1. plug' \in PlugCounts
    <3>1. [stopping |-> plug[v].stopping - 1, setting |-> plug[v].setting + 1]
            \in [stopping : Nat, setting : Nat]
      BY <1>2 DEF PlugStop
    <3> QED
      BY <1>1, <1>2, <3>1 DEF PlugCounts, PlugStop
  <2>2. CarTypeOK'
    BY <1>1, <1>2, StopCallType DEF PlugStop
  <2> QED
    BY <1>1, <1>2, <2>1, <2>2 DEF PlugStop, storeVars, PlugCounts
<1>3. CASE PlugSet(v)
  <2>1. plug' \in PlugCounts
    <3>1. [plug[v] EXCEPT !.setting = @ - 1] \in [stopping : Nat, setting : Nat]
      <4>1. plug[v] \in [stopping : Nat, setting : Nat] /\ plug[v].setting > 0
        BY <1>3 DEF PlugSet
      <4>2. plug[v].setting - 1 \in Nat
        BY <4>1
      <4> QED
        BY <4>1, <4>2
    <3> QED
      BY <1>1, <1>3, <3>1 DEF PlugCounts, PlugSet
  <2>2. st' \in Rows
    BY <1>1, <1>3, RowType DEF PlugSet
  <2> QED
    BY <1>1, <1>3, <2>1, <2>2 DEF PlugSet, CarTypeOK, carVars, PlugCounts, Rows
<1>4. CASE HookArrives(v)
  <2>1. hooks' \in [VIN -> Seq(BOOLEAN)]
    <3>1. hooks[v] \in Seq(BOOLEAN) /\ hooks[v] # <<>>
      BY <1>4 DEF HookArrives
    <3>2. Tail(hooks[v]) \in Seq(BOOLEAN)
      BY <3>1
    <3> QED
      BY <1>4, <3>2 DEF HookArrives
  <2>2. plug' \in PlugCounts /\ st' \in Rows
    BY <1>1, <1>4, PluggedInType, UnpluggedType DEF HookArrives
  <2> QED
    BY <1>1, <1>4, <2>1, <2>2 DEF HookArrives, CarTypeOK, carVars, PlugCounts, Rows
<1> QED
  BY <1>2, <1>3, <1>4 DEF PlugStep

\* The poller's goroutine moves on in processState.
LEMMA PollGotoType ==
    ASSUME poll \in Poll \cup {Idle}, poll.pc \in PollPCs, NEW pc \in PollPCs, PollGoto(pc)
    PROVE  poll' \in Poll
<1>1. poll \in Poll
  BY DEF Idle, PollPCs, PollCarPCs
<1> QED
  BY <1>1 DEF Poll, PollGoto

LEMMA PollVehicle ==
    ASSUME poll \in Poll \cup {Idle}, poll.pc \in PollPCs
    PROVE  poll.vin \in VIN
  BY DEF Poll, Idle, PollPCs, PollCarPCs

LEMMA ReceiveType ==
    ASSUME TypeOK, Injective(inTick), NEW v \in VIN, Receive(v)
    PROVE  TypeOK' /\ Injective(inTick')
<1> USE DEF TypeOK, StoreTypeOK, PollerTypeOK
<1>1. tel[v] \in Report
  BY DEF Receive
<1>2. Corrected(st[v], tel[v]) \in StateRow
  <2>1. tel[v].amps \in Amps /\ tel[v].soc \in 0..MaxSoC /\ tel[v].limit \in Limits
    BY <1>1 DEF Report
  <2>2. st[v] \in StateRow
    OBVIOUS
  <2> QED
    BY <2>1, <2>2 DEF StateRow, Corrected
<1>3. st' \in [VIN -> StateRow]
  BY <1>2 DEF Receive
<1>4. poll' \in Poll
  <2>1. /\ cfg[v].enabled \in BOOLEAN
        /\ st[v].charging \in ChargeState /\ st[v].plugged \in BOOLEAN
        /\ tel[v].charging \in BOOLEAN /\ tel[v].home \in BOOLEAN
    BY <1>1, StoreAssumption DEF Report, StateRow
  <2> QED
    BY <2>1 DEF Receive, Poll, PollPCs
<1>5. tel' \in [VIN -> Report \cup {None}]
  BY DEF Receive
<1> QED
  BY <1>3, <1>4, <1>5 DEF Receive, CarTypeOK, carVars, ControllerTypeOK, ctlVars

LEMMA ProcessStateType ==
    ASSUME TypeOK, Injective(inTick),
           \/ Reset \/ Anomaly \/ PollStop \/ PollRecordStopped \/ PollLogStop
           \/ Detect \/ VehicleData
    PROVE  TypeOK' /\ Injective(inTick')
<1> USE DEF TypeOK, StoreTypeOK, PollerTypeOK
<1>1. /\ st \in Rows /\ age \in Events /\ plug \in PlugCounts
      /\ UNCHANGED ctlVars => ControllerTypeOK' /\ Injective(inTick')
      /\ UNCHANGED carVars => CarTypeOK'
      /\ {"stop", "data"} \subseteq Kinds /\ Not \in ChargeState
      /\ {"anomaly", "stop", "detect", "setStopped", "logStop", "data"} \subseteq PollPCs
      /\ poll.pc \in PollPCs
  BY DEF Rows, Events, PlugCounts, ctlVars, ControllerTypeOK, carVars, CarTypeOK, Kinds,
     ChargeState, PollPCs, PollCarPCs, PollAt, Reset, Anomaly, PollStop, PollRecordStopped,
     PollLogStop, Detect, VehicleData
<1>2. poll.vin \in VIN /\ poll \in Poll
  BY <1>1, PollVehicle DEF Idle, PollPCs, PollCarPCs
<1>3. ASSUME NEW pc \in {"anomaly", "stop", "detect", "setStopped", "logStop", "data"}, PollGoto(pc)
      PROVE  poll' \in Poll \cup {Idle}
  BY <1>1, <1>3, PollGotoType
<1>4. CASE Reset
  <2>1. CASE down' = "event" /\ UNCHANGED <<st, poll>>
    BY <1>1, <1>4, <2>1 DEF Reset, ControllerTypeOK
  <2>2. CASE /\ st' = [st EXCEPT ![poll.vin].home = poll.home,
                                 ![poll.vin].charging = IF Unconfirmed /\ StaleStart(poll.vin)
                                                          THEN Not ELSE @]
             /\ PollGoto("anomaly") /\ UNCHANGED down
    <3>1. ASSUME NEW row \in StateRow, NEW c \in {row.charging, Not}
          PROVE  [row EXCEPT !.home = poll.home, !.charging = c] \in StateRow
      BY <1>2 DEF StateRow, ChargeState, Poll
    <3>2. \E row \in StateRow : st' = [st EXCEPT ![poll.vin] = row]
      BY <1>2, <2>2, <3>1
    <3>3. st' \in [VIN -> StateRow]
      BY <3>2
    <3> QED
      BY <1>1, <1>3, <1>4, <2>2, <3>3 DEF Reset, ControllerTypeOK
  <2> QED
    BY <1>4, <2>1, <2>2 DEF Reset
<1>5. CASE Anomaly
  <2>1. plug' \in PlugCounts
    BY <1>1, <1>2, <1>5, PluggedInType DEF Anomaly
  <2>2. poll' \in Poll \cup {Idle}
    BY <1>3, <1>5 DEF Anomaly
  <2> QED
    BY <1>1, <1>5, <2>1, <2>2 DEF Anomaly, storeVars, PlugCounts
<1>6. CASE PollStop
  <2>1. CarTypeOK'
    BY <1>2, <1>6, StopCallType DEF PollStop
  <2>2. poll' \in Poll \cup {Idle} /\ age' \in Events
    BY <1>1, <1>2, <1>3, <1>6, LogType DEF PollStop
  <2> QED
    BY <1>1, <1>6, <2>1, <2>2 DEF PollStop, Events
<1>7. CASE PollRecordStopped
  <2>1. poll' \in Poll \cup {Idle} /\ st' \in Rows
    BY <1>1, <1>2, <1>3, <1>7, RowType DEF PollRecordStopped
  <2> QED
    BY <1>1, <1>7, <2>1 DEF PollRecordStopped, Rows
<1>8. CASE PollLogStop
  <2>1. poll' \in Poll \cup {Idle} /\ age' \in Events
    BY <1>1, <1>2, <1>3, <1>8, LogType DEF PollLogStop
  <2> QED
    BY <1>1, <1>8, <2>1 DEF PollLogStop, Events
<1>9. CASE Detect
  <2>1. poll' \in Poll \cup {Idle} /\ st' \in Rows
    BY <1>1, <1>2, <1>3, <1>9, UnpluggedType DEF Detect
  <2> QED
    BY <1>1, <1>9, <2>1 DEF Detect, Rows
<1>10. CASE VehicleData
  <2>1. CarTypeOK'
    <3>1. "faults" \in Bounded
      BY DEF Bounded
    <3> QED
      BY <1>10, <3>1, SpendType DEF VehicleData, CarTypeOK
  <2>2. st' \in Rows /\ plug' \in PlugCounts /\ age' \in Events /\ poll' \in Poll \cup {Idle}
    BY <1>1, <1>2, <1>10, UnpluggedType, PluggedInType, LogType DEF VehicleData
  <2> QED
    BY <1>1, <1>10, <2>1, <2>2 DEF VehicleData, Rows, PlugCounts, Events
<1> QED
  BY <1>4, <1>5, <1>6, <1>7, <1>8, <1>9, <1>10

\* The car's next state.
LEMMA CarNextType ==
    ASSUME CarTypeOK, NEW v \in VIN, CarNext(v)
    PROVE  CarTypeOK'
<1>1. car[v] \in CarState /\ {"plugs", "unplugs", "trips", "faults"} \subseteq Bounded
  BY DEF CarTypeOK, Bounded
<1>2. left' \in [Bounded -> Nat]
  BY <1>1, SpendType DEF CarNext, PlugIn, Unplug, Depart, Return, Charge, Interrupt, CarTypeOK
<1>3. \E c \in CarState : car' = [car EXCEPT ![v] = c]
  <2>1. ASSUME NEW c \in CarState, NEW p \in BOOLEAN, NEW q \in BOOLEAN
        PROVE  [c EXCEPT !.plugged = p, !.charging = q] \in CarState
    BY DEF CarState
  <2>2. ASSUME NEW c \in CarState, NEW n \in 0..MaxSoC, NEW q \in BOOLEAN
        PROVE  /\ [c EXCEPT !.soc = n, !.charging = q] \in CarState
               /\ [c EXCEPT !.home = q, !.soc = n] \in CarState
               /\ [c EXCEPT !.home = q] \in CarState
               /\ [c EXCEPT !.charging = q] \in CarState
    BY DEF CarState
  <2>3. MaxSoC \in Nat /\ car[v].soc \in 0..MaxSoC
    BY <1>1, StoreAssumption DEF CarState
  <2>4. CASE PlugIn(v)
    <3>1. PICK starts \in BOOLEAN :
            car' = [car EXCEPT ![v] = [@ EXCEPT !.plugged = TRUE,
                                                !.charging = starts /\ car[v].soc < car[v].limit]]
      BY <2>4, CarAssumption DEF PlugIn
    <3>2. (starts /\ car[v].soc < car[v].limit) \in BOOLEAN
      OBVIOUS
    <3>3. [car[v] EXCEPT !.plugged = TRUE, !.charging = starts /\ car[v].soc < car[v].limit]
            \in CarState
      BY <1>1, <2>1, <3>2
    <3> QED
      BY <3>1, <3>3
  <2>5. CASE Unplug(v)
    BY <1>1, <2>1, <2>5 DEF Unplug
  <2>6. CASE Depart(v)
    BY <1>1, <2>2, <2>3, <2>6 DEF Depart
  <2>7. CASE Return(v)
    <3>1. PICK soc \in 0..car[v].soc :
            car' = [car EXCEPT ![v] = [@ EXCEPT !.home = TRUE, !.soc = soc]]
      BY <2>7 DEF Return
    <3>2. soc \in 0..MaxSoC
      BY <2>3
    <3> QED
      BY <1>1, <2>2, <3>1, <3>2
  <2>8. CASE Charge(v)
    <3>1. car[v].soc + 1 \in 0..MaxSoC
      BY <2>3, <2>8 DEF Charge
    <3>2. (car[v].soc + 1 < car[v].limit) \in BOOLEAN
      OBVIOUS
    <3>3. [car[v] EXCEPT !.soc = car[v].soc + 1,
                         !.charging = car[v].soc + 1 < car[v].limit] \in CarState
      BY <1>1, <2>2, <3>1, <3>2
    <3> QED
      BY <2>8, <3>3 DEF Charge
  <2>9. CASE Interrupt(v)
    BY <1>1, <2>2, <2>3, <2>9 DEF Interrupt, Stopped
  <2> QED
    BY <2>4, <2>5, <2>6, <2>7, <2>8, <2>9 DEF CarNext
<1> QED
  BY <1>2, <1>3 DEF CarTypeOK

LEMMA InitType == Init => TypeOK /\ Injective(inTick)
<1> SUFFICES ASSUME Init PROVE TypeOK /\ Injective(inTick)
  OBVIOUS
<1>1. PICK s \in Setups : /\ cfg = [v \in VIN |-> s.cfg]
                          /\ car = [v \in VIN |-> s.car]
                          /\ st = [v \in VIN |-> FirstRow(s)]
                          /\ left = s.left
  BY DEF Init
<1>2. /\ s.cfg \in Configs /\ s.car \in CarState /\ s.known \in BOOLEAN
      /\ s.left \in [Bounded -> Nat]
  BY SetupAssumption
<1>3. FirstRow(s) \in StateRow
  <2>1. /\ s.car.plugged \in BOOLEAN /\ s.car.home \in BOOLEAN /\ s.car.soc \in 0..MaxSoC
        /\ s.car.amps \in Amps /\ s.car.limit \in Limits
    BY <1>2 DEF CarState
  <2> QED
    BY <2>1 DEF FirstRow, NoRow, StateRow, ChargeState
<1>4. StoreTypeOK
  BY <1>1, <1>2, <1>3 DEF Init, StoreTypeOK, Ages
<1>5. CarTypeOK
  BY <1>1, <1>2 DEF CarTypeOK
<1>6. ControllerTypeOK
  BY EmptySlice DEF Init, ControllerIdle, ControllerTypeOK
<1>7. PollerTypeOK
  <2>1. << >> \in Seq(BOOLEAN)
    BY EmptySlice
  <2> QED
    BY <2>1 DEF Init, PollerIdle, PollerTypeOK
<1> QED
  BY <1>4, <1>5, <1>6, <1>7, EmptySlice DEF TypeOK, Init, ControllerIdle, Injective

LEMMA NodeType ==
    ASSUME TypeOK, Injective(inTick), Minute \/ Crash \/ Restart
    PROVE  TypeOK' /\ Injective(inTick')
<1> USE DEF TypeOK, StoreTypeOK, ControllerTypeOK, PollerTypeOK
<1>1. UNCHANGED carVars => CarTypeOK'
  BY DEF carVars, CarTypeOK
<1>2. CASE Minute
  <2>1. age' \in [VIN -> [Kinds -> Ages]]
    <3>1. \A n \in Ages, kind \in Kinds : Older(n, kind) \in Ages
      BY DEF Older, Ages, Never
    <3> QED
      BY <1>2, <3>1 DEF Minute, AgeEvents
  <2>2. arr' \in [VIN -> Arrival \cup {None}]
    BY <1>2 DEF Minute, OnTick, Arrival
  <2>3. tel' \in [VIN -> Report \cup {None}]
    <3>1. ASSUME NEW v \in VIN PROVE ReportOf(car[v]) \in Report
      BY DEF ReportOf, Report, CarTypeOK, CarState
    <3> QED
      BY <1>2, <3>1 DEF Minute, Refreshed
  <2> QED
    BY <1>1, <1>2, <2>1, <2>2, <2>3 DEF Minute, OnTick
<1>3. CASE Crash
  <2>1. CarTypeOK'
    <3>1. "restarts" \in Bounded
      BY DEF Bounded
    <3> QED
      BY <1>3, <3>1, SpendType DEF Crash, CarTypeOK
  <2> QED
    BY <1>3, <2>1 DEF Crash, storeVars, pollVars
<1>4. CASE Restart
  <2>1. Injective(inTick') /\ inTick' \in Seq(VIN)
    BY <1>4, EmptySlice DEF Restart, Injective
  <2> QED
    BY <1>1, <1>4, <2>1 DEF Restart, storeVars
<1> QED
  BY <1>2, <1>3, <1>4

LEMMA WorldType ==
    ASSUME TypeOK, Injective(inTick), NEW v \in VIN, World(v) \/ Send(v)
    PROVE  TypeOK' /\ Injective(inTick')
<1> USE DEF TypeOK, StoreTypeOK, PollerTypeOK
<1>1. /\ UNCHANGED ctlVars => ControllerTypeOK' /\ Injective(inTick')
      /\ UNCHANGED carVars => CarTypeOK'
  BY DEF ctlVars, ControllerTypeOK, carVars, CarTypeOK
<1>2. CASE World(v)
  <2>1. CarTypeOK'
    BY <1>2, CarNextType DEF World
  <2>2. hooks' \in [VIN -> Seq(BOOLEAN)]
    <3>1. car'[v].plugged \in BOOLEAN
      BY <2>1 DEF CarTypeOK, CarState
    <3>2. Append(hooks[v], car'[v].plugged) \in Seq(BOOLEAN)
      BY <3>1
    <3> QED
      BY <1>2, <3>2 DEF World, CallHook
  <2> QED
    BY <1>1, <1>2, <2>1, <2>2 DEF World, storeVars
<1>3. CASE Send(v)
  <2>1. ReportOf(car[v]) \in Report
    BY DEF ReportOf, Report, CarTypeOK, CarState
  <2> QED
    BY <1>1, <1>3, <2>1 DEF Send, storeVars
<1> QED
  BY <1>2, <1>3

LEMMA NextType ==
    TypeOK /\ Injective(inTick) /\ [Next]_vars => TypeOK' /\ Injective(inTick')
<1> SUFFICES ASSUME TypeOK, Injective(inTick), [Next]_vars
             PROVE  TypeOK' /\ Injective(inTick')
  OBVIOUS
<1>1. CASE Minute \/ Crash \/ Restart
  BY <1>1, NodeType
<1>2. CASE Resolve
  BY <1>2, UserType DEF Resolve
<1>3. CASE PollStep
  BY <1>3, ReceiveType, ProcessStateType DEF PollStep
<1>4. ASSUME NEW v \in VIN, Controller(v)
      PROVE  TypeOK' /\ Injective(inTick')
  <2>1. CASE Arriving(v)
    BY <1>4, <2>1, ArrivingType DEF Controller
  <2>2. ASSUME NEW w \in Workers, Working(w, v)
        PROVE  TypeOK' /\ Injective(inTick')
    BY <1>4, <2>2, ActivatingType, CheckingType, StoppingType DEF Controller, Working
  <2> QED
    BY <1>4, <2>1, <2>2 DEF Controller, ControllerNext
<1>5. ASSUME NEW v \in VIN, User(v)
      PROVE  TypeOK' /\ Injective(inTick')
  BY <1>5, UserType DEF User
<1>6. ASSUME NEW v \in VIN, World(v) \/ Send(v)
      PROVE  TypeOK' /\ Injective(inTick')
  BY <1>6, WorldType
<1>7. ASSUME NEW v \in VIN, PlugStep(v) \/ HookArrives(v)
      PROVE  TypeOK' /\ Injective(inTick')
  BY <1>7, PlugStepType
<1>8. CASE UNCHANGED vars
  BY <1>8 DEF vars, storeVars, carVars, ctlVars, pollVars, TypeOK, StoreTypeOK, CarTypeOK,
     ControllerTypeOK, PollerTypeOK
<1> QED
  BY <1>1, <1>2, <1>3, <1>4, <1>5, <1>6, <1>7, <1>8 DEF Next

TypeInv == TypeOK /\ Injective(inTick)

LEMMA TypeInvInvariant == Spec => []TypeInv
<1>1. Init => TypeInv
  BY InitType DEF TypeInv
<1>2. TypeInv /\ [Next]_vars => TypeInv'
  BY NextType DEF TypeInv
<1> QED
  BY <1>1, <1>2, PTL DEF Spec

\* Every variable of the node keeps its type, whatever the vehicles, their
\* settings, the spans of time and the cars do.
THEOREM NodeTypeOK == Spec => []TypeOK
<1>1. TypeInv => TypeOK
  BY DEF TypeInv
<1> QED
  BY TypeInvInvariant, <1>1, PTL
-----------------------------------------------------------------------------
(***************************************************************************)
(* Goroutines at work are in inTick.                                       *)
(***************************************************************************)
\* What makes BusyIsRegistered inductive: of a vehicle with no torn lookup one
\* tick's goroutine is at work at most, and a lookup that found nothing was right.
RegistryInv ==
    \A v \in VIN \ tornVINs :
        /\ \A w \in Ticks : job[w][v] # None => InList(inTick, v)
        /\ \A w, x \in Ticks : job[w][v] # None /\ job[x][v] # None => w = x
        /\ arr[v].pc = "register" => \A w \in Ticks : job[w][v] = None
        /\ arr[v].pc # "torn"

\* A worker's step keeps the other goroutines, and arrivals and the list but for
\* the end of a tick's goroutine.
LEMMA WorkingFrame ==
    ASSUME job \in Jobs, NEW w \in Workers, NEW v \in VIN, Working(w, v)
    PROVE  /\ \A x \in Workers, u \in VIN : x # w \/ u # v => job'[x][u] = job[x][u]
           /\ job[w][v] # None
           /\ \/ UNCHANGED <<inTick, arr, tornVINs>>
              \/ /\ w \in Ticks /\ job'[w][v] = None
                 /\ ~UnsetPanics(inTick, v) /\ Unset(v)
<1>2. job[w][v] # None
  <2> SUFFICES ASSUME job[w][v] = None PROVE FALSE
    OBVIOUS
  <2>1. \A pc : At(w, v, pc) => pc = "none"
    BY DEF At, None
  <2>2. \E pc \in CarPCs \cup {"activate", "logFailure", "countFailure", "logStart", "setCharging",
                                 "setStopped", "logStop", "release", "verdict", "minTime"} :
           At(w, v, pc)
    BY DEF Working, CarPCs, CallPCs, Activate, Wake, ActivateLimit, ActivateAmps, Start,
       LogFailure, CountFailure, LogStart, RecordCharging, Stop, RecordStopped, LogStop,
       Release, CheckLimit, Verdict, AdjustWake, AdjustAmps, MinTime, EndHold
  <2> QED
    BY <2>1, <2>2 DEF CarPCs, CallPCs
<1>3. \/ \E j : job' = [job EXCEPT ![w][v] = j]
      \/ \E pc : job' = [job EXCEPT ![w][v].pc = pc]
  BY DEF Working, Goto, Become, Leave, Activate, Wake, ActivateLimit, ActivateAmps, Start,
     LogFailure, CountFailure, LogStart, RecordCharging, Stop, RecordStopped, LogStop, Release,
     CheckLimit, Verdict, AdjustWake, AdjustAmps, MinTime, EndHold
<1>4. \A x \in Workers, u \in VIN : x # w \/ u # v => job'[x][u] = job[x][u]
  BY <1>3 DEF Jobs
<1>5. CASE Release(w, v)
  <2>1. job'[w][v] = None
    BY <1>5 DEF Release, Become, Jobs
  <2>2. w = "drive" \/ w \in Ticks
    BY DEF Workers
  <2> QED
    BY <1>2, <1>4, <1>5, <2>1, <2>2 DEF Release
<1>6. CASE ~Release(w, v)
  BY <1>2, <1>4, <1>6 DEF Working, Activate, Wake, ActivateLimit, ActivateAmps, Start,
     LogFailure, CountFailure, LogStart, RecordCharging, Stop, RecordStopped, LogStop,
     CheckLimit, Verdict, AdjustWake, AdjustAmps, MinTime, EndHold
<1> QED
  BY <1>5, <1>6

\* The arrival of one vehicle's goroutine.
LEMMA ArrivalRegistry ==
    ASSUME TypeInv, RegistryInv, NEW v \in VIN, Arriving(v)
    PROVE  RegistryInv'
<1>1. /\ job \in Jobs /\ inTick \in Seq(VIN) /\ Injective(inTick) /\ Ticks \subseteq Workers
      /\ arr \in [VIN -> Arrival \cup {None}]
  BY DEF TypeInv, TypeOK, ControllerTypeOK, Jobs, Workers
<1>2. ASSUME UNCHANGED <<inTick, job, tornVINs>>,
             \A u \in VIN : arr'[u] = arr[u] \/ arr'[u].pc \in {"none", "scan"}
      PROVE  RegistryInv'
  <2>1. \A u \in VIN : \/ arr'[u].pc = arr[u].pc
                       \/ arr'[u].pc # "register" /\ arr'[u].pc # "torn"
    BY <1>2
  <2> QED
    BY <1>2, <2>1 DEF RegistryInv
<1>3. CASE ReadState(v) \/ SkipRound(v)
  <2>1. \A u \in VIN : arr'[u] = arr[u] \/ arr'[u].pc \in {"none", "scan"}
    BY <1>1, <1>3 DEF ReadState, SkipRound, None
  <2> QED
    BY <1>2, <1>3, <2>1 DEF ReadState, SkipRound
<1>4. CASE NotFound(v)
  <2>1. \A u \in VIN : u # v => arr'[u] = arr[u]
    BY <1>1, <1>4 DEF NotFound
  <2>2. arr'[v].pc = "register"
    BY <1>1, <1>4 DEF NotFound, Arrival, None
  <2>3. v \notin tornVINs => ~InList(inTick, v)
    BY <1>4 DEF NotFound, RegistryInv
  <2> QED
    BY <1>4, <2>1, <2>2, <2>3 DEF NotFound, RegistryInv
<1>5. CASE Register(v)
  <2>1. PICK w \in Ticks, j \in Rounds(arr[v].cfg, arr[v].st) : Become(w, v, j)
    BY <1>5 DEF Register
  <2>2. /\ \A x \in Ticks, u \in VIN : x # w \/ u # v => job'[x][u] = job[x][u]
        /\ \A u \in VIN : u # v => arr'[u] = arr[u]
        /\ arr'[v].pc = "none" /\ arr[v].pc = "register" /\ tornVINs' = tornVINs
    BY <1>1, <1>5, <2>1 DEF Register, Become, Jobs, None
  <2>3. \A u : InList(inTick', u) <=> InList(inTick, u) \/ u = v
    BY <1>1, <1>5, SetOutcome DEF Register
  <2> SUFFICES ASSUME NEW u \in VIN \ tornVINs
               PROVE  /\ \A x \in Ticks : job'[x][u] # None => InList(inTick', u)
                      /\ \A x, y \in Ticks : job'[x][u] # None /\ job'[y][u] # None => x = y
                      /\ arr'[u].pc = "register" => \A x \in Ticks : job'[x][u] = None
                      /\ arr'[u].pc # "torn"
    BY <2>2 DEF RegistryInv
  <2>4. CASE u = v
    <3>1. \A x \in Ticks : x # w => job'[x][u] = None
      BY <2>2, <2>4 DEF RegistryInv
    <3> QED
      BY <2>2, <2>3, <2>4, <3>1
  <2>5. CASE u # v
    BY <2>2, <2>3, <2>5 DEF RegistryInv
  <2> QED
    BY <2>4, <2>5
<1> QED
  BY <1>3, <1>4, <1>5 DEF Arriving

\* A goroutine at work, whose end may tear the lookups of other vehicles.
LEMMA WorkRegistry ==
    ASSUME TypeInv, RegistryInv, NEW w \in Workers, NEW v \in VIN, Working(w, v)
    PROVE  RegistryInv'
<1>1. /\ job \in Jobs /\ inTick \in Seq(VIN) /\ Injective(inTick) /\ Ticks \subseteq Workers
      /\ arr \in [VIN -> Arrival \cup {None}]
  BY DEF TypeInv, TypeOK, ControllerTypeOK, Jobs, Workers
<1>2. /\ \A x \in Workers, u \in VIN : x # w \/ u # v => job'[x][u] = job[x][u]
      /\ job[w][v] # None
      /\ \/ UNCHANGED <<inTick, arr, tornVINs>>
         \/ /\ w \in Ticks /\ job'[w][v] = None
            /\ ~UnsetPanics(inTick, v) /\ Unset(v)
  BY <1>1, WorkingFrame
<1>3. \A x \in Ticks, u \in VIN : job'[x][u] # None => job[x][u] # None
  BY <1>1, <1>2
<1>4. CASE UNCHANGED <<inTick, arr, tornVINs>>
  BY <1>3, <1>4 DEF RegistryInv
<1>5. CASE /\ w \in Ticks /\ job'[w][v] = None
           /\ ~UnsetPanics(inTick, v) /\ Unset(v)
  <2> DEFINE list == UnsetInTick(inTick, v)
             torn == TornBy(v, list)
  <2>1. /\ inTick' = list /\ tornVINs' = tornVINs \cup torn
        /\ \A u \in VIN : u \notin torn => arr'[u] = arr[u]
    BY <1>1, <1>5 DEF Unset
  <2>2. \A u : u # v => (InList(inTick', u) <=> InList(inTick, u))
    <3>1. ~UnsetPanics(inTick, v)
      BY <1>5
    <3> QED
      BY <1>1, <2>1, <3>1, UnsetKeepsOthers
  <2> HIDE DEF list, torn
  <2> SUFFICES ASSUME NEW u \in VIN \ tornVINs'
               PROVE  /\ \A x \in Ticks : job'[x][u] # None => InList(inTick', u)
                      /\ \A x, y \in Ticks : job'[x][u] # None /\ job'[y][u] # None => x = y
                      /\ arr'[u].pc = "register" => \A x \in Ticks : job'[x][u] = None
                      /\ arr'[u].pc # "torn"
    BY DEF RegistryInv
  <2>3. u \in VIN \ tornVINs /\ arr'[u] = arr[u]
    BY <2>1
  <2>4. \A x \in Ticks : job'[x][u] # None => u # v
    BY <1>1, <1>2, <1>3, <1>5, <2>3 DEF RegistryInv
  <2> QED
    BY <1>3, <2>2, <2>3, <2>4 DEF RegistryInv
<1> QED
  BY <1>2, <1>4, <1>5

LEMMA NextRegistry == TypeInv /\ RegistryInv /\ [Next]_vars => RegistryInv'
<1> SUFFICES ASSUME TypeInv, RegistryInv, [Next]_vars PROVE RegistryInv'
  OBVIOUS
<1>1. job \in Jobs /\ Ticks \subseteq Workers /\ "drive" \notin Ticks /\ "drive" \in Workers
  BY ControllerAssumption DEF TypeInv, TypeOK, ControllerTypeOK, Jobs, Workers
<1>2. CASE Restart
  BY <1>1, <1>2 DEF Restart, RegistryInv, None
<1>3. CASE Minute
  <2>1. UNCHANGED <<inTick, job, tornVINs>>
    BY <1>3 DEF Minute, OnTick
  <2>2. \A u \in VIN : arr'[u] = arr[u] \/ arr'[u].pc = "read"
    BY <1>3 DEF Minute, OnTick
  <2>3. \A u \in VIN : \/ arr'[u].pc = arr[u].pc
                       \/ arr'[u].pc # "register" /\ arr'[u].pc # "torn"
    BY <2>2
  <2> QED
    BY <2>1, <2>3 DEF RegistryInv
<1>4. ASSUME NEW v \in VIN, Controller(v)
      PROVE  RegistryInv'
  BY <1>4, ArrivalRegistry, WorkRegistry DEF Controller, ControllerNext
<1>5. ASSUME NEW v \in VIN, User(v)
      PROVE  RegistryInv'
  <2>1. UNCHANGED <<inTick, arr, tornVINs>> /\ \A x \in Ticks : job'[x] = job[x]
    BY <1>1, <1>5 DEF User, UserNext, TestDrive, UpdateVehicle, ctlVars, Become, Jobs
  <2> QED
    BY <2>1 DEF RegistryInv
<1>6. CASE \/ Crash \/ Resolve \/ PollStep \/ UNCHANGED vars
           \/ \E v \in VIN : World(v) \/ Send(v) \/ PlugStep(v) \/ HookArrives(v)
  <2>1. UNCHANGED <<inTick, job, arr, tornVINs>>
    BY <1>6 DEF vars, ctlVars, Crash, Resolve, ResolvePermanentError,
       PollStep, Receive, Reset, Anomaly, PollStop, PollRecordStopped, PollLogStop, Detect,
       VehicleData, World, Send, PlugStep, PlugStop, PlugSet, HookArrives
  <2> QED
    BY <2>1 DEF RegistryInv
<1> QED
  BY <1>2, <1>3, <1>4, <1>5, <1>6 DEF Next

LEMMA RegistryInvariant == Spec => []RegistryInv
<1>1. Init => RegistryInv
  <2> SUFFICES ASSUME Init PROVE RegistryInv
    OBVIOUS
  <2>1. \A w \in Ticks, v \in VIN : job[w][v] = None
    BY DEF Init, ControllerIdle, Workers
  <2>2. \A v \in VIN : arr[v].pc = "none"
    BY DEF Init, ControllerIdle, None
  <2> QED
    BY <2>1, <2>2 DEF RegistryInv
<1> QED
  BY TypeInvInvariant, NextRegistry, <1>1, PTL DEF Spec

\* A vehicle that a tick's goroutine works on is in inTick, unless a removal has
\* torn one of its lookups: for any number of vehicles, and of goroutines that
\* come, look up, register and go in any order.
THEOREM WorkersAreRegistered == Spec => []BusyIsRegistered
<1>1. RegistryInv => BusyIsRegistered
  BY DEF RegistryInv, BusyIsRegistered
<1> QED
  BY RegistryInvariant, <1>1, PTL
-----------------------------------------------------------------------------
(***************************************************************************)
(* Where the database says that a vehicle charges, a start is logged.      *)
(***************************************************************************)
Logged(v) == age[v]["start"] # Never

\* The event is there before a goroutine writes the row, and still there when
\* the poller goes by the row it has read.
EventInv ==
    /\ \A v \in VIN : st[v].charging # Not => Logged(v)
    /\ \A w \in Workers, v \in VIN : job[w][v].pc = "setCharging" => Logged(v)
    /\ poll.pc = "reset" /\ poll.was # Not => Logged(poll.vin)
    /\ down # "event"

\* A step after which nothing is believed to charge, or about to be, that was not before.
StartsNothing ==
    /\ \A v \in VIN : st'[v].charging \in {st[v].charging, Not}
    /\ \A w \in Workers, v \in VIN : job'[w][v].pc = "setCharging" => job[w][v].pc = "setCharging"
    /\ poll'.pc = "reset" => poll' = poll
    /\ down' # "event"

LEMMA EventStays ==
    ASSUME TypeOK, [Next]_vars
    PROVE  \A v \in VIN : Logged(v) => Logged(v)'
<1>1. age \in Events /\ "start" \in Kinds
  BY DEF TypeOK, StoreTypeOK, Events, Kinds
<1>2. ASSUME AgeEvents PROVE \A v \in VIN : Logged(v) => Logged(v)'
  <2>1. \A n \in Ages : n # Never => Older(n, "start") # Never
    BY DEF Ages, Never, Older
  <2> QED
    BY <1>1, <1>2, <2>1 DEF AgeEvents, Logged, Events
<1>3. ASSUME NEW u \in VIN, NEW kind \in Kinds, LogEvent(u, kind)
      PROVE  \A v \in VIN : Logged(v) => Logged(v)'
  BY <1>1, <1>3 DEF LogEvent, Logged, Events, Never
<1>4. ASSUME UNCHANGED age PROVE \A v \in VIN : Logged(v) => Logged(v)'
  BY <1>4 DEF Logged
<1>5. \/ UNCHANGED age \/ AgeEvents
      \/ \E u \in VIN, kind \in Kinds : LogEvent(u, kind)
  <2>1. ASSUME NEW v \in VIN, Controller(v)
        PROVE  UNCHANGED age \/ \E kind \in Kinds : LogEvent(v, kind)
    BY <2>1 DEF Controller, ControllerNext, Arriving, Working, ReadState, SkipRound, NotFound,
       Register, Activate, Wake, ActivateLimit, ActivateAmps, Start, LogFailure, CountFailure,
       LogStart, RecordCharging, Stop, RecordStopped, LogStop, Release, CheckLimit, Verdict,
       AdjustWake, AdjustAmps, MinTime, EndHold, storeVars, Kinds
  <2>2. CASE PollStep
    <3>1. poll.pc \in {"stop", "logStop", "data"} => poll.vin \in VIN
      BY DEF TypeOK, PollerTypeOK, Poll, Idle
    <3> QED
      BY <2>2, <3>1 DEF PollStep, PollAt, Receive, Reset, Anomaly, PollStop, PollRecordStopped,
         PollLogStop, Detect, VehicleData, storeVars, Kinds
  <2>3. ASSUME NEW v \in VIN, User(v) \/ World(v) \/ Send(v) \/ PlugStep(v) \/ HookArrives(v)
        PROVE  UNCHANGED age
    BY <2>3 DEF User, UserNext, TestDrive, UpdateVehicle, World, Send, PlugStep, PlugStop,
       PlugSet, HookArrives, storeVars
  <2> QED
    BY <2>1, <2>2, <2>3 DEF Next, Minute, Crash, Restart, Resolve, ResolvePermanentError,
       vars, storeVars
<1> QED
  BY <1>2, <1>3, <1>4, <1>5

LEMMA NothingStarted ==
    ASSUME TypeOK, EventInv, StartsNothing, [Next]_vars
    PROVE  EventInv'
<1>1. \A v \in VIN : Logged(v) => Logged(v)'
  BY EventStays
<1>2. poll.pc = "reset" => poll.vin \in VIN
  BY DEF TypeOK, PollerTypeOK, Poll, Idle
<1> QED
  BY <1>1, <1>2 DEF EventInv, StartsNothing, Logged

\* The statements that set another column, and the one that ends a session.
LEMMA ColumnKeepsCharging ==
    ASSUME st \in Rows, NEW v \in VIN,
           \/ \E b : SetPlugged(v, b)
           \/ SetCharging(v, Not)
           \/ \E n : SetAmps(v, n) \/ SetLimit(v, n)
    PROVE  \A u \in VIN : st'[u].charging \in {st[u].charging, Not}
<1>1. ASSUME NEW row \in StateRow, NEW x
      PROVE  /\ [row EXCEPT !.known = TRUE, !.plugged = x].charging = row.charging
             /\ [row EXCEPT !.known = TRUE, !.amps = x].charging = row.charging
             /\ [row EXCEPT !.known = TRUE, !.limit = x].charging = row.charging
             /\ [row EXCEPT !.known = TRUE, !.charging = x].charging = x
  BY DEF StateRow
<1>2. \E row : st' = [st EXCEPT ![v] = row] /\ row.charging \in {st[v].charging, Not}
  <2>1. st[v] \in StateRow
    BY DEF Rows
  <2>2. ASSUME NEW x, SetPlugged(v, x) \/ SetAmps(v, x) \/ SetLimit(v, x)
        PROVE  \E row : st' = [st EXCEPT ![v] = row] /\ row.charging = st[v].charging
    <3>1. CASE SetPlugged(v, x)
      BY <1>1, <2>1, <3>1 DEF SetPlugged
    <3>2. CASE SetAmps(v, x)
      BY <1>1, <2>1, <3>2 DEF SetAmps
    <3>3. CASE SetLimit(v, x)
      BY <1>1, <2>1, <3>3 DEF SetLimit
    <3> QED
      BY <2>2, <3>1, <3>2, <3>3
  <2>3. CASE SetCharging(v, Not)
    <3>1. st' = [st EXCEPT ![v] = [st[v] EXCEPT !.known = TRUE, !.charging = Not]]
      BY <2>3 DEF SetCharging, Rows
    <3>2. [st[v] EXCEPT !.known = TRUE, !.charging = Not].charging = Not
      BY <1>1, <2>1
    <3> QED
      BY <3>1, <3>2
  <2> QED
    BY <2>2, <2>3
<1> QED
  BY <1>2 DEF Rows

LEMMA GotoPC ==
    ASSUME NEW j \in Job \cup {None}, NEW pc
    PROVE  [j EXCEPT !.pc = pc].pc = pc
  BY DEF Job, Activation, Check, None

\* A step to a pc other than "setCharging", whatever the variables.
LEMMA MovesElsewhere ==
    ASSUME job \in Jobs, NEW w \in Workers, NEW v \in VIN,
           \/ \E pc : pc # "setCharging" /\ Goto(w, v, pc)
           \/ \E j : j.pc # "setCharging" /\ Become(w, v, j)
    PROVE  \A x \in Workers, u \in VIN :
              job'[x][u].pc = "setCharging" => job[x][u].pc = "setCharging"
<1>1. \E j : j.pc # "setCharging" /\ job' = [job EXCEPT ![w][v] = j]
  <2>1. job[w][v] \in Job \cup {None}
    BY DEF Jobs
  <2>2. ASSUME NEW pc, pc # "setCharging", Goto(w, v, pc)
        PROVE  \E j : j.pc # "setCharging" /\ job' = [job EXCEPT ![w][v] = j]
    <3>1. job' = [job EXCEPT ![w][v] = [job[w][v] EXCEPT !.pc = pc]]
      BY <2>2 DEF Goto, Jobs
    <3> QED
      BY <2>1, <2>2, <3>1, GotoPC
  <2> QED
    BY <2>2 DEF Become
<1> QED
  BY <1>1 DEF Jobs

\* Of a goroutine's steps only two are about a start.
LEMMA WorkingMoves ==
    ASSUME job \in Jobs, NEW w \in Workers, NEW v \in VIN,
           Working(w, v), ~LogStart(w, v)
    PROVE  \/ \E pc : pc # "setCharging" /\ Goto(w, v, pc)
           \/ \E j : j.pc # "setCharging" /\ Become(w, v, j)
<1> DEFINE Elsewhere == \/ \E pc : pc # "setCharging" /\ Goto(w, v, pc)
                        \/ \E j : j.pc # "setCharging" /\ Become(w, v, j)
<1>1. \A pc : pc # "setCharging" /\ Leave(w, v, pc) => Elsewhere
  BY DEF Leave
<1>2. \A pc : pc # "setCharging" /\ Goto(w, v, pc) => Elsewhere
  OBVIOUS
<1>3. AfterActivate(w) # "setCharging"
  BY DEF AfterActivate
<1>4. \A j : AmpsCall(j) # "setCharging" /\ FirstCall(j) # "setCharging"
  BY DEF AmpsCall, FirstCall, LimitCall
<1>5. CASE Activate(w, v) \/ Wake(w, v) \/ ActivateLimit(w, v) \/ ActivateAmps(w, v)
  BY <1>1, <1>2, <1>3, <1>4, <1>5 DEF Activate, Wake, ActivateLimit, ActivateAmps
<1>6. CASE Start(w, v) \/ LogFailure(w, v) \/ CountFailure(w, v) \/ RecordCharging(w, v)
  <2>1. [pc |-> "logStart", to |-> job[w][v].to].pc # "setCharging"
    OBVIOUS
  <2>2. [pc |-> "countFailure", n |-> failCount].pc # "setCharging"
    OBVIOUS
  <2> QED
    BY <1>1, <1>3, <1>6, <2>1, <2>2 DEF Start, LogFailure, CountFailure, RecordCharging
<1>7. CASE Stop(w, v) \/ RecordStopped(w, v) \/ LogStop(w, v) \/ Release(w, v)
  BY <1>1, <1>2, <1>7 DEF Stop, RecordStopped, LogStop, Release, None
<1>8. CASE w \in Ticks /\ Verdict(w, v)
  <2>1. ASSUME NEW a, NEW b, NEW pc
        PROVE  [job[w][v] EXCEPT !.pc = pc, !.to = a, !.amps = b].pc = pc
    <3>1. job[w][v] \in [pc : {"checkLimit", "verdict", "minTime"}, cfg : Configs, st : StateRow,
                         to : ChargeState, amps : Amps \cup {0}]
      <4>1. job[w][v] \in Job \cup {None} /\ job[w][v].pc = "verdict"
        BY <1>8 DEF Verdict, At, Jobs
      <4> QED
        BY <4>1, JobShape
    <3> QED
      BY <3>1
  <2>2. CASE Leave(w, v, "stop")
    BY <1>1, <2>2
  <2>3. CASE \E d \in Choices(job[w][v].cfg), pc \in {"minTime", "adjustWake"} :
                Become(w, v, [job[w][v] EXCEPT !.pc = pc, !.to = d[1], !.amps = d[2]])
    <3>1. PICK d \in Choices(job[w][v].cfg), pc \in {"minTime", "adjustWake"} :
             Become(w, v, [job[w][v] EXCEPT !.pc = pc, !.to = d[1], !.amps = d[2]])
      BY <2>3
    <3>2. [job[w][v] EXCEPT !.pc = pc, !.to = d[1], !.amps = d[2]].pc = pc
      BY <2>1
    <3> QED
      BY <3>1, <3>2
  <2> QED
    BY <1>8, <2>2, <2>3 DEF Verdict
<1>9. CASE \/ w \in Ticks /\ (\/ CheckLimit(w, v) \/ AdjustWake(w, v)
                              \/ AdjustAmps(w, v) \/ MinTime(w, v))
           \/ w = "drive" /\ EndHold(v)
  BY <1>1, <1>2, <1>9 DEF CheckLimit, AdjustWake, AdjustAmps, MinTime, EndHold
<1> QED
  BY <1>5, <1>6, <1>7, <1>8, <1>9 DEF Working

LEMMA WorkingStarts ==
    ASSUME TypeOK, EventInv, NEW w \in Workers, NEW v \in VIN, Working(w, v),
           UNCHANGED pollVars, [Next]_vars
    PROVE  EventInv'
<1>1. /\ st \in Rows /\ job \in Jobs /\ age \in Events /\ "start" \in Kinds
      /\ poll.pc = "reset" => poll.vin \in VIN
  BY DEF TypeOK, StoreTypeOK, ControllerTypeOK, PollerTypeOK, Rows, Jobs, Events, Kinds, Poll, Idle
<1>2. \A u \in VIN : Logged(u) => Logged(u)'
  BY EventStays
<1>3. UNCHANGED poll /\ down' # "event"
  BY DEF pollVars, Working, At, EventInv, Activate, Wake, ActivateLimit, ActivateAmps, Start,
     LogFailure, CountFailure, LogStart, RecordCharging, Stop, RecordStopped, LogStop, Release,
     Unset, CheckLimit, Verdict, AdjustWake, AdjustAmps, MinTime, EndHold
<1>4. CASE LogStart(w, v)
  <2>1. Logged(v)' /\ UNCHANGED st
    BY <1>1, <1>4 DEF LogStart, LogEvent, Logged, Events, Never
  <2>2. \A x \in Workers, u \in VIN : x # w \/ u # v => job'[x][u] = job[x][u]
    BY <1>1, <1>4 DEF LogStart, Goto, Jobs
  <2> QED
    BY <1>1, <1>2, <1>3, <2>1, <2>2 DEF EventInv
<1>5. CASE RecordCharging(w, v)
  <2>1. Logged(v)
    BY <1>5 DEF RecordCharging, At, EventInv
  <2>2. \A u \in VIN : u # v => st'[u] = st[u]
    BY <1>1, <1>5 DEF RecordCharging, SetCharging, Rows
  <2>3. \A x \in Workers, u \in VIN : job'[x][u].pc = "setCharging" => job[x][u].pc = "setCharging"
    BY <1>1, <1>5 DEF RecordCharging, Leave, Become, AfterActivate, Jobs
  <2> QED
    BY <1>1, <1>2, <1>3, <2>1, <2>2, <2>3 DEF EventInv
<1>6. CASE ~LogStart(w, v) /\ ~RecordCharging(w, v)
  <2>1. \A u \in VIN : st'[u].charging \in {st[u].charging, Not}
    <3>1. \/ UNCHANGED st \/ SetCharging(v, Not)
          \/ \E n : SetAmps(v, n) \/ SetLimit(v, n)
      BY <1>6 DEF Working, Activate, Wake, ActivateLimit, ActivateAmps, Start, LogFailure,
         CountFailure, Stop, RecordStopped, LogStop, Release, CheckLimit, Verdict, AdjustWake,
         AdjustAmps, MinTime, EndHold, storeVars
    <3> QED
      BY <1>1, <3>1, ColumnKeepsCharging
  <2>2. \A x \in Workers, u \in VIN : job'[x][u].pc = "setCharging" => job[x][u].pc = "setCharging"
    BY <1>1, <1>6, WorkingMoves, MovesElsewhere
  <2>3. StartsNothing
    BY <1>3, <2>1, <2>2 DEF StartsNothing
  <2> QED
    BY <2>3, NothingStarted
<1> QED
  BY <1>4, <1>5, <1>6

LEMMA NextEvents == TypeOK /\ EventInv /\ [Next]_vars => EventInv'
<1> SUFFICES ASSUME TypeOK, EventInv, [Next]_vars
             PROVE  EventInv'
  OBVIOUS
<1>1. /\ st \in Rows /\ job \in Jobs /\ tel \in [VIN -> Report \cup {None}]
      /\ poll \in Poll \cup {Idle} /\ down # "event"
      /\ poll.pc # "idle" => poll.vin \in VIN
  BY DEF TypeOK, StoreTypeOK, ControllerTypeOK, PollerTypeOK, Rows, Jobs, Poll, Idle, EventInv
<1>2. \A u \in VIN : Logged(u) => Logged(u)'
  BY EventStays
<1>3. ASSUME UNCHANGED <<st, job, poll>>, down' # "event"
      PROVE  EventInv'
  BY <1>3, NothingStarted DEF StartsNothing
<1>4. ASSUME NEW v \in VIN, NEW was, Unplugged(v, was)
      PROVE  \A u \in VIN : st'[u].charging \in {st[u].charging, Not}
  BY <1>1, <1>4 DEF Unplugged, Rows, StateRow
<1>5. CASE Restart
  <2>1. \A x \in Workers, u \in VIN : job'[x][u].pc = "none"
    BY <1>5 DEF Restart, None
  <2>2. UNCHANGED st /\ poll'.pc # "reset" /\ down' # "event"
    BY <1>5 DEF Restart, storeVars, Idle
  <2> QED
    BY <2>1, <2>2, NothingStarted DEF StartsNothing
<1>6. ASSUME NEW v \in VIN, Controller(v)
      PROVE  EventInv'
  <2>1. CASE ReadState(v)
    BY <1>1, <1>3, <1>6, <2>1 DEF Controller, pollVars, ReadState, storeVars
  <2>2. CASE SkipRound(v) \/ NotFound(v)
    BY <1>1, <1>3, <1>6, <2>2 DEF Controller, pollVars, SkipRound, NotFound, storeVars
  <2>4. CASE Register(v)
    <3>1. PICK w \in Ticks, j \in Rounds(arr[v].cfg, arr[v].st) : Become(w, v, j)
      BY <2>4 DEF Register
    <3>2. j.pc # "setCharging"
      <4> SUFFICES ASSUME NEW c, NEW s, NEW k \in Rounds(c, s) PROVE k.pc # "setCharging"
        BY <3>1
      <4> DEFINE round(pc) == [pc |-> pc, cfg |-> c, st |-> s, to |-> Not, amps |-> 0]
      <4>1. \/ k = [pc |-> "stop"] \/ k = [pc |-> "release"]
            \/ k = round("checkLimit") \/ k = round("verdict")
            \/ \E d \in Choices(c) : k = [round("activate") EXCEPT !.to = d[1], !.amps = d[2]]
        BY DEF Rounds
      <4>2. \A a, b : [round("activate") EXCEPT !.to = a, !.amps = b].pc = "activate"
        OBVIOUS
      <4>3. CASE \E d \in Choices(c) : k = [round("activate") EXCEPT !.to = d[1], !.amps = d[2]]
        <5>1. PICK d \in Choices(c) : k = [round("activate") EXCEPT !.to = d[1], !.amps = d[2]]
          BY <4>3
        <5>2. k.pc = "activate"
          BY <4>2, <5>1
        <5> QED
          BY <5>2
      <4>4. CASE \/ k = [pc |-> "stop"] \/ k = [pc |-> "release"]
                 \/ k = round("checkLimit") \/ k = round("verdict")
        BY <4>4
      <4> HIDE DEF round
      <4> QED
        BY <4>1, <4>3, <4>4
    <3>3. \A x \in Workers, u \in VIN :
             job'[x][u].pc = "setCharging" => job[x][u].pc = "setCharging"
      BY <1>1, <3>1, <3>2, MovesElsewhere DEF Workers
    <3> QED
      BY <1>1, <1>6, <2>4, <3>3, NothingStarted
         DEF Controller, pollVars, Register, storeVars, StartsNothing
  <2>3. ASSUME NEW w \in Workers, Working(w, v)
        PROVE  EventInv'
    BY <1>6, <2>3, WorkingStarts DEF Controller
  <2> QED
    BY <1>6, <2>1, <2>2, <2>3, <2>4 DEF Controller, ControllerNext, Arriving
<1>7. ASSUME NEW v \in VIN, User(v)
      PROVE  EventInv'
  <2>1. CASE TestDrive(v)
    <3>1. \A u \in VIN : st'[u].charging = st[u].charging
      BY <1>1, <2>1 DEF TestDrive, Rows, StateRow
    <3>2. \A x \in Workers, u \in VIN :
             job'[x][u].pc = "setCharging" => job[x][u].pc = "setCharging"
      BY <1>1, <2>1, MovesElsewhere DEF TestDrive, Workers
    <3> QED
      BY <1>1, <1>7, <2>1, <3>1, <3>2, NothingStarted DEF User, TestDrive, StartsNothing, pollVars
  <2>2. CASE UpdateVehicle(v)
    BY <1>1, <1>3, <1>7, <2>2 DEF User, UpdateVehicle, ctlVars, pollVars
  <2> QED
    BY <1>7, <2>1, <2>2 DEF User, UserNext
<1>8. CASE PollStep
  <2>1. ASSUME NEW v \in VIN, Receive(v)
        PROVE  EventInv'
    <3>1. \A u \in VIN : st'[u].charging = st[u].charging
      BY <1>1, <2>1 DEF Receive, Corrected, Rows, StateRow
    <3>2. poll'.was = st[v].charging /\ poll'.vin = v
      BY <2>1 DEF Receive
    <3>3. UNCHANGED job /\ down' # "event"
      BY <1>1, <2>1 DEF Receive, ctlVars
    <3> QED
      BY <1>2, <3>1, <3>2, <3>3 DEF EventInv
  <2>2. CASE Reset
    <3>1. ~(Unconfirmed /\ age[poll.vin]["start"] = Never)
      BY <2>2 DEF Reset, PollAt, Unconfirmed, EventInv, Logged
    <3>2. \A u \in VIN : st'[u].charging \in {st[u].charging, Not}
      BY <1>1, <2>2, <3>1 DEF Reset, PollAt, Rows, StateRow
    <3>3. poll'.pc = "anomaly"
      BY <1>1, <2>2, <3>1 DEF Reset, PollAt, PollGoto, Poll, Idle
    <3> QED
      BY <1>1, <2>2, <3>1, <3>2, <3>3, NothingStarted DEF Reset, StartsNothing
  <2>3. CASE Anomaly \/ PollStop \/ PollLogStop \/ Detect \/ VehicleData \/ PollRecordStopped
    <3>1. \/ UNCHANGED st \/ \E was : Unplugged(poll.vin, was)
          \/ SetCharging(poll.vin, Not)
      BY <2>3 DEF Anomaly, PollStop, PollLogStop, Detect, VehicleData, PollRecordStopped, storeVars
    <3>2. poll.vin \in VIN
      BY <1>1, <2>3 DEF PollAt, Anomaly, PollStop, PollLogStop, Detect, VehicleData,
         PollRecordStopped
    <3>3. \A u \in VIN : st'[u].charging \in {st[u].charging, Not}
      BY <1>1, <1>4, <3>1, <3>2, ColumnKeepsCharging
    <3>4. poll'.pc # "reset"
      <4>1. \A pc : PollGoto(pc) => poll'.pc = pc \/ poll = Idle
        BY <1>1 DEF PollGoto, Poll
      <4> QED
        BY <2>3, <4>1 DEF PollAt, Idle, Anomaly, PollStop, PollLogStop, Detect, VehicleData,
           PollRecordStopped
    <3>5. UNCHANGED <<job, down>>
      BY <2>3 DEF Anomaly, PollStop, PollLogStop, Detect, VehicleData, PollRecordStopped, ctlVars
    <3> QED
      BY <1>1, <3>3, <3>4, <3>5, NothingStarted DEF StartsNothing
  <2> QED
    BY <1>8, <2>1, <2>2, <2>3 DEF PollStep
<1>9. ASSUME NEW v \in VIN, PlugStep(v) \/ HookArrives(v)
      PROVE  EventInv'
  <2>1. \/ UNCHANGED st \/ SetPlugged(v, TRUE) \/ \E was : Unplugged(v, was)
    BY <1>9 DEF PlugStep, PlugStop, PlugSet, HookArrives, storeVars
  <2>2. \A u \in VIN : st'[u].charging \in {st[u].charging, Not}
    BY <1>1, <1>4, <2>1, ColumnKeepsCharging
  <2>3. UNCHANGED <<job, down, poll>>
    BY <1>9 DEF PlugStep, PlugStop, PlugSet, HookArrives, ctlVars
  <2> QED
    BY <1>1, <2>2, <2>3, NothingStarted DEF StartsNothing
<1>10. CASE \/ Minute \/ Crash \/ Resolve \/ UNCHANGED vars
            \/ \E v \in VIN : World(v) \/ Send(v)
  BY <1>1, <1>3, <1>10 DEF vars, storeVars, ctlVars, pollVars, Minute, OnTick, Crash, Resolve,
     ResolvePermanentError, World, Send
<1> QED
  BY <1>5, <1>6, <1>7, <1>8, <1>9, <1>10 DEF Next

LEMMA EventInvInvariant == Spec => []EventInv
<1>1. Init => EventInv
  <2>1. \A s : FirstRow(s).charging = Not
    BY DEF FirstRow, NoRow
  <2> QED
    BY <2>1 DEF Init, EventInv, ControllerIdle, PollerIdle, None, Idle
<1>2. TypeInv => TypeOK
  BY DEF TypeInv
<1> QED
  BY TypeInvInvariant, NextEvents, <1>1, <1>2, PTL DEF Spec

\* Every row that says its vehicle charges is backed by a logged start, and the
\* poller never brings the process down, whatever telemetry comes when.
THEOREM SessionsHaveEvents == Spec => []ChargingHasStartEvent
<1>1. EventInv => ChargingHasStartEvent
  BY DEF EventInv, ChargingHasStartEvent, Logged
<1> QED
  BY EventInvInvariant, <1>1, PTL
-----------------------------------------------------------------------------
(***************************************************************************)
(* Who changes what: the steps behind a change of the log, a goroutine, a  *)
(* car, a row or a report.                                                 *)
(***************************************************************************)
\* Who writes the log.
LEMMA AgeSteps ==
    ASSUME TypeOK, [Next]_vars, ~Minute
    PROVE  /\ UNCHANGED age \/ \E v \in VIN, kind \in Kinds : LogEvent(v, kind)
           /\ \A v \in VIN : age'[v]["start"] # age[v]["start"]
                 => \E w \in Workers : LogStart(w, v) \/ LogFailure(w, v)
<1>1. age \in Events /\ "start" \in Kinds
  BY DEF TypeOK, StoreTypeOK, Events, Kinds
<1>2. ASSUME NEW v \in VIN, NEW kind \in Kinds, LogEvent(v, kind)
      PROVE  \A u \in VIN : age'[u]["start"] # age[u]["start"] => u = v /\ kind = "start"
  BY <1>1, <1>2 DEF LogEvent, Events
<1>3. ASSUME NEW v \in VIN, Controller(v)
      PROVE  \/ UNCHANGED age
             \/ \E kind \in Kinds \ {"start"} : LogEvent(v, kind)
             \/ LogEvent(v, "start") /\ \E w \in Workers : LogStart(w, v) \/ LogFailure(w, v)
  <2>1. CASE Arriving(v)
    BY <2>1 DEF Arriving, ReadState, SkipRound, NotFound, Register, storeVars
  <2>2. ASSUME NEW w \in Workers, Working(w, v), ~LogStart(w, v), ~LogFailure(w, v)
        PROVE  UNCHANGED age \/ \E kind \in Kinds \ {"start"} : LogEvent(v, kind)
    BY <2>2 DEF Working, Activate, Wake, ActivateLimit, ActivateAmps, Start, CountFailure,
       RecordCharging, Stop, RecordStopped, LogStop, Release, CheckLimit, Verdict, AdjustWake,
       AdjustAmps, MinTime, EndHold, storeVars, Kinds
  <2>3. ASSUME NEW w \in Workers, LogStart(w, v) \/ LogFailure(w, v)
        PROVE  LogEvent(v, "start")
    BY <2>3 DEF LogStart, LogFailure
  <2> QED
    BY <1>3, <2>1, <2>2, <2>3 DEF Controller, ControllerNext
<1>4. CASE PollStep
  <2>1. poll.pc \in {"stop", "logStop", "data"} => poll.vin \in VIN
    BY DEF TypeOK, PollerTypeOK, Poll, Idle
  <2>2. UNCHANGED age \/ \E kind \in Kinds \ {"start"}, v \in VIN : LogEvent(v, kind)
    BY <1>4, <2>1 DEF PollStep, PollAt, Receive, Reset, Anomaly, PollStop, PollRecordStopped,
       PollLogStop, Detect, VehicleData, storeVars, Kinds
  <2> QED
    BY <1>2, <2>2
<1>5. ASSUME NEW v \in VIN, User(v) \/ World(v) \/ Send(v) \/ PlugStep(v) \/ HookArrives(v)
      PROVE  UNCHANGED age
  BY <1>5 DEF User, UserNext, TestDrive, UpdateVehicle, World, Send, PlugStep, PlugStop,
     PlugSet, HookArrives, storeVars
<1>6. CASE Crash \/ Restart \/ Resolve \/ UNCHANGED vars
  BY <1>6 DEF Crash, Restart, Resolve, ResolvePermanentError, vars, storeVars
<1>7. ASSUME NEW v \in VIN, Controller(v)
      PROVE  /\ UNCHANGED age \/ \E u \in VIN, kind \in Kinds : LogEvent(u, kind)
             /\ \A u \in VIN : age'[u]["start"] # age[u]["start"]
                  => \E w \in Workers : LogStart(w, u) \/ LogFailure(w, u)
  BY <1>1, <1>2, <1>3, <1>7
<1> QED
  BY <1>4, <1>5, <1>6, <1>7, <1>1, <1>2 DEF Next

\* What becomes of the goroutines at work.
LEMMA JobSteps ==
    ASSUME TypeOK, [Next]_vars, ~Restart, NEW w \in Workers, NEW v \in VIN,
           job'[w][v] # job[w][v]
    PROVE  \/ Working(w, v)
           \/ /\ w \in Ticks /\ Register(v) /\ job[w][v] = None
              /\ \E j \in Rounds(arr[v].cfg, arr[v].st) : job'[w][v] = j
           \/ w = "drive" /\ TestDrive(v)
<1>1. job \in Jobs
  BY DEF TypeOK, ControllerTypeOK, Jobs
<1>2. \A x \in Workers, u \in VIN : x # w \/ u # v =>
         \A j : Become(x, u, j) => job'[w][v] = job[w][v]
  BY <1>1 DEF Jobs, Become
<1>3. ASSUME NEW u \in VIN, Controller(u)
      PROVE  \/ Working(w, v)
             \/ /\ w \in Ticks /\ Register(v) /\ job[w][v] = None
                /\ \E j \in Rounds(arr[v].cfg, arr[v].st) : job'[w][v] = j
  <2>1. ~ReadState(u) /\ ~SkipRound(u) /\ ~NotFound(u)
    BY DEF ReadState, SkipRound, NotFound
  <2>2. CASE Register(u)
    <3>1. PICK x \in Ticks, j \in Rounds(arr[u].cfg, arr[u].st) :
             job[x][u] = None /\ Become(x, u, j)
      BY <2>2 DEF Register
    <3>2. x = w /\ u = v
      BY <1>2, <3>1 DEF Workers
    <3>3. job'[w][v] = j
      BY <1>1, <3>1, <3>2 DEF Become, Jobs
    <3> QED
      BY <2>2, <3>1, <3>2, <3>3
  <2>3. ASSUME NEW x \in Workers, Working(x, u)
        PROVE  Working(w, v)
    <3>1. \/ \E j : job' = [job EXCEPT ![x][u] = j]
          \/ \E pc : job' = [job EXCEPT ![x][u].pc = pc]
      BY <2>3 DEF Working, Goto, Become, Leave, Activate, Wake, ActivateLimit, ActivateAmps, Start,
         LogFailure, CountFailure, LogStart, RecordCharging, Stop, RecordStopped, LogStop, Release,
         CheckLimit, Verdict, AdjustWake, AdjustAmps, MinTime, EndHold
    <3>2. x = w /\ u = v
      BY <1>1, <3>1 DEF Jobs
    <3> QED
      BY <2>3, <3>2
  <2> QED
    BY <1>3, <2>1, <2>2, <2>3 DEF Controller, ControllerNext, Arriving
<1>4. ASSUME NEW u \in VIN, User(u)
      PROVE  w = "drive" /\ TestDrive(v)
  <2>1. ~UpdateVehicle(u)
    BY DEF UpdateVehicle, ctlVars
  <2>2. TestDrive(u)
    BY <1>4, <2>1 DEF User, UserNext
  <2>3. \E j : Become("drive", u, j)
    BY <2>2 DEF TestDrive
  <2> QED
    BY <1>2, <2>2, <2>3 DEF Workers
<1>5. ASSUME \/ Minute \/ Crash \/ Resolve \/ PollStep \/ UNCHANGED vars
             \/ \E u \in VIN : World(u) \/ Send(u) \/ PlugStep(u) \/ HookArrives(u)
      PROVE  UNCHANGED job
  BY <1>5 DEF Minute, OnTick, Crash, Resolve, ResolvePermanentError, PollStep, Receive, Reset,
     Anomaly, PollStop, PollRecordStopped, PollLogStop, Detect, VehicleData, World, Send,
     PlugStep, PlugStop, PlugSet, HookArrives, vars, ctlVars
<1> QED
  BY <1>3, <1>4, <1>5 DEF Next

\* A goroutine on its way to inTick: it goes on, or a removal tears its lookup.
LEMMA ArrSteps ==
    ASSUME TypeOK, [Next]_vars, ~Restart, ~Minute, NEW v \in VIN, arr'[v] # arr[v]
    PROVE  \/ ReadState(v) \/ SkipRound(v) \/ Register(v)
           \/ /\ arr[v].pc \in {"scan", "torn"}
              /\ \E pc \in {"torn", "register"} : arr'[v] = [arr[v] EXCEPT !.pc = pc]
<1>1. arr \in [VIN -> Arrival \cup {None}] /\ job \in Jobs
  BY DEF TypeOK, ControllerTypeOK, Jobs
<1>2. ASSUME NEW u \in VIN, Controller(u)
      PROVE  \/ ReadState(v) \/ SkipRound(v) \/ Register(v)
             \/ /\ arr[v].pc \in {"scan", "torn"}
                /\ \E pc \in {"torn", "register"} : arr'[v] = [arr[v] EXCEPT !.pc = pc]
  <2>1. ASSUME NEW x \in Workers, Working(x, u)
        PROVE  arr[v].pc \in {"scan", "torn"} /\ arr'[v] = [arr[v] EXCEPT !.pc = "torn"]
    <3>1. Unset(u)
      BY <1>1, <2>1, WorkingFrame
    <3>2. \E torn : /\ arr' = [y \in VIN |-> IF y \in torn THEN [arr[y] EXCEPT !.pc = "torn"] ELSE arr[y]]
                    /\ torn \subseteq {y \in VIN : arr[y].pc \in {"scan", "torn"}}
      BY <3>1 DEF Unset, TornBy
    <3> QED
      BY <1>1, <3>2
  <2>2. ASSUME Arriving(u)
        PROVE  u = v
    BY <1>1, <2>2 DEF Arriving, ReadState, SkipRound, NotFound, Register
  <2>3. NotFound(v) => /\ arr[v].pc \in {"scan", "torn"}
                       /\ arr'[v] = [arr[v] EXCEPT !.pc = "register"]
    BY <1>1 DEF NotFound
  <2> QED
    BY <1>2, <2>1, <2>2, <2>3 DEF Controller, ControllerNext, Arriving
<1>3. ASSUME \/ Crash \/ Resolve \/ PollStep \/ UNCHANGED vars
             \/ \E u \in VIN : User(u) \/ World(u) \/ Send(u) \/ PlugStep(u) \/ HookArrives(u)
      PROVE  UNCHANGED arr
  BY <1>3 DEF Crash, Resolve, ResolvePermanentError, PollStep, Receive, Reset,
     Anomaly, PollStop, PollRecordStopped, PollLogStop, Detect, VehicleData, User, UserNext,
     TestDrive, UpdateVehicle, World, Send, PlugStep, PlugStop, PlugSet, HookArrives, vars, ctlVars
<1> QED
  BY <1>2, <1>3 DEF Next

\* Who starts a car, who charges it, and who moves it.
LEMMA CarSteps ==
    ASSUME TypeOK, [Next]_vars, NEW v \in VIN
    PROVE  /\ car'[v].charging =>
                car[v].charging \/ SelfStart \/ \E w \in Workers : Start(w, v)
           /\ car'[v].home # car[v].home => Depart(v) \/ Return(v)
           /\ car'[v].soc >= car[v].soc \/ Return(v)
<1>1. car \in [VIN -> CarState] /\ MaxSoC \in Nat
  BY StoreAssumption DEF TypeOK, CarTypeOK
<1> DEFINE Same(c, d) == /\ d.charging => c.charging
                         /\ d.home = c.home /\ d.soc = c.soc
<1>2. \A c \in CarState : Same(c, c) /\ Same(c, Stopped(c))
  BY DEF CarState, Stopped
<1>3. \A x : \A c \in CarState : Same(c, [c EXCEPT !.limit = x]) /\ Same(c, [c EXCEPT !.amps = x])
  BY DEF CarState
<1>4. ASSUME Same(car[v], car'[v])
      PROVE  /\ car'[v].charging => car[v].charging
             /\ car'[v].home = car[v].home /\ car'[v].soc >= car[v].soc
  BY <1>1, <1>4 DEF CarState
<1>5. ASSUME UNCHANGED car PROVE Same(car[v], car'[v])
  BY <1>1, <1>2, <1>5
<1>6. ASSUME NEW u \in VIN, NEW c, Same(car[u], c), CarriedOut(u, c) \/ Fails(u, c)
      PROVE  Same(car[v], car'[v])
  <2>1. car' = car \/ car' = [car EXCEPT ![u] = c]
    BY <1>6 DEF CarriedOut, Fails
  <2> HIDE DEF Same
  <2> QED
    BY <1>1, <1>2, <1>6, <2>1
<1>7. ASSUME NEW u \in VIN, Controller(u), \A w \in Workers : ~Start(w, v)
      PROVE  Same(car[v], car'[v])
  <2>1. CASE Arriving(u)
    BY <1>5, <2>1 DEF Arriving, ReadState, SkipRound, NotFound, Register, carVars
  <2>2. ASSUME NEW w \in Workers, Start(w, u)
        PROVE  Same(car[v], car'[v])
    <3>1. car' = car \/ car' = [car EXCEPT ![u] = Started(car[u])]
      BY <2>2 DEF Start, CarriedOut, Fails, carVars
    <3>2. u # v
      BY <1>7, <2>2
    <3>3. car'[v] = car[v]
      BY <1>1, <3>1, <3>2
    <3> HIDE DEF Same
    <3> QED
      BY <1>1, <1>2, <3>3
  <2>3. ASSUME NEW w \in Workers, Working(w, u), ~Start(w, u)
        PROVE  Same(car[v], car'[v])
    <3>1. \/ UNCHANGED car
          \/ \E c \in {car[u], Stopped(car[u])} : CarriedOut(u, c) \/ Fails(u, c)
          \/ \E x : \/ CarriedOut(u, [car[u] EXCEPT !.limit = x]) \/ Fails(u, [car[u] EXCEPT !.limit = x])
                    \/ CarriedOut(u, [car[u] EXCEPT !.amps = x]) \/ Fails(u, [car[u] EXCEPT !.amps = x])
      BY <2>3 DEF Working, Activate, Wake, ActivateLimit, ActivateAmps, LogFailure,
         CountFailure, LogStart, RecordCharging, Stop, RecordStopped, LogStop, Release,
         CheckLimit, Verdict, AdjustWake, AdjustAmps, MinTime, EndHold, Asleep, carVars
    <3>2. car[u] \in CarState
      BY <1>1
    <3> HIDE DEF Same
    <3> QED
      BY <1>2, <1>3, <1>5, <1>6, <3>1, <3>2
  <2> QED
    BY <1>7, <2>1, <2>2, <2>3 DEF Controller, ControllerNext
<1>8. CASE PollStep
  <2>1. poll.pc = "stop" => poll.vin \in VIN
    BY DEF TypeOK, PollerTypeOK, Poll, Idle
  <2>2. \/ UNCHANGED car
        \/ \E u \in VIN : CarriedOut(u, Stopped(car[u])) \/ Fails(u, Stopped(car[u]))
    BY <1>8, <2>1 DEF PollStep, PollAt, Receive, Reset, Anomaly, PollStop, PollRecordStopped,
       PollLogStop, Detect, VehicleData, Asleep, carVars
  <2> HIDE DEF Same
  <2>3. Same(car[v], car'[v])
    BY <1>1, <1>2, <1>5, <1>6, <2>2
  <2> QED
    BY <1>4, <2>3
<1>9. ASSUME NEW u \in VIN, World(u)
      PROVE  /\ car'[v].charging => car[v].charging \/ SelfStart
             /\ car'[v].home # car[v].home => Depart(v) \/ Return(v)
             /\ car'[v].soc >= car[v].soc \/ Return(v)
  <2>1. CarNext(u)
    BY <1>9 DEF World
  <2>2. u # v => car'[v] = car[v]
    BY <1>1, <2>1 DEF CarNext, PlugIn, Unplug, Depart, Return, Charge, Interrupt
  <2>3. CASE u # v
    BY <1>1, <2>2, <2>3 DEF CarState
  <2>4. CASE u = v
    <3>1. car[v] \in CarState
      BY <1>1
    <3>2. \A c : car' = [car EXCEPT ![v] = c] => car'[v] = c
      BY <1>1
    <3>3. CASE PlugIn(v)
      <4>1. PICK starts \in {FALSE, SelfStart} :
              car' = [car EXCEPT ![v] = [car[v] EXCEPT !.plugged = TRUE,
                                           !.charging = starts /\ car[v].soc < car[v].limit]]
        BY <1>1, <3>3 DEF PlugIn
      <4>2. car'[v] = [car[v] EXCEPT !.plugged = TRUE,
                                     !.charging = starts /\ car[v].soc < car[v].limit]
        BY <3>2, <4>1
      <4>3. \A p, q : /\ [car[v] EXCEPT !.plugged = p, !.charging = q].charging = q
                     /\ [car[v] EXCEPT !.plugged = p, !.charging = q].home = car[v].home
                     /\ [car[v] EXCEPT !.plugged = p, !.charging = q].soc = car[v].soc
        BY <3>1 DEF CarState
      <4>4. /\ car'[v].charging = (starts /\ car[v].soc < car[v].limit)
            /\ car'[v].home = car[v].home /\ car'[v].soc = car[v].soc
        BY <4>2, <4>3
      <4>5. car'[v].charging => SelfStart
        <5> SUFFICES ASSUME ~SelfStart PROVE ~car'[v].charging
          OBVIOUS
        <5>1. starts = FALSE
          BY <4>1, CarAssumption
        <5> QED
          BY <4>4, <5>1
      <4> QED
        BY <3>1, <4>4, <4>5 DEF CarState
    <3>4. CASE Unplug(v) \/ Interrupt(v)
      <4>1. \/ car'[v] = [car[v] EXCEPT !.plugged = FALSE, !.charging = FALSE]
            \/ car'[v] = [car[v] EXCEPT !.charging = FALSE]
        BY <1>1, <3>4 DEF Unplug, Interrupt, Stopped
      <4>2. ~car'[v].charging /\ car'[v].home = car[v].home /\ car'[v].soc = car[v].soc
        BY <3>1, <4>1 DEF CarState
      <4> QED
        BY <3>1, <4>2 DEF CarState
    <3>6. CASE Depart(v)
      <4>1. car'[v] = [car[v] EXCEPT !.home = FALSE]
        BY <1>1, <3>6 DEF Depart
      <4>2. car'[v].charging = car[v].charging /\ car'[v].soc = car[v].soc
        BY <3>1, <4>1 DEF CarState
      <4> QED
        BY <3>1, <3>6, <4>2 DEF CarState
    <3>7. CASE Return(v)
      <4>1. \E n : car'[v] = [car[v] EXCEPT !.home = TRUE, !.soc = n]
        BY <1>1, <3>7 DEF Return
      <4>2. car'[v].charging = car[v].charging
        BY <3>1, <4>1 DEF CarState
      <4> QED
        BY <3>7, <4>2
    <3>5. CASE Charge(v)
      BY <1>1, <3>1, <3>2, <3>5 DEF Charge, CarState
    <3> QED
      BY <2>1, <2>4, <3>3, <3>4, <3>5, <3>6, <3>7 DEF CarNext
  <2> QED
    BY <2>3, <2>4
<1>10. ASSUME NEW u \in VIN, PlugStep(u)
       PROVE  Same(car[v], car'[v])
  <2>1. \/ UNCHANGED car
        \/ CarriedOut(u, Stopped(car[u])) \/ Fails(u, Stopped(car[u]))
    BY <1>10 DEF PlugStep, PlugStop, PlugSet, carVars
  <2> HIDE DEF Same
  <2> QED
    BY <1>1, <1>2, <1>5, <1>6, <2>1
<1>11. CASE \/ Minute \/ Crash \/ Restart \/ Resolve \/ UNCHANGED vars
            \/ \E u \in VIN : User(u) \/ Send(u) \/ HookArrives(u)
  <2>1. UNCHANGED car
    BY <1>11 DEF Minute, Crash, Restart, Resolve, ResolvePermanentError, User, UserNext,
       TestDrive, UpdateVehicle, Send, HookArrives, vars, carVars
  <2> QED
    BY <1>4, <1>5, <2>1
<1>12. CASE \E w \in Workers : Start(w, v)
  <2>1. car' = car \/ car' = [car EXCEPT ![v] = Started(car[v])]
    BY <1>12 DEF Start, CarriedOut, Fails, carVars
  <2>2. car'[v].home = car[v].home /\ car'[v].soc = car[v].soc
    BY <1>1, <2>1 DEF Started, CarState
  <2> QED
    BY <1>1, <1>12, <2>2 DEF CarState
<1> HIDE DEF Same
<1> QED
  BY <1>4, <1>7, <1>8, <1>9, <1>10, <1>11, <1>12 DEF Next

\* The statements on a row other than those of the poller's first two steps.
LEMMA ColumnKeepsSoC ==
    ASSUME st \in Rows, NEW v \in VIN, NEW x,
           SetPlugged(v, x) \/ SetCharging(v, x) \/ SetAmps(v, x) \/ SetLimit(v, x) \/ Unplugged(v, x)
    PROVE  \A u \in VIN : st'[u].soc = st[u].soc
<1>1. \E row : st' = [st EXCEPT ![v] = row] /\ row.soc = st[v].soc
  <2>1. st[v] \in StateRow
    BY DEF Rows
  <2>2. /\ [st[v] EXCEPT !.known = TRUE, !.plugged = x].soc = st[v].soc
        /\ [st[v] EXCEPT !.known = TRUE, !.charging = x].soc = st[v].soc
        /\ [st[v] EXCEPT !.known = TRUE, !.amps = x].soc = st[v].soc
        /\ [st[v] EXCEPT !.known = TRUE, !.limit = x].soc = st[v].soc
    BY <2>1 DEF StateRow
  <2>3. CASE SetPlugged(v, x) \/ SetCharging(v, x) \/ SetAmps(v, x) \/ SetLimit(v, x)
    <3>1. CASE SetPlugged(v, x)
      <4>1. st' = [st EXCEPT ![v] = [st[v] EXCEPT !.known = TRUE, !.plugged = x]]
        BY <3>1 DEF SetPlugged, Rows
      <4> QED
        BY <2>2, <4>1
    <3>2. CASE SetCharging(v, x)
      <4>1. st' = [st EXCEPT ![v] = [st[v] EXCEPT !.known = TRUE, !.charging = x]]
        BY <3>2 DEF SetCharging, Rows
      <4> QED
        BY <2>2, <4>1
    <3>3. CASE SetAmps(v, x)
      <4>1. st' = [st EXCEPT ![v] = [st[v] EXCEPT !.known = TRUE, !.amps = x]]
        BY <3>3 DEF SetAmps, Rows
      <4> QED
        BY <2>2, <4>1
    <3>4. CASE SetLimit(v, x)
      <4>1. st' = [st EXCEPT ![v] = [st[v] EXCEPT !.known = TRUE, !.limit = x]]
        BY <3>4 DEF SetLimit, Rows
      <4> QED
        BY <2>2, <4>1
    <3> QED
      BY <2>3, <3>1, <3>2, <3>3, <3>4
  <2>4. CASE Unplugged(v, x)
    <3> DEFINE z == IF x = Not THEN st[v].charging ELSE Not
               row == [st[v] EXCEPT !.known = TRUE, !.plugged = FALSE, !.charging = z]
    <3>1. st' = [st EXCEPT ![v] = row]
      BY <2>4 DEF Unplugged, Rows
    <3>2. row.soc = st[v].soc
      BY <2>1 DEF StateRow
    <3> QED
      BY <3>1, <3>2
  <2> QED
    BY <2>3, <2>4
<1> QED
  BY <1>1 DEF Rows

\* Who writes a vehicle's row.
LEMMA RowSteps ==
    ASSUME TypeOK, [Next]_vars, NEW v \in VIN
    PROVE  /\ \/ st'[v].charging \in {st[v].charging, Not}
              \/ \E w \in Workers : RecordCharging(w, v)
           /\ st'[v].soc = st[v].soc \/ Receive(v)
<1>1. st \in Rows /\ (poll.pc # "idle" => poll.vin \in VIN)
  BY DEF TypeOK, StoreTypeOK, PollerTypeOK, Rows, Poll, Idle
<1> DEFINE Keeps == st'[v].charging \in {st[v].charging, Not} /\ st'[v].soc = st[v].soc
<1>2. UNCHANGED st => Keeps
  OBVIOUS
<1>3. ASSUME NEW u \in VIN, NEW x, Unplugged(u, x)
      PROVE  Keeps
  <2>1. st'[v].soc = st[v].soc
    BY <1>1, <1>3, ColumnKeepsSoC
  <2>2. st'[v].charging \in {st[v].charging, Not}
    BY <1>1, <1>3 DEF Unplugged, Rows, StateRow
  <2> QED
    BY <2>1, <2>2
<1>4. ASSUME NEW u \in VIN,
             \/ SetCharging(u, Not)
             \/ \E x : SetPlugged(u, x) \/ SetAmps(u, x) \/ SetLimit(u, x)
      PROVE  Keeps
  BY <1>1, <1>4, ColumnKeepsSoC, ColumnKeepsCharging
<1> HIDE DEF Keeps
<1>5. ASSUME NEW u \in VIN, Controller(u)
      PROVE  Keeps \/ (\E w \in Workers : RecordCharging(w, v) /\ st'[v].soc = st[v].soc)
  <2>1. CASE Arriving(u)
    BY <1>2, <2>1 DEF Arriving, ReadState, SkipRound, NotFound, Register, storeVars
  <2>2. ASSUME NEW w \in Workers, RecordCharging(w, u)
        PROVE  Keeps \/ (RecordCharging(w, v) /\ st'[v].soc = st[v].soc)
    <3>1. SetCharging(u, job[w][u].to)
      BY <2>2 DEF RecordCharging
    <3>2. st'[v].soc = st[v].soc
      BY <1>1, <3>1, ColumnKeepsSoC
    <3>3. u # v => st'[v] = st[v]
      BY <1>1, <3>1 DEF SetCharging, Rows
    <3> QED
      BY <2>2, <3>2, <3>3 DEF Keeps
  <2>3. ASSUME NEW w \in Workers, Working(w, u), ~RecordCharging(w, u)
        PROVE  Keeps
    <3>1. \/ UNCHANGED st \/ SetCharging(u, Not)
          \/ \E n : SetAmps(u, n) \/ SetLimit(u, n)
      BY <2>3 DEF Working, Activate, Wake, ActivateLimit, ActivateAmps, Start, LogFailure,
         CountFailure, LogStart, Stop, RecordStopped, LogStop, Release, CheckLimit, Verdict,
         AdjustWake, AdjustAmps, MinTime, EndHold, storeVars
    <3> QED
      BY <1>2, <1>4, <3>1
  <2> QED
    BY <1>5, <2>1, <2>2, <2>3 DEF Controller, ControllerNext
<1>6. ASSUME NEW u \in VIN, User(u)
      PROVE  Keeps
  <2>1. UNCHANGED st \/ st' = [st EXCEPT ![u] = [st[u] EXCEPT !.known = TRUE]]
    BY <1>6 DEF User, UserNext, TestDrive, UpdateVehicle
  <2> QED
    BY <1>1, <1>2, <2>1 DEF Rows, StateRow, Keeps
<1>7. ASSUME PollStep, \A u \in VIN : ~Receive(u)
      PROVE  Keeps
  <2>1. CASE Reset
    BY <1>1, <2>1 DEF Reset, PollAt, Rows, StateRow, Keeps
  <2>2. CASE Anomaly \/ PollStop \/ PollLogStop \/ Detect \/ VehicleData \/ PollRecordStopped
    <3>1. \/ UNCHANGED st \/ \E was : Unplugged(poll.vin, was)
          \/ SetCharging(poll.vin, Not)
      BY <2>2 DEF Anomaly, PollStop, PollLogStop, Detect, VehicleData, PollRecordStopped, storeVars
    <3>2. poll.vin \in VIN
      BY <1>1, <2>2 DEF PollAt, Anomaly, PollStop, PollLogStop, Detect, VehicleData,
         PollRecordStopped
    <3> QED
      BY <1>2, <1>3, <1>4, <3>1, <3>2
  <2> QED
    BY <1>7, <2>1, <2>2 DEF PollStep
<1>8. ASSUME NEW u \in VIN, Receive(u)
      PROVE  /\ st'[v].charging = st[v].charging
             /\ st'[v].soc = st[v].soc \/ Receive(v)
  BY <1>1, <1>8 DEF Receive, Corrected, Rows, StateRow
<1>9. ASSUME NEW u \in VIN, PlugStep(u) \/ HookArrives(u)
      PROVE  Keeps
  <2>1. \/ UNCHANGED st \/ SetPlugged(u, TRUE) \/ \E was : Unplugged(u, was)
    BY <1>9 DEF PlugStep, PlugStop, PlugSet, HookArrives, storeVars
  <2> QED
    BY <1>2, <1>3, <1>4, <2>1
<1>10. CASE \/ Minute \/ Crash \/ Restart \/ Resolve \/ UNCHANGED vars
            \/ \E u \in VIN : World(u) \/ Send(u)
  BY <1>2, <1>10 DEF vars, storeVars, Minute, Crash, Restart, Resolve, ResolvePermanentError,
     World, Send
<1> QED
  BY <1>5, <1>6, <1>7, <1>8, <1>9, <1>10 DEF Next, Keeps

\* Where reports come from and go to.
LEMMA ReportSteps ==
    ASSUME TypeOK, [Next]_vars, NEW v \in VIN
    PROVE  /\ \/ tel'[v] = tel[v] \/ tel'[v] = None
              \/ UNCHANGED car /\ tel'[v] = ReportOf(car[v])
           /\ Receive(v) => /\ tel[v] # None /\ st'[v].soc = tel[v].soc
                            /\ poll'.vin = v /\ poll'.charging = tel[v].charging
                            /\ UNCHANGED carVars
           /\ poll'.pc = "reset" => poll' = poll \/ \E u \in VIN : Receive(u)
<1>1. /\ st \in Rows /\ tel \in [VIN -> Report \cup {None}] /\ poll \in Poll \cup {Idle}
  BY DEF TypeOK, StoreTypeOK, PollerTypeOK, Rows
<1>2. Minute => UNCHANGED car /\ (tel'[v] = tel[v] \/ tel'[v] = ReportOf(car[v]))
  BY DEF Minute, Refreshed, carVars
<1>3. ASSUME NEW u \in VIN, Send(u)
      PROVE  UNCHANGED car /\ (tel'[v] = tel[v] \/ tel'[v] = ReportOf(car[v]))
  BY <1>1, <1>3 DEF Send, carVars
<1>4. ASSUME NEW u \in VIN, Receive(u)
      PROVE  tel'[v] = tel[v] \/ tel'[v] = None
  BY <1>1, <1>4 DEF Receive
<1>5. ASSUME ~Minute, \A u \in VIN : ~Send(u) /\ ~Receive(u)
      PROVE  UNCHANGED tel
  BY <1>5 DEF Next, vars, Crash, Restart, Resolve, PollStep, Reset, Anomaly, PollStop,
     PollRecordStopped, PollLogStop, Detect, VehicleData, Controller, User, World, PlugStep,
     PlugStop, PlugSet, HookArrives, pollVars
<1>6. \/ tel'[v] = tel[v] \/ tel'[v] = None
      \/ UNCHANGED car /\ tel'[v] = ReportOf(car[v])
  BY <1>2, <1>3, <1>4, <1>5
<1>7. Receive(v) => /\ tel[v] # None /\ st'[v].soc = tel[v].soc
                    /\ poll'.vin = v /\ poll'.charging = tel[v].charging
                    /\ UNCHANGED carVars
  BY <1>1 DEF Receive, Corrected, Rows, StateRow
<1>8. ASSUME poll'.pc = "reset", \A u \in VIN : ~Receive(u)
      PROVE  poll' = poll
  <2>1. \A pc : PollGoto(pc) => poll'.pc = pc \/ poll = Idle
    BY <1>1 DEF PollGoto, Poll
  <2>2. ASSUME Reset \/ Anomaly \/ PollStop \/ PollRecordStopped \/ PollLogStop \/ Detect \/ VehicleData
        PROVE  poll' = poll
    BY <1>8, <2>1, <2>2 DEF PollAt, Idle, Reset, Anomaly, PollStop, PollLogStop, Detect,
       VehicleData, PollRecordStopped
  <2>3. ~Restart
    BY <1>8 DEF Restart, Idle
  <2> QED
    BY <1>8, <2>2, <2>3 DEF Next, vars, Minute, Crash, Resolve, PollStep, Controller, User, World,
       Send, PlugStep, PlugStop, PlugSet, HookArrives, pollVars
<1> QED
  BY <1>6, <1>7, <1>8
-----------------------------------------------------------------------------
(***************************************************************************)
(* The poller ends no session that goes on.                                *)
(***************************************************************************)
\* A start is being recorded, or was logged in this minute.
JustStarted(v) ==
    \/ \E w \in Workers : job[w][v].pc \in {"logStart", "logFailure"}
    \/ age[v]["start"] = 0

\* News of a car that does not charge is of this minute: it is right, or the
\* car has been started in the same minute.
NewsHolds ==
    /\ \A v \in VIN : tel[v] # None /\ ~tel[v].charging /\ car[v].charging => JustStarted(v)
    /\ poll.pc = "reset" /\ ~poll.charging /\ car[poll.vin].charging => JustStarted(poll.vin)

\* Without a restart in between, a start is logged in the minute of its answer.
LEMMA JustStartedStays ==
    ASSUME TypeOK, [Next]_vars, ~Minute, ~Restart, NEW v \in VIN, JustStarted(v)
    PROVE  JustStarted(v)'
<1>1. age \in Events /\ job \in Jobs /\ "start" \in Kinds
  BY DEF TypeOK, StoreTypeOK, ControllerTypeOK, Events, Jobs, Kinds
<1>2. ASSUME NEW w \in Workers, LogStart(w, v) \/ LogFailure(w, v)
      PROVE  JustStarted(v)'
  <2>1. age'[v]["start"] = 0
    BY <1>1, <1>2 DEF LogStart, LogFailure, LogEvent, Events
  <2> QED
    BY <2>1 DEF JustStarted
<1>3. CASE age[v]["start"] = 0
  BY <1>2, <1>3, AgeSteps DEF JustStarted
<1>4. ASSUME NEW w \in Workers, job[w][v].pc \in {"logStart", "logFailure"}
      PROVE  JustStarted(v)'
  <2>1. CASE job'[w][v] = job[w][v]
    BY <1>4, <2>1 DEF JustStarted
  <2>2. ASSUME Working(w, v)
        PROVE  LogStart(w, v) \/ LogFailure(w, v)
    BY <1>4, <2>2 DEF Working, At, Activate, Wake, ActivateLimit, ActivateAmps, Start,
       CountFailure, RecordCharging, Stop, RecordStopped, LogStop, Release, CheckLimit, Verdict,
       AdjustWake, AdjustAmps, MinTime, EndHold
  <2>3. CASE w = "drive" /\ TestDrive(v)
    BY <1>4, <2>3 DEF TestDrive, None
  <2>4. job[w][v] # None
    BY <1>4 DEF None
  <2> QED
    BY <1>2, <2>1, <2>2, <2>3, <2>4, JobSteps
<1> QED
  BY <1>3, <1>4 DEF JustStarted

LEMMA NextNews ==
    ASSUME ~SelfStart, ~LateReports, TypeOK, TypeOK', NewsHolds, [Next]_vars,
           down = "no", down' = "no"
    PROVE  NewsHolds'
<1>1. /\ tel \in [VIN -> Report \cup {None}] /\ car \in [VIN -> CarState]
      /\ poll.pc = "reset" => poll.vin \in VIN
      /\ poll'.pc = "reset" => poll'.vin \in VIN
  BY DEF TypeOK, CarTypeOK, PollerTypeOK, Poll, Idle
<1>2. ~Restart
  BY DEF Restart
<1>3. ASSUME NEW c \in CarState
      PROVE  ReportOf(c) # None /\ ReportOf(c).charging = c.charging
  BY DEF ReportOf, None
<1>4. CASE Minute
  <2>1. UNCHANGED <<car, poll>> /\ poll.pc # "reset"
    BY <1>4 DEF Minute, carVars, PollStepDue, PollCarPCs
  <2>2. \A v \in VIN : tel'[v] # None => tel'[v] = ReportOf(car[v])
    BY <1>4 DEF Minute, Refreshed
  <2> QED
    BY <1>1, <1>3, <2>1, <2>2 DEF NewsHolds
<1>5. CASE ~Minute
  <2>1. \A v \in VIN : JustStarted(v) => JustStarted(v)'
    BY <1>2, <1>5, JustStartedStays
  <2>2. ASSUME NEW v \in VIN, car'[v].charging
        PROVE  car[v].charging \/ JustStarted(v)'
    <3>1. ASSUME NEW w \in Workers, Start(w, v), ~car[v].charging
          PROVE  job'[w][v].pc \in {"logStart", "logFailure"}
      <4>1. job \in Jobs
        BY DEF TypeOK, ControllerTypeOK, Jobs
      <4>2. \/ Become(w, v, [pc |-> "logStart", to |-> job[w][v].to])
            \/ Leave(w, v, "logFailure")
        BY <3>1 DEF Start
      <4> QED
        BY <4>1, <4>2 DEF Jobs, Become, Leave
    <3> QED
      BY <2>2, <3>1, CarSteps DEF JustStarted
  <2>3. ASSUME NEW v \in VIN, tel'[v] # None, ~tel'[v].charging, car'[v].charging
        PROVE  JustStarted(v)'
    <3>1. CASE tel'[v] = tel[v]
      BY <2>1, <2>2, <2>3, <3>1 DEF NewsHolds
    <3>2. CASE UNCHANGED car /\ tel'[v] = ReportOf(car[v])
      BY <1>1, <1>3, <2>3, <3>2
    <3> QED
      BY <2>3, <3>1, <3>2, ReportSteps
  <2>4. ASSUME NEW v \in VIN, poll'.pc = "reset", poll'.vin = v, ~poll'.charging,
               car'[v].charging
        PROVE  JustStarted(v)'
    <3>1. CASE poll' = poll
      BY <2>1, <2>2, <2>4, <3>1 DEF NewsHolds
    <3>2. ASSUME NEW u \in VIN, Receive(u)
          PROVE  JustStarted(v)'
      <4>1. /\ tel[u] # None /\ poll'.vin = u /\ poll'.charging = tel[u].charging
            /\ UNCHANGED car
        BY <3>2, ReportSteps DEF carVars
      <4> QED
        BY <2>1, <2>4, <4>1 DEF NewsHolds
    <3> QED
      BY <2>4, <3>1, <3>2, ReportSteps
  <2> QED
    BY <1>1, <2>3, <2>4 DEF NewsHolds
<1> QED
  BY <1>4, <1>5

LEMMA LiveSessionStep ==
    ASSUME TypeOK, NewsHolds, Next, NEW v \in VIN,
           poll.pc = "reset", poll'.pc = "anomaly",
           st[v].charging # Not, st'[v].charging = Not
    PROVE  ~car[v].charging \/ BeingRecorded(v, {"logStart", "setCharging", "logFailure"})
<1>1. st \in Rows /\ age \in Events /\ Grace \in Nat /\ "start" \in Kinds
  BY StoreAssumption DEF TypeOK, StoreTypeOK, Rows, Events, Kinds
<1>2. poll \in Poll
  BY DEF TypeOK, PollerTypeOK, Idle
<1>3. Reset
  <2>1. \A pc : PollGoto(pc) => poll'.pc = pc
    BY <1>2 DEF PollGoto, Poll
  <2>2. ASSUME NEW u \in VIN,
               \/ Controller(u) \/ User(u) \/ World(u)
               \/ Send(u) \/ PlugStep(u) \/ HookArrives(u)
        PROVE  poll' = poll
    BY <2>2 DEF Controller, User, World, Send, PlugStep, PlugStop, PlugSet, HookArrives, pollVars
  <2>3. ASSUME Minute \/ Crash \/ Restart \/ Resolve
        PROVE  poll' = poll \/ poll' = Idle
    BY <2>3 DEF Minute, Crash, Restart, Resolve, pollVars
  <2>4. PollStep
    BY <2>2, <2>3 DEF Next, Idle
  <2> QED
    BY <2>1, <2>4 DEF PollStep, Receive, PollAt, Anomaly, PollStop, PollRecordStopped, PollLogStop,
       Detect, VehicleData, Idle
<1>4. v = poll.vin /\ Unconfirmed /\ StaleStart(v)
  BY <1>1, <1>2, <1>3 DEF Reset, Rows, StateRow, Poll
<1>5. age[v]["start"] # 0
  BY <1>1, <1>4 DEF StaleStart, LongerAgo
<1> QED
  BY <1>4, <1>5 DEF NewsHolds, JustStarted, Unconfirmed, BeingRecorded

\* The poller takes no session for ended that goes on, for any settings, spans
\* and cars: where telemetry is no older than a minute and no car begins to charge
\* by itself, and as long as the process is not ended (a restart may lose the record
\* of a start).
THEOREM LiveSessionsAreKept ==
    ASSUME ~SelfStart, ~LateReports
    PROVE  Spec /\ [](down = "no") => PollerKeepsLiveSession
<1>1. Init => NewsHolds
  BY DEF Init, NewsHolds, PollerIdle, Idle
<1>2. TypeInv => TypeOK
  BY DEF TypeInv
<1>3. TypeOK /\ TypeOK' /\ NewsHolds /\ [Next]_vars
         /\ down = "no" /\ (down = "no")'
        => NewsHolds'
  BY NextNews
<1>4. TypeOK /\ NewsHolds /\ [Next]_vars =>
        [\A v \in VIN :
          (/\ poll.pc = "reset" /\ poll'.pc = "anomaly"
           /\ st[v].charging # Not /\ st'[v].charging = Not)
              => ~car[v].charging \/ BeingRecorded(v, {"logStart", "setCharging", "logFailure"})]_vars
  BY LiveSessionStep
<1> QED
  BY TypeInvInvariant, <1>1, <1>2, <1>3, <1>4, PTL DEF Spec, PollerKeepsLiveSession
-----------------------------------------------------------------------------
(***************************************************************************)
(* A session on surplus has its minimum time.                              *)
(***************************************************************************)
\* Vehicles that charge on surplus only, at home for good, whose settings stay
\* as they are and that are not test-driven.
SunOnly ==
    \A s \in Setups :
        /\ ~s.cfg.lowcost /\ s.car.home
        /\ \A what \in {"edits", "drives", "trips"} : s.left[what] = 0

Undisturbed ==
    /\ \A what \in {"edits", "drives", "trips"} : left[what] = 0
    /\ \A v \in VIN : ~cfg[v].lowcost /\ car[v].home /\ job["drive"][v] = None

\* What steps do not change then.
LEMMA BoundsSpent ==
    ASSUME TypeOK, [Next]_vars, NEW what \in Bounded, left[what] = 0
    PROVE  left'[what] = 0
<1>1. left \in [Bounded -> Nat]
  BY DEF TypeOK, CarTypeOK
<1>2. \A some : Spend(some) => left'[what] = 0
  BY <1>1 DEF Spend
<1>3. \A v, c : CarriedOut(v, c) \/ Fails(v, c) \/ Asleep(v) => left'[what] = 0
  BY <1>2 DEF CarriedOut, Fails, Asleep, carVars
<1>4. UNCHANGED left => left'[what] = 0
  OBVIOUS
<1>5. ASSUME NEW v \in VIN, Controller(v)
      PROVE  left'[what] = 0
  BY <1>2, <1>3, <1>4, <1>5 DEF Controller, ControllerNext, Arriving, Working, ReadState, SkipRound,
     NotFound, Register, Activate, Wake, ActivateLimit, ActivateAmps, Start, LogFailure, CountFailure, LogStart,
     RecordCharging, Stop, RecordStopped, LogStop, Release, CheckLimit, Verdict, AdjustWake,
     AdjustAmps, MinTime, EndHold, carVars
<1>6. CASE PollStep
  BY <1>2, <1>3, <1>4, <1>6 DEF PollStep, Receive, Reset, Anomaly, PollStop, PollRecordStopped,
     PollLogStop, Detect, VehicleData, carVars
<1>7. ASSUME NEW v \in VIN, User(v) \/ World(v) \/ Send(v) \/ PlugStep(v) \/ HookArrives(v)
      PROVE  left'[what] = 0
  BY <1>2, <1>3, <1>4, <1>7 DEF User, UserNext, TestDrive, UpdateVehicle, World, CarNext, PlugIn,
     Unplug, Depart, Return, Charge, Interrupt, Send, PlugStep, PlugStop, PlugSet, HookArrives,
     carVars
<1> QED
  BY <1>2, <1>4, <1>5, <1>6, <1>7 DEF Next, Minute, Crash, Restart, Resolve,
     ResolvePermanentError, vars, carVars

LEMMA StaysUndisturbed ==
    ASSUME TypeOK, Undisturbed, [Next]_vars
    PROVE  /\ Undisturbed' /\ UNCHANGED cfg
           /\ \A v \in VIN : ~TestDrive(v) /\ ~Depart(v) /\ ~Return(v)
<1>1. {"edits", "drives", "trips"} \subseteq Bounded /\ 0 \in Nat /\ ~(0 > 0)
  BY DEF Bounded
<1>2. \A v \in VIN : ~TestDrive(v) /\ ~Depart(v) /\ ~Return(v) /\ ~UpdateVehicle(v)
  BY <1>1 DEF Undisturbed, TestDrive, Depart, Return, UpdateVehicle, Spend
<1>3. UNCHANGED cfg
  <2>1. ASSUME NEW v \in VIN, Controller(v)
        PROVE  UNCHANGED cfg
    BY <2>1 DEF Controller, ControllerNext, Arriving, Working, ReadState, SkipRound, NotFound,
       Register, Activate, Wake, ActivateLimit, ActivateAmps, Start, LogFailure, CountFailure, LogStart, RecordCharging, Stop,
       RecordStopped, LogStop, Release, CheckLimit, Verdict, AdjustWake, AdjustAmps, MinTime,
       EndHold, storeVars
  <2>2. ASSUME PollStep
        PROVE  UNCHANGED cfg
    BY <2>2 DEF PollStep, Receive, Reset, Anomaly, PollStop, PollRecordStopped, PollLogStop, Detect,
       VehicleData, storeVars
  <2>3. ASSUME NEW v \in VIN,
               User(v) \/ World(v) \/ Send(v) \/ PlugStep(v) \/ HookArrives(v)
        PROVE  UNCHANGED cfg
    BY <1>2, <2>3 DEF User, UserNext, World, Send, PlugStep, PlugStop, PlugSet, HookArrives, storeVars
  <2>4. CASE Minute \/ Crash \/ Restart \/ Resolve \/ UNCHANGED vars
    BY <2>4 DEF Minute, Crash, Restart, Resolve, ResolvePermanentError, vars, storeVars
  <2> QED
    BY <2>1, <2>2, <2>3, <2>4 DEF Next
<1>4. \A v \in VIN : car'[v].home
  BY <1>2, CarSteps DEF Undisturbed
<1>5. ASSUME NEW v \in VIN
      PROVE  job'["drive"][v] = None
  <2>1. "drive" \in Workers /\ job["drive"][v] = None
    BY DEF Workers, Undisturbed
  <2>2. CASE Restart
    BY <2>1, <2>2 DEF Restart
  <2>3. ~Working("drive", v)
    BY <2>1, WorkingFrame DEF TypeOK, ControllerTypeOK, Jobs
  <2> QED
    BY <1>2, <2>1, <2>2, <2>3, JobSteps, ControllerAssumption
<1> QED
  BY <1>1, <1>2, <1>3, <1>4, <1>5, BoundsSpent DEF Undisturbed

\* A charge that the row may say is one the car has had.
ChargeIsPast ==
    \A v \in VIN : /\ st[v].soc <= car[v].soc
                   /\ tel[v] # None => st[v].soc <= tel[v].soc /\ tel[v].soc <= car[v].soc

LEMMA ChargeStaysPast ==
    ASSUME TypeOK, TypeOK', Undisturbed, ChargeIsPast, [Next]_vars
    PROVE  /\ ChargeIsPast'
           /\ \A v \in VIN : st'[v].soc >= st[v].soc
<1> SUFFICES ASSUME NEW v \in VIN
             PROVE  /\ st'[v].soc <= car'[v].soc /\ st'[v].soc >= st[v].soc
                    /\ tel'[v] # None => st'[v].soc <= tel'[v].soc /\ tel'[v].soc <= car'[v].soc
  BY DEF ChargeIsPast
<1>1. /\ car \in [VIN -> CarState] /\ st \in Rows /\ tel \in [VIN -> Report \cup {None}]
      /\ car' \in [VIN -> CarState] /\ st' \in Rows /\ tel' \in [VIN -> Report \cup {None}]
      /\ MaxSoC \in Nat
  BY StoreAssumption DEF TypeOK, StoreTypeOK, CarTypeOK, PollerTypeOK, Rows
<1>2. /\ car[v].soc \in Int /\ car'[v].soc \in Int
      /\ st[v].soc \in Int /\ st'[v].soc \in Int
      /\ tel[v] # None => tel[v].soc \in Int
      /\ tel'[v] # None => tel'[v].soc \in Int
  BY <1>1 DEF CarState, Rows, StateRow, Report
<1>3. car'[v].soc >= car[v].soc
  BY CarSteps, StaysUndisturbed
<1>4. CASE Receive(v)
  <2>1. /\ tel[v] # None /\ st'[v].soc = tel[v].soc /\ UNCHANGED car
    BY <1>4, ReportSteps DEF carVars
  <2>2. tel'[v] = None
    BY <1>1, <1>4 DEF Receive
  <2> QED
    BY <1>2, <2>1, <2>2 DEF ChargeIsPast
<1>5. CASE ~Receive(v)
  <2>1. st'[v].soc = st[v].soc
    BY <1>5, RowSteps
  <2>2. CASE tel'[v] = tel[v] \/ tel'[v] = None
    BY <1>2, <1>3, <2>1, <2>2 DEF ChargeIsPast
  <2>3. CASE UNCHANGED car /\ tel'[v] = ReportOf(car[v])
    <3>1. tel'[v].soc = car[v].soc
      BY <2>3 DEF ReportOf
    <3> QED
      BY <1>2, <2>1, <2>3, <3>1 DEF ChargeIsPast
  <2> QED
    BY <2>2, <2>3, ReportSteps
<1> QED
  BY <1>4, <1>5

\* A row as it has been read, of a session that had begun if it speaks of one.
Seen(v, row) ==
    /\ row.charging # Grid /\ row.soc <= st[v].soc
    /\ row.charging # Not => Logged(v)

\* Why a tick's goroutine may stop a session on surplus.
MayStop(v) ==
    \/ ~cfg[v].enabled \/ ~cfg[v].surplus
    \/ st[v].soc >= cfg[v].target
    \/ LongerAgo(age[v]["start"], cfg[v].minTime)

ActivationPCs == {"activate", "wake", "setLimit", "setAmps", "start", "logStart", "setCharging"}
CheckPCs == {"checkLimit", "verdict", "minTime", "adjustWake", "adjustAmps"}

ArrivesWell(v) ==
    /\ arr[v] # None => arr[v].cfg = cfg[v]
    /\ arr[v].pc \in {"scan", "torn", "register"} => Seen(v, arr[v].st)

\* Where a lookup has been torn, another goroutine may log a start meanwhile.
WorksWell(w, v) ==
    LET j == job[w][v] IN
    /\ j.pc \in ActivationPCs => j.to = Solar
    /\ j.pc \in CheckPCs => j.cfg = cfg[v] /\ j.st.charging = Solar /\ Seen(v, j.st)
    /\ j.pc = "stop" /\ v \notin tornVINs => MayStop(v)

SolarInv ==
    /\ Undisturbed /\ ChargeIsPast
    /\ \A v \in VIN : st[v].charging # Grid /\ ArrivesWell(v)
    /\ \A w \in Ticks, v \in VIN : WorksWell(w, v)

LEMMA SeenStays ==
    ASSUME TypeOK, TypeOK', Undisturbed, ChargeIsPast, [Next]_vars, NEW v \in VIN,
           NEW row \in StateRow, Seen(v, row)
    PROVE  Seen(v, row)'
<1>1. st[v] \in StateRow /\ st'[v] \in StateRow /\ MaxSoC \in Nat
  BY StoreAssumption DEF TypeOK, StoreTypeOK
<1>2. row.soc \in Int /\ st[v].soc \in Int /\ st'[v].soc \in Int
  BY <1>1 DEF StateRow
<1>3. st'[v].soc >= st[v].soc
  BY ChargeStaysPast
<1> QED
  BY <1>2, <1>3, EventStays DEF Seen

LEMMA MayStopStays ==
    ASSUME TypeOK, TypeOK', Undisturbed, ChargeIsPast, [Next]_vars, NEW v \in VIN, MayStop(v),
           \A w \in Workers : ~LogStart(w, v) /\ ~LogFailure(w, v)
    PROVE  MayStop(v)'
<1>1. st[v] \in StateRow /\ st'[v] \in StateRow /\ cfg[v] \in Configs /\ MaxSoC \in Nat
  BY StoreAssumption DEF TypeOK, StoreTypeOK
<1>2. /\ cfg[v].target \in Int /\ cfg[v].minTime \in Nat
      /\ st[v].soc \in Int /\ st'[v].soc \in Int
  <2>1. cfg[v].target \in Limits /\ cfg[v].minTime \in Nat /\ Limits \subseteq Int
    BY <1>1, StoreAssumption
  <2>2. st[v].soc \in Int /\ st'[v].soc \in Int
    BY <1>1 DEF StateRow
  <2> QED
    BY <2>1, <2>2
<1>3. UNCHANGED cfg /\ st'[v].soc >= st[v].soc
  BY ChargeStaysPast, StaysUndisturbed
<1>4. age[v]["start"] \in Ages
  BY DEF TypeOK, StoreTypeOK, Kinds
<1>5. \/ age'[v]["start"] = age[v]["start"]
      \/ age'[v]["start"] = Older(age[v]["start"], "start")
  <2>1. CASE Minute
    BY <2>1 DEF Minute, AgeEvents, Kinds
  <2>2. CASE ~Minute
    BY <2>2, AgeSteps
  <2> QED
    BY <2>1, <2>2
<1>6. LongerAgo(age[v]["start"], cfg[v].minTime) => LongerAgo(age'[v]["start"], cfg[v].minTime)
  BY <1>2, <1>4, <1>5 DEF LongerAgo, Older, Ages, Never
<1> QED
  BY <1>2, <1>3, <1>6 DEF MayStop

LEMMA SolarChoices ==
    ASSUME NEW c, ~c.lowcost, NEW d \in Choices(c)
    PROVE  d[1] \in {Solar, Not}
  BY DEF Choices

\* A round begins on surplus, and on what the goroutine has seen.
LEMMA RoundBegins ==
    ASSUME TypeOK, NEW w \in Ticks, NEW v \in VIN, ~cfg[v].lowcost, NEW s \in StateRow, Seen(v, s),
           NEW j \in Rounds(cfg[v], s), job'[w][v] = j, UNCHANGED <<cfg, st, age>>
    PROVE  WorksWell(w, v)'
<1> DEFINE c == cfg[v]
           round(pc) == [pc |-> pc, cfg |-> c, st |-> s, to |-> Not, amps |-> 0]
<1>1. CASE Disallowed(c, s) /\ j = [pc |-> "stop"]
  <2>1. ~c.enabled \/ ~c.surplus
    BY <1>1 DEF Disallowed, Seen
  <2>2. MayStop(v)' /\ j.pc = "stop"
    BY <1>1, <2>1 DEF MayStop
  <2> QED
    BY <2>2 DEF WorksWell, ActivationPCs, CheckPCs
<1>2. CASE s.charging # Not /\ (j = round("checkLimit") \/ j = round("verdict"))
  <2>1. j.cfg = c /\ j.st = s /\ j.pc \in {"checkLimit", "verdict"}
    BY <1>2
  <2>2. s.charging = Solar /\ Seen(v, s)'
    BY <1>2 DEF Seen, StateRow, ChargeState, Logged
  <2> HIDE DEF round
  <2> QED
    BY <2>1, <2>2 DEF WorksWell, ActivationPCs, CheckPCs, Seen
<1>3. CASE j = [pc |-> "release"]
  BY <1>3 DEF WorksWell, ActivationPCs, CheckPCs
<1>4. CASE \E d \in Choices(c) : /\ d[1] # Not
                                  /\ j = [round("activate") EXCEPT !.to = d[1], !.amps = d[2]]
  <2>1. PICK d \in Choices(c) : /\ d[1] # Not
                                /\ j = [round("activate") EXCEPT !.to = d[1], !.amps = d[2]]
    BY <1>4
  <2>2. d[1] = Solar
    BY <2>1, SolarChoices
  <2>3. j.pc = "activate" /\ j.to = d[1]
    BY <2>1
  <2> HIDE DEF round
  <2> QED
    BY <2>2, <2>3 DEF WorksWell, ActivationPCs, CheckPCs
<1>5. \/ Disallowed(c, s) /\ j = [pc |-> "stop"]
      \/ s.charging # Not /\ (j = round("checkLimit") \/ j = round("verdict"))
      \/ j = [pc |-> "release"]
      \/ \E d \in Choices(c) : /\ d[1] # Not
                               /\ j = [round("activate") EXCEPT !.to = d[1], !.amps = d[2]]
  BY DEF Rounds
<1> QED
  BY <1>1, <1>2, <1>3, <1>4, <1>5

LEMMA GotoKeeps ==
    ASSUME NEW j \in Job \cup {None}, NEW pc
    PROVE  /\ [j EXCEPT !.pc = pc].pc = pc
           /\ j.pc \in ActivationPCs => [j EXCEPT !.pc = pc].to = j.to
           /\ j.pc \in CheckPCs => /\ [j EXCEPT !.pc = pc].cfg = j.cfg
                                   /\ [j EXCEPT !.pc = pc].st = j.st
  BY DEF Job, Activation, Check, None, ActivationPCs, CheckPCs

\* What a step makes of the goroutine of a tick.
LEMMA WorkGoesOn ==
    ASSUME TypeOK, NEW w \in Ticks, NEW v \in VIN, WorksWell(w, v), Working(w, v),
           NEW j, j = job[w][v], NEW k, k = job'[w][v]
    PROVE  \/ k.pc \notin ActivationPCs \cup CheckPCs \cup {"stop"}
           \/ k.pc \in ActivationPCs /\ j.pc \in ActivationPCs /\ k.to = j.to
           \/ k.pc \in CheckPCs /\ j.pc \in CheckPCs /\ k.cfg = j.cfg /\ k.st = j.st
           \/ k.pc = "stop" /\ (v \notin tornVINs => MayStop(v)) /\ ~LogStart(w, v) /\ ~LogFailure(w, v)
<1> DEFINE Away == k.pc \notin ActivationPCs \cup CheckPCs \cup {"stop"}
           Activates == k.pc \in ActivationPCs /\ j.pc \in ActivationPCs /\ k.to = j.to
           Checks == k.pc \in CheckPCs /\ j.pc \in CheckPCs /\ k.cfg = j.cfg /\ k.st = j.st
<1>1. job \in Jobs /\ j \in Job \cup {None} /\ w \in Workers /\ w # "drive"
  BY ControllerAssumption DEF TypeOK, ControllerTypeOK, Jobs, Workers
<1>2. \A x : Become(w, v, x) => k = x
  BY <1>1 DEF Become, Jobs
<1>3. ASSUME NEW pc, Goto(w, v, pc)
      PROVE  /\ k.pc = pc
             /\ j.pc \in ActivationPCs => k.to = j.to
             /\ j.pc \in CheckPCs => k.cfg = j.cfg /\ k.st = j.st
  <2>1. k = [j EXCEPT !.pc = pc]
    BY <1>1, <1>3 DEF Goto, Jobs
  <2>2. /\ [j EXCEPT !.pc = pc].pc = pc
        /\ j.pc \in ActivationPCs => [j EXCEPT !.pc = pc].to = j.to
        /\ j.pc \in CheckPCs => /\ [j EXCEPT !.pc = pc].cfg = j.cfg
                                /\ [j EXCEPT !.pc = pc].st = j.st
    BY <1>1, GotoKeeps
  <2> QED
    BY <2>1, <2>2
<1>4. ASSUME NEW pc \in {"release", "logFailure", "setStopped", "logStop"}, Leave(w, v, pc)
      PROVE  Away
  BY <1>2, <1>4 DEF Leave, ActivationPCs, CheckPCs
<1>5. ASSUME NEW pc \in ActivationPCs, j.pc \in ActivationPCs, Goto(w, v, pc)
      PROVE  Activates
  BY <1>3, <1>5
<1>6. ASSUME NEW pc \in CheckPCs, j.pc \in CheckPCs, Goto(w, v, pc)
      PROVE  Checks
  BY <1>3, <1>6
<1>7. ASSUME NEW pc \in {"setStopped", "logStop"}, Goto(w, v, pc)
      PROVE  Away
  BY <1>3, <1>7 DEF ActivationPCs, CheckPCs
<1>8. \A i : AmpsCall(i) \in ActivationPCs /\ FirstCall(i) \in ActivationPCs
  BY FirstCallPC DEF ActivationPCs
<1>9. AfterActivate(w) = "release"
  BY <1>1 DEF AfterActivate
<1> HIDE DEF Away, Activates, Checks
<1>10. CASE Activate(w, v) \/ Wake(w, v) \/ ActivateLimit(w, v) \/ ActivateAmps(w, v)
  <2>1. j.pc \in ActivationPCs /\ "wake" \in ActivationPCs /\ "start" \in ActivationPCs
    BY <1>10 DEF Activate, Wake, ActivateLimit, ActivateAmps, At, ActivationPCs
  <2>2. \/ Leave(w, v, "release")
        \/ \E pc \in ActivationPCs : Goto(w, v, pc)
    BY <1>8, <1>9, <1>10, <2>1 DEF Activate, Wake, ActivateLimit, ActivateAmps
  <2>3. Away \/ Activates
    BY <1>4, <1>5, <2>1, <2>2
  <2> QED
    BY <2>3 DEF Away, Activates
<1>11. CASE Start(w, v)
  <2>1. j.pc \in ActivationPCs
    BY <1>11 DEF Start, At, ActivationPCs
  <2>2. CASE Become(w, v, [pc |-> "logStart", to |-> job[w][v].to])
    <3>1. k = [pc |-> "logStart", to |-> j.to]
      BY <1>2, <2>2
    <3> QED
      BY <2>1, <3>1 DEF ActivationPCs
  <2>3. CASE Leave(w, v, "logFailure")
    BY <1>4, <2>3 DEF Away
  <2> QED
    BY <1>11, <2>2, <2>3 DEF Start
<1>12. CASE LogFailure(w, v)
  <2>1. k = [pc |-> "countFailure", n |-> failCount]
    BY <1>1, <1>2, <1>12 DEF LogFailure
  <2> QED
    BY <2>1 DEF ActivationPCs, CheckPCs
<1>13. CASE LogStart(w, v)
  <2>1. Activates
    BY <1>5, <1>13 DEF LogStart, At, ActivationPCs
  <2> QED
    BY <2>1 DEF Activates
<1>14. CASE CountFailure(w, v) \/ RecordCharging(w, v)
  <2>1. Away
    BY <1>4, <1>9, <1>14 DEF CountFailure, RecordCharging
  <2> QED
    BY <2>1 DEF Away
<1>15. CASE Stop(w, v) \/ RecordStopped(w, v) \/ LogStop(w, v)
  <2>1. \/ \E pc \in {"setStopped", "logStop"} : Goto(w, v, pc)
        \/ Goto(w, v, "release") \/ Leave(w, v, "release")
    BY <1>15 DEF Stop, RecordStopped, LogStop
  <2>2. Goto(w, v, "release") => k.pc = "release"
    BY <1>3
  <2>3. Away
    BY <1>4, <1>7, <2>1, <2>2 DEF Away, ActivationPCs, CheckPCs
  <2> QED
    BY <2>3 DEF Away
<1>16. CASE Release(w, v)
  <2>1. k = None
    BY <1>2, <1>16 DEF Release
  <2> QED
    BY <2>1 DEF None, ActivationPCs, CheckPCs
<1>17. CASE CheckLimit(w, v) \/ AdjustWake(w, v) \/ AdjustAmps(w, v)
  <2>1. Checks
    BY <1>6, <1>17 DEF CheckLimit, AdjustWake, AdjustAmps, At, CheckPCs
  <2> QED
    BY <2>1 DEF Checks
<1>18. CASE Verdict(w, v)
  <2>1. j.pc = "verdict" /\ j \in Job
    <3>1. j.pc = "verdict"
      BY <1>18 DEF Verdict, At
    <3> QED
      BY <1>1, <3>1 DEF None
  <2>2. j.cfg = cfg[v] /\ Seen(v, j.st)
    BY <2>1 DEF WorksWell, CheckPCs
  <2>3. CASE j.st.soc >= j.cfg.target /\ Leave(w, v, "stop")
    <3>1. st[v].soc \in Int /\ j.st.soc \in Int /\ cfg[v].target \in Int
      <4>1. st[v] \in StateRow /\ cfg[v] \in Configs /\ MaxSoC \in Nat /\ j.st \in StateRow
        BY <2>1, JobShape, StoreAssumption DEF TypeOK, StoreTypeOK
      <4>2. cfg[v].target \in Limits /\ Limits \subseteq Int
        BY <4>1, StoreAssumption
      <4>3. st[v].soc \in Int /\ j.st.soc \in Int
        BY <4>1 DEF StateRow
      <4> QED
        BY <4>2, <4>3
    <3>2. MayStop(v)
      BY <2>2, <2>3, <3>1 DEF MayStop, Seen
    <3>3. k.pc = "stop"
      BY <1>2, <2>3 DEF Leave
    <3>4. ~LogStart(w, v) /\ ~LogFailure(w, v)
      BY <2>1 DEF LogStart, LogFailure, At
    <3> QED
      BY <3>2, <3>3, <3>4
  <2>4. CASE \E d \in Choices(j.cfg), pc \in {"minTime", "adjustWake"} :
                Become(w, v, [j EXCEPT !.pc = pc, !.to = d[1], !.amps = d[2]])
    <3>1. PICK d \in Choices(j.cfg), pc \in {"minTime", "adjustWake"} :
             k = [j EXCEPT !.pc = pc, !.to = d[1], !.amps = d[2]]
      BY <1>2, <2>4
    <3>2. j \in [pc : {"checkLimit", "verdict", "minTime"}, cfg : Configs, st : StateRow,
                 to : ChargeState, amps : Amps \cup {0}]
      BY <2>1, JobShape
    <3>3. k.pc = pc /\ k.cfg = j.cfg /\ k.st = j.st
      BY <3>1, <3>2
    <3> QED
      BY <2>1, <3>3 DEF CheckPCs
  <2> QED
    BY <1>18, <2>3, <2>4 DEF Verdict
<1>19. CASE MinTime(w, v)
  <2>1. j.pc = "minTime"
    BY <1>19 DEF MinTime, At
  <2>2. j.cfg = cfg[v] /\ j.st.charging = Solar /\ Logged(v)
    BY <2>1 DEF WorksWell, CheckPCs, Seen, Solar, Not
  <2>3. CASE MinTimeReached(v, j) /\ k.pc = "stop"
    <3>1. MayStop(v)
      BY <2>2, <2>3 DEF MinTimeReached, MayStop, Logged
    <3>2. ~LogStart(w, v) /\ ~LogFailure(w, v)
      BY <2>1 DEF LogStart, LogFailure, At
    <3> QED
      BY <2>3, <3>1, <3>2
  <2>4. CASE k.pc = "release"
    BY <2>4 DEF ActivationPCs, CheckPCs
  <2> QED
    BY <1>2, <1>19, <2>3, <2>4 DEF MinTime, Leave
<1> QED
  BY <1>10, <1>11, <1>12, <1>13, <1>14, <1>15, <1>16, <1>17, <1>18, <1>19, <1>1 DEF Working

\* Only a restart forgets which lookups have been torn.
LEMMA TornStays ==
    ASSUME TypeOK, [Next]_vars, ~Restart
    PROVE  tornVINs \subseteq tornVINs'
<1>1. ASSUME NEW v \in VIN, Controller(v)
      PROVE  tornVINs \subseteq tornVINs'
  <2>1. CASE Arriving(v)
    BY <2>1 DEF Arriving, ReadState, SkipRound, NotFound, Register
  <2>2. ASSUME NEW w \in Workers, Working(w, v)
        PROVE  tornVINs \subseteq tornVINs'
    BY <2>2, WorkingFrame DEF TypeOK, ControllerTypeOK, Jobs, Unset
  <2> QED
    BY <1>1, <2>1, <2>2 DEF Controller, ControllerNext
<1>2. CASE \/ Minute \/ Crash \/ Resolve \/ PollStep \/ UNCHANGED vars
           \/ \E v \in VIN : \/ User(v) \/ World(v) \/ Send(v) \/ PlugStep(v) \/ HookArrives(v)
  BY <1>2 DEF Minute, OnTick, Crash, Resolve, ResolvePermanentError, PollStep, Receive, Reset,
     Anomaly, PollStop, PollRecordStopped, PollLogStop, Detect, VehicleData, User, UserNext,
     TestDrive, UpdateVehicle, World, Send, PlugStep, PlugStop, PlugSet, HookArrives, vars, ctlVars
<1> QED
  BY <1>1, <1>2 DEF Next

LEMMA NextSolar ==
    ASSUME TypeOK, TypeOK', RegistryInv, EventInv, SolarInv, [Next]_vars
    PROVE  SolarInv'
<1>1. /\ Undisturbed /\ Undisturbed' /\ UNCHANGED cfg /\ ChargeIsPast'
      /\ \A v \in VIN : ~TestDrive(v)
  BY StaysUndisturbed, ChargeStaysPast DEF SolarInv
<1>2. /\ st \in Rows /\ job \in Jobs /\ arr \in [VIN -> Arrival \cup {None}] /\ Workers = Ticks \cup {"drive"}
      /\ cfg \in [VIN -> Configs]
  BY DEF TypeOK, StoreTypeOK, ControllerTypeOK, Rows, Jobs, Workers
<1>3. ASSUME NEW v \in VIN
      PROVE  st'[v].charging # Grid
  <2>1. ASSUME NEW w \in Workers, RecordCharging(w, v)
        PROVE  st'[v].charging = Solar
    <3>1. w \in Ticks
      BY <1>1, <1>2, <2>1 DEF Undisturbed, RecordCharging, At, None
    <3>2. job[w][v].to = Solar
      BY <2>1, <3>1 DEF SolarInv, WorksWell, RecordCharging, At, ActivationPCs
    <3> QED
      BY <1>2, <2>1, <3>2 DEF RecordCharging, SetCharging, Rows, StateRow
  <2> QED
    BY <2>1, RowSteps DEF SolarInv, Solar, Grid, Not
<1>7. ASSUME NEW v \in VIN, arr[v].pc \in {"scan", "torn", "register"}
      PROVE  \A row : row = arr[v].st => Seen(v, row)'
  <2>1. arr[v].st \in StateRow
    BY <1>2, <1>7 DEF Arrival, None
  <2>2. ASSUME NEW row \in StateRow, row = arr[v].st
        PROVE  Seen(v, row)'
    BY <1>7, <2>2, SeenStays DEF SolarInv, ArrivesWell
  <2> QED
    BY <2>1, <2>2
<1>4. ASSUME NEW v \in VIN
      PROVE  ArrivesWell(v)'
  <2>1. CASE Minute
    <3>1. arr'[v] = arr[v] \/ arr'[v] = [pc |-> "read", cfg |-> cfg[v]]
      BY <2>1 DEF Minute, OnTick
    <3>2. CASE arr'[v] = [pc |-> "read", cfg |-> cfg[v]]
      BY <1>1, <3>2 DEF ArrivesWell
    <3>3. arr[v] = None
      BY <2>1 DEF Minute, LocalStepDue
    <3> QED
      BY <3>1, <3>2, <3>3 DEF ArrivesWell, None
  <2>2. CASE Restart
    BY <2>2 DEF Restart, ArrivesWell, None
  <2>3. CASE arr'[v] = arr[v]
    <3>1. arr[v] # None => arr'[v].cfg = cfg'[v]
      BY <1>1, <2>3 DEF SolarInv, ArrivesWell
    <3>2. arr[v].pc \in {"scan", "torn", "register"} => \A row : row = arr[v].st => Seen(v, row)'
      BY <1>7
    <3> QED
      BY <2>3, <3>1, <3>2 DEF ArrivesWell, Seen
  <2>4. CASE ReadState(v)
    <3>1. arr[v].cfg = cfg[v]
      BY <2>4 DEF ReadState, SolarInv, ArrivesWell, None
    <3>2. arr'[v] = None \/ arr'[v] = [pc |-> "scan", cfg |-> cfg[v], st |-> st[v]]
      BY <1>2, <2>4, <3>1 DEF ReadState
    <3>3. st[v].soc <= st[v].soc
      <4>1. st[v] \in StateRow /\ MaxSoC \in Nat
        BY <1>2, StoreAssumption DEF Rows
      <4> QED
        BY <4>1 DEF StateRow
    <3>4. Seen(v, st[v])
      BY <3>3 DEF Seen, EventInv, SolarInv
    <3>5. UNCHANGED <<st, age>>
      BY <2>4 DEF ReadState, storeVars
    <3> QED
      BY <1>1, <3>2, <3>4, <3>5 DEF ArrivesWell, Seen, Logged, None
  <2>5. CASE SkipRound(v) \/ Register(v)
    BY <1>2, <2>5 DEF SkipRound, Register, ArrivesWell, None
  <2>6. ASSUME NEW pc \in {"torn", "register"}, arr[v].pc \in {"scan", "torn"},
               arr'[v] = [arr[v] EXCEPT !.pc = pc]
        PROVE  ArrivesWell(v)'
    <3>1. /\ arr[v].cfg = cfg[v] /\ arr[v] \in Arrival
          /\ arr[v].pc \in {"scan", "torn", "register"}
      BY <1>2, <2>6 DEF SolarInv, ArrivesWell, None
    <3>2. arr[v] \in [pc : {"scan", "torn", "register"}, cfg : Configs, st : StateRow]
      BY <2>6, <3>1 DEF Arrival
    <3>3. /\ arr'[v].pc = pc /\ arr'[v].cfg = arr[v].cfg /\ arr'[v].st = arr[v].st
      BY <2>6, <3>2
    <3>4. \A row : row = arr[v].st => Seen(v, row)'
      BY <1>7, <3>1
    <3> QED
      BY <1>1, <3>1, <3>3, <3>4 DEF ArrivesWell, Seen
  <2> QED
    BY <2>1, <2>2, <2>3, <2>4, <2>5, <2>6, ArrSteps
<1>5. ASSUME NEW w \in Ticks, NEW v \in VIN
      PROVE  WorksWell(w, v)'
  <2> DEFINE j == job[w][v]
             k == job'[w][v]
  <2>1. j \in Job \cup {None} /\ w \in Workers
    BY <1>2 DEF Jobs
  <2>2. ASSUME NEW i, i = job'[w][v], i.pc \in CheckPCs, i.cfg = cfg[v],
               i.st \in StateRow, i.st.charging = Solar, Seen(v, i.st)
        PROVE  WorksWell(w, v)'
    <3>1. Seen(v, i.st)'
      BY <1>1, <2>2, SeenStays DEF SolarInv
    <3> QED
      BY <1>1, <2>2, <3>1 DEF WorksWell, ActivationPCs, CheckPCs, Seen
  <2>3. ASSUME v \notin tornVINs, MayStop(v), j # None, ~LogStart(w, v), ~LogFailure(w, v)
        PROVE  MayStop(v)'
    <3>1. ASSUME NEW x \in Workers, LogStart(x, v) \/ LogFailure(x, v)
          PROVE  FALSE
      <4>1. job[x][v] # None
        BY <3>1 DEF LogStart, LogFailure, At, None
      <4>2. x \in Ticks
        BY <1>1, <1>2, <4>1 DEF Undisturbed
      <4>3. x = w
        BY <2>3, <4>1, <4>2 DEF RegistryInv
      <4> QED
        BY <2>3, <3>1, <4>3
    <3> QED
      BY <1>1, <2>3, <3>1, MayStopStays DEF SolarInv
  <2>4. j.pc \in CheckPCs => j.st \in StateRow
    BY <2>1, JobShape DEF CheckPCs
  <2>5. CASE Restart
    BY <1>2, <2>5 DEF Restart, WorksWell, None, ActivationPCs, CheckPCs
  <2>9. ASSUME ~Restart PROVE tornVINs \subseteq tornVINs'
    BY <2>9, TornStays
  <2>6. CASE k = j /\ ~Working(w, v) /\ ~Restart
    <3>1. CASE j.pc \in CheckPCs
      BY <2>2, <2>4, <2>6, <3>1 DEF SolarInv, WorksWell
    <3>2. CASE j.pc = "stop"
      <4>1. ~LogStart(w, v) /\ ~LogFailure(w, v) /\ j # None
        BY <2>6, <3>2 DEF Working, None
      <4> QED
        BY <2>3, <2>6, <2>9, <3>2, <4>1 DEF SolarInv, WorksWell, ActivationPCs, CheckPCs
    <3>3. CASE j.pc \notin CheckPCs \cup {"stop"}
      BY <2>6, <3>3 DEF SolarInv, WorksWell
    <3> QED
      BY <3>1, <3>2, <3>3
  <2>7. CASE Working(w, v) /\ ~Restart
    <3>1. \/ k.pc \notin ActivationPCs \cup CheckPCs \cup {"stop"}
          \/ k.pc \in ActivationPCs /\ j.pc \in ActivationPCs /\ k.to = j.to
          \/ k.pc \in CheckPCs /\ j.pc \in CheckPCs /\ k.cfg = j.cfg /\ k.st = j.st
          \/ k.pc = "stop" /\ (v \notin tornVINs => MayStop(v)) /\ ~LogStart(w, v) /\ ~LogFailure(w, v)
      BY <2>7, WorkGoesOn DEF SolarInv
    <3>2. CASE k.pc \notin ActivationPCs \cup CheckPCs \cup {"stop"}
      BY <3>2 DEF WorksWell
    <3>3. CASE k.pc \in ActivationPCs /\ j.pc \in ActivationPCs /\ k.to = j.to
      BY <3>3 DEF SolarInv, WorksWell, ActivationPCs, CheckPCs
    <3>4. CASE k.pc \in CheckPCs /\ j.pc \in CheckPCs /\ k.cfg = j.cfg /\ k.st = j.st
      BY <2>2, <2>4, <3>4 DEF SolarInv, WorksWell
    <3>5. CASE k.pc = "stop" /\ (v \notin tornVINs => MayStop(v)) /\ ~LogStart(w, v) /\ ~LogFailure(w, v)
      <4>1. j # None
        BY <1>2, <2>1, <2>7, WorkingFrame
      <4> QED
        BY <2>3, <2>9, <2>7, <3>5, <4>1 DEF WorksWell, ActivationPCs, CheckPCs
    <3> QED
      BY <3>1, <3>2, <3>3, <3>4, <3>5
  <2>8. CASE Register(v) /\ \E i \in Rounds(arr[v].cfg, arr[v].st) : k = i
    <3>1. PICK i \in Rounds(arr[v].cfg, arr[v].st) : k = i
      BY <2>8
    <3>2. arr[v].cfg = cfg[v] /\ Seen(v, arr[v].st) /\ arr[v].st \in StateRow
      BY <1>2, <2>8 DEF Register, SolarInv, ArrivesWell, Arrival, None
    <3>3. UNCHANGED <<cfg, st, age>> /\ ~cfg[v].lowcost
      BY <1>1, <2>8 DEF Register, storeVars, Undisturbed
    <3> QED
      BY <3>1, <3>2, <3>3, RoundBegins
  <2>10. w # "drive"
    BY ControllerAssumption
  <2> HIDE DEF j, k
  <2>11. CASE k # j /\ ~Restart
    <3>1. \/ Working(w, v)
          \/ Register(v) /\ \E i \in Rounds(arr[v].cfg, arr[v].st) : k = i
      BY <2>1, <2>10, <2>11, JobSteps DEF j, k
    <3> QED
      BY <2>7, <2>8, <2>11, <3>1
  <2> QED
    BY <2>5, <2>6, <2>7, <2>11
<1> QED
  BY <1>1, <1>3, <1>4, <1>5 DEF SolarInv

LEMMA FirstSolar ==
    ASSUME SunOnly, Init
    PROVE  SolarInv
<1>1. PICK s \in Setups : /\ cfg = [v \in VIN |-> s.cfg] /\ car = [v \in VIN |-> s.car]
                          /\ st = [v \in VIN |-> FirstRow(s)] /\ left = s.left
  BY DEF Init
<1>2. /\ s.car \in CarState /\ MaxSoC \in Nat
  BY SetupAssumption, StoreAssumption
<1>3. /\ arr = [v \in VIN |-> None] /\ tel = [v \in VIN |-> None]
      /\ job = [w \in Workers |-> [v \in VIN |-> None]]
  BY DEF Init, ControllerIdle
<1>4. FirstRow(s).charging = Not /\ FirstRow(s).soc <= s.car.soc
  <2>1. FirstRow(s).soc \in {s.car.soc, -1} /\ FirstRow(s).charging = Not
    BY DEF FirstRow, NoRow
  <2> QED
    BY <1>2, <2>1 DEF CarState
<1>5. Undisturbed
  BY <1>1, <1>3 DEF SunOnly, Undisturbed, Workers
<1>6. ChargeIsPast
  BY <1>1, <1>3, <1>4 DEF ChargeIsPast
<1>7. \A v \in VIN : st[v].charging # Grid
  BY <1>1, <1>4 DEF Not, Grid
<1>8. \A v \in VIN : ArrivesWell(v) /\ \A w \in Ticks : WorksWell(w, v)
  BY <1>3 DEF ArrivesWell, WorksWell, Workers, None, ActivationPCs, CheckPCs
<1> QED
  BY <1>5, <1>6, <1>7, <1>8 DEF SolarInv

LEMMA MinimumIsOver ==
    ASSUME TypeOK, SolarInv, NEW v \in VIN \ tornVINs, NEW w \in Ticks,
           job[w][v].pc = "stop", st[v].charging = Solar,
           ~Disallowed(cfg[v], st[v]), st[v].soc < cfg[v].target
    PROVE  LongerAgo(age[v]["start"], cfg[v].minTime)
<1>1. MayStop(v)
  BY DEF SolarInv, WorksWell
<1>2. cfg[v].enabled /\ cfg[v].surplus
  BY DEF Disallowed, Solar, Not
<1>3. ~(st[v].soc >= cfg[v].target)
  <2>1. st[v] \in StateRow /\ cfg[v] \in Configs /\ MaxSoC \in Nat
    BY StoreAssumption DEF TypeOK, StoreTypeOK
  <2>2. cfg[v].target \in Limits /\ Limits \subseteq Int
    BY <2>1, StoreAssumption
  <2>3. st[v].soc \in Int
    BY <2>1 DEF StateRow
  <2>4. \A m, n \in Int : m < n => ~(m >= n)
    OBVIOUS
  <2> QED
    BY <2>2, <2>3, <2>4
<1> QED
  BY <1>1, <1>2, <1>3 DEF MayStop

\* No cloud ends a session on surplus before its minimum time, for any vehicles that
\* charge on surplus only and stay at home, any settings that are not changed, any
\* failures, plugging, telemetry and restarts; a vehicle with a torn lookup aside.
THEOREM SolarSessionsLast ==
    ASSUME SunOnly
    PROVE  Spec => MinChargeTimeHonoured
<1>1. Init => SolarInv
  BY FirstSolar
<1>2. TypeInv => TypeOK
  BY DEF TypeInv
<1>3. TypeOK /\ TypeOK' /\ RegistryInv /\ EventInv /\ SolarInv /\ [Next]_vars => SolarInv'
  BY NextSolar
<1>4. TypeOK /\ SolarInv /\ [Next]_vars =>
        [\A v \in VIN \ tornVINs, w \in Ticks :
          (/\ job[w][v].pc = "stop" /\ job'[w][v].pc # "stop"
           /\ car[v].charging /\ ~car'[v].charging
           /\ st[v].charging = Solar
           /\ ~Disallowed(cfg[v], st[v]) /\ st[v].soc < cfg[v].target)
              => LongerAgo(age[v]["start"], cfg[v].minTime)]_vars
  BY MinimumIsOver
<1> QED
  BY TypeInvInvariant, RegistryInvariant, EventInvInvariant, <1>1, <1>2, <1>3, <1>4, PTL
     DEF Spec, MinChargeTimeHonoured
=============================================================================
