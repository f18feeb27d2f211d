------------------------- MODULE SolarSurplusProofs -------------------------
(***************************************************************************)
(* Proofs about SolarSurplus, for any vehicles, settings, sun and faults:  *)
(* types; why charging is stopped; and, if no more time passes between     *)
(* changes of the current than a reading counts, that a new current is     *)
(* derived from readings that the present one is part of, and that a car   *)
(* on its own draws too much for a bounded time only.                      *)
(***************************************************************************)
EXTENDS SolarSurplus, NumberLemmas

LEMMA MinPair ==
    ASSUME NEW m \in Int, NEW n \in Int
    PROVE  Min({m, n}) \in {m, n} /\ Min({m, n}) <= m /\ Min({m, n}) <= n
<1>1. \E x \in {m, n} : \A y \in {m, n} : x =< y
  <2>1. CASE m <= n
    BY <2>1
  <2>2. CASE n <= m
    BY <2>2
  <2> QED BY <2>1, <2>2
<1>2. Min({m, n}) \in {m, n} /\ \A y \in {m, n} : Min({m, n}) =< y
  BY <1>1, Zenon DEF Min
<1> QED BY <1>2

LEMMA MaxOfFew ==
    ASSUME NEW m \in Int, NEW n \in Int, NEW k \in Int, NEW S \in SUBSET {m, n, k}, S # {}
    PROVE  Max(S) \in S /\ Max(S) \in Int /\ \A y \in S : Max(S) >= y
<1>1. IsFiniteSet({m, n, k})
  <2>1. IsFiniteSet(({m} \cup {n}) \cup {k})
    BY FS_Singleton, FS_AddElement
  <2>2. {m, n, k} = ({m} \cup {n}) \cup {k}
    OBVIOUS
  <2> QED BY <2>1, <2>2
<1>2. IsFiniteSet(S) /\ S \subseteq Int
  BY <1>1, FS_Subset
<1>3. \E x \in S : \A y \in S : x >= y
  BY <1>2, FiniteSetHasGreatest
<1>4. Max(S) \in S /\ \A y \in S : Max(S) >= y
  BY <1>3, Zenon DEF Max
<1> QED BY <1>2, <1>4
-----------------------------------------------------------------------------
\* Types: a current that is to be set is one that the car can take.
JobSetsAmps == \A v \in VIN : job[v] # None /\ job[v].do = "adjust" => job[v].amps > 0

TypeInv == TypeOK /\ JobSetsAmps

LEMMA Constants ==
    /\ NumPhases \in Nat \ {0} /\ MaxAmps \in Nat \ {0}
    /\ MinSurplus \in Nat /\ Buffer \in Nat /\ MinChargeTime \in Nat
    /\ Window \in Nat /\ AdjustEvery \in Nat /\ ReportEvery \in Nat /\ Cap \in Nat
    /\ Cap > 2 * Window + AdjustEvery /\ Cap > MinChargeTime + 3
    /\ IsFiniteSet(VIN) /\ Suns \subseteq Int
    /\ Bounds \in [{"faults", "suns", "outages"} -> Nat]
BY SolarAssumption

LEMMA WattsType ==
    ASSUME NEW n \in Nat
    PROVE  Watts(n) \in Nat /\ (n > 0 => Watts(n) > 0)
BY Constants DEF Watts

LEMMA LoadType == ASSUME TypeOK, NEW v \in VIN PROVE Load(v) \in Nat
<1>1. car[v].amps \in Nat
  BY Constants DEF TypeOK, Charge
<1> QED BY <1>1, WattsType DEF Load

LEMMA TotalLoadIsSum == \E f : SumsUp(f, [v \in VIN |-> Load(v)], VIN) /\ TotalLoad = f[VIN]
<1> DEFINE total[s \in SUBSET VIN] ==
               IF s = {} THEN 0 ELSE LET x == CHOOSE x \in s : TRUE IN Load(x) + total[s \ {x}]
<1>1. TotalLoad = total[VIN]
  BY DEF TotalLoad, MapThenSumSet, MapThenFoldSet
<1>2. PICK f : SumsUp(f, [v \in VIN |-> Load(v)], VIN)
  BY Constants, SumsExist
<1>3. f = [s \in SUBSET VIN |->
             IF s = {} THEN 0 ELSE LET x == CHOOSE x \in s : TRUE IN Load(x) + f[s \ {x}]]
  BY <1>2 DEF SumsUp, Picked
<1>4. total = [s \in SUBSET VIN |->
                 IF s = {} THEN 0 ELSE LET x == CHOOSE x \in s : TRUE IN Load(x) + total[s \ {x}]]
  BY <1>3
<1>5. SumsUp(total, [v \in VIN |-> Load(v)], VIN)
  BY <1>4 DEF SumsUp, Picked
<1> QED BY <1>1, <1>5

LEMMA TotalLoadType == ASSUME TypeOK PROVE TotalLoad \in Int
<1>1. PICK f : SumsUp(f, [v \in VIN |-> Load(v)], VIN) /\ TotalLoad = f[VIN]
  BY TotalLoadIsSum
<1>2. [v \in VIN |-> Load(v)] \in [VIN -> Int] /\ IsFiniteSet(VIN) /\ VIN \in SUBSET VIN
  BY LoadType, Constants
<1>3. \A s \in SUBSET VIN : f[s] \in Int
  <2> DEFINE w == [v \in VIN |-> Load(v)]
  <2>1. w \in [VIN -> Int] /\ SumsUp(f, w, VIN)
    BY <1>1, <1>2
  <2> HIDE DEF w
  <2> QED BY <1>2, <2>1, SumsAreIntegers
<1> QED BY <1>1, <1>2, <1>3
-----------------------------------------------------------------------------
LEMMA ReadingsAre ==
    ASSUME TypeOK
    PROVE  /\ DOMAIN readings \subseteq {1, 2} /\ (readings # <<>> => 1 \in DOMAIN readings)
           /\ \A r \in DOMAIN readings :
                 /\ readings[r] \in Reading
                 /\ readings[r].age \in 0..Window /\ readings[r].watts \in Int
                 /\ readings[r].load \in [VIN -> Int]
<1>1. /\ readings \in Seq(Reading) /\ Len(readings) \in {0, 1, 2}
      /\ DOMAIN readings = 1..Len(readings)
  <2>1. readings \in Seq(Reading) /\ Len(readings) <= 2
    BY DEF TypeOK
  <2>2. Len(readings) \in Nat /\ DOMAIN readings = 1..Len(readings)
    BY <2>1
  <2> QED BY <2>1, <2>2
<1>2. \A r \in DOMAIN readings : readings[r] \in Reading
  BY <1>1
<1> QED BY <1>1, <1>2 DEF Reading

LEMMA FreshAre ==
    ASSUME TypeOK, NEW r \in Fresh
    PROVE  /\ r \in DOMAIN readings /\ readings # <<>>
           /\ readings[r].age \in Nat /\ readings[r].age < Window
           /\ readings[r].watts \in Int /\ \A v \in VIN : readings[r].load[v] \in Int
           /\ readings[1].age \in Nat
<1>1. r \in DOMAIN readings /\ readings[r].age < Window
  BY DEF Fresh
<1>2. readings # <<>> /\ 1 \in DOMAIN readings
  BY <1>1, ReadingsAre
<1>3. readings[r].age \in 0..Window /\ readings[1].age \in 0..Window
  BY <1>1, <1>2, ReadingsAre
<1>4. readings[r].watts \in Int /\ readings[r].load \in [VIN -> Int]
  BY <1>1, ReadingsAre
<1>5. \A n \in 0..Window : n \in Nat
  BY Constants
<1> QED BY <1>1, <1>2, <1>3, <1>4, <1>5

LEMMA VehicleIs ==
    ASSUME TypeOK, NEW v \in VIN
    PROVE  /\ car[v] \in Charge /\ row[v] \in Charge
           /\ car[v].charging \in BOOLEAN /\ row[v].charging \in BOOLEAN
           /\ car[v].amps \in 1..MaxAmps /\ row[v].amps \in 1..MaxAmps
           /\ since[v].amps \in 0..Cap /\ since[v].start \in 0..Cap
           /\ \/ job[v] = None
              \/ /\ job[v] \in Calls /\ job[v].do \in {"start", "adjust", "stop"}
                 /\ job[v].amps \in 0..MaxAmps /\ job[v].late \in BOOLEAN
BY DEF TypeOK, Charge, Calls

LEMMA SurplusToGoOnIs ==
    ASSUME TypeOK, NEW v \in VIN
    PROVE  /\ SurplusToGoOn(v) \in {0} \cup {readings[r].watts + Watts(row[v].amps) : r \in Fresh}
           /\ SurplusToGoOn(v) \in Int
           /\ \A r \in Fresh : SurplusToGoOn(v) >= readings[r].watts + Watts(row[v].amps)
<1> DEFINE watts(r) == IF r \in Fresh THEN readings[r].watts + Watts(row[v].amps) ELSE 0
           S == {0} \cup {readings[r].watts + Watts(row[v].amps) : r \in Fresh}
<1>1. Watts(row[v].amps) \in Int
  BY VehicleIs, Constants, WattsType
<1>2. watts(1) \in Int /\ watts(2) \in Int
  BY <1>1, ReadingsAre DEF Fresh
<1>3. S \in SUBSET {0, watts(1), watts(2)} /\ S # {}
  BY ReadingsAre DEF Fresh
<1>4. Max(S) \in S /\ Max(S) \in Int /\ \A y \in S : Max(S) >= y
  <2> HIDE DEF watts, S
  <2>1. 0 \in Int
    OBVIOUS
  <2> QED BY <1>2, <1>3, <2>1, MaxOfFew, Zenon
<1> QED BY <1>4 DEF SurplusToGoOn

LEMMA SurplusToStartIs ==
    ASSUME TypeOK
    PROVE  /\ SurplusToStart \in Int
           /\ SurplusToStart # 0 => \E r \in Fresh : SurplusToStart = readings[r].watts
<1> DEFINE below == {r \in Fresh : readings[r].watts < MinSurplus}
           watts(r) == IF r \in Fresh THEN readings[r].watts ELSE 0
           S == {readings[r].watts : r \in Fresh}
<1>1. Fresh \subseteq {1, 2} /\ \A r \in Fresh : readings[r].watts \in Int
  BY ReadingsAre DEF Fresh
<1>2. CASE Fresh = {}
  BY <1>2 DEF SurplusToStart
<1>3. CASE Fresh # {} /\ below # {}
  <2>1. below \in SUBSET {1, 2, 2}
    BY <1>1
  <2>2. Max(below) \in below
    <3> HIDE DEF below
    <3> QED BY <1>3, <2>1, MaxOfFew
  <2>3. SurplusToStart = readings[Max(below)].watts
    BY <1>3 DEF SurplusToStart
  <2> QED BY <1>1, <2>2, <2>3
<1>4. CASE Fresh # {} /\ below = {}
  <2>1. watts(1) \in Int /\ watts(2) \in Int
    BY <1>1
  <2>2. S \in SUBSET {watts(1), watts(2), watts(2)} /\ S # {}
    BY <1>1, <1>4
  <2>3. Max(S) \in S
    <3> HIDE DEF watts, S
    <3> QED BY <2>1, <2>2, MaxOfFew
  <2>4. SurplusToStart = Max(S)
    BY <1>4 DEF SurplusToStart
  <2> QED BY <1>1, <2>3, <2>4
<1> QED BY <1>2, <1>3, <1>4

\* A current is derived from a surplus that is enough, and is what the surplus
\* can feed.
LEMMA CheckStartOnSolarIs ==
    ASSUME TypeOK, NEW v \in VIN
    PROVE  LET surplus == (IF row[v].charging THEN SurplusToGoOn(v) ELSE SurplusToStart) - Buffer
               amps == CheckStartOnSolar(v)
           IN  /\ surplus \in Int /\ amps \in 0..MaxAmps
               /\ amps = 0 => surplus < MinSurplus \/ surplus < Watts(1)
               /\ amps > 0 => surplus > 0 /\ surplus >= MinSurplus /\ Watts(amps) <= surplus
<1> DEFINE surplus == (IF row[v].charging THEN SurplusToGoOn(v) ELSE SurplusToStart) - Buffer
           amps == CheckStartOnSolar(v)
<1> SUFFICES /\ surplus \in Int /\ amps \in 0..MaxAmps
             /\ amps = 0 => surplus < MinSurplus \/ surplus < Watts(1)
             /\ amps > 0 => surplus > 0 /\ surplus >= MinSurplus /\ Watts(amps) <= surplus
  OBVIOUS
<1>1. surplus \in Int
  BY SurplusToGoOnIs, SurplusToStartIs, Constants
<1>2. Watts(1) \in Nat \ {0}
  BY WattsType
<1>3. amps = IF surplus <= 0 \/ surplus < MinSurplus THEN 0 ELSE Min({surplus \div Watts(1), MaxAmps})
  BY DEF CheckStartOnSolar
<1> HIDE DEF surplus, amps
<1>4. CASE surplus <= 0 \/ surplus < MinSurplus
  BY <1>1, <1>2, <1>3, <1>4, Constants
<1>5. CASE ~(surplus <= 0 \/ surplus < MinSurplus)
  <2> DEFINE q == surplus \div Watts(1)
  <2>1. surplus \in Nat /\ amps = Min({q, MaxAmps})
    BY <1>1, <1>3, <1>5
  <2>2. q \in Nat /\ surplus % Watts(1) \in 0..(Watts(1) - 1)
        /\ surplus = q * Watts(1) + (surplus % Watts(1))
    BY <1>2, <2>1, Division
  <2> HIDE DEF q
  <2>3. amps \in {q, MaxAmps} /\ amps <= q /\ amps <= MaxAmps
    <3>1. q \in Int /\ MaxAmps \in Int
      BY <2>2, Constants
    <3> QED BY <2>1, <3>1, MinPair
  <2>4. amps \in 0..MaxAmps
    BY <2>2, <2>3, Constants
  <2>5. amps = 0 => surplus < Watts(1)
    BY <1>2, <2>2, <2>3, Constants
  <2>6. amps * Watts(1) <= q * Watts(1) /\ q * Watts(1) <= surplus
    BY <1>2, <2>2, <2>3, <2>4, TimesMonotone
  <2>7. Watts(amps) = amps * Watts(1)
    BY <2>4, Constants DEF Watts
  <2>8. Watts(amps) \in Int /\ q * Watts(1) \in Int
    BY <1>2, <2>2, <2>4, WattsType
  <2> QED BY <1>1, <1>2, <1>5, <2>1, <2>4, <2>5, <2>6, <2>7, <2>8, Constants
<1> QED BY <1>4, <1>5
-----------------------------------------------------------------------------
LEMMA InitType == Init => TypeInv
<1> SUFFICES ASSUME Init PROVE TypeInv
  OBVIOUS
<1>1. sun \in Suns /\ meter \in BOOLEAN /\ due \subseteq VIN /\ excess \in 0..Cap
  BY Constants DEF Init
<1>2. car \in [VIN -> Charge] /\ row \in [VIN -> Charge]
  BY Constants DEF Init, Charge
<1>3. readings \in Seq(Reading) /\ Len(readings) <= 2
  BY DEF Init
<1>4. since \in [VIN -> [amps : 0..Cap, start : 0..Cap]]
  BY Constants DEF Init
<1>5. job \in [VIN -> Calls \cup {None}] /\ JobSetsAmps
  BY DEF Init, JobSetsAmps
<1>6. left \in [{"faults", "suns", "outages"} -> Nat]
  BY Constants DEF Init
<1> QED BY <1>1, <1>2, <1>3, <1>4, <1>5, <1>6 DEF TypeInv, TypeOK

LEMMA DecisionType ==
    ASSUME TypeOK, NEW v \in VIN
    PROVE  /\ Decision(v) \in Calls \cup {None}
           /\ Decision(v) # None =>
                 /\ ~Decision(v).late
                 /\ \/ /\ Decision(v).do = "start" /\ ~row[v].charging /\ CheckStartOnSolar(v) > 0
                       /\ \/ Decision(v).amps = CheckStartOnSolar(v)
                          \/ Decision(v).amps = 0 /\ row[v].amps = CheckStartOnSolar(v)
                    \/ /\ Decision(v).do = "adjust" /\ row[v].charging /\ CanAdjust(v)
                       /\ CheckStartOnSolar(v) > 0 /\ Decision(v).amps = CheckStartOnSolar(v)
                    \/ /\ Decision(v).do = "stop" /\ row[v].charging /\ MinTimeReached(v)
                       /\ CheckStartOnSolar(v) = 0
<1>1. CheckStartOnSolar(v) \in 0..MaxAmps /\ 0 \in 0..MaxAmps
  BY CheckStartOnSolarIs, Constants
<1>2. ASSUME NEW do \in {"start", "adjust", "stop"}, NEW amps \in 0..MaxAmps
      PROVE  /\ Call(do, amps) \in Calls /\ ~Call(do, amps).late
             /\ Call(do, amps).do = do /\ Call(do, amps).amps = amps
  BY DEF Call, Calls
<1>3. CASE ~row[v].charging
  <2>1. CASE CheckStartOnSolar(v) = 0
    BY <1>3, <2>1 DEF Decision
  <2>2. CASE CheckStartOnSolar(v) > 0
    <3> DEFINE amps == IF CheckStartOnSolar(v) = row[v].amps THEN 0 ELSE CheckStartOnSolar(v)
    <3>1. amps \in 0..MaxAmps /\ Decision(v) = Call("start", amps)
      BY <1>1, <1>3, <2>2 DEF Decision
    <3> QED BY <1>2, <1>3, <2>2, <3>1
  <2> QED BY <1>1, <2>1, <2>2
<1>4. CASE row[v].charging
  <2>1. \/ /\ Decision(v) = Call("adjust", CheckStartOnSolar(v))
           /\ CheckStartOnSolar(v) > 0 /\ CanAdjust(v)
        \/ /\ Decision(v) = Call("stop", 0)
           /\ CheckStartOnSolar(v) = 0 /\ MinTimeReached(v)
        \/ Decision(v) = None
    BY <1>4 DEF Decision
  <2> QED BY <1>1, <1>2, <1>4, <2>1
<1> QED BY <1>3, <1>4

LEMMA TickType == ASSUME TypeInv, NEW v \in VIN, Tick(v) PROVE TypeInv'
<1>1. /\ due' = due \ {v}
      /\ job' = [job EXCEPT ![v] = Decision(v)] \/ job' = job
      /\ UNCHANGED <<sun, meter, car, readings, row, since, excess, left>>
  BY DEF Tick
<1>2. Decision(v) \in Calls \cup {None}
      /\ (Decision(v) # None /\ Decision(v).do = "adjust" => Decision(v).amps > 0)
  BY DecisionType DEF TypeInv
<1>3. job' \in [VIN -> Calls \cup {None}] /\ JobSetsAmps'
  BY <1>1, <1>2 DEF TypeInv, TypeOK, JobSetsAmps
<1> QED BY <1>1, <1>3 DEF TypeInv, TypeOK, Charge

LEMMA TelemetryType == ASSUME TypeInv, NEW v \in VIN, Telemetry(v) PROVE TypeInv'
<1>1. /\ row' = [row EXCEPT ![v].amps = car[v].amps]
      /\ UNCHANGED <<sun, meter, car, readings, since, due, job, excess, left>>
  BY DEF Telemetry
<1>2. row' \in [VIN -> Charge]
  BY <1>1 DEF TypeInv, TypeOK, Charge
<1> QED BY <1>1, <1>2 DEF TypeInv, TypeOK, JobSetsAmps, Charge

LEMMA SpendType ==
    ASSUME TypeOK, NEW what \in {"faults", "suns", "outages"}, Spend(what)
    PROVE  left' \in [{"faults", "suns", "outages"} -> Nat]
BY DEF TypeOK, Spend

LEMMA AnswerType == ASSUME TypeInv, NEW v \in VIN, Answer(v) PROVE TypeInv'
<1> DEFINE amps == job[v].amps
<1>1. /\ job[v] # None /\ job' = [job EXCEPT ![v] = None]
      /\ UNCHANGED <<sun, meter, readings, due, excess>>
  BY DEF Answer
<1>2. amps \in 0..MaxAmps /\ (job[v].do = "adjust" => amps > 0)
  BY <1>1, VehicleIs DEF TypeInv, JobSetsAmps
<1>3. job' \in [VIN -> Calls \cup {None}] /\ JobSetsAmps'
  BY <1>1 DEF TypeInv, TypeOK, JobSetsAmps
<1>4. left' \in [{"faults", "suns", "outages"} -> Nat]
  <2>1. left' = left \/ Spend("faults")
    BY DEF Answer
  <2> QED BY <2>1, SpendType DEF TypeInv, TypeOK
<1>5. AmpsSet(v, amps, car) \in 1..MaxAmps /\ AmpsSet(v, amps, row) \in 1..MaxAmps
  BY <1>2, VehicleIs, Constants DEF AmpsSet, TypeInv
<1> DEFINE Typed == /\ car' \in [VIN -> Charge] /\ row' \in [VIN -> Charge]
                    /\ since' \in [VIN -> [amps : 0..Cap, start : 0..Cap]]
<1> SUFFICES Typed
  BY <1>1, <1>3, <1>4 DEF TypeInv, TypeOK
<1>0. car \in [VIN -> Charge] /\ row \in [VIN -> Charge] /\ 0 \in 0..Cap
      /\ since \in [VIN -> [amps : 0..Cap, start : 0..Cap]]
  BY Constants DEF TypeInv, TypeOK
<1>6. ASSUME StartEvents(v, amps) PROVE since' \in [VIN -> [amps : 0..Cap, start : 0..Cap]]
  BY <1>0, <1>6 DEF StartEvents
<1>7. ASSUME since' = [since EXCEPT ![v].amps = 0]
      PROVE  since' \in [VIN -> [amps : 0..Cap, start : 0..Cap]]
  BY <1>0, <1>7
<1>8. CASE Started(v, amps)
  BY <1>0, <1>5, <1>6, <1>8 DEF Started, Charge
<1>9. CASE job[v].do = "adjust" /\ Adjusted(v, amps)
  BY <1>0, <1>2, <1>7, <1>9 DEF Adjusted, Charge
<1>10. CASE Stopped(v)
  BY <1>0, <1>10 DEF Stopped, Charge
<1>11. CASE UNCHANGED <<car, row, since>>
  BY <1>0, <1>11
<1>12. CASE amps > 0 /\ AmpsFailed(v, amps)
  BY <1>0, <1>2, <1>7, <1>12 DEF AmpsFailed, Charge
<1>13. CASE StartRefused(v, amps)
  BY <1>0, <1>5, <1>6, <1>13 DEF StartRefused, Charge
<1> HIDE DEF Typed, amps
<1> QED BY <1>8, <1>9, <1>10, <1>11, <1>12, <1>13 DEF Answer, Failed, amps

LEMMA ReportType == ASSUME TypeInv, Report PROVE TypeInv'
<1>1. /\ readings' = IF readings = <<>> THEN <<NewReading>> ELSE <<NewReading, readings[1]>>
      /\ UNCHANGED <<sun, meter, car, row, since, due, job, excess, left>>
  BY DEF Report
<1>2. NewReading \in Reading
  <2>1. sun - TotalLoad \in Int
    BY TotalLoadType, Constants DEF TypeInv, TypeOK
  <2>2. [v \in VIN |-> Load(v)] \in [VIN -> Int]
    BY LoadType DEF TypeInv
  <2> QED BY <2>1, <2>2, Constants DEF NewReading, Reading
<1>3. readings # <<>> => readings[1] \in Reading
  BY ReadingsAre DEF TypeInv
<1>4. readings' \in Seq(Reading) /\ Len(readings') <= 2
  BY <1>1, <1>2, <1>3
<1> QED BY <1>1, <1>4 DEF TypeInv, TypeOK, JobSetsAmps, Charge

LEMMA OlderIs == ASSUME NEW n \in Nat PROVE Older(n) \in 0..Cap /\ Older(n) \in {n + 1, Cap} /\ Older(n) <= n + 1
<1>1. n + 1 \in Int /\ Cap \in Int /\ Cap > 0
  BY Constants
<1>2. Min({n + 1, Cap}) \in {n + 1, Cap} /\ Min({n + 1, Cap}) <= n + 1 /\ Min({n + 1, Cap}) <= Cap
  BY <1>1, MinPair
<1> QED BY <1>1, <1>2 DEF Older

LEMMA ReadingAges ==
    ASSUME NEW n \in 0..Window
    PROVE  /\ Min({n + 1, Window}) \in 0..Window /\ Min({n + 1, Window}) \in {n + 1, Window}
           /\ Min({n + 1, Window}) <= n + 1
<1>1. n + 1 \in Int /\ Window \in Int /\ Window >= 0
  BY Constants
<1>2. /\ Min({n + 1, Window}) \in {n + 1, Window} /\ Min({n + 1, Window}) <= n + 1
      /\ Min({n + 1, Window}) <= Window
  BY <1>1, MinPair
<1> QED BY <1>1, <1>2

LEMMA MinuteType == ASSUME TypeInv, Minute PROVE TypeInv'
<1>1. /\ UNCHANGED <<sun, meter, car, row, left>> /\ due' = VIN
      /\ job' = [v \in VIN |-> IF job[v] = None THEN None ELSE [job[v] EXCEPT !.late = TRUE]]
      /\ readings' = [r \in DOMAIN readings |->
                        [readings[r] EXCEPT !.age = Min({@ + 1, Window})]]
      /\ since' = [v \in VIN |-> [amps |-> Older(since[v].amps), start |-> Older(since[v].start)]]
      /\ excess' \in {Older(excess), 0}
  BY DEF Minute
<1>2. job' \in [VIN -> Calls \cup {None}] /\ JobSetsAmps'
  <2>1. ASSUME NEW v \in VIN
        PROVE  /\ job'[v] \in Calls \cup {None}
               /\ job'[v] # None /\ job'[v].do = "adjust" => job'[v].amps > 0
    BY <1>1 DEF TypeInv, TypeOK, JobSetsAmps, Calls
  <2> QED BY <1>1, <2>1 DEF JobSetsAmps
<1>3. since' \in [VIN -> [amps : 0..Cap, start : 0..Cap]]
  <2>1. ASSUME NEW v \in VIN PROVE Older(since[v].amps) \in 0..Cap /\ Older(since[v].start) \in 0..Cap
    BY OlderIs, VehicleIs DEF TypeInv
  <2> QED BY <1>1, <2>1
<1>4. excess' \in 0..Cap
  <2>1. excess \in Nat
    BY DEF TypeInv, TypeOK
  <2> QED BY <1>1, <2>1, OlderIs, Constants
<1>5. readings' \in Seq(Reading) /\ Len(readings') <= 2
  <2>1. ASSUME NEW r \in DOMAIN readings PROVE readings'[r] \in Reading
    <3>1. readings[r] \in Reading /\ readings[r].age \in 0..Window
      BY ReadingsAre DEF TypeInv
    <3>2. Min({readings[r].age + 1, Window}) \in 0..Window
      BY <3>1, ReadingAges
    <3> QED BY <1>1, <3>1, <3>2 DEF Reading
  <2>2. DOMAIN readings = 1..Len(readings) /\ Len(readings) \in Nat /\ Len(readings) <= 2
    BY DEF TypeInv, TypeOK
  <2>3. readings' \in [1..Len(readings) -> Reading]
    BY <1>1, <2>1, <2>2
  <2> QED BY <2>2, <2>3
<1> QED BY <1>1, <1>2, <1>3, <1>4, <1>5 DEF TypeInv, TypeOK

LEMMA NextType == TypeInv /\ [Next]_vars => TypeInv'
<1> SUFFICES ASSUME TypeInv, [Next]_vars PROVE TypeInv'
  OBVIOUS
<1>1. CASE SunChanges
  <2>1. sun' \in Suns /\ excess' = 0 /\ UNCHANGED <<meter, car, readings, row, since, due, job>>
    BY <1>1 DEF SunChanges
  <2>2. left' \in [{"faults", "suns", "outages"} -> Nat]
    BY <1>1, SpendType DEF SunChanges, TypeInv
  <2>3. excess' \in 0..Cap
    BY <2>1, Constants
  <2> QED BY <2>1, <2>2, <2>3 DEF TypeInv, TypeOK, JobSetsAmps
<1>2. CASE MeterChanges
  <2>1. meter' \in BOOLEAN /\ UNCHANGED <<sun, car, readings, row, since, due, job, excess>>
    BY <1>2 DEF MeterChanges
  <2>2. left' \in [{"faults", "suns", "outages"} -> Nat]
    BY <1>2, SpendType DEF MeterChanges, TypeInv
  <2> QED BY <2>1, <2>2 DEF TypeInv, TypeOK, JobSetsAmps
<1>3. CASE UNCHANGED vars
  BY <1>3 DEF vars, TypeInv, TypeOK, JobSetsAmps
<1> QED BY <1>1, <1>2, <1>3, TickType, AnswerType, TelemetryType, ReportType, MinuteType
        DEF Next, Vehicle

\* The types hold for any vehicles, settings, suns and faults; in particular, a
\* current that is set is one between one ampere and the vehicle's maximum, and
\* never more than two readings are kept (checkStartOnSolar, recordSurplus).
THEOREM SolarTypes == Spec => []TypeOK
<1>1. Spec => []TypeInv
  BY InitType, NextType, PTL DEF Spec
<1>2. TypeInv => TypeOK
  BY DEF TypeInv
<1> QED BY <1>1, <1>2, PTL
-----------------------------------------------------------------------------
\* The fields that the argument needs, without the numbers in them.
CallShape(j) ==
    \/ j = None
    \/ /\ DOMAIN j = {"do", "amps", "late"}
       /\ j.do \in {"start", "adjust", "stop"}

ShapeOK ==
    /\ DOMAIN car = VIN /\ \A v \in VIN : DOMAIN car[v] = {"charging", "amps"}
    /\ DOMAIN row = VIN /\ \A v \in VIN : DOMAIN row[v] = {"charging", "amps"}
    /\ since \in [VIN -> [amps : Nat, start : Nat]]
    /\ DOMAIN job = VIN /\ \A v \in VIN : CallShape(job[v])
    /\ DOMAIN readings \subseteq {1, 2} /\ (readings # <<>> => 1 \in DOMAIN readings)
    /\ \A r \in DOMAIN readings :
          /\ DOMAIN readings[r] = {"age", "watts", "load"}
          /\ readings[r].age \in Nat

\* Row and car agree but for a current whose change has just been reported failed.
RowAgrees ==
    \A v \in VIN : /\ row[v].charging = car[v].charging
                   /\ row[v].amps # car[v].amps => since[v].amps = 0

\* What a car that charges drew at a reading taken since the latest event.
LoadsKnown ==
    \A v \in VIN : \A r \in DOMAIN readings :
        /\ car[v].charging
        /\ readings[r].age < Window
        /\ readings[r].age < since[v].amps /\ readings[r].age < since[v].start
        => readings[r].load[v] = Watts(car[v].amps)

Inv == ShapeOK /\ RowAgrees /\ LoadsKnown

LEMMA TypesGiveShape == TypeInv => ShapeOK
<1> SUFFICES ASSUME TypeInv PROVE ShapeOK
  OBVIOUS
<1>1. \A v \in VIN : CallShape(job[v])
  BY DEF TypeInv, TypeOK, Calls, CallShape
<1>2. since \in [VIN -> [amps : Nat, start : Nat]]
  <2>1. since \in [VIN -> [amps : 0..Cap, start : 0..Cap]] /\ 0..Cap \subseteq Nat
    BY Constants DEF TypeInv, TypeOK
  <2> QED BY <2>1
<1>3. ASSUME NEW r \in DOMAIN readings
      PROVE  DOMAIN readings[r] = {"age", "watts", "load"} /\ readings[r].age \in Nat
  BY ReadingsAre, Constants DEF TypeInv, Reading
<1>4. /\ DOMAIN car = VIN /\ \A v \in VIN : DOMAIN car[v] = {"charging", "amps"}
      /\ DOMAIN row = VIN /\ \A v \in VIN : DOMAIN row[v] = {"charging", "amps"}
      /\ DOMAIN job = VIN
  BY DEF TypeInv, TypeOK, Charge
<1> QED BY <1>1, <1>2, <1>3, <1>4, ReadingsAre DEF TypeInv, ShapeOK

\* An event of v leaves what is known of the others.
LEMMA EventKeepsLoads ==
    ASSUME Inv, ShapeOK', NEW v \in VIN, readings' = readings,
           since'[v].amps = 0 \/ since'[v].start = 0,
           \A w \in VIN \ {v} : car'[w] = car[w] /\ since'[w] = since[w]
    PROVE  LoadsKnown'
<1> SUFFICES ASSUME NEW w \in VIN, NEW r \in DOMAIN readings, car'[w].charging,
                    readings[r].age < Window,
                    readings[r].age < since'[w].amps, readings[r].age < since'[w].start
             PROVE  readings[r].load[w] = Watts(car'[w].amps)
  BY DEF LoadsKnown, Watts
<1>1. readings[r].age \in Nat
  BY DEF Inv, ShapeOK
<1>2. w # v
  BY <1>1
<1> QED BY <1>2 DEF Inv, LoadsKnown

-----------------------------------------------------------------------------
LEMMA InitInv == Init => Inv
BY InitType, TypesGiveShape DEF Init, Inv, RowAgrees, LoadsKnown

LEMMA TickInv == ASSUME Inv, ShapeOK', NEW v \in VIN, Tick(v) PROVE Inv'
<1>1. UNCHANGED <<car, row, since, readings>>
  BY DEF Tick
<1> QED BY <1>1 DEF Inv, RowAgrees, LoadsKnown

LEMMA TelemetryInv == ASSUME Inv, ShapeOK', NEW v \in VIN, Telemetry(v) PROVE Inv'
BY DEF Inv, ShapeOK, RowAgrees, LoadsKnown, Telemetry

\* What an answer may do to a vehicle: nothing, end its charging, or be an event.
LEMMA AnswerInv == ASSUME Inv, ShapeOK', NEW v \in VIN, Answer(v) PROVE Inv'
<1>1. UNCHANGED readings
  BY DEF Answer
<1>2. CASE job[v].do = "start" /\ Started(v, job[v].amps)
  <2>1. /\ since' = [since EXCEPT ![v] = [start |-> 0, amps |-> since'[v].amps]]
        /\ since'[v].amps \in {0, since[v].amps} /\ since'[v].start = 0
    BY <1>2 DEF Inv, ShapeOK, Started, StartEvents
  <2>2. /\ \A w \in VIN \ {v} : car'[w] = car[w] /\ row'[w] = row[w] /\ since'[w] = since[w]
        /\ car'[v].charging = TRUE /\ row'[v].charging = TRUE
    BY <1>2, <2>1 DEF Inv, ShapeOK, Started
  <2>3. row'[v].amps # car'[v].amps => since'[v].amps = 0
    BY <1>2 DEF Inv, ShapeOK, Started, StartEvents, AmpsSet, RowAgrees
  <2>4. RowAgrees'
    BY <2>2, <2>3 DEF Inv, RowAgrees
  <2>5. LoadsKnown'
    BY <1>1, <2>1, <2>2, EventKeepsLoads
  <2> QED BY <2>4, <2>5 DEF Inv
<1>3. CASE job[v].do = "adjust" /\ Adjusted(v, job[v].amps)
  <2>1. /\ since'[v].amps = 0
        /\ \A w \in VIN \ {v} : car'[w] = car[w] /\ row'[w] = row[w] /\ since'[w] = since[w]
        /\ car'[v].charging = car[v].charging /\ row'[v].charging = row[v].charging
    BY <1>3 DEF Inv, ShapeOK, Adjusted
  <2>2. RowAgrees'
    BY <2>1 DEF Inv, RowAgrees
  <2>3. LoadsKnown'
    BY <1>1, <2>1, EventKeepsLoads
  <2> QED BY <2>2, <2>3 DEF Inv
<1>4. CASE job[v].do = "stop" /\ Stopped(v)
  <2>1. /\ \A w \in VIN \ {v} : car'[w] = car[w] /\ row'[w] = row[w]
        /\ car'[v].charging = FALSE /\ row'[v].charging = FALSE
        /\ car'[v].amps = car[v].amps /\ row'[v].amps = row[v].amps /\ since' = since
    BY <1>4 DEF Inv, ShapeOK, Stopped
  <2>2. RowAgrees' /\ LoadsKnown'
    BY <1>1, <2>1 DEF Inv, RowAgrees, LoadsKnown
  <2> QED BY <2>2 DEF Inv
<1>5. CASE UNCHANGED <<car, row, since>>
  BY <1>1, <1>5 DEF Inv, RowAgrees, LoadsKnown
<1>6. CASE AmpsFailed(v, job[v].amps)
  <2>1. /\ since' = [since EXCEPT ![v].amps = 0] /\ row' = row
        /\ car' = car \/ car' = [car EXCEPT ![v].amps = job[v].amps]
    BY <1>6 DEF AmpsFailed
  <2>2. /\ since'[v].amps = 0
        /\ \A w \in VIN \ {v} : car'[w] = car[w] /\ since'[w] = since[w]
        /\ car'[v].charging = car[v].charging
    BY <2>1 DEF Inv, ShapeOK
  <2>3. RowAgrees'
    BY <2>1, <2>2 DEF Inv, RowAgrees
  <2>4. LoadsKnown'
    BY <1>1, <2>2, EventKeepsLoads
  <2> QED BY <2>3, <2>4 DEF Inv
<1>7. CASE StartRefused(v, job[v].amps)
  <2>1. /\ since' = [since EXCEPT ![v] = [start |-> 0, amps |-> since'[v].amps]]
        /\ since'[v].amps \in {0, since[v].amps} /\ since'[v].start = 0
    BY <1>7 DEF Inv, ShapeOK, StartRefused, StartEvents
  <2>2. /\ \A w \in VIN \ {v} : car'[w] = car[w] /\ row'[w] = row[w] /\ since'[w] = since[w]
        /\ car'[v].charging = car[v].charging /\ row'[v].charging = row[v].charging
    BY <1>7, <2>1 DEF Inv, ShapeOK, StartRefused
  <2>3. row'[v].amps # car'[v].amps => since'[v].amps = 0
    BY <1>7 DEF Inv, ShapeOK, StartRefused, StartEvents, AmpsSet, RowAgrees
  <2>4. RowAgrees'
    BY <2>2, <2>3 DEF Inv, RowAgrees
  <2>5. LoadsKnown'
    BY <1>1, <2>1, <2>2, EventKeepsLoads
  <2> QED BY <2>4, <2>5 DEF Inv
<1> QED BY <1>2, <1>3, <1>4, <1>5, <1>6, <1>7 DEF Answer, Failed

LEMMA ReportInv == ASSUME Inv, ShapeOK', Report PROVE Inv'
<1>1. /\ readings' = IF readings = <<>> THEN <<NewReading>> ELSE <<NewReading, readings[1]>>
      /\ UNCHANGED <<car, row, since, job>>
  BY DEF Report
<1>2. ASSUME NEW r \in DOMAIN readings'
      PROVE  \/ readings'[r] = NewReading
             \/ readings # <<>> /\ readings'[r] = readings[1]
  BY <1>1
<1>3. ASSUME NEW v \in VIN, car[v].charging
      PROVE  NewReading.load[v] = Watts(car[v].amps)
  BY <1>3 DEF NewReading, Load
<1>4. LoadsKnown'
  <2> SUFFICES ASSUME NEW v \in VIN, NEW r \in DOMAIN readings', car[v].charging,
                      readings'[r].age < Window,
                      readings'[r].age < since[v].amps, readings'[r].age < since[v].start
               PROVE  readings'[r].load[v] = Watts(car[v].amps)
    BY <1>1 DEF LoadsKnown, Watts
  <2>1. CASE readings'[r] = NewReading
    BY <1>3, <2>1
  <2>2. CASE readings # <<>> /\ readings'[r] = readings[1]
    <3>1. 1 \in DOMAIN readings
      BY <2>2 DEF Inv, ShapeOK
    <3> QED BY <2>2, <3>1 DEF Inv, LoadsKnown
  <2> QED BY <1>2, <2>1, <2>2
<1> QED BY <1>1, <1>4 DEF Inv, RowAgrees

LEMMA MinuteInv == ASSUME Inv, ShapeOK', Minute PROVE Inv'
<1>1. /\ UNCHANGED <<car, row>>
      /\ \A v \in VIN : row[v].amps = car[v].amps
      /\ readings' = [r \in DOMAIN readings |->
                        [readings[r] EXCEPT !.age = Min({@ + 1, Window})]]
      /\ since' = [v \in VIN |-> [amps |-> Older(since[v].amps), start |-> Older(since[v].start)]]
  BY DEF Minute
<1>2. Cap \in Nat /\ Window \in Nat /\ Cap > Window
  BY SolarAssumption
<1>3. ASSUME NEW n \in Nat
      PROVE  /\ Min({n + 1, Window}) \in Nat
             /\ Min({n + 1, Window}) < Window => Min({n + 1, Window}) = n + 1
  <2>1. n + 1 \in Int /\ Window \in Int
    BY <1>2
  <2>2. Min({n + 1, Window}) \in {n + 1, Window}
    BY <2>1, MinPair
  <2> QED BY <1>2, <2>2
<1>4. ASSUME NEW r \in DOMAIN readings
      PROVE  /\ DOMAIN (readings'[r]) = {"age", "watts", "load"}
             /\ readings'[r].age \in Nat
             /\ readings'[r].age < Window => readings'[r].age = readings[r].age + 1
             /\ readings'[r].load = readings[r].load
  <2>1. /\ DOMAIN readings[r] = {"age", "watts", "load"}
        /\ readings[r].age \in Nat
    BY DEF Inv, ShapeOK
  <2>2. readings'[r] = [readings[r] EXCEPT !.age = Min({readings[r].age + 1, Window})]
    BY <1>1
  <2>3. /\ readings'[r].age = Min({readings[r].age + 1, Window})
        /\ readings'[r].load = readings[r].load
        /\ DOMAIN (readings'[r]) = {"age", "watts", "load"}
    BY <2>1, <2>2
  <2> QED BY <1>3, <2>1, <2>3
<1>5. RowAgrees'
  BY <1>1 DEF Inv, RowAgrees
<1>6. LoadsKnown'
  <2> SUFFICES ASSUME NEW v \in VIN, NEW r \in DOMAIN readings,
                      car[v].charging, readings'[r].age < Window,
                      readings'[r].age < since'[v].amps, readings'[r].age < since'[v].start
               PROVE  readings'[r].load[v] = Watts(car[v].amps)
    <3>1. car' = car /\ DOMAIN readings' = DOMAIN readings
      BY <1>1
    <3>2. \A n : Watts(n)' = Watts(n)
      BY DEF Watts
    <3> QED BY <3>1, <3>2 DEF LoadsKnown
  <2>1. /\ readings'[r].age = readings[r].age + 1 /\ readings'[r].load = readings[r].load
        /\ readings[r].age \in Nat
    BY <1>4 DEF Inv, ShapeOK
  <2>2. /\ since[v].amps \in Nat /\ since[v].start \in Nat
        /\ since'[v].amps = Older(since[v].amps) /\ since'[v].start = Older(since[v].start)
    BY <1>1 DEF Inv, ShapeOK
  <2>3. ASSUME NEW n \in Nat, readings[r].age + 1 < Older(n)
        PROVE  readings[r].age < n
    <3>1. n + 1 \in Int /\ Cap \in Int
      BY <1>2
    <3>2. Min({n + 1, Cap}) \in Int /\ Min({n + 1, Cap}) <= n + 1
      BY <3>1, MinPair
    <3> QED BY <2>1, <2>3, <3>2 DEF Older
  <2>4. readings[r].age < Window /\ readings[r].age < since[v].amps /\ readings[r].age < since[v].start
    BY <1>2, <2>1, <2>2, <2>3
  <2> QED BY <2>1, <2>4 DEF Inv, LoadsKnown
<1> QED BY <1>5, <1>6 DEF Inv

LEMMA NextInv == Inv /\ ShapeOK' /\ [Next]_vars => Inv'
<1> SUFFICES ASSUME Inv, ShapeOK', [Next]_vars PROVE Inv'
  OBVIOUS
<1>1. ASSUME NEW v \in VIN, Vehicle(v) PROVE Inv'
  BY <1>1, TickInv, AnswerInv, TelemetryInv DEF Vehicle
<1>2. CASE SunChanges \/ MeterChanges \/ UNCHANGED vars
  <2>1. UNCHANGED <<car, row, since, job, readings>>
    BY <1>2 DEF SunChanges, MeterChanges, vars
  <2> QED BY <2>1 DEF Inv, ShapeOK, RowAgrees, LoadsKnown
<1> QED BY <1>1, <1>2, ReportInv, MinuteInv DEF Next
LEMMA SolarInv == Spec => [](TypeInv /\ Inv)
BY InitType, NextType, TypesGiveShape, InitInv, NextInv, PTL DEF Spec
-----------------------------------------------------------------------------
\* The step property that EstimateIsTrue is about, with a bounded window.
EstimateStep ==
    \A v \in VIN : Decides(v, "adjust") =>
       \A r \in Fresh : readings[r].load[v] = Watts(row[v].amps)

LEMMA DecidesOnlyInTick ==
    ASSUME Inv, [Next]_vars, NEW v \in VIN, NEW do, Decides(v, do)
    PROVE  Tick(v) /\ job'[v] = Decision(v) /\ Decision(v) # None /\ Decision(v).do = do
<1>1. job[v] = None /\ job'[v] # None /\ job'[v].do = do
  BY DEF Decides
<1>2. ASSUME NEW w \in VIN, Tick(w)
      PROVE  Tick(v) /\ job'[v] = Decision(v)
  BY <1>1, <1>2 DEF Tick, Inv, ShapeOK
<1>3. ASSUME NEW w \in VIN, Answer(w) PROVE FALSE
  BY <1>1, <1>3 DEF Answer, Inv, ShapeOK
<1>4. CASE \E w \in VIN : Telemetry(w)
  BY <1>1, <1>4 DEF Telemetry
<1>5. CASE Report \/ SunChanges \/ MeterChanges \/ UNCHANGED vars
  BY <1>1, <1>5 DEF Report, SunChanges, MeterChanges, vars
<1>6. CASE Minute
  BY <1>1, <1>6 DEF Minute
<1> QED BY <1>1, <1>2, <1>3, <1>4, <1>5, <1>6 DEF Next, Vehicle

LEMMA LoadsOfFresh ==
    ASSUME Window <= AdjustEvery, Inv, NEW v \in VIN, row[v].charging, CanAdjust(v)
    PROVE  /\ since[v].amps >= AdjustEvery /\ since[v].start >= AdjustEvery
           /\ \A r \in Fresh : readings[r].load[v] = Watts(row[v].amps)
<1>1. Window \in Nat /\ AdjustEvery \in Nat
  BY SolarAssumption
<1>2. since[v].amps \in Nat /\ since[v].start \in Nat
  BY DEF Inv, ShapeOK
<1>3. readings[1].age \in Nat
  BY DEF CanAdjust, Inv, ShapeOK
<1>4. since[v].amps >= AdjustEvery /\ since[v].start >= AdjustEvery
  <2>1. since[v].amps \in Int /\ since[v].start \in Int
    BY <1>2
  <2>2. /\ Min({since[v].amps, since[v].start}) \in Int
        /\ Min({since[v].amps, since[v].start}) <= since[v].amps
        /\ Min({since[v].amps, since[v].start}) <= since[v].start
    BY <2>1, MinPair
  <2>3. Min({since[v].amps, since[v].start}) - readings[1].age >= AdjustEvery
    BY DEF CanAdjust
  <2> QED BY <1>1, <1>2, <1>3, <2>2, <2>3
<1>5. ASSUME NEW r \in Fresh PROVE readings[r].load[v] = Watts(row[v].amps)
  <2>1. r \in DOMAIN readings /\ readings[r].age \in Nat /\ readings[r].age < Window
    BY DEF Fresh, Inv, ShapeOK
  <2>2. row[v].amps = car[v].amps /\ car[v].charging
    BY <1>1, <1>4, <2>1 DEF Inv, RowAgrees
  <2> QED BY <1>1, <1>2, <1>4, <2>1, <2>2 DEF Inv, LoadsKnown
<1> QED BY <1>4, <1>5

LEMMA EstimateHolds ==
    ASSUME Window <= AdjustEvery, TypeInv, Inv, [Next]_vars
    PROVE  EstimateStep
<1> SUFFICES ASSUME NEW v \in VIN, Decides(v, "adjust")
             PROVE  \A r \in Fresh : readings[r].load[v] = Watts(row[v].amps)
  BY DEF EstimateStep
<1>1. Decision(v) # None /\ Decision(v).do = "adjust"
  BY DecidesOnlyInTick
<1>2. row[v].charging /\ CanAdjust(v)
  BY <1>1, DecisionType DEF TypeInv
<1> QED BY <1>2, LoadsOfFresh

\* The current is adjusted on true estimates only, if readings do not count for
\* longer than the current has to stay (both are five minutes in the code:
\* canAdjustSolarAmps, getActualSurplus).
THEOREM AdjustsOnTrueEstimates ==
    ASSUME Window <= AdjustEvery
    PROVE  Spec => EstimateIsTrue
<1>1. TypeInv /\ Inv /\ [Next]_vars => [EstimateStep]_vars
  BY EstimateHolds
<1>2. Spec => [][EstimateStep]_vars
  BY SolarInv, <1>1, PTL DEF Spec
<1> QED BY <1>2 DEF EstimateIsTrue, EstimateStep
-----------------------------------------------------------------------------
\* The step property that StopHasReason is about.
StopStep ==
    \A v \in VIN : Decides(v, "stop") =>
       \A r \in Fresh : readings[r].age < Min({since[v].amps, since[v].start}) => TooLow(r, v)

LEMMA StopHolds ==
    ASSUME TypeInv, Inv, [Next]_vars
    PROVE  StopStep
<1> SUFFICES ASSUME NEW v \in VIN, Decides(v, "stop"), NEW r \in Fresh,
                    readings[r].age < Min({since[v].amps, since[v].start})
             PROVE  TooLow(r, v)
  BY DEF StopStep
<1>1. row[v].charging /\ CheckStartOnSolar(v) = 0
  <2>1. Decision(v) # None /\ Decision(v).do = "stop"
    BY DecidesOnlyInTick
  <2> QED BY <2>1, DecisionType DEF TypeInv
<1>2. /\ r \in DOMAIN readings /\ readings[r].age < Window /\ readings[r].age \in Nat
      /\ readings[r].watts \in Int
  BY ReadingsAre, Constants DEF Fresh, TypeInv
<1>3. readings[r].age < since[v].amps /\ readings[r].age < since[v].start
  <2>1. since[v].amps \in Int /\ since[v].start \in Int
    BY VehicleIs, Constants DEF TypeInv
  <2>2. /\ Min({since[v].amps, since[v].start}) \in Int
        /\ Min({since[v].amps, since[v].start}) <= since[v].amps
        /\ Min({since[v].amps, since[v].start}) <= since[v].start
    BY <2>1, MinPair
  <2> QED BY <1>2, <2>1, <2>2
<1>4. car[v].charging /\ row[v].amps = car[v].amps
  BY <1>1, <1>2, <1>3 DEF Inv, RowAgrees
<1>5. readings[r].load[v] = Watts(row[v].amps)
  BY <1>2, <1>3, <1>4 DEF Inv, LoadsKnown
<1>6. /\ SurplusToGoOn(v) \in Int /\ Watts(row[v].amps) \in Int
      /\ SurplusToGoOn(v) >= readings[r].watts + Watts(row[v].amps)
  BY SurplusToGoOnIs, VehicleIs, WattsType, Constants DEF TypeInv
<1>7. SurplusToGoOn(v) - Buffer < MinSurplus \/ SurplusToGoOn(v) - Buffer < Watts(1)
  BY <1>1, CheckStartOnSolarIs DEF TypeInv
<1>8. Watts(1) \in Int
  BY WattsType
<1> QED BY <1>2, <1>5, <1>6, <1>7, <1>8, Constants DEF TooLow

\* Charging is not stopped while a reading taken since the latest change of the
\* current has enough to spare, whatever the settings, other vehicles, meter, sun
\* and failures do (getActualSurplus adds what the vehicle draws, which is what it
\* drew at that reading).
THEOREM StopsForAReason == Spec => StopHasReason
<1>1. TypeInv /\ Inv /\ [Next]_vars => [StopStep]_vars
  BY StopHolds
<1>2. Spec => [][StopStep]_vars
  BY SolarInv, <1>1, PTL DEF Spec
<1> QED BY <1>2 DEF StopHasReason, StopStep
-----------------------------------------------------------------------------
(***************************************************************************)
(* How long a car on its own takes too much, while no call has failed.     *)
(***************************************************************************)
Unfailed == left.faults = Bounds.faults

Over(v) == car[v].charging /\ Watts(car[v].amps) > sun

\* What a vehicle that does not charge does not start on.
Low(r) == readings[r].watts - Buffer < MinSurplus \/ readings[r].watts - Buffer < Watts(1)

\* The minutes that a call has been under way.
Waited(v) == IF job[v].late THEN 1 ELSE 0

\* Readings from after the change of the sun tell what there is.
ReadingsTell ==
    \A v \in VIN : \A r \in Fresh :
        /\ readings[r].load[v] >= 0
        /\ readings[r].age < excess => readings[r].watts = sun - readings[r].load[v]

NewestFirst == \A r \in DOMAIN readings : readings[1].age <= readings[r].age

\* A car that takes too much has not been started, or given its current, for long
\* when the excess began.
EventsNearExcess ==
    \A v \in VIN : Over(v) => /\ excess <= since[v].start + 1
                             /\ excess <= since[v].amps + Window

\* What a call does to the excess when it gets to the car.
StartIsSafe ==
    \A v \in VIN : job[v].do = "start" =>
        /\ ~car[v].charging
        /\ excess >= 2 => Watts(AmpsSet(v, job[v].amps, car)) <= sun

AdjustIsSafe ==
    \A v \in VIN : job[v].do = "adjust" =>
        /\ since[v].start >= Window
        /\ Watts(job[v].amps) > sun => excess < Window + Waited(v)

\* After a stop, only readings taken since the decision let the car start again.
StopIsSafe ==
    /\ \A v \in VIN : job[v].do = "stop" =>
          car[v].charging /\ \A r \in Fresh : readings[r].age > Waited(v) => Low(r)
    /\ \A v \in VIN : ~car[v].charging /\ excess >= 2 =>
          \A r \in Fresh : readings[r].age >= 2 => Low(r)

\* What is left of MaxExcess: a minute for the tick, and one for the call.
DoneInTime ==
    \A v \in VIN : Over(v) =>
        excess <= MaxExcess - (IF job[v] = None THEN IF v \in due THEN 1 ELSE 2
                               ELSE 1 - Waited(v))

ExcessInv ==
    /\ car = row
    /\ ReadingsTell /\ NewestFirst
    /\ EventsNearExcess
    /\ StartIsSafe /\ AdjustIsSafe /\ StopIsSafe
    /\ DoneInTime
    /\ excess <= MaxExcess

UnfailedInv == left.faults <= Bounds.faults /\ (Unfailed => ExcessInv)

\* The case that the bound is for: readings do not count for longer than the
\* current has to stay (both are five minutes in the code).
OneCar == (\E v : VIN = {v}) /\ 0 < Window /\ Window <= AdjustEvery

LEMMA MaxExcessIs ==
    /\ MaxExcess \in Nat
    /\ 2 * Window + AdjustEvery <= MaxExcess /\ MinChargeTime + 3 <= MaxExcess
<1> DEFINE m == 2 * Window + AdjustEvery
           n == MinChargeTime + 3
<1>1. m \in Nat /\ n \in Nat
  BY Constants
<1>2. {m, n} \in SUBSET {m, n, n} /\ {m, n} # {} /\ MaxExcess = Max({m, n})
  BY DEF MaxExcess
<1> SUFFICES MaxExcess \in Nat /\ m <= MaxExcess /\ n <= MaxExcess
  OBVIOUS
<1> HIDE DEF m, n
<1>3. Max({m, n}) \in {m, n} /\ \A y \in {m, n} : Max({m, n}) >= y
  <2>1. m \in Int /\ n \in Int
    BY <1>1
  <2> QED BY <1>2, <2>1, MaxOfFew, Zenon
<1> QED BY <1>1, <1>2, <1>3

LEMMA LoadOfOne == ASSUME OneCar, TypeOK, NEW v \in VIN PROVE TotalLoad = Load(v)
<1> DEFINE w == [u \in VIN |-> Load(u)]
<1>1. VIN = {v} /\ VIN \ {v} = {} /\ Picked(VIN) = v
  BY DEF OneCar, Picked
<1>2. PICK f : SumsUp(f, w, VIN) /\ TotalLoad = f[VIN]
  BY TotalLoadIsSum
<1>3. f[VIN] = w[v] + f[{}] /\ f[{}] = 0
  <2> HIDE DEF w
  <2>1. VIN \in SUBSET VIN /\ {} \in SUBSET VIN /\ VIN # {}
    OBVIOUS
  <2>2. f[VIN] = IF VIN = {} THEN 0 ELSE w[Picked(VIN)] + f[VIN \ {Picked(VIN)}]
    BY <1>2, <2>1 DEF SumsUp
  <2>3. f[{}] = 0
    <3>1. f[{}] = IF {} = {} THEN 0 ELSE w[Picked({})] + f[{} \ {Picked({})}]
      BY <1>2, <2>1, SumStep, Zenon
    <3> QED BY <3>1
  <2> QED BY <1>1, <2>1, <2>2, <2>3
<1> QED BY <1>2, <1>3, LoadType

LEMMA DrawIs ==
    ASSUME TypeOK, NEW v \in VIN
    PROVE  /\ Watts(car[v].amps) \in Nat /\ Watts(car[v].amps) > 0
           /\ Watts(row[v].amps) \in Nat /\ Watts(row[v].amps) > 0
           /\ sun \in Int /\ excess \in Nat
<1>1. car[v].amps \in Nat /\ car[v].amps > 0 /\ row[v].amps \in Nat /\ row[v].amps > 0
  BY VehicleIs, Constants
<1>2. sun \in Int /\ excess \in Nat
  BY Constants DEF TypeOK
<1> QED BY <1>1, <1>2, WattsType

LEMMA OverIs ==
    ASSUME OneCar, TypeOK, NEW v \in VIN
    PROVE  Over(v) <=> TotalLoad > 0 /\ TotalLoad > sun
<1>1. Watts(car[v].amps) \in Nat /\ Watts(car[v].amps) > 0 /\ sun \in Int
  BY DrawIs
<1>2. TotalLoad = IF car[v].charging THEN Watts(car[v].amps) ELSE 0
  BY LoadOfOne DEF Load
<1>3. car[v].charging \in BOOLEAN
  BY VehicleIs
<1> QED BY <1>1, <1>2, <1>3 DEF Over

\* What the decisions of a tick rest on.
LEMMA StartDecision ==
    ASSUME OneCar, TypeInv, ExcessInv, NEW v \in VIN,
           Decision(v) # None, Decision(v).do = "start"
    PROVE  /\ ~car[v].charging
           /\ excess >= 2 => Watts(AmpsSet(v, Decision(v).amps, car)) <= sun
<1> DEFINE amps == CheckStartOnSolar(v)
<1>1. /\ ~row[v].charging /\ amps \in 1..MaxAmps
      /\ Decision(v).amps = amps \/ (Decision(v).amps = 0 /\ row[v].amps = amps)
  BY DecisionType, CheckStartOnSolarIs DEF TypeInv
<1>2. /\ SurplusToStart \in Int /\ SurplusToStart - Buffer > 0
      /\ SurplusToStart - Buffer >= MinSurplus /\ Watts(amps) <= SurplusToStart - Buffer
  BY <1>1, SurplusToStartIs, CheckStartOnSolarIs DEF TypeInv
<1>3. PICK r \in Fresh : SurplusToStart = readings[r].watts
  BY <1>2, SurplusToStartIs, Constants DEF TypeInv
<1>4. /\ readings[r].age \in Nat /\ readings[r].watts \in Int /\ readings[r].load[v] \in Int
      /\ excess \in Nat /\ sun \in Int
  BY FreshAre, DrawIs DEF TypeInv
<1>5. Watts(amps) \in Int /\ Watts(1) \in Int /\ Watts(1) <= Watts(amps)
  <2>1. amps \in Nat /\ 1 <= amps /\ NumPhases * 230 \in Nat
    BY <1>1, Constants
  <2>2. 1 * (NumPhases * 230) <= amps * (NumPhases * 230)
    <3> HIDE DEF amps
    <3> QED BY <2>1, TimesMonotone
  <2>3. Watts(1) = 1 * (NumPhases * 230) /\ Watts(amps) = amps * (NumPhases * 230)
    <3> HIDE DEF amps
    <3> QED BY <2>1, Constants DEF Watts
  <2> QED BY <2>1, <2>2, <2>3, WattsType
<1>6. ~Low(r)
  BY <1>2, <1>3, <1>4, <1>5, Constants DEF Low
<1>7. car[v].charging = row[v].charging /\ AmpsSet(v, Decision(v).amps, car) = amps
  BY <1>1 DEF ExcessInv, AmpsSet
<1>8. ASSUME excess >= 2 PROVE Watts(amps) <= sun
  <2>1. readings[r].age < 2
    BY <1>1, <1>4, <1>6, <1>7, <1>8 DEF ExcessInv, StopIsSafe
  <2>2. readings[r].watts = sun - readings[r].load[v] /\ readings[r].load[v] >= 0
    BY <1>4, <1>8, <2>1 DEF ExcessInv, ReadingsTell
  <2> QED BY <1>2, <1>3, <1>4, <1>5, <2>2, Constants
<1> QED BY <1>1, <1>7, <1>8

LEMMA AdjustDecision ==
    ASSUME OneCar, TypeInv, Inv, ExcessInv, NEW v \in VIN,
           Decision(v) # None, Decision(v).do = "adjust"
    PROVE  /\ since[v].start >= Window
           /\ Watts(Decision(v).amps) > sun => excess < Window
<1> DEFINE amps == CheckStartOnSolar(v)
<1>1. row[v].charging /\ CanAdjust(v) /\ amps \in 1..MaxAmps /\ Decision(v).amps = amps
  BY DecisionType, CheckStartOnSolarIs DEF TypeInv
<1>2. /\ since[v].start >= AdjustEvery /\ since[v].start \in Nat
      /\ \A r \in Fresh : readings[r].load[v] = Watts(row[v].amps)
  BY <1>1, LoadsOfFresh, VehicleIs, Constants DEF OneCar, TypeInv
<1>3. /\ SurplusToGoOn(v) \in Int /\ SurplusToGoOn(v) - Buffer > 0
      /\ Watts(amps) <= SurplusToGoOn(v) - Buffer
  BY <1>1, SurplusToGoOnIs, CheckStartOnSolarIs DEF TypeInv
<1>4. PICK r \in Fresh : SurplusToGoOn(v) = readings[r].watts + Watts(row[v].amps)
  BY <1>3, SurplusToGoOnIs, Constants DEF TypeInv
<1>5. /\ readings[r].age \in Nat /\ readings[r].watts \in Int /\ readings[r].age < Window
      /\ excess \in Nat /\ sun \in Int /\ Watts(row[v].amps) \in Int /\ Watts(amps) \in Int
  <2>1. Watts(amps) \in Int
    BY <1>1, WattsType
  <2> QED BY <2>1, FreshAre, DrawIs DEF TypeInv
<1>6. ASSUME excess >= Window PROVE Watts(amps) <= sun
  <2>1. readings[r].watts = sun - Watts(row[v].amps)
    BY <1>2, <1>5, <1>6, Constants DEF ExcessInv, ReadingsTell
  <2> QED BY <1>3, <1>4, <1>5, <2>1, Constants
<1> QED BY <1>1, <1>2, <1>5, <1>6, Constants DEF OneCar

LEMMA StopDecision ==
    ASSUME TypeInv, ExcessInv, NEW v \in VIN, Decision(v) # None, Decision(v).do = "stop"
    PROVE  car[v].charging /\ \A r \in Fresh : Low(r)
<1>1. row[v].charging /\ CheckStartOnSolar(v) = 0
  BY DecisionType DEF TypeInv
<1>2. /\ SurplusToGoOn(v) \in Int /\ Watts(1) \in Int
      /\ SurplusToGoOn(v) - Buffer < MinSurplus \/ SurplusToGoOn(v) - Buffer < Watts(1)
  BY <1>1, SurplusToGoOnIs, CheckStartOnSolarIs, WattsType DEF TypeInv
<1>3. ASSUME NEW r \in Fresh PROVE Low(r)
  <2>1. /\ SurplusToGoOn(v) >= readings[r].watts + Watts(row[v].amps)
        /\ Watts(row[v].amps) \in Nat /\ readings[r].watts \in Int
    BY SurplusToGoOnIs, DrawIs, FreshAre DEF TypeInv
  <2> QED BY <1>2, <2>1, Constants DEF Low
<1> QED BY <1>1, <1>3 DEF ExcessInv

\* A tick that finds nothing to do although the car takes too much comes soon after
\* an event, or within the minimum time.
LEMMA NoDecision ==
    ASSUME OneCar, TypeInv, Inv, ExcessInv, NEW v \in VIN, Decision(v) = None, Over(v)
    PROVE  excess <= MaxExcess - 2
<1> DEFINE amps == CheckStartOnSolar(v)
<1>1. row[v].charging /\ row[v].amps = car[v].amps /\ Watts(row[v].amps) > sun
  BY DEF Over, ExcessInv
<1>2. \/ amps = 0 /\ ~MinTimeReached(v)
      \/ amps > 0 /\ (amps = row[v].amps \/ ~CanAdjust(v))
  <2>1. /\ Call("adjust", amps) # None /\ Call("stop", 0) # None
        /\ amps \in 0..MaxAmps
    BY CheckStartOnSolarIs DEF Call, None, TypeInv
  <2> QED BY <1>1, <2>1, Constants DEF Decision
<1>3. /\ excess \in Nat /\ since[v].amps \in Nat /\ since[v].start \in Nat
      /\ excess <= since[v].start + 1 /\ excess <= since[v].amps + Window
  BY VehicleIs, Constants DEF TypeInv, TypeOK, ExcessInv, EventsNearExcess
<1>4. /\ MaxExcess \in Nat /\ Window \in Nat /\ AdjustEvery \in Nat /\ MinChargeTime \in Nat
      /\ 0 < Window /\ Window <= AdjustEvery
      /\ 2 * Window + AdjustEvery <= MaxExcess /\ MinChargeTime + 3 <= MaxExcess
  BY MaxExcessIs, Constants DEF OneCar
<1>5. CASE excess < Window
  BY <1>3, <1>4, <1>5
<1>6. CASE amps = 0 /\ ~MinTimeReached(v)
  BY <1>3, <1>4, <1>6 DEF MinTimeReached
<1>7. CASE amps > 0 /\ excess >= Window /\ (amps = row[v].amps \/ ~CanAdjust(v))
  <2>1. /\ SurplusToGoOn(v) \in Int /\ SurplusToGoOn(v) - Buffer > 0
        /\ Watts(amps) <= SurplusToGoOn(v) - Buffer
    BY <1>1, <1>7, SurplusToGoOnIs, CheckStartOnSolarIs DEF TypeInv
  <2>2. PICK r \in Fresh : SurplusToGoOn(v) = readings[r].watts + Watts(row[v].amps)
    BY <2>1, SurplusToGoOnIs, Constants DEF TypeInv
  <2>3. /\ r \in DOMAIN readings /\ readings[r].age \in Nat /\ readings[r].age < Window
        /\ readings[r].watts \in Int /\ readings[r].load[v] \in Int
        /\ readings # <<>> /\ readings[1].age \in Nat /\ readings[1].age <= readings[r].age
    BY FreshAre DEF TypeInv, ExcessInv, NewestFirst
  <2>4. readings[r].watts = sun - readings[r].load[v]
    BY <1>3, <1>4, <1>7, <2>3 DEF ExcessInv, ReadingsTell
  <2> DEFINE least == Min({since[v].amps, since[v].start})
  <2>5. least \in Nat /\ least \in {since[v].amps, since[v].start}
        /\ least <= since[v].amps /\ least <= since[v].start
    <3>1. since[v].amps \in Int /\ since[v].start \in Int
      BY <1>3
    <3> QED BY <1>3, <3>1, MinPair
  <2>6. CASE amps = row[v].amps
    <3>1. readings[r].load[v] # Watts(car[v].amps)
      <4>1. sun \in Int /\ Watts(row[v].amps) \in Int /\ Buffer \in Nat
        BY DrawIs, Constants DEF TypeInv
      <4> QED BY <1>1, <2>1, <2>2, <2>3, <2>4, <2>6, <4>1
    <3>2. ~(readings[r].age < since[v].amps /\ readings[r].age < since[v].start)
      BY <2>3, <3>1 DEF Inv, LoadsKnown, Over
    <3> QED BY <1>3, <1>4, <2>3, <3>2
  <2>7. CASE ~CanAdjust(v)
    <3>1. least - readings[1].age < AdjustEvery
      BY <1>4, <2>3, <2>5, <2>7 DEF CanAdjust
    <3> HIDE DEF least
    <3>2. excess <= least + Window
      BY <1>3, <1>4, <2>5
    <3> QED BY <1>3, <1>4, <2>3, <2>5, <3>1, <3>2
  <2> QED BY <1>7, <2>6, <2>7
<1> QED BY <1>2, <1>3, <1>4, <1>5, <1>6, <1>7
-----------------------------------------------------------------------------
LEMMA NoJob == None.do = "nothing"
BY DEF None

LEMMA WaitedIs ==
    ASSUME TypeOK, NEW v \in VIN, job[v] # None
    PROVE  Waited(v) \in {0, 1} /\ (Waited(v) = 1 <=> job[v].late)
BY VehicleIs DEF Waited

LEMMA InitExcess == Init => UnfailedInv
<1> SUFFICES ASSUME Init PROVE UnfailedInv
  OBVIOUS
<1>1. /\ car = row /\ readings = <<>> /\ excess = 0 /\ left = Bounds
      /\ \A v \in VIN : ~car[v].charging /\ job[v] = None
  BY DEF Init
<1>2. Fresh = {} /\ DOMAIN readings = {} /\ left.faults \in Nat
  BY <1>1, Constants DEF Fresh
<1>3. ReadingsTell /\ NewestFirst /\ EventsNearExcess /\ StopIsSafe /\ DoneInTime
  BY <1>1, <1>2, NoJob DEF ReadingsTell, NewestFirst, EventsNearExcess, StopIsSafe, DoneInTime, Over
<1>4. StartIsSafe /\ AdjustIsSafe
  BY <1>1, NoJob DEF StartIsSafe, AdjustIsSafe
<1> QED BY <1>1, <1>2, <1>3, <1>4, MaxExcessIs DEF UnfailedInv, ExcessInv

LEMMA TickExcess ==
    ASSUME OneCar, TypeInv, TypeInv', Inv, ExcessInv, NEW v \in VIN, Tick(v)
    PROVE  ExcessInv'
<1>1. /\ UNCHANGED <<sun, meter, car, readings, row, since, excess, left>>
      /\ due' = due \ {v} /\ v \in due
      /\ job' = IF job[v] = None THEN [job EXCEPT ![v] = Decision(v)] ELSE job
  BY DEF Tick
<1>2. Fresh' = Fresh /\ MaxExcess \in Nat /\ VIN = {v} /\ excess \in Nat /\ job \in [VIN -> Calls \cup {None}]
  BY <1>1, MaxExcessIs DEF Fresh, OneCar, TypeInv, TypeOK
<1>3. car' = row' /\ ReadingsTell' /\ NewestFirst' /\ EventsNearExcess' /\ excess' <= MaxExcess
  BY <1>1, <1>2 DEF ExcessInv, ReadingsTell, NewestFirst, EventsNearExcess, Over
<1>4. CASE job[v] # None
  <2>1. job' = job
    BY <1>1, <1>4
  <2>2. StartIsSafe' /\ AdjustIsSafe'
    BY <1>1, <2>1 DEF ExcessInv, StartIsSafe, AdjustIsSafe, AmpsSet, Waited
  <2>3. StopIsSafe'
    BY <1>1, <1>2, <2>1 DEF ExcessInv, StopIsSafe, Low, Waited
  <2>4. DoneInTime'
    BY <1>1, <1>2, <1>4, <2>1 DEF ExcessInv, DoneInTime, Over, Waited
  <2> QED BY <1>3, <2>2, <2>3, <2>4 DEF ExcessInv
<1>5. CASE job[v] = None /\ Decision(v) = None
  <2>1. job' = job
    BY <1>1, <1>2, <1>5
  <2>2. StartIsSafe' /\ AdjustIsSafe'
    BY <1>1, <2>1 DEF ExcessInv, StartIsSafe, AdjustIsSafe, AmpsSet, Waited
  <2>3. StopIsSafe'
    BY <1>1, <1>2, <2>1 DEF ExcessInv, StopIsSafe, Low, Waited
  <2>4. DoneInTime'
    <3>1. Over(v) => excess <= MaxExcess - 2
      BY <1>5, NoDecision
    <3> QED BY <1>1, <1>2, <1>5, <2>1, <3>1 DEF DoneInTime, Over
  <2> QED BY <1>3, <2>2, <2>3, <2>4 DEF ExcessInv
<1>6. CASE job[v] = None /\ Decision(v) # None
  <2>1. job'[v] = Decision(v) /\ ~Decision(v).late /\ Waited(v)' = 0
    BY <1>1, <1>2, <1>6, DecisionType DEF Waited, TypeInv
  <2>2. StartIsSafe'
    BY <1>1, <1>2, <1>6, <2>1, StartDecision DEF StartIsSafe, AmpsSet
  <2>3. AdjustIsSafe'
    BY <1>1, <1>2, <1>6, <2>1, AdjustDecision, Constants DEF AdjustIsSafe
  <2>4. StopIsSafe'
    <3>1. \A r \in Fresh : Low(r)' = Low(r)
      BY <1>1 DEF Low
    <3> QED BY <1>1, <1>2, <1>6, <2>1, <3>1, StopDecision DEF ExcessInv, StopIsSafe
  <2>5. DoneInTime'
    BY <1>1, <1>2, <1>6, <2>1 DEF ExcessInv, DoneInTime, Over
  <2> QED BY <1>3, <2>2, <2>3, <2>4, <2>5 DEF ExcessInv
<1> QED BY <1>4, <1>5, <1>6

\* Calls that succeed.
Succeeded(v) ==
    \/ job[v].do = "start" /\ Started(v, job[v].amps)
    \/ job[v].do = "adjust" /\ Adjusted(v, job[v].amps)
    \/ job[v].do = "stop" /\ Stopped(v)

LEMMA AnswerExcess ==
    ASSUME OneCar, TypeInv, TypeInv', ExcessInv, NEW v \in VIN, Answer(v), Succeeded(v)
    PROVE  ExcessInv'
<1>1. /\ UNCHANGED <<sun, meter, readings, due, excess>>
      /\ job[v] # None /\ job' = [job EXCEPT ![v] = None]
  BY DEF Answer
<1>2. /\ VIN = {v} /\ Fresh' = Fresh /\ excess \in Nat /\ sun \in Int
      /\ job'[v] = None
      /\ car[v].charging = row[v].charging /\ car[v].amps = row[v].amps
      /\ since[v].amps \in Nat /\ since[v].start \in Nat
      /\ since'[v].amps \in Nat /\ since'[v].start \in Nat
  BY <1>1, VehicleIs, Constants DEF Fresh, OneCar, TypeInv, TypeOK, ExcessInv
<1>3. ReadingsTell' /\ NewestFirst' /\ excess' <= MaxExcess
  BY <1>1, <1>2 DEF ExcessInv, ReadingsTell, NewestFirst
<1>4. StartIsSafe' /\ AdjustIsSafe'
  BY <1>2, NoJob DEF StartIsSafe, AdjustIsSafe
<1>5. /\ MaxExcess \in Nat /\ Window \in Nat /\ AdjustEvery \in Nat /\ MinChargeTime \in Nat
      /\ 0 < Window /\ Window <= AdjustEvery
      /\ 2 * Window + AdjustEvery <= MaxExcess /\ MinChargeTime + 3 <= MaxExcess
  BY MaxExcessIs, Constants DEF OneCar
<1>6. \A r \in Fresh : Low(r)' = Low(r) /\ readings[r].age \in Nat
  BY <1>1, ReadingsAre, Constants DEF Low, Fresh, TypeInv
<1> DEFINE amps == job[v].amps
<1>7. CASE job[v].do = "start" /\ Started(v, amps)
  <2>1. /\ car' = row' /\ car'[v].charging /\ car'[v].amps = AmpsSet(v, amps, car)
        /\ since'[v].start = 0
    BY <1>2, <1>7 DEF Started, StartEvents, AmpsSet, ExcessInv, TypeInv, TypeOK, Charge
  <2>2. Over(v)' => excess <= 1
    <3>1. Watts(car'[v].amps) \in Int
      <4>1. car'[v].amps \in Nat
        <5>1. car'[v] \in Charge
          BY DEF TypeInv, TypeOK
        <5> QED BY <5>1, Constants DEF Charge
      <4> QED BY <4>1, WattsType
    <3>2. Over(v)' => Watts(car'[v].amps) > sun
      BY <1>1 DEF Over
    <3>3. excess >= 2 => Watts(car'[v].amps) <= sun
      BY <1>7, <2>1 DEF ExcessInv, StartIsSafe
    <3> QED BY <1>2, <3>1, <3>2, <3>3
  <2>3. EventsNearExcess'
    BY <1>1, <1>2, <1>5, <2>2 DEF EventsNearExcess
  <2>4. DoneInTime'
    BY <1>1, <1>2, <1>5, <2>2 DEF DoneInTime
  <2>5. StopIsSafe'
    BY <1>2, <2>1, NoJob DEF StopIsSafe
  <2> QED BY <1>3, <1>4, <2>1, <2>3, <2>4, <2>5 DEF ExcessInv
<1>8. CASE job[v].do = "adjust" /\ Adjusted(v, amps)
  <2>1. /\ car' = row' /\ car'[v].charging = car[v].charging /\ car'[v].amps = amps
        /\ since'[v].amps = 0 /\ since'[v].start = since[v].start
    BY <1>2, <1>8 DEF Adjusted, ExcessInv, TypeInv, TypeOK, Charge
  <2>2. since[v].start >= Window /\ (Over(v)' => excess <= Window)
    <3>1. Waited(v) \in {0, 1}
      BY <1>1, WaitedIs DEF TypeInv
    <3> QED BY <1>1, <1>2, <1>5, <1>8, <2>1, <3>1 DEF Over, ExcessInv, AdjustIsSafe
  <2>3. EventsNearExcess'
    BY <1>1, <1>2, <1>5, <2>1, <2>2 DEF EventsNearExcess
  <2>4. DoneInTime'
    BY <1>1, <1>2, <1>5, <2>2 DEF DoneInTime
  <2>5. StopIsSafe'
    BY <1>1, <1>2, <1>6, <2>1, NoJob DEF ExcessInv, StopIsSafe
  <2> QED BY <1>3, <1>4, <2>1, <2>3, <2>4, <2>5 DEF ExcessInv
<1>9. CASE job[v].do = "stop" /\ Stopped(v)
  <2>1. car' = row' /\ ~car'[v].charging
    BY <1>2, <1>9 DEF Stopped, ExcessInv, TypeInv, TypeOK, Charge
  <2>2. EventsNearExcess' /\ DoneInTime'
    BY <1>2, <2>1 DEF EventsNearExcess, DoneInTime, Over
  <2>3. StopIsSafe'
    <3>1. Waited(v) \in {0, 1}
      BY <1>1, WaitedIs DEF TypeInv
    <3>2. \A r \in Fresh : readings[r].age > Waited(v) => Low(r)
      BY <1>9 DEF ExcessInv, StopIsSafe
    <3> QED BY <1>1, <1>2, <1>6, <3>1, <3>2, NoJob DEF StopIsSafe
  <2> QED BY <1>3, <1>4, <2>1, <2>2, <2>3 DEF ExcessInv
<1> QED BY <1>7, <1>8, <1>9 DEF Succeeded

LEMMA ReportExcess ==
    ASSUME OneCar, TypeInv, TypeInv', ExcessInv, Report
    PROVE  ExcessInv'
<1>1. /\ readings' = IF readings = <<>> THEN <<NewReading>> ELSE <<NewReading, readings[1]>>
      /\ UNCHANGED <<sun, meter, car, row, since, due, job, excess, left>>
  BY DEF Report
<1>2. ASSUME NEW r \in Fresh'
      PROVE  \/ readings'[r] = NewReading
             \/ 1 \in Fresh /\ readings'[r] = readings[1]
  BY <1>1, ReadingsAre DEF Fresh, TypeInv
<1>3. PICK v : VIN = {v} /\ v \in VIN
  BY DEF OneCar
<1>4. /\ NewReading.age = 0 /\ NewReading.load[v] = Load(v)
      /\ NewReading.watts = sun - Load(v) /\ Load(v) \in Nat
  BY <1>3, LoadOfOne, LoadType DEF NewReading, TypeInv
<1>5. ReadingsTell'
  BY <1>1, <1>2, <1>3, <1>4 DEF ExcessInv, ReadingsTell
<1>6. NewestFirst'
  <2>1. ASSUME NEW r \in DOMAIN readings' PROVE readings'[1].age = 0 /\ readings'[r].age >= 0
    BY <1>1, <1>4, <2>1, ReadingsAre, Constants DEF TypeInv
  <2> QED BY <2>1 DEF NewestFirst
<1>7. StopIsSafe'
  <2>1. ASSUME NEW u \in VIN, NEW r \in Fresh', readings'[r].age >= 1
        PROVE  1 \in Fresh /\ readings'[r] = readings[1] /\ (Low(1) => Low(r)')
    BY <1>2, <1>4, <2>1 DEF Low
  <2>2. ASSUME NEW u \in VIN, job[u] # None PROVE Waited(u) \in {0, 1} /\ Waited(u)' = Waited(u)
    BY <1>1, <2>2, WaitedIs DEF TypeInv, Waited
  <2>3. ASSUME NEW r \in Fresh' PROVE readings'[r].age \in Nat
    BY ReadingsAre, <1>2, <1>4, Constants DEF Fresh, TypeInv
  <2>4. ASSUME NEW u \in VIN, job[u].do = "stop", NEW r \in Fresh', readings'[r].age > Waited(u)
        PROVE  Low(r)'
    BY <2>1, <2>2, <2>3, <2>4, NoJob DEF ExcessInv, StopIsSafe
  <2>5. ASSUME NEW u \in VIN, ~car[u].charging, excess >= 2,
               NEW r \in Fresh', readings'[r].age >= 2
        PROVE  Low(r)'
    BY <2>1, <2>3, <2>5 DEF ExcessInv, StopIsSafe
  <2>6. ASSUME NEW u \in VIN, job[u].do = "stop" PROVE car[u].charging /\ Waited(u)' = Waited(u)
    BY <1>1, <2>6 DEF ExcessInv, StopIsSafe, Waited
  <2> QED BY <1>1, <2>4, <2>5, <2>6 DEF StopIsSafe
<1>8. EventsNearExcess' /\ StartIsSafe' /\ AdjustIsSafe' /\ DoneInTime'
  BY <1>1 DEF ExcessInv, EventsNearExcess, StartIsSafe, AdjustIsSafe, DoneInTime, Over, AmpsSet, Waited
<1> QED BY <1>1, <1>5, <1>6, <1>7, <1>8 DEF ExcessInv

LEMMA MinuteExcess ==
    ASSUME OneCar, TypeInv, TypeInv', ExcessInv, Minute
    PROVE  ExcessInv'
<1>1. /\ UNCHANGED <<sun, meter, car, row, left>> /\ due = {} /\ due' = VIN
      /\ \A v \in VIN : job[v] # None => ~job[v].late
      /\ job' = [v \in VIN |-> IF job[v] = None THEN None ELSE [job[v] EXCEPT !.late = TRUE]]
      /\ readings' = [r \in DOMAIN readings |->
                        [readings[r] EXCEPT !.age = Min({@ + 1, Window})]]
      /\ since' = [v \in VIN |-> [amps |-> Older(since[v].amps), start |-> Older(since[v].start)]]
      /\ excess' = IF TotalLoad > 0 /\ TotalLoad > sun THEN Older(excess) ELSE 0
  BY DEF Minute
<1>2. PICK v : VIN = {v} /\ v \in VIN
  BY DEF OneCar
<1>3. /\ MaxExcess \in Nat /\ Window \in Nat /\ AdjustEvery \in Nat /\ MinChargeTime \in Nat
      /\ 0 < Window /\ Window <= AdjustEvery /\ Cap \in Nat /\ Cap > Window
      /\ 2 * Window + AdjustEvery <= MaxExcess /\ MinChargeTime + 3 <= MaxExcess
  BY MaxExcessIs, Constants DEF OneCar
<1>4. /\ excess \in 0..Cap /\ sun \in Int
      /\ since[v].amps \in 0..Cap /\ since[v].start \in 0..Cap
      /\ since'[v].amps = Older(since[v].amps) /\ since'[v].start = Older(since[v].start)
      /\ car[v].charging \in BOOLEAN
  BY <1>1, <1>2, VehicleIs, Constants DEF TypeInv, TypeOK
<1>5. /\ excess' = IF Over(v) THEN Older(excess) ELSE 0
      /\ Over(v)' <=> Over(v)
  BY <1>1, <1>2, OverIs DEF TypeInv, Over
<1>6. /\ Older(excess) \in {excess + 1, Cap} /\ Older(excess) <= Cap /\ Older(excess) <= excess + 1
      /\ Older(since[v].amps) \in {since[v].amps + 1, Cap} /\ Older(since[v].amps) <= Cap
      /\ Older(since[v].start) \in {since[v].start + 1, Cap} /\ Older(since[v].start) <= Cap
      /\ excess' \in Nat /\ excess' <= excess + 1
  BY <1>3, <1>4, <1>5, OlderIs
<1>7. ASSUME NEW r \in Fresh'
      PROVE  /\ r \in Fresh /\ readings[r].age \in Nat
             /\ readings'[r].age = readings[r].age + 1
             /\ readings'[r].watts = readings[r].watts /\ readings'[r].load = readings[r].load
             /\ Low(r)' <=> Low(r)
  <2>1. /\ r \in DOMAIN readings /\ readings[r] \in Reading
        /\ readings[r].age \in 0..Window /\ readings'[r].age < Window
    BY <1>1, ReadingsAre DEF Fresh, TypeInv
  <2>2. /\ readings'[r].age = Min({readings[r].age + 1, Window})
        /\ readings'[r].watts = readings[r].watts /\ readings'[r].load = readings[r].load
    BY <1>1, <2>1 DEF Reading
  <2>3. readings'[r].age = readings[r].age + 1
    BY <1>3, <2>1, <2>2, ReadingAges
  <2> QED BY <1>3, <2>1, <2>2, <2>3 DEF Fresh, Low
<1>8. job'[v] = None <=> job[v] = None
  BY <1>1, <1>2, VehicleIs DEF TypeInv, Calls, None
<1>9. job[v] # None => /\ job'[v].do = job[v].do /\ job'[v].amps = job[v].amps
                        /\ Waited(v) = 0 /\ Waited(v)' = 1
  BY <1>1, <1>2, VehicleIs DEF TypeInv, Waited, Calls
<1>10. ReadingsTell'
  <2>1. ASSUME NEW r \in Fresh', readings'[r].age < excess'
        PROVE  readings'[r].watts = sun - readings'[r].load[v]
    <3>1. readings[r].age < excess
      BY <1>4, <1>6, <1>7, <2>1
    <3> QED BY <1>2, <1>7, <3>1 DEF ExcessInv, ReadingsTell
  <2>2. ASSUME NEW r \in Fresh' PROVE readings'[r].load[v] >= 0
    BY <1>2, <1>7 DEF ExcessInv, ReadingsTell
  <2> QED BY <1>1, <1>2, <2>1, <2>2 DEF ReadingsTell
<1>11. NewestFirst'
  <2> SUFFICES ASSUME NEW r \in DOMAIN readings PROVE readings'[1].age <= readings'[r].age
    BY <1>1 DEF NewestFirst
  <2>1. /\ 1 \in DOMAIN readings /\ readings[1] \in Reading /\ readings[r] \in Reading
        /\ readings[1].age \in 0..Window /\ readings[r].age \in 0..Window
        /\ readings[1].age <= readings[r].age
    BY ReadingsAre DEF TypeInv, ExcessInv, NewestFirst
  <2>2. /\ readings'[1].age = Min({readings[1].age + 1, Window})
        /\ readings'[r].age = Min({readings[r].age + 1, Window})
    BY <1>1, <2>1 DEF Reading
  <2> DEFINE first == readings'[1].age
             other == readings'[r].age
  <2>3. /\ first \in 0..Window /\ first <= readings[1].age + 1
        /\ other \in {readings[r].age + 1, Window}
    BY <2>1, <2>2, ReadingAges
  <2> SUFFICES first <= other
    OBVIOUS
  <2> HIDE DEF first, other
  <2> QED BY <1>3, <2>1, <2>3
<1>12. EventsNearExcess'
  <2>1. Over(v) => excess <= since[v].start + 1 /\ excess <= since[v].amps + Window
    BY <1>2 DEF ExcessInv, EventsNearExcess
  <2>2. Over(v)' => excess' <= since'[v].start + 1 /\ excess' <= since'[v].amps + Window
    BY <1>3, <1>4, <1>5, <1>6, <2>1
  <2> QED BY <1>2, <2>2 DEF EventsNearExcess
<1>13. StartIsSafe'
  <2>1. job'[v].do = "start" => ~car[v].charging
    BY <1>1, <1>2, <1>8, <1>9, NoJob DEF ExcessInv, StartIsSafe
  <2>2. ~car[v].charging => excess' = 0
    BY <1>5 DEF Over
  <2> QED BY <1>1, <1>2, <2>1, <2>2 DEF StartIsSafe
<1>14. AdjustIsSafe'
  <2> SUFFICES ASSUME job'[v].do = "adjust"
               PROVE  /\ since'[v].start >= Window
                      /\ Watts(job'[v].amps) > sun => excess' < Window + 1
    BY <1>1, <1>2, <1>8, <1>9, NoJob DEF AdjustIsSafe
  <2>1. /\ job[v].do = "adjust" /\ Waited(v) = 0 /\ job'[v].amps = job[v].amps
        /\ since[v].start >= Window
        /\ Watts(job[v].amps) > sun => excess < Window + Waited(v)
    BY <1>2, <1>8, <1>9, NoJob DEF ExcessInv, AdjustIsSafe
  <2> QED BY <1>3, <1>4, <1>6, <2>1
<1>15. StopIsSafe'
  <2>1. ASSUME job'[v].do = "stop"
        PROVE  car[v].charging /\ \A r \in Fresh' : readings'[r].age > Waited(v)' => Low(r)'
    <3>1. job[v].do = "stop" /\ Waited(v) = 0 /\ Waited(v)' = 1
      BY <1>1, <1>2, <1>8, <1>9, <2>1, NoJob
    <3>2. car[v].charging /\ \A r \in Fresh : readings[r].age > 0 => Low(r)
      BY <1>2, <3>1 DEF ExcessInv, StopIsSafe
    <3> QED BY <1>7, <3>1, <3>2
  <2>2. ~car'[v].charging => ~(excess' >= 2)
    BY <1>1, <1>5 DEF Over
  <2>3. \A u \in VIN : u = v
    BY <1>2
  <2> HIDE <1>2
  <2> QED BY <1>1, <2>1, <2>2, <2>3 DEF StopIsSafe
<1>16. /\ Over(v) /\ job[v] = None => excess' <= MaxExcess - 1
       /\ Over(v) /\ job[v] # None => excess' <= MaxExcess
  BY <1>1, <1>2, <1>3, <1>4, <1>6, <1>9 DEF ExcessInv, DoneInTime
<1>17. DoneInTime'
  <2> SUFFICES Over(v)' => excess' <= MaxExcess - (IF job'[v] = None THEN IF v \in due' THEN 1 ELSE 2
                                                  ELSE 1 - Waited(v)')
    BY <1>2 DEF DoneInTime
  <2> QED BY <1>1, <1>2, <1>3, <1>5, <1>6, <1>8, <1>9, <1>16
<1>18. excess' <= MaxExcess
  BY <1>3, <1>5, <1>6, <1>16
<1>19. car' = row'
  BY <1>1 DEF ExcessInv
<1> QED BY <1>10, <1>11, <1>12, <1>13, <1>14, <1>15, <1>17, <1>18, <1>19 DEF ExcessInv

LEMMA SunExcess == ASSUME OneCar, TypeInv, TypeInv', ExcessInv, SunChanges PROVE ExcessInv'
<1>1. excess' = 0 /\ UNCHANGED <<meter, car, readings, row, since, due, job>>
  BY DEF SunChanges
<1>2. /\ Fresh' = Fresh /\ MaxExcess \in Nat /\ MinChargeTime + 3 <= MaxExcess
      /\ Window \in Nat /\ Window > 0 /\ MinChargeTime \in Nat
  BY <1>1, MaxExcessIs, Constants DEF Fresh, OneCar
<1>3. ASSUME NEW r \in Fresh PROVE readings[r].age \in Nat /\ (Low(r)' <=> Low(r))
  BY <1>1, ReadingsAre, Constants DEF Fresh, Low, TypeInv
<1>4. ReadingsTell' /\ NewestFirst'
  BY <1>1, <1>2, <1>3 DEF ExcessInv, ReadingsTell, NewestFirst
<1>5. ASSUME NEW v \in VIN
      PROVE  /\ since[v].amps \in Nat /\ since[v].start \in Nat
             /\ Waited(v)' = Waited(v)
             /\ job[v] # None => Waited(v) \in {0, 1}
  BY <1>1, VehicleIs, WaitedIs, Constants DEF TypeInv, Waited
<1>6. EventsNearExcess' /\ DoneInTime'
  BY <1>1, <1>2, <1>5 DEF EventsNearExcess, DoneInTime
<1>7. StartIsSafe'
  BY <1>1 DEF ExcessInv, StartIsSafe
<1>8. AdjustIsSafe'
  <2>1. ASSUME NEW v \in VIN, job[v].do = "adjust"
        PROVE  since[v].start >= Window /\ (Watts(job[v].amps) > sun' => 0 < Window + Waited(v))
    <3>1. job[v] # None /\ since[v].start >= Window
      BY <2>1, NoJob DEF ExcessInv, AdjustIsSafe
    <3> QED BY <1>2, <1>5, <3>1
  <2> QED BY <1>1, <1>5, <2>1 DEF AdjustIsSafe
<1>9. StopIsSafe'
  BY <1>1, <1>2, <1>3, <1>5 DEF ExcessInv, StopIsSafe
<1> QED BY <1>1, <1>2, <1>4, <1>6, <1>7, <1>8, <1>9 DEF ExcessInv

\* Nothing that the excess depends on changes.
LEMMA CalmExcess ==
    ASSUME ExcessInv, UNCHANGED <<sun, car, readings, row, since, due, job, excess>>
    PROVE  ExcessInv'
<1>1. Fresh' = Fresh
  BY DEF Fresh
<1>2. ReadingsTell' /\ NewestFirst' /\ EventsNearExcess'
  BY <1>1 DEF ExcessInv, ReadingsTell, NewestFirst, EventsNearExcess, Over
<1>3. StartIsSafe' /\ AdjustIsSafe'
  BY DEF ExcessInv, StartIsSafe, AdjustIsSafe, AmpsSet, Waited
<1>4. StopIsSafe'
  BY <1>1 DEF ExcessInv, StopIsSafe, Low, Waited
<1>5. DoneInTime'
  BY DEF ExcessInv, DoneInTime, Over, Waited
<1> QED BY <1>2, <1>3, <1>4, <1>5 DEF ExcessInv

\* Failures are counted, and only failures are.
LEMMA FailuresCount ==
    ASSUME TypeInv, [Next]_vars
    PROVE  \/ left'.faults = left.faults /\ \A v \in VIN : Answer(v) => Succeeded(v)
           \/ left'.faults = left.faults - 1
<1>1. left \in [{"faults", "suns", "outages"} -> Nat]
  BY DEF TypeInv, TypeOK
<1>2. ASSUME NEW v \in VIN, Answer(v)
      PROVE  Succeeded(v) \/ left'.faults = left.faults - 1
  BY <1>1, <1>2 DEF Answer, Succeeded, Spend
<1>3. ASSUME NEW v \in VIN, Vehicle(v)
      PROVE  left'.faults = left.faults \/ left'.faults = left.faults - 1
  BY <1>1, <1>3 DEF Vehicle, Tick, Answer, Telemetry, Spend
<1>4. ASSUME Report \/ SunChanges \/ MeterChanges \/ Minute \/ UNCHANGED vars
      PROVE  left'.faults = left.faults
  BY <1>1, <1>4 DEF Report, SunChanges, MeterChanges, Minute, vars, Spend
<1> QED BY <1>2, <1>3, <1>4 DEF Next

LEMMA NextUnfailed ==
    ASSUME OneCar, TypeInv, TypeInv', Inv, UnfailedInv, [Next]_vars
    PROVE  UnfailedInv'
<1>1. left.faults \in Nat /\ left'.faults \in Nat /\ Bounds.faults \in Nat
  BY Constants DEF TypeInv, TypeOK
<1>2. left'.faults <= Bounds.faults
  BY <1>1, FailuresCount DEF UnfailedInv
<1>3. ASSUME Unfailed' PROVE ExcessInv'
  <2>1. ExcessInv /\ \A v \in VIN : Answer(v) => Succeeded(v)
    BY <1>1, <1>3, FailuresCount DEF Unfailed, UnfailedInv
  <2>2. ASSUME NEW v \in VIN, Vehicle(v) PROVE ExcessInv'
    <3>1. ~Telemetry(v)
      BY <2>1 DEF ExcessInv, Telemetry
    <3> QED BY <2>1, <2>2, <3>1, TickExcess, AnswerExcess DEF Vehicle
  <2>3. CASE MeterChanges \/ UNCHANGED vars
    <3>1. UNCHANGED <<sun, car, readings, row, since, due, job, excess>>
      BY <2>3 DEF MeterChanges, vars
    <3> QED BY <2>1, <3>1, CalmExcess
  <2> QED BY <2>1, <2>2, <2>3, ReportExcess, MinuteExcess, SunExcess DEF Next
<1> QED BY <1>2, <1>3 DEF UnfailedInv

\* A car on its own never takes more than there is for longer than MaxExcess after
\* the sun has changed, as long as no call fails, for any settings, meter and suns:
\* the loop of canAdjustSolarAmps, getActualSurplus and minimumChargeTimeReached
\* corrects each change of the sun in bounded time.
THEOREM ExcessEndsInTime ==
    ASSUME OneCar
    PROVE  Spec => []ExcessIsShort
<1>1. TypeInv /\ TypeInv' /\ Inv /\ UnfailedInv /\ [Next]_vars => UnfailedInv'
  BY NextUnfailed
<1>2. UnfailedInv => ExcessIsShort
  BY DEF UnfailedInv, Unfailed, ExcessInv, ExcessIsShort
<1> QED BY SolarInv, InitExcess, <1>1, <1>2, PTL DEF Spec
=============================================================================
