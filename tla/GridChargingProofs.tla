------------------------- MODULE GridChargingProofs -------------------------
(***************************************************************************)
(* What holds of charging at low prices for any prices, settings, setups   *)
(* and faults, and for days and weeks of any length: the types; the car    *)
(* never charges above the limit; a decision never runs into an empty      *)
(* list; the departure planned for is the next; an hour begun is used to   *)
(* its end; and, with prices known, the hours used are the cheapest and    *)
(* enough.                                                                 *)
(***************************************************************************)
EXTENDS GridCharging, NumberLemmas

\* An hour is chosen once its price is known, and with a limit only below it.
BlocksBelowLimit ==
    cfg.strategy # "depart" => \A h \in blocks : price[h] <= cfg.maxPrice

Inv == TypeOK /\ BlocksBelowLimit /\ NeverAboveLimit

LEMMA SituationFields ==
    ASSUME NEW s \in Situation
    PROVE  /\ s.cfg \in Settings /\ s.now \in Nat /\ s.soc \in 0..100
           /\ s.known \subseteq Hours /\ s.price \in [Hours -> Nat]
           /\ s.left \in [{"faults", "restarts"} -> Nat]
           /\ s.cfg.strategy \in Strategies /\ s.cfg.maxPrice \in Nat
BY DEF Situation, Settings

\* What a decision may be, and what is true of the hour then.
LEMMA Decisions ==
    ASSUME TypeOK, NEW decision \in CheckStartOnGrid
    PROVE  /\ decision \in {"no", "yes", "choose", "panic"}
           /\ decision = "choose" => Now \in Hours
           /\ decision \in {"yes", "choose"} /\ cfg.strategy # "depart" =>
                Now \in blocks \/ price[Now] <= cfg.maxPrice
<1>1. /\ known \subseteq Hours /\ price \in [Hours -> Nat]
      /\ cfg.maxPrice \in Nat /\ cfg.strategy \in Strategies
  BY SituationFields DEF TypeOK, PriceTypeOK, cfg
<1>2. /\ Upcoming \subseteq known
      /\ \A t : Before(Upcoming, t) \subseteq known
  BY DEF Upcoming, Before
<1>3. ASSUME NEW H, H \subseteq known, NEW n, NEW d \in Chosen(H, n)
      PROVE  d \in {"no", "choose"} /\ (d = "choose" => Now \in Hours)
  <2>1. CASE Now \in H
    BY <1>1, <1>3, <2>1 DEF Chosen
  <2>2. CASE Now \notin H
    BY <1>3, <2>2 DEF Chosen, AmongCheapest
  <2> QED BY <2>1, <2>2
<1>4. ASSUME NEW H, H \subseteq known, NEW d \in BelowLimit(H)
      PROVE  /\ d \in {"no", "yes", "choose"} /\ (d = "choose" => Now \in Hours)
             /\ d # "no" => price[Now] <= cfg.maxPrice
  <2>1. CASE Now \notin H \/ price[Now] > cfg.maxPrice
    BY <1>4, <2>1 DEF BelowLimit
  <2>2. CASE ~(Now \notin H \/ price[Now] > cfg.maxPrice)
    <3>1. Now \in Hours /\ price[Now] \in Nat
      BY <1>1, <1>4, <2>2
    <3>2. price[Now] <= cfg.maxPrice
      BY <1>1, <2>2, <3>1
    <3>3. d = "yes" \/ d \in Chosen(H, Required)
      BY <1>4, <2>2 DEF BelowLimit
    <3> QED BY <1>3, <1>4, <3>1, <3>2, <3>3
  <2> QED BY <2>1, <2>2
<1>5. ASSUME NEW t, NEW d \in Cheapest(t)
      PROVE  d \in {"no", "choose"} /\ (d = "choose" => Now \in Hours)
  <2>1. d = "no" \/ d \in Chosen(Before(Upcoming, t), Required)
    BY <1>5 DEF Cheapest
  <2> QED BY <1>2, <1>3, <2>1
<1>6. CASE Upcoming = {} \/ (cfg.strategy # "priceLimit" /\ cfg.days = {}) \/ Now \in blocks
  <2>1. blocks \subseteq Hours
    BY DEF TypeOK
  <2> QED BY <1>6, <2>1 DEF CheckStartOnGrid
<1>7. CASE ~(Upcoming = {} \/ (cfg.strategy # "priceLimit" /\ cfg.days = {}) \/ Now \in blocks)
  <2>1. CASE cfg.strategy = "priceLimit"
    <3>1. decision \in BelowLimit(Upcoming)
      BY <1>7, <2>1 DEF CheckStartOnGrid
    <3> QED BY <1>2, <1>4, <3>1
  <2>2. CASE cfg.strategy = "depart"
    <3>1. decision \in Cheapest(NextDeparture)
      BY <1>7, <2>2 DEF CheckStartOnGrid
    <3> QED BY <1>5, <2>2, <3>1
  <2>3. CASE cfg.strategy = "departWithLimit"
    <3>1. decision = "panic" \/ decision \in BelowLimit(Before(Upcoming, NextDeparture))
      BY <1>7, <2>3 DEF CheckStartOnGrid
    <3> QED BY <1>2, <1>4, <3>1
  <2> QED BY <1>1, <2>1, <2>2, <2>3 DEF Strategies
<1> QED BY <1>6, <1>7
-----------------------------------------------------------------------------
LEMMA InitInv == Init => Inv
<1> SUFFICES ASSUME Init PROVE Inv
  OBVIOUS
<1>1. first \in Situation
  BY GridAssumption DEF Init
<1>2. TypeOK
  BY <1>1, SituationFields DEF Init, TypeOK, PriceTypeOK, FreshUpdate, UpdatePCs
<1> QED BY <1>2 DEF Init, Inv, BlocksBelowLimit, NeverAboveLimit

LEMMA SpendType ==
    ASSUME left \in [{"faults", "restarts"} -> Nat], NEW what \in {"faults", "restarts"},
           Spend(what)
    PROVE  left' \in [{"faults", "restarts"} -> Nat]
BY DEF Spend

\* The update leaves prices in the table, and nothing else.
LEMMA UpdateSteps ==
    ASSUME TypeOK, UpdateToday \/ UpdateTomorrow \/ WritePrice
    PROVE  PriceTypeOK' /\ UNCHANGED <<now, price>>
<1>1. PriceTypeOK
  BY DEF TypeOK
<1>2. Answer \subseteq Hours
  BY DEF Answer
<1>3. ASSUME NEW then \in UpdatePCs, Fetch(then)
      PROVE  /\ update' \in [pc : UpdatePCs, hours : SUBSET Hours]
             /\ left' \in [{"faults", "restarts"} -> Nat]
  BY <1>1, <1>2, <1>3, SpendType DEF Fetch, PriceTypeOK, Afterwards, UpdatePCs
<1>4. CASE UpdateToday
  BY <1>1, <1>3, <1>4 DEF UpdateToday, PriceTypeOK, UpdatePCs
<1>5. CASE UpdateTomorrow
  BY <1>1, <1>3, <1>5 DEF UpdateTomorrow, PriceTypeOK, UpdatePCs
<1>6. CASE WritePrice
  BY <1>1, <1>6 DEF WritePrice, Written, PriceTypeOK, Afterwards, UpdatePCs
<1> QED BY <1>4, <1>5, <1>6

LEMMA NextInv == Inv /\ [Next]_vars => Inv'
<1> SUFFICES ASSUME Inv, [Next]_vars PROVE Inv'
  OBVIOUS
<1> USE DEF Inv
<1>t. /\ first \in Situation /\ known \subseteq Hours /\ price \in [Hours -> Nat]
      /\ cfg.strategy \in Strategies /\ cfg.maxPrice \in Nat
  BY SituationFields DEF TypeOK, PriceTypeOK, cfg
<1>1. CASE Tick
  <2>1. /\ UNCHANGED <<priceVars, first, soc>> /\ tick' = FALSE
    BY <1>1 DEF Tick
  <2>2. cfg' = cfg /\ Now' = Now
    BY <2>1 DEF cfg, Now, priceVars
  <2>3. CASE charging' = FALSE /\ UNCHANGED <<blocks, down>>
    BY <2>1, <2>2, <2>3 DEF TypeOK, PriceTypeOK, priceVars, BlocksBelowLimit, NeverAboveLimit
  <2>4. ASSUME NEW decision \in CheckStartOnGrid, Decide(decision)
        PROVE  Inv'
    <3>1. /\ decision = "choose" => Now \in Hours
          /\ decision \in {"yes", "choose"} /\ cfg.strategy # "depart" =>
               Now \in blocks \/ price[Now] <= cfg.maxPrice
      BY <2>4, Decisions
    <3>2. charging' \in BOOLEAN /\ blocks' \subseteq Hours /\ down' \in BOOLEAN
      BY <2>4, <3>1 DEF Decide, TypeOK
    <3>3. TypeOK'
      BY <2>1, <3>2 DEF TypeOK, PriceTypeOK, priceVars
    <3>4. charging' /\ cfg.strategy # "depart" => price[Now] <= cfg.maxPrice
      BY <2>4, <3>1 DEF Decide, BlocksBelowLimit
    <3>5. price' = price
      BY <2>1 DEF priceVars
    <3>6. BlocksBelowLimit'
      BY <2>2, <2>4, <3>4, <3>5 DEF Decide, BlocksBelowLimit
    <3>7. NeverAboveLimit'
      BY <2>2, <3>4, <3>5 DEF NeverAboveLimit
    <3> QED BY <3>3, <3>6, <3>7
  <2>5. CASE ~charging /\ UNCHANGED <<charging, blocks, down>>
    BY <2>3, <2>5 DEF TypeOK
  <2> QED BY <1>1, <2>3, <2>4, <2>5 DEF Tick
<1>2. CASE Update
  <2>1. PriceTypeOK' /\ UNCHANGED <<now, price, first, soc, charging, blocks, tick, down>>
    BY <1>2, UpdateSteps DEF Update
  <2>2. cfg' = cfg /\ Now' = Now
    BY <2>1 DEF cfg, Now
  <2> QED BY <2>1, <2>2 DEF TypeOK, BlocksBelowLimit, NeverAboveLimit
<1>3. CASE Elapse
  <2>1. /\ tick' = TRUE /\ UNCHANGED <<price, known, left, first, charging, blocks, down>>
        /\ now' = now + Slot /\ update' = FreshUpdate /\ published' \in BOOLEAN
    BY <1>3 DEF Elapse, SlotPasses, TypeOK, PriceTypeOK
  <2>2. soc' \in 0..100
    BY <1>3, GridAssumption DEF Elapse, TypeOK
  <2>3. now' \in Nat /\ update' \in [pc : UpdatePCs, hours : SUBSET Hours]
    BY <2>1, PriceAssumption DEF TypeOK, PriceTypeOK, FreshUpdate, UpdatePCs
  <2>4. TypeOK'
    BY <2>1, <2>2, <2>3 DEF TypeOK, PriceTypeOK
  <2>5. cfg' = cfg
    BY <2>1 DEF cfg
  <2> QED BY <2>1, <2>4, <2>5 DEF BlocksBelowLimit, NeverAboveLimit
<1>4. CASE Restart
  <2>1. /\ UNCHANGED <<now, price, published, known, first, soc, charging, blocks, tick, down>>
        /\ update' = FreshUpdate /\ Spend("restarts")
    BY <1>4 DEF Restart, UpdateStops
  <2>2. left' \in [{"faults", "restarts"} -> Nat]
    BY <2>1, SpendType DEF TypeOK, PriceTypeOK
  <2>3. TypeOK'
    BY <2>1, <2>2 DEF TypeOK, PriceTypeOK, FreshUpdate, UpdatePCs
  <2>4. cfg' = cfg /\ Now' = Now
    BY <2>1 DEF cfg, Now
  <2> QED BY <2>1, <2>3, <2>4 DEF BlocksBelowLimit, NeverAboveLimit
<1>5. CASE UNCHANGED vars
  <2>1. cfg' = cfg /\ Now' = Now
    BY <1>5 DEF vars, priceVars, cfg, Now
  <2> QED BY <1>5, <2>1 DEF vars, priceVars, TypeOK, PriceTypeOK, BlocksBelowLimit, NeverAboveLimit
<1> QED BY <1>1, <1>2, <1>3, <1>4, <1>5 DEF Next, Over
-----------------------------------------------------------------------------
(***************************************************************************)
(* The departure that is planned for (getNextDeparture).                   *)
(***************************************************************************)
\* The hour of now, taken apart into day and hour of the day.
LEMMA HourOfNow ==
    ASSUME now \in Nat
    PROVE  /\ Now \in Nat /\ Today \in Nat /\ HourOfDay(Now) \in 0..(HoursPerDay - 1)
           /\ Now = MidnightOf(Today) + HourOfDay(Now)
           /\ 60 * Now <= now /\ now < 60 * Now + 60
<1>1. HoursPerDay \in Nat \ {0}
  BY PriceAssumption
<1>2. Now \in Nat /\ 60 * Now <= now /\ now < 60 * Now + 60
  BY DEF Now, Hour
<1>3. /\ Now \div HoursPerDay \in Nat /\ Now % HoursPerDay \in 0..(HoursPerDay - 1)
      /\ Now = (Now \div HoursPerDay) * HoursPerDay + (Now % HoursPerDay)
  BY <1>1, <1>2, Division
<1> QED BY <1>2, <1>3 DEF Today, Day, HourOfDay, MidnightOf, Now

\* Days k after a day have the weekdays that follow, within a week.
LEMMA WeekdayAfter ==
    ASSUME NEW d \in Nat, NEW k \in 0..DaysPerWeek
    PROVE  /\ Weekday(d) \in 1..DaysPerWeek
           /\ Weekday(d + k) = IF Weekday(d) + k <= DaysPerWeek THEN Weekday(d) + k
                                                              ELSE Weekday(d) + k - DaysPerWeek
<1>1. DaysPerWeek \in Nat \ {0}
  BY GridAssumption
<1> DEFINE q == d \div DaysPerWeek
           r == d % DaysPerWeek
<1>2. q \in Nat /\ r \in 0..(DaysPerWeek - 1) /\ d = q * DaysPerWeek + r
  BY <1>1, Division
<1>3. Weekday(d) = 1 + r
  BY DEF Weekday
<1> HIDE DEF q, r
<1>4. CASE 1 + r + k <= DaysPerWeek
  <2>1. r + k \in 0..(DaysPerWeek - 1) /\ d + k = q * DaysPerWeek + (r + k)
    BY <1>1, <1>2, <1>4
  <2>2. (d + k) % DaysPerWeek = r + k
    BY <1>1, <1>2, <2>1, DivisionUnique
  <2> QED BY <1>1, <1>2, <1>3, <1>4, <2>2 DEF Weekday
<1>5. CASE 1 + r + k > DaysPerWeek
  <2>1. /\ r + k - DaysPerWeek \in 0..(DaysPerWeek - 1)
        /\ d + k = (q + 1) * DaysPerWeek + (r + k - DaysPerWeek)
    BY <1>1, <1>2, <1>5
  <2>2. (d + k) % DaysPerWeek = r + k - DaysPerWeek
    <3>1. q + 1 \in Int
      BY <1>2
    <3> QED BY <1>1, <2>1, <3>1, DivisionUnique
  <2> QED BY <1>1, <1>2, <1>3, <1>5, <2>2 DEF Weekday
<1> QED BY <1>1, <1>2, <1>4, <1>5

LEMMA FirstIsFirst ==
    ASSUME NEW D, D \subseteq Nat, D # {}
    PROVE  FirstOf(D) \in D /\ \A e \in D : FirstOf(D) <= e
BY LeastNatural, Zenon DEF FirstOf

\* Which day it is.
LEMMA DayOfDeparture ==
    ASSUME TypeOK, cfg.days # {}
    PROVE  \E k \in 0..DaysPerWeek :
              /\ NextDeparture = DepartureOn(Today + k) /\ Weekday(Today + k) \in cfg.days
              /\ k = 0 => cfg.hour > HourOfDay(Now)
              /\ \A j \in 0..(k - 1) : Weekday(Today + j) \in cfg.days =>
                    j = 0 /\ cfg.hour <= HourOfDay(Now)
<1>1. /\ now \in Nat /\ cfg.days \subseteq 1..DaysPerWeek /\ cfg.hour \in Nat
      /\ DaysPerWeek \in Nat \ {0} /\ HoursPerDay \in Nat \ {0}
  BY GridAssumption, PriceAssumption DEF TypeOK, PriceTypeOK, cfg, Situation, Settings
<1>2. Today \in Nat /\ HourOfDay(Now) \in Nat /\ Today + 0 = Today
  BY <1>1, HourOfNow
<1> DEFINE today == Weekday(Today)
           later == {d \in cfg.days : d > today}
<1>3. today \in 1..DaysPerWeek
  <2>1. 0 \in 0..DaysPerWeek
    BY <1>1
  <2> QED BY <1>2, <2>1, WeekdayAfter
<1>4. CASE today \in cfg.days /\ cfg.hour > HourOfDay(Now)
  <2>1. NextDeparture = DepartureOn(Today + 0)
    BY <1>2, <1>4 DEF NextDeparture
  <2>2. 0 \in 0..DaysPerWeek
    BY <1>1
  <2> QED BY <1>2, <1>4, <2>1, <2>2
<1>5. CASE ~(today \in cfg.days /\ cfg.hour > HourOfDay(Now)) /\ later # {}
  <2> DEFINE f == FirstOf(later)
             k == f - today
  <2>1. f \in later /\ \A e \in later : f <= e
    BY <1>1, <1>5, FirstIsFirst
  <2>2. f \in cfg.days /\ f \in 1..DaysPerWeek /\ f > today
    BY <1>1, <2>1
  <2> HIDE DEF f
  <2>3. k \in 1..DaysPerWeek /\ k \in 0..DaysPerWeek
    BY <1>1, <1>3, <2>2
  <2>4. NextDeparture = DepartureOn(Today + k)
    <3>1. NextDeparture = DepartureOn(Today + FirstOf(later) - today)
      BY <1>5 DEF NextDeparture
    <3>2. Today + FirstOf(later) - today = Today + k
      BY <1>2, <1>3, <2>2 DEF f
    <3> QED BY <3>1, <3>2
  <2>5. Weekday(Today + k) = f
    BY <1>1, <1>2, <1>3, <2>2, <2>3, WeekdayAfter
  <2>6. ASSUME NEW j \in 0..(k - 1), Weekday(Today + j) \in cfg.days
        PROVE  j = 0 /\ cfg.hour <= HourOfDay(Now)
    <3>1. j \in 0..DaysPerWeek /\ today + j < f /\ today + j <= DaysPerWeek
      BY <1>1, <1>3, <2>2, <2>3
    <3>2. Weekday(Today + j) = today + j
      BY <1>2, <3>1, WeekdayAfter
    <3>3. j = 0
      BY <1>1, <1>3, <2>1, <2>6, <3>1, <3>2
    <3> QED BY <1>1, <1>2, <1>5, <2>6, <3>3
  <2> QED BY <2>2, <2>3, <2>4, <2>5, <2>6
<1>6. CASE ~(today \in cfg.days /\ cfg.hour > HourOfDay(Now)) /\ later = {}
  <2> DEFINE f == FirstOf(cfg.days)
             k == DaysPerWeek - today + f
  <2>1. f \in cfg.days /\ \A e \in cfg.days : f <= e
    BY <1>1, FirstIsFirst
  <2>2. f \in 1..DaysPerWeek /\ f <= today
    BY <1>1, <1>3, <1>6, <2>1
  <2> HIDE DEF f
  <2>3. k \in 1..DaysPerWeek /\ k \in 0..DaysPerWeek
    BY <1>1, <1>3, <2>2
  <2>4. NextDeparture = DepartureOn(Today + k)
    <3>1. NextDeparture = DepartureOn(Today + DaysPerWeek - today + FirstOf(cfg.days))
      BY <1>6 DEF NextDeparture
    <3>2. Today + DaysPerWeek - today + FirstOf(cfg.days) = Today + k
      BY <1>1, <1>2, <1>3, <2>2 DEF f
    <3> QED BY <3>1, <3>2
  <2>5. Weekday(Today + k) = f
    <3>1. today + k > DaysPerWeek /\ today + k - DaysPerWeek = f
      BY <1>1, <1>3, <2>2
    <3>2. Weekday(Today + k) = IF today + k <= DaysPerWeek THEN today + k
                                                         ELSE today + k - DaysPerWeek
      BY <1>2, <2>3, WeekdayAfter
    <3> QED BY <1>1, <1>3, <2>3, <3>1, <3>2
  <2>6. ASSUME NEW j \in 0..(k - 1), Weekday(Today + j) \in cfg.days
        PROVE  j = 0 /\ cfg.hour <= HourOfDay(Now)
    <3>1. j \in 0..DaysPerWeek
      BY <1>1, <1>3, <2>2, <2>3
    <3>2. CASE today + j <= DaysPerWeek
      <4>1. Weekday(Today + j) = today + j
        BY <1>2, <3>1, <3>2, WeekdayAfter
      <4>2. ~(today + j > today)
        BY <1>6, <2>6, <4>1
      <4>3. j = 0
        BY <1>1, <1>3, <3>1, <4>2
      <4> QED BY <1>1, <1>2, <1>6, <2>6, <4>3
    <3>3. CASE today + j > DaysPerWeek
      <4>1. Weekday(Today + j) = today + j - DaysPerWeek
        BY <1>1, <1>2, <1>3, <3>1, <3>3, WeekdayAfter
      <4> QED BY <1>1, <1>3, <2>1, <2>2, <2>6, <3>1, <4>1
    <3> QED BY <1>1, <1>3, <3>1, <3>2, <3>3
  <2> QED BY <2>1, <2>3, <2>4, <2>5, <2>6
<1> QED BY <1>4, <1>5, <1>6

LEMMA DepartureType ==
    ASSUME TypeOK, NEW d \in Nat
    PROVE  DepartureOn(d) \in Nat /\ DepartureOn(d) = 60 * (MidnightOf(d) + cfg.hour) + cfg.minute
           /\ MidnightOf(d) \in Nat /\ cfg.hour \in Nat /\ cfg.minute \in 0..59
<1>1. cfg.hour \in Nat /\ cfg.minute \in 0..59 /\ HoursPerDay \in Nat \ {0}
  BY PriceAssumption DEF TypeOK, cfg, Situation, Settings
<1>2. MidnightOf(d) \in Nat
  BY <1>1 DEF MidnightOf
<1> QED BY <1>1, <1>2 DEF DepartureOn

\* The hour it falls into; that hour is ahead, or the departure is not.
LEMMA HourOfDeparture ==
    ASSUME TypeOK, NEW d \in Nat
    PROVE  /\ Hour(DepartureOn(d)) = MidnightOf(d) + cfg.hour
           /\ Hour(DepartureOn(d)) > Now => DepartureOn(d) > now
           /\ cfg.minute = 0 /\ DepartureOn(d) > now => Hour(DepartureOn(d)) > Now
<1>1. /\ DepartureOn(d) = 60 * (MidnightOf(d) + cfg.hour) + cfg.minute
      /\ MidnightOf(d) \in Nat /\ cfg.hour \in Nat /\ cfg.minute \in 0..59
  BY DepartureType
<1>2. Hour(DepartureOn(d)) = MidnightOf(d) + cfg.hour
  BY <1>1 DEF Hour
<1>3. Now \in Nat /\ now \in Nat /\ 60 * Now <= now /\ now < 60 * Now + 60
  BY HourOfNow DEF TypeOK, PriceTypeOK
<1> QED BY <1>1, <1>2, <1>3

LEMMA LaterDay ==
    ASSUME TypeOK, NEW d \in Nat, NEW e \in Nat, d <= e
    PROVE  /\ DepartureOn(d) <= DepartureOn(e)
           /\ d < e => MidnightOf(d) + HoursPerDay <= MidnightOf(e)
<1>1. HoursPerDay \in Nat \ {0}
  BY PriceAssumption
<1>2. d * HoursPerDay <= e * HoursPerDay
  BY <1>1, TimesMonotone
<1>3. d < e => (d + 1) * HoursPerDay <= e * HoursPerDay
  BY <1>1, TimesMonotone
<1>4. (d + 1) * HoursPerDay = d * HoursPerDay + HoursPerDay
  BY <1>1
<1>5. MidnightOf(d) <= MidnightOf(e)
  BY <1>2 DEF MidnightOf
<1>6. /\ MidnightOf(d) \in Int /\ DepartureOn(d) = 60 * (MidnightOf(d) + cfg.hour) + cfg.minute
      /\ MidnightOf(e) \in Int /\ DepartureOn(e) = 60 * (MidnightOf(e) + cfg.hour) + cfg.minute
      /\ cfg.hour \in Int /\ cfg.minute \in Int
  BY DepartureType DEF DepartureOn
<1>7. DepartureOn(d) <= DepartureOn(e)
  BY <1>5, <1>6
<1>8. d < e => MidnightOf(d) + HoursPerDay <= MidnightOf(e)
  BY <1>1, <1>3, <1>4 DEF MidnightOf
<1> QED BY <1>7, <1>8

\* It is not before the hour that follows.
LEMMA DepartureAhead ==
    ASSUME TypeOK, cfg.days # {}
    PROVE  NextDeparture \in Nat /\ 60 * Now + 60 <= NextDeparture /\ now < NextDeparture
<1>1. PICK k \in 0..DaysPerWeek :
           NextDeparture = DepartureOn(Today + k) /\ (k = 0 => cfg.hour > HourOfDay(Now))
  BY DayOfDeparture
<1>2. /\ now \in Nat /\ Now \in Nat /\ Today \in Nat /\ HourOfDay(Now) \in 0..(HoursPerDay - 1)
      /\ Now = MidnightOf(Today) + HourOfDay(Now) /\ now < 60 * Now + 60
  BY HourOfNow DEF TypeOK, PriceTypeOK
<1>3. /\ Today + k \in Nat /\ HoursPerDay \in Nat /\ k \in Nat
      /\ k > 0 => Today < Today + k
      /\ Today + 0 = Today
  BY <1>2, PriceAssumption, GridAssumption
<1>4. /\ DepartureOn(Today + k) \in Nat
      /\ DepartureOn(Today + k) = 60 * (MidnightOf(Today + k) + cfg.hour) + cfg.minute
      /\ MidnightOf(Today + k) \in Nat /\ cfg.hour \in Nat /\ cfg.minute \in 0..59
      /\ MidnightOf(Today) \in Nat
  BY <1>2, <1>3, DepartureType
<1>5. MidnightOf(Today + k) + cfg.hour >= Now + 1
  <2>1. CASE k = 0
    BY <1>1, <1>2, <1>3, <1>4, <2>1
  <2>2. CASE k > 0
    <3>1. MidnightOf(Today) + HoursPerDay <= MidnightOf(Today + k)
      BY <1>2, <1>3, <2>2, LaterDay
    <3> QED BY <1>2, <1>3, <1>4, <3>1
  <2> QED BY <1>3, <2>1, <2>2
<1> QED BY <1>1, <1>2, <1>4, <1>5

LEMMA DepartureNext == TypeOK => DepartureIsNext
<1> SUFFICES ASSUME TypeOK, cfg.days # {}
             PROVE  /\ Hour(NextDeparture) > Now
                    /\ \E d \in Today..Today + DaysPerWeek :
                          NextDeparture = DepartureOn(d) /\ Weekday(d) \in cfg.days
                    /\ \A d \in Today..Today + DaysPerWeek :
                          Weekday(d) \in cfg.days /\ Hour(DepartureOn(d)) > Now
                             => NextDeparture <= DepartureOn(d)
  BY DEF DepartureIsNext
<1>1. /\ now \in Nat /\ Now \in Nat /\ Today \in Nat /\ HourOfDay(Now) \in 0..(HoursPerDay - 1)
      /\ Now = MidnightOf(Today) + HourOfDay(Now) /\ 60 * Now <= now
      /\ DaysPerWeek \in Nat
  BY HourOfNow, GridAssumption DEF TypeOK, PriceTypeOK
<1>2. Hour(NextDeparture) > Now
  <2>1. NextDeparture \in Nat /\ 60 * Now + 60 <= NextDeparture
    BY DepartureAhead
  <2> QED BY <1>1, <2>1 DEF Hour
<1>3. PICK k \in 0..DaysPerWeek :
           /\ NextDeparture = DepartureOn(Today + k) /\ Weekday(Today + k) \in cfg.days
           /\ \A j \in 0..(k - 1) : Weekday(Today + j) \in cfg.days =>
                 j = 0 /\ cfg.hour <= HourOfDay(Now)
  BY DayOfDeparture
<1>4. Today + k \in Today..Today + DaysPerWeek /\ Today + k \in Nat
  BY <1>1
<1>5. ASSUME NEW d \in Today..Today + DaysPerWeek, Weekday(d) \in cfg.days,
             Hour(DepartureOn(d)) > Now
      PROVE  NextDeparture <= DepartureOn(d)
  <2>1. d \in Nat
    BY <1>1
  <2>2. CASE d >= Today + k
    BY <1>3, <1>4, <2>1, <2>2, LaterDay
  <2>3. CASE d < Today + k
    <3>1. d - Today \in 0..(k - 1) /\ Today + (d - Today) = d
      BY <1>1, <2>1, <2>3
    <3>2. d - Today = 0 /\ cfg.hour <= HourOfDay(Now)
      BY <1>3, <1>5, <3>1
    <3>3. d = Today
      BY <1>1, <2>1, <3>2
    <3>4. Hour(DepartureOn(d)) = MidnightOf(d) + cfg.hour /\ MidnightOf(d) \in Nat /\ cfg.hour \in Nat
      BY <2>1, DepartureType, HourOfDeparture
    <3> QED BY <1>1, <1>5, <3>2, <3>3, <3>4
  <2> QED BY <1>1, <1>4, <2>1, <2>2, <2>3
<1> QED BY <1>2, <1>3, <1>4, <1>5
-----------------------------------------------------------------------------
(***************************************************************************)
(* The table of prices and the hours that are chosen by it.                *)
(***************************************************************************)
SlotIsWhole == now % Slot = 0

\* What is known of the time to come begins with the hour that it is.
NoGap == NoGapFrom(Now, known)

\* What an update has fetched is in the table but for what is still to be written.
WritesInOrder ==
    /\ update.hours \subseteq Answer
    /\ update.pc \in {"writeToday", "writeTomorrow"} => Answer \ update.hours \subseteq known

\* An hour that is used without a limit is a chosen one, until it ends.
ChosenHourIsUsed ==
    /\ blocks \subseteq known
    /\ blocks # {} => cfg.strategy = "priceLimit" \/ cfg.days # {}
    /\ cfg.strategy = "depart" /\ charging /\ (now % 60 # 0 \/ ~tick) => Now \in blocks

PlanInv == SlotIsWhole /\ NoGap /\ WritesInOrder /\ ChosenHourIsUsed /\ PlanNeverPanics

\* Within an hour slots do not end, or with it.
LEMMA SlotEndsWithHour ==
    ASSUME NEW t \in Nat, t % Slot = 0, Hour(t + Slot) # Hour(t)
    PROVE  (t + Slot) % 60 = 0
<1>1. Slot \in Nat \ {0} /\ 60 % Slot = 0
  BY PriceAssumption, SlotAssumption
<1> DEFINE k == 60 \div Slot
           m == t \div Slot
           q == t \div 60
<1>2. k \in Nat /\ m \in Nat /\ 60 = k * Slot /\ t = m * Slot
  BY <1>1, Division
<1>3. q \in Nat /\ 60 * q <= t /\ t < 60 * q + 60
  OBVIOUS
<1>4. (t + Slot) \div 60 # q
  BY DEF Hour
<1> HIDE DEF k, m, q
<1>5. t - 60 * q = (m - k * q) * Slot
  BY <1>1, <1>2, <1>3
<1>6. (m - k * q) < k
  <2>1. CASE m - k * q >= k
    <3>1. k * Slot <= (m - k * q) * Slot
      BY <1>1, <1>2, <1>3, <2>1, TimesMonotone
    <3> QED BY <1>2, <1>3, <1>5, <3>1
  <2> QED BY <1>2, <1>3, <2>1
<1>7. (m - k * q + 1) * Slot <= k * Slot
  BY <1>1, <1>2, <1>3, <1>6, TimesMonotone
<1>8. t + Slot <= 60 * q + 60
  BY <1>1, <1>2, <1>3, <1>5, <1>7
<1>9. t + Slot = 60 * (q + 1)
  BY <1>1, <1>3, <1>4, <1>8
<1> QED BY <1>3, <1>9

\* Tibber's answer begins not after now and leaves out no hour.
LEMMA AnswerHasNoGap ==
    ASSUME now \in Nat, NEW h \in Answer, NEW g \in Now..h
    PROVE  g \in Answer
<1>1. HoursPerDay \in Nat \ {0} /\ Ahead \in Nat /\ LastHour \in Nat
  BY PriceAssumption
<1>2. Now \in Nat /\ Now = Hour(now)
  BY HourOfNow DEF Now
<1>3. h \in Hours /\ (TibberDay(h) = TibberDay(Now) \/ (published /\ TibberDay(h) = TibberDay(Now) + 1))
  BY <1>2 DEF Answer
<1>4. h \in Nat /\ g \in Nat /\ g \in Hours /\ Now <= g /\ g <= h
  BY <1>1, <1>2, <1>3 DEF Hours
<1>5. /\ h + Ahead \in Nat /\ g + Ahead \in Nat /\ Now + Ahead \in Nat
      /\ Now + Ahead <= g + Ahead /\ g + Ahead <= h + Ahead
  BY <1>1, <1>2, <1>4
<1>6. /\ TibberDay(h) \in Nat /\ TibberDay(g) \in Nat /\ TibberDay(Now) \in Nat
      /\ TibberDay(Now) <= TibberDay(g) /\ TibberDay(g) <= TibberDay(h)
  BY <1>1, <1>5, Division, DivisionMonotone DEF TibberDay
<1> QED BY <1>2, <1>3, <1>4, <1>6 DEF Answer

\* So what is chosen from is never empty if there is anything to choose from.
LEMMA NoPanic ==
    ASSUME TypeOK, NoGap, cfg.days # {}
    PROVE  "panic" \notin CheckStartOnGrid
<1> SUFFICES ASSUME "panic" \in CheckStartOnGrid PROVE FALSE
  OBVIOUS
<1>1. ASSUME NEW H, NEW n PROVE "panic" \notin Chosen(H, n)
  BY DEF Chosen
<1>2. ASSUME NEW H PROVE "panic" \notin BelowLimit(H)
  BY <1>1 DEF BelowLimit
<1>3. ASSUME NEW t PROVE "panic" \notin Cheapest(t)
  BY <1>1 DEF Cheapest
<1>4. /\ Upcoming # {} /\ cfg.strategy = "departWithLimit"
      /\ Before(Upcoming, NextDeparture) = {}
  <2>1. cfg.strategy \in Strategies
    BY SituationFields DEF TypeOK, cfg
  <2>2. Upcoming # {} /\ Now \notin blocks
    BY DEF CheckStartOnGrid
  <2>3. CASE cfg.strategy = "priceLimit"
    BY <1>2, <2>2, <2>3 DEF CheckStartOnGrid
  <2>4. CASE cfg.strategy = "depart"
    BY <1>3, <2>2, <2>4 DEF CheckStartOnGrid
  <2>5. CASE cfg.strategy = "departWithLimit"
    BY <1>2, <2>2, <2>5 DEF CheckStartOnGrid
  <2> QED BY <2>1, <2>3, <2>4, <2>5 DEF Strategies
<1>5. PICK h \in known : h >= Now
  BY <1>4 DEF Upcoming
<1>6. Now \in Nat /\ h \in Int /\ known \subseteq Nat
  BY HourOfNow, PriceAssumption DEF TypeOK, PriceTypeOK, Hours
<1>7. Now \in known
  BY <1>5, <1>6 DEF NoGap, NoGapFrom
<1>8. NextDeparture \in Nat /\ 60 * Now < NextDeparture
  BY <1>6, DepartureAhead
<1> QED BY <1>4, <1>6, <1>7, <1>8 DEF Upcoming, Before

\* What is recorded is an hour whose price is known; without a limit an hour is
\* used only as a recorded one.
LEMMA ChooseKnown ==
    ASSUME TypeOK, "choose" \in CheckStartOnGrid
    PROVE  Now \in known /\ (cfg.strategy = "priceLimit" \/ cfg.days # {})
<1>1. Upcoming \subseteq known /\ \A t : Before(Upcoming, t) \subseteq known
  BY DEF Upcoming, Before
<1>2. ASSUME NEW H, H \subseteq known, NEW n, "choose" \in Chosen(H, n) PROVE Now \in known
  BY <1>2 DEF Chosen, AmongCheapest
<1>3. ASSUME NEW H, H \subseteq known, "choose" \in BelowLimit(H) PROVE Now \in known
  BY <1>2, <1>3 DEF BelowLimit
<1>4. ASSUME NEW t, "choose" \in Cheapest(t) PROVE Now \in known
  <2>1. "choose" \in Chosen(Before(Upcoming, t), Required)
    BY <1>4 DEF Cheapest
  <2> QED BY <1>1, <1>2, <2>1
<1>5. /\ Upcoming # {} /\ Now \notin blocks
      /\ cfg.strategy = "priceLimit" \/ cfg.days # {}
  BY DEF CheckStartOnGrid
<1>6. cfg.strategy \in Strategies
  BY SituationFields DEF TypeOK, cfg
<1>7. CASE cfg.strategy = "priceLimit"
  BY <1>1, <1>3, <1>5, <1>7 DEF CheckStartOnGrid
<1>8. CASE cfg.strategy = "depart"
  BY <1>4, <1>5, <1>8 DEF CheckStartOnGrid
<1>9. CASE cfg.strategy = "departWithLimit"
  <2>1. "choose" \in BelowLimit(Before(Upcoming, NextDeparture))
    BY <1>5, <1>9 DEF CheckStartOnGrid
  <2> QED BY <1>1, <1>3, <1>5, <2>1
<1> QED BY <1>5, <1>6, <1>7, <1>8, <1>9 DEF Strategies

LEMMA YesIsChosen ==
    ASSUME cfg.strategy = "depart", "yes" \in CheckStartOnGrid
    PROVE  Now \in blocks
<1>1. ASSUME NEW H, NEW n PROVE "yes" \notin Chosen(H, n)
  BY DEF Chosen
<1>2. ASSUME NEW t PROVE "yes" \notin Cheapest(t)
  BY <1>1 DEF Cheapest
<1> QED BY <1>2 DEF CheckStartOnGrid

LEMMA InitPlan == Init => PlanInv
<1> SUFFICES ASSUME Init PROVE PlanInv
  OBVIOUS
<1>1. SlotIsWhole
  BY SlotAssumption DEF Init, SlotIsWhole
<1>2. NoGap
  BY TableAssumption DEF Init, NoGap, Now
<1>3. WritesInOrder
  BY DEF Init, WritesInOrder, FreshUpdate
<1>4. ChosenHourIsUsed /\ PlanNeverPanics
  BY DEF Init, ChosenHourIsUsed, PlanNeverPanics
<1> QED BY <1>1, <1>2, <1>3, <1>4 DEF PlanInv

LEMMA TickPlan ==
    ASSUME Inv, PlanInv, Tick
    PROVE  PlanInv'
<1>1. UNCHANGED <<now, price, published, known, update, left, first, soc>> /\ tick' = FALSE
  BY DEF Tick, priceVars
<1>2. cfg' = cfg /\ Now' = Now /\ Answer' = Answer
  BY <1>1 DEF cfg, Now, Answer
<1>3. SlotIsWhole' /\ NoGap' /\ WritesInOrder'
  BY <1>1, <1>2 DEF PlanInv, SlotIsWhole, NoGap, WritesInOrder
<1>4. CASE charging' = FALSE /\ UNCHANGED <<blocks, down>>
  BY <1>1, <1>2, <1>3, <1>4 DEF PlanInv, ChosenHourIsUsed, PlanNeverPanics
<1>5. CASE ~charging /\ UNCHANGED <<charging, blocks, down>>
  BY <1>1, <1>2, <1>3, <1>5 DEF PlanInv, ChosenHourIsUsed, PlanNeverPanics
<1>6. ASSUME NEW decision \in CheckStartOnGrid, Decide(decision)
      PROVE  PlanInv'
  <2>1. cfg.days # {} => decision # "panic"
    BY NoPanic DEF Inv, PlanInv
  <2>2. PlanNeverPanics'
    BY <1>2, <1>6, <2>1 DEF Decide, PlanNeverPanics
  <2>3. decision = "choose" =>
          Now \in known /\ (cfg.strategy = "priceLimit" \/ cfg.days # {})
    BY <1>6, ChooseKnown DEF Inv
  <2>4. cfg.strategy = "depart" => (decision = "yes" => Now \in blocks)
    BY <1>6, YesIsChosen
  <2>5. ChosenHourIsUsed'
    BY <1>1, <1>2, <1>6, <2>3, <2>4 DEF Decide, PlanInv, ChosenHourIsUsed
  <2> QED BY <1>3, <2>2, <2>5 DEF PlanInv
<1> QED BY <1>4, <1>5, <1>6 DEF Tick

LEMMA UpdatePlan ==
    ASSUME Inv, PlanInv, Update
    PROVE  PlanInv'
<1>1. UNCHANGED <<now, price, published, first, soc, charging, blocks, tick, down>>
  BY DEF Update, UpdateToday, UpdateTomorrow, WritePrice, Written
<1>2. cfg' = cfg /\ Now' = Now /\ Answer' = Answer
  BY <1>1 DEF cfg, Now, Answer
<1>3. now \in Nat /\ update \in [pc : UpdatePCs, hours : SUBSET Hours] /\ known \subseteq Hours
  BY DEF Inv, TypeOK, PriceTypeOK
<1>4. SlotIsWhole' /\ PlanNeverPanics'
  BY <1>1, <1>2 DEF PlanInv, SlotIsWhole, PlanNeverPanics
<1>5. known \subseteq known'
  BY DEF Update, UpdateToday, UpdateTomorrow, WritePrice, Written
<1>6. ChosenHourIsUsed'
  BY <1>1, <1>2, <1>5 DEF PlanInv, ChosenHourIsUsed
<1>7. NoGap' /\ WritesInOrder'
  <2>1. CASE UpdateToday \/ UpdateTomorrow
    <3>1. known' = known
      BY <2>1 DEF UpdateToday, UpdateTomorrow
    <3>2. \/ update'.hours = update.hours /\ update'.pc \in {"tomorrow", "done"}
          \/ update'.hours = Answer
          \/ update'.hours = {} /\ update'.pc \in {"tomorrow", "done"}
      BY <1>3, <2>1 DEF UpdateToday, UpdateTomorrow, Fetch, Afterwards
    <3> QED BY <1>2, <3>1, <3>2 DEF PlanInv, NoGap, WritesInOrder
  <2>2. CASE WritePrice
    <3>1. PICK h \in update.hours : /\ \A g \in update.hours : h <= g
                                    /\ Written(h, update.hours \ {h})
      BY <2>2 DEF WritePrice
    <3>2. /\ known' = known \cup {h}
          /\ update'.hours = update.hours \ {h}
          /\ update'.pc \in {"tomorrow", "done"} \/ update'.pc = update.pc
      BY <3>1 DEF Written, Afterwards
    <3>3. Answer \ update.hours \subseteq known /\ h \in Answer /\ Now \in Nat
      BY <1>3, <2>2, HourOfNow DEF WritePrice, PlanInv, WritesInOrder
    <3>4. WritesInOrder'
      BY <1>2, <3>2, <3>3 DEF PlanInv, WritesInOrder
    <3>5. ASSUME NEW g \in Now..h PROVE g \in known'
      <4>1. g \in Answer
        BY <1>3, <3>3, AnswerHasNoGap
      <4>2. CASE g = h
        BY <3>2, <4>2
      <4>3. CASE g # h
        <5>1. h \in Int
          BY <3>3, PriceAssumption DEF Answer, Hours
        <5>2. g \notin update.hours
          BY <3>1, <3>3, <4>3, <5>1
        <5> QED BY <3>2, <3>3, <4>1, <5>2
      <4> QED BY <4>2, <4>3
    <3>6. NoGap'
      BY <1>2, <3>2, <3>5 DEF PlanInv, NoGap, NoGapFrom
    <3> QED BY <3>4, <3>6
  <2> QED BY <2>1, <2>2 DEF Update
<1> QED BY <1>4, <1>6, <1>7 DEF PlanInv

LEMMA ElapsePlan ==
    ASSUME Inv, PlanInv, Elapse
    PROVE  PlanInv'
<1>1. /\ now' = now + Slot /\ tick' = TRUE /\ update' = FreshUpdate
      /\ UNCHANGED <<known, first, charging, blocks, down>>
  BY DEF Elapse, SlotPasses
<1>2. cfg' = cfg
  BY <1>1 DEF cfg
<1>3. now \in Nat /\ Slot \in Nat \ {0} /\ ~tick /\ known \subseteq Nat
  BY PriceAssumption DEF Inv, TypeOK, PriceTypeOK, Elapse, Hours
<1>4. SlotIsWhole'
  <2> DEFINE m == now \div Slot
  <2>1. m \in Nat /\ now = m * Slot
    BY <1>3, Division DEF PlanInv, SlotIsWhole
  <2>2. now' = (m + 1) * Slot + 0 /\ m + 1 \in Int
    BY <1>1, <1>3, <2>1
  <2> HIDE DEF m
  <2>3. ((m + 1) * Slot + 0) % Slot = 0
    <3>1. 0 \in 0..(Slot - 1)
      BY <1>3
    <3> QED BY <1>3, <2>2, <3>1, DivisionUnique
  <2> QED BY <2>2, <2>3 DEF SlotIsWhole
<1>5. Now \in Nat /\ Now' \in Nat /\ Now <= Now'
  BY <1>1, <1>3 DEF Now, Hour
<1>6. NoGap'
  BY <1>1, <1>3, <1>5 DEF PlanInv, NoGap, NoGapFrom
<1>7. WritesInOrder'
  BY <1>1 DEF WritesInOrder, FreshUpdate
<1>8. ASSUME now' % 60 # 0 PROVE Now' = Now
  BY <1>1, <1>3, <1>8, SlotEndsWithHour DEF PlanInv, SlotIsWhole, Now
<1>9. ChosenHourIsUsed'
  BY <1>1, <1>2, <1>3, <1>8 DEF PlanInv, ChosenHourIsUsed
<1>10. PlanNeverPanics'
  BY <1>1, <1>2 DEF PlanInv, PlanNeverPanics
<1> QED BY <1>4, <1>6, <1>7, <1>9, <1>10 DEF PlanInv

LEMMA NextPlan == Inv /\ PlanInv /\ [Next]_vars => PlanInv'
<1> SUFFICES ASSUME Inv, PlanInv, [Next]_vars PROVE PlanInv'
  OBVIOUS
<1>1. CASE Restart
  <2>1. UNCHANGED <<now, published, known, first, charging, blocks, tick, down>> /\ update' = FreshUpdate
    BY <1>1 DEF Restart, UpdateStops
  <2>2. cfg' = cfg /\ Now' = Now
    BY <2>1 DEF cfg, Now
  <2> QED BY <2>1, <2>2 DEF PlanInv, SlotIsWhole, NoGap, WritesInOrder, ChosenHourIsUsed,
                            PlanNeverPanics, FreshUpdate
<1>2. CASE UNCHANGED vars
  <2>1. UNCHANGED <<now, published, known, update, first, charging, blocks, tick, down>>
    BY <1>2 DEF vars, priceVars
  <2>2. cfg' = cfg /\ Now' = Now /\ Answer' = Answer
    BY <2>1 DEF cfg, Now, Answer
  <2> QED BY <2>1, <2>2 DEF PlanInv, SlotIsWhole, NoGap, WritesInOrder, ChosenHourIsUsed,
                            PlanNeverPanics
<1> QED BY <1>1, <1>2, TickPlan, UpdatePlan, ElapsePlan DEF Next, Over
-----------------------------------------------------------------------------
\* Prices, table, update and plan keep their types (PriceUpdate and GridCharging).
THEOREM GridTypeOK == Spec => []TypeOK
<1>1. Init => Inv BY InitInv
<1>2. Inv /\ [Next]_vars => Inv' BY NextInv
<1>3. Inv => TypeOK BY DEF Inv
<1> QED BY <1>1, <1>2, <1>3, PTL DEF Spec

\* With a limit the car never charges, once the tick has decided, in an hour above
\* it, whatever is known, chosen or restarted (checkStartOnGrid).
THEOREM LimitIsKept == Spec => []NeverAboveLimit
<1>1. Init => Inv BY InitInv
<1>2. Inv /\ [Next]_vars => Inv' BY NextInv
<1>3. Inv => NeverAboveLimit BY DEF Inv
<1> QED BY <1>1, <1>2, <1>3, PTL DEF Spec

\* For a vehicle with at least one day of departure the node never goes down with an
\* index out of range (without any it does, charge-controller.go:381): what
\* is known from now on begins now, in whatever order updates, restarts and
\* failures have left the table (checkStartOnGrid, updatePrices).
THEOREM NeverPanics == Spec => []PlanNeverPanics
<1>1. Init => Inv /\ PlanInv BY InitInv, InitPlan
<1>2. Inv /\ PlanInv /\ [Next]_vars => (Inv /\ PlanInv)' BY NextInv, NextPlan
<1>3. PlanInv => PlanNeverPanics BY DEF PlanInv
<1> QED BY <1>1, <1>2, <1>3, PTL DEF Spec

\* The departure planned for is the next one in an hour that has not begun, for any
\* hour and minute of departure, days of any length, weeks of any number of days,
\* and any days chosen (getNextDeparture).
THEOREM NextDepartureIsRight == Spec => []DepartureIsNext
<1>1. TypeOK => DepartureIsNext BY DepartureNext
<1> QED BY <1>1, GridTypeOK, PTL

\* Without a limit an hour that has been begun is used to its end, whatever the car
\* gains in it, prices arrive and restarts happen (grid_hourblocks).
THEOREM HoursAreUsedToTheEnd == Spec => HourIsUsedToTheEnd
<1> DEFINE Used == cfg.strategy = "depart" /\ now % 60 # 0 /\ charging /\ ~charging'
                     => soc >= cfg.target
<1>1. Init => Inv /\ PlanInv BY InitInv, InitPlan
<1>2. Inv /\ PlanInv /\ [Next]_vars => (Inv /\ PlanInv)' BY NextInv, NextPlan
<1>3. Inv /\ PlanInv /\ [Next]_vars => [Used]_vars
  <2> SUFFICES ASSUME Inv, PlanInv, [Next]_vars, cfg.strategy = "depart", now % 60 # 0,
                      charging, ~charging'
               PROVE  soc >= cfg.target
    OBVIOUS
  <2>1. Tick
    BY DEF Next, Update, Elapse, Restart, Over, vars
  <2>2. Now \in blocks /\ Now \in Upcoming /\ cfg.days # {}
    <3>1. Now \in blocks /\ Now \in known /\ cfg.days # {}
      BY DEF PlanInv, ChosenHourIsUsed
    <3>2. Now \in Int
      BY HourOfNow DEF Inv, TypeOK, PriceTypeOK
    <3> QED BY <3>1, <3>2 DEF Upcoming
  <2>3. CheckStartOnGrid = {"yes"}
    BY <2>2 DEF CheckStartOnGrid
  <2>4. ~(\E decision \in CheckStartOnGrid : Decide(decision))
    BY <2>3 DEF Decide
  <2> QED BY <2>1, <2>4 DEF Tick
<1>4. Spec => [][Used]_vars
  BY <1>1, <1>2, <1>3, PTL DEF Spec
<1> QED BY <1>4 DEF HourIsUsedToTheEnd
-----------------------------------------------------------------------------
(***************************************************************************)
(* Charging in the cheapest hours, with prices known from the beginning up *)
(* to the first departure.                                                 *)
(***************************************************************************)
Window == Before({h \in first.known : h >= Hour(first.now)}, FirstDeparture)
PricesAreKnown == DepartsAtLowPrices /\ \E h \in Window : 60 * h + 60 >= FirstDeparture
Needed == RequiredBlocks(cfg.target - first.soc)

\* What is still needed, in minutes and in hours.
Minutes == EstimatedMinutes(cfg.target - soc)
Blocks(minutes) == (minutes + 59) \div 60

\* Hours from t on that cost no more than hour g.
NotAbove(g, t) == {x \in Window : x >= t /\ price[x] <= price[g]}
Cheaper(g) == {x \in Window : price[x] < price[g]}

\* When an hour begins, the hours in used have been charged in, and minutes are
\* needed: each hour passed over has left as many hours that are no dearer.
InStep(used, minutes) ==
    /\ Cardinality(used) + Blocks(minutes) <= Needed
    /\ \A g \in Window \ used : g < Now => Blocks(minutes) <= Cardinality(NotAbove(g, Now))
    /\ Minutes <= minutes

HourBegins == now % 60 = 0 /\ tick

HourIsUsed(minutes) ==
    /\ charging /\ Now \in blocks /\ minutes > 0
    /\ Minutes = 0 \/ Minutes + (now % 60) <= minutes

HourIsPassedOver(minutes) == Blocks(minutes) <= Cardinality(NotAbove(Now, Now + 1))

Greedy ==
    \E used \in SUBSET {h \in Window : h < Now}, minutes \in Nat :
        /\ InStep(used, minutes)
        /\ HourBegins \/ HourIsUsed(minutes) \/ HourIsPassedOver(minutes)

\* The car is as good as charged, and takes no more.
Charged == ~charging /\ soc >= cfg.target - 1

\* Whether there was the time to charge.
InTime == FirstDeparture - first.now >= EstimatedMinutes(cfg.target - first.soc)

FirstIsNext ==
    \E d \in Nat : /\ FirstDeparture = DepartureOn(d) /\ Weekday(d) \in cfg.days
                   /\ DepartureOn(d) > first.now
                   /\ \A e \in 0..(d - 1) : Weekday(e) \in cfg.days => DepartureOn(e) <= first.now

ChosenAreCheapest == \A h \in blocks \cap Window : Cardinality(Cheaper(h)) < Needed

Started == first \in Setups /\ first.known \subseteq known /\ first.now <= now /\ FirstIsNext

Progress ==
    \/ now >= FirstDeparture /\ (InTime => Minutes = 0)
    \/ Charged
    \/ now < FirstDeparture /\ Greedy

\* No hour is chosen before its first tick.
ChosenByNow == \A h \in blocks : h < Now \/ (h = Now /\ ~HourBegins)

CheapInv ==
    PricesAreKnown => Started /\ ChosenAreCheapest /\ Progress /\ ChosenByNow

LEMMA WattsPositive ==
    /\ MaxAmps * NumPhases * 230 \in Nat /\ MaxAmps * NumPhases * 230 > 0
<1>1. MaxAmps \in Nat /\ 1 <= MaxAmps /\ NumPhases \in Nat /\ 1 <= NumPhases
  BY GridAssumption
<1>2. 1 * NumPhases <= MaxAmps * NumPhases
  BY <1>1, TimesMonotone
<1> DEFINE n == MaxAmps * NumPhases
<1>3. n \in Nat /\ n >= 1
  BY <1>1, <1>2
<1> HIDE DEF n
<1>4. n * 230 \in Nat /\ n * 230 > 0
  BY <1>3
<1> QED BY <1>4 DEF n

LEMMA MinutesIs ==
    ASSUME NEW p \in Int
    PROVE  EstimatedMinutes(p) \in Nat /\ (p <= 0 => EstimatedMinutes(p) = 0)
<1> DEFINE watts == MaxAmps * NumPhases * 230
<1>1. watts \in Nat /\ watts > 0
  BY WattsPositive
<1>2. EstimatedMinutes(p) = IF p <= 0 THEN 0 ELSE (2 * p * 60000 + watts) \div (2 * watts)
  BY DEF EstimatedMinutes
<1> HIDE DEF watts
<1>3. ASSUME p > 0 PROVE (2 * p * 60000 + watts) \div (2 * watts) \in Nat
  <2>1. 2 * p * 60000 + watts \in Nat /\ 2 * watts \in Nat \ {0}
    BY <1>1, <1>3
  <2> QED BY <2>1, Division
<1> QED BY <1>2, <1>3

LEMMA BlocksAre ==
    ASSUME NEW m \in Nat, NEW n \in Nat
    PROVE  /\ Blocks(m) \in Nat /\ (Blocks(m) = 0 <=> m = 0)
           /\ m <= n => Blocks(m) <= Blocks(n)
           /\ m = 0 \/ m + 60 <= n => (n > 0 => Blocks(m) + 1 <= Blocks(n))
BY DEF Blocks

LEMMA FirstStays ==
    ASSUME first' = first
    PROVE  /\ cfg' = cfg /\ FirstDeparture' = FirstDeparture /\ Window' = Window
           /\ PricesAreKnown' = PricesAreKnown /\ Needed' = Needed
           /\ InTime' = InTime /\ FirstIsNext' = FirstIsNext
<1>1. cfg' = cfg
  BY DEF cfg
<1>2. FirstDeparture' = FirstDeparture
  BY <1>1 DEF FirstDeparture, DepartureOn
<1>3. Window' = Window
  BY <1>2 DEF Window, Before
<1>4. PricesAreKnown' = PricesAreKnown
  BY <1>1, <1>2, <1>3 DEF PricesAreKnown, DepartsAtLowPrices
<1>5. Needed' = Needed /\ InTime' = InTime
  BY <1>1, <1>2 DEF Needed, InTime, RequiredBlocks, EstimatedMinutes
<1>6. FirstIsNext' = FirstIsNext
  BY <1>1, <1>2 DEF FirstIsNext, DepartureOn
<1> QED BY <1>1, <1>2, <1>3, <1>4, <1>5, <1>6

\* The hours and days the window is made of.
LEMMA WindowIs ==
    ASSUME TypeOK
    PROVE  /\ Window \subseteq Nat /\ IsFiniteSet(Window)
           /\ \A x \in Window : /\ x \in first.known /\ x >= Hour(first.now)
                               /\ 60 * x < FirstDeparture /\ price[x] \in Nat
<1>1. first.known \subseteq Hours /\ Hours \subseteq Nat /\ IsFiniteSet(Hours)
  <2>1. 0 \in Int /\ LastHour \in Int /\ Hours = 0..LastHour
    BY PriceAssumption DEF Hours
  <2>2. IsFiniteSet(0..LastHour)
    BY <2>1, FS_Interval
  <2> QED BY <2>1, <2>2, SituationFields DEF TypeOK
<1>2. Window \in SUBSET Hours
  BY <1>1 DEF Window, Before
<1>3. price \in [Hours -> Nat]
  BY DEF TypeOK, PriceTypeOK
<1>4. IsFiniteSet(Window)
  BY <1>1, <1>2, FS_Subset
<1> QED BY <1>1, <1>2, <1>3, <1>4 DEF Window, Before

LEMMA CountIs ==
    ASSUME TypeOK, NEW S \in SUBSET Window, NEW T \in SUBSET S
    PROVE  /\ IsFiniteSet(S) /\ IsFiniteSet(T)
           /\ Cardinality(S) \in Nat /\ Cardinality(T) \in Nat
           /\ Cardinality(T) <= Cardinality(S)
<1>1. IsFiniteSet(S)
  BY WindowIs, FS_Subset
<1>2. IsFiniteSet(T) /\ Cardinality(T) <= Cardinality(S)
  BY <1>1, FS_Subset
<1> QED BY <1>1, <1>2, FS_CardinalityType

\* Settings and setup of a plan that the theorems are about.
LEMMA PlanIs ==
    ASSUME TypeOK, PricesAreKnown, BeginsOnTheHour, first \in Setups
    PROVE  /\ cfg.strategy = "depart" /\ cfg.days # {} /\ cfg.minute = 0 /\ first.now % 60 = 0
           /\ first.now \in Nat /\ first.now = 60 * Hour(first.now) /\ Hour(first.now) \in Nat
           /\ cfg.target \in 1..100 /\ first.soc \in 0..100 /\ soc \in 0..100
           /\ now \in Nat /\ Now \in Nat
           /\ cfg.hour \in Nat /\ NoGapFrom(Hour(first.now), first.known)
           /\ cfg.target \in Nat /\ soc \in Nat
           /\ cfg.target - soc \in Int /\ cfg.target - first.soc \in Int
<1>1. first.known # {}
  BY DEF PricesAreKnown, Window, Before
<1>2. /\ first.now \in Nat /\ first.soc \in 0..100 /\ soc \in 0..100 /\ now \in Nat
      /\ cfg \in Settings
  BY SituationFields DEF TypeOK, PriceTypeOK, cfg
<1>3. cfg.target \in 1..100 /\ cfg.hour \in Nat
  BY <1>2 DEF Settings
<1>4. first.now % 60 = 0 /\ cfg.minute = 0 /\ cfg.strategy = "depart" /\ cfg.days # {}
  BY <1>1 DEF BeginsOnTheHour, PricesAreKnown, DepartsAtLowPrices, cfg
<1>5. first.now = 60 * Hour(first.now) /\ Hour(first.now) \in Nat
  BY <1>2, <1>4 DEF Hour
<1>6. ASSUME NEW a \in 1..100, NEW b \in 0..100 PROVE a \in Nat /\ b \in Nat /\ a - b \in Int
  OBVIOUS
<1>7. /\ cfg.target \in Nat /\ soc \in Nat
      /\ cfg.target - soc \in Int /\ cfg.target - first.soc \in Int
  BY <1>2, <1>3, <1>6
<1> QED BY <1>2, <1>3, <1>4, <1>5, <1>7, TableAssumption, HourOfNow

\* Until the first departure that is the one planned for.
LEMMA FirstIsPlanned ==
    ASSUME TypeOK, PricesAreKnown, BeginsOnTheHour, Started
    PROVE  /\ FirstDeparture \in Nat /\ FirstDeparture > first.now
           /\ \E q \in Nat : FirstDeparture = 60 * q
           /\ now < FirstDeparture => NextDeparture = FirstDeparture
<1>1. /\ cfg.days # {} /\ cfg.minute = 0 /\ now \in Nat /\ first.now \in Nat /\ first.now <= now
      /\ cfg.hour \in Nat
  BY PlanIs DEF Started
<1>2. PICK d \in Nat : /\ FirstDeparture = DepartureOn(d) /\ Weekday(d) \in cfg.days
                       /\ DepartureOn(d) > first.now
                       /\ \A e \in 0..(d - 1) : Weekday(e) \in cfg.days => DepartureOn(e) <= first.now
  BY DEF Started, FirstIsNext
<1>3. /\ DepartureOn(d) \in Nat /\ DepartureOn(d) = 60 * (MidnightOf(d) + cfg.hour)
      /\ MidnightOf(d) + cfg.hour \in Nat
  BY <1>1, DepartureType
<1>4. ASSUME now < FirstDeparture PROVE NextDeparture = FirstDeparture
  <2>1. /\ NextDeparture > now /\ Today \in Nat /\ DaysPerWeek \in Nat
        /\ \A e \in Today..Today + DaysPerWeek :
             Weekday(e) \in cfg.days /\ Hour(DepartureOn(e)) > Now
                => NextDeparture <= DepartureOn(e)
    BY <1>1, DepartureNext, DepartureAhead, HourOfNow, GridAssumption DEF DepartureIsNext
  <2>2. PICK k \in Today..Today + DaysPerWeek :
            NextDeparture = DepartureOn(k) /\ Weekday(k) \in cfg.days
    BY <1>1, DepartureNext DEF DepartureIsNext
  <2>3. k \in Nat /\ DepartureOn(k) \in Nat
    BY <2>1, <2>2, DepartureType
  <2>4. d <= k
    <3>1. SUFFICES ASSUME k < d PROVE FALSE
      BY <2>3
    <3>2. k \in 0..(d - 1)
      BY <2>3, <3>1
    <3>3. DepartureOn(k) <= first.now
      BY <1>2, <2>2, <3>2
    <3> QED BY <1>1, <2>1, <2>2, <2>3, <3>3
  <2>5. FirstDeparture <= NextDeparture
    BY <1>2, <2>2, <2>3, <2>4, LaterDay
  <2>6. d >= Today
    <3>1. SUFFICES ASSUME d < Today PROVE FALSE
      BY <2>1
    <3>2. MidnightOf(d) + HoursPerDay <= MidnightOf(Today)
      BY <2>1, <3>1, LaterDay
    <3>3. cfg.hour <= HoursPerDay - 1 /\ HoursPerDay \in Nat
      BY PriceAssumption DEF TypeOK, cfg, Situation, Settings
    <3>4. /\ Now = MidnightOf(Today) + HourOfDay(Now) /\ HourOfDay(Now) \in Nat /\ 60 * Now <= now
          /\ Now \in Nat
      BY <1>1, HourOfNow, PriceAssumption
    <3>5. MidnightOf(d) \in Nat /\ MidnightOf(Today) \in Nat
      BY <2>1, DepartureType
    <3> QED BY <1>1, <1>2, <1>3, <1>4, <3>2, <3>3, <3>4, <3>5
  <2>7. NextDeparture <= FirstDeparture
    <3>1. d \in Today..Today + DaysPerWeek
      BY <2>1, <2>2, <2>3, <2>4, <2>6
    <3>2. Hour(DepartureOn(d)) > Now
      BY <1>1, <1>2, <1>4, HourOfDeparture
    <3> QED BY <1>2, <2>1, <3>1, <3>2
  <2> QED BY <1>2, <1>3, <2>2, <2>3, <2>5, <2>7
<1> QED BY <1>2, <1>3, <1>4

\* What is chosen from is what is left of the window.
LEMMA ChosenFrom ==
    ASSUME TypeOK, PlanInv, PricesAreKnown, BeginsOnTheHour, Started, now < FirstDeparture
    PROVE  /\ Now \in Window
           /\ Before(Upcoming, NextDeparture) = {x \in Window : x >= Now}
           /\ \E h \in Window : h >= Now /\ NextDeparture - 60 * h <= 60
<1>1. /\ now \in Nat /\ Now \in Nat /\ 60 * Now <= now /\ now < 60 * Now + 60
      /\ first.now \in Nat /\ first.now <= now /\ Hour(first.now) \in Nat
      /\ first.now = 60 * Hour(first.now)
      /\ NoGapFrom(Hour(first.now), first.known) /\ first.known \subseteq known
  BY PlanIs, HourOfNow DEF Started
<1>2. NextDeparture = FirstDeparture /\ FirstDeparture \in Nat
  BY FirstIsPlanned
<1>3. PICK c \in Window : 60 * c + 60 >= FirstDeparture
  BY DEF PricesAreKnown
<1>4. c \in Nat /\ c \in first.known /\ c >= Hour(first.now)
  BY <1>3, WindowIs
<1>5. ASSUME NEW x \in Nat, x >= Now, 60 * x < FirstDeparture
      PROVE  x \in Window
  <2>1. x \in Hour(first.now)..c
    BY <1>1, <1>2, <1>3, <1>4, <1>5
  <2>2. x \in first.known
    BY <1>1, <1>4, <2>1 DEF NoGapFrom
  <2> QED BY <1>1, <1>5, <2>1, <2>2 DEF Window, Before
<1>6. Now \in Window
  BY <1>1, <1>2, <1>5
<1>7. ASSUME NEW x \in Before(Upcoming, NextDeparture)
      PROVE  x \in Window /\ x >= Now
  <2>1. x \in known /\ x >= Now /\ 60 * x < FirstDeparture
    BY <1>2 DEF Before, Upcoming
  <2>2. x \in Nat
    BY <2>1, PriceAssumption DEF TypeOK, PriceTypeOK, Hours
  <2> QED BY <1>5, <2>1, <2>2
<1>8. ASSUME NEW x \in Window, x >= Now
      PROVE  x \in Before(Upcoming, NextDeparture)
  BY <1>1, <1>2, <1>8, WindowIs DEF Before, Upcoming
<1>9. c >= Now /\ NextDeparture - 60 * c <= 60
  BY <1>1, <1>2, <1>3, <1>4
<1> QED BY <1>3, <1>6, <1>7, <1>8, <1>9

\* So a decision compares the hour with those that are left.
LEMMA CheapDecision ==
    ASSUME TypeOK, PlanInv, PricesAreKnown, BeginsOnTheHour, Started, now < FirstDeparture,
           NEW decision \in CheckStartOnGrid
    PROVE  /\ Now \in Window /\ (decision = "yes" <=> Now \in blocks)
           /\ decision = "choose" =>
                Cardinality({x \in Cheaper(Now) : x >= Now}) < Blocks(Minutes)
           /\ decision = "no" => HourIsPassedOver(Minutes)
           /\ decision # "panic"
<1> DEFINE H == Before(Upcoming, NextDeparture)
           cheaper == {g \in H : price[g] < price[Now]}
           rivals == {g \in H \ {Now} : price[g] = price[Now]}
<1>1. /\ cfg.strategy = "depart" /\ cfg.days # {} /\ Now \in Nat
  BY PlanIs DEF Started
<1>2. decision # "panic"
  BY <1>1, NoPanic DEF PlanInv
<1>3. Now \in Window /\ Upcoming # {}
  <2>1. Now \in Window /\ H = {x \in Window : x >= Now}
    BY ChosenFrom
  <2>2. Now \in H
    BY <1>1, <2>1
  <2> QED BY <2>1, <2>2 DEF Before
<1>4. CASE Now \in blocks
  <2>1. decision = "yes"
    BY <1>1, <1>3, <1>4 DEF CheckStartOnGrid
  <2> QED BY <1>3, <1>4, <2>1
<1>5. CASE Now \notin blocks
  <2>1. decision \in Cheapest(NextDeparture)
    BY <1>1, <1>3, <1>5 DEF CheckStartOnGrid
  <2>2. /\ Now \in Window /\ H = {x \in Window : x >= Now}
        /\ \E h \in H : NextDeparture - 60 * h <= 60
    BY ChosenFrom
  <2>3. decision \in Chosen(H, Required) /\ Now \in H
    BY <1>1, <2>1, <2>2 DEF Cheapest
  <2>4. PICK b \in AmongCheapest(Now, H, Required) : decision = IF b THEN "choose" ELSE "no"
    BY <2>3 DEF Chosen
  <2>5. /\ b \in BOOLEAN
        /\ b => Cardinality(cheaper) < Required
        /\ ~b => Cardinality(cheaper \cup rivals) >= Required
    BY <2>3, <2>4, Zenon DEF AmongCheapest
  <2>6. Required = Blocks(Minutes) /\ Blocks(Minutes) \in Nat
    <3>1. cfg.target - soc \in Int
      BY PlanIs DEF Started
    <3> QED BY <3>1, MinutesIs, BlocksAre DEF Required, RequiredBlocks, Blocks, Minutes
  <2>7. cheaper = {x \in Cheaper(Now) : x >= Now}
    BY <2>2 DEF Cheaper
  <2>8. cheaper \cup rivals \subseteq NotAbove(Now, Now + 1)
    <3>1. ASSUME NEW x \in cheaper \cup rivals PROVE x \in NotAbove(Now, Now + 1)
      <4>1. x \in Window /\ x >= Now /\ x # Now /\ price[x] <= price[Now]
        <5>1. x \in Window /\ x >= Now /\ price[x] \in Nat /\ price[Now] \in Nat
          BY <2>2, WindowIs
        <5> QED BY <5>1
      <4> QED BY <1>1, <4>1, WindowIs DEF NotAbove
    <3> QED BY <3>1
  <2>9. /\ Cardinality(cheaper \cup rivals) <= Cardinality(NotAbove(Now, Now + 1))
        /\ Cardinality(cheaper \cup rivals) \in Nat
        /\ Cardinality(NotAbove(Now, Now + 1)) \in Nat
    <3>1. NotAbove(Now, Now + 1) \in SUBSET Window
      BY DEF NotAbove
    <3> HIDE DEF cheaper, rivals
    <3>2. cheaper \cup rivals \in SUBSET NotAbove(Now, Now + 1)
      BY <2>8
    <3> QED BY <3>1, <3>2, CountIs
  <2>10. CASE b
    <3>1. decision = "choose"
      BY <2>4, <2>10
    <3> QED BY <1>3, <1>5, <2>5, <2>6, <2>7, <2>10, <3>1
  <2>11. CASE ~b
    <3>1. decision = "no" /\ Required <= Cardinality(cheaper \cup rivals)
      BY <2>4, <2>5, <2>11
    <3> HIDE DEF cheaper, rivals
    <3>2. HourIsPassedOver(Minutes)
      BY <2>6, <2>9, <3>1 DEF HourIsPassedOver
    <3> QED BY <1>3, <1>5, <3>1, <3>2
  <2> QED BY <2>5, <2>10, <2>11
<1> QED BY <1>2, <1>4, <1>5

\* An hour that is chosen is among the cheapest of all: what cheaper hours there
\* were have all been used.
LEMMA ChosenIsCheap ==
    ASSUME TypeOK, PricesAreKnown, BeginsOnTheHour, first \in Setups, Now \in Window,
           NEW used \in SUBSET {h \in Window : h < Now}, NEW minutes \in Nat, InStep(used, minutes),
           Cardinality({x \in Cheaper(Now) : x >= Now}) < Blocks(Minutes)
    PROVE  Cardinality(Cheaper(Now)) < Needed
<1> DEFINE later == {x \in Cheaper(Now) : x >= Now}
<1>1. /\ Now \in Nat /\ Minutes \in Nat /\ Needed \in Nat
      /\ Blocks(Minutes) \in Nat /\ Blocks(minutes) \in Nat /\ Blocks(Minutes) <= Blocks(minutes)
  <2>1. Now \in Nat /\ cfg.target - soc \in Int /\ cfg.target - first.soc \in Int
    BY PlanIs
  <2>2. Minutes \in Nat /\ EstimatedMinutes(cfg.target - first.soc) \in Nat
    BY <2>1, MinutesIs DEF Minutes
  <2>3. Needed = Blocks(EstimatedMinutes(cfg.target - first.soc))
    BY DEF Needed, RequiredBlocks, Blocks
  <2> QED BY <2>1, <2>2, <2>3, BlocksAre DEF InStep
<1>2. /\ later \in SUBSET Window /\ used \in SUBSET Window
      /\ IsFiniteSet(later) /\ IsFiniteSet(used)
      /\ Cardinality(later) \in Nat /\ Cardinality(used) \in Nat
  <2>1. later \in SUBSET Window /\ used \in SUBSET Window
    BY DEF Cheaper
  <2> HIDE DEF later
  <2> QED BY <2>1, CountIs
<1>3. Cheaper(Now) \subseteq used \cup later
  <2> SUFFICES ASSUME NEW g \in Cheaper(Now), g \notin used, g \notin later
               PROVE  FALSE
    OBVIOUS
  <2>1. g \in Window /\ g \in Nat /\ g < Now /\ price[g] < price[Now]
        /\ price[g] \in Nat /\ price[Now] \in Nat
    <3>1. g \in Window /\ price[g] < price[Now] /\ ~(g >= Now)
      BY DEF Cheaper
    <3>2. g \in Nat /\ price[g] \in Nat /\ price[Now] \in Nat
      BY <3>1, WindowIs
    <3> QED BY <1>1, <3>1, <3>2
  <2>2. Blocks(minutes) <= Cardinality(NotAbove(g, Now))
    BY <2>1 DEF InStep
  <2>3. ASSUME NEW x \in NotAbove(g, Now) PROVE x \in later
    BY <2>1, <2>3, WindowIs DEF NotAbove, Cheaper
  <2>4. NotAbove(g, Now) \in SUBSET later
    BY <2>3
  <2> HIDE DEF later
  <2>5. Cardinality(NotAbove(g, Now)) <= Cardinality(later) /\ Cardinality(NotAbove(g, Now)) \in Nat
    BY <1>2, <2>4, CountIs
  <2> QED BY <1>1, <1>2, <2>2, <2>5 DEF later
<1>4. Cardinality(Cheaper(Now)) <= Cardinality(used \cup later) /\ Cardinality(Cheaper(Now)) \in Nat
      /\ Cardinality(used \cup later) \in Nat
  <2> HIDE DEF later
  <2>1. used \cup later \in SUBSET Window
    BY <1>2
  <2> QED BY <1>3, <2>1, CountIs
<1>5. Cardinality(used \cup later) <= Cardinality(used) + Cardinality(later)
  <2> HIDE DEF later
  <2>1. /\ IsFiniteSet(used \cap later)
        /\ Cardinality(used \cup later)
             = Cardinality(used) + Cardinality(later) - Cardinality(used \cap later)
    BY <1>2, FS_Union, FS_Intersection
  <2>2. Cardinality(used \cap later) \in Nat
    BY <2>1, FS_CardinalityType
  <2> QED BY <1>2, <2>1, <2>2
<1>6. Cardinality(used) + Blocks(minutes) <= Needed
  BY DEF InStep
<1> QED BY <1>1, <1>2, <1>4, <1>5, <1>6

\* What a slot does to the minutes that are needed.
LEMMA SlotCharges ==
    ASSUME TypeOK, PricesAreKnown, BeginsOnTheHour, GainsAsEstimated, first \in Setups, Elapse
    PROVE  /\ Minutes \in Nat /\ Minutes' \in Nat /\ Minutes' <= Minutes /\ soc' >= soc
           /\ charging => Minutes' = 0 \/ Minutes' + Slot <= Minutes
<1>1. /\ cfg' = cfg /\ Minutes = EstimatedMinutes(cfg.target - soc)
      /\ Minutes' = EstimatedMinutes(cfg.target - soc')
  BY DEF Elapse, cfg, Minutes, EstimatedMinutes
<1>2. cfg.target \in 1..100 /\ soc \in 0..100 /\ cfg.target - soc \in Int
  BY PlanIs
<1>3. Slot \in Nat
  BY PriceAssumption
<1>4. Minutes \in Nat
  BY <1>1, <1>2, MinutesIs
<1>5. CASE ~charging
  <2>1. soc' = soc
    BY <1>5 DEF Elapse
  <2> QED BY <1>1, <1>2, <1>4, <1>5, <2>1
<1>6. CASE charging
  <2>1. PICK gain \in Gains : soc' = IF soc + gain > 100 THEN 100 ELSE soc + gain
    BY <1>6 DEF Elapse
  <2>2. gain \in Nat
    BY GridAssumption
  <2>3. soc' >= soc /\ soc' \in Nat /\ cfg.target - soc' \in Int
    BY <1>2, <2>1, <2>2
  <2>4. Minutes' \in Nat
    BY <1>1, <2>3, MinutesIs
  <2>5. Minutes' = 0 \/ Minutes' + Slot <= Minutes
    <3>1. CASE cfg.target - soc' <= 0
      BY <1>1, <2>3, <3>1, MinutesIs
    <3>2. CASE cfg.target - soc' > 0
      <4>1. ASSUME NEW a \in 1..100, NEW b \in 0..100, NEW c \in Nat, a - c > 0, c = b + gain
            PROVE  a - b \in 1..100 /\ a - c = (a - b) - gain
        BY <2>2, <4>1
      <4>2. soc' = soc + gain
        BY <1>2, <2>1, <2>3, <3>2
      <4>3. cfg.target - soc \in 1..100 /\ cfg.target - soc' = (cfg.target - soc) - gain
        BY <1>2, <2>3, <3>2, <4>1, <4>2
      <4> QED BY <1>1, <4>3 DEF GainsAsEstimated
    <3> QED BY <1>2, <2>3, <3>1, <3>2
  <2>6. Minutes' <= Minutes
    <3>1. ASSUME NEW a \in Nat, NEW b \in Nat, a = 0 \/ a + Slot <= b PROVE a <= b
      BY <1>3, <3>1
    <3> QED BY <1>4, <2>4, <2>5, <3>1
  <2> QED BY <1>4, <2>3, <2>4, <2>5, <2>6, Zenon
<1> QED BY <1>5, <1>6

\* What all of this rests on, besides the hours and what is needed.
LEMMA SameTable ==
    ASSUME first' = first, price' = price
    PROVE  /\ \A g, t : NotAbove(g, t)' = NotAbove(g, t)
           /\ \A g : Cheaper(g)' = Cheaper(g)
           /\ \A m : Blocks(m)' = Blocks(m)
<1>1. Window' = Window
  BY FirstStays
<1> QED BY <1>1 DEF NotAbove, Cheaper, Blocks

\* It begins with nothing used and all that is needed ahead.
LEMMA InitCheap ==
    ASSUME Init, TypeOK, BeginsOnTheHour
    PROVE  CheapInv
<1> SUFFICES ASSUME PricesAreKnown
             PROVE  Started /\ ChosenAreCheapest /\ Progress /\ ChosenByNow
  BY DEF CheapInv
<1>1. /\ first \in Setups /\ now = first.now /\ known = first.known /\ soc = first.soc
      /\ tick /\ blocks = {}
  BY DEF Init
<1>2. /\ cfg.days # {} /\ cfg.minute = 0 /\ now % 60 = 0 /\ now \in Nat /\ Now \in Nat
      /\ Now = Hour(first.now)
      /\ cfg.target - soc \in Int
  BY <1>1, PlanIs DEF Now
<1> DEFINE Departs(d) == Weekday(d) \in cfg.days /\ DepartureOn(d) > first.now
           Next1(d) == /\ Departs(d)
                       /\ \A e \in 0..d - 1 : Weekday(e) \in cfg.days => DepartureOn(e) <= first.now
<1>3. PICK k \in 0..DaysPerWeek : Departs(Today + k)
  <2>1. PICK k \in 0..DaysPerWeek : NextDeparture = DepartureOn(Today + k) /\ Weekday(Today + k) \in cfg.days
    BY <1>2, DayOfDeparture
  <2>2. NextDeparture > now
    BY <1>2, DepartureAhead
  <2> QED BY <1>1, <2>1, <2>2
<1>4. /\ Today \in Nat /\ DaysPerWeek \in Nat /\ Today <= Day(LastHour) /\ Day(LastHour) \in Nat
  <2>1. PICK c \in first.known : c >= Now
    BY <1>2 DEF PricesAreKnown, Window, Before
  <2>2. c \in 0..LastHour /\ LastHour \in Nat /\ HoursPerDay \in Nat \ {0}
    BY <1>1, PriceAssumption DEF TypeOK, PriceTypeOK, Hours
  <2>3. Now <= LastHour
    BY <1>2, <2>1, <2>2
  <2>4. Now \div HoursPerDay <= LastHour \div HoursPerDay /\ LastHour \div HoursPerDay \in Nat
    BY <1>2, <2>2, <2>3, Division, DivisionMonotone
  <2> QED BY <1>2, <2>4, HourOfNow, GridAssumption DEF Today, Day, Now
<1>5. PICK d \in Nat : /\ Departs(d) /\ d <= Today + k
                       /\ \A e \in Nat : Departs(e) => d <= e
  <2> DEFINE D == {d \in Nat : Departs(d)}
  <2> HIDE DEF Departs
  <2>1. Today + k \in D /\ D \subseteq Nat
    BY <1>3, <1>4
  <2>2. PICK d \in D : \A e \in D : d <= e
    BY <2>1, LeastNatural
  <2> QED BY <2>1, <2>2
<1>6. d \in 0..Day(LastHour) + DaysPerWeek
  BY <1>4, <1>5
<1>7. Next1(d)
  <2>1. ASSUME NEW e \in 0..d - 1, Weekday(e) \in cfg.days PROVE DepartureOn(e) <= first.now
    <3>1. e \in Nat /\ ~(d <= e)
      BY <1>5, <2>1
    <3>2. ~Departs(e)
      BY <1>5, <3>1
    <3>3. DepartureOn(e) \in Nat
      BY <3>1, DepartureType
    <3> QED BY <1>1, <1>2, <2>1, <3>2, <3>3
  <2> QED BY <1>5, <2>1
<1>8. FirstIsNext
  <2> DEFINE D == 0..Day(LastHour) + DaysPerWeek
             f == CHOOSE x \in D : Next1(x)
  <2>1. FirstDeparture = DepartureOn(f)
    BY DEF FirstDeparture
  <2> HIDE DEF Next1
  <2>2. f \in D /\ Next1(f)
    BY <1>6, <1>7
  <2>3. f \in Nat
    BY <1>4, <2>2
  <2> HIDE DEF f
  <2> USE DEF Next1
  <2> QED BY <2>1, <2>2, <2>3 DEF FirstIsNext
<1>9. Started
  BY <1>1, <1>2, <1>8 DEF Started
<1>10. now < FirstDeparture
  BY <1>1, <1>9, FirstIsPlanned
<1>11. Greedy
  <2>1. Minutes \in Nat /\ Needed = Blocks(Minutes) /\ Blocks(Minutes) \in Nat
    BY <1>1, <1>2, MinutesIs, BlocksAre DEF Minutes, Needed, RequiredBlocks, Blocks
  <2>2. \A g \in Window : ~(g < Now)
    BY <1>2, WindowIs
  <2>3. InStep({}, Minutes)
    BY <2>1, <2>2, FS_EmptySet DEF InStep
  <2>4. HourBegins
    BY <1>1, <1>2 DEF HourBegins
  <2> QED BY <2>1, <2>3, <2>4 DEF Greedy
<1> QED BY <1>1, <1>9, <1>10, <1>11 DEF Progress, ChosenAreCheapest, ChosenByNow

\* What is used stays in step with less that is needed.
LEMMA LaterStep ==
    ASSUME TypeOK, NEW used \in SUBSET {h \in Window : h < Now}, NEW minutes \in Nat,
           InStep(used, minutes), Minutes \in Nat, Needed \in Nat
    PROVE  InStep(used, Minutes)
<1>1. /\ Blocks(minutes) \in Nat /\ Blocks(Minutes) \in Nat /\ Blocks(Minutes) <= Blocks(minutes)
  BY BlocksAre DEF InStep
<1>2. Cardinality(used) \in Nat
  <2>1. used \in SUBSET Window
    OBVIOUS
  <2> QED BY <2>1, CountIs
<1>3. ASSUME NEW g \in Window \ used, g < Now PROVE Blocks(Minutes) <= Cardinality(NotAbove(g, Now))
  <2>1. NotAbove(g, Now) \in SUBSET Window
    BY DEF NotAbove
  <2>2. Cardinality(NotAbove(g, Now)) \in Nat
    BY <2>1, CountIs
  <2>3. Blocks(minutes) <= Cardinality(NotAbove(g, Now))
    BY <1>3 DEF InStep
  <2> QED BY <1>1, <2>2, <2>3
<1>4. Cardinality(used) + Blocks(minutes) <= Needed
  BY DEF InStep
<1>5. Cardinality(used) + Blocks(Minutes) <= Needed
  BY <1>1, <1>2, <1>4
<1>6. Minutes <= Minutes
  OBVIOUS
<1> QED BY <1>3, <1>5, <1>6 DEF InStep

\* A tick takes what is cheap enough, passes over what is not, or is the last.
LEMMA TickCheap ==
    ASSUME Inv, PlanInv, BeginsOnTheHour, CheapInv, Tick
    PROVE  CheapInv'
<1>1. UNCHANGED <<now, price, published, known, update, left, first, soc>> /\ tick /\ tick' = FALSE
  BY DEF Tick, priceVars
<1>2. /\ cfg' = cfg /\ Now' = Now /\ FirstDeparture' = FirstDeparture /\ Window' = Window
      /\ PricesAreKnown' = PricesAreKnown /\ Needed' = Needed /\ InTime' = InTime
      /\ FirstIsNext' = FirstIsNext /\ Minutes' = Minutes
      /\ \A g, t : NotAbove(g, t)' = NotAbove(g, t)
      /\ \A g : Cheaper(g)' = Cheaper(g)
      /\ \A m : Blocks(m)' = Blocks(m)
  BY <1>1, FirstStays, SameTable DEF Now, Minutes, EstimatedMinutes
<1> SUFFICES ASSUME PricesAreKnown
             PROVE  (Started /\ ChosenAreCheapest /\ Progress /\ ChosenByNow)'
  BY <1>2 DEF CheapInv
<1>3. TypeOK /\ Started /\ ChosenAreCheapest /\ Progress /\ ChosenByNow /\ first \in Setups
  BY DEF Inv, CheapInv, Started
<1>4. Started'
  BY <1>1, <1>2, <1>3 DEF Started
<1>5. now \in Nat /\ Now \in Nat /\ Minutes \in Nat /\ Needed \in Nat /\ FirstDeparture \in Nat
      /\ 60 * Now <= now /\ now < 60 * Now + 60
  BY <1>3, PlanIs, FirstIsPlanned, HourOfNow, MinutesIs, BlocksAre
     DEF Minutes, Needed, RequiredBlocks, Blocks
<1>6. ~HourBegins'
  BY <1>1 DEF HourBegins
<1>7. CASE ~charging' /\ blocks' = blocks /\ soc >= cfg.target - 1
  <2>1. ChosenAreCheapest' /\ ChosenByNow'
    BY <1>2, <1>3, <1>6, <1>7 DEF ChosenAreCheapest, ChosenByNow
  <2>2. Charged'
    BY <1>1, <1>2, <1>7 DEF Charged
  <2> QED BY <1>4, <2>1, <2>2 DEF Progress
<1>8. ASSUME NEW decision \in CheckStartOnGrid, Decide(decision), ~Charged
      PROVE  ChosenAreCheapest' /\ Progress' /\ ChosenByNow'
  <2>1. ChosenByNow'
    BY <1>2, <1>3, <1>6, <1>8 DEF Decide, ChosenByNow
  <2>2. CASE now >= FirstDeparture
    <3>1. Now \notin Window
      BY <1>3, <1>5, <2>2, FirstIsPlanned, WindowIs
    <3>2. ChosenAreCheapest'
      BY <1>2, <1>3, <1>8, <3>1 DEF Decide, ChosenAreCheapest
    <3>3. Progress'
      BY <1>1, <1>2, <1>3, <1>5, <1>8, <2>2 DEF Progress, Greedy
    <3> QED BY <2>1, <3>2, <3>3
  <2>3. CASE now < FirstDeparture
    <3>1. PICK used \in SUBSET {h \in Window : h < Now}, minutes \in Nat :
              /\ InStep(used, minutes)
              /\ HourBegins \/ HourIsUsed(minutes) \/ HourIsPassedOver(minutes)
      BY <1>3, <1>5, <1>8, <2>3 DEF Progress, Greedy
    <3>2. /\ Now \in Window /\ (decision = "yes" <=> Now \in blocks)
          /\ decision = "choose" =>
               Cardinality({x \in Cheaper(Now) : x >= Now}) < Blocks(Minutes)
          /\ decision = "no" => HourIsPassedOver(Minutes)
          /\ decision # "panic" /\ decision \in {"no", "yes", "choose", "panic"}
      BY <1>3, <1>8, <2>3, CheapDecision, Decisions
    <3>3. ChosenAreCheapest'
      <4>1. decision = "choose" => Cardinality(Cheaper(Now)) < Needed
        BY <1>3, <3>1, <3>2, ChosenIsCheap
      <4> QED BY <1>2, <1>3, <1>8, <4>1 DEF Decide, ChosenAreCheapest
    <3>4. ASSUME NEW m \in Nat
          PROVE  InStep(used, m)' = InStep(used, m)
      BY <1>2 DEF InStep
    <3>5. HourIsPassedOver(minutes)' = HourIsPassedOver(minutes)
      BY <1>2 DEF HourIsPassedOver
    <3>6. Greedy'
      <4>1. CASE HourIsPassedOver(minutes)
        BY <1>2, <3>1, <3>4, <3>5, <4>1 DEF Greedy
      <4>2. CASE HourIsUsed(minutes)
        <5>1. decision = "yes"
          BY <3>2, <4>2 DEF HourIsUsed
        <5>2. HourIsUsed(minutes)'
          BY <1>1, <1>2, <1>8, <4>2, <5>1 DEF Decide, HourIsUsed
        <5> QED BY <1>2, <3>1, <3>4, <5>2 DEF Greedy
      <4>3. CASE HourBegins
        <5>1. decision # "yes"
          BY <1>3, <1>5, <3>2, <4>3 DEF ChosenByNow
        <5>2. PICK m \in Nat : m = Minutes
          BY <1>5
        <5>3. InStep(used, m)'
          <6>1. InStep(used, m)
            BY <1>3, <1>5, <3>1, <5>2, LaterStep
          <6> QED BY <3>4, <6>1
        <5>4. CASE decision = "no"
          <6>1. HourIsPassedOver(m)
            BY <3>2, <5>2, <5>4
          <6>2. HourIsPassedOver(m)'
            BY <1>2, <6>1 DEF HourIsPassedOver
          <6> QED BY <1>2, <5>3, <6>2 DEF Greedy
        <5>5. CASE decision = "choose"
          <6>1. Minutes > 0
            <7>1. Cardinality({x \in Cheaper(Now) : x >= Now}) \in Nat
              <8>1. {x \in Cheaper(Now) : x >= Now} \in SUBSET Window
                BY DEF Cheaper
              <8> QED BY <1>3, <8>1, CountIs
            <7>2. Blocks(Minutes) \in Nat /\ (Minutes = 0 => Blocks(Minutes) = 0)
              BY <1>5, BlocksAre
            <7> QED BY <1>5, <3>2, <5>5, <7>1, <7>2
          <6>2. charging' /\ Now \in blocks' /\ now % 60 = 0
            BY <1>8, <4>3, <5>5 DEF Decide, HourBegins
          <6>3. HourIsUsed(m)'
            BY <1>1, <1>2, <1>5, <5>2, <6>1, <6>2 DEF HourIsUsed
          <6> QED BY <1>2, <5>3, <6>3 DEF Greedy
        <5> QED BY <3>2, <5>1, <5>4, <5>5
      <4> QED BY <3>1, <4>1, <4>2, <4>3
    <3>7. Progress'
      BY <1>1, <1>2, <2>3, <3>6 DEF Progress
    <3> QED BY <2>1, <3>3, <3>7
  <2> QED BY <1>5, <2>2, <2>3
<1>9. CASE charging /\ soc >= cfg.target
  <2>1. ~charging' /\ blocks' = blocks
    BY <1>9 DEF Tick
  <2>2. soc >= cfg.target - 1
    BY <1>3, <1>9, PlanIs
  <2> QED BY <1>7, <2>1, <2>2
<1>10. CASE ~charging /\ soc >= cfg.target - 1
  <2>1. ~charging' /\ blocks' = blocks
    BY <1>10 DEF Tick
  <2> QED BY <1>7, <1>10, <2>1
<1>11. CASE ~(charging /\ soc >= cfg.target) /\ ~(~charging /\ soc >= cfg.target - 1)
  <2>1. PICK decision \in CheckStartOnGrid : Decide(decision)
    BY <1>11 DEF Tick
  <2>2. ~Charged
    BY <1>11 DEF Charged
  <2> QED BY <1>4, <1>8, <2>1, <2>2
<1> QED BY <1>9, <1>10, <1>11

\* Updates and restarts leave all of this alone.
LEMMA StillCheap ==
    ASSUME CheapInv, UNCHANGED <<now, price, first, soc, charging, blocks, tick>>, known \subseteq known'
    PROVE  CheapInv'
<1>1. /\ cfg' = cfg /\ Now' = Now /\ FirstDeparture' = FirstDeparture /\ Window' = Window
      /\ PricesAreKnown' = PricesAreKnown /\ Needed' = Needed /\ InTime' = InTime
      /\ FirstIsNext' = FirstIsNext /\ Minutes' = Minutes /\ HourBegins' = HourBegins
      /\ \A g, t : NotAbove(g, t)' = NotAbove(g, t)
      /\ \A g : Cheaper(g)' = Cheaper(g)
      /\ \A m : Blocks(m)' = Blocks(m)
  BY FirstStays, SameTable DEF Now, Minutes, EstimatedMinutes, HourBegins
<1> SUFFICES ASSUME PricesAreKnown
             PROVE  (Started /\ ChosenAreCheapest /\ Progress /\ ChosenByNow)'
  BY <1>1 DEF CheapInv
<1>2. Started /\ ChosenAreCheapest /\ Progress /\ ChosenByNow
  BY DEF CheapInv
<1>3. Started' /\ ChosenAreCheapest' /\ ChosenByNow'
  BY <1>1, <1>2 DEF Started, ChosenAreCheapest, ChosenByNow
<1>4. Charged' = Charged
  BY <1>1 DEF Charged
<1>5. ASSUME NEW used, NEW minutes
      PROVE  /\ InStep(used, minutes)' = InStep(used, minutes)
             /\ HourIsUsed(minutes)' = HourIsUsed(minutes)
             /\ HourIsPassedOver(minutes)' = HourIsPassedOver(minutes)
  BY <1>1 DEF InStep, HourIsUsed, HourIsPassedOver
<1>6. Greedy' = Greedy
  BY <1>1, <1>5 DEF Greedy
<1> QED BY <1>1, <1>2, <1>3, <1>4, <1>6 DEF Progress

\* When an hour is over, it has been used or others that are no dearer are left.
LEMMA HourIsOver ==
    ASSUME TypeOK, first \in Setups, price' = price, first' = first,
           Now \in Nat, Now' = Now + 1, Needed \in Nat, Now \in Window,
           NEW used \in SUBSET {h \in Window : h < Now}, NEW minutes \in Nat, InStep(used, minutes),
           NEW m \in Nat, Minutes' = m, m <= minutes,
           \/ minutes > 0 /\ (m = 0 \/ m + 60 <= minutes)
           \/ HourIsPassedOver(minutes)
    PROVE  \E used1 \in SUBSET {h \in Window : h < Now + 1} : InStep(used1, m)'
<1>1. /\ Window' = Window /\ Needed' = Needed
      /\ \A g, t : NotAbove(g, t)' = NotAbove(g, t)
      /\ \A k : Blocks(k)' = Blocks(k)
  BY FirstStays, SameTable
<1>2. ASSUME NEW used1 \in SUBSET Window,
             Cardinality(used1) + Blocks(m) <= Needed,
             \A g \in Window \ used1 : g < Now + 1 => Blocks(m) <= Cardinality(NotAbove(g, Now + 1))
      PROVE  InStep(used1, m)'
  <2>1. Minutes' <= m
    OBVIOUS
  <2> QED BY <1>1, <1>2, <2>1 DEF InStep
<1>3. /\ Blocks(m) \in Nat /\ Blocks(minutes) \in Nat /\ Blocks(m) <= Blocks(minutes)
      /\ minutes > 0 /\ (m = 0 \/ m + 60 <= minutes) => Blocks(m) + 1 <= Blocks(minutes)
  BY BlocksAre
<1>4. /\ used \in SUBSET Window /\ IsFiniteSet(used) /\ Cardinality(used) \in Nat /\ Now \notin used
      /\ Cardinality(used) + Blocks(minutes) <= Needed
  <2>1. used \in SUBSET Window /\ Now \notin used
    OBVIOUS
  <2> QED BY <2>1, CountIs DEF InStep
<1>5. \A g, t : /\ NotAbove(g, t) \in SUBSET Window /\ IsFiniteSet(NotAbove(g, t))
                /\ Cardinality(NotAbove(g, t)) \in Nat
  <2> SUFFICES ASSUME NEW g, NEW t
               PROVE  /\ NotAbove(g, t) \in SUBSET Window /\ IsFiniteSet(NotAbove(g, t))
                      /\ Cardinality(NotAbove(g, t)) \in Nat
    OBVIOUS
  <2>1. NotAbove(g, t) \in SUBSET Window
    BY DEF NotAbove
  <2> QED BY <2>1, CountIs
<1>6. Window \subseteq Nat /\ \A h \in Nat : h < Now => h < Now + 1
  BY WindowIs
<1>7. ASSUME NEW g \in Window, g < Now + 1, g # Now
      PROVE  g < Now
  BY <1>6, <1>7
<1>8. ASSUME NEW x \in Window, x >= Now, x # Now
      PROVE  x >= Now + 1
  BY <1>6, <1>8
<1>9. \A g \in Window \ used : g < Now => Blocks(minutes) <= Cardinality(NotAbove(g, Now))
  BY DEF InStep
<1>10. CASE minutes > 0 /\ (m = 0 \/ m + 60 <= minutes)
  <2>0. PICK used1 : used1 = used \cup {Now}
    OBVIOUS
  <2>1. used1 \in SUBSET {h \in Window : h < Now + 1} /\ used1 \in SUBSET Window
    <3>1. Now < Now + 1 /\ \A h \in used : h \in Window /\ h < Now
      OBVIOUS
    <3> QED BY <1>6, <2>0, <3>1
  <2>2. Cardinality(used1) = Cardinality(used) + 1
    BY <1>4, <2>0, FS_AddElement
  <2>3. Cardinality(used1) + Blocks(m) <= Needed
    BY <1>3, <1>4, <1>10, <2>2
  <2>4. ASSUME NEW g \in Window \ used1, g < Now + 1
        PROVE  Blocks(m) <= Cardinality(NotAbove(g, Now + 1))
    <3>1. g \in Window /\ g \notin used /\ g # Now
      BY <2>0, <2>4
    <3>2. g < Now
      BY <1>7, <2>4, <3>1
    <3>3. Blocks(minutes) <= Cardinality(NotAbove(g, Now))
      BY <1>9, <3>1, <3>2
    <3>4. NotAbove(g, Now) \subseteq NotAbove(g, Now + 1) \cup {Now}
      BY <1>8 DEF NotAbove
    <3>5. /\ IsFiniteSet(NotAbove(g, Now + 1) \cup {Now})
          /\ Cardinality(NotAbove(g, Now + 1) \cup {Now}) <= Cardinality(NotAbove(g, Now + 1)) + 1
          /\ Cardinality(NotAbove(g, Now + 1) \cup {Now}) \in Nat
      <4>1. IsFiniteSet(NotAbove(g, Now + 1)) /\ Cardinality(NotAbove(g, Now + 1)) \in Nat
        BY <1>5
      <4> DEFINE S == NotAbove(g, Now + 1)
      <4> HIDE DEF S
      <4>2. /\ IsFiniteSet(S \cup {Now})
            /\ Cardinality(S \cup {Now}) = Cardinality(S) \/ Cardinality(S \cup {Now}) = Cardinality(S) + 1
        BY <4>1, FS_AddElement DEF S
      <4> QED BY <4>1, <4>2 DEF S
    <3>6. Cardinality(NotAbove(g, Now)) <= Cardinality(NotAbove(g, Now + 1) \cup {Now})
      BY <3>4, <3>5, FS_Subset
    <3>7. /\ Cardinality(NotAbove(g, Now)) \in Nat /\ Cardinality(NotAbove(g, Now + 1)) \in Nat
          /\ Blocks(m) + 1 <= Blocks(minutes)
      BY <1>3, <1>5, <1>10
    <3>8. Blocks(m) \in Nat /\ Blocks(minutes) \in Nat
      BY <1>3
    <3> QED BY <3>3, <3>5, <3>6, <3>7, <3>8
  <2>5. InStep(used1, m)'
    BY <1>2, <2>1, <2>3, <2>4
  <2> QED BY <2>1, <2>5
<1>11. CASE HourIsPassedOver(minutes)
  <2>1. used \in SUBSET {h \in Window : h < Now + 1}
    <3>1. \A h \in used : h \in Window /\ h < Now
      OBVIOUS
    <3> QED BY <1>6, <3>1
  <2>2. Cardinality(used) + Blocks(m) <= Needed
    BY <1>3, <1>4
  <2>3. Blocks(minutes) <= Cardinality(NotAbove(Now, Now + 1))
    BY <1>11 DEF HourIsPassedOver
  <2>4. ASSUME NEW g \in Window \ used, g < Now + 1
        PROVE  Blocks(m) <= Cardinality(NotAbove(g, Now + 1))
    <3>1. price[g] \in Nat /\ price[Now] \in Nat /\ \A x \in Window : x \in Nat /\ price[x] \in Nat
      BY WindowIs
    <3>2. CASE g = Now
      BY <1>3, <1>5, <2>3, <3>2
    <3>3. CASE g # Now /\ price[Now] <= price[g]
      <4>1. \A x \in Window : price[x] <= price[Now] => price[x] <= price[g]
        BY <3>1, <3>3
      <4>2. NotAbove(Now, Now + 1) \subseteq NotAbove(g, Now + 1)
        BY <4>1 DEF NotAbove
      <4>3. Cardinality(NotAbove(Now, Now + 1)) <= Cardinality(NotAbove(g, Now + 1))
        BY <1>5, <4>2, FS_Subset
      <4> QED BY <1>3, <1>5, <2>3, <4>3
    <3>4. CASE g # Now /\ ~(price[Now] <= price[g])
      <4>1. Blocks(minutes) <= Cardinality(NotAbove(g, Now))
        BY <1>9, <1>7, <2>4, <3>4
      <4>2. NotAbove(g, Now) \subseteq NotAbove(g, Now + 1)
        BY <1>8, <3>4, <3>1 DEF NotAbove
      <4>3. Cardinality(NotAbove(g, Now)) <= Cardinality(NotAbove(g, Now + 1))
        BY <1>5, <4>2, FS_Subset
      <4> QED BY <1>3, <1>5, <4>1, <4>3
    <3> QED BY <3>2, <3>3, <3>4
  <2>5. InStep(used, m)'
    BY <1>2, <1>4, <2>2, <2>4
  <2> QED BY <2>1, <2>5
<1> QED BY <1>10, <1>11

\* When the departure is there, no hour is left, and there were enough of them.
LEMMA NothingIsLeft ==
    ASSUME TypeOK, PricesAreKnown, BeginsOnTheHour, Started, InTime,
           NEW t \in Nat, FirstDeparture = 60 * t,
           NEW used \in SUBSET Window, NEW m \in Nat,
           Cardinality(used) + Blocks(m) <= Needed,
           \A g \in Window \ used : Blocks(m) <= Cardinality(NotAbove(g, t))
    PROVE  m = 0
<1>1. /\ Blocks(m) \in Nat /\ (Blocks(m) = 0 => m = 0) /\ \A x \in Window : x \in Nat /\ x < t
  <2>1. Blocks(m) \in Nat /\ (Blocks(m) = 0 => m = 0)
    BY BlocksAre
  <2>2. ASSUME NEW x \in Window PROVE x \in Nat /\ x < t
    <3>1. x \in Nat /\ 60 * x < 60 * t
      BY WindowIs
    <3> QED BY <3>1
  <2> QED BY <2>1, <2>2
<1>2. CASE used # Window
  <2>1. PICK g \in Window \ used : TRUE
    BY <1>2
  <2>2. NotAbove(g, t) = {}
    BY <1>1 DEF NotAbove
  <2>3. Blocks(m) <= 0
    BY <2>1, <2>2, FS_EmptySet
  <2> QED BY <1>1, <2>3
<1>3. CASE used = Window
  <2> DEFINE h0 == Hour(first.now)
             e == EstimatedMinutes(cfg.target - first.soc)
  <2>1. /\ h0 \in Nat /\ first.now = 60 * h0 /\ NoGapFrom(h0, first.known)
        /\ cfg.target - first.soc \in Int
    BY PlanIs DEF Started
  <2>2. PICK c \in Window : 60 * c + 60 >= 60 * t
    BY DEF PricesAreKnown
  <2>3. c \in Nat /\ c \in first.known /\ c >= h0 /\ c + 1 = t
    <3>1. c \in Nat /\ c \in first.known /\ c >= h0
      BY WindowIs
    <3>2. c < t
      BY <1>1
    <3> QED BY <2>2, <3>1, <3>2
  <2>4. h0..(t - 1) \subseteq Window
    <3>1. ASSUME NEW x \in h0..(t - 1) PROVE x \in Window
      <4>1. x \in first.known
        BY <2>1, <2>3 DEF NoGapFrom
      <4>2. x >= h0 /\ 60 * x < 60 * t
        BY <2>1, <3>1
      <4> QED BY <4>1, <4>2 DEF Window, Before
    <3> QED BY <3>1
  <2>5. Cardinality(h0..(t - 1)) = t - h0
    <3>1. h0 \in Int /\ t - 1 \in Int /\ ~(h0 > t - 1)
      BY <2>1, <2>3
    <3> HIDE DEF h0
    <3> QED BY <3>1, FS_Interval
  <2>6. t - h0 <= Cardinality(Window) /\ Cardinality(Window) \in Nat
    <3>1. Window \in SUBSET Window /\ h0..(t - 1) \in SUBSET Window
      BY <2>4
    <3>2. /\ Cardinality(h0..(t - 1)) <= Cardinality(Window)
          /\ Cardinality(Window) \in Nat
      BY <3>1, CountIs
    <3> QED BY <2>5, <3>2
  <2>7. e \in Nat /\ Needed = Blocks(e)
    BY <2>1, MinutesIs DEF Needed, RequiredBlocks, Blocks
  <2>8. e <= 60 * t - 60 * h0
    BY <2>1 DEF InTime
  <2> HIDE DEF h0, e
  <2>9. Blocks(e) <= t - h0 /\ Blocks(e) \in Nat
    BY <2>1, <2>7, <2>8 DEF Blocks
  <2>10. Blocks(m) <= 0
    BY <1>1, <1>3, <2>1, <2>6, <2>7, <2>9
  <2> QED BY <1>1, <2>10
<1> QED BY <1>2, <1>3

\* What the end of a slot is to the hours.
LEMMA SlotIs ==
    ASSUME TypeOK, PlanInv, Elapse
    PROVE  /\ now' = now + Slot /\ Now' \in Nat /\ Now <= Now'
           /\ 60 * Now' <= now' /\ now' < 60 * Now' + 60
           /\ now' % 60 # 0 => Now' = Now /\ now' % 60 = (now % 60) + Slot
           /\ now' % 60 = 0 => /\ Now' = Now + 1 /\ (now % 60) + Slot = 60
                               /\ now' = 60 * (Now + 1)
<1>1. now \in Nat /\ Slot \in Nat \ {0} /\ 60 % Slot = 0 /\ now % Slot = 0 /\ now' = now + Slot
  BY PriceAssumption, SlotAssumption DEF TypeOK, PriceTypeOK, PlanInv, SlotIsWhole, Elapse, SlotPasses
<1>2. Now = now \div 60 /\ Now' = now' \div 60
  BY DEF Now, Hour
<1>3. Slot <= 60
  <2> DEFINE k == 60 \div Slot
  <2>1. k \in Nat /\ 60 = k * Slot
    BY <1>1, Division
  <2> HIDE DEF k
  <2>2. k # 0
    BY <1>1, <2>1
  <2>3. 1 * Slot <= k * Slot
    BY <1>1, <2>1, <2>2, TimesMonotone
  <2> QED BY <1>1, <2>1, <2>3
<1>4. now' % 60 # 0 => Now' = Now
  BY <1>1, <1>2, SlotEndsWithHour DEF Hour
<1> QED BY <1>1, <1>2, <1>3, <1>4

\* A slot brings the hour nearer to its end, and in the end the departure.
LEMMA ElapseCheap ==
    ASSUME Inv, PlanInv, BeginsOnTheHour, GainsAsEstimated, CheapInv, Elapse
    PROVE  CheapInv'
<1>1. /\ now' = now + Slot /\ tick' = TRUE /\ ~tick
      /\ UNCHANGED <<price, known, first, charging, blocks>>
  BY DEF Elapse, SlotPasses
<1>2. /\ cfg' = cfg /\ FirstDeparture' = FirstDeparture /\ Window' = Window
      /\ PricesAreKnown' = PricesAreKnown /\ Needed' = Needed /\ InTime' = InTime
      /\ FirstIsNext' = FirstIsNext
      /\ \A g, t : NotAbove(g, t)' = NotAbove(g, t)
      /\ \A g : Cheaper(g)' = Cheaper(g)
      /\ \A m : Blocks(m)' = Blocks(m)
  BY <1>1, FirstStays, SameTable
<1> SUFFICES ASSUME PricesAreKnown
             PROVE  (Started /\ ChosenAreCheapest /\ Progress /\ ChosenByNow)'
  BY <1>2 DEF CheapInv
<1>3. TypeOK /\ Started /\ ChosenAreCheapest /\ Progress /\ ChosenByNow /\ first \in Setups
  BY DEF Inv, CheapInv, Started
<1>4. /\ now \in Nat /\ Now \in Nat /\ 60 * Now <= now /\ now < 60 * Now + 60 /\ Slot \in Nat \ {0}
      /\ first.now \in Nat /\ FirstDeparture \in Nat /\ Needed \in Nat
  BY <1>3, PlanIs, FirstIsPlanned, HourOfNow, PriceAssumption, MinutesIs, BlocksAre
     DEF Needed, RequiredBlocks, Blocks
<1>5. /\ Now' \in Nat /\ Now <= Now' /\ 60 * Now' <= now' /\ now' < 60 * Now' + 60
      /\ now' % 60 # 0 => Now' = Now /\ now' % 60 = (now % 60) + Slot
      /\ now' % 60 = 0 => /\ Now' = Now + 1 /\ (now % 60) + Slot = 60
                          /\ now' = 60 * (Now + 1)
  BY <1>3, SlotIs
<1>6. PICK q \in Nat : FirstDeparture = 60 * q
  BY <1>3, FirstIsPlanned
<1>7. /\ Minutes \in Nat /\ Minutes' \in Nat /\ Minutes' <= Minutes
      /\ charging => Minutes' = 0 \/ Minutes' + Slot <= Minutes
  BY <1>3, SlotCharges
<1>8. Started' /\ ChosenAreCheapest'
  <2>1. first.now <= now'
    BY <1>1, <1>3, <1>4 DEF Started
  <2> QED BY <1>1, <1>2, <1>3, <2>1 DEF Started, ChosenAreCheapest
<1>9. ChosenByNow'
  <2> SUFFICES ASSUME NEW h \in blocks
               PROVE  h < Now' \/ (h = Now' /\ ~HourBegins')
    BY <1>1 DEF ChosenByNow
  <2>1. (h < Now \/ h = Now) /\ h \in Int
    <3>1. h \in Int
      BY <1>3, PriceAssumption DEF TypeOK, Hours
    <3> QED BY <1>3, <3>1 DEF ChosenByNow
  <2>2. CASE now' % 60 = 0
    BY <1>4, <1>5, <2>1, <2>2
  <2>3. CASE now' % 60 # 0
    BY <1>4, <1>5, <2>1, <2>3 DEF HourBegins
  <2> QED BY <2>2, <2>3
<1>10. CASE now >= FirstDeparture /\ (InTime => Minutes = 0)
  <2>1. now' >= FirstDeparture
    BY <1>1, <1>4, <1>10
  <2>2. InTime' => Minutes' = 0
    BY <1>2, <1>7, <1>10
  <2> QED BY <1>2, <1>8, <1>9, <2>1, <2>2 DEF Progress
<1>11. CASE Charged
  <2>1. soc' = soc
    BY <1>11 DEF Charged, Elapse
  <2>2. Charged'
    BY <1>1, <1>2, <1>11, <2>1 DEF Charged
  <2> QED BY <1>8, <1>9, <2>2 DEF Progress
<1>12. CASE now < FirstDeparture /\ Greedy
  <2>1. PICK used \in SUBSET {h \in Window : h < Now}, minutes \in Nat :
            InStep(used, minutes) /\ (HourIsUsed(minutes) \/ HourIsPassedOver(minutes))
    BY <1>1, <1>12 DEF Greedy, HourBegins
  <2>2. PICK m \in Nat : m = Minutes'
    BY <1>7
  <2>3. m <= minutes /\ Minutes <= minutes
    <3>1. Minutes <= minutes
      BY <2>1 DEF InStep
    <3> QED BY <1>7, <2>2, <3>1
  <2>4. HourIsUsed(minutes) => /\ charging /\ Now \in blocks /\ minutes > 0
                               /\ m = 0 \/ m + (now % 60) + Slot <= minutes
    <3>1. ASSUME HourIsUsed(minutes) PROVE m = 0 \/ m + (now % 60) + Slot <= minutes
      <4>1. charging /\ (Minutes = 0 \/ Minutes + (now % 60) <= minutes)
        BY <3>1 DEF HourIsUsed
      <4>2. m <= Minutes /\ (m = 0 \/ m + Slot <= Minutes)
        BY <1>7, <2>2, <4>1
      <4>3. now % 60 \in Nat
        BY <1>4
      <4> HIDE DEF Minutes
      <4> QED BY <1>4, <1>7, <4>1, <4>2, <4>3
    <3> QED BY <3>1 DEF HourIsUsed
  <2>5. CASE now' % 60 # 0
    <3>1. Now' = Now /\ now' % 60 = (now % 60) + Slot /\ now' < FirstDeparture
      <4>1. q >= Now + 1
        BY <1>4, <1>6, <1>12
      <4> QED BY <1>1, <1>4, <1>5, <1>6, <2>5, <4>1
    <3>2. InStep(used, minutes)'
      <4>1. Minutes' <= minutes
        BY <2>2, <2>3
      <4> QED BY <1>2, <2>1, <3>1, <4>1 DEF InStep
    <3>3. HourIsPassedOver(minutes) => HourIsPassedOver(minutes)'
      BY <1>2, <3>1 DEF HourIsPassedOver
    <3>4. HourIsUsed(minutes) => HourIsUsed(minutes)'
      <4>1. now % 60 \in Nat
        BY <1>4
      <4>2. m = 0 \/ m + ((now % 60) + Slot) <= minutes <=> m = 0 \/ m + (now % 60) + Slot <= minutes
        BY <1>4, <4>1
      <4> QED BY <1>1, <2>2, <2>4, <3>1, <4>2 DEF HourIsUsed
    <3>5. Greedy'
      BY <1>2, <2>1, <3>1, <3>2, <3>3, <3>4 DEF Greedy
    <3> QED BY <1>2, <1>8, <1>9, <3>1, <3>5 DEF Progress
  <2>6. CASE now' % 60 = 0
    <3>1. Now' = Now + 1 /\ (now % 60) + Slot = 60 /\ now' = 60 * (Now + 1) /\ HourBegins'
      BY <1>1, <1>5, <2>6 DEF HourBegins
    <3>2. \/ minutes > 0 /\ (m = 0 \/ m + 60 <= minutes)
          \/ HourIsPassedOver(minutes)
      <4>1. now % 60 \in Nat
        BY <1>4
      <4>2. m + (now % 60) + Slot = m + 60
        BY <1>4, <3>1, <4>1
      <4> QED BY <2>1, <2>4, <4>2
    <3>3. Now \in Window
      BY <1>3, <1>12, ChosenFrom
    <3>4. PICK used1 \in SUBSET {h \in Window : h < Now + 1} : InStep(used1, m)'
      BY <1>1, <1>3, <1>4, <2>1, <2>2, <2>3, <3>1, <3>2, <3>3, HourIsOver
    <3>5. CASE now' < FirstDeparture
      <4>1. Greedy'
        BY <1>2, <3>1, <3>4 DEF Greedy
      <4> QED BY <1>2, <1>8, <1>9, <3>5, <4>1 DEF Progress
    <3>6. CASE now' >= FirstDeparture
      <4>1. q = Now + 1
        BY <1>4, <1>6, <1>12, <3>1, <3>6
      <4>2. InTime => m = 0
        <5>1. /\ used1 \in SUBSET Window
              /\ Cardinality(used1) + Blocks(m) <= Needed
              /\ \A g \in Window \ used1 : g < Now + 1 => Blocks(m) <= Cardinality(NotAbove(g, Now + 1))
          BY <1>2, <3>1, <3>4 DEF InStep
        <5>2. \A g \in Window : g < Now + 1
          <6> SUFFICES ASSUME NEW g \in Window PROVE g < Now + 1
            OBVIOUS
          <6>1. g \in Nat /\ 60 * g < 60 * (Now + 1)
            BY <1>3, <1>6, <4>1, WindowIs
          <6> QED BY <1>4, <6>1
        <5>3. \A g \in Window \ used1 : Blocks(m) <= Cardinality(NotAbove(g, q))
          BY <4>1, <5>1, <5>2
        <5> QED BY <1>3, <1>6, <5>1, <5>3, NothingIsLeft
      <4> QED BY <1>2, <1>8, <1>9, <2>2, <3>6, <4>2 DEF Progress
    <3> QED BY <1>1, <1>4, <3>5, <3>6
  <2> QED BY <2>5, <2>6
<1> QED BY <1>3, <1>10, <1>11, <1>12 DEF Progress

LEMMA NextCheap ==
    ASSUME BeginsOnTheHour, GainsAsEstimated
    PROVE  Inv /\ PlanInv /\ CheapInv /\ [Next]_vars => CheapInv'
<1> SUFFICES ASSUME Inv, PlanInv, CheapInv, [Next]_vars PROVE CheapInv'
  OBVIOUS
<1>1. CASE Update
  <2>1. UNCHANGED <<now, price, first, soc, charging, blocks, tick>> /\ known \subseteq known'
    BY <1>1 DEF Update, UpdateToday, UpdateTomorrow, WritePrice, Written
  <2> QED BY <2>1, StillCheap
<1>2. CASE Restart \/ UNCHANGED vars
  <2>1. UNCHANGED <<now, price, known, first, soc, charging, blocks, tick>>
    BY <1>2 DEF Restart, vars, priceVars
  <2> QED BY <2>1, StillCheap
<1> QED BY <1>1, <1>2, TickCheap, ElapseCheap DEF Next, Over

\* Unless more than 240 kW charge: nothing needed is next to nothing missing.
LEMMA NothingNeeded ==
    ASSUME MaxAmps * NumPhases * 230 <= 240000, NEW p \in Int, EstimatedMinutes(p) = 0
    PROVE  p <= 1
<1> DEFINE watts == MaxAmps * NumPhases * 230
<1>1. watts \in Nat /\ watts > 0 /\ watts <= 240000
  BY WattsPositive
<1>2. EstimatedMinutes(p) = IF p <= 0 THEN 0 ELSE (2 * p * 60000 + watts) \div (2 * watts)
  BY DEF EstimatedMinutes
<1> HIDE DEF watts
<1> SUFFICES ASSUME p >= 2 PROVE FALSE
  OBVIOUS
<1>3. 2 * p * 60000 + watts \in Nat /\ 2 * watts \in Nat \ {0} /\ 2 * watts <= 2 * p * 60000 + watts
  BY <1>1
<1>4. (2 * watts) \div (2 * watts) <= (2 * p * 60000 + watts) \div (2 * watts)
  BY <1>3, DivisionMonotone
<1>5. (2 * watts) \div (2 * watts) = 1
  <2> DEFINE b == 2 * watts
  <2>1. b \in Nat \ {0} /\ 0 \in 0..(b - 1) /\ 1 \in Int /\ 1 * b + 0 = b
    BY <1>3
  <2> HIDE DEF b
  <2>2. b \div b = 1
    BY <2>1, DivisionUnique
  <2> QED BY <2>2 DEF b
<1>6. (2 * p * 60000 + watts) \div (2 * watts) = 0
  BY <1>2
<1> QED BY <1>4, <1>5, <1>6

\* With prices known up to the departure only hours that are among the cheapest
\* until then are used, as many as are needed, whatever the prices, the hours and
\* what the battery gains; SQL's choice among equal prices does no harm.
THEOREM CheapestHoursOnly ==
    ASSUME GainsAsEstimated, BeginsOnTheHour
    PROVE  Spec => []OnlyCheapestHours
<1>1. Init => Inv /\ PlanInv /\ CheapInv
  BY InitInv, InitPlan, InitCheap DEF Inv
<1>2. Inv /\ PlanInv /\ CheapInv /\ [Next]_vars => (Inv /\ PlanInv /\ CheapInv)'
  BY NextInv, NextPlan, NextCheap
<1>3. CheapInv => OnlyCheapestHours
  BY DEF CheapInv, OnlyCheapestHours, ChosenAreCheapest, PricesAreKnown, Window, Needed, Cheaper
<1> QED BY <1>1, <1>2, <1>3, PTL DEF Spec

\* And the car is charged when it departs, if there was the time: the hours used
\* and those passed over leave enough.
THEOREM ChargedInTheCheapestHours ==
    ASSUME GainsAsEstimated, BeginsOnTheHour, MaxAmps * NumPhases * 230 <= 240000
    PROVE  Spec => [](PricesAreKnown => ChargedAtDeparture)
<1>1. Init => Inv /\ PlanInv /\ CheapInv
  BY InitInv, InitPlan, InitCheap DEF Inv
<1>2. Inv /\ PlanInv /\ CheapInv /\ [Next]_vars => (Inv /\ PlanInv /\ CheapInv)'
  BY NextInv, NextPlan, NextCheap
<1>3. Inv /\ CheapInv => (PricesAreKnown => ChargedAtDeparture)
  <2> SUFFICES ASSUME Inv, CheapInv, PricesAreKnown, now = FirstDeparture, InTime
               PROVE  soc >= cfg.target - 1
    BY DEF ChargedAtDeparture, InTime
  <2>1. TypeOK /\ Started /\ Progress /\ first \in Setups
    BY DEF Inv, CheapInv, Started
  <2>2. cfg.target \in Nat /\ soc \in Nat /\ cfg.target - soc \in Int /\ now \in Nat
    BY <2>1, PlanIs
  <2>3. CASE Minutes = 0
    <3>1. cfg.target - soc <= 1
      BY <2>2, <2>3, NothingNeeded DEF Minutes
    <3> QED BY <2>2, <3>1
  <2>4. CASE Charged
    BY <2>4 DEF Charged
  <2> QED BY <2>1, <2>2, <2>3, <2>4 DEF Progress
<1> QED BY <1>1, <1>2, <1>3, PTL DEF Spec
=============================================================================
