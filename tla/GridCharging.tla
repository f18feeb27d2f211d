---------------------------- MODULE GridCharging ----------------------------
(***************************************************************************)
(* Charging at low prices: at every tick the controller decides, from the  *)
(* prices it knows and the hours it has chosen before, whether the car     *)
(* charges now.  One vehicle that stays plugged in, with grid charging     *)
(* only; calls to the car succeed here (ChargeController has those that    *)
(* fail).                                                                  *)
(***************************************************************************)
EXTENDS PriceUpdate

CONSTANTS
    DaysPerWeek,    \* 7; days are numbered from 1, Monday
    MaxAmps,        \* the vehicle's current
    NumPhases,      \* and phases
    Gains,          \* percent the battery may gain in a slot
    Setups          \* settings and situations to begin with

Strategies == {"priceLimit", "departWithLimit", "depart"}

Settings == [strategy : Strategies, days : SUBSET (1..DaysPerWeek),
             hour : 0..(HoursPerDay - 1), minute : 0..59, target : 1..100, maxPrice : Nat]

Situation == [cfg : Settings, now : Nat, soc : 0..100, known : SUBSET Hours,
              price : [Hours -> Nat], left : [{"faults", "restarts"} -> Nat]]

ASSUME GridAssumption ==
    /\ {DaysPerWeek, MaxAmps, NumPhases} \subseteq Nat \ {0}
    /\ Gains \subseteq Nat
    /\ Setups \subseteq Situation

\* An hour begins with a slot, as it does with slots of one minute.
ASSUME SlotAssumption ==
    60 % Slot = 0 /\ \A s \in Setups : s.now % Slot = 0

\* From hour h on no price is missing before one that is there.
NoGapFrom(h, H) == \A k \in H : h..k \subseteq H

\* A setup begins with such a table of prices as an update leaves.
ASSUME TableAssumption ==
    \A s \in Setups : NoGapFrom(Hour(s.now), s.known)

VARIABLES
    first,      \* the setup: how it was when the car was plugged in
    soc,        \* the car's state of charge, also the row's
    charging,   \* the row's state
    blocks,     \* table grid_hourblocks: hours chosen
    tick,       \* whether the controller's tick is due
    down        \* whether the process has gone down with a panic

vars == <<priceVars, first, soc, charging, blocks, tick, down>>

cfg == first.cfg
-----------------------------------------------------------------------------
(***************************************************************************)
(* The quantities a decision rests on.                                     *)
(***************************************************************************)
\* Minutes at full current, for a battery taken to have 100 kWh, rounded.
EstimatedMinutes(percent) ==
    LET watts == MaxAmps * NumPhases * 230 IN
    IF percent <= 0 THEN 0 ELSE (2 * percent * 60000 + watts) \div (2 * watts)

\* Mutant: rounds down.
RequiredBlocksFloor(percent) == EstimatedMinutes(percent) \div 60

RequiredBlocks(percent) == (EstimatedMinutes(percent) + 59) \div 60

Now == Hour(now)
Upcoming == {h \in known : h >= Now}
Before(H, t) == {h \in H : 60 * h < t}

Lowest(H) == CHOOSE p \in {price[h] : h \in H} : \A h \in H : p <= price[h]

\* Mutant: one hour more than needed.
AmongCheapestPlusOne(h, H, n) ==
    IF h \notin H THEN {FALSE} ELSE {Cardinality({g \in H : price[g] < price[h]}) <= n}

\* Whether h is among the n cheapest of H: SQL does not order equal prices.
AmongCheapest(h, H, n) ==
    IF h \notin H THEN {FALSE}
    ELSE LET cheaper == {g \in H : price[g] < price[h]}
             rivals == {g \in H \ {h} : price[g] = price[h]} IN
         {b \in BOOLEAN : IF b THEN Cardinality(cheaper) < n
                               ELSE Cardinality(cheaper \cup rivals) >= n}

(***************************************************************************)
(* getNextDeparture: later today, else on a later day of the week, else on *)
(* the first day of the next.                                              *)
(***************************************************************************)
Weekday(d) == 1 + (d % DaysPerWeek)
FirstOf(D) == CHOOSE d \in D : \A e \in D : d <= e
DepartureOn(d) == 60 * (MidnightOf(d) + cfg.hour) + cfg.minute

\* Mutant: a departure within the hour that has begun counts as ahead.
NextDepartureOrNow ==
    LET today == Weekday(Today)
        later == {d \in cfg.days : d > today} IN
    IF today \in cfg.days /\ cfg.hour >= HourOfDay(Now) THEN DepartureOn(Today)
    ELSE IF later # {} THEN DepartureOn(Today + FirstOf(later) - today)
    ELSE DepartureOn(Today + DaysPerWeek - today + FirstOf(cfg.days))

NextDeparture ==
    LET today == Weekday(Today)
        later == {d \in cfg.days : d > today} IN
    IF today \in cfg.days /\ cfg.hour > HourOfDay(Now) THEN DepartureOn(Today)
    ELSE IF later # {} THEN DepartureOn(Today + FirstOf(later) - today)
    ELSE DepartureOn(Today + DaysPerWeek - today + FirstOf(cfg.days))

(***************************************************************************)
(* checkStartOnGrid.  A decision is "no", "yes", "choose" (yes, and the    *)
(* hour is recorded) or "panic", an index out of range.                    *)
(***************************************************************************)
Chosen(H, n) == {IF b THEN "choose" ELSE "no" : b \in AmongCheapest(Now, H, n)}

Required == RequiredBlocks(cfg.target - soc)

\* Mutant: does not look at the price of the hour itself.
BelowLimitOfLowest(H) ==
    IF Now \notin H \/ Lowest(H) > cfg.maxPrice THEN {"no"} ELSE Chosen(H, Required)

\* With a limit, given the prices to choose among: the lowest hours, and those
\* needed besides.
BelowLimit(H) ==
    IF Now \notin H \/ price[Now] > cfg.maxPrice THEN {"no"}
    ELSE IF price[Now] = Lowest(H) THEN {"yes"}
    ELSE Chosen(H, Required)

\* Without one, if the prices up to the departure are known or it is near.
Cheapest(departure) ==
    LET H == Before(Upcoming, departure)
        covered == \E h \in H : departure - 60 * h <= 60
        far == departure - now >= 2 * EstimatedMinutes(cfg.target - soc) IN
    IF ~covered /\ far THEN {"no"} ELSE Chosen(H, Required)

CheckStartOnGrid ==
    IF Upcoming = {} THEN {"no"}
    ELSE IF cfg.strategy # "priceLimit" /\ cfg.days = {} THEN {"panic"}
    ELSE IF Now \in blocks THEN {"yes"}
    ELSE CASE cfg.strategy = "priceLimit" -> BelowLimit(Upcoming)
           [] cfg.strategy = "depart" -> Cheapest(NextDeparture)
           [] cfg.strategy = "departWithLimit" ->
                LET H == Before(Upcoming, NextDeparture) IN
                IF H = {} THEN {"panic"} ELSE BelowLimit(H)
-----------------------------------------------------------------------------
\* Mutants: the hour is not recorded; the minute is recorded instead of the hour.
DecideUnrecorded(decision) ==
    charging' = (decision \in {"yes", "choose"}) /\ blocks' = blocks /\ down' = (decision = "panic")

DecideByMinute(decision) ==
    /\ charging' = (decision \in {"yes", "choose"})
    /\ blocks' = IF decision = "choose" THEN blocks \cup {now} ELSE blocks
    /\ down' = (decision = "panic")

Decide(decision) ==
    /\ charging' = (decision \in {"yes", "choose"})
    /\ blocks' = IF decision = "choose" THEN blocks \cup {Now} ELSE blocks
    /\ down' = (decision = "panic")

\* A tick, as far as it concerns charging from the grid: processVehicle,
\* checkChargeProcess of a car that charges, checkStartCharging of another.
Tick ==
    /\ ~down /\ tick
    /\ tick' = FALSE
    /\ IF charging /\ soc >= cfg.target
         THEN charging' = FALSE /\ UNCHANGED <<blocks, down>>
         ELSE IF ~charging /\ soc >= cfg.target - 1
           THEN UNCHANGED <<charging, blocks, down>>
           ELSE \E decision \in CheckStartOnGrid : Decide(decision)
    /\ UNCHANGED <<priceVars, first, soc>>

Update == /\ ~down
          /\ UpdateToday \/ UpdateTomorrow \/ WritePrice
          /\ UNCHANGED <<first, soc, charging, blocks, tick, down>>

\* The car charges for a slot, with the tick and the update of it done.
Elapse ==
    /\ ~down /\ ~tick
    /\ SlotPasses
    /\ tick' = TRUE
    /\ IF charging THEN \E gain \in Gains : soc' = IF soc + gain > 100 THEN 100 ELSE soc + gain
                   ELSE UNCHANGED soc
    /\ UNCHANGED <<first, charging, blocks, down>>

\* The node restarts; prices and chosen hours stay.
Restart ==
    /\ ~down
    /\ Spend("restarts")
    /\ UpdateStops
    /\ UNCHANGED <<now, price, published, known, first, soc, charging, blocks, tick, down>>

\* The end of the modelled time, or of the process.
Over == /\ down \/ (update.pc = "done" /\ ~tick /\ Hour(now + Slot) > LastHour)
        /\ UNCHANGED vars

Init ==
    /\ first \in Setups
    /\ now = first.now /\ price = first.price /\ known = first.known /\ left = first.left
    /\ published = FALSE
    /\ update = FreshUpdate
    /\ soc = first.soc /\ charging = FALSE /\ blocks = {} /\ tick = TRUE /\ down = FALSE

Next == Tick \/ Update \/ Elapse \/ Restart \/ Over

Spec == Init /\ [][Next]_vars /\ WF_vars(Tick) /\ WF_vars(Update) /\ WF_vars(Elapse)
-----------------------------------------------------------------------------
TypeOK ==
    /\ PriceTypeOK
    /\ first \in Situation /\ soc \in 0..100 /\ charging \in BOOLEAN
    /\ blocks \subseteq Hours /\ tick \in BOOLEAN /\ down \in BOOLEAN

\* What "cheapest" and "charged" rest on: in a slot the battery gains at least what
\* the estimate counts for a slot, and with prices known from the beginning the car
\* is plugged in and departs on the hour.
GainsAsEstimated ==
    \A g \in Gains, p \in 1..100 :
        EstimatedMinutes(p - g) = 0 \/ EstimatedMinutes(p - g) + Slot <= EstimatedMinutes(p)

BeginsOnTheHour ==
    \A s \in Setups : s.cfg.strategy = "depart" /\ s.known # {} =>
        s.now % 60 = 0 /\ s.cfg.minute = 0

DepartsAtLowPrices == cfg.strategy = "depart" /\ cfg.days # {}

FirstDeparture == LET d == CHOOSE d \in 0..Day(LastHour) + DaysPerWeek :
                             /\ Weekday(d) \in cfg.days /\ DepartureOn(d) > first.now
                             /\ \A e \in 0..d - 1 : Weekday(e) \in cfg.days => DepartureOn(e) <= first.now
                  IN  DepartureOn(d)

\* For a vehicle with at least one day to depart on, a decision never runs into an
\* empty list: what is known of the time from now on reaches back to before the
\* departure, wherever an update has stopped or stands.
PlanNeverPanics == cfg.days # {} => ~down

\* The departure planned for is the next one there is in an hour that has not
\* begun, at every time and for every set of days and minute of the hour: only the
\* departure of the current hour is passed over (charge-controller.go:366).
DepartureIsNext ==
    cfg.days # {} =>
        /\ Hour(NextDeparture) > Now
        /\ \E d \in Today..Today + DaysPerWeek :
              NextDeparture = DepartureOn(d) /\ Weekday(d) \in cfg.days
        /\ \A d \in Today..Today + DaysPerWeek :
              Weekday(d) \in cfg.days /\ Hour(DepartureOn(d)) > Now => NextDeparture <= DepartureOn(d)

\* With a limit the car never charges, after a tick, in an hour above it, also
\* on the strength of an hour chosen earlier or before a restart.
NeverAboveLimit ==
    cfg.strategy # "depart" /\ charging /\ ~tick => price[Now] <= cfg.maxPrice

\* Without a limit an hour once begun is used to its end: what the car has
\* gained meanwhile does not drop it again (grid_hourblocks).
HourIsUsedToTheEnd ==
    [][cfg.strategy = "depart" /\ now % 60 # 0 /\ charging /\ ~charging'
          => soc >= cfg.target]_vars

\* "min. price, certainly charged at departure" (frontend-node/src/app/vehicle/
\* page.tsx:297), if there was time and Tibber answers.
ChargedAtDeparture ==
    (/\ DepartsAtLowPrices /\ now = FirstDeparture
     /\ FirstDeparture - first.now >= EstimatedMinutes(cfg.target - first.soc)
     /\ left = first.left)
        => soc >= cfg.target - 1

\* ... and with prices known from the beginning, only hours that are among the
\* cheapest until then are used, as many as were needed.
OnlyCheapestHours ==
    DepartsAtLowPrices =>
    LET window == Before({h \in first.known : h >= Hour(first.now)}, FirstDeparture)
        n == RequiredBlocks(cfg.target - first.soc)
    IN  (\E h \in window : 60 * h + 60 >= FirstDeparture) =>
            \A h \in blocks \cap window : Cardinality({g \in window : price[g] < price[h]}) < n

\* Once Tibber has told tomorrow's prices, all of them are in the table before
\* tomorrow begins, if more updates than faults are still to come today; unless
\* the node panics or is restarted, which while it writes them leaves a part
\* that the next updates take for the whole (db.go:442).
TomorrowIsStored ==
    \A d \in 0..Day(LastHour) :
        (/\ published /\ Today = d /\ TibberDay(Now) = d /\ HourOfDay(Now) > AfterHour
         /\ now + Slot * (left["faults"] + 1) < 60 * MidnightOf(d + 1))
            ~> \/ Today = d /\ {h \in Hours : TibberDay(h) = d + 1} \subseteq known
               \/ down
               \/ left["restarts"] < first.left["restarts"]
=============================================================================
