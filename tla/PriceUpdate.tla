---------------------------- MODULE PriceUpdate ----------------------------
(***************************************************************************)
(* Electricity prices: the update that fetches them from Tibber every few  *)
(* minutes, and the table tibber_prices it keeps them in, for one vehicle. *)
(*                                                                         *)
(* Time is counted in minutes from the start of a Monday, UTC; an hour is  *)
(* known by its number.  Tibber's days are the customer's: they start      *)
(* Ahead hours before those of UTC, by which the code goes.                *)
(***************************************************************************)
EXTENDS Integers, FiniteSets

CONSTANTS
    HoursPerDay,    \* 24
    AfterHour,      \* prices of the next day are asked for after this hour (12)
    Ahead,          \* the customer's time zone
    Slot,           \* bound: minutes between the ticks that are modelled
    LastHour        \* bound: the hours there are

ASSUME PriceAssumption ==
    /\ {HoursPerDay, Slot} \subseteq Nat \ {0}
    /\ {AfterHour, Ahead, LastHour} \subseteq Nat

VARIABLES
    now,        \* minutes
    price,      \* external: what Tibber asks for each hour
    published,  \* external: whether it has told the prices of its next day
    known,      \* table tibber_prices: the hours whose price is in it
    update,     \* the goroutine of the price update
    left        \* bounds: faults and restarts there may still be

priceVars == <<now, price, published, known, update, left>>

Hours == 0..LastHour
Hour(t) == t \div 60
Day(h) == h \div HoursPerDay
HourOfDay(h) == h % HoursPerDay
MidnightOf(d) == d * HoursPerDay
Today == Day(Hour(now))

Spend(what) == left[what] > 0 /\ left' = [left EXCEPT ![what] = @ - 1]
-----------------------------------------------------------------------------
\* Tibber's answer: today's prices, and tomorrow's once there are any.
TibberDay(h) == (h + Ahead) \div HoursPerDay

Answer ==
    LET today == TibberDay(Hour(now)) IN
    {h \in Hours : TibberDay(h) = today \/ (published /\ TibberDay(h) = today + 1)}

\* An update goes through its steps once in a while; what is left to write is
\* written hour by hour, in order of time.
UpdatePCs == {"today", "writeToday", "tomorrow", "writeTomorrow", "done"}
FreshUpdate == [pc |-> "today", hours |-> {}]

PricesFrom(day) == \E h \in known : h >= MidnightOf(day)

Afterwards(pc) == IF pc = "today" \/ pc = "writeToday" THEN "tomorrow" ELSE "done"

\* TibberAPIGetPrices, which may fail.
Fetch(then) ==
    \/ update' = [pc |-> then, hours |-> Answer] /\ UNCHANGED left
    \/ update' = [pc |-> Afterwards(update.pc), hours |-> {}] /\ Spend("faults")

UpdateToday ==
    /\ update.pc = "today"
    /\ IF PricesFrom(Today) THEN update' = [update EXCEPT !.pc = "tomorrow"] /\ UNCHANGED left
                            ELSE Fetch("writeToday")
    /\ UNCHANGED <<now, price, published, known>>

\* Mutant: asks whether there are prices from today on.
UpdateTomorrowIfNoneToday ==
    /\ update.pc = "tomorrow"
    /\ IF HourOfDay(Hour(now)) > AfterHour /\ ~PricesFrom(Today)
         THEN Fetch("writeTomorrow")
         ELSE update' = [update EXCEPT !.pc = "done"] /\ UNCHANGED left
    /\ UNCHANGED <<now, price, published, known>>

UpdateTomorrow ==
    /\ update.pc = "tomorrow"
    /\ IF HourOfDay(Hour(now)) > AfterHour /\ ~PricesFrom(Today + 1)
         THEN Fetch("writeTomorrow")
         ELSE update' = [update EXCEPT !.pc = "done"] /\ UNCHANGED left
    /\ UNCHANGED <<now, price, published, known>>

Written(h, rest) ==
    /\ known' = known \cup {h}
    /\ update' = [pc |-> IF rest = {} THEN Afterwards(update.pc) ELSE update.pc, hours |-> rest]
    /\ UNCHANGED <<now, price, published, left>>

\* Mutant: writes the latest hour first.
WriteLatest ==
    /\ update.pc \in {"writeToday", "writeTomorrow"}
    /\ \E h \in update.hours : /\ \A g \in update.hours : g <= h
                              /\ Written(h, update.hours \ {h})

\* SetTibberPrice.
WritePrice ==
    /\ update.pc \in {"writeToday", "writeTomorrow"}
    /\ \E h \in update.hours : /\ \A g \in update.hours : h <= g
                              /\ Written(h, update.hours \ {h})
-----------------------------------------------------------------------------
\* A slot of time passes: another update is due, and Tibber may have got the
\* prices of its next day.
SlotPasses ==
    /\ update.pc = "done" /\ Hour(now + Slot) <= LastHour
    /\ now' = now + Slot
    /\ published' \in IF TibberDay(Hour(now')) = TibberDay(Hour(now))
                         THEN {published, TRUE} ELSE {FALSE}
    /\ update' = FreshUpdate
    /\ UNCHANGED <<price, known, left>>

UpdateStops == update' = FreshUpdate

PriceTypeOK ==
    /\ now \in Nat
    /\ price \in [Hours -> Nat]
    /\ published \in BOOLEAN
    /\ known \subseteq Hours
    /\ update \in [pc : UpdatePCs, hours : SUBSET Hours]
    /\ left \in [{"faults", "restarts"} -> Nat]
=============================================================================
