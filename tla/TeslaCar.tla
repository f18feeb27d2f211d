------------------------------ MODULE TeslaCar ------------------------------
(***************************************************************************)
(* The cars and the way to them (command server, Tesla's API), as the node *)
(* sees them.  None of this is the repository's code: a car takes commands *)
(* that may be carried out, refused, or carried out with the answer lost.  *)
(* Bounds: left holds how many refusals and losses (faults), settings made *)
(* by the user (edits), test drives, plug-ins and -outs, trips and         *)
(* restarts of the process may still happen.                               *)
(***************************************************************************)
EXTENDS VehicleStore

CONSTANT SelfStart  \* whether a car may start to charge when it is plugged in

CarState == [plugged : BOOLEAN, charging : BOOLEAN, soc : 0..MaxSoC,
             amps : Amps, limit : Limits, home : BOOLEAN]

Bounded == {"faults", "edits", "drives", "plugs", "unplugs", "trips", "restarts"}

ASSUME CarAssumption == SelfStart \in BOOLEAN

VARIABLES car, left

carVars == <<car, left>>

Spend(what) == left[what] > 0 /\ left' = [left EXCEPT ![what] = @ - 1]

CanCharge(c) == c.plugged /\ c.soc < c.limit

\* A command that would bring the car into state c: success, then failure.
CarriedOut(v, c) == car' = [car EXCEPT ![v] = c] /\ UNCHANGED left
Fails(v, c) == Spend("faults") /\ (UNCHANGED car \/ car' = [car EXCEPT ![v] = c])

Started(c) == [c EXCEPT !.charging = TRUE]
Stopped(c) == [c EXCEPT !.charging = FALSE]

\* A sleeping car answers a stop with an error that says so.
Asleep(v) == ~car[v].charging /\ UNCHANGED carVars
-----------------------------------------------------------------------------
\* What happens to a car without the node.
PlugIn(v) ==
    /\ ~car[v].plugged /\ car[v].home
    /\ Spend("plugs")
    /\ \E starts \in {FALSE, SelfStart} :
          car' = [car EXCEPT ![v] = [@ EXCEPT !.plugged = TRUE,
                                              !.charging = starts /\ car[v].soc < car[v].limit]]

Unplug(v) ==
    /\ car[v].plugged
    /\ Spend("unplugs")
    /\ car' = [car EXCEPT ![v] = [@ EXCEPT !.plugged = FALSE, !.charging = FALSE]]

Depart(v) ==
    /\ car[v].home /\ ~car[v].plugged
    /\ Spend("trips")
    /\ car' = [car EXCEPT ![v].home = FALSE]

Return(v) ==
    /\ ~car[v].home
    /\ \E soc \in 0..car[v].soc :
          car' = [car EXCEPT ![v] = [@ EXCEPT !.home = TRUE, !.soc = soc]]
    /\ UNCHANGED left

\* The battery fills; at its own limit the car ends the charging.
Charge(v) ==
    /\ car[v].charging /\ car[v].soc < MaxSoC
    /\ car' = [car EXCEPT ![v] = [@ EXCEPT !.soc = car[v].soc + 1,
                                           !.charging = car[v].soc + 1 < car[v].limit]]
    /\ UNCHANGED left

\* Charging ends by itself: the charging station, the driver, the grid.
Interrupt(v) ==
    /\ car[v].charging
    /\ Spend("faults")
    /\ car' = [car EXCEPT ![v] = Stopped(car[v])]

CarNext(v) == \/ PlugIn(v) \/ Unplug(v) \/ Depart(v) \/ Return(v)
              \/ Charge(v) \/ Interrupt(v)
-----------------------------------------------------------------------------
CarTypeOK ==
    /\ car \in [VIN -> CarState]
    /\ left \in [Bounded -> Nat]
=============================================================================
