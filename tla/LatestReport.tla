---------------------------- MODULE LatestReport ----------------------------
(***************************************************************************)
(* What the way from the car to the node promises: the node learns the     *)
(* reports of a vehicle's telemetry in the order in which the server has   *)
(* accepted them.  It may miss some, and learn one twice, but never goes   *)
(* back to an earlier one, as long as reports are taken one at a time.     *)
(***************************************************************************)
EXTENDS Naturals

CONSTANT VIN

VARIABLES
    latest,     \* per vehicle, the number of the latest report accepted
    learnt,     \* per vehicle, the number of the latest report the node knows
    orderly     \* whether reports have been taken one at a time so far

Init ==
    /\ latest \in [VIN -> Nat]
    /\ learnt = [v \in VIN |-> 0]
    /\ orderly = TRUE

Accept(v) ==
    /\ \E n \in {latest'[v]} : n > latest[v] /\ latest' = [latest EXCEPT ![v] = n]
    /\ UNCHANGED <<learnt, orderly>>

Learn(v) ==
    /\ learnt' = [learnt EXCEPT ![v] = learnt'[v]]
    /\ learnt'[v] \in learnt[v]..latest[v]
    /\ UNCHANGED <<latest, orderly>>

Disorder == orderly' = FALSE

Next == Disorder \/ (orderly /\ \E v \in VIN : Accept(v) \/ Learn(v))

Spec == Init /\ [][Next]_<<latest, learnt, orderly>>
=============================================================================
