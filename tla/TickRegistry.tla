---------------------------- MODULE TickRegistry ----------------------------
(***************************************************************************)
(* How the node's charge controller keeps two ticks from working on one    *)
(* vehicle.  Every minute OnTick starts a goroutine per vehicle; each      *)
(* looks for its VIN in the inTick slice without taking the mutex, leaves  *)
(* when it finds it, and otherwise adds it, works, and removes it by a     *)
(* deferred call.  What a goroutine does in between is ChargeController's. *)
(*                                                                         *)
(* The lookup is not atomic.  A removal that runs meanwhile shifts the     *)
(* slice's array to the left and clears its last slot, so that the lookup  *)
(* can step over a VIN that is there throughout ("torn").                  *)
(***************************************************************************)
EXTENDS InTickList, FiniteSets

CONSTANTS
    VIN,        \* the vehicles in the node's database
    MaxWorking  \* bound: goroutines at work on one vehicle when a tick comes

ASSUME MaxWorkingAssumption == MaxWorking \in Nat \ {0}

VARIABLES
    inTick,     \* ChargeController.inTick
    arriving,   \* the goroutine of the latest tick, up to its setInTick
    working,    \* number of goroutines past setInTick, for each vehicle
    panicked,   \* the process is down
    tornVINs    \* auxiliary: vehicles whose lookup a removal has torn

vars == <<inTick, arriving, working, panicked, tornVINs>>

Arrival == {"none", "spawned", "scanning", "torn", "absent"}

Idle == /\ inTick = <<>>
        /\ arriving = [v \in VIN |-> "none"]
        /\ working = [v \in VIN |-> 0]
        /\ tornVINs = {}

Init == Idle /\ panicked = FALSE
-----------------------------------------------------------------------------
(***************************************************************************)
(* OnTick.  The next tick comes a minute later, when the goroutines of the *)
(* one before have long decided whether to work.                           *)
(***************************************************************************)
Tick ==
    /\ ~panicked
    /\ \A v \in VIN : arriving[v] = "none" /\ working[v] < MaxWorking
    /\ arriving' = [v \in VIN |-> "spawned"]
    /\ UNCHANGED <<inTick, working, panicked, tornVINs>>

MoveTo(v, here, there) ==
    /\ ~panicked
    /\ arriving[v] = here
    /\ arriving' = [arriving EXCEPT ![v] = there]

\* No state row, unplugged, or disabled and not charging.
NothingToDo(v) ==
    /\ MoveTo(v, "spawned", "none")
    /\ UNCHANGED <<inTick, working, panicked, tornVINs>>

BeginLookup(v) ==
    /\ MoveTo(v, "spawned", "scanning")
    /\ UNCHANGED <<inTick, working, panicked, tornVINs>>

SkipRound(v) ==
    /\ InList(inTick, v)
    /\ MoveTo(v, "scanning", "none") \/ MoveTo(v, "torn", "none")
    /\ UNCHANGED <<inTick, working, panicked, tornVINs>>

\* Mutant: a lookup that never finds anything.
NotFoundAnyway(v) ==
    /\ MoveTo(v, "scanning", "absent")
    /\ UNCHANGED <<inTick, working, panicked, tornVINs>>

NotFound(v) ==
    /\ MoveTo(v, "scanning", "absent")
    /\ ~InList(inTick, v)
    /\ UNCHANGED <<inTick, working, panicked, tornVINs>>

\* A torn lookup may miss the VIN even if it is in the slice.
TornMiss(v) ==
    /\ MoveTo(v, "torn", "absent")
    /\ UNCHANGED <<inTick, working, panicked, tornVINs>>

Register(v) ==
    /\ MoveTo(v, "absent", "none")
    /\ inTick' = SetInTick(inTick, v)
    /\ working' = [working EXCEPT ![v] = @ + 1]
    /\ UNCHANGED <<panicked, tornVINs>>

(***************************************************************************)
(* The deferred unsetInTick.  It panics outside any recover, which ends    *)
(* the process; it tears the lookups under way when it moves elements.     *)
(***************************************************************************)
TornBy(v, list, list2) ==
    {u \in VIN \ {v} : /\ arriving[u] \in {"scanning", "torn"}
                       /\ list2 # list /\ InList(list2, u)}

Panic(v) ==
    /\ ~panicked /\ working[v] > 0
    /\ UnsetPanics(inTick, v)
    /\ panicked' = TRUE
    /\ UNCHANGED <<inTick, arriving, working, tornVINs>>

Release(v) ==
    /\ ~panicked /\ working[v] > 0
    /\ ~UnsetPanics(inTick, v)
    /\ inTick' = UnsetInTick(inTick, v)
    /\ working' = [working EXCEPT ![v] = @ - 1]
    /\ arriving' = [u \in VIN |->
                      IF u \in TornBy(v, inTick, inTick') THEN "torn" ELSE arriving[u]]
    /\ tornVINs' = tornVINs \cup TornBy(v, inTick, inTick')
    /\ UNCHANGED panicked

\* The container is started again, with an empty controller.
Restart ==
    /\ panicked
    /\ panicked' = FALSE
    /\ inTick' = <<>>
    /\ arriving' = [v \in VIN |-> "none"]
    /\ working' = [v \in VIN |-> 0]
    /\ tornVINs' = {}

Arrives(v) == \/ NothingToDo(v) \/ BeginLookup(v) \/ SkipRound(v)
              \/ NotFound(v) \/ TornMiss(v) \/ Register(v)

Next == \/ Tick
        \/ \E v \in VIN : Arrives(v) \/ Panic(v) \/ Release(v)
        \/ Restart

Spec == Init /\ [][Next]_vars

(***************************************************************************)
(* Goroutines are scheduled, and every call a working goroutine waits for  *)
(* has a timeout, so that its deferred release is reached.                 *)
(***************************************************************************)
FairSpec ==
    /\ Spec
    /\ \A v \in VIN : WF_vars(Arrives(v)) /\ WF_vars(Panic(v) \/ Release(v))
    /\ WF_vars(Tick) /\ WF_vars(Restart)
-----------------------------------------------------------------------------
TypeOK ==
    /\ inTick \in Seq(VIN)
    /\ arriving \in [VIN -> Arrival]
    /\ working \in [VIN -> Nat]
    /\ panicked \in BOOLEAN
    /\ tornVINs \subseteq VIN

\* No VIN stands in the slice twice, although lookups and insertions of
\* different ticks interleave.
NoDuplicates ==
    \A i, j \in 1..Len(inTick) : inTick[i] = inTick[j] => i = j

\* Two goroutines work on one vehicle only after a removal has torn the
\* lookup of one of them: check and insertion being separate steps is not
\* enough for it, nor is a tick that comes while a vehicle is being released.
OverlapOnlyWhenTorn ==
    \A v \in VIN \ tornVINs : working[v] <= 1

\* What makes OverlapOnlyWhenTorn inductive: an untorn vehicle that is worked
\* on is in the slice, and an untorn lookup that found nothing was right.
RegistryInv ==
    /\ TypeOK
    /\ NoDuplicates
    /\ \A v \in VIN \ tornVINs :
          /\ working[v] <= 1
          /\ working[v] = 1 => InList(inTick, v)
          /\ arriving[v] = "absent" => working[v] = 0
          /\ arriving[v] # "torn"

\* The removal ends the process only while three or more VINs are in the slice,
\* those that an earlier removal left behind included: a home with one or two
\* vehicles never meets the panic of slices.Delete (charge-controller.go:79).
PanicNeedsThree == panicked => Len(inTick) > 2

\* While a goroutine works on the vehicle at the front of the slice, the
\* vehicle does get out of it: a vehicle alone is never locked out for good.
FrontIsReleased ==
    \A v \in VIN :
        (InList(inTick, v) /\ IndexOf(inTick, v) = 0 /\ working[v] > 0)
            ~> ~InList(inTick, v)

\* What charge-controller_test.go:1384 says of unsetInTick: afterwards the VIN
\* is not in the slice.
ReleaseForgetsVIN ==
    [][\A v \in VIN :
        working'[v] = working[v] - 1 /\ ~panicked' => ~InList(inTick', v)]_vars
=============================================================================
