------------------------- MODULE TickRegistryProofs -------------------------
(***************************************************************************)
(* Proofs about TickRegistry, for any set of vehicles.                     *)
(***************************************************************************)
EXTENDS TickRegistry, InTickListProofs

LEMMA InitInv == Init => RegistryInv
<1> SUFFICES ASSUME Init PROVE RegistryInv
  OBVIOUS
<1> USE DEF Init, Idle
<1>1. TypeOK
  BY EmptySlice DEF TypeOK, Arrival
<1>2. NoDuplicates
  BY EmptySlice DEF NoDuplicates
<1> QED
  BY <1>1, <1>2 DEF RegistryInv

\* The inductive step, one step per action.
LEMMA NextInv == RegistryInv /\ [Next]_vars => RegistryInv'
<1> SUFFICES ASSUME RegistryInv, [Next]_vars
             PROVE  RegistryInv'
  OBVIOUS
<1> USE DEF RegistryInv, TypeOK, NoDuplicates
<1>1. CASE Tick
  BY <1>1 DEF Tick, Arrival
<1>2. ASSUME NEW v \in VIN, Arrives(v)
      PROVE  RegistryInv'
  <2>1. CASE NothingToDo(v)
    BY <2>1 DEF NothingToDo, MoveTo, Arrival
  <2>2. CASE BeginLookup(v)
    BY <2>2 DEF BeginLookup, MoveTo, Arrival
  <2>3. CASE SkipRound(v)
    BY <2>3 DEF SkipRound, MoveTo, Arrival
  <2>4. CASE NotFound(v)
    BY <2>4 DEF NotFound, MoveTo, Arrival
  <2>5. CASE TornMiss(v)
    BY <2>5 DEF TornMiss, MoveTo, Arrival
  <2>6. CASE Register(v)
    <3>1. Injective(inTick)
      BY DEF Injective
    <3>2. /\ inTick' \in Seq(VIN)
          /\ Injective(inTick')
          /\ \A u : InList(inTick', u) <=> InList(inTick, u) \/ u = v
      BY <2>6, <3>1, SetOutcome DEF Register
    <3>3. /\ arriving' = [arriving EXCEPT ![v] = "none"]
          /\ arriving[v] = "absent"
          /\ working' = [working EXCEPT ![v] = @ + 1]
          /\ panicked' = panicked /\ tornVINs' = tornVINs
      BY <2>6 DEF Register, MoveTo
    <3>4. TypeOK'
      BY <3>2, <3>3 DEF Arrival
    <3>5. NoDuplicates'
      BY <3>2 DEF Injective
    <3>6. ASSUME NEW u \in VIN \ tornVINs
          PROVE  /\ working'[u] <= 1
                 /\ working'[u] = 1 => InList(inTick', u)
                 /\ arriving'[u] = "absent" => working'[u] = 0
                 /\ arriving'[u] # "torn"
      BY <3>2, <3>3
    <3> QED
      BY <3>3, <3>4, <3>5, <3>6
  <2> QED
    BY <1>2, <2>1, <2>2, <2>3, <2>4, <2>5, <2>6 DEF Arrives
<1>3. ASSUME NEW v \in VIN, Panic(v)
      PROVE  RegistryInv'
  BY <1>3 DEF Panic
<1>4. ASSUME NEW v \in VIN, Release(v)
      PROVE  RegistryInv'
  <2>1. Injective(inTick)
    BY DEF Injective
  <2>3. /\ inTick' \in Seq(VIN)
        /\ Injective(inTick')
        /\ \A u : u # v => (InList(inTick', u) <=> InList(inTick, u))
    BY <1>4, <2>1, UnsetKeepsOthers DEF Release
  <2>4. /\ working[v] > 0
        /\ working' = [working EXCEPT ![v] = @ - 1]
        /\ panicked' = panicked
        /\ \A u \in VIN : arriving'[u] = "torn" => arriving[u] = "torn" \/ u \in tornVINs'
        /\ \A u \in VIN : arriving'[u] = "absent" => arriving[u] = "absent"
        /\ arriving' \in [VIN -> Arrival]
        /\ tornVINs \subseteq tornVINs' /\ tornVINs' \subseteq VIN
    BY <1>4 DEF Release, TornBy, Arrival
  <2>5. TypeOK'
    BY <2>3, <2>4
  <2>6. NoDuplicates'
    BY <2>3 DEF Injective
  <2>7. ASSUME NEW u \in VIN \ tornVINs'
        PROVE  /\ working'[u] <= 1
               /\ working'[u] = 1 => InList(inTick', u)
               /\ arriving'[u] = "absent" => working'[u] = 0
               /\ arriving'[u] # "torn"
    BY <2>3, <2>4
  <2> QED
    BY <2>5, <2>6, <2>7
<1>5. CASE Restart
  <2>1. TypeOK'
    BY <1>5, EmptySlice DEF Restart, Arrival
  <2>2. NoDuplicates'
    BY <1>5, EmptySlice DEF Restart
  <2>3. ASSUME NEW u \in VIN
        PROVE  working'[u] = 0 /\ arriving'[u] = "none"
    BY <1>5 DEF Restart
  <2> QED
    BY <2>1, <2>2, <2>3
<1>6. CASE UNCHANGED vars
  BY <1>6 DEF vars
<1> QED
  BY <1>1, <1>2, <1>3, <1>4, <1>5, <1>6 DEF Next

\* The registry as a whole: each VIN is in the slice once, a vehicle that is
\* worked on is in it, and a lookup that found nothing was right, unless torn.
THEOREM RegistryIsSound == Spec => []RegistryInv
BY InitInv, NextInv, PTL DEF Spec

\* Every variable keeps its type, whatever the number of vehicles.
THEOREM RegistryTypeOK == Spec => []TypeOK
<1>1. RegistryInv => TypeOK
  BY DEF RegistryInv
<1> QED
  BY InitInv, NextInv, <1>1, PTL DEF Spec

\* No VIN is in the slice twice.
THEOREM RegistryNoDuplicates == Spec => []NoDuplicates
<1>1. RegistryInv => NoDuplicates
  BY DEF RegistryInv
<1> QED
  BY InitInv, NextInv, <1>1, PTL DEF Spec

\* Only a torn lookup lets two goroutines work on one vehicle.
THEOREM OverlapNeedsTornLookup == Spec => []OverlapOnlyWhenTorn
<1>1. RegistryInv => OverlapOnlyWhenTorn
  BY DEF RegistryInv, OverlapOnlyWhenTorn
<1> QED
  BY InitInv, NextInv, <1>1, PTL DEF Spec

\* The removal panics only with three or more VINs in the slice, those left
\* behind included: the one it is called for stands third or further back.
THEOREM PanicNeedsThreeVehicles == Spec => []PanicNeedsThree
<1>1. Init => PanicNeedsThree
  BY DEF Init, PanicNeedsThree
<1>2. RegistryInv /\ PanicNeedsThree /\ [Next]_vars => PanicNeedsThree'
  <2> SUFFICES ASSUME RegistryInv, PanicNeedsThree, [Next]_vars, panicked'
               PROVE  Len(inTick') > 2
    BY DEF PanicNeedsThree
  <2>1. ASSUME NEW v \in VIN, Panic(v) PROVE Len(inTick') > 2
    <3>1. inTick \in Seq(VIN) /\ Injective(inTick)
      BY DEF RegistryInv, TypeOK, NoDuplicates, Injective
    <3>2. PICK k \in 3..Len(inTick) : inTick[k] = v
      BY <2>1, <3>1, UnsetOutcome DEF Panic
    <3> QED
      BY <2>1, <3>1, <3>2 DEF Panic
  <2>2. CASE UNCHANGED vars
    BY <2>2 DEF PanicNeedsThree, vars
  <2> QED
    BY <2>1, <2>2 DEF Next, Tick, Arrives, NothingToDo, BeginLookup, SkipRound,
       NotFound, TornMiss, Register, MoveTo, Release, Restart
<1> QED
  BY InitInv, NextInv, <1>1, <1>2, PTL DEF Spec
=============================================================================
