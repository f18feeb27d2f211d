-------------------------- MODULE InTickListProofs --------------------------
(***************************************************************************)
(* What setInTick and unsetInTick do to a slice without duplicates.        *)
(***************************************************************************)
EXTENDS InTickList, SequenceTheorems, TLAPS

Injective(list) == \A i, j \in 1..Len(list) : list[i] = list[j] => i = j

\* In a slice without duplicates slices.Index finds the VIN's only place.
LEMMA IndexOfPlace ==
    ASSUME NEW S, NEW list \in Seq(S), Injective(list),
           NEW k \in 1..Len(list)
    PROVE  IndexOf(list, list[k]) = k - 1
<1> DEFINE First(i) == list[i] = list[k] /\ \A j \in 1..(i - 1) : list[j] # list[k]
<1>1. k \in 1..Len(list) /\ First(k)
  BY DEF Injective
<1>2. \A i \in 1..Len(list) : First(i) => i = k
  BY DEF Injective
<1>3. (CHOOSE i \in 1..Len(list) : First(i)) = k
  <2> HIDE DEF First
  <2> QED  BY <1>1, <1>2
<1> QED
  BY <1>3 DEF IndexOf

\* What unsetInTick does to a slice without duplicates: the VIN goes only if
\* it is at the front; second in line it stays; further back Delete panics.
LEMMA UnsetOutcome ==
    ASSUME NEW S, NEW list \in Seq(S), Injective(list), NEW v
    PROVE  /\ UnsetPanics(list, v) <=> \E k \in 3..Len(list) : list[k] = v
           /\ ~UnsetPanics(list, v) =>
                \/ Len(list) > 0 /\ list[1] = v /\ UnsetInTick(list, v) = Tail(list)
                \/ UnsetInTick(list, v) = list
<1>1. CASE ~InList(list, v)
  BY <1>1 DEF InList, UnsetPanics, UnsetInTick
<1>2. CASE InList(list, v)
  <2>1. PICK k \in 1..Len(list) : list[k] = v
    BY <1>2 DEF InList
  <2>2. IndexOf(list, v) = k - 1
    BY <2>1, IndexOfPlace
  <2>3. UnsetPanics(list, v) <=> k > 2
    BY <1>2, <2>2 DEF UnsetPanics, DeletePanics, DeleteEnd
  <2>4. UnsetInTick(list, v) = SubSeq(list, 1, k - 1) \o SubSeq(list, 1 + 1, Len(list))
    <3>1. UnsetInTick(list, v) = Delete(list, k - 1, 1)
      BY <1>2, <2>2 DEF UnsetInTick, DeleteEnd
    <3> QED
      BY <3>1 DEF Delete
  <2>5. UnsetPanics(list, v) <=> \E i \in 3..Len(list) : list[i] = v
    BY <2>1, <2>3 DEF Injective
  <2>6. CASE k = 1
    <3>1. SubSeq(list, 1, k - 1) = << >>
      BY <2>6, SubSeqEmpty
    <3>2. SubSeq(list, 1 + 1, Len(list)) = Tail(list) /\ Tail(list) \in Seq(S)
      BY TailIsSubSeq, HeadTailProperties
    <3>3. << >> \o Tail(list) = Tail(list)
      BY <3>2, ConcatEmptySeq
    <3>4. UnsetInTick(list, v) = Tail(list)
      BY <2>4, <3>1, <3>2, <3>3
    <3> QED
      BY <2>1, <2>5, <2>6, <3>4
  <2>7. CASE k = 2
    <3>1. SubSeq(list, 1, 1) \o SubSeq(list, 1 + 1, Len(list)) = SubSeq(list, 1, Len(list))
      BY <2>7, ConcatAdjacentSubSeq
    <3>2. UnsetInTick(list, v) = list
      BY <2>4, <2>7, <3>1, SubSeqFull
    <3> QED
      BY <2>5, <3>2
  <2> QED
    BY <2>3, <2>5, <2>6, <2>7
<1> QED
  BY <1>1, <1>2

\* What setInTick does: the VIN joins a slice without duplicates at its end.
LEMMA SetOutcome ==
    ASSUME NEW S, NEW list \in Seq(S), Injective(list), NEW v \in S
    PROVE  /\ SetInTick(list, v) \in Seq(S)
           /\ Injective(SetInTick(list, v))
           /\ \A u : InList(SetInTick(list, v), u) <=> InList(list, u) \/ u = v
<1>1. CASE InList(list, v)
  BY <1>1 DEF SetInTick
<1>2. CASE ~InList(list, v)
  <2> DEFINE longer == Append(list, v)
  <2>1. /\ longer \in Seq(S)
        /\ Len(longer) = Len(list) + 1
        /\ \A i \in 1..Len(list) : longer[i] = list[i]
        /\ longer[Len(list) + 1] = v
    BY AppendProperties
  <2>2. SetInTick(list, v) = longer
    BY <1>2 DEF SetInTick
  <2> HIDE DEF longer
  <2>3. Injective(longer)
    BY <1>2, <2>1 DEF Injective, InList
  <2>4. ASSUME NEW u PROVE InList(longer, u) <=> InList(list, u) \/ u = v
    BY <2>1 DEF InList
  <2> QED
    BY <2>1, <2>2, <2>3, <2>4
<1> QED
  BY <1>1, <1>2

\* Dropping the front element of a slice without duplicates.
LEMMA TailOutcome ==
    ASSUME NEW S, NEW list \in Seq(S), Injective(list), Len(list) > 0
    PROVE  /\ Tail(list) \in Seq(S)
           /\ Injective(Tail(list))
           /\ \A u : InList(Tail(list), u) <=> InList(list, u) /\ u # list[1]
<1> DEFINE rest == Tail(list)
<1>1. /\ rest \in Seq(S)
      /\ Len(rest) = Len(list) - 1
      /\ \A i \in 1..Len(rest) : rest[i] = list[i + 1]
  BY HeadTailProperties
<1> HIDE DEF rest
<1>2. Injective(rest)
  BY <1>1 DEF Injective
<1>3. ASSUME NEW u PROVE InList(rest, u) <=> InList(list, u) /\ u # list[1]
  <2>1. ASSUME InList(rest, u) PROVE InList(list, u) /\ u # list[1]
    BY <1>1, <2>1 DEF InList, Injective
  <2>2. ASSUME InList(list, u), u # list[1] PROVE InList(rest, u)
    <3>1. PICK i \in 1..Len(list) : list[i] = u
      BY <2>2 DEF InList
    <3>2. i - 1 \in 1..Len(rest) /\ rest[i - 1] = u
      BY <1>1, <2>2, <3>1
    <3> QED
      BY <3>2 DEF InList
  <2> QED
    BY <2>1, <2>2
<1> QED
  BY <1>1, <1>2, <1>3 DEF rest

\* Removal as a whole: the slice stays a slice without duplicates, and only
\* the VIN removed may be missing afterwards.
LEMMA UnsetKeepsOthers ==
    ASSUME NEW S, NEW list \in Seq(S), Injective(list), NEW v, ~UnsetPanics(list, v)
    PROVE  /\ UnsetInTick(list, v) \in Seq(S)
           /\ Injective(UnsetInTick(list, v))
           /\ \A u : u # v => (InList(UnsetInTick(list, v), u) <=> InList(list, u))
<1>1. CASE UnsetInTick(list, v) = list
  BY <1>1
<1>2. CASE Len(list) > 0 /\ list[1] = v /\ UnsetInTick(list, v) = Tail(list)
  <2>1. Len(list) > 0
    BY <1>2
  <2>2. /\ Tail(list) \in Seq(S)
        /\ Injective(Tail(list))
        /\ \A u : InList(Tail(list), u) <=> InList(list, u) /\ u # list[1]
    BY <2>1, TailOutcome
  <2> QED
    BY <1>2, <2>2
<1> QED
  BY <1>1, <1>2, UnsetOutcome

LEMMA EmptySlice == ASSUME NEW S PROVE << >> \in Seq(S) /\ Len(<< >>) = 0
  BY EmptySeq
=============================================================================
