----------------------------- MODULE InTickList -----------------------------
(***************************************************************************)
(* The slice of VINs a charge controller is working on, and the two        *)
(* functions that change it under inTickMutex.  Indices are Go's: the      *)
(* element at index i of the slice is list[i + 1].                         *)
(***************************************************************************)
EXTENDS Integers, Sequences

InList(list, v) == \E i \in 1..Len(list) : list[i] = v

\* slices.Index: the first index at which v stands, counted from 0.
IndexOf(list, v) ==
    (CHOOSE i \in 1..Len(list) :
        list[i] = v /\ \A j \in 1..(i - 1) : list[j] # v) - 1

SetInTick(list, v) == IF InList(list, v) THEN list ELSE Append(list, v)

\* slices.Delete(s, i, j) removes s[i:j] and panics when that is no range of s.
DeletePanics(list, i, j) == i > j \/ j > Len(list)

Delete(list, i, j) == SubSeq(list, 1, i) \o SubSeq(list, j + 1, Len(list))

\* Mutants: the empty ranges at the front and at the element itself.
DeleteEndZero(i) == 0
DeleteEndSame(i) == i

\* The end of the range is the constant 1, whatever the index.
DeleteEnd(i) == 1

UnsetPanics(list, v) ==
    /\ InList(list, v)
    /\ DeletePanics(list, IndexOf(list, v), DeleteEnd(IndexOf(list, v)))

UnsetInTick(list, v) ==
    IF InList(list, v)
      THEN Delete(list, IndexOf(list, v), DeleteEnd(IndexOf(list, v)))
      ELSE list
=============================================================================
