---------------------------- MODULE NumberLemmas ----------------------------
(***************************************************************************)
(* Facts about numbers that the proofs about prices and currents need.     *)
(***************************************************************************)
EXTENDS Integers, FiniteSetTheorems, TLAPS

\* A set of natural numbers has a least one: an argument by induction takes the
\* least of what would be counterexamples.
LEMMA LeastNatural ==
    ASSUME NEW T, T \subseteq Nat, T # {}
    PROVE  \E m \in T : \A n \in T : m <= n
<1>1. IsWellFoundedOn({ss \in Nat \X Nat : ss[1] < ss[2]}, Nat)
  BY NatLessThanWellFounded DEF OpToRel
<1>2. PICK m \in T : \A n \in T : <<n, m>> \notin {ss \in Nat \X Nat : ss[1] < ss[2]}
  BY <1>1, WFMin, Zenon
<1>3. ASSUME NEW n \in T PROVE ~(n < m)
  BY <1>2
<1> QED BY <1>2, <1>3

\* Products and quotients by a number that is a constant of a specification.
LEMMA TimesMonotone ==
    ASSUME NEW b \in Nat, NEW m \in Int, NEW n \in Int, m <= n
    PROVE  m * b <= n * b
OBVIOUS

LEMMA Division ==
    ASSUME NEW n \in Nat, NEW b \in Nat \ {0}
    PROVE  /\ n \div b \in Nat /\ n % b \in 0..(b - 1)
           /\ n = (n \div b) * b + (n % b)
OBVIOUS

LEMMA DivisionUnique ==
    ASSUME NEW b \in Nat \ {0}, NEW q \in Int, NEW r \in 0..(b - 1)
    PROVE  (q * b + r) \div b = q /\ (q * b + r) % b = r
OBVIOUS

LEMMA DivisionMonotone ==
    ASSUME NEW b \in Nat \ {0}, NEW m \in Nat, NEW n \in Nat, m <= n
    PROVE  m \div b <= n \div b
OBVIOUS
-----------------------------------------------------------------------------
\* The same for the subsets of a finite set.
LEMMA LeastSubset ==
    ASSUME NEW S, IsFiniteSet(S), NEW T, T \subseteq SUBSET S, T # {}
    PROVE  \E m \in T : \A n \in T : n \subseteq m => n = m
<1>1. IsWellFoundedOn(StrictSubsetOrdering(S), SUBSET S)
  BY FS_StrictSubsetOrderingWellFounded, FS_FiniteSubsetsOfFinite
<1>2. PICK m \in T : \A n \in T : <<n, m>> \notin StrictSubsetOrdering(S)
  BY <1>1, WFMin, Zenon
<1>3. ASSUME NEW n \in T, n \subseteq m PROVE n = m
  BY <1>2, <1>3 DEF StrictSubsetOrdering
<1> QED BY <1>2, <1>3

\* What a sum over a set is defined by: an element is picked, and the sum of the
\* others added to its weight.
Picked(s) == CHOOSE x \in s : TRUE

SumsUp(f, w, S) ==
    f = [s \in SUBSET S |-> IF s = {} THEN 0 ELSE w[Picked(s)] + f[s \ {Picked(s)}]]

LEMMA SumStep ==
    ASSUME NEW S, NEW w, NEW f, SumsUp(f, w, S), NEW s \in SUBSET S
    PROVE  f[s] = IF s = {} THEN 0 ELSE w[Picked(s)] + f[s \ {Picked(s)}]
BY DEF SumsUp

\* Sums over the subsets of two sets agree where both are defined.
LEMMA SumsAgree ==
    ASSUME NEW S, IsFiniteSet(S), NEW T \in SUBSET S, NEW w, NEW f, NEW g,
           SumsUp(f, w, S), SumsUp(g, w, T)
    PROVE  \A s \in SUBSET T : f[s] = g[s]
<1> DEFINE Bad == {s \in SUBSET T : f[s] # g[s]}
<1> SUFFICES ASSUME Bad # {} PROVE FALSE
  OBVIOUS
<1>1. IsFiniteSet(T)
  BY FS_Subset
<1>2. PICK m \in Bad : \A n \in Bad : n \subseteq m => n = m
  <2>1. Bad \subseteq SUBSET T
    OBVIOUS
  <2> HIDE DEF Bad
  <2> QED BY <1>1, <2>1, LeastSubset
<1>3. m \in SUBSET T /\ m \in SUBSET S
  OBVIOUS
<1>4. /\ f[m] = IF m = {} THEN 0 ELSE w[Picked(m)] + f[m \ {Picked(m)}]
      /\ g[m] = IF m = {} THEN 0 ELSE w[Picked(m)] + g[m \ {Picked(m)}]
  BY <1>3 DEF SumsUp
<1>5. m # {} /\ Picked(m) \in m
  BY <1>4 DEF Picked
<1>6. m \ {Picked(m)} \notin Bad
  BY <1>2, <1>5
<1> QED BY <1>3, <1>4, <1>5, <1>6

\* There is such a function, and it yields integers for integers.
LEMMA SumsExist ==
    ASSUME NEW S, IsFiniteSet(S), NEW w
    PROVE  \E f : SumsUp(f, w, S)
<1> DEFINE Bad == {T \in SUBSET S : ~ \E f : SumsUp(f, w, T)}
<1> SUFFICES ASSUME Bad # {} PROVE FALSE
  OBVIOUS
<1>1. PICK m \in Bad : \A n \in Bad : n \subseteq m => n = m
  <2>1. Bad \subseteq SUBSET S
    OBVIOUS
  <2> HIDE DEF Bad
  <2> QED BY <2>1, LeastSubset
<1> DEFINE F(T) == CHOOSE f : SumsUp(f, w, T)
           f == [s \in SUBSET m |->
                   IF s = {} THEN 0
                             ELSE w[Picked(s)] + F(s \ {Picked(s)})[s \ {Picked(s)}]]
<1>2. ASSUME NEW T \in SUBSET m, T # m PROVE SumsUp(F(T), w, T)
  <2>1. \E g : SumsUp(g, w, T)
    BY <1>1, <1>2
  <2> QED BY <2>1
<1> HIDE DEF F
<1>3. ASSUME NEW s \in SUBSET m, s # {}
      PROVE  f[s \ {Picked(s)}] = F(s \ {Picked(s)})[s \ {Picked(s)}]
  <2> DEFINE u == s \ {Picked(s)}
  <2>1. Picked(s) \in s /\ u \in SUBSET m /\ u # m
    BY <1>3 DEF Picked
  <2> HIDE DEF u
  <2>2. SumsUp(F(u), w, u) /\ u \in SUBSET u
    BY <1>2, <2>1
  <2>3. F(u)[u] = IF u = {} THEN 0 ELSE w[Picked(u)] + F(u)[u \ {Picked(u)}]
    BY <2>2, SumStep
  <2>4. f[u] = IF u = {} THEN 0 ELSE w[Picked(u)] + F(u \ {Picked(u)})[u \ {Picked(u)}]
    BY <2>1
  <2>5. CASE u # {}
    <3> DEFINE t == u \ {Picked(u)}
    <3>1. t \in SUBSET m /\ t # m /\ t \in SUBSET u /\ IsFiniteSet(u)
      <4>1. IsFiniteSet(u)
        BY <2>1, FS_Subset
      <4> QED BY <2>1, <2>5, <4>1 DEF Picked
    <3> HIDE DEF t
    <3>2. SumsUp(F(t), w, t) /\ t \in SUBSET t
      BY <1>2, <3>1
    <3>3. F(u)[t] = F(t)[t]
      BY <2>2, <3>1, <3>2, SumsAgree
    <3> QED BY <2>3, <2>4, <2>5, <3>3 DEF t, u
  <2>6. CASE u = {}
    BY <2>3, <2>4, <2>6 DEF u
  <2> QED BY <2>5, <2>6
<1>4. SumsUp(f, w, m)
  BY <1>3 DEF SumsUp
<1> QED BY <1>1, <1>4

LEMMA SumsAreIntegers ==
    ASSUME NEW S, IsFiniteSet(S), NEW w \in [S -> Int], NEW f, SumsUp(f, w, S)
    PROVE  \A s \in SUBSET S : f[s] \in Int
<1> DEFINE Bad == {s \in SUBSET S : f[s] \notin Int}
<1> SUFFICES ASSUME Bad # {} PROVE FALSE
  OBVIOUS
<1>1. PICK m \in Bad : \A n \in Bad : n \subseteq m => n = m
  <2>1. Bad \subseteq SUBSET S
    OBVIOUS
  <2> HIDE DEF Bad
  <2> QED BY <2>1, LeastSubset
<1>2. f[m] = IF m = {} THEN 0 ELSE w[Picked(m)] + f[m \ {Picked(m)}]
  BY DEF SumsUp
<1>3. m # {} /\ Picked(m) \in m
  BY <1>2 DEF Picked
<1>4. m \ {Picked(m)} \notin Bad
  BY <1>1, <1>3
<1> QED BY <1>2, <1>3, <1>4
-----------------------------------------------------------------------------
\* A finite set of integers has a greatest element.
LEMMA FiniteSetHasGreatest ==
    ASSUME NEW S, IsFiniteSet(S)
    PROVE  S # {} /\ S \subseteq Int => \E m \in S : \A n \in S : m >= n
<1> DEFINE Bad == {T \in SUBSET S : /\ T # {} /\ T \subseteq Int
                                   /\ ~ \E m \in T : \A n \in T : m >= n}
<1> SUFFICES ASSUME Bad # {} PROVE FALSE
  OBVIOUS
<1>1. PICK m \in Bad : \A n \in Bad : n \subseteq m => n = m
  <2>1. Bad \subseteq SUBSET S
    OBVIOUS
  <2> HIDE DEF Bad
  <2> QED BY <2>1, LeastSubset
<1>2. PICK x \in m : TRUE
  OBVIOUS
<1>3. m \ {x} \notin Bad /\ m \subseteq Int
  BY <1>1, <1>2
<1>4. CASE m \ {x} = {}
  BY <1>2, <1>3, <1>4
<1>5. CASE m \ {x} # {}
  <2>1. PICK g \in m \ {x} : \A n \in m \ {x} : g >= n
    BY <1>3, <1>5
  <2>2. g >= x \/ x >= g
    BY <1>2, <1>3, <2>1
  <2>3. \A n \in m : n # x => g >= n
    BY <2>1
  <2>4. CASE g >= x
    BY <1>3, <2>1, <2>3, <2>4
  <2>5. CASE x >= g
    BY <1>2, <1>3, <2>1, <2>3, <2>5
  <2> QED BY <2>2, <2>4, <2>5
<1> QED BY <1>4, <1>5
=============================================================================
