--------------------------- MODULE RequestsProofs ---------------------------
(***************************************************************************)
(* What the proofs about the modules of the handlers share: facts about the*)
(* requests in flight, numbers and numbered rows.                          *)
(***************************************************************************)
EXTENDS Requests, FiniteSetTheorems, WellFoundedInduction, TLAPS

-----------------------------------------------------------------------------
(* Requests.                                                               *)

LEMMA CallsAreCounted ==
    /\ Cardinality(Calls) \in Nat \ {0}
    /\ \A S \in SUBSET Calls : IsFiniteSet(S) /\ Cardinality(S) \in Nat /\ Cardinality(S) <= Cardinality(Calls)
<1>1. Cardinality(Calls) \in Nat /\ Cardinality(Calls) # 0
  BY RequestsAssumption, FS_CardinalityType, FS_EmptySet
<1>2. ASSUME NEW S \in SUBSET Calls PROVE IsFiniteSet(S) /\ Cardinality(S) \in Nat /\ Cardinality(S) <= Cardinality(Calls)
  BY RequestsAssumption, FS_Subset, FS_CardinalityType
<1> QED
  BY <1>1, <1>2

LEMMA OneFewer ==
    ASSUME NEW S \in SUBSET Calls, NEW c
    PROVE  /\ IsFiniteSet(S \ {c}) /\ Cardinality(S \ {c}) \in Nat
           /\ Cardinality(S \ {c}) <= Cardinality(S)
           /\ c \in S => Cardinality(S \ {c}) = Cardinality(S) - 1
<1>1. IsFiniteSet(S) /\ S \ {c} \in SUBSET Calls
  BY CallsAreCounted
<1>2. Cardinality(S \ {c}) <= Cardinality(S)
  BY <1>1, FS_Subset
<1>3. c \in S => Cardinality(S \ {c}) = Cardinality(S) - 1
  BY <1>1, FS_RemoveElement
<1> QED
  BY <1>1, <1>2, <1>3, CallsAreCounted

-----------------------------------------------------------------------------
(* Numbers.                                                                 *)

LEMMA TimesGrows == ASSUME NEW b \in Nat, NEW x \in Nat, NEW y \in Nat, x <= y
                  PROVE  b * x \in Nat /\ b * y \in Nat /\ b * x <= b * y
<1>1. PICK d \in Nat : y = x + d
  <2> WITNESS y - x \in Nat
  <2> QED
    OBVIOUS
<1>2. b * (x + d) = b * x + b * d /\ b * x \in Nat /\ b * d \in Nat
  OBVIOUS
<1> QED
  BY <1>1, <1>2

LEMMA TimesGrowsInt ==
    ASSUME NEW b \in Nat, NEW x \in Int, NEW y \in Int, x <= y
    PROVE  b * x \in Int /\ b * y \in Int /\ b * x <= b * y
<1>1. PICK d \in Nat : y = x + d
  <2> WITNESS y - x \in Nat
  <2> QED
    OBVIOUS
<1>2. b * (x + d) = b * x + b * d /\ b * x \in Int /\ b * d \in Nat
  OBVIOUS
<1> QED
  BY <1>1, <1>2

LEMMA TimesOneLess ==
    ASSUME NEW b \in Nat, NEW x \in Int
    PROVE  b * (x - 1) = b * x - b /\ b * x \in Int /\ b * (-x) = -(b * x) /\ b * (x + 1) = b * x + b /\ b * 1 = b
OBVIOUS

\* A nonempty finite set of numbers has a largest one.
LEMMA LargestThereIs ==
    ASSUME NEW S, IsFiniteSet(S), S \subseteq Nat, S # {}
    PROVE  \E a \in S : \A b \in S : b <= a
<1> DEFINE Largest(X) == \E a \in X : \A b \in X : b <= a
           Bad == {X \in SUBSET S : X # {} /\ ~Largest(X)}
<1>1. SUFFICES ASSUME S \in Bad PROVE FALSE
  OBVIOUS
<1>2. Bad \subseteq FiniteSubsetsOf(S)
  BY FS_Subset DEF FiniteSubsetsOf
<1>3. PICK X \in Bad : \A Y \in Bad : <<Y, X>> \notin StrictSubsetOrdering(S)
  <2> HIDE DEF Bad
  <2> QED
    BY <1>1, <1>2, FS_StrictSubsetOrderingWellFounded, WFMin
<1>4. PICK a \in X : TRUE
  BY <1>3
<1>5. X \ {a} \notin Bad
  BY <1>3, <1>4 DEF StrictSubsetOrdering
<1>6. X \ {a} = {} \/ Largest(X \ {a})
  BY <1>3, <1>5
<1>7. CASE X \ {a} = {}
  BY <1>3, <1>4, <1>7
<1>8. CASE Largest(X \ {a})
  <2>1. PICK b \in X \ {a} : \A d \in X \ {a} : d <= b
    BY <1>8
  <2>2. \A d \in X : d <= (IF a <= b THEN b ELSE a)
    BY <1>3, <1>4, <2>1
  <2> QED
    BY <1>3, <1>4, <2>1, <2>2
<1> QED
  BY <1>6, <1>7, <1>8

\* A nonempty set of numbers has a least one.
LEMMA LeastThereIs ==
    ASSUME NEW S, S \subseteq Nat, S # {}
    PROVE  \E a \in S : \A b \in S : a <= b
<1>1. PICK n \in S : TRUE
  OBVIOUS
<1> DEFINE T == {k \in 0 .. n : n - k \in S}
<1>2. IsFiniteSet(T) /\ T \subseteq Nat /\ 0 \in T
  <2>1. n \in Nat /\ T \in SUBSET (0 .. n) /\ n - 0 \in S
    BY <1>1
  <2>2. IsFiniteSet(0 .. n)
    BY <2>1, FS_Interval
  <2> QED
    BY <2>1, <2>2, FS_Subset
<1>3. PICK k \in T : \A j \in T : j <= k
  <2> HIDE DEF T
  <2> QED
    BY <1>2, LargestThereIs
<1>4. ASSUME NEW b \in S PROVE n - k <= b
  <2>1. CASE b <= n
    <3>1. n - b \in 0 .. n /\ n - (n - b) = b
      BY <1>1, <2>1
    <3>2. n - b <= k
      BY <1>3, <3>1
    <3> QED
      BY <1>1, <1>3, <3>2
  <2>2. CASE ~(b <= n)
    BY <1>1, <1>3, <2>2
  <2> QED
    BY <2>1, <2>2
<1> QED
  BY <1>3, <1>4

-----------------------------------------------------------------------------
(* Numbered rows.                                                           *)

\* The rows of a finite set of times are finitely many: a least set of times
\* with infinitely many rows has a time to take away.
LEMMA NumberedFinite ==
    ASSUME NEW T, IsFiniteSet(T), NEW f, \A t \in T : f[t] \in Nat
    PROVE  IsFiniteSet(Numbered(f, T)) /\ Cardinality(Numbered(f, T)) \in Nat
<1> DEFINE Bad == {X \in SUBSET T : ~IsFiniteSet(Numbered(f, X))}
<1>1. SUFFICES ASSUME T \in Bad PROVE FALSE
  BY FS_CardinalityType
<1>2. Bad \subseteq FiniteSubsetsOf(T)
  BY FS_Subset DEF FiniteSubsetsOf
<1>3. PICK X \in Bad : \A Y \in Bad : <<Y, X>> \notin StrictSubsetOrdering(T)
  <2> HIDE DEF Bad
  <2> QED
    BY <1>1, <1>2, FS_StrictSubsetOrderingWellFounded, WFMin
<1>4. X # {}
  <2>1. Numbered(f, {}) = {}
    BY DEF Numbered
  <2> QED
    BY <1>3, <2>1, FS_EmptySet
<1>5. PICK a \in X : TRUE
  BY <1>4
<1>6. IsFiniteSet(Numbered(f, X \ {a}))
  <2>1. X \ {a} \notin Bad
    BY <1>3, <1>5 DEF StrictSubsetOrdering
  <2> QED
    BY <1>3, <2>1
<1>7. IsFiniteSet({a} \X (1 .. f[a]))
  <2>1. f[a] \in Nat
    BY <1>3, <1>5
  <2>2. IsFiniteSet(1 .. f[a])
    BY <2>1, FS_Interval
  <2>3. IsFiniteSet({a})
    BY FS_Singleton
  <2> QED
    BY <2>2, <2>3, FS_Product
<1>8. Numbered(f, X) = Numbered(f, X \ {a}) \cup ({a} \X (1 .. f[a]))
  BY <1>5 DEF Numbered
<1>9. IsFiniteSet(Numbered(f, X))
  <2>1. IsFiniteSet(Numbered(f, X \ {a}) \cup ({a} \X (1 .. f[a])))
    BY <1>6, <1>7, FS_Union
  <2> QED
    BY <1>8, <2>1
<1> QED
  BY <1>3, <1>9

\* One row more is one pair more.
LEMMA NumberedGrows ==
    ASSUME NEW T, IsFiniteSet(T), NEW f, \A t \in T : f[t] \in Nat, NEW a \in T,
           NEW h, h[a] = f[a] + 1, \A t \in T : t # a => h[t] = f[t]
    PROVE  Cardinality(Numbered(h, T)) = Cardinality(Numbered(f, T)) + 1
<1> DEFINE n == f[a] + 1
<1>1. 1 .. n = (1 .. f[a]) \cup {n} /\ n \notin 1 .. f[a]
  OBVIOUS
<1>2. \A t \in T : {t} \X (1 .. h[t]) = IF t = a THEN ({t} \X (1 .. f[t])) \cup {<<a, n>>} ELSE {t} \X (1 .. f[t])
  <2>1. {a} \X (1 .. h[a]) = ({a} \X (1 .. f[a])) \cup {<<a, n>>}
    BY <1>1
  <2> QED
    BY <2>1
<1>3. ASSUME NEW x PROVE x \in Numbered(h, T) <=> x \in Numbered(f, T) \cup {<<a, n>>}
  BY <1>2 DEF Numbered
<1>4. <<a, n>> \notin Numbered(f, T)
  BY <1>1 DEF Numbered
<1>5. Numbered(h, T) = Numbered(f, T) \cup {<<a, n>>}
  BY <1>3
<1>6. IsFiniteSet(Numbered(f, T))
  BY NumberedFinite
<1> HIDE DEF n
<1> QED
  BY <1>4, <1>5, <1>6, FS_AddElement

LEMMA NumberedAbove ==
    ASSUME NEW T, IsFiniteSet(T), NEW f, \A t \in T : f[t] \in Nat, NEW X \in SUBSET T,
           NEW h, \A t \in X : h[t] = f[t]
    PROVE  Cardinality(Numbered(h, X)) <= Cardinality(Numbered(f, T))
<1>1. Numbered(h, X) \subseteq Numbered(f, T)
  BY DEF Numbered
<1> QED
  BY <1>1, NumberedFinite, FS_Subset

LEMMA NumberedSame ==
    ASSUME NEW T, NEW f, NEW h, \A t \in T : h[t] = f[t]
    PROVE  Numbered(h, T) = Numbered(f, T)
BY DEF Numbered
=============================================================================
