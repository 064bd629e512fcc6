------------------------------- MODULE Counting --------------------------------
(***************************************************************************)
(* What it is for a counter to count a set, and the lemmas the accounting  *)
(* theorems share.  Nothing is assumed of the size of the set the elements *)
(* come from: a counted set starts empty and grows by one element a step.  *)
(* Then the least and the greatest of a set of numbers, the sum of a       *)
(* function, sorting, what is picked from a sequence, and counting up:     *)
(* what a recursive definition and its loop need.                          *)
(***************************************************************************)
EXTENDS Ordering, Sequences, Functions, FiniteSetTheorems, SequenceTheorems, TLAPS

Tally(n, S) == IsFiniteSet(S) /\ n = Cardinality(S)

(* Nothing is counted by 0.                                                *)
LEMMA TallyNothing == Tally(0, {})
BY FS_EmptySet DEF Tally

(* A count is a number.                                                    *)
LEMMA TallyNumber ==
    ASSUME NEW n, NEW S, Tally(n, S)
    PROVE  n \in Nat
BY FS_CardinalityType DEF Tally

(* A counter that goes up by one as its set gains an element stays exact.  *)
LEMMA TallyOneMore ==
    ASSUME NEW n, NEW S, NEW x, Tally(n, S), x \notin S
    PROVE  Tally(n + 1, S \cup {x})
BY FS_AddElement DEF Tally

(* And one that goes down by one as its set loses one.                     *)
LEMMA TallyOneLess ==
    ASSUME NEW n, NEW S, NEW x, Tally(n, S), x \in S
    PROVE  n # 0 /\ Tally(n - 1, S \ {x})
BY FS_RemoveElement, FS_EmptySet DEF Tally

(* A set of numbers has a least element, and if it is bounded a greatest.  *)
LEMMA LeastNumber ==
    ASSUME NEW S, S \subseteq Nat, S # {}
    PROVE  \E m \in S : \A n \in S : m <= n
<1> DEFINE T == {0..n : n \in S}
<1>1. T \subseteq FiniteSubsetsOf(Nat) /\ T # {}
  <2>1. \A n \in S : IsFiniteSet(0..n) /\ 0..n \subseteq Nat
    BY FS_Interval
  <2> QED BY <2>1 DEF FiniteSubsetsOf
<1>2. PICK t \in T : \A u \in T : <<u, t>> \notin StrictSubsetOrdering(Nat)
  <2> HIDE DEF T
  <2> QED BY <1>1, FS_StrictSubsetOrderingWellFounded, WFMin
<1>3. PICK m \in S : t = 0..m
  OBVIOUS
<1>4. ASSUME NEW n \in S, n < m
      PROVE  FALSE
  <2>1. 0..n \in T
    OBVIOUS
  <2>2. n \in Nat /\ m \in Nat
    OBVIOUS
  <2>3. 0..n \subseteq 0..m /\ m \in 0..m /\ m \notin 0..n
    BY <1>4, <2>2
  <2>4. 0..n \in SUBSET Nat /\ 0..m \in SUBSET Nat
    OBVIOUS
  <2>5. <<0..n, 0..m>> \in StrictSubsetOrdering(Nat)
    BY <2>3, <2>4 DEF StrictSubsetOrdering
  <2> QED BY <1>2, <1>3, <2>1, <2>5
<1> QED BY <1>3, <1>4

(* The greatest, of a set with a bound.                                    *)
LEMMA GreatestNumber ==
    ASSUME NEW S, S \subseteq Nat, S # {}, NEW bound \in Nat, \A n \in S : n <= bound
    PROVE  \E m \in S : \A n \in S : n <= m
<1> DEFINE T == {bound - n : n \in S}
<1>1. T \subseteq Nat /\ T # {}
  <2>1. \A n \in S : bound - n \in Nat
    OBVIOUS
  <2> QED BY <2>1
<1>2. PICK t \in T : \A u \in T : t <= u
  <2> HIDE DEF T
  <2> QED BY <1>1, LeastNumber
<1>3. PICK m \in S : t = bound - m
  OBVIOUS
<1>4. ASSUME NEW n \in S PROVE n <= m
  <2>1. bound - n \in T /\ n \in Nat /\ m \in Nat
    OBVIOUS
  <2>2. bound - m <= bound - n
    BY <1>2, <1>3, <2>1
  <2> QED BY <2>1, <2>2
<1> QED BY <1>4

-----------------------------------------------------------------------------
(* The sums of f over the subsets of its domain, as SumFunction reaches    *)
(* them: one element after the other, in whichever order CHOOSE takes.     *)
Sums(f) ==
    CHOOSE sum : sum = [s \in SUBSET DOMAIN f |->
                           IF s = {} THEN 0
                           ELSE f[CHOOSE x \in s : TRUE] + sum[s \ {CHOOSE x \in s : TRUE}]]

Splits(f, s, x) == Sums(f)[s] = f[x] + Sums(f)[s \ {x}]

(* A sum is the sum over a domain.                                         *)
LEMMA SumIsTotal ==
    ASSUME NEW f PROVE SumFunction(f) = Sums(f)[DOMAIN f]
BY DEF SumFunction, SumFunctionOnSet, FoldFunctionOnSet, MapThenFoldSet, Sums

(* Every subset has a sum, and an element that was added last: there are   *)
(* sums for the sets of at most k elements, for every k.                   *)
LEMMA SumsExist ==
    ASSUME NEW S, IsFiniteSet(S), NEW f \in [S -> Nat]
    PROVE  /\ Sums(f) \in [SUBSET S -> Nat]
           /\ Sums(f)[{}] = 0
           /\ \A s \in SUBSET S : s # {} =>
                 \E x \in s : Splits(f, s, x)
<1> DEFINE Taken(s) == CHOOSE x \in s : TRUE
           Small(k) == {s \in SUBSET S : Cardinality(s) <= k}
           Step(h, s) == IF s = {} THEN 0 ELSE f[Taken(s)] + h[s \ {Taken(s)}]
           Sum(k, h) == h \in [Small(k) -> Nat] /\ \A s \in Small(k) : h[s] = Step(h, s)
           Failed == {k \in Nat : \A h : ~Sum(k, h)}
<1>1. \A s \in SUBSET S : IsFiniteSet(s) /\ Cardinality(s) \in Nat
  BY FS_Subset, FS_CardinalityType
<1>2. ASSUME NEW s \in SUBSET S, s # {}
      PROVE  /\ Taken(s) \in s /\ f[Taken(s)] \in Nat
             /\ s \ {Taken(s)} \in SUBSET S
             /\ Cardinality(s \ {Taken(s)}) = Cardinality(s) - 1
             /\ Cardinality(s) > 0
  <2>1. Taken(s) \in s
    BY <1>2
  <2>2. Cardinality(s \ {Taken(s)}) = Cardinality(s) - 1
    <3> HIDE DEF Taken
    <3> QED BY <2>1, <1>1, FS_RemoveElement
  <2>3. Cardinality(s) # 0
    BY <1>1, <1>2, FS_EmptySet
  <2> HIDE DEF Taken
  <2> QED BY <2>1, <2>2, <2>3, <1>1
<1> HIDE DEF Taken
<1>3. Failed = {}
  <2> SUFFICES ASSUME Failed # {} PROVE FALSE
    OBVIOUS
  <2>1. PICK k \in Failed : \A j \in Failed : k <= j
    <3>1. Failed \subseteq Nat
      OBVIOUS
    <3> HIDE DEF Failed
    <3> QED BY <3>1, LeastNumber
  <2>2. k # 0
    <3> SUFFICES ASSUME k = 0 PROVE FALSE
      OBVIOUS
    <3>1. \A s \in Small(0) : s = {}
      BY <1>1, FS_EmptySet
    <3>2. Sum(0, [s \in Small(0) |-> 0])
      BY <3>1
    <3> QED BY <3>2
  <2>3. k - 1 \in Nat /\ k - 1 \notin Failed
    <3>1. k \in Nat
      OBVIOUS
    <3> HIDE DEF Failed
    <3> QED BY <3>1, <2>1, <2>2
  <2>4. PICK h : Sum(k - 1, h)
    BY <2>3
  <2> DEFINE g == [s \in Small(k) |-> Step(h, s)]
  <2>5. ASSUME NEW s \in Small(k), s # {} PROVE s \ {Taken(s)} \in Small(k - 1)
    BY <1>1, <1>2, <2>3, <2>5
  <2>6. g \in [Small(k) -> Nat]
    <3> SUFFICES ASSUME NEW s \in Small(k) PROVE Step(h, s) \in Nat
      OBVIOUS
    <3>1. CASE s = {}
      BY <3>1
    <3>2. CASE s # {}
      <4>1. h[s \ {Taken(s)}] \in Nat
        BY <2>4, <2>5, <3>2
      <4>2. f[Taken(s)] \in Nat
        BY <1>2, <3>2
      <4> QED BY <4>1, <4>2, <3>2
    <3> QED BY <3>1, <3>2
  <2>7. \A s \in Small(k - 1) : s \in Small(k) /\ g[s] = h[s]
    <3> TAKE s \in Small(k - 1)
    <3>1. s \in Small(k)
      BY <1>1, <2>3
    <3>2. g[s] = Step(h, s)
      BY <3>1
    <3>3. h[s] = Step(h, s)
      BY <2>4
    <3> QED BY <3>1, <3>2, <3>3
  <2>8. ASSUME NEW s \in Small(k) PROVE g[s] = Step(g, s)
    <3>1. g[s] = Step(h, s)
      OBVIOUS
    <3>2. s # {} => g[s \ {Taken(s)}] = h[s \ {Taken(s)}]
      <4> HIDE DEF g, Small
      <4> QED BY <2>5, <2>7
    <3> HIDE DEF g
    <3> QED BY <3>1, <3>2
  <2>9. Sum(k, g)
    <3> HIDE DEF g
    <3> QED BY <2>6, <2>8
  <2> QED BY <2>1, <2>9
<1>4. PICK h : Sum(Cardinality(S), h)
  BY <1>1, <1>3
<1>5. Small(Cardinality(S)) = SUBSET S
  BY FS_Subset
<1>6. h = [s \in SUBSET S |-> Step(h, s)] /\ h \in [SUBSET S -> Nat]
  <2>1. h \in [SUBSET S -> Nat] /\ \A s \in SUBSET S : h[s] = Step(h, s)
    BY <1>4, <1>5
  <2> QED BY <2>1
<1>7. DOMAIN f = S
  OBVIOUS
<1>8. Sums(f) = [s \in SUBSET S |-> Step(Sums(f), s)]
  <2>1. Sums(f) = CHOOSE sum : sum = [s \in SUBSET S |-> Step(sum, s)]
    BY <1>7, Zenon DEF Sums, Taken
  <2>2. \E sum : sum = [s \in SUBSET S |-> Step(sum, s)]
    BY <1>6
  <2> HIDE DEF Step
  <2> QED BY <2>1, <2>2
<1>9. \A s \in SUBSET S : Sums(f)[s] = Step(Sums(f), s)
  <2> DEFINE sum == Sums(f)
  <2>1. sum = [s \in SUBSET S |-> Step(sum, s)]
    BY <1>8
  <2> HIDE DEF sum
  <2>2. \A s \in SUBSET S : sum[s] = Step(sum, s)
    BY <2>1
  <2> QED BY <2>2 DEF sum
<1> DEFINE Wrong == {n \in Nat : \E s \in SUBSET S : Cardinality(s) = n /\ Sums(f)[s] \notin Nat}
<1>10. Wrong = {}
  <2> SUFFICES ASSUME Wrong # {} PROVE FALSE
    OBVIOUS
  <2>1. PICK n \in Wrong : \A m \in Wrong : n <= m
    <3>1. Wrong \subseteq Nat
      OBVIOUS
    <3> HIDE DEF Wrong
    <3> QED BY <3>1, LeastNumber
  <2>2. PICK s \in SUBSET S : Cardinality(s) = n /\ Sums(f)[s] \notin Nat
    BY <2>1
  <2>3. s # {}
    <3>1. Sums(f)[{}] = 0
      BY <1>9
    <3> QED BY <3>1, <2>2
  <2>4. Sums(f)[s \ {Taken(s)}] \notin Nat
    <3>1. Sums(f)[s] = f[Taken(s)] + Sums(f)[s \ {Taken(s)}]
      BY <1>9, <2>3
    <3>2. f[Taken(s)] \in Nat
      BY <1>2, <2>3
    <3> QED BY <3>1, <3>2, <2>2
  <2>5. n - 1 \in Nat /\ n - 1 \in Wrong
    BY <1>1, <1>2, <2>2, <2>3, <2>4
  <2> QED BY <2>1, <2>5
<1>11. \A s \in SUBSET S : Sums(f)[s] \in Nat
  BY <1>1, <1>10
<1>12. Sums(f) \in [SUBSET S -> Nat]
  <2> DEFINE sum == Sums(f)
  <2>1. sum = [s \in SUBSET S |-> Step(sum, s)] /\ \A s \in SUBSET S : sum[s] \in Nat
    BY <1>8, <1>11
  <2> HIDE DEF sum, Step
  <2>2. sum \in [SUBSET S -> Nat]
    BY <2>1
  <2> QED BY <2>2 DEF sum
<1>13. \A s \in SUBSET S : s # {} =>
          Taken(s) \in s /\ Splits(f, s, Taken(s))
  <2> TAKE s \in SUBSET S
  <2> HAVE s # {}
  <2>1. Sums(f)[s] = Step(Sums(f), s)
    BY <1>9
  <2> QED BY <2>1, <1>2 DEF Splits
<1>14. Sums(f)[{}] = 0
  BY <1>9
<1> QED BY <1>12, <1>13, <1>14

(* Which element is added first does not matter. *)
LEMMA SumsSplit ==
    ASSUME NEW S, IsFiniteSet(S), NEW f \in [S -> Nat], NEW s \in SUBSET S, NEW y \in s
    PROVE  Splits(f, s, y)
<1> DEFINE sum == Sums(f)
           Split(t) == \A z \in t : sum[t] = f[z] + sum[t \ {z}]
           Wrong == {n \in Nat : \E t \in SUBSET S : Cardinality(t) = n /\ ~Split(t)}
<1>1. \A t \in SUBSET S : IsFiniteSet(t) /\ Cardinality(t) \in Nat
  BY FS_Subset, FS_CardinalityType
<1>2. /\ sum \in [SUBSET S -> Nat]
      /\ \A t \in SUBSET S : t # {} => \E x \in t : sum[t] = f[x] + sum[t \ {x}]
  <2> HIDE DEF sum
  <2>1. sum \in [SUBSET S -> Nat]
    BY SumsExist DEF sum
  <2>2. \A t \in SUBSET S : t # {} => \E x \in t : sum[t] = f[x] + sum[t \ {x}]
    <3>1. \A t \in SUBSET S : t # {} => \E x \in t : Splits(f, t, x)
      BY SumsExist
    <3> QED BY <3>1 DEF sum, Splits
  <2> QED BY <2>1, <2>2
<1> HIDE DEF sum
<1>3. ASSUME Wrong # {} PROVE FALSE
  <2>1. PICK n \in Wrong : \A m \in Wrong : n <= m
    <3>1. Wrong \subseteq Nat
      OBVIOUS
    <3> HIDE DEF Wrong
    <3> QED BY <3>1, <1>3, LeastNumber
  <2>2. PICK t \in SUBSET S : Cardinality(t) = n /\ ~Split(t)
    BY <2>1
  <2>3. PICK z \in t : sum[t] # f[z] + sum[t \ {z}]
    BY <2>2
  <2>4. PICK x \in t : sum[t] = f[x] + sum[t \ {x}]
    BY <1>2, <2>3
  <2>5. ASSUME NEW w \in t PROVE t \ {w} \in SUBSET S /\ Split(t \ {w})
    <3>1. t \ {w} \in SUBSET S
      OBVIOUS
    <3>2. Cardinality(t \ {w}) = n - 1 /\ n - 1 \in Nat
      <4>1. IsFiniteSet(t) /\ Cardinality(t \ {w}) \in Nat
        BY <1>1, <3>1
      <4>2. Cardinality(t \ {w}) = Cardinality(t) - 1
        BY <4>1, FS_RemoveElement
      <4> QED BY <4>1, <4>2, <2>2
    <3>3. n - 1 \notin Wrong
      <4>1. n \in Nat
        OBVIOUS
      <4> HIDE DEF Wrong
      <4> QED BY <4>1, <2>1, <3>2
    <3> QED BY <3>1, <3>2, <3>3
  <2>6. x # z
    BY <2>3, <2>4
  <2>7. sum[t \ {x}] = f[z] + sum[(t \ {x}) \ {z}]
    BY <2>5, <2>6
  <2>8. sum[t \ {z}] = f[x] + sum[(t \ {z}) \ {x}]
    BY <2>5, <2>6
  <2>9. (t \ {x}) \ {z} = (t \ {z}) \ {x}
    OBVIOUS
  <2>10. f[x] \in Nat /\ f[z] \in Nat /\ sum[(t \ {z}) \ {x}] \in Nat
    BY <1>2
  <2>11. sum[t] = f[x] + (f[z] + sum[(t \ {z}) \ {x}])
    BY <2>4, <2>7, <2>9
  <2> QED BY <2>3, <2>8, <2>10, <2>11
<1>4. Split(s)
  BY <1>1, <1>3
<1> QED BY <1>4 DEF sum, Splits

(* A sum of numbers is a number.                                           *)
LEMMA SumNumber ==
    ASSUME NEW S, IsFiniteSet(S), NEW f \in [S -> Nat]
    PROVE  SumFunction(f) \in Nat
<1>1. DOMAIN f = S
  OBVIOUS
<1>2. Sums(f) \in [SUBSET S -> Nat]
  BY SumsExist
<1>3. Sums(f)[S] \in Nat
  BY <1>2
<1> QED BY <1>1, <1>3, SumIsTotal

(* A function that is nowhere below another has no smaller a sum, and a    *)
(* greater one if it is above it somewhere.                                *)
LEMMA SumMonotone ==
    ASSUME NEW S, IsFiniteSet(S), NEW f \in [S -> Nat], NEW g \in [S -> Nat],
           \A x \in S : f[x] <= g[x]
    PROVE  /\ SumFunction(f) <= SumFunction(g)
           /\ (\E x \in S : f[x] < g[x]) => SumFunction(f) < SumFunction(g)
<1> DEFINE a == Sums(f)
           b == Sums(g)
           Below(t) == a[t] <= b[t] /\ ((\E x \in t : f[x] < g[x]) => a[t] < b[t])
           Wrong == {n \in Nat : \E t \in SUBSET S : Cardinality(t) = n /\ ~Below(t)}
<1>1. \A t \in SUBSET S : IsFiniteSet(t) /\ Cardinality(t) \in Nat
  BY FS_Subset, FS_CardinalityType
<1>2. a \in [SUBSET S -> Nat] /\ a[{}] = 0 /\ b \in [SUBSET S -> Nat] /\ b[{}] = 0
  BY SumsExist
<1>3. \A t \in SUBSET S : \A x \in t : a[t] = f[x] + a[t \ {x}] /\ b[t] = g[x] + b[t \ {x}]
  <2> TAKE t \in SUBSET S
  <2> TAKE x \in t
  <2>1. Splits(f, t, x) /\ Splits(g, t, x)
    BY SumsSplit
  <2> QED BY <2>1 DEF Splits
<1>4. DOMAIN f = S /\ DOMAIN g = S
  OBVIOUS
<1>5. SumFunction(f) = a[S] /\ SumFunction(g) = b[S]
  BY <1>4, SumIsTotal
<1> HIDE DEF a, b
<1>6. ASSUME Wrong # {} PROVE FALSE
  <2>1. PICK n \in Wrong : \A m \in Wrong : n <= m
    <3>1. Wrong \subseteq Nat
      OBVIOUS
    <3> HIDE DEF Wrong
    <3> QED BY <3>1, <1>6, LeastNumber
  <2>2. PICK t \in SUBSET S : Cardinality(t) = n /\ ~Below(t)
    BY <2>1
  <2>3. PICK x \in t : (\E y \in t : f[y] < g[y]) => f[x] < g[x]
    <3>1. t # {}
      <4> SUFFICES ASSUME t = {} PROVE FALSE
        OBVIOUS
      <4>1. a[t] = 0 /\ b[t] = 0
        BY <1>2
      <4> QED BY <4>1, <2>2
    <3>2. CASE \E y \in t : f[y] < g[y]
      BY <3>2
    <3>3. CASE ~ \E y \in t : f[y] < g[y]
      BY <3>1, <3>3
    <3> QED BY <3>2, <3>3
  <2>4. Below(t \ {x})
    <3>1. t \ {x} \in SUBSET S
      OBVIOUS
    <3>2. Cardinality(t \ {x}) = n - 1 /\ n - 1 \in Nat
      <4>1. IsFiniteSet(t) /\ Cardinality(t \ {x}) \in Nat
        BY <1>1, <3>1
      <4>2. Cardinality(t \ {x}) = Cardinality(t) - 1
        BY <4>1, FS_RemoveElement
      <4> QED BY <4>1, <4>2, <2>2
    <3>3. n - 1 \notin Wrong
      <4>1. n \in Nat
        OBVIOUS
      <4> HIDE DEF Wrong
      <4> QED BY <4>1, <2>1, <3>2
    <3> QED BY <3>1, <3>2, <3>3
  <2>5. a[t] = f[x] + a[t \ {x}] /\ b[t] = g[x] + b[t \ {x}]
    BY <1>3
  <2>6. f[x] \in Nat /\ g[x] \in Nat /\ a[t \ {x}] \in Nat /\ b[t \ {x}] \in Nat /\ f[x] <= g[x]
    BY <1>2
  <2>7. a[t \ {x}] <= b[t \ {x}]
    BY <2>4
  <2>8. a[t] <= b[t] /\ (f[x] < g[x] => a[t] < b[t])
    <3> HIDE DEF Below
    <3> QED BY <2>5, <2>6, <2>7
  <2> QED BY <2>2, <2>3, <2>8
<1>7. Below(S)
  BY <1>1, <1>6
<1> QED BY <1>5, <1>7

(* Where there is nothing to add. *)
LEMMA SumsOfNothing ==
    ASSUME NEW S, IsFiniteSet(S), NEW f \in [S -> Nat], NEW s \in SUBSET S,
           \A x \in s : f[x] = 0
    PROVE  Sums(f)[s] = 0
<1> DEFINE sum == Sums(f)
           Wrong == {n \in Nat : \E t \in SUBSET s : Cardinality(t) = n /\ sum[t] # 0}
<1>1. \A t \in SUBSET s : IsFiniteSet(t) /\ Cardinality(t) \in Nat
  BY FS_Subset, FS_CardinalityType
<1>2. sum[{}] = 0
  BY SumsExist
<1>3. \A t \in SUBSET s : \A x \in t : sum[t] = f[x] + sum[t \ {x}]
  <2> TAKE t \in SUBSET s
  <2> TAKE x \in t
  <2>1. t \in SUBSET S
    OBVIOUS
  <2>2. Splits(f, t, x)
    BY <2>1, SumsSplit
  <2> QED BY <2>2 DEF Splits
<1> HIDE DEF sum
<1>4. ASSUME Wrong # {} PROVE FALSE
  <2>1. PICK n \in Wrong : \A m \in Wrong : n <= m
    <3>1. Wrong \subseteq Nat
      OBVIOUS
    <3> HIDE DEF Wrong
    <3> QED BY <3>1, <1>4, LeastNumber
  <2>2. PICK t \in SUBSET s : Cardinality(t) = n /\ sum[t] # 0
    BY <2>1
  <2>3. PICK x \in t : TRUE
    BY <1>2, <2>2
  <2>4. sum[t \ {x}] = 0
    <3>1. t \ {x} \in SUBSET s
      OBVIOUS
    <3>2. Cardinality(t \ {x}) = n - 1 /\ n - 1 \in Nat
      <4>1. IsFiniteSet(t) /\ Cardinality(t \ {x}) \in Nat
        BY <1>1, <3>1
      <4>2. Cardinality(t \ {x}) = Cardinality(t) - 1
        BY <4>1, FS_RemoveElement
      <4> QED BY <4>1, <4>2, <2>2
    <3>3. n - 1 \notin Wrong
      <4>1. n \in Nat
        OBVIOUS
      <4> HIDE DEF Wrong
      <4> QED BY <4>1, <2>1, <3>2
    <3> QED BY <3>1, <3>2, <3>3
  <2>5. f[x] = 0
    OBVIOUS
  <2>6. sum[t] = f[x] + sum[t \ {x}]
    BY <1>3
  <2> QED BY <2>2, <2>4, <2>5, <2>6
<1> QED BY <1>1, <1>4 DEF sum

(* A function with a value at one place only sums up to that value.        *)
LEMMA SumSingle ==
    ASSUME NEW S, IsFiniteSet(S), NEW f \in [S -> Nat], NEW y \in S,
           \A x \in S : x # y => f[x] = 0
    PROVE  SumFunction(f) = f[y]
<1>1. DOMAIN f = S /\ f[y] \in Nat
  OBVIOUS
<1>2. Splits(f, S, y)
  BY SumsSplit
<1>3. S \ {y} \in SUBSET S /\ \A x \in S \ {y} : f[x] = 0
  OBVIOUS
<1>4. Sums(f)[S \ {y}] = 0
  BY <1>3, SumsOfNothing
<1>5. SumFunction(f) = Sums(f)[S]
  BY <1>1, SumIsTotal
<1> QED BY <1>1, <1>2, <1>4, <1>5 DEF Splits
-----------------------------------------------------------------------------
(* Sorting.  Ranked with the order as a set of pairs, and that it sorts.   *)
StrictOrder(S, R) ==
    /\ \A x \in S : <<x, x>> \notin R
    /\ \A x, y \in S : x # y => <<x, y>> \in R \/ <<y, x>> \in R
    /\ \A x, y, z \in S : <<x, y>> \in R /\ <<y, z>> \in R => <<x, z>> \in R

Before(S, R, x) == {y \in S : <<y, x>> \in R}

RankedBy(S, R) ==
    [n \in 1..Cardinality(S) |-> CHOOSE x \in S : Cardinality(Before(S, R, x)) = n - 1]

Sorts(r, S, R) ==
    /\ r \in [1..Cardinality(S) -> S]
    /\ \A x \in S : \E n \in 1..Cardinality(S) : r[n] = x
    /\ \A m, n \in 1..Cardinality(S) : m < n => <<r[m], r[n]>> \in R
    /\ \A n \in 1..Cardinality(S) : Cardinality(Before(S, R, r[n])) = n - 1

(* As many come before an element as before those it follows, and more.    *)
LEMMA BeforeGrows ==
    ASSUME NEW S, IsFiniteSet(S), NEW R, StrictOrder(S, R), NEW x \in S
    PROVE  /\ Cardinality(Before(S, R, x)) \in 0..Cardinality(S) - 1
           /\ \A y \in S : <<x, y>> \in R =>
                 Cardinality(Before(S, R, x)) < Cardinality(Before(S, R, y))
<1>1. \A T \in SUBSET S : IsFiniteSet(T) /\ Cardinality(T) \in Nat /\ Cardinality(T) <= Cardinality(S)
  BY FS_Subset, FS_CardinalityType
<1>2. Before(S, R, x) \in SUBSET S /\ x \notin Before(S, R, x)
  BY DEF Before, StrictOrder
<1>3. Cardinality(Before(S, R, x) \cup {x}) = Cardinality(Before(S, R, x)) + 1
  BY <1>1, <1>2, FS_AddElement
<1>4. Before(S, R, x) \cup {x} \in SUBSET S
  BY <1>2
<1>5. Cardinality(S) \in Nat
  BY FS_CardinalityType
<1>6. Cardinality(Before(S, R, x)) \in 0..Cardinality(S) - 1
  BY <1>1, <1>2, <1>3, <1>4, <1>5
<1>7. ASSUME NEW y \in S, <<x, y>> \in R
      PROVE  Cardinality(Before(S, R, x)) < Cardinality(Before(S, R, y))
  <2>1. Before(S, R, x) \cup {x} \in SUBSET Before(S, R, y) /\ Before(S, R, y) \in SUBSET S
    BY <1>7 DEF Before, StrictOrder
  <2>2. Cardinality(Before(S, R, x) \cup {x}) <= Cardinality(Before(S, R, y))
    BY <1>1, <2>1, FS_Subset
  <2>3. Cardinality(Before(S, R, x)) \in Nat /\ Cardinality(Before(S, R, y)) \in Nat
    BY <1>1, <1>2, <2>1
  <2> QED BY <1>3, <2>2, <2>3
<1> QED BY <1>6, <1>7

(* Putting a finite set in a strict order sorts it.                        *)
LEMMA RankedSorts ==
    ASSUME NEW S, IsFiniteSet(S), NEW R, StrictOrder(S, R)
    PROVE  Sorts(RankedBy(S, R), S, R)
<1> DEFINE ahead == [x \in S |-> Cardinality(Before(S, R, x))]
           r == RankedBy(S, R)
           ranks == 0..Cardinality(S) - 1
<1>1. Cardinality(S) \in Nat
  BY FS_CardinalityType
<1>2. ahead \in [S -> ranks]
  BY BeforeGrows
<1>3. \A x, y \in S : <<x, y>> \in R => ahead[x] < ahead[y]
  BY BeforeGrows
<1>4. ahead \in Injection(S, ranks)
  <2>1. ASSUME NEW x \in S, NEW y \in S, ahead[x] = ahead[y], x # y PROVE FALSE
    <3>1. <<x, y>> \in R \/ <<y, x>> \in R
      BY <2>1 DEF StrictOrder
    <3>2. ahead[x] \in Nat /\ ahead[y] \in Nat
      BY <1>1, <1>2
    <3> HIDE DEF ahead
    <3> QED BY <1>3, <2>1, <3>1, <3>2
  <2> HIDE DEF ahead
  <2> QED BY <1>2, <2>1 DEF Injection, IsInjective
<1>5. IsFiniteSet(ranks) /\ Cardinality(ranks) = Cardinality(S)
  BY <1>1, FS_Interval
<1>6. ahead \in Surjection(S, ranks)
  <2> HIDE DEF ahead, ranks
  <2> QED BY <1>4, <1>5, FS_Injection
<1>7. \A k \in ranks : \E x \in S : ahead[x] = k
  <2> HIDE DEF ahead, ranks
  <2> QED BY <1>6 DEF Surjection
<1>8. ASSUME NEW n \in 1..Cardinality(S) PROVE r[n] \in S /\ ahead[r[n]] = n - 1
  <2>1. n - 1 \in ranks
    BY <1>1
  <2>2. \E x \in S : Cardinality(Before(S, R, x)) = n - 1
    BY <1>7, <2>1
  <2>3. r[n] = CHOOSE x \in S : Cardinality(Before(S, R, x)) = n - 1
    BY DEF RankedBy
  <2>4. r[n] \in S /\ Cardinality(Before(S, R, r[n])) = n - 1
    BY <2>2, <2>3
  <2> QED BY <2>4
<1>9. r \in [1..Cardinality(S) -> S]
  <2>1. r = [n \in 1..Cardinality(S) |-> r[n]]
    BY DEF RankedBy
  <2> HIDE DEF r
  <2> QED BY <1>8, <2>1
<1>10. ASSUME NEW x \in S PROVE \E n \in 1..Cardinality(S) : r[n] = x
  <2>1. ahead[x] \in ranks
    BY <1>2
  <2>2. ahead[x] + 1 \in 1..Cardinality(S) /\ (ahead[x] + 1) - 1 = ahead[x]
    <3> HIDE DEF ahead
    <3> QED BY <1>1, <2>1
  <2>3. ahead[r[ahead[x] + 1]] = ahead[x] /\ r[ahead[x] + 1] \in S
    BY <1>8, <2>2
  <2>4. r[ahead[x] + 1] = x
    <3> HIDE DEF ahead, r
    <3> QED BY <1>4, <2>3 DEF Injection, IsInjective
  <2> QED BY <2>2, <2>4
<1>11. ASSUME NEW m \in 1..Cardinality(S), NEW n \in 1..Cardinality(S), m < n
       PROVE  <<r[m], r[n]>> \in R
  <2>1. r[m] \in S /\ r[n] \in S /\ ahead[r[m]] = m - 1 /\ ahead[r[n]] = n - 1
    BY <1>8
  <2> HIDE DEF ahead, r
  <2>2. r[m] # r[n] /\ ~(ahead[r[n]] < ahead[r[m]])
    BY <1>1, <1>11, <2>1
  <2> QED BY <1>3, <2>1, <2>2 DEF StrictOrder
<1>12. \A n \in 1..Cardinality(S) : Cardinality(Before(S, R, r[n])) = n - 1
  BY <1>8
<1> HIDE DEF r
<1>13. Sorts(r, S, R)
  BY <1>9, <1>10, <1>11, <1>12 DEF Sorts
<1> QED BY <1>13 DEF r

(* The first in the order. *)
LEMMA FirstExists ==
    ASSUME NEW S, IsFiniteSet(S), S # {}, NEW R, StrictOrder(S, R)
    PROVE  \E x \in S : \A y \in S : x = y \/ <<x, y>> \in R
<1> DEFINE r == RankedBy(S, R)
<1>1. Sorts(r, S, R)
  BY RankedSorts
<1>2. Cardinality(S) \in Nat /\ Cardinality(S) # 0
  BY FS_CardinalityType, FS_EmptySet
<1> HIDE DEF r
<1>3. 1 \in 1..Cardinality(S) /\ r[1] \in S
  BY <1>1, <1>2 DEF Sorts
<1>4. ASSUME NEW y \in S PROVE r[1] = y \/ <<r[1], y>> \in R
  <2>1. PICK n \in 1..Cardinality(S) : r[n] = y
    BY <1>1 DEF Sorts
  <2>2. n = 1 \/ 1 < n
    OBVIOUS
  <2> QED BY <1>1, <1>3, <2>1, <2>2 DEF Sorts
<1> QED BY <1>3, <1>4

-----------------------------------------------------------------------------
(* What is kept of a sequence: at says where each element stood.           *)
Upward(K) == {mn \in K \X K : mn[1] < mn[2]}

(* The order of numbers is one.                                            *)
LEMMA UpwardIsStrict ==
    ASSUME NEW K, K \subseteq Nat PROVE StrictOrder(K, Upward(K))
<1>1. \A m, n \in K : <<m, n>> \in Upward(K) <=> m < n
  BY DEF Upward
<1>2. \A m \in K : m \in Nat
  OBVIOUS
<1> QED BY <1>1, <1>2 DEF StrictOrder

(* So numbers are put in order, least first.                               *)
LEMMA RankedUpward ==
    ASSUME NEW K, K \subseteq Nat, IsFiniteSet(K)
    PROVE  Sorts(Ranked(K, Less), K, Upward(K))
<1> DEFINE ranked(n) == CHOOSE x \in K : Cardinality({y \in K : Less(y, x)}) = n - 1
           rankedBy(n) == CHOOSE x \in K : Cardinality(Before(K, Upward(K), x)) = n - 1
<1>1. \A x \in K : {y \in K : Less(y, x)} = Before(K, Upward(K), x)
  BY DEF Before, Upward, Less
<1>2. \A n \in 1..Cardinality(K) : ranked(n) = rankedBy(n)
  BY <1>1
<1>3. Ranked(K, Less) = RankedBy(K, Upward(K))
  <2>1. Ranked(K, Less) = [n \in 1..Cardinality(K) |-> ranked(n)]
    BY DEF Ranked
  <2>2. RankedBy(K, Upward(K)) = [n \in 1..Cardinality(K) |-> rankedBy(n)]
    BY DEF RankedBy
  <2> HIDE DEF ranked, rankedBy
  <2> QED BY <1>2, <2>1, <2>2
<1> QED BY <1>3, UpwardIsStrict, RankedSorts

Picks(s, t, K, at) ==
    /\ at \in [1..Len(s) -> K]
    /\ \A i \in K : \E n \in 1..Len(s) : at[n] = i
    /\ \A m, n \in 1..Len(s) : m < n => at[m] < at[n]
    /\ \A n \in 1..Len(s) : s[n] = t[at[n]]

(* Selecting picks the places chosen, in order.                            *)
LEMMA SelectPicks ==
    ASSUME NEW X, NEW t \in Seq(X), NEW K \in SUBSET DOMAIN t
    PROVE  /\ Select(t, K) \in Seq(X)
           /\ Len(Select(t, K)) = Cardinality(K)
           /\ \E at : Picks(Select(t, K), t, K, at)
<1> DEFINE s == Select(t, K)
           N == Cardinality(K)
           at == Ranked(K, Less)
<1>1. DOMAIN t = 1..Len(t) /\ Len(t) \in Nat /\ \A i \in DOMAIN t : t[i] \in X
  OBVIOUS
<1>2. K \subseteq Nat /\ IsFiniteSet(K)
  <2>1. IsFiniteSet(1..Len(t))
    BY <1>1, FS_Interval
  <2> QED BY <1>1, <2>1, FS_Subset
<1>3. N \in Nat
  BY <1>2, FS_CardinalityType
<1>4. Sorts(at, K, Upward(K))
  BY <1>2, RankedUpward
<1>5. DOMAIN at = 1..N /\ s = [n \in DOMAIN at |-> t[at[n]]]
  BY DEF Ranked, Select
<1> HIDE DEF at, s, N
<1>6. at \in [1..N -> K] /\ \A i \in K : \E n \in 1..N : at[n] = i
  BY <1>4 DEF Sorts, N
<1>7. \A m, n \in 1..N : m < n => at[m] < at[n]
  BY <1>4 DEF Sorts, Upward, N
<1>8. s \in Seq(X) /\ Len(s) = N
  <2>1. \A n \in 1..N : t[at[n]] \in X
    BY <1>1, <1>6
  <2> QED BY <1>3, <1>5, <2>1
<1>9. Picks(s, t, K, at)
  BY <1>5, <1>6, <1>7, <1>8 DEF Picks
<1> QED BY <1>8, <1>9 DEF s, N

-----------------------------------------------------------------------------
(* Counting up to N, for a set of numbers and for a recursive function.    *)
LEMMA CountingUp ==
    ASSUME NEW N \in Nat, NEW G, 0 \in G, \A n \in 1..N : n - 1 \in G => n \in G
    PROVE  \A n \in 0..N : n \in G
<1> DEFINE Wrong == {n \in 0..N : n \notin G}
<1>1. ASSUME Wrong # {} PROVE FALSE
  <2>1. PICK n \in Wrong : \A m \in Wrong : n <= m
    <3>1. Wrong \subseteq Nat
      OBVIOUS
    <3> HIDE DEF Wrong
    <3> QED BY <1>1, <3>1, LeastNumber
  <2>2. n \in 1..N /\ n - 1 \in 0..N /\ ~(n <= n - 1)
    OBVIOUS
  <2>3. n - 1 \in G
    BY <2>1, <2>2
  <2> QED BY <2>2, <2>3
<1> QED BY <1>1

(* What a recursive definition over 0..N has to be a function of.          *)
Recurs(f, S, base, N, step) ==
    /\ f \in [0..N -> S]
    /\ f[0] = base
    /\ \A n \in 1..N : f[n] = step[<<f[n - 1], n>>]

(* A recursive function over 0..N takes its steps.                         *)
LEMMA RecursionExists ==
    ASSUME NEW S, NEW base \in S, NEW N \in Nat, NEW step \in [S \X (1..N) -> S]
    PROVE  \E f : Recurs(f, S, base, N, step)
<1> DEFINE Follows(f, k) == f[0] = base /\ \A n \in 1..k : f[n] = step[<<f[n - 1], n>>]
           G == {k \in 0..N : \E f \in [0..k -> S] : Follows(f, k)}
<1>1. 0 \in G
  <2> DEFINE f == [n \in 0..0 |-> base]
  <2>1. f \in [0..0 -> S] /\ Follows(f, 0)
    OBVIOUS
  <2> HIDE DEF f, Follows
  <2> QED BY <2>1
<1>2. ASSUME NEW k \in 1..N, k - 1 \in G PROVE k \in G
  <2>1. PICK f \in [0..k - 1 -> S] : Follows(f, k - 1)
    BY <1>2
  <2>2. k - 1 \in 0..k - 1 /\ f[k - 1] \in S
    OBVIOUS
  <2> DEFINE next == step[<<f[k - 1], k>>]
             g == [n \in 0..k |-> IF n = k THEN next ELSE f[n]]
  <2>3. next \in S
    BY <2>2
  <2>4. g[k] = next /\ \A n \in 0..k - 1 : g[n] = f[n]
    OBVIOUS
  <2>5. g \in [0..k -> S]
    <3> HIDE DEF next
    <3> QED BY <2>3
  <2>6. ASSUME NEW n \in 1..k PROVE g[n] = step[<<g[n - 1], n>>]
    <3>1. n - 1 \in 0..k - 1 /\ g[n - 1] = f[n - 1]
      BY <2>4
    <3>2. CASE n = k
      BY <2>4, <3>1, <3>2
    <3>3. CASE n # k
      <4>1. n \in 1..k - 1 /\ n \in 0..k - 1
        BY <3>3
      <4>2. f[n] = step[<<f[n - 1], n>>]
        BY <2>1, <4>1
      <4> HIDE DEF g
      <4> QED BY <2>4, <3>1, <4>1, <4>2
    <3> QED BY <3>2, <3>3
  <2>7. g[0] = base
    BY <2>1, <2>4
  <2> HIDE DEF g
  <2>8. Follows(g, k)
    BY <2>6, <2>7
  <2> QED BY <2>5, <2>8
<1> HIDE DEF G
<1>3. N \in G
  BY <1>1, <1>2, CountingUp
<1> QED BY <1>3 DEF G, Recurs

-----------------------------------------------------------------------------
(* Sums over parts of a domain: equal functions have equal sums, more      *)
(* elements no smaller ones, and the order does not matter.                *)
Agreeing(f, S, g, T, s) ==
    /\ IsFiniteSet(S) /\ f \in [S -> Nat] /\ s \in SUBSET S
    /\ IsFiniteSet(T) /\ g \in [T -> Nat] /\ s \in SUBSET T
    /\ \A x \in s : f[x] = g[x]

(* Functions that agree on a set have one sum over it.                     *)
LEMMA SumsAgree ==
    ASSUME NEW f, NEW S, NEW g, NEW T, NEW s, Agreeing(f, S, g, T, s)
    PROVE  Sums(f)[s] = Sums(g)[s]
<1>0. /\ IsFiniteSet(S) /\ f \in [S -> Nat] /\ s \in SUBSET S
      /\ IsFiniteSet(T) /\ g \in [T -> Nat] /\ s \in SUBSET T
      /\ \A x \in s : f[x] = g[x]
  BY DEF Agreeing
<1> USE <1>0
<1> DEFINE a == Sums(f)
           b == Sums(g)
           Wrong == {n \in Nat : \E t \in SUBSET s : Cardinality(t) = n /\ a[t] # b[t]}
<1>1. \A t \in SUBSET s : IsFiniteSet(t) /\ Cardinality(t) \in Nat
  BY FS_Subset, FS_CardinalityType
<1>2. a[{}] = 0 /\ b[{}] = 0
  BY SumsExist
<1>3. \A t \in SUBSET s : \A x \in t :
         a[t] = f[x] + a[t \ {x}] /\ b[t] = g[x] + b[t \ {x}]
  <2> TAKE t \in SUBSET s
  <2> TAKE x \in t
  <2>1. t \in SUBSET S /\ t \in SUBSET T
    OBVIOUS
  <2>2. Splits(f, t, x) /\ Splits(g, t, x)
    BY <2>1, SumsSplit
  <2> QED BY <2>2 DEF Splits
<1> HIDE DEF a, b
<1>4. ASSUME Wrong # {} PROVE FALSE
  <2>1. PICK n \in Wrong : \A m \in Wrong : n <= m
    <3>1. Wrong \subseteq Nat
      OBVIOUS
    <3> HIDE DEF Wrong
    <3> QED BY <3>1, <1>4, LeastNumber
  <2>2. PICK t \in SUBSET s : Cardinality(t) = n /\ a[t] # b[t]
    BY <2>1
  <2>3. PICK x \in t : TRUE
    BY <1>2, <2>2
  <2>4. a[t \ {x}] = b[t \ {x}]
    <3>1. t \ {x} \in SUBSET s
      OBVIOUS
    <3>2. Cardinality(t \ {x}) = n - 1 /\ n - 1 \in Nat
      <4>1. IsFiniteSet(t) /\ Cardinality(t \ {x}) \in Nat
        BY <1>1, <3>1
      <4>2. Cardinality(t \ {x}) = Cardinality(t) - 1
        BY <4>1, FS_RemoveElement
      <4> QED BY <4>1, <4>2, <2>2
    <3>3. n - 1 \notin Wrong
      <4>1. n \in Nat
        OBVIOUS
      <4> HIDE DEF Wrong
      <4> QED BY <4>1, <2>1, <3>2
    <3> QED BY <3>1, <3>2, <3>3
  <2>5. a[t] = f[x] + a[t \ {x}] /\ b[t] = g[x] + b[t \ {x}] /\ f[x] = g[x]
    BY <1>3
  <2> QED BY <2>2, <2>4, <2>5
<1> QED BY <1>1, <1>4 DEF a, b

(* A part has no greater sum than the whole. *)
LEMMA SumsOfPart ==
    ASSUME NEW S, IsFiniteSet(S), NEW f \in [S -> Nat], NEW s \in SUBSET S, NEW r \in SUBSET s
    PROVE  Sums(f)[r] <= Sums(f)[s]
<1> DEFINE a == Sums(f)
           Wrong == {n \in Nat : \E t \in SUBSET s :
                                    Cardinality(t) = n /\ r \subseteq t /\ ~(a[r] <= a[t])}
<1>1. \A t \in SUBSET s : IsFiniteSet(t) /\ Cardinality(t) \in Nat
  BY FS_Subset, FS_CardinalityType
<1>2. a \in [SUBSET S -> Nat]
  BY SumsExist
<1>3. \A t \in SUBSET s : \A x \in t : a[t] = f[x] + a[t \ {x}]
  <2> TAKE t \in SUBSET s
  <2> TAKE x \in t
  <2>1. t \in SUBSET S
    OBVIOUS
  <2>2. Splits(f, t, x)
    BY <2>1, SumsSplit
  <2> QED BY <2>2 DEF Splits
<1> HIDE DEF a
<1>4. ASSUME Wrong # {} PROVE FALSE
  <2>1. PICK n \in Wrong : \A m \in Wrong : n <= m
    <3>1. Wrong \subseteq Nat
      OBVIOUS
    <3> HIDE DEF Wrong
    <3> QED BY <3>1, <1>4, LeastNumber
  <2>2. PICK t \in SUBSET s : Cardinality(t) = n /\ r \subseteq t /\ ~(a[r] <= a[t])
    BY <2>1
  <2>3. a[r] \in Nat /\ a[t] \in Nat
    BY <1>2
  <2>4. PICK x \in t : x \notin r
    BY <2>2, <2>3
  <2>5. t \ {x} \in SUBSET s /\ r \subseteq t \ {x}
    BY <2>2, <2>4
  <2>6. Cardinality(t \ {x}) = n - 1 /\ n - 1 \in Nat
    <3>1. IsFiniteSet(t) /\ Cardinality(t \ {x}) \in Nat
      BY <1>1, <2>5
    <3>2. Cardinality(t \ {x}) = Cardinality(t) - 1
      BY <3>1, FS_RemoveElement
    <3> QED BY <3>1, <3>2, <2>2
  <2>7. n - 1 \notin Wrong
    <3>1. n \in Nat
      OBVIOUS
    <3> HIDE DEF Wrong
    <3> QED BY <3>1, <2>1, <2>6
  <2>8. a[r] <= a[t \ {x}]
    BY <2>5, <2>6, <2>7
  <2>9. a[t] = f[x] + a[t \ {x}] /\ f[x] \in Nat /\ a[t \ {x}] \in Nat
    BY <1>2, <1>3
  <2> QED BY <2>2, <2>3, <2>8, <2>9
<1>5. s \in SUBSET s
  OBVIOUS
<1> QED BY <1>1, <1>4, <1>5 DEF a

(* at lists the elements of K, and h is f along that list.                 *)
Enumerates(at, N, K) ==
    /\ at \in [1..N -> K]
    /\ \A m, n \in 1..N : at[m] = at[n] => m = n
    /\ \A x \in K : \E n \in 1..N : at[n] = x

Along(h, f, at, N) == h \in [1..N -> Nat] /\ \A n \in 1..N : h[n] = f[at[n]]

(* What is added up in another order. *)
LEMMA SumPicked ==
    ASSUME NEW S, IsFiniteSet(S), NEW f \in [S -> Nat], NEW K \in SUBSET S,
           NEW N \in Nat, NEW at, Enumerates(at, N, K), NEW h, Along(h, f, at, N)
    PROVE  SumFunction(h) = Sums(f)[K]
<1> USE DEF Enumerates, Along
<1> DEFINE a == Sums(f)
           b == Sums(h)
           Image(n) == {at[i] : i \in 1..n}
           G == {n \in 0..N : b[1..n] = a[Image(n)]}
<1>1. IsFiniteSet(1..N)
  BY FS_Interval
<1>2. 0 \in G
  <2>1. Image(0) = {} /\ 1..0 = {}
    OBVIOUS
  <2>2. a[{}] = 0
    BY SumsExist
  <2>3. b[{}] = 0
    <3>1. PICK T : T = 1..N
      OBVIOUS
    <3>2. IsFiniteSet(T) /\ h \in [T -> Nat]
      BY <1>1, <3>1
    <3>3. Sums(h)[{}] = 0
      BY ONLY <3>2, SumsExist
    <3> QED BY <3>3
  <2> HIDE DEF a, b, Image
  <2>4. b[1..0] = a[Image(0)]
    BY <2>1, <2>2, <2>3
  <2> QED BY <2>4
<1>3. ASSUME NEW n \in 1..N, n - 1 \in G PROVE n \in G
  <2>1. 1..n \in SUBSET (1..N) /\ n \in 1..n /\ (1..n) \ {n} = 1..n - 1
    OBVIOUS
  <2>2. Image(n) \in SUBSET S /\ at[n] \in Image(n)
    BY <2>1
  <2>3. Image(n) \ {at[n]} = Image(n - 1)
    <3>1. \A i \in 1..n : at[i] = at[n] => i = n
      BY <2>1
    <3>2. \A i \in 1..n - 1 : i \in 1..n /\ i # n
      OBVIOUS
    <3> QED BY <2>1, <3>1, <3>2
  <2>4. Splits(h, 1..n, n)
    BY <1>1, <2>1, SumsSplit
  <2>5. Splits(f, Image(n), at[n])
    <3> HIDE DEF Image
    <3> QED BY <2>2, SumsSplit
  <2>6. b[1..n] = h[n] + b[1..n - 1]
    BY <2>1, <2>4 DEF Splits
  <2>7. a[Image(n)] = f[at[n]] + a[Image(n - 1)]
    <3> HIDE DEF Image
    <3> QED BY <2>3, <2>5 DEF Splits
  <2>8. b[1..n - 1] = a[Image(n - 1)]
    BY <1>3
  <2>9. h[n] = f[at[n]] /\ n \in 0..N
    OBVIOUS
  <2> HIDE DEF a, b, Image
  <2> QED BY <2>6, <2>7, <2>8, <2>9
<1>4. N \in G
  <2>1. \A n \in 1..N : n - 1 \in G => n \in G
    BY <1>3
  <2> HIDE DEF G
  <2>2. \A n \in 0..N : n \in G
    BY <1>2, <2>1, CountingUp
  <2> QED BY <2>2
<1>5. Image(N) = K /\ DOMAIN h = 1..N
  OBVIOUS
<1>6. SumFunction(h) = b[1..N]
  BY <1>5, SumIsTotal
<1>7. b[1..N] = a[Image(N)]
  BY <1>4
<1> HIDE DEF a, b, Image
<1>8. SumFunction(h) = a[K]
  BY <1>5, <1>6, <1>7
<1> QED BY <1>8 DEF a

-----------------------------------------------------------------------------
(* The first elements of a sequence.                                       *)
LEMMA FirstOnes ==
    ASSUME NEW X, NEW s \in Seq(X), NEW n \in 0..Len(s)
    PROVE  /\ SubSeq(s, 1, n) = [i \in 1..n |-> s[i]]
           /\ SubSeq(s, 1, n) \in Seq(X) /\ Len(SubSeq(s, 1, n)) = n
<1>1. SubSeq(s, 1, n) = [i \in 1..(n - 1 + 1) |-> s[i + 1 - 1]]
  BY DEF SubSeq
<1>2. n - 1 + 1 = n /\ \A i \in 1..n : i + 1 - 1 = i
  OBVIOUS
<1>3. n \in Nat /\ \A i \in 1..n : s[i] \in X
  OBVIOUS
<1>4. SubSeq(s, 1, n) = [i \in 1..n |-> s[i]]
  BY <1>1, <1>2
<1>5. PICK r : r = SubSeq(s, 1, n)
  OBVIOUS
<1>6. r \in [1..n -> X]
  BY <1>3, <1>4, <1>5
<1>7. r \in Seq(X) /\ Len(r) = n
  BY <1>3, <1>6
<1> QED BY <1>4, <1>5, <1>7

(* Nothing sums to 0.                                                      *)
LEMMA SumOfNothing ==
    ASSUME NEW f, DOMAIN f = {}
    PROVE  SumFunction(f) = 0
<1>1. f \in [{} -> Nat] /\ IsFiniteSet({})
  <2>1. f \in [{} -> Nat] <=> f = [x \in {} |-> f[x]]
    BY Zenon
  <2> QED BY FS_EmptySet
<1>2. Sums(f)[{}] = 0
  BY <1>1, SumsExist
<1> QED BY <1>2, SumIsTotal

(* One more summand adds itself.                                           *)
LEMMA SumOneMore ==
    ASSUME NEW n \in Nat, NEW less \in [1..n -> Nat], NEW more \in [1..n + 1 -> Nat],
           \A i \in 1..n : more[i] = less[i]
    PROVE  SumFunction(more) = more[n + 1] + SumFunction(less)
<1>1. PICK S, T, f, g, s : S = 1..n + 1 /\ T = 1..n /\ f = more /\ g = less /\ s = T
  OBVIOUS
<1>2. IsFiniteSet(S) /\ IsFiniteSet(T) /\ f \in [S -> Nat] /\ g \in [T -> Nat]
  <2>1. IsFiniteSet(1..n) /\ IsFiniteSet(1..n + 1)
    BY FS_Interval
  <2> QED BY <1>1, <2>1
<1>3. n + 1 \in S /\ S \ {n + 1} = T /\ S \in SUBSET S
  BY <1>1
<1>4. Splits(f, S, n + 1)
  BY ONLY <1>2, <1>3, SumsSplit
<1>5. s \in SUBSET S /\ s \in SUBSET T /\ \A x \in s : f[x] = g[x]
  BY <1>1
<1>6. Sums(f)[s] = Sums(g)[s]
  <2>1. Agreeing(f, S, g, T, s)
    BY <1>2, <1>5 DEF Agreeing
  <2> QED BY <2>1, SumsAgree
<1>7. DOMAIN f = S /\ DOMAIN g = T
  BY <1>2
<1> QED BY <1>1, <1>3, <1>4, <1>6, <1>7, SumIsTotal DEF Splits

(* What is kept of a sequence is determined by the places.                 *)
LEMMA PicksOnce ==
    ASSUME NEW X, NEW t \in Seq(X), NEW K \in SUBSET DOMAIN t,
           NEW s \in Seq(X), NEW at, Picks(s, t, K, at)
    PROVE  s = Select(t, K)
<1>1. PICK r : r = Select(t, K)
  OBVIOUS
<1>2. r \in Seq(X) /\ Len(r) = Cardinality(K)
  BY <1>1, SelectPicks
<1>3. PICK to : Picks(r, t, K, to)
  BY <1>1, SelectPicks
<1>4. PICK N : N = Len(s)
  OBVIOUS
<1>5. N \in Nat /\ DOMAIN t = 1..Len(t) /\ \A k \in K : k \in Nat
  BY <1>4
<1>6. /\ at \in [1..N -> K] /\ \A i \in K : \E n \in 1..N : at[n] = i
      /\ \A m, n \in 1..N : m < n => at[m] < at[n]
      /\ \A n \in 1..N : s[n] = t[at[n]]
  BY <1>4 DEF Picks
<1>7. \A m, n \in 1..N : at[m] = at[n] => m = n
  <2> TAKE m, n \in 1..N
  <2>1. m < n \/ n < m \/ m = n
    BY <1>5
  <2>2. at[m] \in Nat /\ at[n] \in Nat
    BY <1>5, <1>6
  <2> QED BY <1>6, <2>1, <2>2
<1>8. Cardinality(K) = N
  <2>1. IsFiniteSet(1..N) /\ Cardinality(1..N) = N
    BY <1>5, FS_Interval
  <2>2. at \in Bijection(1..N, K)
    BY <1>6, <1>7 DEF Bijection, Injection, Surjection, IsInjective
  <2> QED BY <2>1, <2>2, FS_Bijection DEF ExistsBijection
<1>9. Len(r) = N
  BY <1>2, <1>8
<1>10. /\ to \in [1..N -> K] /\ \A i \in K : \E n \in 1..N : to[n] = i
       /\ \A m, n \in 1..N : m < n => to[m] < to[n]
       /\ \A n \in 1..N : r[n] = t[to[n]]
  BY <1>3, <1>9 DEF Picks
<1> DEFINE G == {n \in 0..N : \A i \in 1..n : at[i] = to[i]}
<1>11. 0 \in G
  BY <1>5
<1>12. ASSUME NEW n \in 1..N, n - 1 \in G PROVE n \in G
  <2>1. \A i \in 1..n - 1 : at[i] = to[i]
    BY <1>12
  <2>2. PICK j \in 1..N : to[j] = at[n]
    BY <1>6, <1>10
  <2>3. PICK k \in 1..N : at[k] = to[n]
    BY <1>6, <1>10
  <2>4. \A i \in 1..N : at[i] \in Nat /\ to[i] \in Nat
    BY <1>5, <1>6, <1>10
  <2>5. ~(j < n)
    <3>1. ASSUME j < n PROVE FALSE
      <4>1. j \in 1..n - 1
        BY <1>5, <3>1
      <4>2. at[j] = at[n]
        BY <2>1, <2>2, <4>1
      <4> QED BY <1>7, <3>1, <4>2
    <3> QED BY <3>1
  <2>6. ~(n < j)
    <3>1. ASSUME n < j PROVE FALSE
      <4>1. at[k] < at[n]
        BY <1>10, <2>2, <2>3, <3>1
      <4>2. k < n
        <5>1. n < k => at[n] < at[k]
          BY <1>6
        <5>2. n < k \/ k < n \/ n = k
          BY <1>5
        <5> QED BY <2>4, <4>1, <5>1, <5>2
      <4>3. k \in 1..n - 1
        BY <1>5, <4>2
      <4>4. to[k] = to[n]
        BY <2>1, <2>3, <4>3
      <4>5. to[k] < to[n]
        BY <1>10, <4>2
      <4> QED BY <2>4, <4>4, <4>5
    <3> QED BY <3>1
  <2>7. at[n] = to[n]
    <3>1. j = n
      BY <1>5, <2>5, <2>6
    <3> QED BY <2>2, <3>1
  <2>8. \A i \in 1..n : i \in 1..n - 1 \/ i = n
    BY <1>5
  <2> QED BY <1>5, <2>1, <2>7, <2>8
<1>13. N \in G
  <2>1. \A n \in 1..N : n - 1 \in G => n \in G
    BY <1>12
  <2>2. N \in 0..N
    BY <1>5
  <2> HIDE DEF G
  <2>3. \A n \in 0..N : n \in G
    BY <1>5, <1>11, <2>1, CountingUp
  <2> QED BY <2>2, <2>3
<1>14. \A n \in 1..N : at[n] = to[n]
  BY <1>13 DEF G
<1>15. \A n \in 1..N : s[n] = r[n]
  BY <1>6, <1>10, <1>14
<1>16. s = [n \in 1..N |-> s[n]] /\ r = [n \in 1..N |-> r[n]]
  BY <1>2, <1>4, <1>9
<1> QED BY <1>1, <1>15, <1>16

(* Keeping some of what was kept, whatever becomes of the rest.            *)
Narrows(u, J, s, B, at) ==
    /\ Len(u) = Len(s) /\ \A j \in J : u[j] = s[j]
    /\ \A j \in DOMAIN s : j \in J <=> at[j] \in B

(* What is picked of what was picked is picked at once.                    *)
LEMMA PicksAgain ==
    ASSUME NEW X, NEW t \in Seq(X), NEW K \in SUBSET DOMAIN t,
           NEW s \in Seq(X), NEW at, Picks(s, t, K, at),
           NEW u \in Seq(X), NEW J \in SUBSET DOMAIN s, NEW B \in SUBSET K,
           Narrows(u, J, s, B, at)
    PROVE  Select(u, J) = Select(t, B)
<1>0. /\ Len(u) = Len(s) /\ \A j \in J : u[j] = s[j]
      /\ \A j \in DOMAIN s : j \in J <=> at[j] \in B
  BY DEF Narrows
<1>1. PICK r : r = Select(u, J)
  OBVIOUS
<1>2. DOMAIN u = DOMAIN s /\ DOMAIN s = 1..Len(s) /\ DOMAIN t = 1..Len(t)
  BY <1>0
<1>3. r \in Seq(X)
  BY <1>1, <1>2, SelectPicks
<1>4. PICK of : Picks(r, u, J, of)
  BY <1>1, <1>2, SelectPicks
<1>5. PICK N : N = Len(r)
  OBVIOUS
<1>6. /\ of \in [1..N -> J] /\ \A i \in J : \E n \in 1..N : of[n] = i
      /\ \A m, n \in 1..N : m < n => of[m] < of[n]
      /\ \A n \in 1..N : r[n] = u[of[n]]
  BY <1>4, <1>5 DEF Picks
<1>7. /\ at \in [1..Len(s) -> K] /\ \A i \in K : \E n \in 1..Len(s) : at[n] = i
      /\ \A m, n \in 1..Len(s) : m < n => at[m] < at[n]
      /\ \A n \in 1..Len(s) : s[n] = t[at[n]]
  BY DEF Picks
<1>8. PICK by : by = [n \in 1..N |-> at[of[n]]]
  OBVIOUS
<1>9. \A n \in 1..N : /\ of[n] \in J /\ of[n] \in 1..Len(s) /\ by[n] = at[of[n]]
                      /\ by[n] \in B /\ r[n] = t[by[n]]
  <2> TAKE n \in 1..N
  <2>1. of[n] \in J /\ of[n] \in 1..Len(s) /\ by[n] = at[of[n]] /\ r[n] = u[of[n]]
    BY <1>2, <1>6, <1>8
  <2> QED BY <1>0, <1>2, <1>7, <2>1
<1>10. by \in [1..N -> B]
  BY <1>8, <1>9
<1>11. \A i \in B : \E n \in 1..N : by[n] = i
  <2> TAKE i \in B
  <2>1. PICK j \in 1..Len(s) : at[j] = i
    BY <1>7
  <2>2. PICK n \in 1..N : of[n] = j
    BY <1>0, <1>2, <1>6, <2>1
  <2> QED BY <1>9, <2>1, <2>2
<1>12. \A m, n \in 1..N : m < n => by[m] < by[n]
  BY <1>6, <1>7, <1>9
<1>13. Picks(r, t, B, by)
  BY <1>5, <1>9, <1>10, <1>11, <1>12 DEF Picks
<1>14. B \in SUBSET DOMAIN t
  OBVIOUS
<1> QED BY <1>1, <1>3, <1>13, <1>14, PicksOnce

(* The last one is kept or not.                                            *)
LEMMA SelectNext ==
    ASSUME NEW X, NEW t \in Seq(X), NEW K \in SUBSET DOMAIN t, NEW n \in DOMAIN t,
           \A k \in K : k < n
    PROVE  Select(t, K \cup {n}) = Append(Select(t, K), t[n])
<1>1. PICK s, r : s = Select(t, K) /\ r = Append(s, t[n])
  OBVIOUS
<1>2. PICK N : N = Len(s)
  OBVIOUS
<1>3. s \in Seq(X) /\ N \in Nat /\ DOMAIN t = 1..Len(t) /\ t[n] \in X
  BY <1>1, <1>2, SelectPicks
<1>4. PICK at : Picks(s, t, K, at)
  BY <1>1, SelectPicks
<1>5. /\ at \in [1..N -> K] /\ \A i \in K : \E j \in 1..N : at[j] = i
      /\ \A i, j \in 1..N : i < j => at[i] < at[j]
      /\ \A i \in 1..N : s[i] = t[at[i]]
  BY <1>2, <1>4 DEF Picks
<1>6. r \in Seq(X) /\ Len(r) = N + 1 /\ r[N + 1] = t[n] /\ \A i \in 1..N : r[i] = s[i]
  BY <1>1, <1>2, <1>3, AppendProperties
<1>7. PICK to : to = [i \in 1..N + 1 |-> IF i = N + 1 THEN n ELSE at[i]]
  OBVIOUS
<1>8. to[N + 1] = n /\ \A i \in 1..N : to[i] = at[i]
  BY <1>3, <1>7
<1>9. \A i \in 1..N + 1 : i \in 1..N \/ i = N + 1
  BY <1>3
<1>10. to \in [1..N + 1 -> K \cup {n}]
  BY <1>5, <1>7, <1>9
<1>11. \A i \in K \cup {n} : \E j \in 1..N + 1 : to[j] = i
  <2>1. N + 1 \in 1..N + 1 /\ \A j \in 1..N : j \in 1..N + 1
    BY <1>3
  <2> QED BY <1>5, <1>8, <2>1
<1>12. \A i, j \in 1..N + 1 : i < j => to[i] < to[j]
  <2> TAKE i, j \in 1..N + 1
  <2> HAVE i < j
  <2>1. i \in 1..N
    BY <1>3
  <2>2. CASE j = N + 1
    BY <1>5, <1>8, <2>1, <2>2
  <2>3. CASE j \in 1..N
    BY <1>5, <1>8, <2>1, <2>3
  <2> QED BY <1>9, <2>2, <2>3
<1>13. \A i \in 1..N + 1 : r[i] = t[to[i]]
  <2> TAKE i \in 1..N + 1
  <2>1. CASE i = N + 1
    BY <1>6, <1>8, <2>1
  <2>2. CASE i \in 1..N
    BY <1>5, <1>6, <1>8, <2>2
  <2> QED BY <1>9, <2>1, <2>2
<1>14. Picks(r, t, K \cup {n}, to)
  BY <1>6, <1>10, <1>11, <1>12, <1>13 DEF Picks
<1> QED BY <1>1, <1>6, <1>14, PicksOnce

(* The elements of a sequence that are in P.                               *)
PlacesOf(u, P) == {i \in DOMAIN u : u[i] \in P}

Picked(u, P) == Select(u, PlacesOf(u, P))

(* What is picked is as many elements as there are places.                 *)
LEMMA PickedSeq ==
    ASSUME NEW X, NEW u \in Seq(X), NEW P
    PROVE  /\ Picked(u, P) \in Seq(X)
           /\ Len(Picked(u, P)) = Cardinality(PlacesOf(u, P))
           /\ (\A i \in 1..Len(u) : u[i] \notin P) => Picked(u, P) = <<>>
<1>1. PICK K, r : K = PlacesOf(u, P) /\ r = Picked(u, P)
  OBVIOUS
<1>2. K \in SUBSET DOMAIN u /\ DOMAIN u = 1..Len(u)
  BY <1>1 DEF PlacesOf
<1>3. r \in Seq(X) /\ Len(r) = Cardinality(K)
  BY <1>1, <1>2, SelectPicks DEF Picked
<1>4. (\A i \in 1..Len(u) : u[i] \notin P) => K = {}
  BY <1>1 DEF PlacesOf
<1>5. K = {} => r = <<>>
  BY <1>3, FS_EmptySet
<1> QED BY <1>1, <1>3, <1>4, <1>5

(* Picking from two sequences joined joins what is picked from each.       *)
LEMMA PickedTogether ==
    ASSUME NEW X, NEW u \in Seq(X), NEW v \in Seq(X), NEW P
    PROVE  Picked(u \o v, P) = Picked(u, P) \o Picked(v, P)
<1>1. PICK w, a, b : w = u \o v /\ a = Len(u) /\ b = Len(v)
  OBVIOUS
<1>2. /\ w \in Seq(X) /\ Len(w) = a + b /\ a \in Nat /\ b \in Nat
      /\ \A i \in 1..a : w[i] = u[i]
      /\ \A i \in 1..b : w[a + i] = v[i]
      /\ DOMAIN w = 1..a + b
  <2>1. /\ w \in Seq(X) /\ Len(w) = a + b /\ a \in Nat /\ b \in Nat
        /\ \A i \in 1..a + b : w[i] = IF i <= a THEN u[i] ELSE v[i - a]
    BY <1>1, ConcatProperties
  <2>2. \A i \in 1..a : i \in 1..a + b /\ i <= a
    BY <2>1
  <2>3. \A i \in 1..b : a + i \in 1..a + b /\ ~(a + i <= a) /\ (a + i) - a = i
    BY <2>1
  <2> QED BY <2>1, <2>2, <2>3
<1>3. PICK J, K, L : J = PlacesOf(u, P) /\ K = PlacesOf(v, P) /\ L = PlacesOf(w, P)
  OBVIOUS
<1>4. /\ J \in SUBSET DOMAIN u /\ K \in SUBSET DOMAIN v /\ L \in SUBSET DOMAIN w
      /\ J \subseteq 1..a /\ K \subseteq 1..b
  BY <1>1, <1>3 DEF PlacesOf
<1>5. PICK r, s : r = Picked(u, P) /\ s = Picked(v, P)
  OBVIOUS
<1>6. PICK m, n : m = Len(r) /\ n = Len(s)
  OBVIOUS
<1>7. r \in Seq(X) /\ s \in Seq(X) /\ m \in Nat /\ n \in Nat
  BY <1>5, <1>6, PickedSeq
<1>8. PICK at : Picks(r, u, J, at)
  BY <1>3, <1>4, <1>5, SelectPicks DEF Picked
<1>9. PICK by : Picks(s, v, K, by)
  BY <1>3, <1>4, <1>5, SelectPicks DEF Picked
<1>10. /\ at \in [1..m -> J] /\ \A i \in J : \E k \in 1..m : at[k] = i
       /\ \A i, j \in 1..m : i < j => at[i] < at[j]
       /\ \A i \in 1..m : r[i] = u[at[i]]
  BY <1>6, <1>8 DEF Picks
<1>11. /\ by \in [1..n -> K] /\ \A i \in K : \E k \in 1..n : by[k] = i
       /\ \A i, j \in 1..n : i < j => by[i] < by[j]
       /\ \A i \in 1..n : s[i] = v[by[i]]
  BY <1>6, <1>9 DEF Picks
<1>12. PICK z : z = r \o s
  OBVIOUS
<1>13. /\ z \in Seq(X) /\ Len(z) = m + n
       /\ \A i \in 1..m : z[i] = r[i]
       /\ \A i \in 1..n : z[m + i] = s[i]
  <2>1. /\ z \in Seq(X) /\ Len(z) = m + n
        /\ \A i \in 1..m + n : z[i] = IF i <= m THEN r[i] ELSE s[i - m]
    BY <1>6, <1>7, <1>12, ConcatProperties
  <2>2. \A i \in 1..m : i \in 1..m + n /\ i <= m
    BY <1>7
  <2>3. \A i \in 1..n : m + i \in 1..m + n /\ ~(m + i <= m) /\ (m + i) - m = i
    BY <1>7
  <2> QED BY <2>1, <2>2, <2>3
<1>14. PICK to : to = [i \in 1..m + n |-> IF i <= m THEN at[i] ELSE a + by[i - m]]
  OBVIOUS
<1>15. /\ \A i \in 1..m : to[i] = at[i]
       /\ \A i \in 1..n : to[m + i] = a + by[i]
  <2>1. \A i \in 1..m : i \in 1..m + n /\ i <= m
    BY <1>7
  <2>2. \A i \in 1..n : m + i \in 1..m + n /\ ~(m + i <= m) /\ (m + i) - m = i
    BY <1>7
  <2> QED BY <1>14, <2>1, <2>2
<1>16. \A i \in 1..m + n : i \in 1..m \/ \E k \in 1..n : i = m + k
  <2> TAKE i \in 1..m + n
  <2>1. i \in 1..m \/ (i - m \in 1..n /\ i = m + (i - m))
    BY <1>7
  <2> QED BY <2>1
<1>17. \A i \in 1..a + b : i \in 1..a \/ \E k \in 1..b : i = a + k
  <2> TAKE i \in 1..a + b
  <2>1. i \in 1..a \/ (i - a \in 1..b /\ i = a + (i - a))
    BY <1>2
  <2> QED BY <2>1
<1>18. /\ \A i \in 1..a : i \in J <=> i \in L
       /\ \A i \in 1..b : i \in K <=> a + i \in L
  <2>1. /\ \A i \in 1..a : i \in 1..a + b
        /\ \A i \in 1..b : a + i \in 1..a + b
    BY <1>2
  <2>2. DOMAIN u = 1..a /\ DOMAIN v = 1..b
    BY <1>1
  <2> QED BY <1>2, <1>3, <2>1, <2>2 DEF PlacesOf
<1>19. \A i \in 1..m : at[i] \in J /\ at[i] \in 1..a /\ at[i] \in L
  BY <1>4, <1>10, <1>18
<1>20. \A i \in 1..n : by[i] \in K /\ by[i] \in 1..b /\ a + by[i] \in L
  BY <1>4, <1>11, <1>18
<1>21. \A i \in 1..m + n : to[i] \in L
  <2> TAKE i \in 1..m + n
  <2>1. CASE i \in 1..m
    BY <1>15, <1>19, <2>1
  <2>2. ASSUME NEW k \in 1..n, i = m + k PROVE to[i] \in L
    BY <1>15, <1>20, <2>2
  <2> QED BY <1>16, <2>1, <2>2
<1>22. to \in [1..m + n -> L]
  BY <1>14, <1>21
<1>23. \A i \in L : \E k \in 1..m + n : to[k] = i
  <2> TAKE i \in L
  <2>1. i \in 1..a + b
    BY <1>2, <1>4
  <2>2. CASE i \in 1..a
    <3>1. PICK k \in 1..m : at[k] = i
      BY <1>10, <1>18, <2>2
    <3>2. k \in 1..m + n
      BY <1>7
    <3> QED BY <1>15, <3>1, <3>2
  <2>3. ASSUME NEW j \in 1..b, i = a + j PROVE \E k \in 1..m + n : to[k] = i
    <3>1. PICK k \in 1..n : by[k] = j
      BY <1>11, <1>18, <2>3
    <3>2. m + k \in 1..m + n
      BY <1>7
    <3> QED BY <1>15, <2>3, <3>1, <3>2
  <2> QED BY <1>17, <2>1, <2>2, <2>3
<1>24. \A i, j \in 1..m + n : i < j => to[i] < to[j]
  <2> TAKE i, j \in 1..m + n
  <2> HAVE i < j
  <2>1. CASE i \in 1..m /\ j \in 1..m
    BY <1>10, <1>15, <2>1
  <2>2. ASSUME NEW k \in 1..n, j = m + k, i \in 1..m PROVE to[i] < to[j]
    <3>1. to[i] = at[i] /\ to[j] = a + by[k] /\ at[i] \in 1..a /\ by[k] \in 1..b
      BY <1>15, <1>19, <1>20, <2>2
    <3> QED BY <1>2, <3>1
  <2>3. ASSUME NEW k \in 1..n, NEW l \in 1..n, i = m + k, j = m + l PROVE to[i] < to[j]
    <3>1. k < l
      BY <1>7, <2>3
    <3>2. by[k] < by[l] /\ to[i] = a + by[k] /\ to[j] = a + by[l]
      BY <1>11, <1>15, <2>3, <3>1
    <3>3. by[k] \in 1..b /\ by[l] \in 1..b
      BY <1>20
    <3> QED BY <1>2, <3>2, <3>3
  <2>4. ASSUME NEW k \in 1..n, i = m + k, j \in 1..m PROVE FALSE
    BY <1>7, <2>4
  <2> QED BY <1>16, <2>1, <2>2, <2>3, <2>4
<1>25. \A i \in 1..m + n : z[i] = w[to[i]]
  <2> TAKE i \in 1..m + n
  <2>1. CASE i \in 1..m
    <3>1. z[i] = r[i] /\ r[i] = u[at[i]] /\ to[i] = at[i] /\ at[i] \in 1..a
      BY <1>10, <1>13, <1>15, <1>19, <2>1
    <3>2. \A j \in 1..a : w[j] = u[j]
      BY <1>2
    <3> QED BY <3>1, <3>2
  <2>2. ASSUME NEW k \in 1..n, i = m + k PROVE z[i] = w[to[i]]
    <3>1. z[i] = s[k] /\ to[i] = a + by[k]
      BY <1>13, <1>15, <2>2
    <3>2. s[k] = v[by[k]] /\ by[k] \in 1..b
      BY <1>11, <1>20
    <3>3. \A j \in 1..b : w[a + j] = v[j]
      BY <1>2
    <3> QED BY <3>1, <3>2, <3>3
  <2> QED BY <1>16, <2>1, <2>2
<1>26. Picks(z, w, L, to)
  BY <1>13, <1>22, <1>23, <1>24, <1>25 DEF Picks
<1>27. z = Select(w, L)
  BY <1>2, <1>4, <1>13, <1>26, PicksOnce
<1> QED BY <1>1, <1>3, <1>5, <1>12, <1>27 DEF Picked

(* What is cut off from the end of a sequence changes nothing if none of   *)
(* it is in P.                                                             *)
LEMMA PickedOpening ==
    ASSUME NEW X, NEW t \in Seq(X), NEW s \in Seq(X), NEW P, Len(s) <= Len(t),
           \A i \in 1..Len(s) : s[i] = t[i],
           \A i \in Len(s) + 1..Len(t) : t[i] \notin P
    PROVE  Picked(s, P) = Picked(t, P)
<1>1. PICK m, n, at : m = Len(s) /\ n = Len(t) /\ at = [i \in 1..m |-> i]
  OBVIOUS
<1>2. m \in Nat /\ n \in Nat /\ DOMAIN s = 1..m /\ DOMAIN t = 1..n /\ 1..m \subseteq 1..n
  BY <1>1
<1>3. \A i \in 1..m : at[i] = i
  BY <1>1
<1>4. Picks(s, t, 1..m, at)
  <2>1. at \in [1..m -> 1..m]
    BY <1>1
  <2>2. \A i, j \in 1..m : i < j => at[i] < at[j]
    BY <1>3
  <2>3. \A i \in 1..m : s[i] = t[at[i]]
    BY <1>1, <1>3
  <2> QED BY <1>1, <1>3, <2>1, <2>2, <2>3 DEF Picks
<1>5. PICK J, B : J = PlacesOf(s, P) /\ B = PlacesOf(t, P)
  OBVIOUS
<1>6. J \in SUBSET DOMAIN s /\ \A j \in 1..m : j \in J <=> s[j] \in P
  BY <1>2, <1>5 DEF PlacesOf
<1>7. B \in SUBSET (1..m) /\ \A j \in 1..m : j \in B <=> t[j] \in P
  <2>1. \A i \in 1..n : i \in 1..m \/ i \in m + 1..n
    BY <1>2
  <2>2. \A i \in 1..n : i \in B <=> t[i] \in P
    BY <1>2, <1>5 DEF PlacesOf
  <2>3. B \subseteq 1..n
    BY <1>2, <1>5 DEF PlacesOf
  <2> QED BY <1>1, <1>2, <2>1, <2>2, <2>3
<1>8. \A j \in DOMAIN s : j \in J <=> at[j] \in B
  BY <1>1, <1>2, <1>3, <1>6, <1>7
<1>9. 1..m \in SUBSET DOMAIN t
  BY <1>2
<1>10. Select(s, J) = Select(t, B)
  <2>1. PICK K, u : K = 1..m /\ u = s
    OBVIOUS
  <2>2. /\ K \in SUBSET DOMAIN t /\ Picks(s, t, K, at) /\ B \in SUBSET K
        /\ u \in Seq(X) /\ Narrows(u, J, s, B, at)
    BY <1>4, <1>7, <1>8, <1>9, <2>1 DEF Narrows
  <2>3. Select(u, J) = Select(t, B)
    BY <1>6, <1>8, <2>2, PicksAgain
  <2> QED BY <2>1, <2>3
<1> QED BY <1>5, <1>10 DEF Picked

(* What becomes of one token.                                              *)
LEMMA SelectWhole ==
    ASSUME NEW X, NEW s \in Seq(X) PROVE Select(s, DOMAIN s) = s
<1>1. PICK K, at : K = DOMAIN s /\ at = [i \in 1..Len(s) |-> i]
  OBVIOUS
<1>2. K = 1..Len(s) /\ K \in SUBSET DOMAIN s /\ \A i \in K : at[i] = i
  BY <1>1
<1>3. at \in [1..Len(s) -> K] /\ \A i \in K : \E n \in 1..Len(s) : at[n] = i
  BY <1>1, <1>2
<1>4. (\A m, n \in 1..Len(s) : m < n => at[m] < at[n]) /\ \A n \in 1..Len(s) : s[n] = s[at[n]]
  BY <1>2
<1>5. Picks(s, s, K, at)
  BY <1>3, <1>4 DEF Picks
<1> QED BY <1>1, <1>2, <1>5, PicksOnce

(* The places up to n.                                                     *)
UpToPlace(K, n) == {i \in K : i <= n}

SelectsUp(X, t, K) ==
    /\ Select(t, UpToPlace(K, 0)) = <<>>
    /\ \A n \in 0..Len(t) : Select(t, UpToPlace(K, n)) \in Seq(X)
    /\ \A n \in 1..Len(t) :
          Select(t, UpToPlace(K, n))
             = IF n \in K THEN Append(Select(t, UpToPlace(K, n - 1)), t[n])
               ELSE Select(t, UpToPlace(K, n - 1))
    /\ Select(t, UpToPlace(K, Len(t))) = Select(t, K)

(* Selecting goes place by place.                                          *)
LEMMA SelectUpTo ==
    ASSUME NEW X, NEW t \in Seq(X), NEW K \in SUBSET DOMAIN t
    PROVE  SelectsUp(X, t, K)
<1>1. DOMAIN t = 1..Len(t) /\ Len(t) \in Nat /\ K \subseteq 1..Len(t)
  OBVIOUS
<1>2. \A n \in Nat : UpToPlace(K, n) \in SUBSET DOMAIN t
  BY DEF UpToPlace
<1>3. UpToPlace(K, 0) = {} /\ UpToPlace(K, Len(t)) = K
  BY <1>1 DEF UpToPlace
<1>4. \A n \in Nat : Select(t, UpToPlace(K, n)) \in Seq(X)
  <2> TAKE n \in Nat
  <2>1. PICK J : J = UpToPlace(K, n)
    OBVIOUS
  <2>2. J \in SUBSET DOMAIN t
    BY <1>2, <2>1
  <2>3. Select(t, J) \in Seq(X)
    BY <2>2, SelectPicks
  <2> QED BY <2>1, <2>3
<1>5. Select(t, UpToPlace(K, 0)) = <<>>
  <2>1. PICK none, s : none = {} /\ s = Select(t, none)
    OBVIOUS
  <2>2. none \in SUBSET DOMAIN t
    BY <2>1
  <2>3. s \in Seq(X) /\ Len(s) = Cardinality(none)
    BY <2>1, <2>2, SelectPicks
  <2>4. Len(s) = 0
    BY <2>1, <2>3, FS_EmptySet
  <2>5. s = <<>>
    BY <2>3, <2>4
  <2> QED BY <1>3, <2>1, <2>5
<1>6. ASSUME NEW n \in 1..Len(t)
      PROVE  Select(t, UpToPlace(K, n))
                = IF n \in K THEN Append(Select(t, UpToPlace(K, n - 1)), t[n])
                  ELSE Select(t, UpToPlace(K, n - 1))
  <2>1. PICK J : J = UpToPlace(K, n - 1)
    OBVIOUS
  <2>2. n \in Nat /\ n - 1 \in Nat /\ n \in DOMAIN t
    BY <1>1
  <2>3. \A k \in K : k \in Nat
    BY <1>1
  <2>4. J \in SUBSET DOMAIN t /\ \A k \in J : k < n
    BY <1>2, <2>1, <2>2, <2>3 DEF UpToPlace
  <2>5. CASE n \in K
    <3>1. UpToPlace(K, n) = J \cup {n}
      BY <2>1, <2>2, <2>3, <2>5 DEF UpToPlace
    <3>2. Select(t, J \cup {n}) = Append(Select(t, J), t[n])
      BY <2>2, <2>4, SelectNext
    <3> QED BY <2>1, <2>5, <3>1, <3>2
  <2>6. CASE n \notin K
    <3>1. UpToPlace(K, n) = J
      BY <2>1, <2>2, <2>3, <2>6 DEF UpToPlace
    <3> QED BY <2>1, <2>6, <3>1
  <2> QED BY <2>5, <2>6
<1>7. \A n \in 0..Len(t) : n \in Nat
  BY <1>1
<1> QED BY <1>3, <1>4, <1>5, <1>6, <1>7 DEF SelectsUp
=============================================================================
