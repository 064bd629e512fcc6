------------------------------ MODULE TextsProofs ------------------------------
(***************************************************************************)
(* Theorems about the functions that await nothing, for every search,      *)
(* outline, query, text, page and number: the character budgets, the boost *)
(* rules, the place of a highlight, the names of a document, the passages  *)
(* extracted from a text, and the cleaning of a query.  What a recursive   *)
(* function computes comes, each time, from a loop invariant: it holds of  *)
(* no pieces, and one more piece keeps it.                                 *)
(***************************************************************************)
EXTENDS Texts, Counting, SequenceTheorems, TLAPS

Result == [rank : Nat, size : Sizes, signals : SUBSET Signals]

Entry == [level : Levels, size : Sizes]

(* The rank of a result is its place in the search. *)
IInv ==
    /\ results \in Seq(Result)
    /\ \A i \in 1..Len(results) : results[i].rank = i
    /\ entries \in Seq(Entry)

(* What Append does.                                                       *)
LEMMA OneMore ==
    ASSUME NEW X, NEW s \in Seq(X), NEW x \in X
    PROVE  /\ Append(s, x) \in Seq(X)
           /\ Len(Append(s, x)) = Len(s) + 1 /\ Len(s) \in Nat
           /\ Append(s, x)[Len(s) + 1] = x
           /\ \A i \in 1..Len(s) : Append(s, x)[i] = s[i]
OBVIOUS

(* No results and no entries.                                              *)
LEMMA InitTypes == Init => IInv
BY DEF Init, IInv

(* A result is ranked by its place when it is added.                       *)
LEMMA StepTypes == IInv /\ [Next]_vars => IInv'
<1> SUFFICES ASSUME IInv, [Next]_vars PROVE IInv'
  OBVIOUS
<1>1. CASE UNCHANGED vars
  BY <1>1 DEF IInv, vars
<1>2. ASSUME NEW size \in Sizes, NEW signals \in SUBSET Signals, AddResult(size, signals)
      PROVE  IInv'
  <2> DEFINE result == [rank |-> Len(results) + 1, size |-> size, signals |-> signals]
  <2>1. result \in Result /\ result.rank = Len(results) + 1
    BY DEF Result, IInv
  <2>2. results' = Append(results, result) /\ entries' = entries
    BY <1>2 DEF AddResult
  <2> HIDE DEF result
  <2>3. /\ results' \in Seq(Result)
        /\ Len(results') = Len(results) + 1 /\ Len(results) \in Nat
        /\ results'[Len(results) + 1] = result
        /\ \A i \in 1..Len(results) : results'[i] = results[i]
    BY <2>1, <2>2, OneMore DEF IInv
  <2>4. \A i \in 1..Len(results') : i \in 1..Len(results) \/ i = Len(results) + 1
    BY <2>3
  <2> QED BY <2>1, <2>2, <2>3, <2>4 DEF IInv
<1>3. ASSUME NEW level \in Levels, NEW size \in Sizes, AddEntry(level, size)
      PROVE  IInv'
  BY <1>3 DEF AddEntry, IInv, Entry
<1> QED BY <1>1, <1>2, <1>3 DEF Next

(* The results come in the search's order, and every section has a level.  *)
THEOREM TypeCorrect == Spec => []IInv
BY InitTypes, StepTypes, PTL DEF Spec

-----------------------------------------------------------------------------

(* What the first results take, with the separators between them.          *)
Positive == Nat \ {0}

Total(sizes, n) == Sums(sizes)[1..n]

Joins(sizes, n) == Total(sizes, n) + (n - 1) * SeparatorLength

(* A running total is a sum, and grows by a size at a time.                *)
LEMMA TotalIs ==
    ASSUME NEW sizes \in Seq(Nat), NEW n \in 0..Len(sizes)
    PROVE  /\ SumFunction(SubSeq(sizes, 1, n)) = Total(sizes, n)
           /\ Total(sizes, n) \in Nat
           /\ n = 0 => Total(sizes, n) = 0
           /\ n # 0 => Total(sizes, n) = sizes[n] + Total(sizes, n - 1)
<1> DEFINE prefix == SubSeq(sizes, 1, n)
<1>1. /\ Len(sizes) \in Nat /\ sizes \in [1..Len(sizes) -> Nat] /\ n \in Nat
      /\ 1..n \in SUBSET (1..Len(sizes))
  OBVIOUS
<1>2. prefix \in [1..n -> Nat] /\ \A i \in 1..n : sizes[i] = prefix[i]
  <2>1. prefix = [i \in 1..n |-> sizes[i]]
    BY FirstOnes
  <2>2. \A i \in 1..n : sizes[i] \in Nat
    BY <1>1
  <2> QED BY <2>1, <2>2
<1>3. IsFiniteSet(1..Len(sizes)) /\ IsFiniteSet(1..n)
  BY <1>1, FS_Interval
<1> HIDE DEF prefix
<1>4. Sums(sizes)[1..n] = Sums(prefix)[1..n]
  <2>1. PICK S, T, f, g, s : /\ S = 1..Len(sizes) /\ T = 1..n /\ s = 1..n
                             /\ f = sizes /\ g = prefix
    OBVIOUS
  <2>2. /\ f \in [S -> Nat] /\ g \in [T -> Nat] /\ IsFiniteSet(S) /\ IsFiniteSet(T)
        /\ s \in SUBSET S /\ s \in SUBSET T /\ \A i \in s : f[i] = g[i]
    BY <1>1, <1>2, <1>3, <2>1
  <2>3. Agreeing(f, S, g, T, s)
    BY <2>2 DEF Agreeing
  <2>4. Sums(f)[s] = Sums(g)[s]
    BY <2>3, SumsAgree
  <2> QED BY <2>1, <2>4
<1>5. SumFunction(prefix) = Total(sizes, n)
  BY <1>2, <1>4, SumIsTotal DEF Total
<1>6. Sums(sizes) \in [SUBSET (1..Len(sizes)) -> Nat] /\ Sums(sizes)[{}] = 0
  <2>1. PICK S : S = 1..Len(sizes)
    OBVIOUS
  <2>2. sizes \in [S -> Nat] /\ IsFiniteSet(S)
    BY <1>1, <1>3, <2>1
  <2>3. Sums(sizes) \in [SUBSET S -> Nat] /\ Sums(sizes)[{}] = 0
    BY ONLY <2>2, SumsExist
  <2> QED BY <2>1, <2>3
<1>7. Total(sizes, n) \in Nat
  BY <1>1, <1>6 DEF Total
<1>8. n = 0 => Total(sizes, n) = 0
  <2>1. 1..0 = {}
    OBVIOUS
  <2> QED BY <1>6, <2>1 DEF Total
<1>9. ASSUME n # 0 PROVE Total(sizes, n) = sizes[n] + Total(sizes, n - 1)
  <2>1. n \in 1..n /\ (1..n) \ {n} = 1..n - 1
    BY <1>1, <1>9
  <2>2. PICK S, s : S = 1..Len(sizes) /\ s = 1..n
    OBVIOUS
  <2>3. sizes \in [S -> Nat] /\ IsFiniteSet(S) /\ s \in SUBSET S /\ n \in s
    BY <1>1, <1>3, <2>1, <2>2
  <2>4. Splits(sizes, s, n)
    BY ONLY <2>3, SumsSplit
  <2>5. Sums(sizes)[s] = sizes[n] + Sums(sizes)[s \ {n}]
    BY <2>4 DEF Splits
  <2> QED BY <2>1, <2>2, <2>5 DEF Total
<1> QED BY <1>5, <1>7, <1>8, <1>9 DEF prefix

(* One more block costs its size, and a separator unless it is the first.  *)
LEMMA JoinsGrow ==
    ASSUME NEW sizes \in Seq(Positive), NEW n \in 1..Len(sizes)
    PROVE  /\ Joins(sizes, n) \in Nat
           /\ n = 1 => Joins(sizes, n) = sizes[n]
           /\ n # 1 => Joins(sizes, n) = Joins(sizes, n - 1) + sizes[n] + SeparatorLength
<1>1. sizes \in Seq(Nat) /\ n \in 0..Len(sizes) /\ n - 1 \in 0..Len(sizes) /\ n \in Nat \ {0}
  BY DEF Positive
<1>2. /\ Total(sizes, n) \in Nat /\ Total(sizes, n - 1) \in Nat
      /\ Total(sizes, n) = sizes[n] + Total(sizes, n - 1)
      /\ n - 1 = 0 => Total(sizes, n - 1) = 0
      /\ sizes[n] \in Nat
  BY <1>1, TotalIs DEF Positive
<1>3. SeparatorLength \in Nat
  BY LengthsAssumption
<1>4. PICK a, b, c, d : /\ a = Total(sizes, n) /\ b = Total(sizes, n - 1)
                        /\ c = (n - 1) * SeparatorLength
                        /\ d = ((n - 1) - 1) * SeparatorLength
  OBVIOUS
<1>5. (n - 1) * SeparatorLength \in Nat
  BY <1>1, <1>3
<1>6. (n - 1) * SeparatorLength = ((n - 1) - 1) * SeparatorLength + SeparatorLength
  BY <1>1, <1>3
<1>7. n = 1 => (n - 1) * SeparatorLength = 0
  BY <1>3
<1>8. ((n - 1) - 1) * SeparatorLength \in Int
  BY <1>1, <1>3
<1>9. Joins(sizes, n) = a + c /\ Joins(sizes, n - 1) = b + d
  BY <1>4 DEF Joins
<1>10. /\ a \in Nat /\ b \in Nat /\ c \in Nat /\ d \in Int /\ sizes[n] \in Nat
       /\ a = sizes[n] + b /\ (n = 1 => b = 0 /\ c = 0) /\ c = d + SeparatorLength
  BY <1>1, <1>2, <1>3, <1>4, <1>5, <1>6, <1>7, <1>8
<1> QED BY ONLY <1>3, <1>9, <1>10, n \in 1..Len(sizes), SMT

(* More blocks are never shorter.                                          *)
LEMMA JoinsMonotone ==
    ASSUME NEW sizes \in Seq(Positive), NEW m \in 1..Len(sizes), NEW n \in m..Len(sizes)
    PROVE  Joins(sizes, m) <= Joins(sizes, n)
<1> DEFINE N == Len(sizes) - m
           G == {k \in 0..N : Joins(sizes, m) <= Joins(sizes, m + k)}
<1>1. N \in Nat /\ m \in Nat \ {0} /\ Len(sizes) \in Nat
  OBVIOUS
<1>2. \A k \in 0..N : m + k \in 1..Len(sizes)
  BY <1>1
<1>3. \A k \in 0..N : Joins(sizes, m + k) \in Nat
  BY <1>2, JoinsGrow
<1>4. Joins(sizes, m) \in Nat
  BY JoinsGrow
<1>5. 0 \in G
  <2>1. m + 0 = m /\ 0 \in 0..N
    BY <1>1
  <2> QED BY <1>4, <2>1
<1>6. ASSUME NEW k \in 1..N, k - 1 \in G PROVE k \in G
  <2>1. k \in 0..N /\ k - 1 \in 0..N /\ m + k # 1 /\ (m + k) - 1 = m + (k - 1)
    BY <1>1
  <2>2. m + k \in 1..Len(sizes)
    BY <1>2, <2>1
  <2>3. Joins(sizes, m + k) = Joins(sizes, m + (k - 1)) + sizes[m + k] + SeparatorLength
    BY <2>1, <2>2, JoinsGrow
  <2>4. sizes[m + k] \in Nat /\ SeparatorLength \in Nat
    BY <2>2, LengthsAssumption DEF Positive
  <2>5. Joins(sizes, m) <= Joins(sizes, m + (k - 1))
    BY <1>6
  <2>6. Joins(sizes, m + (k - 1)) \in Nat
    BY <1>3, <2>1
  <2>7. Joins(sizes, m) <= Joins(sizes, m + k)
    BY <1>4, <2>3, <2>4, <2>5, <2>6
  <2> QED BY <2>1, <2>7
<1>7. n - m \in G
  <2>1. \A k \in 1..N : k - 1 \in G => k \in G
    BY <1>6
  <2>2. n - m \in 0..N
    BY <1>1
  <2> HIDE DEF G, N
  <2>3. \A k \in 0..N : k \in G
    BY <1>1, <1>5, <2>1, CountingUp
  <2> QED BY <2>2, <2>3
<1>8. m + (n - m) = n
  BY <1>1
<1> QED BY <1>7, <1>8

-----------------------------------------------------------------------------

(* The loop of _select_within_budget.                                      *)
Progress == [included : Nat, chars : Nat, over : BOOLEAN]

Start == [included |-> 0, chars |-> 0, over |-> FALSE]

Loop(sizes, max) ==
    CHOOSE f : f = [n \in 0..Len(sizes) |->
                      IF n = 0 THEN Start ELSE Take(f[n - 1], sizes[n], max)]

(* A step of the loop leaves a state of it.                                *)
LEMMA TakeProgresses ==
    ASSUME NEW taken \in Progress, NEW size \in Nat, NEW max \in Nat
    PROVE  Take(taken, size, max) \in Progress
<1>1. Cost(taken, size) \in Nat
  BY LengthsAssumption DEF Cost, Progress
<1>2. Include(taken, size) \in Progress
  <2>1. PICK cost \in Nat : cost = Cost(taken, size)
    BY <1>1
  <2>2. Include(taken, size) = [taken EXCEPT !.included = @ + 1, !.chars = @ + cost]
    BY <2>1 DEF Include
  <2>3. taken.included + 1 \in Nat /\ taken.chars + cost \in Nat
    BY <2>1 DEF Progress
  <2> QED BY <2>2, <2>3 DEF Progress
<1>3. [taken EXCEPT !.over = TRUE] \in Progress
  BY DEF Progress
<1> QED BY <1>2, <1>3 DEF Take

(* The recursive function is the loop, step by step.                       *)
LEMMA LoopRuns ==
    ASSUME NEW sizes \in Seq(Nat), NEW max \in Nat
    PROVE  /\ Loop(sizes, max) \in [0..Len(sizes) -> Progress]
           /\ Loop(sizes, max)[0] = Start
           /\ \A n \in 1..Len(sizes) :
                Loop(sizes, max)[n] = Take(Loop(sizes, max)[n - 1], sizes[n], max)
           /\ Taken(sizes, max) = Loop(sizes, max)[Len(sizes)]
<1> DEFINE N == Len(sizes)
           step == [x \in Progress \X (1..N) |-> Take(x[1], sizes[x[2]], max)]
           Body(f) == [n \in 0..N |-> IF n = 0 THEN Start ELSE Take(f[n - 1], sizes[n], max)]
<1>1. N \in Nat /\ \A n \in 1..N : sizes[n] \in Nat
  OBVIOUS
<1>2. step \in [Progress \X (1..N) -> Progress]
  BY <1>1, TakeProgresses
<1>3. Start \in Progress
  BY DEF Start, Progress
<1>4. PICK f \in [0..N -> Progress] :
         f[0] = Start /\ \A n \in 1..N : f[n] = step[<<f[n - 1], n>>]
  <2> HIDE DEF step, N
  <2>1. PICK S, base, M, st : S = Progress /\ base = Start /\ M = N /\ st = step
    OBVIOUS
  <2>2. base \in S /\ M \in Nat /\ st \in [S \X (1..M) -> S]
    BY <1>1, <1>2, <1>3, <2>1
  <2>3. \E f : Recurs(f, S, base, M, st)
    BY ONLY <2>2, RecursionExists
  <2> QED BY <2>1, <2>3 DEF Recurs
<1>5. \A n \in 1..N : n - 1 \in 0..N /\ n # 0 /\ n \in 0..N
  BY <1>1
<1>6. \A n \in 1..N : f[n] = Take(f[n - 1], sizes[n], max)
  BY <1>4, <1>5
<1>7. \A n \in 0..N : n # 0 => n \in 1..N
  BY <1>1
<1>8. f = Body(f)
  BY <1>4, <1>6, <1>7
<1>9. Loop(sizes, max) = Body(Loop(sizes, max))
  <2>1. \E g : g = Body(g)
    BY <1>8
  <2> QED BY <2>1 DEF Loop
<1> DEFINE g == Loop(sizes, max)
<1>10. DOMAIN g = 0..N /\ g[0] = Start
  BY <1>1, <1>9
<1>11. \A n \in 1..N : g[n] = Take(g[n - 1], sizes[n], max)
  BY <1>5, <1>9
<1>12. \A n \in 0..N : g[n] \in Progress
  <2> DEFINE G == {n \in 0..N : g[n] \in Progress}
  <2>1. 0 \in G
    BY <1>1, <1>3, <1>10
  <2>2. \A n \in 1..N : n - 1 \in G => n \in G
    BY <1>1, <1>5, <1>11, TakeProgresses
  <2> HIDE DEF G, N
  <2>3. \A n \in 0..N : n \in G
    BY <1>1, <2>1, <2>2, CountingUp
  <2> QED BY <2>3 DEF G
<1>13. g \in [0..N -> Progress]
  <2>1. g = [n \in 0..N |-> g[n]]
    BY <1>9, <1>10
  <2> HIDE DEF g
  <2> QED BY <1>12, <2>1
<1>14. Taken(sizes, max) = Loop(sizes, max)[Len(sizes)]
  BY DEF Taken, Loop, Start
<1> QED BY <1>10, <1>11, <1>13, <1>14

(* After n results: those included fill what is taken, and once a result   *)
(* did not fit, the results included and that one do not.                  *)
LoopInv(sizes, max, n, taken) ==
    /\ taken \in Progress
    /\ taken.included <= n
    /\ taken.chars <= max
    /\ taken.chars = IF taken.included = 0 THEN 0 ELSE Joins(sizes, taken.included)
    /\ ~taken.over => taken.included = n
    /\ taken.over => taken.included < n /\ Joins(sizes, taken.included + 1) > max

(* Each block taken keeps the loop's invariant.                            *)
LEMMA LoopStep ==
    ASSUME NEW sizes \in Seq(Positive), NEW max \in Nat, NEW n \in 1..Len(sizes), NEW taken,
           LoopInv(sizes, max, n - 1, taken)
    PROVE  LoopInv(sizes, max, n, Take(taken, sizes[n], max))
<1> DEFINE k == taken.included
           next == Take(taken, sizes[n], max)
<1>1. /\ n \in Nat \ {0} /\ k \in Nat /\ taken.chars \in Nat /\ taken.over \in BOOLEAN
      /\ k <= n - 1 /\ taken.chars <= max /\ taken \in Progress
      /\ taken.chars = IF k = 0 THEN 0 ELSE Joins(sizes, k)
      /\ (~taken.over => k = n - 1)
      /\ (taken.over => k < n - 1 /\ Joins(sizes, k + 1) > max)
  BY DEF LoopInv, Progress
<1>2. sizes[n] \in Nat /\ SeparatorLength \in Nat
  BY LengthsAssumption DEF Positive
<1>3. next \in Progress
  BY <1>1, <1>2, TakeProgresses
<1>4. CASE taken.over
  <2>1. next = [taken EXCEPT !.over = TRUE]
    BY <1>4 DEF Take
  <2>2. next.included = k /\ next.chars = taken.chars /\ next.over = TRUE
    BY <1>1, <2>1 DEF Progress
  <2> HIDE DEF next
  <2>3. k < n /\ k <= n
    BY <1>1, <1>4
  <2> QED BY <1>1, <1>3, <1>4, <2>2, <2>3 DEF LoopInv, next
<1>5. CASE ~taken.over
  <2>1. k = n - 1 /\ k + 1 = n
    BY <1>1, <1>5
  <2>2. Joins(sizes, n) = taken.chars + Cost(taken, sizes[n])
    <3>1. /\ Joins(sizes, n) \in Nat
          /\ n = 1 => Joins(sizes, n) = sizes[n]
          /\ n # 1 => Joins(sizes, n) = Joins(sizes, n - 1) + sizes[n] + SeparatorLength
      BY JoinsGrow
    <3>2. Cost(taken, sizes[n]) = sizes[n] + IF k = 0 THEN 0 ELSE SeparatorLength
      BY DEF Cost
    <3>3. CASE n = 1
      <4>1. k = 0 /\ taken.chars = 0
        BY <1>1, <2>1, <3>3
      <4> QED BY <1>2, <3>1, <3>2, <3>3, <4>1
    <3>4. CASE n # 1
      <4>1. k # 0 /\ taken.chars = Joins(sizes, n - 1)
        BY <1>1, <2>1, <3>4
      <4>2. Joins(sizes, n - 1) \in Nat
        BY <1>1, <4>1
      <4> QED BY <1>2, <3>1, <3>2, <3>4, <4>1, <4>2
    <3> QED BY <3>3, <3>4
  <2>3. Joins(sizes, n) \in Nat
    BY JoinsGrow
  <2>4. CASE taken.chars + Cost(taken, sizes[n]) > max
    <3>1. next = [taken EXCEPT !.over = TRUE]
      BY <2>4 DEF Take
    <3>2. next.included = k /\ next.chars = taken.chars /\ next.over = TRUE
      BY <1>1, <3>1 DEF Progress
    <3> HIDE DEF next
    <3>3. k < n /\ k <= n /\ Joins(sizes, k + 1) > max
      BY <1>1, <2>1, <2>2, <2>4
    <3> QED BY <1>1, <1>3, <3>2, <3>3 DEF LoopInv, next
  <2>5. CASE ~(taken.chars + Cost(taken, sizes[n]) > max)
    <3>1. next = [taken EXCEPT !.included = @ + 1, !.chars = @ + Cost(taken, sizes[n])]
      BY <1>5, <2>5 DEF Take, Include
    <3>2. next.included = k + 1 /\ next.chars = taken.chars + Cost(taken, sizes[n])
          /\ next.over = FALSE
      BY <1>1, <1>5, <3>1 DEF Progress
    <3> HIDE DEF next
    <3>3. next.included = n /\ next.chars = Joins(sizes, n) /\ next.chars <= max /\ n # 0
      <4>1. next.included = n /\ next.chars = Joins(sizes, n)
        BY <2>1, <2>2, <3>2
      <4>2. Joins(sizes, n) <= max
        BY <2>2, <2>3, <2>5
      <4> QED BY <1>1, <4>1, <4>2
    <3>4. n <= n
      BY <1>1
    <3> QED BY <1>3, <3>2, <3>3, <3>4 DEF LoopInv, next
  <2> QED BY <2>4, <2>5
<1> QED BY <1>4, <1>5

(* So the loop ends with what its invariant says.                          *)
LEMMA TakenFills ==
    ASSUME NEW sizes \in Seq(Positive), NEW max \in Nat
    PROVE  LoopInv(sizes, max, Len(sizes), Taken(sizes, max))
<1> DEFINE N == Len(sizes)
           f == Loop(sizes, max)
           G == {n \in 0..N : LoopInv(sizes, max, n, f[n])}
<1>1. N \in Nat /\ sizes \in Seq(Nat)
  BY DEF Positive
<1>2. /\ f[0] = Start
      /\ \A n \in 1..N : f[n] = Take(f[n - 1], sizes[n], max)
      /\ Taken(sizes, max) = f[N]
  BY <1>1, LoopRuns
<1>3. 0 \in G
  <2>1. LoopInv(sizes, max, 0, Start)
    BY DEF LoopInv, Start, Progress
  <2> QED BY <1>1, <1>2, <2>1
<1>4. ASSUME NEW n \in 1..N, n - 1 \in G PROVE n \in G
  <2>1. LoopInv(sizes, max, n - 1, f[n - 1])
    BY <1>4
  <2>2. LoopInv(sizes, max, n, f[n])
    BY <1>2, <2>1, LoopStep
  <2> QED BY <1>1, <2>2
<1>5. \A n \in 0..N : n \in G
  <2>1. \A n \in 1..N : n - 1 \in G => n \in G
    BY <1>4
  <2> HIDE DEF G, N
  <2> QED BY <1>1, <1>3, <2>1, CountingUp
<1> QED BY <1>1, <1>2, <1>5

(* What is selected: the results that fit, or the first one cut.           *)
LEMMA Selected ==
    ASSUME NEW sizes \in Seq(Positive), sizes # <<>>, NEW max \in Nat
    PROVE  /\ Taken(sizes, max).included \in 0..Len(sizes)
           /\ {n \in 1..Len(sizes) : Joins(sizes, n) <= max} = 1..Taken(sizes, max).included
           /\ Taken(sizes, max).included = 0 =>
                SelectWithinBudget(sizes, max) =
                    [included |-> 1, chars |-> max, cut |-> TRUE, notice |-> TRUE]
           /\ Taken(sizes, max).included # 0 =>
                /\ Joins(sizes, Taken(sizes, max).included) <= max
                /\ SelectWithinBudget(sizes, max) =
                     [included |-> Taken(sizes, max).included,
                      chars |-> Joins(sizes, Taken(sizes, max).included), cut |-> FALSE,
                      notice |-> Taken(sizes, max).included < Len(sizes)]
<1> DEFINE N == Len(sizes)
           taken == Taken(sizes, max)
           k == taken.included
<1>1. N \in Nat \ {0} /\ 1 \in 1..N
  OBVIOUS
<1>2. /\ k \in Nat /\ k <= N /\ taken.chars <= max /\ taken.over \in BOOLEAN
      /\ taken.chars = IF k = 0 THEN 0 ELSE Joins(sizes, k)
      /\ (~taken.over => k = N)
      /\ (taken.over => k < N /\ Joins(sizes, k + 1) > max)
  BY TakenFills DEF LoopInv, Progress
<1> HIDE DEF taken
<1>3. k \in 0..N
  BY <1>1, <1>2
<1>4. \A n \in 1..N : Joins(sizes, n) \in Nat
  BY JoinsGrow
<1>5. ASSUME NEW n \in 1..N PROVE Joins(sizes, n) <= max <=> n <= k
  <2>1. CASE n <= k
    <3>1. k \in n..N /\ k # 0 /\ k \in 1..N
      BY <1>1, <1>2, <2>1
    <3>2. Joins(sizes, n) <= Joins(sizes, k) /\ Joins(sizes, k) <= max
      BY <1>2, <3>1, JoinsMonotone
    <3> QED BY <1>4, <2>1, <3>1, <3>2
  <2>2. CASE ~(n <= k)
    <3>1. k + 1 \in 1..N /\ n \in (k + 1)..N
      BY <1>1, <1>2, <2>2
    <3>2. Joins(sizes, k + 1) <= Joins(sizes, n)
      BY <3>1, JoinsMonotone
    <3>3. Joins(sizes, k + 1) > max
      BY <1>1, <1>2, <3>1
    <3> QED BY <1>4, <2>2, <3>1, <3>2, <3>3
  <2> QED BY <2>1, <2>2
<1>6. {n \in 1..N : Joins(sizes, n) <= max} = 1..k
  BY <1>1, <1>3, <1>5
<1>7. Joins(sizes, 1) = sizes[1] /\ sizes[1] \in Nat
  BY <1>1, JoinsGrow DEF Positive
<1>8. SelectWithinBudget(sizes, max) =
         IF N = 1 \/ k = 0 THEN Truncated(sizes[1], max)
         ELSE [included |-> k, chars |-> taken.chars, cut |-> FALSE, notice |-> k < N]
  BY DEF SelectWithinBudget, taken
<1>9. ASSUME k = 0
      PROVE  SelectWithinBudget(sizes, max) =
               [included |-> 1, chars |-> max, cut |-> TRUE, notice |-> TRUE]
  <2>1. sizes[1] > max
    BY <1>1, <1>5, <1>7, <1>9
  <2>2. Lower(sizes[1], max) = max
    BY <1>7, <2>1 DEF Lower
  <2> QED BY <1>8, <1>9, <2>1, <2>2 DEF Truncated
<1>10. ASSUME k # 0
       PROVE  /\ Joins(sizes, k) <= max
              /\ SelectWithinBudget(sizes, max) =
                   [included |-> k, chars |-> Joins(sizes, k), cut |-> FALSE,
                    notice |-> k < N]
  <2>1. Joins(sizes, k) <= max /\ taken.chars = Joins(sizes, k)
    BY <1>2, <1>10
  <2>2. CASE N = 1
    <3>1. k = 1 /\ ~(k < N)
      BY <1>2, <1>10, <2>2
    <3>2. sizes[1] <= max /\ ~(sizes[1] > max) /\ Joins(sizes, k) = sizes[1]
      BY <1>7, <2>1, <3>1
    <3>3. Lower(sizes[1], max) = sizes[1]
      BY <1>7, <3>2 DEF Lower
    <3>4. SelectWithinBudget(sizes, max) =
             [included |-> 1, chars |-> Lower(sizes[1], max), cut |-> sizes[1] > max,
              notice |-> sizes[1] > max]
      BY <1>8, <2>2 DEF Truncated
    <3>5. (sizes[1] > max) = FALSE /\ (k < N) = FALSE
      BY <3>1, <3>2
    <3> QED BY <2>1, <3>1, <3>2, <3>3, <3>4, <3>5
  <2>3. CASE N # 1
    BY <1>8, <1>10, <2>1, <2>3
  <2> QED BY <2>2, <2>3
<1> QED BY <1>3, <1>6, <1>9, <1>10 DEF taken

(* No block is empty.                                                      *)
LEMMA SizesArePositive ==
    ASSUME NEW s \in Seq(Result)
    PROVE  Lengths(s) \in Seq(Positive) /\ Len(Lengths(s)) = Len(s)
<1>1. Len(s) \in Nat /\ DOMAIN s = 1..Len(s) /\ \A i \in 1..Len(s) : s[i].size \in Positive
  <2>1. Len(s) \in Nat /\ DOMAIN s = 1..Len(s) /\ \A i \in 1..Len(s) : s[i] \in Result
    OBVIOUS
  <2>2. \A r \in Result : r.size \in Positive
    BY LengthsAssumption DEF Result, Positive
  <2> QED BY <2>1, <2>2
<1>2. Lengths(s) = [i \in 1..Len(s) |-> s[i].size]
  BY <1>1 DEF Lengths
<1>3. Lengths(s) \in [1..Len(s) -> Positive]
  BY <1>1, <1>2
<1> QED BY <1>1, <1>3

(* A budget is filled from the front, and filled up.                       *)
LEMMA PrefixFromTypes == IInv => AnswerIsLongestPrefix
<1> SUFFICES ASSUME IInv, results # <<>>, NEW max \in Budgets
             PROVE  LET sizes == Lengths(results)
                        Joined(n) == SumFunction(SubSeq(sizes, 1, n))
                                         + (n - 1) * SeparatorLength
                        fitting == {n \in 1..Len(sizes) : Joined(n) <= max}
                        selected == SelectWithinBudget(sizes, max)
                    IN  /\ selected.cut <=> fitting = {}
                        /\ selected.notice <=> selected.cut \/ selected.included < Len(sizes)
                        /\ IF fitting = {}
                           THEN selected.chars = max
                           ELSE /\ selected.included = Cardinality(fitting)
                                /\ selected.chars = Joined(selected.included)
  BY DEF AnswerIsLongestPrefix
<1> DEFINE sizes == Lengths(results)
           Joined(n) == SumFunction(SubSeq(sizes, 1, n)) + (n - 1) * SeparatorLength
           fitting == {n \in 1..Len(sizes) : Joined(n) <= max}
           selected == SelectWithinBudget(sizes, max)
           k == Taken(sizes, max).included
<1>1. max \in Nat
  BY BudgetsAssumption DEF Budgets
<1>2. sizes \in Seq(Positive) /\ sizes \in Seq(Nat) /\ Len(sizes) = Len(results)
      /\ sizes # <<>> /\ Len(sizes) \in Nat
  <2>1. sizes \in Seq(Positive) /\ Len(sizes) = Len(results) /\ Len(results) # 0
    BY SizesArePositive DEF IInv
  <2>2. sizes \in Seq(Nat)
    BY <2>1 DEF Positive
  <2> HIDE DEF sizes
  <2> QED BY <2>1, <2>2
<1> HIDE DEF sizes
<1>3. \A n \in 1..Len(sizes) : Joined(n) = Joins(sizes, n)
  <2> TAKE n \in 1..Len(sizes)
  <2>1. n \in 0..Len(sizes)
    BY <1>2
  <2>2. SumFunction(SubSeq(sizes, 1, n)) = Total(sizes, n)
    BY <1>2, <2>1, TotalIs
  <2> QED BY <2>2 DEF Joins
<1>4. fitting = {n \in 1..Len(sizes) : Joins(sizes, n) <= max}
  BY <1>3
<1> HIDE DEF Joined
<1>5. /\ k \in 0..Len(sizes) /\ fitting = 1..k
      /\ k = 0 => selected = [included |-> 1, chars |-> max, cut |-> TRUE, notice |-> TRUE]
      /\ k # 0 => selected = [included |-> k, chars |-> Joins(sizes, k), cut |-> FALSE,
                              notice |-> k < Len(sizes)]
  BY <1>1, <1>2, <1>4, Selected
<1> HIDE DEF fitting, selected, k
<1>6. CASE k = 0
  <2>1. fitting = {}
    BY <1>5, <1>6
  <2>2. selected.cut = TRUE /\ selected.notice = TRUE /\ selected.chars = max
    BY <1>5, <1>6
  <2> QED BY <2>1, <2>2 DEF fitting, selected, Joined, sizes
<1>7. CASE k # 0
  <2>1. fitting # {} /\ Cardinality(fitting) = k /\ k \in 1..Len(sizes)
    <3>1. 1 \in fitting /\ k \in 1..Len(sizes)
      BY <1>2, <1>5, <1>7
    <3>2. Cardinality(1..k) = k
      BY <1>5, <1>7, FS_Interval
    <3> QED BY <1>5, <3>1, <3>2
  <2>2. /\ selected.cut = FALSE /\ selected.included = k /\ selected.notice = (k < Len(sizes))
        /\ selected.chars = Joins(sizes, k)
    BY <1>5, <1>7
  <2>3. selected.chars = Joined(selected.included)
    BY <1>3, <2>1, <2>2
  <2> QED BY <2>1, <2>2, <2>3 DEF fitting, selected, Joined, sizes
<1> QED BY <1>6, <1>7 DEF fitting, selected, Joined, sizes

(* An answer shows as many results as fit, in every search and for every   *)
(* budget, whatever the lengths of the separator, headers and notices.     *)
THEOREM PrefixCorrect == Spec => []AnswerIsLongestPrefix
BY TypeCorrect, PrefixFromTypes, PTL

-----------------------------------------------------------------------------

(* The order of an answer.                                                 *)
Standing(T) == {ab \in T \X T : Outranks(ab[1], ab[2])}

(* A sort key is a number.                                                 *)
LEMMA SortKeyIs ==
    ASSUME NEW r \in Result
    PROVE  SortKey(r) \in Int
<1>1. r.signals \in SUBSET Signals
  BY DEF Result
<1>2. /\ "eol" \in r.signals => SortKey(r) = 2
      /\ "eol" \notin r.signals /\ "deprecated" \in r.signals => SortKey(r) = 0
      /\ "eol" \notin r.signals /\ "deprecated" \notin r.signals =>
            r.signals = {"replacement"} \/ r.signals = {}
  BY <1>1 DEF SortKey, Signals
<1>3. r.signals = {"replacement"} => SortKey(r) = -1
  BY DEF SortKey
<1>4. r.signals = {} => SortKey(r) = 1
  BY DEF SortKey
<1> QED BY <1>2, <1>3, <1>4

(* Results of different ranks are in a strict order.                       *)
LEMMA StandingIsStrict ==
    ASSUME NEW T \in SUBSET Result, \A a, b \in T : a.rank = b.rank => a = b
    PROVE  StrictOrder(T, Standing(T))
<1>1. \A a, b \in T : <<a, b>> \in Standing(T) <=> Outranks(a, b)
  BY DEF Standing
<1>2. \A a \in T : SortKey(a) \in Int /\ a.rank \in Nat
  BY SortKeyIs DEF Result
<1>3. \A a \in T : ~Outranks(a, a)
  BY <1>2 DEF Outranks
<1>4. \A a, b \in T : a # b => Outranks(a, b) \/ Outranks(b, a)
  BY <1>2 DEF Outranks
<1>5. \A a, b, c \in T : Outranks(a, b) /\ Outranks(b, c) => Outranks(a, c)
  BY <1>2 DEF Outranks
<1> HIDE DEF Standing
<1> QED BY <1>1, <1>3, <1>4, <1>5 DEF StrictOrder

(* Sorting them puts them in that order.                                   *)
LEMMA SortedSorts ==
    ASSUME NEW T \in SUBSET Result, IsFiniteSet(T),
           \A a, b \in T : a.rank = b.rank => a = b
    PROVE  Sorts(Ranked(T, Outranks), T, Standing(T))
<1> DEFINE some(n) == CHOOSE x \in T : Cardinality({y \in T : Outranks(y, x)}) = n - 1
           other(n) == CHOOSE x \in T : Cardinality(Before(T, Standing(T), x)) = n - 1
           ranked == Ranked(T, Outranks)
<1>1. StrictOrder(T, Standing(T))
  BY StandingIsStrict
<1>2. \A x \in T : {y \in T : Outranks(y, x)} = Before(T, Standing(T), x)
  BY DEF Before, Standing
<1>3. \A n \in 1..Cardinality(T) : some(n) = other(n)
  BY <1>2
<1>4. ranked = [n \in 1..Cardinality(T) |-> some(n)]
  BY DEF Ranked
<1>5. RankedBy(T, Standing(T)) = [n \in 1..Cardinality(T) |-> other(n)]
  BY DEF RankedBy
<1>6. ranked = RankedBy(T, Standing(T))
  <2> HIDE DEF some, other, ranked
  <2> QED BY <1>3, <1>4, <1>5
<1> QED BY <1>1, <1>6, RankedSorts

(* Something is included, and within the budget.                           *)
LEMMA IncludedNumber ==
    ASSUME NEW sizes \in Seq(Positive), sizes # <<>>, NEW max \in Nat
    PROVE  /\ SelectWithinBudget(sizes, max).included \in 1..Len(sizes)
           /\ SelectWithinBudget(sizes, max).chars \in 0..max
<1> DEFINE k == Taken(sizes, max).included
           selected == SelectWithinBudget(sizes, max)
<1>1. Len(sizes) \in Nat \ {0}
  OBVIOUS
<1>2. /\ k \in 0..Len(sizes)
      /\ k = 0 => selected = [included |-> 1, chars |-> max, cut |-> TRUE, notice |-> TRUE]
      /\ k # 0 => /\ Joins(sizes, k) <= max
                  /\ selected = [included |-> k, chars |-> Joins(sizes, k), cut |-> FALSE,
                                 notice |-> k < Len(sizes)]
  BY Selected
<1> HIDE DEF k, selected
<1>3. CASE k = 0
  BY <1>1, <1>2, <1>3 DEF selected
<1>4. CASE k # 0
  <2>1. k \in 1..Len(sizes)
    BY <1>1, <1>2, <1>4
  <2>2. Joins(sizes, k) \in Nat
    BY <2>1, JoinsGrow
  <2>3. selected.included = k /\ selected.chars = Joins(sizes, k)
    BY <1>2, <1>4
  <2> QED BY <1>2, <1>4, <2>1, <2>2, <2>3 DEF selected
<1> QED BY <1>3, <1>4

(* What is dropped from a response ranks below all that is kept.           *)
LEMMA WorstFromTypes == IInv => WorstResultsDropFirst
<1> SUFFICES ASSUME IInv, results # <<>>, NEW max \in Budgets,
                    NEW r \in ToSet(Shown(results, max)),
                    NEW dropped \in ToSet(results) \ ToSet(Shown(results, max))
             PROVE  Outranks(r, dropped)
  BY DEF WorstResultsDropFirst, Outranks
<1> DEFINE T == Range(results)
           N == Cardinality(T)
           s == Sorted(results)
           sizes == Lengths(s)
           k == SelectWithinBudget(sizes, max).included
<1>1. /\ max \in Nat /\ Len(results) \in Nat \ {0} /\ DOMAIN results = 1..Len(results)
      /\ results \in Seq(Result)
  BY BudgetsAssumption DEF Budgets, IInv
<1>2. T = {results[i] : i \in 1..Len(results)} /\ ToSet(results) = T
  BY <1>1 DEF Range, ToSet
<1>3. T \in SUBSET Result /\ \A a, b \in T : a.rank = b.rank => a = b
  <2>1. \A i \in 1..Len(results) : results[i] \in Result /\ results[i].rank = i
    BY <1>1 DEF IInv
  <2> HIDE DEF T
  <2> QED BY <1>2, <2>1
<1>4. IsFiniteSet(T) /\ T # {}
  <2>1. IsFiniteSet(1..Len(results)) /\ 1 \in 1..Len(results)
    BY <1>1, FS_Interval
  <2> HIDE DEF T
  <2>2. PICK D, f, U : D = 1..Len(results) /\ f = results /\ U = T
    OBVIOUS
  <2>3. IsFiniteSet(D) /\ f \in Surjection(D, U)
    BY <1>1, <1>2, <2>1, <2>2 DEF Surjection
  <2>4. IsFiniteSet(U)
    BY ONLY <2>3, FS_Surjection
  <2> QED BY <1>2, <2>1, <2>2, <2>4
<1>5. Sorts(s, T, Standing(T)) /\ N \in Nat \ {0}
  BY <1>3, <1>4, SortedSorts, FS_CardinalityType, FS_EmptySet DEF Sorted
<1> HIDE DEF T
<1>6. s \in [1..N -> T] /\ s \in Seq(Result) /\ Len(s) = N /\ s # <<>>
  <2>1. s \in [1..N -> T]
    BY <1>5 DEF Sorts
  <2> HIDE DEF s, N
  <2>2. s \in [1..N -> Result]
    BY <1>3, <2>1
  <2>3. s \in Seq(Result) /\ Len(s) = N
    BY <1>5, <2>2
  <2> QED BY <1>5, <2>1, <2>3
<1> HIDE DEF s
<1>7. sizes \in Seq(Positive) /\ Len(sizes) = N /\ sizes # <<>>
  <2>1. sizes \in Seq(Positive) /\ Len(sizes) = N
    BY <1>6, SizesArePositive
  <2> HIDE DEF sizes
  <2> QED BY <1>5, <2>1
<1> HIDE DEF sizes
<1>8. k \in 1..N
  BY <1>1, <1>7, IncludedNumber
<1>9. Shown(results, max) = SubSeq(s, 1, k)
  BY DEF Shown, s, sizes
<1> HIDE DEF k
<1>10. ToSet(Shown(results, max)) = {s[i] : i \in 1..k}
  <2>1. SubSeq(s, 1, k) = [i \in 1..k |-> s[i]]
    BY <1>5, <1>6, <1>8, FirstOnes
  <2>2. PICK t : t = SubSeq(s, 1, k)
    OBVIOUS
  <2>3. DOMAIN t = 1..k /\ \A i \in 1..k : t[i] = s[i]
    BY <2>1, <2>2
  <2>4. ToSet(t) = {t[i] : i \in 1..k}
    BY <2>3 DEF ToSet
  <2>5. {t[i] : i \in 1..k} = {s[i] : i \in 1..k}
    BY <2>3
  <2> QED BY <1>9, <2>2, <2>4, <2>5
<1>11. PICK i \in 1..k : r = s[i]
  BY <1>10
<1>12. PICK j \in 1..N : dropped = s[j]
  BY <1>2, <1>5 DEF Sorts, N
<1>13. i \in 1..N /\ i < j
  BY <1>5, <1>8, <1>10, <1>11, <1>12
<1>14. <<s[i], s[j]>> \in Standing(T)
  BY <1>5, <1>13 DEF Sorts, N
<1> QED BY <1>11, <1>12, <1>14 DEF Standing

(* What the budget leaves out matters least, in every search and for every *)
(* budget.                                                                 *)
THEOREM WorstCorrect == Spec => []WorstResultsDropFirst
BY TypeCorrect, WorstFromTypes, PTL

-----------------------------------------------------------------------------

(* The passages of a document fit with its heading.                        *)
LEMMA PassagesFromTypes == IInv => PassagesWithinBudget
<1> SUFFICES ASSUME IInv, results # <<>>, NEW max \in Budgets, NEW current \in 0..MaxBudget
             PROVE  LET chars == PassageChars(Lengths(results), max, current)
                    IN  \/ chars = 0
                        \/ /\ current + chars <= max
                           /\ current + chars <= DOCUMENTATION_MAX_CHARS
  BY DEF PassagesWithinBudget
<1> DEFINE sizes == Lengths(results)
           remaining == PassagesBudget(max, current)
           chars == SelectWithinBudget(sizes, remaining).chars
<1>1. max \in Nat /\ current \in Nat /\ HeaderLength \in Nat /\ DOCUMENTATION_MAX_CHARS \in Nat
  BY BudgetsAssumption, LengthsAssumption DEF Budgets
<1>2. /\ Lower(max, DOCUMENTATION_MAX_CHARS) \in Nat
      /\ Lower(max, DOCUMENTATION_MAX_CHARS) <= max
      /\ Lower(max, DOCUMENTATION_MAX_CHARS) <= DOCUMENTATION_MAX_CHARS
  BY <1>1 DEF Lower
<1>3. remaining = Lower(max, DOCUMENTATION_MAX_CHARS) - current - HeaderLength
  BY DEF PassagesBudget
<1>4. sizes \in Seq(Positive) /\ sizes # <<>>
  <2>1. sizes \in Seq(Positive) /\ Len(sizes) = Len(results) /\ Len(results) # 0
    BY SizesArePositive DEF IInv
  <2> HIDE DEF sizes
  <2> QED BY <2>1
<1>5. PassageChars(sizes, max, current) = IF remaining <= 0 THEN 0 ELSE HeaderLength + chars
  BY DEF PassageChars
<1> HIDE DEF sizes, remaining
<1>6. CASE remaining <= 0
  BY <1>5, <1>6 DEF sizes
<1>7. CASE ~(remaining <= 0)
  <2>1. remaining \in Nat
    BY <1>1, <1>2, <1>3, <1>7
  <2>2. chars \in 0..remaining
    BY <1>4, <2>1, IncludedNumber
  <2> HIDE DEF chars
  <2>3. PassageChars(sizes, max, current) = HeaderLength + chars
    BY <1>5, <1>7
  <2>4. /\ current + (HeaderLength + chars) <= max
        /\ current + (HeaderLength + chars) <= DOCUMENTATION_MAX_CHARS
    BY <1>1, <1>2, <1>3, <2>1, <2>2
  <2> QED BY <2>3, <2>4 DEF sizes
<1> QED BY <1>6, <1>7

(* Where a documentation page shows passages it keeps within both budgets, *)
(* the truncation notice left aside, unless its metadata alone do not,     *)
(* whatever the budgets are (_format_document_passages).                   *)
THEOREM PassagesCorrect == Spec => []PassagesWithinBudget
BY TypeCorrect, PassagesFromTypes, PTL

-----------------------------------------------------------------------------

(* The outline.  Down stops at low or at the first number not excluded.    *)
Stops(d, from, low, tooWide) ==
    /\ d \in low..from
    /\ d = low \/ d \notin tooWide
    /\ \A n \in low..from : n > d => n \in tooWide

(* Going down stops at the first number that is not too wide, or at the    *)
(* last.                                                                   *)
LEMMA DownStops ==
    ASSUME NEW low \in Nat, NEW from \in Nat, low <= from, NEW tooWide
    PROVE  Stops(Down(from, low, tooWide), from, low, tooWide)
<1> DEFINE N == from - low
           step == [x \in Nat \X (1..N) |-> IF low + x[2] \in tooWide THEN x[1] ELSE low + x[2]]
           Body(f) == [n \in low..from |-> IF n > low /\ n \in tooWide THEN f[n - 1] ELSE n]
           stop == CHOOSE f : f = Body(f)
           G == {k \in 0..N : Stops(stop[low + k], low + k, low, tooWide)}
<1>1. N \in Nat /\ low + N = from /\ \A k \in 0..N : low + k \in low..from
  OBVIOUS
<1>2. step \in [Nat \X (1..N) -> Nat]
  BY <1>1
<1>3. PICK g : Recurs(g, Nat, low, N, step)
  <2> HIDE DEF step, N
  <2>1. PICK S, base, M, st : S = Nat /\ base = low /\ M = N /\ st = step
    OBVIOUS
  <2>2. base \in S /\ M \in Nat /\ st \in [S \X (1..M) -> S]
    BY <1>1, <1>2, <2>1
  <2>3. \E f : Recurs(f, S, base, M, st)
    BY ONLY <2>2, RecursionExists
  <2> QED BY <2>1, <2>3
<1>4. /\ g \in [0..N -> Nat] /\ g[0] = low
      /\ \A k \in 1..N : g[k] = IF low + k \in tooWide THEN g[k - 1] ELSE low + k
  <2> HIDE DEF step
  <2>1. g \in [0..N -> Nat] /\ g[0] = low /\ \A k \in 1..N : g[k] = step[<<g[k - 1], k>>]
    BY <1>3 DEF Recurs
  <2>2. \A k \in 1..N : k - 1 \in 0..N
    BY <1>1
  <2>3. \A k \in 1..N : <<g[k - 1], k>> \in Nat \X (1..N)
    BY <2>1, <2>2
  <2>4. \A m \in Nat, k \in 1..N : step[<<m, k>>] = IF low + k \in tooWide THEN m ELSE low + k
    BY DEF step
  <2>5. ASSUME NEW k \in 1..N
        PROVE  g[k] = IF low + k \in tooWide THEN g[k - 1] ELSE low + k
    <3>1. PICK m \in Nat : m = g[k - 1]
      BY <2>1, <2>2
    <3>2. g[k] = step[<<m, k>>]
      BY <2>1, <3>1
    <3> QED BY <2>4, <3>1, <3>2
  <2> QED BY <2>1, <2>5
<1> DEFINE f == [n \in low..from |-> g[n - low]]
<1>5. f = Body(f)
  <2>1. ASSUME NEW n \in low..from
        PROVE  f[n] = IF n > low /\ n \in tooWide THEN f[n - 1] ELSE n
    <3>1. f[n] = g[n - low]
      OBVIOUS
    <3>2. CASE n = low
      BY <1>4, <3>1, <3>2
    <3>3. CASE n # low
      <4>1. /\ n - low \in 1..N /\ low + (n - low) = n /\ n - 1 \in low..from
            /\ (n - 1) - low = (n - low) - 1 /\ n > low
        BY <3>3
      <4>2. f[n - 1] = g[(n - low) - 1]
        BY <4>1
      <4> HIDE DEF f
      <4> QED BY <1>4, <3>1, <4>1, <4>2
    <3> QED BY <3>2, <3>3
  <2>2. \A n \in low..from : f[n] = IF n > low /\ n \in tooWide THEN f[n - 1] ELSE n
    BY <2>1
  <2>3. f = [n \in low..from |-> f[n]]
    OBVIOUS
  <2> HIDE DEF f
  <2> QED BY <2>2, <2>3
<1>6. stop = Body(stop)
  <2>1. \E h : h = Body(h)
    BY <1>5
  <2> HIDE DEF Body
  <2> QED BY <2>1
<1>7. \A n \in low..from : stop[n] = IF n > low /\ n \in tooWide THEN stop[n - 1] ELSE n
  <2> HIDE DEF stop
  <2> QED BY <1>6
<1> HIDE DEF stop
<1>8. 0 \in G
  <2>1. low \in low..from /\ low + 0 = low /\ 0 \in 0..N
    OBVIOUS
  <2>2. stop[low] = low
    BY <1>7, <2>1
  <2> QED BY <2>1, <2>2 DEF Stops
<1>9. ASSUME NEW k \in 1..N, k - 1 \in G PROVE k \in G
  <2>1. /\ low + k \in low..from /\ low + k > low /\ (low + k) - 1 = low + (k - 1) /\ k \in 0..N
        /\ low + k \in Nat /\ low + (k - 1) \in Nat
    BY <1>1
  <2>2. stop[low + k] = IF low + k \in tooWide THEN stop[low + (k - 1)] ELSE low + k
    BY <1>7, <2>1
  <2>3. Stops(stop[low + (k - 1)], low + (k - 1), low, tooWide)
    BY <1>9
  <2>4. CASE low + k \in tooWide
    <3>1. PICK d : d = stop[low + (k - 1)]
      OBVIOUS
    <3>2. /\ d \in low..low + (k - 1) /\ (d = low \/ d \notin tooWide)
          /\ \A n \in low..low + (k - 1) : n > d => n \in tooWide
      BY <2>3, <3>1 DEF Stops
    <3>3. \A n \in low..low + k : n \in low..low + (k - 1) \/ n = low + k
      BY <2>1
    <3>4. d \in low..low + k
      BY <2>1, <3>2
    <3>5. Stops(d, low + k, low, tooWide)
      BY <2>4, <3>2, <3>3, <3>4 DEF Stops
    <3> QED BY <2>1, <2>2, <2>4, <3>1, <3>5
  <2>5. CASE low + k \notin tooWide
    <3>1. low + k \in low..low + k /\ \A n \in low..low + k : ~(n > low + k)
      BY <2>1
    <3>2. Stops(low + k, low + k, low, tooWide)
      BY <2>5, <3>1 DEF Stops
    <3> QED BY <2>1, <2>2, <2>5, <3>2
  <2> QED BY <2>4, <2>5
<1>10. N \in G
  <2>1. \A k \in 1..N : k - 1 \in G => k \in G
    BY <1>9
  <2> HIDE DEF G, N
  <2> QED BY <1>1, <1>8, <2>1, CountingUp
<1>11. Stops(stop[from], from, low, tooWide)
  BY <1>1, <1>10
<1>12. Down(from, low, tooWide) = stop[from]
  BY DEF Down, stop
<1> QED BY <1>11, <1>12

(* What a selection of lines measures.                                     *)
Widths(s) == [i \in DOMAIN s |-> s[i].size + 3]

(* The width of an outline is the sum of its entries' widths.              *)
LEMMA WidthsAre ==
    ASSUME NEW s \in Seq(Entry)
    PROVE  /\ Len(s) \in Nat /\ DOMAIN s = 1..Len(s) /\ \A i \in 1..Len(s) : s[i] \in Entry
           /\ Widths(s) \in [1..Len(s) -> Nat]
           /\ \A i \in 1..Len(s) : Widths(s)[i] = s[i].size + 3
           /\ Width(s) = SumFunction(Widths(s)) /\ Width(s) \in Nat
<1>1. Len(s) \in Nat /\ DOMAIN s = 1..Len(s) /\ \A i \in 1..Len(s) : s[i] \in Entry
  OBVIOUS
<1>2. \A e \in Entry : e.size + 3 \in Nat
  <2>1. \A n \in Sizes : n \in Nat
    BY LengthsAssumption
  <2>2. \A e \in Entry : e.size \in Sizes
    BY DEF Entry
  <2> QED BY <2>1, <2>2
<1>3. Widths(s) = [i \in 1..Len(s) |-> s[i].size + 3]
  BY <1>1 DEF Widths
<1>4. Widths(s) \in [1..Len(s) -> Nat] /\ \A i \in 1..Len(s) : Widths(s)[i] = s[i].size + 3
  BY <1>1, <1>2, <1>3
<1>5. Width(s) = SumFunction(Widths(s))
  BY DEF Width, Widths
<1>6. SumFunction(Widths(s)) \in Nat
  <2>1. PICK S, f : S = 1..Len(s) /\ f = Widths(s)
    OBVIOUS
  <2>2. IsFiniteSet(S) /\ f \in [S -> Nat]
    BY <1>1, <1>4, <2>1, FS_Interval
  <2>3. SumFunction(f) \in Nat
    BY ONLY <2>2, SumNumber
  <2> QED BY <2>1, <2>3
<1> QED BY <1>1, <1>4, <1>5, <1>6

(* And that of some of its entries is the sum of theirs.                   *)
LEMMA WidthOfSelection ==
    ASSUME NEW s \in Seq(Entry), NEW K \in SUBSET (1..Len(s))
    PROVE  /\ Select(s, K) \in Seq(Entry) /\ Len(Select(s, K)) = Cardinality(K)
           /\ Width(Select(s, K)) = Sums(Widths(s))[K]
<1> DEFINE r == Select(s, K)
<1>1. K \in SUBSET DOMAIN s
  BY WidthsAre
<1>2. r \in Seq(Entry) /\ Len(r) = Cardinality(K) /\ \E at : Picks(r, s, K, at)
  BY <1>1, SelectPicks
<1> HIDE DEF r
<1>3. PICK at : Picks(r, s, K, at)
  BY <1>2
<1>4. /\ Len(s) \in Nat /\ Widths(s) \in [1..Len(s) -> Nat]
      /\ \A i \in 1..Len(s) : Widths(s)[i] = s[i].size + 3
      /\ Len(r) \in Nat /\ Widths(r) \in [1..Len(r) -> Nat]
      /\ \A i \in 1..Len(r) : Widths(r)[i] = r[i].size + 3
      /\ Width(r) = SumFunction(Widths(r))
  BY <1>2, WidthsAre
<1>5. PICK S, f, P, N, pos, h :
        /\ S = 1..Len(s) /\ f = Widths(s) /\ P = K /\ N = Len(r) /\ pos = at /\ h = Widths(r)
  OBVIOUS
<1>6. /\ IsFiniteSet(S) /\ f \in [S -> Nat] /\ P \in SUBSET S /\ N \in Nat
      /\ pos \in [1..N -> P] /\ h \in [1..N -> Nat]
  <2>1. pos \in [1..N -> P]
    BY <1>3, <1>5 DEF Picks
  <2>2. IsFiniteSet(S)
    BY <1>4, <1>5, FS_Interval
  <2> QED BY <1>4, <1>5, <2>1, <2>2
<1>7. \A x \in P : \E n \in 1..N : pos[n] = x
  BY <1>3, <1>5 DEF Picks
<1>8. \A m, n \in 1..N : pos[m] = pos[n] => m = n
  <2>1. \A m, n \in 1..N : m < n => pos[m] < pos[n]
    BY <1>3, <1>5 DEF Picks
  <2>2. \A n \in 1..N : pos[n] \in Nat
    <3>1. \A n \in 1..N : pos[n] \in 1..Len(s)
      BY <1>5, <1>6
    <3> QED BY <1>4, <3>1
  <2>3. \A m, n \in 1..N : m < n \/ n < m \/ m = n
    BY <1>6
  <2> QED BY <2>1, <2>2, <2>3
<1>9. \A n \in 1..N : h[n] = f[pos[n]]
  <2>1. \A n \in 1..N : r[n] = s[at[n]] /\ at[n] \in 1..Len(s)
    BY <1>3, <1>5 DEF Picks
  <2> QED BY <1>4, <1>5, <2>1
<1>10. Enumerates(pos, N, P) /\ Along(h, f, pos, N)
  BY <1>6, <1>7, <1>8, <1>9 DEF Enumerates, Along
<1>11. SumFunction(h) = Sums(f)[P]
  BY ONLY <1>6, <1>10, SumPicked
<1> QED BY <1>2, <1>4, <1>5, <1>11 DEF r

(* More entries are never narrower.                                        *)
LEMMA WidthGrows ==
    ASSUME NEW s \in Seq(Entry), NEW K \in SUBSET (1..Len(s)), NEW J \in SUBSET K
    PROVE  Width(Select(s, J)) <= Width(Select(s, K))
<1>1. Width(Select(s, J)) = Sums(Widths(s))[J] /\ Width(Select(s, K)) = Sums(Widths(s))[K]
  BY WidthOfSelection
<1>2. PICK S, f, P, Q : S = 1..Len(s) /\ f = Widths(s) /\ P = K /\ Q = J
  OBVIOUS
<1>3. IsFiniteSet(S) /\ f \in [S -> Nat] /\ P \in SUBSET S /\ Q \in SUBSET P
  <2>1. Len(s) \in Nat /\ Widths(s) \in [1..Len(s) -> Nat]
    BY WidthsAre
  <2>2. IsFiniteSet(1..Len(s))
    BY <2>1, FS_Interval
  <2> QED BY <1>2, <2>1, <2>2
<1>4. Sums(f)[Q] <= Sums(f)[P]
  BY ONLY <1>3, SumsOfPart
<1> QED BY <1>1, <1>2, <1>4

(* An empty outline is of no width.                                        *)
LEMMA NothingHasNoWidth == Width(<<>>) = 0
<1>1. Width(<<>>) = Sums(Widths(<<>>))[DOMAIN Widths(<<>>)]
  BY SumIsTotal DEF Width, Widths
<1>2. DOMAIN Widths(<<>>) = {} /\ Widths(<<>>) \in [{} -> Nat]
  BY DEF Widths
<1>3. PICK S, f : S = {} /\ f = Widths(<<>>)
  OBVIOUS
<1>4. IsFiniteSet(S) /\ f \in [S -> Nat]
  BY <1>2, <1>3, FS_EmptySet
<1>5. Sums(f)[{}] = 0
  BY ONLY <1>4, SumsExist
<1> QED BY <1>1, <1>2, <1>3, <1>5

(* The deepest level of an outline is one of its entries'.                 *)
LEMMA FullDepthIs ==
    ASSUME NEW s \in Seq(Entry)
    PROVE  /\ FullDepth(s) \in Nat \ {0}
           /\ \A i \in 1..Len(s) : s[i].level <= FullDepth(s)
           /\ FullDepth(s) > 1 => \E i \in 1..Len(s) : s[i].level = FullDepth(s)
<1> DEFINE L == {e.level : e \in Range(s)}
           Deeper == {mn \in L \X L : mn[1] > mn[2]}
<1>1. Len(s) \in Nat /\ DOMAIN s = 1..Len(s) /\ \A i \in 1..Len(s) : s[i] \in Entry
  BY WidthsAre
<1>2. \A e \in Entry : e.level \in Nat \ {0}
  <2>1. \A n \in Levels : n \in Nat \ {0}
    BY LevelsAssumption
  <2>2. \A e \in Entry : e.level \in Levels
    BY DEF Entry
  <2> QED BY <2>1, <2>2
<1>3. L = {s[i].level : i \in 1..Len(s)} /\ Range(s) = {s[i] : i \in 1..Len(s)}
  BY <1>1 DEF Range
<1>4. L \subseteq Nat \ {0}
  BY <1>1, <1>2, <1>3
<1>5. CASE s = <<>>
  BY <1>5 DEF FullDepth
<1>6. CASE s # <<>>
  <2>1. 1 \in 1..Len(s) /\ L # {}
    <3>1. Len(s) # 0
      BY <1>6
    <3>2. 1 \in 1..Len(s)
      BY <1>1, <3>1
    <3> HIDE DEF L
    <3> QED BY <1>3, <3>2
  <2>2. IsFiniteSet(L)
    <3> HIDE DEF L
    <3>1. PICK D, f, U : D = 1..Len(s) /\ f = [i \in 1..Len(s) |-> s[i].level] /\ U = L
      OBVIOUS
    <3>2. IsFiniteSet(D)
      BY <1>1, <3>1, FS_Interval
    <3>3. f \in Surjection(D, U)
      BY <1>3, <3>1 DEF Surjection
    <3>4. IsFiniteSet(U)
      BY ONLY <3>2, <3>3, FS_Surjection
    <3> QED BY <3>1, <3>4
  <2>3. StrictOrder(L, Deeper)
    <3>1. \A m, n \in L : <<m, n>> \in Deeper <=> m > n
      OBVIOUS
    <3>2. \A m \in L : m \in Nat
      BY <1>4
    <3> HIDE DEF L, Deeper
    <3> QED BY <3>1, <3>2 DEF StrictOrder
  <2>4. PICK m \in L : \A n \in L : m = n \/ <<m, n>> \in Deeper
    <3> HIDE DEF L, Deeper
    <3> QED BY <2>1, <2>2, <2>3, FirstExists
  <2>5. \A n \in L : n <= m
    <3>1. \A n \in L : m = n \/ m > n
      BY <2>4
    <3>2. \A n \in L : n \in Nat
      BY <1>4
    <3> HIDE DEF L
    <3> QED BY <2>4, <3>1, <3>2
  <2>6. FullDepth(s) \in L /\ \A e \in Range(s) : e.level <= FullDepth(s)
    <3>1. FullDepth(s) = CHOOSE d \in L : \A e \in Range(s) : e.level <= d
      BY <1>6 DEF FullDepth
    <3>2. \E d \in L : \A e \in Range(s) : e.level <= d
      BY <2>4, <2>5
    <3> QED BY <3>1, <3>2
  <2> HIDE DEF L
  <2> QED BY <1>3, <1>4, <2>6
<1> QED BY <1>5, <1>6

(* The entries down to a level, and those levels.                          *)
Kept(s, d) == {i \in 1..Len(s) : s[i].level <= d}

(* The entries down to a level; all of them, at full depth.                *)
LEMMA UpToIs ==
    ASSUME NEW s \in Seq(Entry), NEW d \in Nat
    PROVE  /\ UpTo(s, d) = Select(s, Kept(s, d)) /\ Kept(s, d) \in SUBSET (1..Len(s))
           /\ UpTo(s, d) \in Seq(Entry) /\ Len(UpTo(s, d)) = Cardinality(Kept(s, d))
           /\ Width(UpTo(s, d)) \in Nat
           /\ FullDepth(s) <= d => UpTo(s, d) = s
<1>1. DOMAIN s = 1..Len(s) /\ Kept(s, d) \in SUBSET (1..Len(s))
  BY WidthsAre DEF Kept
<1>2. UpTo(s, d) = Select(s, Kept(s, d))
  BY <1>1 DEF UpTo, Kept
<1>3. UpTo(s, d) \in Seq(Entry) /\ Len(UpTo(s, d)) = Cardinality(Kept(s, d))
  BY <1>1, <1>2, WidthOfSelection
<1>4. Width(UpTo(s, d)) \in Nat
  BY <1>3, WidthsAre
<1>5. ASSUME FullDepth(s) <= d PROVE UpTo(s, d) = s
  <2>1. \A i \in 1..Len(s) : s[i].level \in Nat
    <3>1. \A n \in Levels : n \in Nat
      BY LevelsAssumption
    <3>2. \A i \in 1..Len(s) : s[i].level \in Levels
      BY WidthsAre DEF Entry
    <3> QED BY <3>1, <3>2
  <2>2. \A i \in 1..Len(s) : s[i].level <= d
    BY <1>5, <2>1, FullDepthIs
  <2>3. Kept(s, d) = 1..Len(s)
    BY <2>2 DEF Kept
  <2> QED BY <1>2, <2>3, SelectWhole
<1> QED BY <1>1, <1>2, <1>3, <1>4, <1>5

(* Where the two loops of an outline's trimming stop.                      *)
LEMMA ShedDepthIs ==
    ASSUME NEW s \in Seq(Entry), NEW max \in Nat
    PROVE  /\ ShedDepth(s, max) \in 1..FullDepth(s)
           /\ ShedDepth(s, max) = 1 \/ Width(UpTo(s, ShedDepth(s, max))) <= max
           /\ \A n \in 1..FullDepth(s) : n > ShedDepth(s, max) => Width(UpTo(s, n)) > max
<1> DEFINE N == FullDepth(s)
           depth == ShedDepth(s, max)
           W == WideDepths(s, max)
<1>1. N \in Nat /\ 1 <= N
  BY FullDepthIs
<1>2. \A n \in 1..N : n \in W <=> Width(UpTo(s, n)) > max
  BY DEF WideDepths
<1>3. \A n \in 1..N : Width(UpTo(s, n)) \in Nat
  BY UpToIs
<1> HIDE DEF N, W
<1>4. Stops(Down(N, 1, W), N, 1, W)
  BY <1>1, DownStops
<1>5. depth = Down(N, 1, W)
  BY DEF ShedDepth, N, W
<1>6. /\ depth \in 1..N /\ (depth = 1 \/ depth \notin W)
      /\ \A n \in 1..N : n > depth => n \in W
  BY <1>4, <1>5 DEF Stops
<1> HIDE DEF depth
<1>7. depth = 1 \/ Width(UpTo(s, depth)) <= max
  BY <1>2, <1>3, <1>6
<1> QED BY <1>2, <1>6, <1>7 DEF depth, N

(* The lines that fit are the most that do.                                *)
LEMMA LinesAre ==
    ASSUME NEW s \in Seq(Entry), NEW max \in Nat
    PROVE  \E n \in 0..Len(s) :
             /\ n = Down(Len(s), 0, {m \in DOMAIN s : Width(SubSeq(s, 1, m)) > max})
             /\ SubSeq(s, 1, n) \in Seq(Entry) /\ Len(SubSeq(s, 1, n)) = n
             /\ Width(SubSeq(s, 1, n)) <= max
             /\ \A m \in 1..Len(s) : m > n => Width(SubSeq(s, 1, m)) > max
             /\ n = Len(s) => SubSeq(s, 1, n) = s
<1> DEFINE N == Len(s)
           W == {m \in DOMAIN s : Width(SubSeq(s, 1, m)) > max}
           n == Down(N, 0, W)
<1>1. N \in Nat /\ DOMAIN s = 1..N
  OBVIOUS
<1>2. \A m \in 0..N : SubSeq(s, 1, m) \in Seq(Entry) /\ Len(SubSeq(s, 1, m)) = m
  BY FirstOnes
<1>3. \A m \in 0..N : Width(SubSeq(s, 1, m)) \in Nat
  BY <1>2, WidthsAre
<1>4. \A m \in 1..N : m \in W <=> Width(SubSeq(s, 1, m)) > max
  BY <1>1
<1> HIDE DEF W
<1>5. Stops(n, N, 0, W)
  BY <1>1, DownStops
<1> HIDE DEF n
<1>6. n \in 0..N /\ (n = 0 \/ n \notin W) /\ \A m \in 0..N : m > n => m \in W
  BY <1>5 DEF Stops
<1>7. Width(SubSeq(s, 1, n)) <= max
  <2>1. CASE n = 0
    <3>1. SubSeq(s, 1, 0) = <<>>
      <4>1. PICK r : r = SubSeq(s, 1, 0)
        OBVIOUS
      <4>2. r \in Seq(Entry) /\ Len(r) = 0
        BY <1>1, <1>2, <4>1
      <4>3. r = <<>>
        BY <4>2
      <4> QED BY <4>1, <4>3
    <3>2. Width(SubSeq(s, 1, n)) = 0
      BY <2>1, <3>1, NothingHasNoWidth
    <3> QED BY <3>2
  <2>2. CASE n # 0
    <3>1. n \in 1..N /\ n \notin W
      BY <1>1, <1>6, <2>2
    <3>2. ~(Width(SubSeq(s, 1, n)) > max) /\ Width(SubSeq(s, 1, n)) \in Nat
      BY <1>3, <1>4, <1>6, <3>1
    <3> QED BY <3>2
  <2> QED BY <2>1, <2>2
<1>8. \A m \in 1..N : m > n => Width(SubSeq(s, 1, m)) > max
  <2>1. \A m \in 1..N : m \in 0..N
    BY <1>1
  <2> QED BY <1>4, <1>6, <2>1
<1>9. n = N => SubSeq(s, 1, n) = s
  <2>1. SubSeq(s, 1, N) = [i \in 1..N |-> s[i]]
    BY <1>1, FirstOnes
  <2>2. s = [i \in 1..N |-> s[i]]
    BY <1>1
  <2> QED BY <2>1, <2>2
<1>10. n = Down(Len(s), 0, {m \in DOMAIN s : Width(SubSeq(s, 1, m)) > max})
  BY DEF n, W
<1> QED BY <1>2, <1>6, <1>7, <1>8, <1>9, <1>10

(* An outline is shortened by levels, then by lines, no more than it must  *)
(* be.                                                                     *)
LEMMA ShapeFromTypes == IInv => OutlineKeepsShape
<1> SUFFICES ASSUME IInv, NEW max \in Budgets
             PROVE  LET fit == FitToBudget(entries, max)
                        top == UpTo(entries, 1)
                    IN  /\ Width(fit.lines) <= max
                        /\ fit.shed \/ fit.truncated <=> fit.lines # entries
                        /\ IF Width(top) <= max
                           THEN \E depth \in Levels :
                                   /\ fit.lines = UpTo(entries, depth)
                                   /\ \/ fit.lines = entries
                                      \/ \A deeper \in Levels :
                                            UpTo(entries, deeper) # fit.lines /\ deeper > depth
                                            => Width(UpTo(entries, deeper)) > max
                           ELSE \E n \in 0..Len(top) - 1 :
                                   /\ fit.lines = SubSeq(top, 1, n)
                                   /\ Width(SubSeq(top, 1, n + 1)) > max
  BY DEF OutlineKeepsShape
<1> DEFINE fit == FitToBudget(entries, max)
           top == UpTo(entries, 1)
           full == FullDepth(entries)
           d == ShedDepth(entries, max)
           kept == UpTo(entries, d)
           lines == fit.lines
<1>1. max \in Nat /\ entries \in Seq(Entry) /\ Levels \subseteq Nat \ {0} /\ 1 \in Levels
  BY BudgetsAssumption, LevelsAssumption DEF Budgets, IInv
<1>2. /\ full \in Nat \ {0} /\ \A i \in 1..Len(entries) : entries[i].level <= full
      /\ full > 1 => \E i \in 1..Len(entries) : entries[i].level = full
  BY <1>1, FullDepthIs
<1>3. /\ d \in 1..full /\ (d = 1 \/ Width(kept) <= max)
      /\ \A n \in 1..full : n > d => Width(UpTo(entries, n)) > max
  BY <1>1, ShedDepthIs
<1>4. \A n \in Nat : /\ UpTo(entries, n) = Select(entries, Kept(entries, n))
                     /\ Kept(entries, n) \in SUBSET (1..Len(entries))
                     /\ UpTo(entries, n) \in Seq(Entry)
                     /\ Len(UpTo(entries, n)) = Cardinality(Kept(entries, n))
                     /\ Width(UpTo(entries, n)) \in Nat
                     /\ full <= n => UpTo(entries, n) = entries
  BY <1>1, UpToIs
<1>5. d \in Nat /\ 1 \in Nat /\ Len(entries) \in Nat
  BY <1>1, <1>2, <1>3
<1>6. PICK n \in 0..Len(kept) :
         /\ n = Down(Len(kept), 0, {m \in DOMAIN kept : Width(SubSeq(kept, 1, m)) > max})
         /\ SubSeq(kept, 1, n) \in Seq(Entry) /\ Len(SubSeq(kept, 1, n)) = n
         /\ Width(SubSeq(kept, 1, n)) <= max
         /\ \A m \in 1..Len(kept) : m > n => Width(SubSeq(kept, 1, m)) > max
         /\ n = Len(kept) => SubSeq(kept, 1, n) = kept
  BY <1>1, <1>4, <1>5, LinesAre
<1>7. /\ lines = SubSeq(kept, 1, n) /\ Len(lines) = n
      /\ (fit.shed <=> d < full) /\ (fit.truncated <=> n < Len(kept))
  BY <1>6 DEF FitToBudget
<1> HIDE DEF fit, full, d, kept, lines, top
<1>8. Width(lines) <= max
  BY <1>6, <1>7
<1>9. n \in Nat /\ Len(kept) \in Nat /\ kept \in Seq(Entry) /\ Width(kept) \in Nat
      /\ Width(top) \in Nat /\ top \in Seq(Entry)
  <2>1. kept \in Seq(Entry) /\ Width(kept) \in Nat
    BY <1>4, <1>5 DEF kept
  <2>2. top \in Seq(Entry) /\ Width(top) \in Nat
    BY <1>4, <1>5 DEF top
  <2>3. Len(kept) \in Nat
    BY <2>1
  <2> QED BY <2>1, <2>2, <2>3
<1>10. d = full => kept = entries
  BY <1>4, <1>5 DEF kept
<1>11. ASSUME d < full PROVE Len(kept) < Len(entries)
  <2>1. PICK i \in 1..Len(entries) : entries[i].level = full
    BY <1>2, <1>3, <1>5, <1>11
  <2>2. i \notin Kept(entries, d)
    BY <1>2, <1>5, <1>11, <2>1 DEF Kept
  <2>3. Kept(entries, d) \in SUBSET (1..Len(entries)) /\ Kept(entries, d) # 1..Len(entries)
    BY <1>4, <1>5, <2>1, <2>2
  <2>4. IsFiniteSet(1..Len(entries)) /\ Cardinality(1..Len(entries)) = Len(entries)
    <3>1. PICK N \in Nat : N = Len(entries)
      BY <1>5
    <3>2. IsFiniteSet(1..N) /\ Cardinality(1..N) = N
      BY FS_Interval
    <3> QED BY <3>1, <3>2
  <2>5. Cardinality(Kept(entries, d)) < Cardinality(1..Len(entries))
    <3>1. PICK S, T : S = 1..Len(entries) /\ T = Kept(entries, d)
      OBVIOUS
    <3>2. IsFiniteSet(S) /\ T \in SUBSET S /\ T # S
      BY <2>3, <2>4, <3>1
    <3>3. Cardinality(T) <= Cardinality(S) /\ (Cardinality(S) = Cardinality(T) => S = T)
          /\ Cardinality(T) \in Nat /\ Cardinality(S) \in Nat
      BY ONLY <3>2, FS_Subset, FS_CardinalityType
    <3> QED BY <3>1, <3>2, <3>3
  <2> QED BY <1>4, <1>5, <2>4, <2>5 DEF kept
<1>12. fit.shed \/ fit.truncated <=> lines # entries
  <2>1. CASE d = full
    <3>1. ~fit.shed /\ kept = entries
      <4>1. ~(d < full)
        BY <1>5, <2>1
      <4>2. kept = entries
        BY <1>10, <2>1
      <4> QED BY <1>7, <4>1, <4>2
    <3>2. n < Len(kept) => lines # entries
      BY <1>7, <1>9, <3>1
    <3>3. ~(n < Len(kept)) => lines = entries
      BY <1>6, <1>7, <1>9, <3>1
    <3> QED BY <1>7, <3>1, <3>2, <3>3
  <2>2. CASE d # full
    <3>1. d < full
      BY <1>2, <1>3, <1>5, <2>2
    <3>2. Len(lines) < Len(entries)
      BY <1>5, <1>6, <1>7, <1>9, <1>11, <3>1
    <3>3. lines # entries
      BY <1>5, <3>2
    <3> QED BY <1>7, <3>1, <3>3
  <2> QED BY <2>1, <2>2
<1>13. ASSUME Width(top) <= max
       PROVE  \E depth \in Levels :
                 /\ lines = UpTo(entries, depth)
                 /\ \/ lines = entries
                    \/ \A deeper \in Levels :
                          UpTo(entries, deeper) # lines /\ deeper > depth
                          => Width(UpTo(entries, deeper)) > max
  <2>1. Width(kept) <= max
    BY <1>3, <1>13 DEF kept, top
  <2>2. n = Len(kept) /\ lines = kept
    <3>1. SubSeq(kept, 1, Len(kept)) = kept
      <4>1. Len(kept) \in 0..Len(kept)
        BY <1>9
      <4>2. /\ SubSeq(kept, 1, Len(kept)) = [i \in 1..Len(kept) |-> kept[i]]
            /\ kept = [i \in 1..Len(kept) |-> kept[i]]
        BY <1>9, <4>1, FirstOnes
      <4> QED BY <4>2
    <3>2. n = Len(kept)
      <4>1. ASSUME n < Len(kept) PROVE FALSE
        <5>1. Len(kept) \in 1..Len(kept) /\ Len(kept) > n
          BY <1>9, <4>1
        <5>2. Width(kept) > max
          BY <1>6, <3>1, <5>1
        <5> QED BY <1>1, <1>9, <2>1, <5>2
      <4> QED BY <1>6, <1>9, <4>1
    <3> QED BY <1>6, <1>7, <3>2
  <2>3. PICK depth \in {l \in Levels : l <= d} : \A l \in {l \in Levels : l <= d} : l <= depth
    <3>1. {l \in Levels : l <= d} \subseteq Nat /\ {l \in Levels : l <= d} # {}
      <4>1. 1 \in {l \in Levels : l <= d}
        BY <1>1, <1>3, <1>5
      <4>2. \A l \in Levels : l \in Nat
        BY <1>1
      <4> QED BY <4>1, <4>2
    <3>2. \A l \in {l \in Levels : l <= d} : l <= d
      OBVIOUS
    <3> QED BY <1>5, <3>1, <3>2, GreatestNumber
  <2>4. kept = UpTo(entries, depth)
    <3>1. \A i \in 1..Len(entries) : entries[i].level \in Levels
      BY <1>1, WidthsAre DEF Entry
    <3>2. \A l \in Levels : l <= d <=> l <= depth
      BY <1>1, <1>5, <2>3
    <3>3. Kept(entries, d) = Kept(entries, depth)
      BY <3>1, <3>2 DEF Kept
    <3>4. depth \in Nat
      BY <1>1
    <3> QED BY <1>4, <1>5, <3>3, <3>4 DEF kept
  <2>5. ASSUME lines # entries, NEW deeper \in Levels, deeper > depth
        PROVE  Width(UpTo(entries, deeper)) > max
    <3>1. deeper \in Nat /\ deeper > d /\ depth \in Nat
      <4>1. deeper \in Nat /\ depth \in Nat
        BY <1>1
      <4> QED BY <1>5, <2>3, <2>5, <4>1
    <3>2. d < full
      BY <1>2, <1>3, <1>5, <1>10, <2>2, <2>5
    <3>3. CASE deeper <= full
      <4>1. deeper \in 1..full
        BY <1>2, <1>5, <3>1, <3>3
      <4> QED BY <1>3, <3>1, <4>1
    <3>4. CASE ~(deeper <= full)
      <4>1. UpTo(entries, deeper) = entries /\ UpTo(entries, full) = entries
        BY <1>2, <1>4, <3>1, <3>4
      <4>2. full \in 1..full /\ full > d
        BY <1>2, <1>5, <3>2
      <4> QED BY <1>3, <4>1, <4>2
    <3> QED BY <3>3, <3>4
  <2> QED BY <2>2, <2>3, <2>4, <2>5
<1>14. ASSUME ~(Width(top) <= max)
       PROVE  \E k \in 0..Len(top) - 1 :
                 /\ lines = SubSeq(top, 1, k)
                 /\ Width(SubSeq(top, 1, k + 1)) > max
  <2>1. d = 1
    <3>1. Kept(entries, 1) \in SUBSET Kept(entries, d)
      <4>1. \A i \in 1..Len(entries) : entries[i].level \in Nat
        <5>1. \A i \in 1..Len(entries) : entries[i].level \in Levels
          BY <1>1, WidthsAre DEF Entry
        <5> QED BY <1>1, <5>1
      <4> QED BY <1>2, <1>3, <1>5, <4>1 DEF Kept
    <3>2. Width(Select(entries, Kept(entries, 1))) <= Width(Select(entries, Kept(entries, d)))
      BY <1>1, <1>4, <1>5, <3>1, WidthGrows
    <3>3. Width(top) <= Width(kept)
      BY <1>4, <1>5, <3>2 DEF top, kept
    <3> QED BY <1>1, <1>3, <1>9, <1>14, <3>3 DEF kept
  <2>2. kept = top
    BY <2>1 DEF kept, top
  <2>3. n # Len(top)
    BY <1>6, <1>8, <1>7, <1>14, <2>2
  <2>4. n \in 0..Len(top) - 1 /\ n < Len(kept)
    BY <1>6, <1>9, <2>2, <2>3
  <2>5. Width(SubSeq(kept, 1, n + 1)) > max
    <3>1. n + 1 \in 1..Len(kept) /\ n + 1 > n
      BY <1>9, <2>4
    <3> QED BY <1>6, <3>1
  <2> QED BY <1>7, <2>2, <2>4, <2>5
<1> QED BY <1>8, <1>12, <1>13, <1>14 DEF fit, top, lines

(* An outline keeps its shape, whatever its sections and however tight the *)
(* budget.                                                                 *)
THEOREM ShapeCorrect == Spec => []OutlineKeepsShape
BY TypeCorrect, ShapeFromTypes, PTL

-----------------------------------------------------------------------------

(* Intents.  A query is made of rules, a text of letters, and a query of   *)
(* pieces, whatever is done.                                               *)
InputsInv ==
    /\ matched \in SUBSET Rules
    /\ text \in Seq(Letters)
    /\ query \in Seq(Pieces)

(* Only pieces are typed, letters written and rules matched.               *)
LEMMA InputsTypes == TextsSpec => []InputsInv
<1>1. TextsInit => InputsInv
  BY DEF TextsInit, InputsInv
<1>2. InputsInv /\ [TextsNext]_texts => InputsInv'
  <2> SUFFICES ASSUME InputsInv, [TextsNext]_texts PROVE InputsInv'
    OBVIOUS
  <2>1. CASE Grow
    BY <2>1 DEF InputsInv, Grow, own
  <2>2. ASSUME NEW i \in Rules, Match(i) PROVE InputsInv'
    BY <2>2 DEF InputsInv, Match
  <2>3. ASSUME NEW doc, Ask(doc) PROVE InputsInv'
    BY <2>3 DEF InputsInv, Ask
  <2>4. ASSUME NEW letter \in Letters, Write(letter) PROVE InputsInv'
    BY <2>4, AppendProperties DEF InputsInv, Write
  <2>5. ASSUME NEW piece \in Pieces, Type(piece) PROVE InputsInv'
    BY <2>5, AppendProperties DEF InputsInv, Type
  <2>6. CASE UNCHANGED texts
    BY <2>6 DEF InputsInv, texts, own
  <2> QED BY <2>1, <2>2, <2>3, <2>4, <2>5, <2>6 DEF TextsNext
<1> QED BY <1>1, <1>2, PTL DEF TextsSpec

(* "vm" is the last rule of the registry, and none is without boosts.      *)
LEMMA RegistryIs ==
    /\ Rules = 1..13
    /\ \A i \in Rules : INTENT_RULES[i].bq /\ (INTENT_RULES[i].name = "vm" => i = 13)
<1>1. Rules = 1..13
  BY DEF Rules, INTENT_RULES
<1>2. /\ INTENT_RULES[1].name = "release_date" /\ INTENT_RULES[2].name = "eus"
      /\ INTENT_RULES[3].name = "lifecycle" /\ INTENT_RULES[4].name = "spice"
      /\ INTENT_RULES[5].name = "cloud_deploy" /\ INTENT_RULES[6].name = "sap"
      /\ INTENT_RULES[7].name = "container_compat"
      /\ INTENT_RULES[8].name = "programming_language" /\ INTENT_RULES[9].name = "gfs2"
      /\ INTENT_RULES[10].name = "rpm_ostree" /\ INTENT_RULES[11].name = "ethtool"
      /\ INTENT_RULES[12].name = "definition_lookup"
  BY DEF INTENT_RULES, Rule
<1>3. /\ INTENT_RULES[1].bq /\ INTENT_RULES[2].bq /\ INTENT_RULES[3].bq
      /\ INTENT_RULES[4].bq /\ INTENT_RULES[5].bq /\ INTENT_RULES[6].bq
      /\ INTENT_RULES[7].bq /\ INTENT_RULES[8].bq /\ INTENT_RULES[9].bq
      /\ INTENT_RULES[10].bq /\ INTENT_RULES[11].bq /\ INTENT_RULES[12].bq
      /\ INTENT_RULES[13].bq
  BY DEF INTENT_RULES, Rule
<1>4. ASSUME NEW i \in 1..13
      PROVE  INTENT_RULES[i].bq /\ (INTENT_RULES[i].name = "vm" => i = 13)
  <2>1. i \in {1, 2, 3, 4, 5, 6, 7, 8, 9, 10, 11, 12, 13}
    BY <1>4
  <2> QED BY <2>1, <1>2, <1>3
<1> QED BY <1>1, <1>4

(* The first rule of some is the least.                                    *)
LEMMA FirstIs ==
    ASSUME NEW S \in SUBSET Rules, S # {}
    PROVE  First(S) \in S /\ \A i \in S : First(S) <= i
<1>1. S \subseteq Nat
  BY RegistryIs
<1>2. \E m \in S : \A n \in S : m <= n
  BY <1>1, LeastNumber
<1> QED BY <1>2 DEF First

(* One rule boosts both requests, the first that matches.                  *)
LEMMA IntentFromTypes == InputsInv => SpecificIntentWins
<1> SUFFICES ASSUME InputsInv PROVE SpecificIntentWins
  OBVIOUS
<1>1. PICK m : m = matched
  OBVIOUS
<1>2. m \in SUBSET Rules
  BY <1>1 DEF InputsInv
<1>3. CASE m = {}
  <2>1. /\ apply_main_boosts(m) = [bq |-> 0, hl |-> 0, counted |-> "no match"]
        /\ apply_deprecation_boosts(m) = [run |-> TRUE, bq |-> 0, counted |-> "no match"]
    <3>1. {j \in m : INTENT_RULES[j].bq} = {}
      BY <1>3
    <3> QED BY <1>3, <3>1 DEF apply_main_boosts, apply_deprecation_boosts
  <2>2. PICK main : main = [bq |-> 0, hl |-> 0, counted |-> "no match"]
    OBVIOUS
  <2>3. PICK dep : dep = [run |-> TRUE, bq |-> 0, counted |-> "no match"]
    OBVIOUS
  <2>4. main.bq = 0 /\ main.hl = 0 /\ main.counted = "no match"
    BY <2>2
  <2>5. dep.run /\ dep.bq = 0 /\ dep.counted = "no match"
    BY <2>3
  <2>6. apply_main_boosts(m) = main /\ apply_deprecation_boosts(m) = dep
    BY <2>1, <2>2, <2>3
  <2> QED BY <1>1, <1>3, <2>4, <2>5, <2>6 DEF SpecificIntentWins
<1>4. CASE m # {}
  <2>1. PICK i : i = First(m)
    OBVIOUS
  <2>2. i \in m /\ (\A j \in m : i <= j) /\ i \in 1..13 /\ m \subseteq 1..13
    BY <1>2, <1>4, <2>1, FirstIs, RegistryIs
  <2>3. {j \in m : INTENT_RULES[j].bq} = m
    BY <1>2, RegistryIs
  <2>4. apply_main_boosts(m) = [bq |-> i, hl |-> IF INTENT_RULES[i].highlight THEN i ELSE 0,
                                counted |-> "matched"]
    BY <1>4, <2>1, <2>3 DEF apply_main_boosts
  <2>5. apply_deprecation_boosts(m) =
           IF INTENT_RULES[i].dep THEN [run |-> TRUE, bq |-> i, counted |-> "matched"]
           ELSE [run |-> FALSE, bq |-> 0, counted |-> "skipped"]
    BY <1>4, <2>1 DEF apply_deprecation_boosts
  <2>6. INTENT_RULES[i].name = "vm" => m = {i}
    <3>1. INTENT_RULES[i].name = "vm" => i = 13
      BY <2>2, RegistryIs
    <3>2. i = 13 => \A j \in m : j = i
      BY <2>2
    <3> QED BY <2>2, <3>1, <3>2
  <2>7. i # 0
    BY <2>2
  <2> QED BY <1>1, <1>4, <2>2, <2>4, <2>5, <2>6, <2>7 DEF SpecificIntentWins
<1> QED BY <1>3, <1>4

(* The most specific intent decides both requests of every query,          *)
(* whichever rules it matches.                                             *)
THEOREM IntentCorrect == TextsSpec => []SpecificIntentWins
BY InputsTypes, IntentFromTypes, PTL

(* The functions are called with whatever the answers are made of: every   *)
(* behaviour is one of ResponseBudget, and its theorems hold of it.        *)
THEOREM TextsAnswers == TextsSpec => Spec
<1>1. TextsInit => Init
  BY DEF TextsInit
<1>2. [TextsNext]_texts => [Next]_vars
  BY DEF TextsNext, Grow, Match, Ask, Write, Type, texts
<1> QED BY <1>1, <1>2, PTL DEF TextsSpec, Spec

-----------------------------------------------------------------------------

(* Slices of a text, and where a piece of text occurs in it.               *)
Part(r, t, from, n) ==
    /\ Len(r) = n
    /\ \A i \in 1..n : r[i] = t[from + i]

(* A slice is a part of its text.                                          *)
LEMMA SliceIs ==
    ASSUME NEW X, NEW t \in Seq(X), NEW from \in Nat, NEW to \in Nat,
           from <= to, to <= Len(t)
    PROVE  Slice(t, from, to) \in Seq(X) /\ Part(Slice(t, from, to), t, from, to - from)
<1>1. Len(t) \in Nat /\ \A i \in from + 1..to : t[i] \in X
  OBVIOUS
<1>2. Slice(t, from, to) = SubSeq(t, from + 1, to)
  BY <1>1 DEF Slice
<1>3. PICK s, m, n : s = t /\ m = from + 1 /\ n = to
  OBVIOUS
<1>4. m \in Int /\ n \in Int /\ \A i \in m..n : s[i] \in X
  BY <1>1, <1>3
<1>5. /\ SubSeq(s, m, n) \in Seq(X)
      /\ Len(SubSeq(s, m, n)) = IF m <= n THEN n - m + 1 ELSE 0
      /\ \A i \in 1..n - m + 1 : SubSeq(s, m, n)[i] = s[m + i - 1]
  BY ONLY <1>4, SubSeqProperties
<1>6. PICK r : r = SubSeq(s, m, n)
  OBVIOUS
<1>7. r \in Seq(X) /\ Len(r) = to - from /\ \A i \in 1..to - from : r[i] = t[from + i]
  BY <1>3, <1>5, <1>6
<1> QED BY <1>2, <1>3, <1>6, <1>7 DEF Part

(* A slice that goes past the end stops there.                             *)
LEMMA SliceBeyond ==
    ASSUME NEW X, NEW t \in Seq(X), NEW from \in Nat, NEW to \in Nat, Len(t) <= to
    PROVE  Slice(t, from, to) = Slice(t, from, Len(t))
BY DEF Slice

(* Two sequences are the same if they are the same part.                   *)
LEMMA SameParts ==
    ASSUME NEW X, NEW r \in Seq(X), NEW s \in Seq(X), NEW t, NEW from, NEW n, Part(r, t, from, n)
    PROVE  r = s <=> Part(s, t, from, n)
<1>1. Len(r) = n /\ n \in Nat /\ \A i \in 1..n : r[i] = t[from + i]
  BY DEF Part
<1>2. ASSUME Len(s) = n, \A i \in 1..n : s[i] = t[from + i]
      PROVE  r = s
  BY <1>1, <1>2
<1> QED BY <1>1, <1>2 DEF Part

(* A piece occurs in a text from some offset on.                           *)
StandsAt(t, piece, i) ==
    /\ i \in Nat /\ i + Len(piece) <= Len(t)
    /\ \A k \in 1..Len(piece) : piece[k] = t[i + k]

(* A piece occurs where it stands.                                         *)
LEMMA OccurrenceIs ==
    ASSUME NEW X, NEW t \in Seq(X), NEW piece \in Seq(X), NEW from \in Nat
    PROVE  \A i : i \in Occurrences(t, piece, from) <=> i >= from /\ StandsAt(t, piece, i)
<1>1. Len(t) \in Nat /\ Len(piece) \in Nat
  OBVIOUS
<1>2. ASSUME NEW i \in Nat, i >= from, i + Len(piece) <= Len(t)
      PROVE  Slice(t, i, i + Len(piece)) = piece <=> StandsAt(t, piece, i)
  <2>1. PICK to : to = i + Len(piece)
    OBVIOUS
  <2>2. to \in Nat /\ i <= to /\ to <= Len(t) /\ to - i = Len(piece)
    BY <1>1, <1>2, <2>1
  <2>3. PICK r : r = Slice(t, i, to)
    OBVIOUS
  <2>4. r \in Seq(X) /\ Part(r, t, i, Len(piece))
    BY <2>2, <2>3, SliceIs
  <2>5. r = piece <=> Part(piece, t, i, Len(piece))
    BY <2>4, SameParts
  <2> QED BY <1>2, <2>1, <2>3, <2>5 DEF Part, StandsAt
<1>3. ASSUME NEW i \in Occurrences(t, piece, from)
      PROVE  i \in Nat /\ i >= from /\ i + Len(piece) <= Len(t)
             /\ Slice(t, i, i + Len(piece)) = piece
  BY <1>1, <1>3 DEF Occurrences
<1>4. ASSUME NEW i, i >= from, StandsAt(t, piece, i)
      PROVE  i \in Nat /\ i >= from /\ i + Len(piece) <= Len(t)
             /\ i \in from..Len(t) - Len(piece)
  BY <1>1, <1>4 DEF StandsAt
<1> QED BY <1>2, <1>3, <1>4 DEF Occurrences

(* find is the first occurrence, or -1.                                    *)
LEMMA FindIs ==
    ASSUME NEW X, NEW t \in Seq(X), NEW piece \in Seq(X), NEW from \in Nat,
           NEW at, at = find(t, piece, from)
    PROVE  /\ (at = -1 /\ Occurrences(t, piece, from) = {})
                 \/ (at \in Occurrences(t, piece, from) /\ at \in Nat)
           /\ \A j \in Occurrences(t, piece, from) : at <= j
<1>1. Occurrences(t, piece, from) \subseteq Nat
  BY OccurrenceIs DEF StandsAt
<1>2. CASE Occurrences(t, piece, from) = {}
  BY <1>2 DEF find
<1>3. CASE Occurrences(t, piece, from) # {}
  <2>1. \E m \in Occurrences(t, piece, from) : \A n \in Occurrences(t, piece, from) : m <= n
    BY <1>1, <1>3, LeastNumber
  <2> QED BY <1>1, <1>3, <2>1 DEF find
<1> QED BY <1>2, <1>3

(* A short passage is placed if there is one place for it.                 *)
LEMMA ShortFound ==
    ASSUME NEW X, NEW t \in Seq(X), NEW p \in Seq(X)
    PROVE  IF p # <<>> /\ Cardinality(Occurrences(t, p, 0)) = 1
           THEN FindShort(t, p) \in Occurrences(t, p, 0) ELSE FindShort(t, p) = -1
<1> DEFINE places == Occurrences(t, p, 0)
<1>1. PICK at : at = find(t, p, 0)
  OBVIOUS
<1>2. /\ (at = -1 /\ places = {}) \/ (at \in places /\ at \in Nat)
      /\ \A j \in places : at <= j
  <2>1. 0 \in Nat
    OBVIOUS
  <2> QED BY <1>1, <2>1, FindIs
<1>3. at + 1 \in Nat
  BY <1>2
<1>4. PICK next : next = find(t, p, at + 1)
  OBVIOUS
<1>5. \/ next = -1 /\ Occurrences(t, p, at + 1) = {}
      \/ next \in Occurrences(t, p, at + 1) /\ next \in Nat
  BY <1>3, <1>4, FindIs
<1>6. \A i : i \in Occurrences(t, p, at + 1) <=> i \in places /\ i >= at + 1
  <2>1. \A i : i \in places <=> i >= 0 /\ StandsAt(t, p, i)
    <3>1. 0 \in Nat
      OBVIOUS
    <3> QED BY <3>1, OccurrenceIs
  <2>2. \A i : i \in Occurrences(t, p, at + 1) <=> i >= at + 1 /\ StandsAt(t, p, i)
    BY <1>3, OccurrenceIs
  <2> HIDE DEF places
  <2> QED BY <1>3, <2>1, <2>2 DEF StandsAt
<1>7. FindShort(t, p) = IF p = <<>> \/ next >= 0 THEN -1 ELSE at
  BY <1>1, <1>4 DEF FindShort
<1>8. places \subseteq Nat
  BY OccurrenceIs DEF StandsAt
<1> HIDE DEF places
<1>9. CASE p = <<>>
  BY <1>7, <1>9
<1>10. CASE places = {}
  <2>1. Cardinality(places) # 1
    BY <1>10, FS_EmptySet
  <2> QED BY <1>2, <1>5, <1>7, <1>10, <2>1 DEF places
<1>11. CASE places # {} /\ next >= 0
  <2>1. next \in places /\ at \in places /\ next # at
    BY <1>2, <1>5, <1>6, <1>11
  <2>2. ASSUME Cardinality(places) = 1 PROVE FALSE
    <3>1. IsFiniteSet(places)
      <4>1. places \subseteq 0..Len(t)
        BY <1>8, OccurrenceIs DEF places, StandsAt
      <4>2. IsFiniteSet(0..Len(t))
        BY FS_Interval
      <4> QED BY <4>1, <4>2, FS_Subset
    <3> QED BY <2>1, <2>2, <3>1, FS_Singleton
  <2> QED BY <1>7, <1>11, <2>2 DEF places
<1>12. CASE p # <<>> /\ places # {} /\ ~(next >= 0)
  <2>1. at \in places /\ Occurrences(t, p, at + 1) = {} /\ at \in Nat
    BY <1>2, <1>5, <1>12
  <2>2. \A i \in places : i = at
    BY <1>2, <1>6, <1>8, <2>1
  <2>3. places = {at}
    BY <2>1, <2>2
  <2>4. Cardinality(places) = 1
    BY <2>3, FS_Singleton
  <2> QED BY <1>7, <1>12, <2>1, <2>4 DEF places
<1> QED BY <1>9, <1>10, <1>11, <1>12

(* A probe is the part of a passage from a percentage of it on.            *)
LEMMA ProbeIs ==
    ASSUME NEW X, NEW p \in Seq(X), NEW percent \in Percents
    PROVE  \E from \in 0..Len(p), n \in Nat :
              /\ from = (Len(p) * percent) \div 100
              /\ from + n <= Len(p) /\ n <= PROBE_CHARS
              /\ n = Len(p) - from \/ n = PROBE_CHARS
              /\ Probe(p, percent) \in Seq(X) /\ Part(Probe(p, percent), p, from, n)
<1>1. PICK L, from, P : L = Len(p) /\ from = (L * percent) \div 100 /\ P = PROBE_CHARS
  OBVIOUS
<1>2. L \in Nat /\ P \in Nat \ {0}
  BY <1>1, PassagesAssumption
<1>3. from \in 0..L
  <2>1. percent \in {0, 35, 60, 80}
    BY DEF Percents
  <2>2. (L * 0) \div 100 = 0 /\ (L * 35) \div 100 \in 0..L /\ (L * 60) \div 100 \in 0..L
        /\ (L * 80) \div 100 \in 0..L
    BY <1>2
  <2> QED BY <1>1, <1>2, <2>1, <2>2
<1>4. PICK to : to = from + P
  OBVIOUS
<1>5. Probe(p, percent) = Slice(p, from, to)
  BY <1>1, <1>4 DEF Probe
<1>6. CASE to <= L
  <2>1. /\ to \in Nat /\ from \in Nat /\ from <= to /\ to <= Len(p) /\ to - from = P
        /\ from + P <= L
    BY <1>1, <1>2, <1>3, <1>4, <1>6
  <2>2. Slice(p, from, to) \in Seq(X) /\ Part(Slice(p, from, to), p, from, to - from)
    BY <2>1, SliceIs
  <2> QED BY <1>1, <1>2, <1>3, <1>5, <2>1, <2>2
<1>7. CASE ~(to <= L)
  <2>1. /\ to \in Nat /\ L \in Nat /\ from \in Nat /\ from <= L /\ L <= Len(p) /\ Len(p) <= to
        /\ L - from \in Nat /\ from + (L - from) <= L /\ L - from <= P
    BY <1>1, <1>2, <1>3, <1>4, <1>7
  <2>2. Slice(p, from, to) = Slice(p, from, L)
    BY <1>1, <2>1, SliceBeyond
  <2>3. Slice(p, from, L) \in Seq(X) /\ Part(Slice(p, from, L), p, from, L - from)
    BY <2>1, SliceIs
  <2> QED BY <1>1, <1>3, <1>5, <2>1, <2>2, <2>3
<1> QED BY <1>6, <1>7

(* The probes of p that hit the text t.                                    *)
Hits(t, p) == {n \in Percents : /\ Len(Probe(p, n)) >= MIN_PROBE_CHARS
                                /\ find(t, Probe(p, n), 0) >= 0}

(* A probe that stands somewhere is a hit.                                 *)
LEMMA HitIs ==
    ASSUME NEW X, NEW t \in Seq(X), NEW p \in Seq(X), NEW percent \in Percents,
           Len(Probe(p, percent)) >= MIN_PROBE_CHARS, NEW j, StandsAt(t, Probe(p, percent), j)
    PROVE  percent \in Hits(t, p)
<1>1. PICK r : r = Probe(p, percent)
  OBVIOUS
<1>2. r \in Seq(X) /\ 0 \in Nat
  BY <1>1, ProbeIs
<1>3. j \in Occurrences(t, r, 0)
  <2>1. StandsAt(t, r, j) /\ j >= 0
    BY <1>1 DEF StandsAt
  <2> QED BY <1>2, <2>1, OccurrenceIs
<1>4. find(t, r, 0) \in Nat
  BY <1>2, <1>3, FindIs
<1> QED BY <1>1, <1>4 DEF Hits

(* A highlight is found by its first probe that hits.                      *)
LEMMA LongFinds ==
    ASSUME NEW t, NEW p, ~(Len(p) < MIN_PROBE_CHARS)
    PROVE  \/ Hits(t, p) = {} /\ Find(t, p) = -1
           \/ \E n \in Hits(t, p) : /\ \A m \in Hits(t, p) : n <= m
                                    /\ Find(t, p) = find(t, Probe(p, n), 0)
<1>1. Find(t, p) = IF Hits(t, p) = {} THEN -1
                   ELSE find(t, Probe(p, CHOOSE n \in Hits(t, p) : \A m \in Hits(t, p) : n <= m), 0)
  BY DEF Find, Hits
<1>2. Hits(t, p) \subseteq Nat
  BY DEF Hits, Percents
<1>3. CASE Hits(t, p) # {}
  <2>1. \E n \in Hits(t, p) : \A m \in Hits(t, p) : n <= m
    BY <1>2, <1>3, LeastNumber
  <2> QED BY <1>1, <1>3, <2>1
<1> QED BY <1>1, <1>3

(* Where a long passage is placed, a probe of it stands.                   *)
LEMMA LongFoundThere ==
    ASSUME NEW X, NEW t \in Seq(X), NEW p \in Seq(X), ~(Len(p) < MIN_PROBE_CHARS),
           NEW at, at = Find(t, p), at >= 0
    PROVE  \E i \in 0..Len(p) - MIN_PROBE_CHARS :
              Slice(p, i, i + MIN_PROBE_CHARS) = Slice(t, at, at + MIN_PROBE_CHARS)
<1>1. PICK n \in Hits(t, p) : at = find(t, Probe(p, n), 0)
  BY LongFinds
<1>2. PICK r : r = Probe(p, n)
  OBVIOUS
<1>3. n \in Percents /\ Len(r) >= MIN_PROBE_CHARS
  BY <1>2 DEF Hits
<1>4. PICK from \in 0..Len(p), k \in Nat :
         from + k <= Len(p) /\ r \in Seq(X) /\ Part(r, p, from, k)
  BY <1>2, <1>3, ProbeIs
<1>5. PICK M : M = MIN_PROBE_CHARS
  OBVIOUS
<1>6. M \in Nat /\ Len(r) = k /\ M <= k /\ Len(p) \in Nat /\ from \in Nat
  BY <1>3, <1>4, <1>5, PassagesAssumption DEF Part
<1>7. StandsAt(t, r, at) /\ at \in Nat
  <2>1. 0 \in Nat /\ r \in Seq(X)
    BY <1>4
  <2>2. at \in Occurrences(t, r, 0) /\ at \in Nat
    BY <1>1, <1>2, <2>1, FindIs
  <2> QED BY <2>1, <2>2, OccurrenceIs
<1>8. PICK from2, at2 : from2 = from + M /\ at2 = at + M
  OBVIOUS
<1>9. /\ from2 \in Nat /\ from <= from2 /\ from2 <= Len(p) /\ from2 - from = M
      /\ at2 \in Nat /\ at <= at2 /\ at2 <= Len(t) /\ at2 - at = M /\ Len(t) \in Nat
  BY <1>4, <1>6, <1>7, <1>8 DEF StandsAt
<1>10. PICK a : a = Slice(p, from, from2)
  OBVIOUS
<1>11. PICK b : b = Slice(t, at, at2)
  OBVIOUS
<1>12. a \in Seq(X) /\ Part(a, p, from, M)
  BY <1>6, <1>9, <1>10, SliceIs
<1>13. b \in Seq(X) /\ Part(b, t, at, M)
  BY <1>7, <1>9, <1>11, SliceIs
<1>14. Part(a, t, at, M)
  <2>1. Len(a) = M /\ \A i \in 1..M : a[i] = p[from + i]
    BY <1>12 DEF Part
  <2>2. \A i \in 1..k : r[i] = p[from + i]
    BY <1>4 DEF Part
  <2>3. \A i \in 1..k : r[i] = t[at + i]
    BY <1>6, <1>7 DEF StandsAt
  <2>4. \A i \in 1..M : i \in 1..k
    BY <1>6
  <2> QED BY <2>1, <2>2, <2>3, <2>4 DEF Part
<1>15. b = a
  BY <1>12, <1>13, <1>14, SameParts
<1>16. from \in 0..Len(p) - M
  BY <1>6, <1>9, <1>8
<1> QED BY <1>5, <1>8, <1>10, <1>11, <1>15, <1>16

(* One that stands in the text is found by its opening.                    *)
LEMMA LongFound ==
    ASSUME NEW X, NEW t \in Seq(X), NEW p \in Seq(X), ~(Len(p) < MIN_PROBE_CHARS),
           NEW j, StandsAt(t, p, j)
    PROVE  Find(t, p) = find(t, Slice(p, 0, PROBE_CHARS), 0)
<1>1. 0 \in Percents
  BY DEF Percents
<1>2. PICK r : r = Probe(p, 0)
  OBVIOUS
<1>3. PICK from \in 0..Len(p), k \in Nat :
         /\ from = (Len(p) * 0) \div 100 /\ from + k <= Len(p)
         /\ k = Len(p) - from \/ k = PROBE_CHARS
         /\ r \in Seq(X) /\ Part(r, p, from, k)
  BY <1>1, <1>2, ProbeIs
<1>4. from = 0 /\ Len(p) \in Nat /\ PROBE_CHARS \in Nat
  BY <1>3, PassagesAssumption
<1>5. Len(r) = k /\ k >= MIN_PROBE_CHARS /\ k <= Len(p) /\ \A i \in 1..k : r[i] = p[i]
  BY <1>3, <1>4, PassagesAssumption DEF Part
<1>6. StandsAt(t, r, j)
  <2>1. j \in Nat /\ j + Len(p) <= Len(t) /\ \A i \in 1..Len(p) : p[i] = t[j + i]
    BY DEF StandsAt
  <2>2. \A i \in 1..k : i \in 1..Len(p)
    BY <1>4, <1>5
  <2>3. j + Len(r) <= Len(t)
    BY <1>4, <1>5, <2>1
  <2> QED BY <1>5, <2>1, <2>2, <2>3 DEF StandsAt
<1>7. 0 \in Hits(t, p)
  BY <1>1, <1>2, <1>5, <1>6, HitIs
<1>8. \A n \in Hits(t, p) : n >= 0
  BY DEF Hits, Percents
<1>9. PICK n \in Hits(t, p) : n <= 0 /\ Find(t, p) = find(t, Probe(p, n), 0)
  BY <1>7, LongFinds
<1>10. n = 0
  BY <1>8, <1>9 DEF Hits, Percents
<1>11. Probe(p, 0) = Slice(p, 0, PROBE_CHARS)
  <2>1. (Len(p) * 0) \div 100 = 0 /\ 0 + PROBE_CHARS = PROBE_CHARS
    BY <1>4
  <2> QED BY <2>1 DEF Probe
<1> QED BY <1>9, <1>10, <1>11

(* One that lost a sentence in its first third is found by what follows.   *)
LEMMA LongStillFound ==
    ASSUME NEW X, NEW t \in Seq(X), NEW s \in Seq(X), NEW p \in Seq(X),
           ~(Len(p) < MIN_PROBE_CHARS), NEW j, StandsAt(t, s, j),
           NEW i \in 1..(Len(p) * 35) \div 100,
           p = Slice(s, 0, i) \o Slice(s, i + 1, Len(s)),
           Len(p) - (Len(p) * 35) \div 100 >= MIN_PROBE_CHARS
    PROVE  Find(t, p) >= 0
<1>1. PICK k : k = (Len(p) * 35) \div 100
  OBVIOUS
<1>2. /\ Len(p) \in Nat /\ Len(s) \in Nat /\ MIN_PROBE_CHARS \in Nat \ {0}
      /\ PROBE_CHARS \in Nat /\ PROBE_CHARS >= MIN_PROBE_CHARS /\ j \in Nat
  BY PassagesAssumption DEF StandsAt
<1>3. k \in 0..Len(p) /\ i \in 1..k /\ Len(p) - k >= MIN_PROBE_CHARS
  BY <1>1, <1>2
<1>4. Len(s) = Len(p) + 1 /\ \A x \in i + 1..Len(p) : p[x] = s[x + 1]
  <2>1. PICK a : a = Slice(s, 0, i)
    OBVIOUS
  <2>2. PICK b : b = Slice(s, i + 1, Len(s))
    OBVIOUS
  <2>3. i \in Nat /\ 0 \in Nat /\ 0 <= i /\ i + 1 \in Nat /\ i <= Len(p)
    BY <1>3
  <2>4. CASE i + 1 <= Len(s)
    <3>1. a \in Seq(X) /\ Part(a, s, 0, i - 0)
      <4>1. i <= Len(s)
        BY <2>3, <2>4, <1>2
      <4> QED BY <2>1, <2>3, <4>1, SliceIs
    <3>2. b \in Seq(X) /\ Part(b, s, i + 1, Len(s) - (i + 1))
      BY <1>2, <2>2, <2>3, <2>4, SliceIs
    <3>3. p = a \o b
      BY <2>1, <2>2
    <3>4. Len(a) = i /\ Len(b) = Len(s) - (i + 1)
          /\ \A x \in 1..Len(b) : b[x] = s[i + 1 + x]
      BY <2>3, <3>1, <3>2 DEF Part
    <3>5. Len(p) = Len(a) + Len(b) /\ \A x \in 1..Len(b) : p[Len(a) + x] = b[x]
      <4>1. a \in Seq(X) /\ b \in Seq(X)
        BY <3>1, <3>2
      <4> QED BY ONLY <3>3, <4>1
    <3>6. Len(s) = Len(p) + 1
      <4>1. Len(p) = i + (Len(s) - (i + 1))
        BY <3>4, <3>5
      <4> QED BY <1>2, <2>3, <4>1
    <3>7. ASSUME NEW x \in i + 1..Len(p) PROVE p[x] = s[x + 1]
      <4>1. x - i \in 1..Len(b) /\ i + (x - i) = x /\ i + 1 + (x - i) = x + 1
        BY <1>2, <2>3, <3>4, <3>5, <3>7
      <4>2. p[i + (x - i)] = b[x - i] /\ b[x - i] = s[i + 1 + (x - i)]
        BY <3>4, <3>5, <4>1
      <4> QED BY <4>1, <4>2
    <3> QED BY <3>6, <3>7
  <2>5. CASE ~(i + 1 <= Len(s))
    <3>1. Len(s) <= i
      BY <1>2, <2>3, <2>5
    <3>2. a = Slice(s, 0, Len(s))
      BY <2>1, <2>3, <3>1, SliceBeyond
    <3>3. a \in Seq(X) /\ Len(a) = Len(s)
      <4>1. Slice(s, 0, Len(s)) \in Seq(X) /\ Part(Slice(s, 0, Len(s)), s, 0, Len(s) - 0)
        BY <1>2, SliceIs
      <4> QED BY <1>2, <3>2, <4>1 DEF Part
    <3>4. b = <<>>
      <4>1. b = SubSeq(s, i + 1 + 1, Len(s))
        BY <2>2, <1>2 DEF Slice
      <4>2. PICK m, n : m = i + 1 + 1 /\ n = Len(s)
        OBVIOUS
      <4>3. m \in Int /\ n \in Int /\ n < m
        BY <1>2, <2>3, <3>1, <4>2
      <4>4. SubSeq(s, m, n) = <<>>
        BY ONLY <4>3, SubSeqEmpty
      <4> QED BY <4>1, <4>2, <4>4
    <3>5. p = a
      <4>1. a \o <<>> = a
        BY <3>3, ConcatEmptySeq
      <4> QED BY <2>1, <2>2, <3>4, <4>1
    <3>6. FALSE
      BY <1>2, <1>3, <2>3, <3>1, <3>3, <3>5
    <3> QED BY <3>6
  <2> QED BY <2>4, <2>5
<1>5. 35 \in Percents
  BY DEF Percents
<1>6. PICK r : r = Probe(p, 35)
  OBVIOUS
<1>7. PICK from \in 0..Len(p), n \in Nat :
         /\ from = (Len(p) * 35) \div 100
         /\ from + n <= Len(p) /\ r \in Seq(X) /\ Part(r, p, from, n)
         /\ n = Len(p) - from \/ n = PROBE_CHARS
  <2>1. PICK percent \in Percents : percent = 35
    BY <1>5
  <2>2. \E from \in 0..Len(p), n \in Nat :
           /\ from = (Len(p) * percent) \div 100
           /\ from + n <= Len(p) /\ n <= PROBE_CHARS
           /\ n = Len(p) - from \/ n = PROBE_CHARS
           /\ Probe(p, percent) \in Seq(X) /\ Part(Probe(p, percent), p, from, n)
    BY ProbeIs, ZenonT(30)
  <2> QED BY <1>6, <2>1, <2>2
<1>8. /\ n \in Nat /\ k + n <= Len(p) /\ r \in Seq(X) /\ Part(r, p, k, n)
      /\ n = Len(p) - k \/ n = PROBE_CHARS
  BY <1>1, <1>7
<1>9. Len(r) = n /\ n >= MIN_PROBE_CHARS /\ \A x \in 1..n : r[x] = p[k + x]
  <2>1. Len(r) = n /\ \A x \in 1..n : r[x] = p[k + x]
    BY <1>8 DEF Part
  <2>2. n >= MIN_PROBE_CHARS
    BY <1>2, <1>3, <1>8
  <2> QED BY <2>1, <2>2
<1>10. StandsAt(t, r, j + k + 1)
  <2>1. j + Len(s) <= Len(t) /\ Len(t) \in Nat /\ \A x \in 1..Len(s) : s[x] = t[j + x]
    <3>1. j + Len(s) <= Len(t) /\ \A x \in 1..Len(s) : s[x] = t[j + x]
      BY Zenon DEF StandsAt
    <3> QED BY <3>1
  <2>2. j + k + 1 \in Nat /\ j + k + 1 + n <= Len(t)
    <3>1. PICK a, b, c : a = Len(p) /\ b = Len(s) /\ c = Len(t)
      OBVIOUS
    <3>2. a \in Nat /\ b \in Nat /\ c \in Nat /\ j \in Nat /\ k \in Nat /\ n \in Nat
      BY <1>2, <1>3, <1>8, <2>1, <3>1
    <3>3. k + n <= a /\ b = a + 1 /\ j + b <= c
      BY <1>4, <1>8, <2>1, <3>1
    <3>4. j + k + 1 \in Nat /\ j + k + 1 + n <= c
      BY ONLY <3>2, <3>3
    <3> QED BY <3>1, <3>4
  <2>3. ASSUME NEW x \in 1..n PROVE r[x] = t[j + k + 1 + x]
    <3>1. /\ k + x \in i + 1..Len(p) /\ k + x + 1 \in 1..Len(s)
          /\ j + (k + x + 1) = j + k + 1 + x
      <4>1. i \in Nat /\ k \in Nat /\ i <= k /\ x \in Nat /\ 1 <= x /\ x <= n
        BY <1>3, <1>8
      <4>2. k + x <= Len(p) /\ Len(s) = Len(p) + 1
        BY <1>2, <1>4, <1>8, <4>1
      <4> QED BY <1>2, <4>1, <4>2
    <3>2. r[x] = p[k + x] /\ p[k + x] = s[k + x + 1] /\ s[k + x + 1] = t[j + (k + x + 1)]
      BY <1>4, <1>9, <2>1, <3>1
    <3> QED BY <3>1, <3>2
  <2> QED BY <1>9, <2>2, <2>3 DEF StandsAt
<1>11. 35 \in Hits(t, p)
  BY <1>5, <1>6, <1>9, <1>10, HitIs
<1>12. PICK m \in Hits(t, p) : Find(t, p) = find(t, Probe(p, m), 0)
  BY <1>11, LongFinds
<1> QED BY <1>12 DEF Hits

(* A highlight is placed where the text says what it says.                 *)
LEMMA FoundFromTypes == text \in Seq(Letters) => PassagesFound
<1> SUFFICES ASSUME text \in Seq(Letters),
                    NEW snippet \in BoundedSeq({Term, Keyword, Rhv}, MaxBody)
             PROVE  LET passage == FilterRhvSentences(snippet, FALSE)
                        at == Find(text, passage)
                        places == Occurrences(text, passage, 0)
                    IN  IF Len(passage) < MIN_PROBE_CHARS
                        THEN IF passage # <<>> /\ Cardinality(places) = 1
                             THEN at \in places ELSE at = -1
                        ELSE /\ at >= 0 =>
                                  \E i \in 0..Len(passage) - MIN_PROBE_CHARS :
                                      Slice(passage, i, i + MIN_PROBE_CHARS)
                                          = Slice(text, at, at + MIN_PROBE_CHARS)
                             /\ places # {} => at = find(text, Slice(passage, 0, PROBE_CHARS), 0)
                             /\ (/\ Occurrences(text, snippet, 0) # {}
                                 /\ \E i \in 1..(Len(passage) * 35) \div 100 :
                                       /\ passage = Slice(snippet, 0, i)
                                                       \o Slice(snippet, i + 1, Len(snippet))
                                       /\ Len(passage) - (Len(passage) * 35) \div 100
                                             >= MIN_PROBE_CHARS)
                                => at >= 0
  BY DEF PassagesFound
<1>1. PICK t, X : t = text /\ X = Letters
  OBVIOUS
<1>2. t \in Seq(X) /\ snippet \in Seq(X) /\ 0 \in Nat
  <2>1. PICK m \in 0..MaxBody : snippet \in [1..m -> {Term, Keyword, Rhv}]
    BY DEF BoundedSeq, SeqOf
  <2>2. snippet \in Seq({Term, Keyword, Rhv})
    BY <2>1
  <2>3. {Term, Keyword, Rhv} \subseteq Letters
    BY DEF Letters
  <2> QED BY <1>1, <2>2, <2>3, SeqMonotonic
<1>3. PICK p : p = FilterRhvSentences(snippet, FALSE)
  OBVIOUS
<1>4. p \in Seq(X)
  <2>1. PICK K : K = {i \in DOMAIN snippet : snippet[i] # Rhv}
    OBVIOUS
  <2>2. K \in SUBSET DOMAIN snippet /\ p = Select(snippet, K)
    BY <1>3, <2>1 DEF FilterRhvSentences
  <2> QED BY <1>2, <2>2, SelectPicks
<1>5. PICK at : at = Find(t, p)
  OBVIOUS
<1>6. CASE Len(p) < MIN_PROBE_CHARS
  <2>1. at = FindShort(t, p)
    BY <1>5, <1>6 DEF Find
  <2>2. IF p # <<>> /\ Cardinality(Occurrences(t, p, 0)) = 1
        THEN at \in Occurrences(t, p, 0) ELSE at = -1
    BY <1>2, <1>4, <2>1, ShortFound
  <2> QED BY <1>1, <1>3, <1>5, <1>6, <2>2
<1>7. CASE ~(Len(p) < MIN_PROBE_CHARS)
  <2>1. at >= 0 => \E i \in 0..Len(p) - MIN_PROBE_CHARS :
                      Slice(p, i, i + MIN_PROBE_CHARS) = Slice(t, at, at + MIN_PROBE_CHARS)
    BY <1>2, <1>4, <1>5, <1>7, LongFoundThere
  <2>2. Occurrences(t, p, 0) # {} => at = find(t, Slice(p, 0, PROBE_CHARS), 0)
    <3>1. \A j : j \in Occurrences(t, p, 0) => StandsAt(t, p, j)
      BY <1>2, <1>4, OccurrenceIs
    <3> QED BY <1>2, <1>4, <1>5, <1>7, <3>1, LongFound
  <2>3. ASSUME Occurrences(t, snippet, 0) # {}, NEW i \in 1..(Len(p) * 35) \div 100,
               p = Slice(snippet, 0, i) \o Slice(snippet, i + 1, Len(snippet)),
               Len(p) - (Len(p) * 35) \div 100 >= MIN_PROBE_CHARS
        PROVE  at >= 0
    <3>1. \A j : j \in Occurrences(t, snippet, 0) => StandsAt(t, snippet, j)
      BY <1>2, OccurrenceIs
    <3>2. PICK j : StandsAt(t, snippet, j)
      BY <2>3, <3>1
    <3> QED BY <1>2, <1>4, <1>5, <1>7, <2>3, <3>2, LongStillFound
  <2> QED BY <1>1, <1>3, <1>5, <1>7, <2>1, <2>2, <2>3
<1> QED BY <1>6, <1>7

(* A highlight is placed where it stands and nowhere else, whatever the    *)
(* text, the highlight and the lengths of the probes.                      *)
THEOREM FoundCorrect == TextsSpec => []PassagesFound
<1>1. InputsInv => PassagesFound
  BY FoundFromTypes DEF InputsInv
<1> QED BY <1>1, InputsTypes, PTL

-----------------------------------------------------------------------------

(* Names.  A name is made of segments; what is said of their sequences     *)
(* holds of any.                                                           *)
Segments == STRING \cup Site \cup {"/", "index.html", "errata", "cve", Fragment}

(* A suffix is what a path ends with.                                      *)
LEMMA EndIs ==
    ASSUME NEW S, NEW s \in Seq(S), NEW t \in Seq(S)
    PROVE  IsSuffix(s, t) <=> /\ Len(s) <= Len(t)
                              /\ \A i \in 1..Len(s) : s[i] = t[Len(t) - Len(s) + i]
<1> DEFINE m == Len(s)
           n == Len(t)
           r == Reverse(s)
           u == Reverse(t)
<1>1. m \in Nat /\ n \in Nat /\ s \in [1..m -> S] /\ t \in [1..n -> S]
  OBVIOUS
<1>2. /\ r \in Seq(S) /\ Len(r) = m /\ \A i \in 1..m : r[i] = s[m - i + 1]
      /\ u \in Seq(S) /\ Len(u) = n /\ \A i \in 1..n : u[i] = t[n - i + 1]
  <2>1. r = [i \in 1..m |-> s[(m - i) + 1]] /\ u = [i \in 1..n |-> t[(n - i) + 1]]
    BY DEF Reverse
  <2>2. /\ \A i \in 1..m : (m - i) + 1 \in 1..m
        /\ \A i \in 1..n : (n - i) + 1 \in 1..n
    BY <1>1
  <2>3. r \in [1..m -> S] /\ u \in [1..n -> S]
    BY <1>1, <2>1, <2>2
  <2> HIDE DEF r, u
  <2> QED BY <1>1, <2>1, <2>3
<1>3. IsSuffix(s, t) <=> m <= n /\ SubSeq(r, 1, m) = SubSeq(u, 1, m)
  BY <1>2 DEF IsSuffix, IsPrefix
<1> HIDE DEF r, u
<1>4. ASSUME m <= n
      PROVE  /\ SubSeq(r, 1, m) = [i \in 1..m |-> r[i]]
             /\ SubSeq(u, 1, m) = [i \in 1..m |-> u[i]]
  <2>1. m \in 0..Len(r) /\ m \in 0..Len(u)
    BY <1>1, <1>2, <1>4
  <2> HIDE DEF m
  <2> QED BY <1>2, <2>1, FirstOnes
<1>5. ASSUME m <= n
      PROVE  SubSeq(r, 1, m) = SubSeq(u, 1, m) <=> \A i \in 1..m : r[i] = u[i]
  BY <1>4, <1>5
<1>6. ASSUME m <= n
      PROVE  (\A i \in 1..m : r[i] = u[i]) <=> \A i \in 1..m : s[i] = t[n - m + i]
  <2>1. ASSUME NEW i \in 1..m
        PROVE  /\ (m - i) + 1 \in 1..m /\ m - ((m - i) + 1) + 1 = i
               /\ n - m + i = n - ((m - i) + 1) + 1
               /\ n - i + 1 = n - m + ((m - i) + 1)
               /\ i \in 1..n /\ (m - i) + 1 \in 1..n
    BY <1>1, <1>6
  <2>0. m \in Nat /\ n \in Nat /\ m <= n
    BY <1>1, <1>6
  <2> HIDE DEF m, n
  <2>2. ASSUME \A i \in 1..m : r[i] = u[i], NEW i \in 1..m PROVE s[i] = t[n - m + i]
    <3>1. r[(m - i) + 1] = s[m - ((m - i) + 1) + 1] /\ u[(m - i) + 1] = t[n - ((m - i) + 1) + 1]
      BY <1>2, <2>1
    <3> QED BY <2>1, <2>2, <3>1
  <2>3. ASSUME \A i \in 1..m : s[i] = t[n - m + i], NEW i \in 1..m PROVE r[i] = u[i]
    <3>1. r[i] = s[m - i + 1] /\ u[i] = t[n - i + 1] /\ s[(m - i) + 1] = t[n - m + ((m - i) + 1)]
      BY <1>2, <2>1, <2>3
    <3>2. s[m - i + 1] = s[(m - i) + 1] /\ t[n - i + 1] = t[n - m + ((m - i) + 1)]
      BY <2>1
    <3> QED BY <3>1, <3>2
  <2> QED BY <2>2, <2>3
<1> QED BY <1>3, <1>5, <1>6

(* Removing a suffix undoes adding it.                                     *)
LEMMA RemoveAdded ==
    ASSUME NEW S, NEW p \in Seq(S), NEW s \in Seq(S)
    PROVE  RemoveSuffix(p \o s, s) = p
<1> DEFINE t == p \o s
<1>1. /\ t \in Seq(S) /\ Len(t) = Len(p) + Len(s) /\ Len(p) \in Nat /\ Len(s) \in Nat
      /\ \A i \in 1..Len(s) : t[Len(p) + i] = s[i]
      /\ \A i \in 1..Len(p) : t[i] = p[i]
  OBVIOUS
<1> HIDE DEF t
<1>2. Len(s) <= Len(t) /\ Len(t) - Len(s) = Len(p)
  BY <1>1
<1>3. IsSuffix(s, t)
  BY <1>1, <1>2, EndIs
<1>4. SubSeq(t, 1, Len(p)) = p
  <2>1. SubSeq(t, 1, Len(p)) = [i \in 1..Len(p) |-> t[i]]
    <3>1. Len(p) \in 0..Len(t)
      BY <1>1
    <3> QED BY <1>1, <3>1, FirstOnes
  <2>2. p = [i \in 1..Len(p) |-> p[i]]
    OBVIOUS
  <2> QED BY <1>1, <2>1, <2>2
<1> QED BY <1>2, <1>3, <1>4 DEF RemoveSuffix, t

(* What ends otherwise keeps its end.                                      *)
LEMMA RemoveNone ==
    ASSUME NEW S, NEW t \in Seq(S), t # <<>>, NEW s \in Seq(S), s # <<>>, Last(t) # Last(s)
    PROVE  RemoveSuffix(t, s) = t
<1>1. Len(s) \in 1..Len(s) /\ Len(t) - Len(s) + Len(s) = Len(t)
  OBVIOUS
<1>2. ~IsSuffix(s, t)
  BY <1>1, EndIs DEF Last
<1> QED BY <1>2 DEF RemoveSuffix

(* Every document has a path, and three ways to write it.                  *)
Path(p) ==
    /\ p \in Seq(Segments) /\ p # <<>> /\ p[1] = "/"
    /\ Last(p) \notin {"/", "index.html", Fragment}

(* The endings a name may have are sequences of segments.                  *)
LEMMA ShortOnes == <<"/">> \in Seq(Segments) /\ Index \in Seq(Segments)
                      /\ <<Fragment>> \in Seq(Segments)
BY DEF Segments, Index

(* Each form of a path is that path without its ending, and leads to one   *)
(* page.                                                                   *)
LEMMA WrittenIs ==
    ASSUME NEW p, Path(p), NEW n \in Written(p)
    PROVE  /\ n \in Seq(Segments) /\ n # <<>> /\ n[1] = "/" /\ Last(n) # Fragment
           /\ RemoveSuffix(RemoveSuffix(n, Index), <<"/">>) = p
           /\ HtmlPath(n) = p \o Index
<1>1. p \in Seq(Segments) /\ Len(p) \in Nat \ {0} /\ p[1] = "/"
      /\ p[Len(p)] \notin {"/", "index.html", Fragment}
  BY DEF Path, Last
<1>2. Last(<<"/">>) = "/" /\ Last(Index) = "index.html" /\ Index # <<>> /\ Len(Index) = 2
  BY DEF Last, Index
<1>3. "/" # "index.html" /\ "/" # Fragment /\ "index.html" # Fragment
  BY DEF Fragment
<1>4. RemoveSuffix(p, Index) = p /\ RemoveSuffix(p, <<"/">>) = p
  <2>1. p # <<>> /\ Last(p) # Last(Index) /\ Last(p) # Last(<<"/">>)
    BY <1>1, <1>2 DEF Last
  <2> QED BY <1>1, <1>2, <2>1, ShortOnes, RemoveNone
<1>5. ASSUME NEW m \in Seq(Segments), m # <<>>, m[1] = "/"
      PROVE  IsPrefix(<<"/">>, m)
  <2>1. SubSeq(m, 1, 1) = [i \in 1..1 |-> m[i]] /\ SubSeq(<<"/">>, 1, 1) = [i \in 1..1 |-> <<"/">>[i]]
    <3>1. 1 \in 0..Len(m) /\ 1 \in 0..Len(<<"/">>)
      BY <1>5
    <3> QED BY <1>5, <3>1, ShortOnes, FirstOnes
  <2>2. SubSeq(m, 1, 1) = SubSeq(<<"/">>, 1, 1)
    BY <1>5, <2>1
  <2> QED BY <1>5, <2>2 DEF IsPrefix
<1>6. CASE n = p
  <2>1. HtmlPath(n) = p \o Index
    BY <1>1, <1>4, <1>5, <1>6 DEF HtmlPath, Last
  <2> QED BY <1>1, <1>4, <1>6, <2>1 DEF Last
<1>7. CASE n = p \o <<"/">>
  <2>1. n \in Seq(Segments) /\ Len(n) = Len(p) + 1 /\ n[1] = "/" /\ n[Len(n)] = "/"
    BY <1>1, <1>7, ShortOnes
  <2>2. n # <<>> /\ Last(n) = "/"
    BY <1>1, <2>1 DEF Last
  <2>3. RemoveSuffix(n, Index) = n
    BY <1>2, <1>3, <2>1, <2>2, ShortOnes, RemoveNone
  <2>4. RemoveSuffix(n, <<"/">>) = p
    BY <1>1, <1>7, ShortOnes, RemoveAdded
  <2>5. HtmlPath(n) = p \o Index
    BY <1>3, <1>5, <2>1, <2>2, <2>4 DEF HtmlPath
  <2> QED BY <1>3, <2>1, <2>2, <2>3, <2>4, <2>5
<1>8. CASE n = p \o Index
  <2>1. n \in Seq(Segments) /\ Len(n) = Len(p) + 2 /\ n[1] = "/" /\ n[Len(n)] = "index.html"
    <3>1. /\ n \in Seq(Segments) /\ Len(n) = Len(p) + Len(Index)
          /\ \A i \in 1..Len(p) + Len(Index) :
                n[i] = IF i <= Len(p) THEN p[i] ELSE Index[i - Len(p)]
      BY <1>1, <1>8, ShortOnes, ConcatProperties
    <3>2. 1 \in 1..Len(p) + 2 /\ Len(p) + 2 \in 1..Len(p) + 2
          /\ (Len(p) + 2) - Len(p) = 2 /\ 1 <= Len(p) /\ ~(Len(p) + 2 <= Len(p))
      BY <1>1
    <3>3. n \in Seq(Segments) /\ Len(n) = Len(p) + 2 /\ n[1] = "/" /\ n[Len(p) + 2] = Index[2]
      BY <1>1, <1>2, <3>1, <3>2
    <3> QED BY <3>3 DEF Index
  <2>2. n # <<>> /\ Last(n) = "index.html"
    BY <1>1, <2>1 DEF Last
  <2>3. RemoveSuffix(n, Index) = p
    BY <1>1, <1>8, ShortOnes, RemoveAdded
  <2>4. HtmlPath(n) = p \o Index
    BY <1>3, <1>5, <1>8, <2>1, <2>2 DEF HtmlPath
  <2> QED BY <1>3, <1>4, <2>1, <2>2, <2>3, <2>4
<1> QED BY <1>6, <1>7, <1>8 DEF Written

(* The three kinds of documents, and their paths.                          *)
Canonical(doc, p) ==
    \/ p \in Pages /\ doc = Page(p)
    \/ \E id \in Errata : p = <<"/", "errata", "/", id>> /\ doc = Erratum(id)
    \/ \E id \in Cves : p = <<"/", "cve", "/", id>> /\ doc = Cve(id)

(* A page is at a path.                                                    *)
LEMMA PagePath ==
    ASSUME NEW p \in Pages PROVE Path(p)
<1>1. p \in Seq(STRING) /\ p # <<>> /\ p[1] = "/" /\ Word(Last(p))
  BY PagesAssumption
<1>2. p \in Seq(Segments)
  BY <1>1, SeqMonotonic DEF Segments
<1> QED BY <1>1, <1>2 DEF Path, Word

(* So are an erratum and a CVE.                                            *)
LEMMA NumberPath ==
    ASSUME NEW id \in Errata \cup Cves, NEW kind \in {"errata", "cve"}
    PROVE  Path(<<"/", kind, "/", id>>)
<1>1. Word(id)
  BY NumbersAssumption
<1>2. id \in Segments /\ kind \in Segments /\ "/" \in Segments
  BY <1>1 DEF Word, Segments
<1>3. <<"/", kind, "/", id>> \in Seq(Segments) /\ Last(<<"/", kind, "/", id>>) = id
  BY <1>2 DEF Last
<1> QED BY <1>1, <1>3 DEF Path, Word

(* And whatever is at one is a document.                                   *)
LEMMA CanonicalPath ==
    ASSUME NEW doc, NEW p, Canonical(doc, p)
    PROVE  Path(p) /\ doc \in Corpus
BY PagePath, NumberPath DEF Canonical, Corpus

(* Every document is at some path.                                         *)
LEMMA EachHasOne ==
    ASSUME NEW doc \in Corpus
    PROVE  \E p : Canonical(doc, p)
BY DEF Canonical, Corpus

(* No two documents share a path. *)
LEMMA OnePath ==
    ASSUME NEW doc, NEW other, NEW p, Canonical(doc, p), Canonical(other, p)
    PROVE  other = doc
<1>1. \A i, j : <<"/", "errata", "/", i>> = <<"/", "errata", "/", j>> => i = j
  OBVIOUS
<1>2. \A i, j : <<"/", "cve", "/", i>> = <<"/", "cve", "/", j>> => i = j
  OBVIOUS
<1>3. \A i, j : <<"/", "errata", "/", i>> # <<"/", "cve", "/", j>>
  OBVIOUS
<1> QED BY <1>1, <1>2, <1>3, DistinctAssumption DEF Canonical

(* A name is looked up by the path it writes, or by an advisory's number.  *)
Short(doc, n) == \E id \in Errata : doc = Erratum(id) /\ n = <<id>>

(* Neither site nor fragment is part of a name.                            *)
LEMMA NormalizedPath ==
    ASSUME NEW p, Path(p), NEW n \in Written(p), NEW site \in Site,
           NEW f \in {<<>>, <<Fragment>>}
    PROVE  /\ NormalizeDocId(n) = n
           /\ NormalizeDocId(<<site>> \o n \o f) = n
<1>1. n \in Seq(Segments) /\ n # <<>> /\ n[1] = "/" /\ Last(n) # Fragment
  BY WrittenIs
<1>2. "/" \notin Site /\ <<site>> \in Seq(Segments) /\ f \in Seq(Segments)
  <2>1. "/" \notin Site /\ site \in Segments
    BY DEF Site, Segments
  <2>2. <<>> \in Seq(Segments)
    OBVIOUS
  <2>3. <<Fragment>> \in Seq(Segments)
    BY ShortOnes
  <2>4. f \in Seq(Segments)
    BY <2>2, <2>3, Zenon
  <2> QED BY <2>1, <2>4
<1>3. NormalizeDocId(n) = n
  BY <1>1, <1>2 DEF NormalizeDocId
<1>4. PICK m : m = n \o f
  OBVIOUS
<1>5. m \in Seq(Segments) /\ <<site>> \o n \o f = <<site>> \o m
  BY <1>1, <1>2, <1>4, ConcatAssociative, ConcatProperties
<1>6. PICK t : t = <<site>> \o m
  OBVIOUS
<1>7. t # <<>> /\ Head(t) = site /\ Tail(t) = m
  BY <1>2, <1>5, <1>6
<1>8. RemoveSuffix(m, <<Fragment>>) = n
  <2>1. CASE f = <<>>
    <3>1. m = n
      BY <1>1, <1>4, <2>1
    <3>2. Last(<<Fragment>>) = Fragment /\ <<Fragment>> # <<>>
      BY DEF Last
    <3> QED BY <1>1, <3>1, <3>2, ShortOnes, RemoveNone
  <2>2. CASE f = <<Fragment>>
    BY <1>1, <1>4, <2>2, ShortOnes, RemoveAdded
  <2> QED BY <2>1, <2>2
<1>9. NormalizeDocId(t) = n
  BY <1>1, <1>7, <1>8 DEF NormalizeDocId
<1> QED BY <1>3, <1>5, <1>6, <1>9

(* The URI a document is shown by is a form of its path.                   *)
LEMMA UriIs ==
    ASSUME NEW doc, NEW p, Canonical(doc, p)
    PROVE  /\ doc_uri(doc) \in {p, p \o <<"/">>}
           /\ RemoveSuffix(doc_uri(doc), <<"/">>) = p
           /\ doc.view_uri = <<>> => doc.id = p \o Index
           /\ {doc.id} \cup ({doc.view_uri} \ {<<>>}) \subseteq Written(p) \cup {n \in {doc.id} : Short(doc, n)}
<1>1. Path(p) /\ p \in Seq(Segments) /\ p # <<>>
  BY CanonicalPath DEF Path
<1>2. /\ RemoveSuffix(p \o Index, Index) = p /\ RemoveSuffix(p \o <<"/">>, <<"/">>) = p
      /\ RemoveSuffix(p, Index) = p /\ RemoveSuffix(p, <<"/">>) = p
  <2>1. Last(<<"/">>) = "/" /\ Last(Index) = "index.html" /\ Index # <<>>
    BY DEF Last, Index
  <2> QED BY <1>1, <2>1, ShortOnes, RemoveAdded, RemoveNone DEF Path
<1>3. CASE p \in Pages /\ doc = Page(p)
  <2>1. doc.id = p \o Index /\ doc.view_uri = <<>>
    BY <1>3 DEF Page
  <2> QED BY <1>2, <2>1 DEF doc_uri, Written
<1>4. ASSUME NEW id \in Errata, p = <<"/", "errata", "/", id>>, doc = Erratum(id)
      PROVE  /\ doc.id = <<id>> /\ doc.view_uri = p \o <<"/">> /\ doc.view_uri # <<>>
             /\ doc_uri(doc) = p \o <<"/">> /\ Short(doc, doc.id)
  <2>1. doc.id = <<id>> /\ doc.view_uri = <<"/", "errata", "/", id, "/">>
    BY <1>4 DEF Erratum
  <2>2. <<"/", "errata", "/", id, "/">> = p \o <<"/">>
    BY <1>4
  <2>3. Last(p \o <<"/">>) = "/" /\ p \o <<"/">> # <<>> /\ p \o <<"/">> \in Seq(Segments)
    <3>1. p \o <<"/">> \in Seq(Segments)
      BY <1>1, ShortOnes, ConcatProperties
    <3>2. <<"/", "errata", "/", id, "/">> # <<>> /\ Last(<<"/", "errata", "/", id, "/">>) = "/"
      BY DEF Last
    <3> QED BY <2>2, <3>1, <3>2
  <2>4. RemoveSuffix(p \o <<"/">>, Index) = p \o <<"/">>
    <3>1. Last(Index) = "index.html" /\ Index # <<>>
      BY DEF Last, Index
    <3> QED BY <2>3, <3>1, ShortOnes, RemoveNone
  <2> QED BY <1>4, <2>1, <2>2, <2>3, <2>4 DEF doc_uri, Short
<1>5. ASSUME NEW id \in Cves, p = <<"/", "cve", "/", id>>, doc = Cve(id)
      PROVE  doc.id = p \o Index /\ doc.view_uri = p /\ doc_uri(doc) = p
  <2>1. doc.id = p \o Index /\ doc.view_uri = p
    BY <1>5 DEF Cve
  <2> QED BY <1>1, <1>2, <2>1 DEF doc_uri
<1>6. CASE \E id \in Errata : p = <<"/", "errata", "/", id>> /\ doc = Erratum(id)
  BY <1>2, <1>4, <1>6 DEF Written
<1>7. CASE \E id \in Cves : p = <<"/", "cve", "/", id>> /\ doc = Cve(id)
  BY <1>1, <1>2, <1>5, <1>7 DEF Written
<1> QED BY <1>3, <1>6, <1>7 DEF Canonical

(* Every name of a document comes down to a form of its path, or is its    *)
(* bare number.                                                            *)
LEMMA SpellingIs ==
    ASSUME NEW doc, NEW p, Canonical(doc, p), NEW n \in Spellings(doc)
    PROVE  NormalizeDocId(n) \in Written(p) \/ (Short(doc, n) /\ NormalizeDocId(n) = n)
<1>1. Path(p) /\ p \in Seq(Segments)
  BY CanonicalPath DEF Path
<1> DEFINE known == {doc.id} \cup ({doc.view_uri} \ {<<>>})
           url == \E site \in Site, q \in Written(p), f \in {<<>>, <<Fragment>>} :
                     n = Url(site, q, f)
<1>2. n \in known \/ n \in Written(p) \/ url \/ n = BuildDocUrl(doc)
  <2>1. RemoveSuffix(doc_uri(doc), <<"/">>) = p
    BY UriIs
  <2> QED BY <2>1 DEF Spellings
<1>3. CASE n \in known
  <2>1. n \in Written(p) \/ Short(doc, n)
    <3> HIDE DEF known
    <3>1. known \subseteq Written(p) \cup {m \in {doc.id} : Short(doc, m)}
      BY UriIs DEF known
    <3> QED BY <1>3, <3>1
  <2>2. ASSUME Short(doc, n) PROVE NormalizeDocId(n) = n
    <3>1. PICK id \in Errata : n = <<id>>
      BY <2>2 DEF Short
    <3>2. id \notin Site
      BY NumbersAssumption DEF Word
    <3>3. Head(n) = id
      BY <3>1
    <3> QED BY <3>2, <3>3 DEF NormalizeDocId
  <2>3. n \in Written(p) => NormalizeDocId(n) = n
    BY <1>1, NormalizedPath DEF Site
  <2> QED BY <2>1, <2>2, <2>3
<1>4. CASE n \in Written(p)
  BY <1>1, <1>4, NormalizedPath DEF Site
<1>5. CASE url
  <2>1. PICK site \in Site, q \in Written(p), f \in {<<>>, <<Fragment>>} : n = Url(site, q, f)
    BY <1>5
  <2> HIDE DEF known
  <2> QED BY <1>1, <2>1, NormalizedPath DEF Url
<1>6. CASE n = BuildDocUrl(doc)
  <2>1. doc_uri(doc) \in Written(p)
    BY UriIs DEF Written
  <2>2. doc_uri(doc) \in Seq(Segments) /\ doc_uri(doc) # <<>>
    BY <1>1, <2>1, WrittenIs
  <2>3. AccessUrl \in Site /\ <<AccessUrl>> \in Seq(Segments)
    BY DEF AccessUrl, Site, Segments
  <2>4. n = Url(AccessUrl, doc_uri(doc), <<>>)
    <3>1. n = <<AccessUrl>> \o doc_uri(doc)
      BY <1>6, <2>2 DEF BuildDocUrl
    <3> QED BY <2>2, <2>3, <3>1, ConcatEmptySeq, ConcatProperties DEF Url
  <2>5. PICK site \in Site, q \in Written(p), f \in {<<>>, <<Fragment>>} : n = Url(site, q, f)
    BY <2>1, <2>3, <2>4
  <2> HIDE DEF known
  <2> QED BY <1>1, <2>5, NormalizedPath DEF Url
<1> QED BY <1>2, <1>3, <1>4, <1>5, <1>6

(* A path with an ending begins as it did and ends with the ending.        *)
LEMMA EndsOf ==
    ASSUME NEW S, NEW p \in Seq(S), p # <<>>, NEW s \in Seq(S), s # <<>>
    PROVE  /\ p \o s \in Seq(S) /\ Len(p \o s) = Len(p) + Len(s) /\ p \o s # <<>>
           /\ (p \o s)[1] = p[1] /\ Last(p \o s) = Last(s)
<1>1. PICK m, n : m = Len(p) /\ n = Len(s)
  OBVIOUS
<1>2. m \in Nat \ {0} /\ n \in Nat \ {0}
  BY <1>1
<1>3. PICK t : t = p \o s
  OBVIOUS
<1>4. /\ t \in Seq(S) /\ Len(t) = m + n
      /\ \A i \in 1..m + n : t[i] = IF i <= m THEN p[i] ELSE s[i - m]
  BY <1>1, <1>3, ConcatProperties
<1>5. /\ 1 \in 1..m + n /\ 1 <= m /\ m + n \in 1..m + n /\ ~(m + n <= m)
      /\ (m + n) - m = n /\ m + n # 0
  BY <1>2
<1>6. t[1] = p[1] /\ t[m + n] = s[n]
  BY <1>4, <1>5
<1>7. t # <<>>
  BY <1>4, <1>5
<1> QED BY <1>1, <1>3, <1>4, <1>6, <1>7 DEF Last

(* Paths with one ending are the same without it.                          *)
LEMMA SameEnd ==
    ASSUME NEW S, NEW s \in Seq(S), NEW t \in Seq(S), NEW v \in Seq(S)
    PROVE  s \o v = t \o v => s = t
<1>1. PICK x, y : x = s \o v /\ y = t \o v
  OBVIOUS
<1>2. /\ Len(x) = Len(s) + Len(v) /\ Len(y) = Len(t) + Len(v)
      /\ \A i \in 1..Len(s) : x[i] = s[i]
      /\ \A i \in 1..Len(t) : y[i] = t[i]
  BY <1>1
<1>3. x = y => Len(s) = Len(t)
  BY <1>2
<1>4. x = y => s = t
  BY <1>2, <1>3
<1> QED BY <1>1, <1>4

(* What the filter for a path, or for a number, admits.                    *)
Admits(ids, uris, doc) == doc.id \in ids \/ doc.view_uri \in uris \ {<<>>}

(* A path admits the document that is there, and no other.                 *)
LEMMA PathAdmits ==
    ASSUME NEW p, Path(p), NEW other, NEW q, Canonical(other, q)
    PROVE  Admits({p, p \o Index}, {p, p \o <<"/">>}, other) <=> q = p
<1>1. /\ p \in Seq(Segments) /\ q \in Seq(Segments) /\ q # <<>> /\ p # <<>>
      /\ Last(p) \notin {"/", "index.html"} /\ Last(q) \notin {"/", "index.html"}
      /\ p[1] = "/" /\ Path(q)
  BY CanonicalPath DEF Path
<1>2. /\ Index \in Seq(Segments) /\ <<"/">> \in Seq(Segments)
      /\ q \o Index \in Seq(Segments) /\ q \o <<"/">> \in Seq(Segments)
  BY <1>1, ShortOnes, ConcatProperties
<1>3. ASSUME NEW r \in Seq(Segments), r # <<>>
      PROVE  Last(r \o Index) = "index.html" /\ Last(r \o <<"/">>) = "/"
             /\ Len(r \o Index) >= 3 /\ r \o <<"/">> # <<>>
  <2>1. Last(Index) = "index.html" /\ Index # <<>> /\ Len(Index) = 2
        /\ Last(<<"/">>) = "/" /\ <<"/">> # <<>>
    BY DEF Index, Last
  <2>2. Last(r \o Index) = "index.html" /\ Len(r \o Index) = Len(r) + 2
    <3>1. /\ Last(r \o Index) = Last(Index) /\ Len(r \o Index) = Len(r) + Len(Index)
      <4> HIDE DEF Index
      <4>1. r \in Seq(Segments) /\ r # <<>> /\ Index \in Seq(Segments) /\ Index # <<>>
        BY <1>2, <1>3, <2>1
      <4> QED BY ONLY <4>1, EndsOf
    <3> QED BY <2>1, <3>1
  <2>3. Last(r \o <<"/">>) = "/" /\ r \o <<"/">> # <<>>
    BY <1>2, <1>3, <2>1, EndsOf
  <2> QED BY <1>3, <2>2, <2>3
<1>4. /\ q \o Index # p /\ q \o <<"/">> # p /\ p \o <<"/">> # q
      /\ (q \o Index = p \o Index <=> q = p)
      /\ (q \o <<"/">> = p \o <<"/">> <=> q = p)
  <2>1. q \o Index # p /\ q \o <<"/">> # p /\ p \o <<"/">> # q
    BY <1>1, <1>3
  <2>2. (q \o Index = p \o Index => q = p) /\ (q \o <<"/">> = p \o <<"/">> => q = p)
    BY <1>1, ShortOnes, SameEnd
  <2> QED BY <2>1, <2>2
<1>5. CASE q \in Pages /\ other = Page(q)
  <2>1. other.id = q \o Index /\ other.view_uri = <<>>
    BY <1>5 DEF Page
  <2> QED BY <1>1, <1>4, <2>1 DEF Admits
<1>6. ASSUME NEW id \in Errata, q = <<"/", "errata", "/", id>>, other = Erratum(id)
      PROVE  Admits({p, p \o Index}, {p, p \o <<"/">>}, other) <=> q = p
  <2>1. other.id = <<id>> /\ other.view_uri = <<"/", "errata", "/", id, "/">>
    BY <1>6 DEF Erratum
  <2>2. <<"/", "errata", "/", id, "/">> = q \o <<"/">>
    BY <1>6
  <2>3. <<id>> # p /\ <<id>> # p \o Index
    <3>1. id # "/" /\ <<id>>[1] = id /\ Len(<<id>>) = 1
      BY NumbersAssumption DEF Word
    <3> QED BY <1>1, <1>3, <3>1
  <2>4. q \o <<"/">> # <<>>
    BY <1>1, <1>3
  <2> QED BY <1>4, <2>1, <2>2, <2>3, <2>4 DEF Admits
<1>7. ASSUME NEW id \in Cves, q = <<"/", "cve", "/", id>>, other = Cve(id)
      PROVE  Admits({p, p \o Index}, {p, p \o <<"/">>}, other) <=> q = p
  <2>1. other.id = q \o Index /\ other.view_uri = q
    BY <1>7 DEF Cve
  <2> QED BY <1>1, <1>4, <2>1 DEF Admits
<1> QED BY <1>5, <1>6, <1>7 DEF Canonical

(* A bare number admits its erratum, and no other document.                *)
LEMMA NumberAdmits ==
    ASSUME NEW id \in Errata, NEW other, NEW q, Canonical(other, q)
    PROVE  Admits({<<id>>, <<id>> \o Index}, {<<id>>, <<id>> \o <<"/">>}, other)
              <=> other = Erratum(id)
<1>1. id # "/" /\ id \notin Site
  BY NumbersAssumption DEF Word
<1>2. /\ (<<id>> \o Index)[1] = id /\ (<<id>> \o <<"/">>)[1] = id
      /\ Len(<<id>> \o Index) = 3 /\ Len(<<id>> \o <<"/">>) = 2
  <2>1. id \in Segments
    BY NumbersAssumption DEF Word, Segments
  <2>2. <<id>> \in Seq(Segments) /\ <<id>> # <<>> /\ Len(<<id>>) = 1 /\ <<id>>[1] = id
    BY <2>1
  <2>3. Index # <<>> /\ Len(Index) = 2 /\ <<"/">> # <<>> /\ Len(<<"/">>) = 1
    BY DEF Index
  <2>4. (<<id>> \o Index)[1] = id /\ Len(<<id>> \o Index) = 3
    <3>1. /\ (<<id>> \o Index)[1] = <<id>>[1]
          /\ Len(<<id>> \o Index) = Len(<<id>>) + Len(Index)
      <4>1. PICK a, b, S : a = <<id>> /\ b = Index /\ S = Segments
        OBVIOUS
      <4>2. a \in Seq(S) /\ a # <<>> /\ b \in Seq(S) /\ b # <<>>
        BY <2>2, <2>3, <4>1, ShortOnes
      <4>3. (a \o b)[1] = a[1] /\ Len(a \o b) = Len(a) + Len(b)
        BY ONLY <4>2, EndsOf
      <4> QED BY <4>1, <4>3
    <3> QED BY <2>2, <2>3, <3>1
  <2>5. (<<id>> \o <<"/">>)[1] = id /\ Len(<<id>> \o <<"/">>) = 2
    BY <2>2, <2>3, ShortOnes, EndsOf
  <2> QED BY <2>4, <2>5
<1>3. ASSUME NEW r \in Seq(Segments), r # <<>>, r[1] = "/"
      PROVE  (r \o Index)[1] = "/"
  BY <1>3, ShortOnes, EndsOf DEF Index
<1>4. <<id>>[1] = id
  OBVIOUS
<1>5. CASE q \in Pages /\ other = Page(q)
  <2>1. other.id = q \o Index /\ other.view_uri = <<>> /\ other # Erratum(id)
    BY <1>5 DEF Page, Erratum
  <2>2. q \in Seq(Segments) /\ q # <<>> /\ q[1] = "/"
    BY CanonicalPath DEF Path
  <2>3. (q \o Index)[1] = "/"
    BY <1>3, <2>2
  <2> QED BY <1>1, <1>2, <1>4, <2>1, <2>3 DEF Admits
<1>6. ASSUME NEW i \in Errata, other = Erratum(i)
      PROVE  Admits({<<id>>, <<id>> \o Index}, {<<id>>, <<id>> \o <<"/">>}, other)
                <=> other = Erratum(id)
  <2>1. other.id = <<i>> /\ other.view_uri = <<"/", "errata", "/", i, "/">>
    BY <1>6 DEF Erratum
  <2>2. /\ Len(<<i>>) = 1 /\ (<<i>> = <<id>> <=> i = id)
        /\ <<"/", "errata", "/", i, "/">>[1] = "/"
    OBVIOUS
  <2>3. Erratum(i) = Erratum(id) <=> i = id
    BY DEF Erratum
  <2>4. other.view_uri \notin {<<id>>, <<id>> \o <<"/">>}
    BY <1>1, <1>2, <1>4, <2>1, <2>2
  <2>5. other.id # <<id>> \o Index
    BY <1>2, <2>1, <2>2
  <2> QED BY <1>6, <2>1, <2>2, <2>3, <2>4, <2>5 DEF Admits
<1>7. ASSUME NEW i \in Cves, other = Cve(i)
      PROVE  Admits({<<id>>, <<id>> \o Index}, {<<id>>, <<id>> \o <<"/">>}, other)
                <=> other = Erratum(id)
  <2>2. <<"/", "cve", "/", i>>[1] = "/" /\ Len(<<"/", "cve", "/", i>>) = 4
    OBVIOUS
  <2>3. (<<"/", "cve", "/", i>> \o Index)[1] = "/"
    <3>1. Path(<<"/", "cve", "/", i>>)
      BY NumberPath
    <3> QED BY <1>3, <3>1 DEF Path
  <2>4. other.id = <<"/", "cve", "/", i>> \o Index /\ other.view_uri = <<"/", "cve", "/", i>>
    BY <1>7 DEF Cve
  <2>5. other # Erratum(id)
    <3>1. Erratum(id).view_uri = <<"/", "errata", "/", id, "/">>
      BY DEF Erratum
    <3>2. Len(<<"/", "errata", "/", id, "/">>) = 5
      OBVIOUS
    <3> QED BY <2>2, <2>4, <3>1, <3>2
  <2> QED BY <1>1, <1>2, <1>4, <2>2, <2>3, <2>4, <2>5 DEF Admits
<1> QED BY <1>5, <1>6, <1>7 DEF Canonical

(* The lookup admits documents by the path it was asked for.               *)
LEMMA LookupAdmits ==
    ASSUME NEW n, NEW m, NormalizeDocId(n) = m, NEW safe,
           RemoveSuffix(RemoveSuffix(m, Index), <<"/">>) = safe
    PROVE  Lookup(Corpus, n) = {doc \in Corpus : Admits({safe, safe \o Index}, {safe, safe \o <<"/">>}, doc)}
BY DEF Lookup, DocIdFilter, Admits

(* Every name finds its document and no other.                             *)
LEMMA NamesFind == NamesFindTheirDocument
<1> SUFFICES ASSUME NEW doc \in Corpus, name \in Spellings(doc)
             PROVE  /\ Lookup(Corpus, name) = {doc}
                    /\ doc.view_uri = <<>> => HtmlPath(NormalizeDocId(name)) = HtmlPath(doc.id)
  BY DEF NamesFindTheirDocument
<1>1. PICK p : Canonical(doc, p)
  BY EachHasOne
<1>2. Path(p)
  BY <1>1, CanonicalPath
<1>3. PICK n : n = name
  OBVIOUS
<1>4. NormalizeDocId(n) \in Written(p) \/ (Short(doc, n) /\ NormalizeDocId(n) = n)
  BY <1>1, <1>3, SpellingIs
<1>5. CASE NormalizeDocId(n) \in Written(p)
  <2>1. PICK m \in Written(p) : NormalizeDocId(n) = m
    BY <1>5
  <2>2. RemoveSuffix(RemoveSuffix(m, Index), <<"/">>) = p /\ HtmlPath(m) = p \o Index
    BY <1>2, WrittenIs
  <2>3. Lookup(Corpus, n) = {d \in Corpus : Admits({p, p \o Index}, {p, p \o <<"/">>}, d)}
    BY <2>1, <2>2, LookupAdmits
  <2>4. ASSUME NEW d \in Corpus PROVE Admits({p, p \o Index}, {p, p \o <<"/">>}, d) <=> d = doc
    <3>1. PICK q : Canonical(d, q)
      BY EachHasOne
    <3>2. Admits({p, p \o Index}, {p, p \o <<"/">>}, d) <=> q = p
      BY <1>2, <3>1, PathAdmits
    <3>3. Admits({p, p \o Index}, {p, p \o <<"/">>}, doc)
      BY <1>1, <1>2, PathAdmits
    <3>4. q = p => d = doc
      BY <1>1, <3>1, OnePath
    <3> QED BY <3>2, <3>3, <3>4
  <2>5. Lookup(Corpus, n) = {doc}
    BY <2>3, <2>4
  <2>6. doc.view_uri = <<>> => HtmlPath(doc.id) = p \o Index
    <3>1. p \o Index \in Written(p)
      BY DEF Written
    <3>2. doc.view_uri = <<>> => doc.id = p \o Index
      BY <1>1, UriIs
    <3> QED BY <1>2, <3>1, <3>2, WrittenIs
  <2> QED BY <1>3, <2>1, <2>2, <2>5, <2>6
<1>6. CASE Short(doc, n) /\ NormalizeDocId(n) = n
  <2>1. PICK id \in Errata : doc = Erratum(id) /\ n = <<id>>
    BY <1>6 DEF Short
  <2>2. <<id>> \in Seq(Segments) /\ Last(<<id>>) = id /\ id \notin {"/", "index.html"}
    BY NumbersAssumption DEF Word, Segments, Last
  <2>3. RemoveSuffix(RemoveSuffix(<<id>>, Index), <<"/">>) = <<id>>
    <3>1. Last(<<"/">>) = "/" /\ Last(Index) = "index.html" /\ Index # <<>>
      BY DEF Last, Index
    <3> QED BY <2>2, <3>1, ShortOnes, RemoveNone
  <2>4. Lookup(Corpus, n) = {d \in Corpus : Admits({<<id>>, <<id>> \o Index}, {<<id>>, <<id>> \o <<"/">>}, d)}
    BY <1>6, <2>1, <2>3, LookupAdmits
  <2>5. ASSUME NEW d \in Corpus
        PROVE  Admits({<<id>>, <<id>> \o Index}, {<<id>>, <<id>> \o <<"/">>}, d) <=> d = doc
    <3>1. PICK q : Canonical(d, q)
      BY EachHasOne
    <3> QED BY <2>1, <3>1, NumberAdmits
  <2>6. Lookup(Corpus, n) = {doc}
    BY <2>4, <2>5
  <2>7. doc.view_uri # <<>>
    BY <2>1 DEF Erratum
  <2> QED BY <1>3, <2>6, <2>7
<1> QED BY <1>4, <1>5, <1>6

(* Every name of a document leads to it and to no other, and a page's      *)
(* names to one mirror page: whatever the corpus, of the three conventions *)
(* of the index.                                                           *)
THEOREM NamesCorrect == TextsSpec => []NamesFindTheirDocument
BY NamesFind, PTL DEF TextsSpec

(* Where the parts of a text that was split start.                         *)
StartOf(parts, m, k) == SumFunction([j \in 1..k - 1 |-> Len(parts[j]) + m])

(* Each part begins a separator after the one before it ends.              *)
LEMMA StartIs ==
    ASSUME NEW X, NEW parts \in Seq(Seq(X)), NEW m \in Nat
    PROVE  /\ StartOf(parts, m, 1) = 0
           /\ \A k \in 1..Len(parts) + 1 : StartOf(parts, m, k) \in Nat
           /\ \A k \in 1..Len(parts) :
                 StartOf(parts, m, k + 1) = StartOf(parts, m, k) + Len(parts[k]) + m
<1>0. Len(parts) \in Nat /\ \A j \in 1..Len(parts) : Len(parts[j]) \in Nat
  <2>1. \A j \in 1..Len(parts) : parts[j] \in Seq(X)
    OBVIOUS
  <2> QED BY <2>1
<1>1. ASSUME NEW k \in 1..Len(parts) + 1
      PROVE  /\ [j \in 1..k - 1 |-> Len(parts[j]) + m] \in [1..k - 1 -> Nat]
             /\ StartOf(parts, m, k) \in Nat
  <2>1. \A j \in 1..k - 1 : Len(parts[j]) + m \in Nat
    BY <1>0
  <2>2. [j \in 1..k - 1 |-> Len(parts[j]) + m] \in [1..k - 1 -> Nat]
    BY <2>1
  <2>3. PICK f, S : f = [j \in 1..k - 1 |-> Len(parts[j]) + m] /\ S = 1..k - 1
    OBVIOUS
  <2>4. f \in [S -> Nat] /\ IsFiniteSet(S)
    <3>1. k - 1 \in Int
      BY <1>0
    <3>2. IsFiniteSet(1..k - 1)
      BY <3>1, FS_Interval
    <3> QED BY <2>2, <2>3, <3>2
  <2>5. SumFunction(f) \in Nat
    BY ONLY <2>4, SumNumber
  <2> QED BY <2>2, <2>3, <2>5 DEF StartOf
<1>2. ASSUME NEW k \in 1..Len(parts)
      PROVE  StartOf(parts, m, k + 1) = StartOf(parts, m, k) + Len(parts[k]) + m
  <2>1. PICK n : n = k - 1
    OBVIOUS
  <2>2. n \in Nat /\ n + 1 = k /\ k \in 1..Len(parts) + 1 /\ k + 1 \in 1..Len(parts) + 1
        /\ (k + 1) - 1 = n + 1
    BY <1>0, <2>1
  <2>3. PICK f : f = [j \in 1..n |-> Len(parts[j]) + m]
    OBVIOUS
  <2>4. PICK g : g = [j \in 1..n + 1 |-> Len(parts[j]) + m]
    OBVIOUS
  <2>5. f \in [1..n -> Nat] /\ SumFunction(f) = StartOf(parts, m, k) /\ SumFunction(f) \in Nat
    BY <1>1, <2>1, <2>2, <2>3 DEF StartOf
  <2>6. g \in [1..n + 1 -> Nat] /\ SumFunction(g) = StartOf(parts, m, k + 1)
    BY <1>1, <2>1, <2>2, <2>4 DEF StartOf
  <2>7. \A i \in 1..n : i \in 1..n + 1 /\ g[i] = f[i]
    BY <2>2, <2>3, <2>4
  <2>8. SumFunction(g) = g[n + 1] + SumFunction(f)
    BY <2>2, <2>5, <2>6, <2>7, SumOneMore
  <2>9. g[n + 1] = Len(parts[k]) + m /\ Len(parts[k]) \in Nat
    BY <1>0, <2>2, <2>4
  <2> QED BY <2>5, <2>6, <2>8, <2>9
<1>3. StartOf(parts, m, 1) = 0
  <2>1. PICK f : f = [j \in 1..1 - 1 |-> Len(parts[j]) + m]
    OBVIOUS
  <2>2. DOMAIN f = {}
    BY <2>1
  <2> QED BY <2>1, <2>2, SumOfNothing DEF StartOf
<1> QED BY <1>1, <1>2, <1>3

(* One more part moves none of the others.                                 *)
LEMMA StartKeeps ==
    ASSUME NEW X, NEW parts \in Seq(Seq(X)), NEW m \in Nat, NEW p \in Seq(X),
           NEW k \in 1..Len(parts) + 1
    PROVE  StartOf(Append(parts, p), m, k) = StartOf(parts, m, k)
<1>1. \A j \in 1..k - 1 : Append(parts, p)[j] = parts[j]
  OBVIOUS
<1>2. [j \in 1..k - 1 |-> Len(Append(parts, p)[j]) + m] = [j \in 1..k - 1 |-> Len(parts[j]) + m]
  BY <1>1
<1> QED BY <1>2 DEF StartOf

(* The loop of split.                                                      *)
Parts(X) == [cut : Seq(Seq(X)), next : Nat]

NoParts == [cut |-> <<>>, next |-> 0]

Splitting(t, separator) ==
    CHOOSE f : f = [n \in 0..Len(t) |->
                      IF n = 0 THEN NoParts ELSE Cut(t, separator, f[n - 1], n)]

(* Of the first n letters: each part is that of the text, from its start   *)
(* on, and followed by a separator; the rest is not cut yet.               *)
Apart(t, separator, cut, k) ==
    \A x \in 1..Len(separator) :
        t[StartOf(cut, Len(separator), k) + Len(cut[k]) + x] = separator[x]

Placing(t, separator, cut, k) ==
    Part(cut[k], t, StartOf(cut, Len(separator), k), Len(cut[k]))

CutInv(X, t, separator, n, parts) ==
    /\ parts \in Parts(X)
    /\ parts.next <= n
    /\ parts.next = StartOf(parts.cut, Len(separator), Len(parts.cut) + 1)
    /\ \A k \in 1..Len(parts.cut) :
          Placing(t, separator, parts.cut, k) /\ Apart(t, separator, parts.cut, k)

(* One more letter keeps the invariant of the cuts.                        *)
LEMMA CutStep ==
    ASSUME NEW X, NEW t \in Seq(X), NEW separator \in Seq(X), NEW n \in 1..Len(t), NEW parts,
           CutInv(X, t, separator, n - 1, parts)
    PROVE  CutInv(X, t, separator, n, Cut(t, separator, parts, n))
<1> DEFINE m == Len(separator)
           cut == parts.cut
           from == parts.next
           end == n - m
           part == Slice(t, from, end)
           longer == Append(cut, part)
<1>1. /\ cut \in Seq(Seq(X)) /\ from \in Nat /\ from <= n - 1 /\ parts \in Parts(X)
      /\ from = StartOf(cut, m, Len(cut) + 1)
      /\ \A k \in 1..Len(cut) : Placing(t, separator, cut, k) /\ Apart(t, separator, cut, k)
      /\ m \in Nat /\ n \in Nat /\ n <= Len(t) /\ Len(t) \in Nat
  BY DEF CutInv, Parts
<1>2. CASE ~(from <= end /\ Slice(t, end, n) = separator)
  <2>1. Cut(t, separator, parts, n) = parts
    BY <1>2 DEF Cut
  <2>2. parts.next <= n
    BY <1>1
  <2> QED BY <1>1, <2>1, <2>2 DEF CutInv
<1>3. CASE from <= end /\ Slice(t, end, n) = separator
  <2>1. Cut(t, separator, parts, n) = [cut |-> longer, next |-> n]
    BY <1>3 DEF Cut
  <2>2. end \in Nat /\ end <= Len(t) /\ end + m = n /\ end <= n /\ n - end = m
    BY <1>1, <1>3
  <2>3. part \in Seq(X) /\ Part(part, t, from, end - from)
    <3> HIDE DEF end, from
    <3> QED BY <1>1, <1>3, <2>2, SliceIs
  <2>4. Part(separator, t, end, m)
    <3> HIDE DEF end, m
    <3>1. Part(Slice(t, end, n), t, end, n - end)
      BY <1>1, <2>2, SliceIs
    <3> QED BY <1>3, <2>2, <3>1
  <2>5. /\ longer \in Seq(Seq(X)) /\ Len(longer) = Len(cut) + 1 /\ Len(cut) \in Nat
        /\ longer[Len(cut) + 1] = part /\ \A k \in 1..Len(cut) : longer[k] = cut[k]
    <3> HIDE DEF cut, part
    <3> QED BY <1>1, <2>3, AppendProperties
  <2>6. \A k \in 1..Len(cut) + 1 : StartOf(longer, m, k) = StartOf(cut, m, k)
    <3> HIDE DEF cut, part, m
    <3> QED BY <1>1, <2>3, StartKeeps
  <2> HIDE DEF longer
  <2>7. ASSUME NEW k \in 1..Len(cut)
        PROVE  Placing(t, separator, longer, k) /\ Apart(t, separator, longer, k)
    <3>1. longer[k] = cut[k] /\ StartOf(longer, m, k) = StartOf(cut, m, k)
      BY <2>5, <2>6
    <3> QED BY <1>1, <3>1 DEF Placing, Apart
  <2>8. Len(part) = end - from /\ from + Len(part) = end
    BY <1>1, <2>2, <2>3 DEF Part
  <2>9. StartOf(longer, m, Len(cut) + 1) = from
    BY <1>1, <2>5, <2>6
  <2>10. Placing(t, separator, longer, Len(cut) + 1)
    BY <2>3, <2>5, <2>8, <2>9 DEF Placing
  <2>11. Apart(t, separator, longer, Len(cut) + 1)
    BY <2>4, <2>5, <2>8, <2>9 DEF Apart, Part
  <2>12. StartOf(longer, m, (Len(cut) + 1) + 1) = n
    <3>1. StartOf(longer, m, (Len(cut) + 1) + 1)
             = StartOf(longer, m, Len(cut) + 1) + Len(longer[Len(cut) + 1]) + m
      <4>1. Len(cut) + 1 \in 1..Len(longer)
        BY <2>5
      <4> HIDE DEF cut, m
      <4> QED BY <1>1, <2>5, <4>1, StartIs
    <3> QED BY <1>1, <2>2, <2>5, <2>8, <2>9, <3>1
  <2>13. PICK next : next = [cut |-> longer, next |-> n]
    OBVIOUS
  <2>14. next.cut = longer /\ next.next = n /\ next \in Parts(X)
    BY <1>1, <2>5, <2>13 DEF Parts
  <2>15. \A k \in 1..Len(longer) : Placing(t, separator, longer, k) /\ Apart(t, separator, longer, k)
    <3>1. \A k \in 1..Len(longer) : k \in 1..Len(cut) \/ k = Len(cut) + 1
      BY <2>5
    <3> QED BY <2>7, <2>10, <2>11, <3>1
  <2>16. n <= n /\ n = StartOf(longer, m, Len(longer) + 1)
    BY <1>1, <2>5, <2>12
  <2> QED BY <2>1, <2>13, <2>14, <2>15, <2>16 DEF CutInv
<1> QED BY <1>2, <1>3

(* split is that loop, and the last part what is left.                     *)
LEMMA SplittingRuns ==
    ASSUME NEW X, NEW t \in Seq(X), NEW separator \in Seq(X)
    PROVE  /\ CutInv(X, t, separator, Len(t), Splitting(t, separator)[Len(t)])
           /\ split(t, separator)
                 = LET parts == Splitting(t, separator)[Len(t)]
                   IN  Append(parts.cut, Slice(t, parts.next, Len(t)))
<1> DEFINE N == Len(t)
           S == Parts(X)
           step == [x \in S \X (1..N) |-> IF Cut(t, separator, x[1], x[2]) \in S
                                          THEN Cut(t, separator, x[1], x[2]) ELSE NoParts]
           Body(f) == [n \in 0..N |-> IF n = 0 THEN NoParts ELSE Cut(t, separator, f[n - 1], n)]
<1>1. N \in Nat
  OBVIOUS
<1>2. NoParts \in S
  BY DEF NoParts, Parts
<1>3. step \in [S \X (1..N) -> S]
  BY <1>2
<1>4. CutInv(X, t, separator, 0, NoParts)
  <2>1. NoParts.cut = <<>> /\ NoParts.next = 0 /\ <<>> \in Seq(Seq(X)) /\ Len(separator) \in Nat
    BY DEF NoParts
  <2>2. StartOf(<<>>, Len(separator), 1) = 0
    BY <2>1, StartIs
  <2> QED BY <1>2, <2>1, <2>2 DEF CutInv
<1>5. PICK f \in [0..N -> S] :
         f[0] = NoParts /\ \A n \in 1..N : f[n] = step[<<f[n - 1], n>>]
  <2> HIDE DEF step, N, S
  <2>1. \E f : Recurs(f, S, NoParts, N, step)
    BY <1>1, <1>2, <1>3, RecursionExists
  <2> QED BY <2>1 DEF Recurs
<1>6. \A n \in 1..N : n - 1 \in 0..N /\ n # 0 /\ n \in 0..N
  BY <1>1
<1>7. \A n \in 1..N : CutInv(X, t, separator, n - 1, f[n - 1])
                         => CutInv(X, t, separator, n, f[n]) /\ f[n] = Cut(t, separator, f[n - 1], n)
  <2> TAKE n \in 1..N
  <2> HAVE CutInv(X, t, separator, n - 1, f[n - 1])
  <2>1. PICK next : next = Cut(t, separator, f[n - 1], n)
    OBVIOUS
  <2>2. CutInv(X, t, separator, n, next)
    BY <2>1, CutStep
  <2>3. next \in S
    BY <2>2 DEF CutInv
  <2>4. f[n - 1] \in S
    BY <1>6
  <2>5. f[n] = next
    BY <1>5, <2>1, <2>3, <2>4
  <2> QED BY <2>1, <2>2, <2>5
<1>8. \A n \in 0..N : CutInv(X, t, separator, n, f[n])
  <2> DEFINE G == {n \in 0..N : CutInv(X, t, separator, n, f[n])}
  <2>1. 0 \in G
    BY <1>1, <1>4, <1>5
  <2>2. \A n \in 1..N : n - 1 \in G => n \in G
    BY <1>6, <1>7
  <2> HIDE DEF G, N
  <2>3. \A n \in 0..N : n \in G
    BY <1>1, <2>1, <2>2, CountingUp
  <2> QED BY <2>3 DEF G
<1>9. \A n \in 1..N : f[n] = Cut(t, separator, f[n - 1], n)
  BY <1>6, <1>7, <1>8
<1>10. \A n \in 0..N : n # 0 => n \in 1..N
  BY <1>1
<1>11. f = Body(f)
  BY <1>5, <1>9, <1>10
<1> DEFINE g == Splitting(t, separator)
<1>12. g = Body(g)
  <2>1. \E h : h = Body(h)
    BY <1>11
  <2> QED BY <2>1 DEF Splitting
<1>13. \A n \in 0..N : CutInv(X, t, separator, n, g[n])
  <2> DEFINE G == {n \in 0..N : CutInv(X, t, separator, n, g[n])}
  <2>1. g[0] = NoParts /\ \A n \in 1..N : g[n] = Cut(t, separator, g[n - 1], n)
    BY <1>1, <1>6, <1>12
  <2> HIDE DEF g
  <2>2. 0 \in G
    BY <1>1, <1>4, <2>1
  <2>3. \A n \in 1..N : n - 1 \in G => n \in G
    BY <1>6, <2>1, CutStep
  <2> HIDE DEF G, N
  <2>4. \A n \in 0..N : n \in G
    BY <1>1, <2>2, <2>3, CountingUp
  <2> QED BY <2>4 DEF G
<1>14. split(t, separator) = LET parts == Splitting(t, separator)[Len(t)]
                             IN  Append(parts.cut, Slice(t, parts.next, Len(t)))
  BY DEF split, Splitting, NoParts
<1> QED BY <1>1, <1>13, <1>14

(* A text is its parts, separated.                                         *)
Separated(X, t, separator, raw) ==
    /\ raw \in Seq(Seq(X)) /\ Len(raw) \in Nat \ {0}
    /\ \A k \in 1..Len(raw) : Placing(t, separator, raw, k)
    /\ \A k \in 1..Len(raw) - 1 : Apart(t, separator, raw, k)
    /\ StartOf(raw, Len(separator), Len(raw)) + Len(raw[Len(raw)]) = Len(t)

(* A text is the parts it is split into, with separators between.          *)
LEMMA SplitIs ==
    ASSUME NEW X, NEW t \in Seq(X), NEW separator \in Seq(X)
    PROVE  Separated(X, t, separator, split(t, separator))
<1>0. PICK raw : raw = split(t, separator)
  OBVIOUS
<1>1. PICK parts : parts = Splitting(t, separator)[Len(t)]
  OBVIOUS
<1>2. PICK cut, from, m : cut = parts.cut /\ from = parts.next /\ m = Len(separator)
  OBVIOUS
<1>3. PICK rest : rest = Slice(t, from, Len(t))
  OBVIOUS
<1>4. raw = Append(cut, rest)
  BY <1>0, <1>1, <1>2, <1>3, SplittingRuns
<1>5. /\ cut \in Seq(Seq(X)) /\ from \in Nat /\ from <= Len(t) /\ Len(t) \in Nat /\ m \in Nat
      /\ from = StartOf(cut, m, Len(cut) + 1)
      /\ \A k \in 1..Len(cut) : Placing(t, separator, cut, k) /\ Apart(t, separator, cut, k)
  <2>1. CutInv(X, t, separator, Len(t), parts)
    BY <1>1, SplittingRuns
  <2> QED BY <1>2, <2>1 DEF CutInv, Parts
<1>6. rest \in Seq(X) /\ Part(rest, t, from, Len(t) - from)
  BY <1>3, <1>5, SliceIs
<1>7. /\ raw \in Seq(Seq(X)) /\ Len(raw) = Len(cut) + 1 /\ Len(cut) \in Nat
      /\ raw[Len(cut) + 1] = rest /\ \A k \in 1..Len(cut) : raw[k] = cut[k]
  BY <1>4, <1>5, <1>6, AppendProperties
<1>8. \A k \in 1..Len(cut) + 1 : StartOf(raw, m, k) = StartOf(cut, m, k)
  BY <1>4, <1>5, <1>6, StartKeeps
<1>9. ASSUME NEW k \in 1..Len(cut)
      PROVE  Placing(t, separator, raw, k) /\ Apart(t, separator, raw, k)
  <2>1. raw[k] = cut[k] /\ StartOf(raw, m, k) = StartOf(cut, m, k)
    BY <1>7, <1>8
  <2> QED BY <1>2, <1>5, <2>1 DEF Placing, Apart
<1>10. Len(rest) = Len(t) - from /\ from + Len(rest) = Len(t)
  BY <1>5, <1>6 DEF Part
<1>11. StartOf(raw, m, Len(raw)) = from
  BY <1>5, <1>7, <1>8
<1>12. Placing(t, separator, raw, Len(raw))
  BY <1>2, <1>6, <1>7, <1>10, <1>11 DEF Placing
<1>13. \A k \in 1..Len(raw) : k \in 1..Len(cut) \/ k = Len(raw)
  BY <1>7
<1>14. \A k \in 1..Len(raw) - 1 : k \in 1..Len(cut)
  BY <1>7
<1>15. Separated(X, t, separator, raw)
  <2>1. Len(raw) \in Nat \ {0} /\ Len(raw[Len(raw)]) = Len(rest)
    BY <1>7
  <2>2. \A k \in 1..Len(raw) : Placing(t, separator, raw, k)
    BY <1>9, <1>12, <1>13
  <2>3. \A k \in 1..Len(raw) - 1 : Apart(t, separator, raw, k)
    BY <1>9, <1>14
  <2>4. StartOf(raw, Len(separator), Len(raw)) + Len(raw[Len(raw)]) = Len(t)
    BY <1>2, <1>10, <1>11, <2>1
  <2> QED BY <1>7, <2>1, <2>2, <2>3, <2>4 DEF Separated
<1> QED BY <1>0, <1>15

(* A later part begins after an earlier one has ended.                     *)
LEMMA StartsGrow ==
    ASSUME NEW X, NEW raw \in Seq(Seq(X)), NEW m \in Nat,
           NEW j \in 1..Len(raw), NEW k \in j + 1..Len(raw)
    PROVE  StartOf(raw, m, j) + Len(raw[j]) + m <= StartOf(raw, m, k)
<1> DEFINE after == StartOf(raw, m, j) + Len(raw[j]) + m
           N == Len(raw) - (j + 1)
           G == {n \in 0..N : after <= StartOf(raw, m, j + 1 + n)}
<1>1. N \in Nat /\ j \in Nat \ {0} /\ Len(raw) \in Nat
  OBVIOUS
<1>2. /\ \A n \in 1..Len(raw) + 1 : StartOf(raw, m, n) \in Nat
      /\ \A n \in 1..Len(raw) :
            StartOf(raw, m, n + 1) = StartOf(raw, m, n) + Len(raw[n]) + m
  BY StartIs
<1>3. \A n \in 1..Len(raw) : Len(raw[n]) \in Nat
  <2>1. \A n \in 1..Len(raw) : raw[n] \in Seq(X)
    OBVIOUS
  <2> QED BY <2>1
<1>4. after = StartOf(raw, m, j + 1) /\ StartOf(raw, m, j + 1) \in Nat
  BY <1>1, <1>2
<1> HIDE DEF after
<1>5. 0 \in G
  <2>1. j + 1 + 0 = j + 1 /\ 0 \in 0..N
    BY <1>1
  <2> QED BY <1>4, <2>1
<1>6. ASSUME NEW n \in 1..N, n - 1 \in G PROVE n \in G
  <2>1. /\ j + 1 + (n - 1) \in 1..Len(raw) /\ j + 1 + (n - 1) \in 1..Len(raw) + 1
        /\ (j + 1 + (n - 1)) + 1 = j + 1 + n /\ n \in 0..N
    BY <1>1
  <2>2. after <= StartOf(raw, m, j + 1 + (n - 1))
    BY <1>6
  <2>3. StartOf(raw, m, j + 1 + n)
           = StartOf(raw, m, j + 1 + (n - 1)) + Len(raw[j + 1 + (n - 1)]) + m
    BY <1>2, <2>1
  <2>4. PICK a, b, c : /\ a = StartOf(raw, m, j + 1 + (n - 1)) /\ b = Len(raw[j + 1 + (n - 1)])
                       /\ c = StartOf(raw, m, j + 1 + n)
    OBVIOUS
  <2>5. a \in Nat /\ b \in Nat /\ c = a + b + m /\ after \in Nat /\ after <= a
    BY <1>2, <1>3, <1>4, <2>1, <2>2, <2>3, <2>4
  <2>6. after <= c
    BY <2>5
  <2> QED BY <2>1, <2>4, <2>6
<1>7. k - (j + 1) \in G
  <2>1. \A n \in 1..N : n - 1 \in G => n \in G
    BY <1>6
  <2>2. k - (j + 1) \in 0..N
    BY <1>1
  <2> HIDE DEF G, N
  <2>3. \A n \in 0..N : n \in G
    BY <1>1, <1>5, <2>1, CountingUp
  <2> QED BY <2>2, <2>3
<1>8. j + 1 + (k - (j + 1)) = k
  BY <1>1
<1> QED BY <1>7, <1>8 DEF after

-----------------------------------------------------------------------------

(* Finding the paragraphs.  An offset is before a paragraph if there are   *)
(* but newlines from there to its start.                                   *)
NewLines(t, from, to) == \A x \in from + 1..to : t[x] = NewLine

(* A blank part is made of newlines.                                       *)
LEMMA BlankIs ==
    ASSUME NEW X, NEW p \in Seq(X)
    PROVE  Blank(p) <=> \A i \in 1..Len(p) : p[i] = NewLine
<1>1. DOMAIN p = 1..Len(p)
  OBVIOUS
<1>2. Blank(p) <=> \A i \in DOMAIN p : p[i] \in {NewLine}
  BY Zenon DEF Blank, ToSet
<1> QED BY <1>1, <1>2

(* Searching for a paragraph from newlines before it finds it, or more     *)
(* newlines if it is blank.                                                *)
LEMMA ParagraphFound ==
    ASSUME NEW X, NEW t \in Seq(X), NEW p \in Seq(X), NEW start \in Nat,
           start + Len(p) <= Len(t), Part(p, t, start, Len(p)),
           NEW offset \in Nat, offset <= start, NewLines(t, offset, start),
           NEW pos, pos = find(t, p, offset)
    PROVE  /\ pos \in Nat /\ pos <= start
           /\ ~Blank(p) => pos = start
           /\ NewLines(t, pos + Len(p), start + Len(p))
<1>0. Len(p) \in Nat /\ Len(t) \in Nat
  OBVIOUS
<1>1. \A k \in 1..Len(p) : p[k] = t[start + k]
  BY DEF Part
<1>2. StandsAt(t, p, start)
  BY <1>1 DEF StandsAt
<1>3. start \in Occurrences(t, p, offset)
  BY <1>2, OccurrenceIs
<1>4. pos \in Nat /\ pos <= start /\ pos \in Occurrences(t, p, offset)
  BY <1>3, FindIs
<1>5. StandsAt(t, p, pos) /\ pos >= offset
  BY <1>4, OccurrenceIs
<1>6. \A k \in 1..Len(p) : p[k] = t[pos + k]
  BY <1>5 DEF StandsAt
<1>7. \A x \in offset + 1..start : t[x] = NewLine
  BY DEF NewLines
<1>8. CASE Blank(p)
  <2>1. \A i \in 1..Len(p) : p[i] = NewLine
    BY <1>8, BlankIs
  <2>2. ASSUME NEW x \in (pos + Len(p)) + 1..start + Len(p) PROVE t[x] = NewLine
    <3>1. CASE x <= start
      <4>1. x \in offset + 1..start
        BY <1>0, <1>4, <1>5, <3>1
      <4> QED BY <1>7, <4>1
    <3>2. CASE ~(x <= start)
      <4>1. x - start \in 1..Len(p) /\ start + (x - start) = x
        BY <1>0, <1>4, <3>2
      <4> QED BY <1>1, <2>1, <4>1
    <3> QED BY <3>1, <3>2
  <2> QED BY <1>4, <1>8, <2>2 DEF NewLines
<1>9. CASE ~Blank(p)
  <2> DEFINE Marks == {i \in 1..Len(p) : p[i] # NewLine}
  <2>1. Marks # {} /\ Marks \subseteq Nat
    BY <1>9, BlankIs
  <2>2. PICK f \in Marks : \A i \in Marks : f <= i
    <3> HIDE DEF Marks
    <3> QED BY <2>1, LeastNumber
  <2>3. f \in 1..Len(p) /\ p[f] # NewLine /\ \A i \in 1..f - 1 : p[i] = NewLine
    <3>1. \A i \in 1..f - 1 : i \in 1..Len(p) /\ ~(f <= i)
      BY <1>0
    <3> QED BY <2>2, <3>1
  <2>4. ASSUME pos < start PROVE FALSE
    <3>1. t[pos + f] # NewLine
      BY <1>6, <2>3
    <3>2. CASE pos + f <= start
      <4>1. pos + f \in offset + 1..start
        BY <1>0, <1>4, <1>5, <2>3, <3>2
      <4> QED BY <1>7, <3>1, <4>1
    <3>3. CASE ~(pos + f <= start)
      <4>1. (pos + f) - start \in 1..f - 1 /\ start + ((pos + f) - start) = pos + f
            /\ (pos + f) - start \in 1..Len(p)
        BY <1>0, <1>4, <2>3, <2>4, <3>3
      <4>2. p[(pos + f) - start] = NewLine
        BY <2>3, <4>1
      <4> QED BY <1>1, <3>1, <4>1, <4>2
    <3> QED BY <3>2, <3>3
  <2>5. pos = start
    BY <1>4, <2>4
  <2>6. NewLines(t, pos + Len(p), start + Len(p))
    BY <1>0, <2>5 DEF NewLines
  <2> QED BY <1>4, <2>5, <2>6
<1> QED BY <1>8, <1>9

(* A text in paragraphs, with m newlines between each two.                 *)
Divided(X, t, m, raw) ==
    /\ raw \in Seq(Seq(X)) /\ m \in Nat \ {0}
    /\ \A k \in 1..Len(raw) : /\ StartOf(raw, m, k) + Len(raw[k]) <= Len(t)
                              /\ Part(raw[k], t, StartOf(raw, m, k), Len(raw[k]))
    /\ \A k \in 1..Len(raw) - 1 :
          NewLines(t, StartOf(raw, m, k) + Len(raw[k]), StartOf(raw, m, k + 1))

(* Whichever separator is chosen, the paragraphs divide the text.          *)
LEMMA ParagraphsDivide ==
    ASSUME NEW t \in Seq(Letters)
    PROVE  Divided(Letters, t, Len(Separator(t)), RawParagraphs(t)) /\ RawParagraphs(t) # <<>>
<1>1. PICK separator, m, raw, X : /\ separator = Separator(t) /\ m = Len(separator)
                                  /\ raw = RawParagraphs(t) /\ X = Letters
  OBVIOUS
<1>2. separator \in {<<NewLine>>, <<NewLine, NewLine>>}
  BY <1>1 DEF Separator
<1>3. separator \in Seq(X) /\ m \in Nat \ {0} /\ \A x \in 1..m : separator[x] = NewLine
  <2>1. NewLine \in X
    BY <1>1 DEF Letters
  <2>2. CASE separator = <<NewLine>>
    BY <1>1, <2>1, <2>2
  <2>3. CASE separator = <<NewLine, NewLine>>
    BY <1>1, <2>1, <2>3
  <2> QED BY <1>2, <2>2, <2>3, Zenon
<1>4. t \in Seq(X) /\ raw = split(t, separator)
  BY <1>1 DEF RawParagraphs
<1>5. /\ raw \in Seq(Seq(X)) /\ Len(raw) \in Nat \ {0}
      /\ \A k \in 1..Len(raw) : Placing(t, separator, raw, k)
      /\ \A k \in 1..Len(raw) - 1 : Apart(t, separator, raw, k)
      /\ StartOf(raw, m, Len(raw)) + Len(raw[Len(raw)]) = Len(t)
  <2>1. Separated(X, t, separator, raw)
    BY <1>3, <1>4, SplitIs
  <2> QED BY <1>1, <2>1 DEF Separated
<1>6. \A k \in 1..Len(raw) : Len(raw[k]) \in Nat
  <2>1. \A k \in 1..Len(raw) : raw[k] \in Seq(X)
    BY <1>5
  <2> QED BY <2>1
<1>7. \A k \in 1..Len(raw) : StartOf(raw, m, k) \in Nat
  <2>1. \A k \in 1..Len(raw) + 1 : StartOf(raw, m, k) \in Nat
    BY <1>3, <1>5, StartIs
  <2> QED BY <1>5, <2>1
<1>8. ASSUME NEW k \in 1..Len(raw)
      PROVE  StartOf(raw, m, k) + Len(raw[k]) <= Len(t)
  <2>1. CASE k = Len(raw)
    BY <1>5, <2>1
  <2>2. CASE k # Len(raw)
    <3>1. Len(raw) \in k + 1..Len(raw) /\ Len(raw) \in 1..Len(raw)
      BY <1>5, <2>2
    <3>2. StartOf(raw, m, k) + Len(raw[k]) + m <= StartOf(raw, m, Len(raw))
      BY <1>3, <1>5, <3>1, StartsGrow
    <3>3. PICK a, b, c, d : /\ a = StartOf(raw, m, k) /\ b = Len(raw[k])
                            /\ c = StartOf(raw, m, Len(raw)) /\ d = Len(raw[Len(raw)])
      OBVIOUS
    <3>4. a \in Nat /\ b \in Nat /\ c \in Nat /\ d \in Nat
      BY <1>6, <1>7, <3>1, <3>3
    <3>5. a + b + m <= c /\ c + d = Len(t) /\ m \in Nat
      BY <1>3, <1>5, <3>2, <3>3
    <3>6. a + b <= Len(t)
      BY <3>4, <3>5
    <3> QED BY <3>3, <3>6
  <2> QED BY <2>1, <2>2
<1>9. ASSUME NEW k \in 1..Len(raw) - 1
      PROVE  NewLines(t, StartOf(raw, m, k) + Len(raw[k]), StartOf(raw, m, k + 1))
  <2>1. PICK end : end = StartOf(raw, m, k) + Len(raw[k])
    OBVIOUS
  <2>2. k \in 1..Len(raw)
    BY <1>5
  <2>3. StartOf(raw, m, k + 1) = end + m /\ end \in Nat
    <3>1. StartOf(raw, m, k + 1) = StartOf(raw, m, k) + Len(raw[k]) + m
      BY <1>3, <1>5, <2>2, StartIs
    <3> QED BY <1>3, <1>6, <1>7, <2>1, <2>2, <3>1
  <2>4. \A x \in 1..m : t[end + x] = separator[x]
    BY <1>1, <1>5, <2>1 DEF Apart
  <2>5. ASSUME NEW x \in end + 1..end + m PROVE t[x] = NewLine
    <3>1. x - end \in 1..m /\ end + (x - end) = x
      BY <1>3, <2>3
    <3> QED BY <1>3, <2>4, <3>1
  <2> QED BY <2>1, <2>3, <2>5 DEF NewLines
<1>10. \A k \in 1..Len(raw) : Part(raw[k], t, StartOf(raw, m, k), Len(raw[k]))
  BY <1>1, <1>5 DEF Placing
<1>11. Divided(X, t, m, raw)
  BY <1>3, <1>5, <1>8, <1>9, <1>10 DEF Divided
<1> QED BY <1>1, <1>5, <1>11

(* The loop that places them.                                              *)
Located(X) == [pos : Int, text : Seq(X)]

PlacingOf(t, raw) ==
    CHOOSE f : f = [n \in 0..Len(raw) |-> IF n = 0 THEN <<>> ELSE Place(t, f[n - 1], raw[n])]

WellPlaced(t, m, raw, k, p) ==
    /\ p.text = raw[k]
    /\ p.pos \in Nat /\ p.pos <= StartOf(raw, m, k)
    /\ ~Blank(raw[k]) => p.pos = StartOf(raw, m, k)
    /\ NewLines(t, p.pos + Len(raw[k]), StartOf(raw, m, k) + Len(raw[k]))

PlacedInv(X, t, m, raw, n, placed) ==
    /\ placed \in Seq(Located(X)) /\ Len(placed) = n
    /\ \A k \in 1..n : WellPlaced(t, m, raw, k, placed[k])

(* One more paragraph placed keeps the invariant of the search.            *)
LEMMA PlaceStep ==
    ASSUME NEW X, NEW t \in Seq(X), NEW m, NEW raw, Divided(X, t, m, raw),
           NEW n \in 1..Len(raw), NEW placed, PlacedInv(X, t, m, raw, n - 1, placed)
    PROVE  PlacedInv(X, t, m, raw, n, Place(t, placed, raw[n]))
<1>1. PICK p, start : p = raw[n] /\ start = StartOf(raw, m, n)
  OBVIOUS
<1>2. /\ raw \in Seq(Seq(X)) /\ m \in Nat \ {0} /\ n \in Nat \ {0} /\ n <= Len(raw)
      /\ p \in Seq(X) /\ Len(p) \in Nat
  BY <1>1 DEF Divided
<1>3. \A k \in 1..Len(raw) + 1 : StartOf(raw, m, k) \in Nat
  BY <1>2, StartIs
<1>4. start \in Nat
  BY <1>1, <1>2, <1>3
<1>5. start + Len(p) <= Len(t) /\ Part(p, t, start, Len(p))
  BY <1>1 DEF Divided
<1>6. PICK offset : offset = IF placed = <<>> THEN 0 ELSE Last(placed).pos + Len(Last(placed).text)
  OBVIOUS
<1>7. placed \in Seq(Located(X)) /\ Len(placed) = n - 1
      /\ \A k \in 1..n - 1 : WellPlaced(t, m, raw, k, placed[k])
  BY DEF PlacedInv
<1>8. offset \in Nat /\ offset <= start /\ NewLines(t, offset, start)
  <2>1. CASE n = 1
    <3>1. placed = <<>> /\ offset = 0
      BY <1>2, <1>6, <1>7, <2>1
    <3>2. start = 0
      BY <1>1, <1>2, <2>1, StartIs
    <3> QED BY <3>1, <3>2 DEF NewLines
  <2>2. CASE n # 1
    <3>1. PICK j : j = n - 1
      OBVIOUS
    <3>2. /\ j \in 1..n - 1 /\ j \in 1..Len(raw) - 1 /\ j + 1 = n /\ j \in 1..Len(raw)
          /\ j \in 1..Len(raw) + 1 /\ n \in j + 1..Len(raw)
      BY <1>2, <2>2, <3>1
    <3>3. placed # <<>> /\ Last(placed) = placed[j]
      BY <1>2, <1>7, <2>2, <3>1 DEF Last
    <3>4. WellPlaced(t, m, raw, j, placed[j])
      BY <1>7, <3>2
    <3>5. raw[j] \in Seq(X)
      BY <1>2, <3>2
    <3>6. PICK last, a, b : last = placed[j].pos /\ a = Len(raw[j]) /\ b = StartOf(raw, m, j)
      OBVIOUS
    <3>7. /\ offset = last + a /\ last \in Nat /\ last <= b /\ a \in Nat /\ b \in Nat
          /\ NewLines(t, last + a, b + a)
      BY <1>3, <1>6, <3>2, <3>3, <3>4, <3>5, <3>6 DEF WellPlaced
    <3>8. NewLines(t, b + a, start)
      BY <1>1, <3>2, <3>6 DEF Divided
    <3>9. b + a + m <= start
      BY <1>1, <1>2, <3>2, <3>6, StartsGrow
    <3>10. ASSUME NEW x \in offset + 1..start PROVE t[x] = NewLine
      <4>1. x \in (last + a) + 1..b + a \/ x \in (b + a) + 1..start
        BY <1>2, <1>4, <3>7
      <4> QED BY <3>7, <3>8, <4>1 DEF NewLines
    <3>11. offset \in Nat /\ offset <= start
      BY <1>2, <1>4, <3>7, <3>9
    <3> QED BY <3>10, <3>11 DEF NewLines
  <2> QED BY <2>1, <2>2
<1>9. PICK pos : pos = find(t, p, offset)
  OBVIOUS
<1>10. /\ pos \in Nat /\ pos <= start /\ (~Blank(p) => pos = start)
       /\ NewLines(t, pos + Len(p), start + Len(p))
  BY <1>2, <1>4, <1>5, <1>8, <1>9, ParagraphFound
<1>11. PICK entry : entry = [pos |-> pos, text |-> p]
  OBVIOUS
<1>12. entry \in Located(X) /\ entry.pos = pos /\ entry.text = p
  BY <1>2, <1>10, <1>11 DEF Located
<1>13. Place(t, placed, raw[n]) = Append(placed, entry)
  BY <1>1, <1>6, <1>9, <1>11 DEF Place
<1>14. PICK next : next = Append(placed, entry)
  OBVIOUS
<1>15. /\ next \in Seq(Located(X)) /\ Len(next) = n
       /\ next[n] = entry /\ \A k \in 1..n - 1 : next[k] = placed[k]
  BY <1>2, <1>7, <1>12, <1>14, AppendProperties
<1>16. WellPlaced(t, m, raw, n, next[n])
  BY <1>1, <1>10, <1>12, <1>15 DEF WellPlaced
<1>17. \A k \in 1..n : k \in 1..n - 1 \/ k = n
  BY <1>2
<1>18. \A k \in 1..n : WellPlaced(t, m, raw, k, next[k])
  BY <1>7, <1>15, <1>16, <1>17
<1> QED BY <1>13, <1>14, <1>15, <1>18 DEF PlacedInv

(* So every paragraph with words is placed where it is.                    *)
LEMMA PlacedIs ==
    ASSUME NEW X, NEW t \in Seq(X), NEW m, NEW raw, Divided(X, t, m, raw), raw = RawParagraphs(t)
    PROVE  PlacedInv(X, t, m, raw, Len(raw), Placed(t))
<1> DEFINE N == Len(raw)
           S == Seq(Located(X))
           step == [x \in S \X (1..N) |-> IF Place(t, x[1], raw[x[2]]) \in S
                                          THEN Place(t, x[1], raw[x[2]]) ELSE <<>>]
           Body(f) == [n \in 0..N |-> IF n = 0 THEN <<>> ELSE Place(t, f[n - 1], raw[n])]
<1>1. N \in Nat
  BY DEF Divided
<1>2. <<>> \in S
  OBVIOUS
<1>3. step \in [S \X (1..N) -> S]
  BY <1>2
<1>4. PlacedInv(X, t, m, raw, 0, <<>>)
  <2>1. <<>> \in Seq(Located(X)) /\ Len(<<>>) = 0 /\ 1..0 = {}
    OBVIOUS
  <2> QED BY <2>1 DEF PlacedInv
<1>5. PICK f \in [0..N -> S] :
         f[0] = <<>> /\ \A n \in 1..N : f[n] = step[<<f[n - 1], n>>]
  <2> HIDE DEF step, N, S
  <2>1. PICK base : base = <<>>
    OBVIOUS
  <2>2. base \in S
    BY <1>2, <2>1
  <2>3. \E h : Recurs(h, S, base, N, step)
    BY <1>1, <1>3, <2>2, RecursionExists
  <2> QED BY <2>1, <2>3 DEF Recurs
<1>6. \A n \in 1..N : n - 1 \in 0..N /\ n # 0 /\ n \in 0..N
  BY <1>1
<1>7. \A n \in 1..N : PlacedInv(X, t, m, raw, n - 1, f[n - 1])
                         => PlacedInv(X, t, m, raw, n, f[n]) /\ f[n] = Place(t, f[n - 1], raw[n])
  <2> TAKE n \in 1..N
  <2> HAVE PlacedInv(X, t, m, raw, n - 1, f[n - 1])
  <2>1. PICK next : next = Place(t, f[n - 1], raw[n])
    OBVIOUS
  <2>2. PlacedInv(X, t, m, raw, n, next)
    BY <2>1, PlaceStep
  <2>3. next \in S
    BY <2>2 DEF PlacedInv
  <2>4. f[n - 1] \in S
    BY <1>6
  <2>5. f[n] = next
    BY <1>5, <2>1, <2>3, <2>4
  <2> QED BY <2>1, <2>2, <2>5
<1>8. \A n \in 0..N : PlacedInv(X, t, m, raw, n, f[n])
  <2> DEFINE G == {n \in 0..N : PlacedInv(X, t, m, raw, n, f[n])}
  <2>1. 0 \in G
    BY <1>1, <1>4, <1>5
  <2>2. \A n \in 1..N : n - 1 \in G => n \in G
    BY <1>6, <1>7
  <2> HIDE DEF G, N
  <2>3. \A n \in 0..N : n \in G
    BY <1>1, <2>1, <2>2, CountingUp
  <2> QED BY <2>3 DEF G
<1>9. \A n \in 1..N : f[n] = Place(t, f[n - 1], raw[n])
  BY <1>6, <1>7, <1>8
<1>10. \A n \in 0..N : n # 0 => n \in 1..N
  BY <1>1
<1>11. f = Body(f)
  BY <1>5, <1>9, <1>10
<1> DEFINE g == PlacingOf(t, raw)
<1>12. g = Body(g)
  <2>1. \E h : h = Body(h)
    BY <1>11
  <2> QED BY <2>1 DEF PlacingOf
<1>13. \A n \in 0..N : PlacedInv(X, t, m, raw, n, g[n])
  <2> DEFINE G == {n \in 0..N : PlacedInv(X, t, m, raw, n, g[n])}
  <2>1. g[0] = <<>> /\ \A n \in 1..N : g[n] = Place(t, g[n - 1], raw[n])
    BY <1>1, <1>6, <1>12
  <2> HIDE DEF g
  <2>2. 0 \in G
    BY <1>1, <1>4, <2>1
  <2>3. \A n \in 1..N : n - 1 \in G => n \in G
    BY <1>6, <2>1, PlaceStep
  <2> HIDE DEF G, N
  <2>4. \A n \in 0..N : n \in G
    BY <1>1, <2>2, <2>3, CountingUp
  <2> QED BY <2>4 DEF G
<1>14. Placed(t) = PlacingOf(t, raw)[Len(raw)]
  BY DEF Placed, PlacingOf
<1> QED BY <1>1, <1>13, <1>14

-----------------------------------------------------------------------------

(* A letter is counted if it is there. *)
LEMMA CountIs ==
    ASSUME NEW X, NEW p \in Seq(X), NEW letter
    PROVE  /\ Count(p, letter) \in Nat
           /\ Count(p, letter) > 0 <=> \E i \in 1..Len(p) : p[i] = letter
<1> DEFINE those == {i \in DOMAIN p : p[i] = letter}
<1>1. those \subseteq 1..Len(p) /\ IsFiniteSet(1..Len(p)) /\ \A i : i \in those <=> i \in 1..Len(p) /\ p[i] = letter
  <2>1. Len(p) \in Nat /\ DOMAIN p = 1..Len(p)
    OBVIOUS
  <2>2. IsFiniteSet(1..Len(p))
    BY <2>1, FS_Interval
  <2> QED BY <2>1, <2>2
<1> HIDE DEF those
<1>2. IsFiniteSet(those)
  BY <1>1, FS_Subset
<1>3. Cardinality(those) \in Nat /\ (Cardinality(those) = 0 <=> those = {})
  BY <1>2, FS_CardinalityType, FS_EmptySet
<1>4. Count(p, letter) = Cardinality(those)
  BY DEF Count, those
<1> QED BY <1>1, <1>3, <1>4

(* A text that is not blank has words. *)
LEMMA WordsAre ==
    ASSUME NEW X, NEW p \in Seq(X)
    PROVE  Words(p) \in Nat /\ (~Blank(p) => Words(p) > 0)
<1>1. PICK those, all, n : /\ those = {i \in DOMAIN p : p[i] = NewLine}
                           /\ all = 1..Len(p) /\ n = Len(p)
  OBVIOUS
<1>2. n \in Nat /\ DOMAIN p = all
  BY <1>1
<1>3. IsFiniteSet(all) /\ Cardinality(all) = n
  <2>1. IsFiniteSet(1..n) /\ Cardinality(1..n) = IF 1 > n THEN 0 ELSE n - 1 + 1
    BY <1>2, FS_Interval
  <2> QED BY <1>1, <1>2, <2>1
<1>4. those \subseteq all
  BY <1>1, <1>2
<1>5. Cardinality(those) \in Nat /\ Cardinality(those) <= n
      /\ (n = Cardinality(those) => those = all)
  <2>1. /\ IsFiniteSet(those) /\ Cardinality(those) <= Cardinality(all)
        /\ Cardinality(all) = Cardinality(those) => all = those
    BY <1>3, <1>4, FS_Subset
  <2>2. Cardinality(those) \in Nat
    BY <2>1, FS_CardinalityType
  <2> QED BY <1>3, <2>1, <2>2
<1>6. Words(p) = n - Cardinality(those)
  BY <1>1 DEF Words, Count
<1>7. ~Blank(p) => those # all
  BY <1>1, BlankIs
<1> QED BY <1>2, <1>5, <1>6, <1>7

(* What a paragraph scores is positive whether it has a term or not.       *)
LEMMA ScorePositive ==
    ASSUME NEW scale \in Nat \ {0}, NEW terms \in Nat, NEW total \in Nat,
           NEW words \in Nat \ {0}, NEW size \in Nat \ {0}
    PROVE  scale + (scale * (20 * terms * total))
                      \div (3 * total + 9 * words * size + 8 * terms * total) \in Nat \ {0}
<1>1. \A m \in Nat, n \in Nat : m * n \in Nat
  OBVIOUS
<1>2. \A m \in Nat \ {0}, n \in Nat \ {0} : m * n \in Nat \ {0}
  OBVIOUS
<1>3. \A n \in Nat, d \in Nat \ {0} : n \div d \in Nat
  OBVIOUS
<1>4. 20 * terms * total \in Nat /\ 8 * terms * total \in Nat /\ 3 * total \in Nat
  BY <1>1
<1>5. 9 * words * size \in Nat \ {0}
  BY <1>2
<1>6. PICK top, below, x, y : /\ top = scale * (20 * terms * total)
                              /\ x = 9 * words * size /\ y = 8 * terms * total
                              /\ below = 3 * total + x + y
  OBVIOUS
<1>7. top \in Nat /\ below \in Nat \ {0}
  BY <1>1, <1>4, <1>5, <1>6
<1>8. PICK q \in Nat : q = top \div below
  BY <1>3, <1>7
<1>9. scale + q \in Nat \ {0}
  OBVIOUS
<1> QED BY <1>6, <1>8, <1>9

Mentioned(corpus) == \E p \in corpus : Count(p.text, Term) > 0

(* Once a paragraph of the corpus has a term, all of them score.           *)
LEMMA BaseIs ==
    ASSUME NEW X, NEW corpus, IsFiniteSet(corpus), \A p \in corpus : p.text \in Seq(X),
           NEW q \in corpus, ~Blank(q.text)
    PROVE  Base(corpus, q.text) \in Nat /\ (Base(corpus, q.text) > 0 <=> Mentioned(corpus))
<1>1. PICK f : f = [p \in corpus |-> Words(p.text)]
  OBVIOUS
<1>2. \A p \in corpus : Words(p.text) \in Nat
  BY WordsAre
<1>3. f \in [corpus -> Nat]
  BY <1>1, <1>2
<1>4. SumFunction(f) \in Nat
  BY <1>3, SumNumber
<1>5. PICK total, terms, words, size : /\ total = SumFunction(f) /\ terms = Count(q.text, Term)
                                       /\ words = Words(q.text) /\ size = Cardinality(corpus)
  OBVIOUS
<1>6. total \in Nat /\ terms \in Nat /\ words \in Nat \ {0}
  BY <1>4, <1>5, CountIs, WordsAre
<1>7. size \in Nat \ {0}
  BY <1>5, FS_CardinalityType, FS_EmptySet
<1>8. PICK score : score = SCALE + (SCALE * (20 * terms * total))
                              \div (3 * total + 9 * words * size + 8 * terms * total)
  OBVIOUS
<1>9. score \in Nat \ {0}
  <2>1. SCALE \in Nat \ {0}
    BY DEF SCALE
  <2> QED BY <1>6, <1>7, <1>8, <2>1, ScorePositive
<1>10. Base(corpus, q.text) = IF \A p \in corpus : Count(p.text, Term) = 0 THEN 0 ELSE score
  BY <1>1, <1>5, <1>8 DEF Base
<1>11. Mentioned(corpus) <=> ~\A p \in corpus : Count(p.text, Term) = 0
  <2>1. \A p \in corpus : Count(p.text, Term) \in Nat
    BY CountIs
  <2> QED BY <2>1 DEF Mentioned
<1> QED BY <1>9, <1>10, <1>11

(* No multiplier is 0.                                                     *)
LEMMA MultiplierIs ==
    ASSUME NEW p, NEW rhvQuery
    PROVE  Multiplier(p, rhvQuery) \in {1, 2, 20, 40}
<1>1. PICK boosted : boosted = IF Count(p, Keyword) > 0 THEN 40 ELSE 20
  OBVIOUS
<1>2. boosted \in {20, 40} /\ 20 \div 20 = 1 /\ 40 \div 20 = 2
  BY <1>1
<1>3. Multiplier(p, rhvQuery) = IF Count(p, Rhv) > 0 /\ ~rhvQuery THEN boosted \div 20 ELSE boosted
  BY <1>1 DEF Multiplier
<1> QED BY <1>2, <1>3

Para(X) == [score : Nat, pos : Nat, text : Seq(X)]

(* The paragraphs that are not blank and behind the table of contents.     *)
Lines(raw, m, start) ==
    {[pos |-> StartOf(raw, m, k), text |-> raw[k]] :
        k \in {j \in 1..Len(raw) : ~Blank(raw[j]) /\ StartOf(raw, m, j) >= start}}

Rated(corpus, rhvQuery, p) ==
    [score |-> Base(corpus, p.text) * Multiplier(p.text, rhvQuery),
     pos |-> p.pos, text |-> p.text]

(* They are finitely many parts of the text, and no two begin at one place.*)
LEMMA LinesApart ==
    ASSUME NEW X, NEW t \in Seq(X), NEW m, NEW raw, Divided(X, t, m, raw), NEW start \in Nat
    PROVE  /\ IsFiniteSet(Lines(raw, m, start))
           /\ \A p \in Lines(raw, m, start) :
                 /\ p.pos \in Nat /\ p.pos >= start /\ p.text \in Seq(X)
                 /\ p.text # <<>> /\ ~Blank(p.text) /\ p.pos + Len(p.text) <= Len(t)
                 /\ Part(p.text, t, p.pos, Len(p.text))
           /\ \A p, q \in Lines(raw, m, start) : p.pos = q.pos => p = q
<1> DEFINE Line(k) == [pos |-> StartOf(raw, m, k), text |-> raw[k]]
           good == {j \in 1..Len(raw) : ~Blank(raw[j]) /\ StartOf(raw, m, j) >= start}
<1>1. raw \in Seq(Seq(X)) /\ m \in Nat \ {0} /\ Len(raw) \in Nat
  BY DEF Divided
<1>2. PICK S : S = {Line(k) : k \in good}
  OBVIOUS
<1>3. Lines(raw, m, start) = S
  BY <1>2 DEF Lines
<1>4. IsFiniteSet(S)
  <2> DEFINE f == [k \in good |-> Line(k)]
  <2>1. IsFiniteSet(1..Len(raw))
    BY <1>1, FS_Interval
  <2>2. good \subseteq 1..Len(raw)
    OBVIOUS
  <2> HIDE DEF good
  <2>3. IsFiniteSet(good)
    BY <2>1, <2>2, FS_Subset
  <2>4. f \in Surjection(good, S)
    <3>1. f \in [good -> S] /\ \A x \in S : \E k \in good : f[k] = x
      BY <1>2
    <3> QED BY <3>1 DEF Surjection
  <2> QED BY <2>3, <2>4, FS_Surjection
<1>5. \A k \in 1..Len(raw) + 1 : StartOf(raw, m, k) \in Nat
  BY <1>1, StartIs
<1>6. \A p \in S : \E k \in 1..Len(raw) :
         p = Line(k) /\ ~Blank(raw[k]) /\ StartOf(raw, m, k) >= start
  BY <1>2
<1>7. ASSUME NEW p \in S
      PROVE  /\ p.pos \in Nat /\ p.pos >= start /\ p.text \in Seq(X)
             /\ p.text # <<>> /\ ~Blank(p.text) /\ p.pos + Len(p.text) <= Len(t)
             /\ Part(p.text, t, p.pos, Len(p.text))
  <2>1. PICK k \in 1..Len(raw) :
           p = Line(k) /\ ~Blank(raw[k]) /\ StartOf(raw, m, k) >= start
    BY <1>6
  <2>2. raw[k] \in Seq(X) /\ k \in 1..Len(raw) + 1
    BY <1>1
  <2>3. raw[k] # <<>>
    BY <2>1, <2>2, BlankIs
  <2>4. Part(raw[k], t, StartOf(raw, m, k), Len(raw[k]))
        /\ StartOf(raw, m, k) + Len(raw[k]) <= Len(t)
    BY DEF Divided
  <2>5. p.pos = StartOf(raw, m, k) /\ p.text = raw[k] /\ p.pos \in Nat
    BY <1>5, <2>1, <2>2
  <2> QED BY <2>1, <2>2, <2>3, <2>4, <2>5
<1>8. ASSUME NEW j \in 1..Len(raw), NEW k \in 1..Len(raw), j < k
      PROVE  StartOf(raw, m, j) # StartOf(raw, m, k)
  <2>1. k \in j + 1..Len(raw) /\ j \in 1..Len(raw) + 1 /\ k \in 1..Len(raw) + 1
    BY <1>1, <1>8
  <2>2. StartOf(raw, m, j) + Len(raw[j]) + m <= StartOf(raw, m, k)
    BY <1>1, <2>1, StartsGrow
  <2>3. Len(raw[j]) \in Nat
    <3>1. raw[j] \in Seq(X)
      BY <1>1
    <3> QED BY <3>1
  <2>4. PICK a, b, n : a = StartOf(raw, m, j) /\ b = StartOf(raw, m, k) /\ n = Len(raw[j])
    OBVIOUS
  <2>5. a \in Nat /\ b \in Nat /\ n \in Nat /\ m \in Nat \ {0} /\ a + n + m <= b
    BY <1>1, <1>5, <2>1, <2>2, <2>3, <2>4
  <2>6. a # b
    BY ONLY <2>5
  <2> QED BY <2>4, <2>6
<1>9. ASSUME NEW p \in S, NEW q \in S, p.pos = q.pos
      PROVE  p = q
  <2>1. PICK j \in 1..Len(raw) : p = Line(j)
    BY <1>6
  <2>2. PICK k \in 1..Len(raw) : q = Line(k)
    BY <1>6
  <2>3. p.pos = StartOf(raw, m, j) /\ q.pos = StartOf(raw, m, k)
    BY <2>1, <2>2
  <2>4. j = k \/ j < k \/ k < j
    BY <1>1
  <2> QED BY <1>8, <1>9, <2>1, <2>2, <2>3, <2>4
<1> QED BY <1>3, <1>4, <1>7, <1>9

(* The search finds each of them where it stands.                          *)
LEMMA ValidIs ==
    ASSUME NEW X, NEW t \in Seq(X), NEW m, NEW raw, Divided(X, t, m, raw), raw = RawParagraphs(t),
           NEW start \in Nat
    PROVE  Valid(t, start) = Lines(raw, m, start)
<1> DEFINE Line(k) == [pos |-> StartOf(raw, m, k), text |-> raw[k]]
           Good(k) == ~Blank(raw[k]) /\ StartOf(raw, m, k) >= start
<1>1. PICK placed : placed = Placed(t)
  OBVIOUS
<1>2. /\ placed \in Seq(Located(X)) /\ Len(placed) = Len(raw)
      /\ \A k \in 1..Len(raw) : WellPlaced(t, m, raw, k, placed[k])
  BY <1>1, PlacedIs DEF PlacedInv
<1>3. \A q : q \in ToSet(placed) <=> \E k \in 1..Len(raw) : q = placed[k]
  <2>1. DOMAIN placed = 1..Len(raw)
    BY <1>2
  <2> QED BY <2>1 DEF ToSet
<1>4. ASSUME NEW k \in 1..Len(raw)
      PROVE  /\ ~Blank(placed[k].text) /\ placed[k].pos >= start <=> Good(k)
             /\ Good(k) => placed[k] = Line(k)
  <2>1. placed[k].text = raw[k] /\ (~Blank(raw[k]) => placed[k].pos = StartOf(raw, m, k))
    BY <1>2 DEF WellPlaced
  <2>2. placed[k] \in Located(X)
    BY <1>2
  <2>3. placed[k] = [pos |-> placed[k].pos, text |-> placed[k].text]
    BY <2>2 DEF Located
  <2> QED BY <2>1, <2>3
<1>5. Valid(t, start) = {p \in ToSet(placed) : ~Blank(p.text) /\ p.pos >= start}
  BY <1>1 DEF Valid
<1>6. \A x : x \in Lines(raw, m, start) <=> \E k \in 1..Len(raw) : Good(k) /\ x = Line(k)
  BY DEF Lines
<1> HIDE DEF Line, Good
<1>7. \A x : x \in Valid(t, start) <=> \E k \in 1..Len(raw) : Good(k) /\ x = Line(k)
  BY <1>3, <1>4, <1>5
<1> QED BY <1>6, <1>7

Candidates(t, rhvQuery, start) ==
    {Rated(Valid(t, start), rhvQuery, p) :
        p \in {q \in Valid(t, start) : Base(Valid(t, start), q.text) > 0}}

(* What is scored: all of them or none.                                    *)
LEMMA CandidatesAre ==
    ASSUME NEW X, NEW t \in Seq(X), NEW m, NEW raw, Divided(X, t, m, raw), raw = RawParagraphs(t),
           NEW rhvQuery, NEW start \in Nat, NEW C, C = Lines(raw, m, start)
    PROVE  Candidates(t, rhvQuery, start)
              = {Rated(C, rhvQuery, p) : p \in {q \in C : Mentioned(C)}}
<1>1. Valid(t, start) = C
  BY ValidIs
<1>2. \A p \in C : Base(C, p.text) > 0 <=> Mentioned(C)
  <2>1. IsFiniteSet(C) /\ \A p \in C : p.text \in Seq(X) /\ ~Blank(p.text)
    BY LinesApart
  <2> QED BY <2>1, BaseIs
<1> QED BY <1>1, <1>2 DEF Candidates

(* Paragraphs of a text, no two at the same place.                         *)
Spread(X, t, S) ==
    /\ S \subseteq Para(X) /\ IsFiniteSet(S)
    /\ \A p \in S : /\ p.text # <<>> /\ p.pos + Len(p.text) <= Len(t)
                    /\ Part(p.text, t, p.pos, Len(p.text))
    /\ \A p, q \in S : p.pos = q.pos => p = q

(* The score takes nothing away from that.                                 *)
LEMMA CandidatesSpread ==
    ASSUME NEW X, NEW t \in Seq(X), NEW m, NEW raw, Divided(X, t, m, raw), raw = RawParagraphs(t),
           NEW rhvQuery, NEW start \in Nat
    PROVE  /\ Spread(X, t, Candidates(t, rhvQuery, start))
           /\ \A p \in Candidates(t, rhvQuery, start) : p.pos >= start
<1>1. PICK C, S : C = Lines(raw, m, start) /\ S = Candidates(t, rhvQuery, start)
  OBVIOUS
<1>2. /\ IsFiniteSet(C)
      /\ \A p \in C :
            /\ p.pos \in Nat /\ p.pos >= start /\ p.text \in Seq(X)
            /\ p.text # <<>> /\ ~Blank(p.text) /\ p.pos + Len(p.text) <= Len(t)
            /\ Part(p.text, t, p.pos, Len(p.text))
      /\ \A p, q \in C : p.pos = q.pos => p = q
  BY <1>1, LinesApart
<1>3. S = {Rated(C, rhvQuery, p) : p \in {q \in C : Mentioned(C)}}
  BY <1>1, CandidatesAre
<1>4. \A p \in S : \E q \in C : p = Rated(C, rhvQuery, q)
  BY <1>3
<1>5. IsFiniteSet(S)
  <2>1. PICK D : D = {q \in C : Mentioned(C)}
    OBVIOUS
  <2>2. IsFiniteSet(D)
    BY <1>2, <2>1, FS_Subset
  <2>3. PICK f : f = [q \in D |-> Rated(C, rhvQuery, q)]
    OBVIOUS
  <2>4. f \in Surjection(D, S)
    <3>1. S = {Rated(C, rhvQuery, p) : p \in D}
      BY <1>3, <2>1
    <3>2. f \in [D -> S] /\ \A x \in S : \E q \in D : f[q] = x
      BY <2>3, <3>1
    <3> QED BY <3>2 DEF Surjection
  <2> QED BY <2>2, <2>4, FS_Surjection
<1>6. ASSUME NEW q \in C, NEW p, p = Rated(C, rhvQuery, q)
      PROVE  p \in Para(X) /\ p.pos = q.pos /\ p.text = q.text
  <2>1. PICK base, mult : base = Base(C, q.text) /\ mult = Multiplier(q.text, rhvQuery)
    OBVIOUS
  <2>2. base \in Nat
    BY <1>2, <2>1, BaseIs
  <2>3. mult \in {1, 2, 20, 40}
    BY <2>1, MultiplierIs
  <2>4. PICK score : score = base * mult
    OBVIOUS
  <2>5. score \in Nat
    <3>1. base * 1 \in Nat /\ base * 2 \in Nat /\ base * 20 \in Nat /\ base * 40 \in Nat
      BY <2>2
    <3> QED BY <2>3, <2>4, <3>1
  <2>6. p = [score |-> score, pos |-> q.pos, text |-> q.text]
    BY <1>6, <2>1, <2>4 DEF Rated
  <2> QED BY <1>2, <2>5, <2>6 DEF Para
<1>7. ASSUME NEW p \in S
      PROVE  /\ p \in Para(X) /\ p.pos >= start
             /\ p.text # <<>> /\ p.pos + Len(p.text) <= Len(t)
             /\ Part(p.text, t, p.pos, Len(p.text))
  <2>1. PICK q \in C : p = Rated(C, rhvQuery, q)
    BY <1>4
  <2> QED BY <1>2, <1>6, <2>1
<1>8. ASSUME NEW p \in S, NEW q \in S, p.pos = q.pos
      PROVE  p = q
  <2>1. PICK u \in C : p = Rated(C, rhvQuery, u)
    BY <1>4
  <2>2. PICK v \in C : q = Rated(C, rhvQuery, v)
    BY <1>4
  <2>3. p.pos = u.pos /\ q.pos = v.pos
    BY <1>6, <2>1, <2>2
  <2>4. u = v
    BY <1>2, <1>8, <2>3
  <2> QED BY <2>1, <2>2, <2>4
<1>9. Spread(X, t, S) /\ \A p \in S : p.pos >= start
  BY <1>5, <1>7, <1>8 DEF Spread
<1> QED BY <1>1, <1>9

BetterIn(S) == {pq \in S \X S : Better(pq[1], pq[2])}

EarlierIn(S) == {pq \in S \X S : Earlier(pq[1], pq[2])}

(* Ranking puts the better before the worse.                               *)
LEMMA BetterSorts ==
    ASSUME NEW X, NEW t, NEW S, Spread(X, t, S)
    PROVE  Sorts(Ranked(S, Better), S, BetterIn(S))
<1> DEFINE some(n) == CHOOSE x \in S : Cardinality({y \in S : Better(y, x)}) = n - 1
           other(n) == CHOOSE x \in S : Cardinality(Before(S, BetterIn(S), x)) = n - 1
           ranked == Ranked(S, Better)
<1>1. \A p, q \in S : <<p, q>> \in BetterIn(S) <=> Better(p, q)
  BY DEF BetterIn
<1>2. \A p \in S : p.score \in Nat /\ p.pos \in Nat
  BY DEF Spread, Para
<1>3. \A p, q \in S : p # q => p.pos # q.pos
  BY DEF Spread
<1>4. \A p \in S : ~Better(p, p)
  BY <1>2 DEF Better
<1>5. \A p, q \in S : p # q => Better(p, q) \/ Better(q, p)
  BY <1>2, <1>3 DEF Better
<1>6. \A p, q, r \in S : Better(p, q) /\ Better(q, r) => Better(p, r)
  BY <1>2 DEF Better
<1>7. StrictOrder(S, BetterIn(S))
  <2> HIDE DEF BetterIn
  <2> QED BY <1>1, <1>4, <1>5, <1>6 DEF StrictOrder
<1>8. \A x \in S : {y \in S : Better(y, x)} = Before(S, BetterIn(S), x)
  BY DEF Before, BetterIn
<1>9. \A n \in 1..Cardinality(S) : some(n) = other(n)
  BY <1>8
<1>10. ranked = [n \in 1..Cardinality(S) |-> some(n)]
  BY DEF Ranked
<1>11. RankedBy(S, BetterIn(S)) = [n \in 1..Cardinality(S) |-> other(n)]
  BY DEF RankedBy
<1>12. ranked = RankedBy(S, BetterIn(S))
  <2> HIDE DEF some, other, ranked
  <2> QED BY <1>9, <1>10, <1>11
<1>13. IsFiniteSet(S)
  BY DEF Spread
<1> QED BY <1>7, <1>12, <1>13, RankedSorts

(* And sorting puts the earlier before the later.                          *)
LEMMA EarlierSorts ==
    ASSUME NEW X, NEW t, NEW S, Spread(X, t, S)
    PROVE  Sorts(Ranked(S, Earlier), S, EarlierIn(S))
<1> DEFINE some(n) == CHOOSE x \in S : Cardinality({y \in S : Earlier(y, x)}) = n - 1
           other(n) == CHOOSE x \in S : Cardinality(Before(S, EarlierIn(S), x)) = n - 1
           ranked == Ranked(S, Earlier)
<1>1. \A p, q \in S : <<p, q>> \in EarlierIn(S) <=> p.pos < q.pos
  BY DEF EarlierIn, Earlier
<1>2. \A p \in S : p.pos \in Nat
  BY DEF Spread, Para
<1>3. \A p, q \in S : p # q => p.pos # q.pos
  BY DEF Spread
<1>4. StrictOrder(S, EarlierIn(S))
  <2> HIDE DEF EarlierIn
  <2> QED BY <1>1, <1>2, <1>3 DEF StrictOrder
<1>5. \A x \in S : {y \in S : Earlier(y, x)} = Before(S, EarlierIn(S), x)
  BY DEF Before, EarlierIn
<1>6. \A n \in 1..Cardinality(S) : some(n) = other(n)
  BY <1>5
<1>7. ranked = [n \in 1..Cardinality(S) |-> some(n)]
  BY DEF Ranked
<1>8. RankedBy(S, EarlierIn(S)) = [n \in 1..Cardinality(S) |-> other(n)]
  BY DEF RankedBy
<1>9. ranked = RankedBy(S, EarlierIn(S))
  <2> HIDE DEF some, other, ranked
  <2> QED BY <1>6, <1>7, <1>8
<1>10. IsFiniteSet(S)
  BY DEF Spread
<1> QED BY <1>4, <1>9, <1>10, RankedSorts

-----------------------------------------------------------------------------

(* The greedy choice: what is passed over is near a better one, or the     *)
(* limit is used up by better ones.                                        *)
Best(S, s) ==
    /\ s \in Seq(S)
    /\ \A i, j \in 1..Len(s) : i < j => Better(s[i], s[j])

Covered(p, chosen) ==
    \/ \E k \in 1..Len(chosen) : chosen[k] = p
    \/ \E k \in 1..Len(chosen) : Better(chosen[k], p) /\ Near(chosen[k], p)
    \/ Len(chosen) = MaxSections /\ \A k \in 1..Len(chosen) : Better(chosen[k], p)

ChosenInv(S, s, n, chosen) ==
    /\ chosen \in Seq(S) /\ Len(chosen) <= MaxSections
    /\ \A i, j \in 1..Len(chosen) : i # j => ~Near(chosen[i], chosen[j])
    /\ \A i \in 1..Len(chosen) : \E j \in 1..n : chosen[i] = s[j]
    /\ \A i \in 1..n : Covered(s[i], chosen)

ChoosingOf(s) ==
    CHOOSE f : f = [n \in 0..Len(s) |-> IF n = 0 THEN <<>> ELSE Choose(f[n - 1], s[n])]

(* Near each other, or a gap apart.                                        *)
LEMMA NearIs ==
    ASSUME NEW X, NEW p \in Para(X), NEW q \in Para(X)
    PROVE  /\ Near(p, q) <=> Near(q, p)
           /\ Near(p, p)
           /\ p.pos < q.pos /\ ~Near(p, q) => p.pos + MinGap <= q.pos
<1>1. p.pos \in Nat /\ q.pos \in Nat /\ MinGap \in Nat \ {0}
  BY PassagesAssumption DEF Para
<1> QED BY <1>1 DEF Near

(* One more passage considered keeps the invariant of the choice.          *)
LEMMA ChooseStep ==
    ASSUME NEW X, NEW S, S \subseteq Para(X), NEW s, Best(S, s), NEW n \in 1..Len(s),
           NEW chosen, ChosenInv(S, s, n - 1, chosen)
    PROVE  ChosenInv(S, s, n, Choose(chosen, s[n]))
<1>1. PICK p : p = s[n]
  OBVIOUS
<1>2. /\ s \in Seq(S) /\ Len(s) \in Nat /\ n \in Nat \ {0} /\ n <= Len(s) /\ p \in S
      /\ \A j \in 1..n - 1 : s[j] \in S /\ Better(s[j], p)
  BY <1>1 DEF Best
<1>3. /\ chosen \in Seq(S) /\ Len(chosen) \in Nat /\ Len(chosen) <= MaxSections
      /\ \A i, j \in 1..Len(chosen) : i # j => ~Near(chosen[i], chosen[j])
      /\ \A i \in 1..Len(chosen) : \E j \in 1..n - 1 : chosen[i] = s[j]
      /\ \A i \in 1..n - 1 : Covered(s[i], chosen)
  BY DEF ChosenInv
<1>4. MaxSections \in Nat
  BY PassagesAssumption
<1>5. \A i \in 1..Len(chosen) : chosen[i] \in S /\ Better(chosen[i], p)
  BY <1>2, <1>3
<1>6. \A q \in S : Near(p, q) <=> Near(q, p)
  BY <1>2, NearIs
<1>7. \A j : j \in 1..n - 1 => j \in 1..n
  BY <1>2
<1>8. \A i \in 1..n : i \in 1..n - 1 \/ i = n
  BY <1>2
<1>9. ToSet(chosen) = {chosen[i] : i \in 1..Len(chosen)}
  BY <1>3 DEF ToSet
<1>10. CASE Len(chosen) >= MaxSections
  <2>1. Choose(chosen, p) = chosen
    BY <1>10 DEF Choose
  <2>2. Len(chosen) = MaxSections
    BY <1>3, <1>4, <1>10
  <2>3. Covered(p, chosen)
    BY <1>5, <2>2 DEF Covered
  <2>4. \A i \in 1..n : Covered(s[i], chosen)
    BY <1>1, <1>3, <1>8, <2>3
  <2>5. \A i \in 1..Len(chosen) : \E j \in 1..n : chosen[i] = s[j]
    BY <1>3, <1>7
  <2> QED BY <1>1, <1>3, <2>1, <2>4, <2>5 DEF ChosenInv
<1>11. CASE \E q \in ToSet(chosen) : Near(p, q)
  <2>1. Choose(chosen, p) = chosen
    BY <1>11 DEF Choose
  <2>2. PICK k \in 1..Len(chosen) : Near(p, chosen[k])
    BY <1>9, <1>11
  <2>3. Covered(p, chosen)
    BY <1>5, <1>6, <2>2 DEF Covered
  <2>4. \A i \in 1..n : Covered(s[i], chosen)
    BY <1>1, <1>3, <1>8, <2>3
  <2>5. \A i \in 1..Len(chosen) : \E j \in 1..n : chosen[i] = s[j]
    BY <1>3, <1>7
  <2> QED BY <1>1, <1>3, <2>1, <2>4, <2>5 DEF ChosenInv
<1>12. CASE ~(Len(chosen) >= MaxSections) /\ ~\E q \in ToSet(chosen) : Near(p, q)
  <2>1. Choose(chosen, p) = Append(chosen, p)
    BY <1>12 DEF Choose
  <2>2. PICK next : next = Append(chosen, p)
    OBVIOUS
  <2>3. /\ next \in Seq(S) /\ Len(next) = Len(chosen) + 1
        /\ next[Len(chosen) + 1] = p /\ \A i \in 1..Len(chosen) : next[i] = chosen[i]
    BY <1>2, <1>3, <2>2, AppendProperties
  <2>4. Len(next) <= MaxSections
    BY <1>3, <1>4, <1>12, <2>3
  <2>5. /\ \A i \in 1..Len(next) : i \in 1..Len(chosen) \/ i = Len(chosen) + 1
        /\ \A i \in 1..Len(chosen) : i \in 1..Len(next)
        /\ Len(chosen) + 1 \in 1..Len(next)
    BY <1>3, <2>3
  <2>6. \A i \in 1..Len(chosen) : ~Near(p, chosen[i]) /\ ~Near(chosen[i], p)
    BY <1>5, <1>6, <1>9, <1>12
  <2>7. \A i, j \in 1..Len(next) : i # j => ~Near(next[i], next[j])
    BY <1>3, <2>3, <2>5, <2>6
  <2>8. \A i \in 1..Len(next) : \E j \in 1..n : next[i] = s[j]
    <3>1. n \in 1..n
      BY <1>2
    <3> QED BY <1>1, <1>3, <1>7, <2>3, <2>5, <3>1
  <2>9. ASSUME NEW i \in 1..n - 1 PROVE Covered(s[i], next)
    <3>1. Covered(s[i], chosen)
      BY <1>3
    <3>2. Len(chosen) # MaxSections
      BY <1>3, <1>4, <1>12
    <3> QED BY <2>3, <2>5, <3>1, <3>2 DEF Covered
  <2>10. Covered(p, next)
    BY <2>3, <2>5 DEF Covered
  <2>11. \A i \in 1..n : Covered(s[i], next)
    BY <1>1, <1>8, <2>9, <2>10
  <2> QED BY <1>1, <2>1, <2>2, <2>3, <2>4, <2>7, <2>8, <2>11 DEF ChosenInv
<1> QED BY <1>10, <1>11, <1>12

(* So what is chosen covers all that was considered.                       *)
LEMMA ChosenIs ==
    ASSUME NEW X, NEW S, S \subseteq Para(X), NEW s, Best(S, s)
    PROVE  ChosenInv(S, s, Len(s), Chosen(s))
<1> DEFINE N == Len(s)
           Q == Seq(S)
           step == [x \in Q \X (1..N) |-> IF Choose(x[1], s[x[2]]) \in Q
                                          THEN Choose(x[1], s[x[2]]) ELSE <<>>]
           Body(f) == [n \in 0..N |-> IF n = 0 THEN <<>> ELSE Choose(f[n - 1], s[n])]
<1>1. N \in Nat
  BY DEF Best
<1>2. <<>> \in Q
  OBVIOUS
<1>3. step \in [Q \X (1..N) -> Q]
  BY <1>2
<1>4. ChosenInv(S, s, 0, <<>>)
  <2>1. <<>> \in Seq(S) /\ Len(<<>>) = 0 /\ 1..0 = {} /\ 0 <= MaxSections
    BY PassagesAssumption
  <2> QED BY <2>1 DEF ChosenInv
<1>5. PICK f \in [0..N -> Q] :
         f[0] = <<>> /\ \A n \in 1..N : f[n] = step[<<f[n - 1], n>>]
  <2> HIDE DEF step, N, Q
  <2>1. PICK base : base = <<>>
    OBVIOUS
  <2>2. base \in Q
    BY <1>2, <2>1
  <2>3. \E h : Recurs(h, Q, base, N, step)
    BY <1>1, <1>3, <2>2, RecursionExists
  <2> QED BY <2>1, <2>3 DEF Recurs
<1>6. \A n \in 1..N : n - 1 \in 0..N /\ n # 0 /\ n \in 0..N
  BY <1>1
<1>7. \A n \in 1..N : ChosenInv(S, s, n - 1, f[n - 1])
                         => ChosenInv(S, s, n, f[n]) /\ f[n] = Choose(f[n - 1], s[n])
  <2> TAKE n \in 1..N
  <2> HAVE ChosenInv(S, s, n - 1, f[n - 1])
  <2>1. PICK next : next = Choose(f[n - 1], s[n])
    OBVIOUS
  <2>2. ChosenInv(S, s, n, next)
    BY <2>1, ChooseStep
  <2>3. next \in Q
    BY <2>2 DEF ChosenInv
  <2>4. f[n - 1] \in Q
    BY <1>6
  <2>5. f[n] = next
    BY <1>5, <2>1, <2>3, <2>4
  <2> QED BY <2>1, <2>2, <2>5
<1>8. \A n \in 0..N : ChosenInv(S, s, n, f[n])
  <2> DEFINE G == {n \in 0..N : ChosenInv(S, s, n, f[n])}
  <2>1. 0 \in G
    BY <1>1, <1>4, <1>5
  <2>2. \A n \in 1..N : n - 1 \in G => n \in G
    BY <1>6, <1>7
  <2> HIDE DEF G, N
  <2>3. \A n \in 0..N : n \in G
    BY <1>1, <2>1, <2>2, CountingUp
  <2> QED BY <2>3 DEF G
<1>9. \A n \in 1..N : f[n] = Choose(f[n - 1], s[n])
  BY <1>6, <1>7, <1>8
<1>10. \A n \in 0..N : n # 0 => n \in 1..N
  BY <1>1
<1>11. f = Body(f)
  BY <1>5, <1>9, <1>10
<1> DEFINE g == ChoosingOf(s)
<1>12. g = Body(g)
  <2>1. \E h : h = Body(h)
    BY <1>11
  <2> QED BY <2>1 DEF ChoosingOf
<1>13. \A n \in 0..N : ChosenInv(S, s, n, g[n])
  <2> DEFINE G == {n \in 0..N : ChosenInv(S, s, n, g[n])}
  <2>1. g[0] = <<>> /\ \A n \in 1..N : g[n] = Choose(g[n - 1], s[n])
    BY <1>1, <1>6, <1>12
  <2> HIDE DEF g
  <2>2. 0 \in G
    BY <1>1, <1>4, <2>1
  <2>3. \A n \in 1..N : n - 1 \in G => n \in G
    <3> TAKE n \in 1..N
    <3> HAVE n - 1 \in G
    <3>1. ChosenInv(S, s, n - 1, g[n - 1])
      OBVIOUS
    <3>2. PICK chosen : chosen = g[n - 1]
      OBVIOUS
    <3>3. ChosenInv(S, s, n, Choose(chosen, s[n]))
      BY <3>1, <3>2, ChooseStep
    <3> QED BY <1>6, <2>1, <3>2, <3>3
  <2> HIDE DEF G, N
  <2>4. \A n \in 0..N : n \in G
    BY <1>1, <2>2, <2>3, CountingUp
  <2> QED BY <2>4 DEF G
<1>14. Chosen(s) = ChoosingOf(s)[Len(s)]
  BY DEF Chosen, ChoosingOf
<1> QED BY <1>1, <1>13, <1>14

(* What is selected, in the order of the text.                             *)
Selection(S, selected) ==
    /\ selected \in Seq(S) /\ Len(selected) <= MaxSections
    /\ \A i, j \in 1..Len(selected) : i < j => selected[i].pos + MinGap <= selected[j].pos
    /\ \A p \in S : Covered(p, selected)

(* What is selected is what was chosen, in the order of the text.          *)
LEMMA SelectionIs ==
    ASSUME NEW X, NEW t, NEW S, Spread(X, t, S)
    PROVE  Selection(S, SelectNonoverlapping(Ranked(S, Better)))
<1>1. PICK s : s = Ranked(S, Better)
  OBVIOUS
<1>2. PICK chosen, C : chosen = Chosen(s) /\ C = ToSet(chosen)
  OBVIOUS
<1>3. PICK selected : selected = Ranked(C, Earlier)
  OBVIOUS
<1>4. SelectNonoverlapping(Ranked(S, Better)) = selected
  BY <1>1, <1>2, <1>3 DEF SelectNonoverlapping
<1>5. S \subseteq Para(X) /\ IsFiniteSet(S)
  BY DEF Spread
<1>6. /\ s \in Seq(S) /\ Len(s) = Cardinality(S) /\ \A p \in S : \E n \in 1..Len(s) : s[n] = p
      /\ Best(S, s)
  <2>1. Sorts(s, S, BetterIn(S))
    BY <1>1, BetterSorts
  <2>2. PICK N : N = Cardinality(S)
    OBVIOUS
  <2>3. N \in Nat
    BY <1>5, <2>2, FS_CardinalityType
  <2>4. /\ s \in [1..N -> S] /\ \A p \in S : \E n \in 1..N : s[n] = p
        /\ \A i, j \in 1..N : i < j => <<s[i], s[j]>> \in BetterIn(S)
    BY <2>1, <2>2 DEF Sorts
  <2>5. s \in Seq(S) /\ Len(s) = N
    BY <2>3, <2>4
  <2> QED BY <2>2, <2>4, <2>5 DEF Best, BetterIn
<1>7. ChosenInv(S, s, Len(s), chosen)
  BY <1>2, <1>5, <1>6, ChosenIs
<1>8. PICK M : M = Len(chosen)
  OBVIOUS
<1>9. /\ chosen \in Seq(S) /\ M \in Nat /\ M <= MaxSections
      /\ \A i, j \in 1..M : i # j => ~Near(chosen[i], chosen[j])
      /\ \A p \in S : Covered(p, chosen)
  BY <1>6, <1>7, <1>8 DEF ChosenInv
<1>10. C = {chosen[i] : i \in 1..M} /\ C \subseteq S
  BY <1>2, <1>8, <1>9 DEF ToSet
<1>11. IsFiniteSet(C) /\ Cardinality(C) = M
  <2>1. IsFiniteSet(1..M) /\ Cardinality(1..M) = M
    BY <1>9, FS_Interval
  <2>2. chosen \in [1..M -> C] /\ \A c \in C : \E i \in 1..M : chosen[i] = c
    BY <1>8, <1>9, <1>10
  <2>3. ASSUME NEW i \in 1..M, NEW j \in 1..M, i # j PROVE chosen[i] # chosen[j]
    <3>1. ~Near(chosen[i], chosen[j])
      BY <1>9, <2>3
    <3>2. chosen[i] \in Para(X)
      BY <1>5, <1>10
    <3>3. Near(chosen[i], chosen[i])
      BY <3>2, NearIs
    <3> QED BY <3>1, <3>3
  <2>4. chosen \in Bijection(1..M, C)
    BY <2>2, <2>3 DEF Bijection, Injection, Surjection, IsInjective
  <2> QED BY <2>1, <2>4, FS_Bijection DEF ExistsBijection
<1>12. Spread(X, t, C)
  BY <1>10, <1>11 DEF Spread
<1>13. /\ selected \in [1..M -> C] /\ \A c \in C : \E n \in 1..M : selected[n] = c
       /\ \A i, j \in 1..M : i < j => selected[i].pos < selected[j].pos
  <2>1. Sorts(selected, C, EarlierIn(C))
    BY <1>3, <1>12, EarlierSorts
  <2> QED BY <1>11, <2>1 DEF Sorts, EarlierIn, Earlier
<1>14. selected \in Seq(S) /\ Len(selected) = M
  BY <1>9, <1>10, <1>13
<1>15. ASSUME NEW i \in 1..M, NEW j \in 1..M, i < j
       PROVE  selected[i].pos + MinGap <= selected[j].pos
  <2>1. PICK a \in 1..M : selected[i] = chosen[a]
    BY <1>10, <1>13
  <2>2. PICK b \in 1..M : selected[j] = chosen[b]
    BY <1>10, <1>13
  <2>3. selected[i].pos < selected[j].pos
    BY <1>13, <1>15
  <2>4. selected[i] \in Para(X) /\ selected[j] \in Para(X)
    BY <1>5, <1>10, <1>13
  <2>5. a # b
    <3>1. selected[i].pos # selected[j].pos
      BY <2>3, <2>4 DEF Para
    <3> QED BY <2>1, <2>2, <3>1
  <2>6. ~Near(selected[i], selected[j])
    BY <1>9, <2>1, <2>2, <2>5
  <2> QED BY <2>3, <2>4, <2>6, NearIs
<1>16. ASSUME NEW p \in S PROVE Covered(p, selected)
  <2>1. Covered(p, chosen)
    BY <1>9
  <2>2. \A a \in 1..M : \E b \in 1..M : selected[b] = chosen[a]
    BY <1>10, <1>13
  <2>3. \A b \in 1..M : \E a \in 1..M : selected[b] = chosen[a]
    BY <1>10, <1>13
  <2> QED BY <1>8, <1>14, <2>1, <2>2, <2>3 DEF Covered
<1>17. Selection(S, selected)
  BY <1>9, <1>14, <1>15, <1>16 DEF Selection
<1> QED BY <1>4, <1>17

(* The excerpts of what is selected.                                       *)
Shows(t, start, shown, selected) ==
    /\ \A excerpt \in ToSet(shown) :
          excerpt.text # <<>> /\ find(t, excerpt.text, start) >= 0
    /\ ToSet(selected) # {} =>
          \A i \in DOMAIN shown : IsPrefix(shown[i].text, selected[i].text)

(* The opening of a passage is found in the text.                          *)
LEMMA OpeningFound ==
    ASSUME NEW X, NEW t \in Seq(X), NEW start \in Nat, NEW from \in Nat, from >= start,
           NEW piece \in Seq(X), piece # <<>>, StandsAt(t, piece, from),
           NEW r, r = Slice(piece, 0, PerSection)
    PROVE  r # <<>> /\ r \in Seq(X) /\ find(t, r, start) >= 0 /\ IsPrefix(r, piece)
<1>1. PICK n, P : n = Len(piece) /\ P = PerSection
  OBVIOUS
<1>2. n \in Nat \ {0} /\ P \in Nat \ {0}
  BY <1>1, PassagesAssumption
<1>3. PICK k \in 1..n : r = Slice(piece, 0, k)
  <2>1. CASE P <= n
    <3>1. P \in 1..n
      BY <1>2, <2>1
    <3> QED BY <1>1, <3>1
  <2>2. CASE ~(P <= n)
    <3>1. P \in Nat /\ n <= P /\ 0 \in Nat /\ n \in 1..n
      BY <1>2, <2>2
    <3>2. Slice(piece, 0, P) = Slice(piece, 0, n)
      BY <1>1, <3>1, SliceBeyond
    <3> QED BY <1>1, <3>1, <3>2
  <2> QED BY <2>1, <2>2
<1>4. r \in Seq(X) /\ Part(r, piece, 0, k - 0)
  <2>1. 0 \in Nat /\ k \in Nat /\ 0 <= k /\ k <= Len(piece)
    BY <1>1, <1>2
  <2> QED BY <1>3, <2>1, SliceIs
<1>5. Len(r) = k /\ \A i \in 1..k : r[i] = piece[i]
  BY <1>2, <1>4 DEF Part
<1>6. StandsAt(t, r, from)
  <2>1. from + Len(piece) <= Len(t) /\ \A i \in 1..Len(piece) : piece[i] = t[from + i]
    BY DEF StandsAt
  <2>2. Len(t) \in Nat /\ \A i \in 1..k : i \in 1..Len(piece)
    BY <1>1, <1>2
  <2>3. from + k <= Len(t)
    BY <1>1, <1>2, <2>1, <2>2
  <2> QED BY <1>5, <2>1, <2>2, <2>3 DEF StandsAt
<1>7. from \in Occurrences(t, r, start)
  BY <1>4, <1>6, OccurrenceIs
<1>8. find(t, r, start) \in Nat
  BY <1>4, <1>7, FindIs
<1>9. IsPrefix(r, piece)
  <2>1. SubSeq(r, 1, k) = [i \in 1..k |-> r[i]]
    <3>1. k \in 0..Len(r)
      BY <1>5
    <3> QED BY <1>4, <3>1, FirstOnes
  <2>2. SubSeq(piece, 1, k) = [i \in 1..k |-> piece[i]]
    <3>1. k \in 0..Len(piece)
      BY <1>1
    <3> QED BY <3>1, FirstOnes
  <2>3. SubSeq(r, 1, k) = SubSeq(piece, 1, k)
    BY <1>5, <2>1, <2>2
  <2> QED BY <1>1, <1>2, <1>5, <2>3 DEF IsPrefix
<1>10. r # <<>>
  BY <1>4, <1>5
<1> QED BY <1>4, <1>8, <1>9, <1>10

(* Each excerpt is the opening of the passage selected for it.             *)
LEMMA ExcerptsShow ==
    ASSUME NEW X, NEW t \in Seq(X), NEW S, Spread(X, t, S), NEW start \in 0..Len(t) - 1,
           \A p \in S : p.pos >= start, NEW selected \in Seq(S), NEW shown,
           shown = IF selected = <<>>
                   THEN <<[text |-> Slice(t, start, start + PerSection),
                           before |-> FALSE, after |-> FALSE]>>
                   ELSE [i \in DOMAIN selected |-> Excerpt(selected[i], start)]
    PROVE  Shows(t, start, shown, selected)
<1>1. CASE selected = <<>>
  <2>1. PICK r : r = Slice(t, start, start + PerSection)
    OBVIOUS
  <2>2. PICK excerpt : excerpt = [text |-> r, before |-> FALSE, after |-> FALSE]
    OBVIOUS
  <2>3. shown = <<excerpt>> /\ excerpt.text = r
    BY <1>1, <2>1, <2>2
  <2>4. \A e \in ToSet(shown) : e = excerpt
    <3>1. DOMAIN shown = {1} /\ shown[1] = excerpt
      BY <2>3
    <3> QED BY <3>1 DEF ToSet
  <2>5. ToSet(selected) = {}
    BY <1>1 DEF ToSet
  <2>6. PICK L, P : L = Len(t) /\ P = PerSection
    OBVIOUS
  <2>7. L \in Nat /\ P \in Nat \ {0} /\ start \in Nat /\ start < L
    BY <2>6, PassagesAssumption
  <2>8. PICK to \in start + 1..L : r = Slice(t, start, to)
    <3>1. CASE start + P <= L
      <4>1. start + P \in start + 1..L
        BY <2>7, <3>1
      <4> QED BY <2>1, <2>6, <4>1
    <3>2. CASE ~(start + P <= L)
      <4>1. start + P \in Nat /\ L <= start + P /\ L \in start + 1..L
        BY <2>7, <3>2
      <4>2. Slice(t, start, start + P) = Slice(t, start, L)
        BY <2>6, <2>7, <4>1, SliceBeyond
      <4> QED BY <2>1, <2>6, <4>1, <4>2
    <3> QED BY <3>1, <3>2
  <2>9. r \in Seq(X) /\ Part(r, t, start, to - start)
    <3>1. to \in Nat /\ start <= to /\ to <= Len(t)
      BY <2>6, <2>7
    <3> QED BY <2>7, <2>8, <3>1, SliceIs
  <2>10. Len(r) = to - start /\ \A i \in 1..to - start : r[i] = t[start + i]
    BY <2>9 DEF Part
  <2>11. StandsAt(t, r, start) /\ start >= start
    BY <2>6, <2>7, <2>10 DEF StandsAt
  <2>12. find(t, r, start) \in Nat
    <3>1. start \in Occurrences(t, r, start)
      BY <2>7, <2>9, <2>11, OccurrenceIs
    <3> QED BY <2>7, <2>9, <3>1, FindIs
  <2>13. r # <<>>
    BY <2>7, <2>10
  <2>14. \A e \in ToSet(shown) : e.text # <<>> /\ find(t, e.text, start) >= 0
    <3>1. find(t, r, start) >= 0
      BY <2>12
    <3> QED BY <2>3, <2>4, <2>13, <3>1
  <2> QED BY <2>5, <2>14, Zenon DEF Shows
<1>2. CASE selected # <<>>
  <2>1. shown = [i \in 1..Len(selected) |-> Excerpt(selected[i], start)]
    BY <1>2
  <2>2. ASSUME NEW i \in 1..Len(selected)
        PROVE  /\ shown[i].text # <<>> /\ find(t, shown[i].text, start) >= 0
               /\ IsPrefix(shown[i].text, selected[i].text)
    <3>1. PICK p : p = selected[i]
      OBVIOUS
    <3>2. p \in S
      BY <3>1
    <3>3. /\ p \in Para(X) /\ p.text # <<>> /\ p.pos + Len(p.text) <= Len(t)
          /\ Part(p.text, t, p.pos, Len(p.text)) /\ p.pos >= start
      BY <3>2 DEF Spread
    <3>4. p.text \in Seq(X) /\ p.pos \in Nat
      BY <3>3 DEF Para
    <3>5. StandsAt(t, p.text, p.pos)
      BY <3>3, <3>4 DEF StandsAt, Part
    <3>6. PICK r : r = Slice(p.text, 0, PerSection)
      OBVIOUS
    <3>7. r # <<>> /\ find(t, r, start) >= 0 /\ IsPrefix(r, p.text)
      <4>1. start \in Nat
        OBVIOUS
      <4> QED BY <3>3, <3>4, <3>5, <3>6, <4>1, OpeningFound
    <3>8. shown[i].text = r
      BY <2>1, <3>1, <3>6 DEF Excerpt
    <3> QED BY <3>1, <3>7, <3>8
  <2>3. DOMAIN shown = 1..Len(selected)
    BY <2>1
  <2>4. \A e \in ToSet(shown) : \E i \in 1..Len(selected) : e = shown[i]
    BY <2>3 DEF ToSet
  <2>5. \A e \in ToSet(shown) : e.text # <<>> /\ find(t, e.text, start) >= 0
    <3> TAKE e \in ToSet(shown)
    <3>1. PICK i \in 1..Len(selected) : e = shown[i]
      BY <2>4
    <3>2. shown[i].text # <<>> /\ find(t, shown[i].text, start) >= 0
      BY <2>2
    <3> QED BY <3>1, <3>2, Zenon
  <2>6. \A i \in DOMAIN shown : IsPrefix(shown[i].text, selected[i].text)
    BY <2>2, <2>3
  <2> QED BY <2>5, <2>6, Zenon DEF Shows
<1> QED BY <1>1, <1>2

(* The best is never lost.                                                 *)
LEMMA BestFromTypes == text \in Seq(Letters) => PassagesKeepTheBest
<1> SUFFICES ASSUME text \in Seq(Letters), text # <<>>,
                    NEW rhvQuery \in BOOLEAN, NEW start \in {0, 2} \cap 0..(Len(text) - 1)
             PROVE  LET selected == SelectNonoverlapping(Scored(text, rhvQuery, start))
                        kept == ToSet(selected)
                        scored == Competing(rhvQuery, start)
                        shown == ExtractRelevantSection(text, TRUE, rhvQuery, start)
                    IN  /\ kept \subseteq scored
                        /\ Len(selected) <= MaxSections
                        /\ \A i, j \in DOMAIN selected :
                              i < j => selected[i].pos + MinGap <= selected[j].pos
                        /\ \A p \in scored \ kept :
                              \/ \E s \in kept : Better(s, p) /\ Near(s, p)
                              \/ Len(selected) = MaxSections /\ \A s \in kept : Better(s, p)
                        /\ \A excerpt \in ToSet(shown) :
                              excerpt.text # <<>> /\ find(text, excerpt.text, start) >= 0
                        /\ kept # {} =>
                              \A i \in DOMAIN shown : IsPrefix(shown[i].text, selected[i].text)
  BY Zenon DEF PassagesKeepTheBest
<1>1. PICK t, X, m, raw : /\ t = text /\ X = Letters /\ m = Len(Separator(t))
                          /\ raw = RawParagraphs(t)
  OBVIOUS
<1>2. t \in Seq(X) /\ Divided(X, t, m, raw) /\ start \in Nat /\ start \in 0..Len(t) - 1
  BY <1>1, ParagraphsDivide
<1>3. Len(raw) \in Nat /\ DOMAIN raw = 1..Len(raw)
  BY <1>2 DEF Divided
<1>4. PICK S, scored, selected, shown :
         /\ S = Candidates(t, rhvQuery, start)
         /\ scored = Competing(rhvQuery, start)
         /\ selected = SelectNonoverlapping(Scored(t, rhvQuery, start))
         /\ shown = ExtractRelevantSection(t, TRUE, rhvQuery, start)
  OBVIOUS
<1>5. PICK C : C = Lines(raw, m, start)
  OBVIOUS
<1>6. S = scored
  <2>1. Passages(start) = C
    BY <1>1, <1>3, <1>5 DEF Passages, Lines, StartOf
  <2>2. (\E r \in C : Term \in ToSet(r.text)) <=> Mentioned(C)
    <3>1. \A p \in C : p.text \in Seq(X)
      BY <1>2, <1>5, LinesApart
    <3>2. ASSUME NEW p \in C PROVE Term \in ToSet(p.text) <=> Count(p.text, Term) > 0
      <4>1. Count(p.text, Term) > 0 <=> \E i \in 1..Len(p.text) : p.text[i] = Term
        BY <3>1, CountIs
      <4>2. DOMAIN p.text = 1..Len(p.text)
        BY <3>1
      <4> QED BY <4>1, <4>2, Zenon DEF ToSet
    <3> QED BY <3>2 DEF Mentioned
  <2>3. scored = {Rated(C, rhvQuery, p) : p \in {q \in C : Mentioned(C)}}
    BY <1>4, <2>1, <2>2 DEF Competing, Rated
  <2> QED BY <1>1, <1>2, <1>4, <1>5, <2>3, CandidatesAre
<1>7. Spread(X, t, S) /\ \A p \in S : p.pos >= start
  BY <1>1, <1>2, <1>4, CandidatesSpread
<1>8. Scored(t, rhvQuery, start) = Ranked(S, Better)
  BY <1>4 DEF Scored, Candidates, Rated
<1>9. Selection(S, selected)
  BY <1>4, <1>7, <1>8, SelectionIs
<1>10. /\ selected \in Seq(S) /\ Len(selected) \in Nat /\ DOMAIN selected = 1..Len(selected)
       /\ Len(selected) <= MaxSections
       /\ \A i, j \in 1..Len(selected) : i < j => selected[i].pos + MinGap <= selected[j].pos
       /\ \A p \in S : Covered(p, selected)
  BY <1>9 DEF Selection
<1>11. PICK kept : kept = ToSet(selected)
  OBVIOUS
<1>12. kept = {selected[k] : k \in 1..Len(selected)}
  BY <1>10, <1>11 DEF ToSet
<1>13. kept \subseteq scored
  BY <1>6, <1>10, <1>12
<1>14. \A p \in scored \ kept :
          \/ \E s \in kept : Better(s, p) /\ Near(s, p)
          \/ Len(selected) = MaxSections /\ \A s \in kept : Better(s, p)
  <2> TAKE p \in scored \ kept
  <2>1. Covered(p, selected)
    BY <1>6, <1>10
  <2> QED BY <1>12, <2>1 DEF Covered
<1>15. Shows(t, start, shown, selected)
  <2>1. \A p \in S : p.pos >= start
    BY <1>7
  <2>2. shown = IF selected = <<>>
                THEN <<[text |-> Slice(t, start, start + PerSection),
                        before |-> FALSE, after |-> FALSE]>>
                ELSE [i \in DOMAIN selected |-> Excerpt(selected[i], start)]
    BY <1>4 DEF ExtractRelevantSection
  <2> QED BY <1>2, <1>7, <1>10, <2>1, <2>2, ExcerptsShow
<1>16. /\ \A excerpt \in ToSet(shown) : excerpt.text # <<>> /\ find(t, excerpt.text, start) >= 0
       /\ kept # {} => \A i \in DOMAIN shown : IsPrefix(shown[i].text, selected[i].text)
  BY <1>11, <1>15, Zenon DEF Shows
<1>17. \A i, j \in DOMAIN selected : i < j => selected[i].pos + MinGap <= selected[j].pos
  BY <1>10
<1>18. Len(selected) <= MaxSections
  BY <1>10
<1> QED BY <1>1, <1>4, <1>11, <1>13, <1>14, <1>16, <1>17, <1>18, Zenon

(* Of every document, however it is divided and whatever it mentions, the  *)
(* best passages are extracted: once the query is mentioned, a paragraph   *)
(* left out has a better one near it, or all of the limit is better        *)
(* (_collect_scored_paragraphs, _select_nonoverlapping).                   *)
THEOREM BestCorrect == TextsSpec => []PassagesKeepTheBest
<1>1. InputsInv => PassagesKeepTheBest
  BY BestFromTypes DEF InputsInv
<1> QED BY <1>1, InputsTypes, PTL

-----------------------------------------------------------------------------

(* " ".join(parts), token by token.                                        *)
Link(u, n, token) == u \o (IF n = 1 THEN <<>> ELSE <<Space>>) \o token

Joining(tokens) ==
    CHOOSE f : f = [n \in 0..Len(tokens) |-> IF n = 0 THEN <<>> ELSE Link(f[n - 1], n, tokens[n])]

JoinedBy(X, tokens, g) ==
    /\ g \in [0..Len(tokens) -> Seq(X)] /\ g[0] = <<>>
    /\ \A n \in 1..Len(tokens) : g[n] = Link(g[n - 1], n, tokens[n])

Linked(u, n, token, w) ==
    \E m \in 0..1 :
        /\ m = (IF n = 1 THEN 0 ELSE 1)
        /\ Len(w) = (Len(u) + m) + Len(token)
        /\ \A i \in 1..Len(u) : w[i] = u[i]
        /\ m = 1 => w[Len(u) + 1] = Space
        /\ \A i \in 1..Len(token) : w[(Len(u) + m) + i] = token[i]

(* What is linked is a sequence, with its token at its end.                *)
LEMMA LinkIs ==
    ASSUME NEW X, Space \in X, NEW u \in Seq(X), NEW n \in Nat, NEW token \in Seq(X)
    PROVE  Link(u, n, token) \in Seq(X) /\ Linked(u, n, token, Link(u, n, token))
<1>1. PICK gap, a, v : gap = (IF n = 1 THEN <<>> ELSE <<Space>>) /\ a = Len(u) /\ v = u \o gap
  OBVIOUS
<1>2. PICK m \in 0..1 : m = (IF n = 1 THEN 0 ELSE 1)
  OBVIOUS
<1>3. gap \in Seq(X) /\ Len(gap) = m /\ (m = 1 => gap[1] = Space)
  BY <1>1, <1>2
<1>4. a \in Nat
  BY <1>1
<1>5. /\ v \in Seq(X) /\ Len(v) = a + m
      /\ \A i \in 1..a + m : v[i] = IF i <= a THEN u[i] ELSE gap[i - a]
  <2>1. PICK l : l = Len(gap)
    OBVIOUS
  <2>2. /\ v \in Seq(X) /\ Len(v) = a + l
        /\ \A i \in 1..a + l : v[i] = IF i <= a THEN u[i] ELSE gap[i - a]
    BY <1>1, <1>3, <2>1, ConcatProperties
  <2> QED BY <1>3, <2>1, <2>2
<1>6. \A i \in 1..a : v[i] = u[i]
  <2>1. \A i \in 1..a : i \in 1..a + m /\ i <= a
    BY <1>4
  <2> QED BY <1>5, <2>1
<1>7. m = 1 => v[a + 1] = Space
  <2>1. m = 1 => a + 1 \in 1..a + m /\ ~(a + 1 <= a) /\ (a + 1) - a = 1
    BY <1>4
  <2> QED BY <1>3, <1>5, <2>1
<1>8. PICK b, c, w : b = a + m /\ c = Len(token) /\ w = v \o token
  OBVIOUS
<1>9. b \in Nat /\ c \in Nat
  BY <1>4, <1>8
<1>10. /\ w \in Seq(X) /\ Len(w) = b + c
       /\ \A i \in 1..b + c : w[i] = IF i <= b THEN v[i] ELSE token[i - b]
  <2>1. PICK l : l = Len(v)
    OBVIOUS
  <2>2. /\ w \in Seq(X) /\ Len(w) = l + c
        /\ \A i \in 1..l + c : w[i] = IF i <= l THEN v[i] ELSE token[i - l]
    BY <1>5, <1>8, <2>1, ConcatProperties
  <2> QED BY <1>5, <1>8, <2>1, <2>2
<1>11. \A i \in 1..a : w[i] = u[i]
  <2>1. \A i \in 1..a : i \in 1..b + c /\ i <= b
    BY <1>4, <1>8, <1>9
  <2> QED BY <1>6, <1>10, <2>1
<1>12. m = 1 => w[a + 1] = Space
  <2>1. m = 1 => a + 1 \in 1..b + c /\ a + 1 <= b
    BY <1>4, <1>8, <1>9
  <2> QED BY <1>7, <1>10, <2>1
<1>13. \A i \in 1..c : w[b + i] = token[i]
  <2>1. \A i \in 1..c : b + i \in 1..b + c /\ ~(b + i <= b) /\ (b + i) - b = i
    BY <1>9
  <2> QED BY <1>10, <2>1
<1>14. Link(u, n, token) = w
  BY <1>1, <1>8 DEF Link
<1>15. /\ w \in Seq(X) /\ Len(w) = (a + m) + c
       /\ \A i \in 1..a : w[i] = u[i]
       /\ m = 1 => w[a + 1] = Space
       /\ \A i \in 1..c : w[(a + m) + i] = token[i]
  BY <1>8, <1>10, <1>11, <1>12, <1>13
<1>16. a = Len(u) /\ c = Len(token)
  BY <1>1, <1>8
<1>17. Linked(u, n, token, w)
  BY <1>2, <1>15, <1>16 DEF Linked
<1> QED BY <1>14, <1>15, <1>17

(* Join is that loop.                                                      *)
LEMMA JoiningIs ==
    ASSUME NEW X, Space \in X, NEW tokens \in Seq(Seq(X))
    PROVE  JoinedBy(X, tokens, Joining(tokens)) /\ Join(tokens) = Joining(tokens)[Len(tokens)]
<1> DEFINE N == Len(tokens)
           Q == Seq(X)
           step == [x \in Q \X (1..N) |-> Link(x[1], x[2], tokens[x[2]])]
           Body(f) == [n \in 0..N |-> IF n = 0 THEN <<>> ELSE Link(f[n - 1], n, tokens[n])]
<1>1. N \in Nat /\ \A n \in 1..N : tokens[n] \in Q
  OBVIOUS
<1>2. <<>> \in Q
  OBVIOUS
<1>3. \A u \in Q, n \in 1..N : Link(u, n, tokens[n]) \in Q
  <2> TAKE u \in Q, n \in 1..N
  <2>1. n \in Nat /\ tokens[n] \in Seq(X)
    BY <1>1
  <2> QED BY <2>1, LinkIs
<1>4. step \in [Q \X (1..N) -> Q]
  BY <1>3
<1>5. PICK f \in [0..N -> Q] :
         f[0] = <<>> /\ \A n \in 1..N : f[n] = step[<<f[n - 1], n>>]
  <2> HIDE DEF step, N, Q
  <2>1. PICK base : base = <<>>
    OBVIOUS
  <2>2. base \in Q
    BY <1>2, <2>1
  <2>3. \E h : Recurs(h, Q, base, N, step)
    BY <1>1, <1>4, <2>2, RecursionExists
  <2> QED BY <2>1, <2>3 DEF Recurs
<1>6. \A n \in 1..N : n - 1 \in 0..N /\ n # 0 /\ n \in 0..N
  BY <1>1
<1>7. \A n \in 1..N : f[n] = Link(f[n - 1], n, tokens[n])
  <2> TAKE n \in 1..N
  <2>1. f[n - 1] \in Q
    BY <1>6
  <2> QED BY <1>5, <2>1
<1>8. \A n \in 0..N : n # 0 => n \in 1..N
  BY <1>1
<1>9. f = Body(f)
  BY <1>5, <1>7, <1>8
<1> DEFINE g == Joining(tokens)
<1>10. g = Body(g)
  <2>1. \E h : h = Body(h)
    BY <1>9
  <2> QED BY <2>1 DEF Joining
<1>11. g[0] = <<>> /\ \A n \in 1..N : g[n] = Link(g[n - 1], n, tokens[n])
  BY <1>1, <1>6, <1>10
<1>12. \A n \in 0..N : g[n] \in Q
  <2> DEFINE G == {n \in 0..N : g[n] \in Q}
  <2> HIDE DEF g
  <2>1. 0 \in G
    <3>1. 0 \in 0..N /\ g[0] \in Q
      BY <1>1, <1>2, <1>11
    <3> QED BY <3>1
  <2>2. \A n \in 1..N : n - 1 \in G => n \in G
    BY <1>3, <1>6, <1>11
  <2> HIDE DEF G, N
  <2>3. \A n \in 0..N : n \in G
    BY <1>1, <2>1, <2>2, CountingUp
  <2> QED BY <2>3 DEF G
<1>13. g \in [0..N -> Q]
  <2>1. g = [n \in 0..N |-> g[n]]
    BY <1>10
  <2> HIDE DEF g
  <2> QED BY <1>12, <2>1
<1>14. Join(tokens) = Joining(tokens)[Len(tokens)]
  BY DEF Join, Joining, Link
<1> QED BY <1>11, <1>13, <1>14 DEF JoinedBy

(* One more token.                                                         *)
LEMMA JoinNext ==
    ASSUME NEW X, Space \in X, NEW tokens \in Seq(Seq(X)), NEW token \in Seq(X)
    PROVE  /\ Join(tokens) \in Seq(X) /\ Join(<<>>) = <<>>
           /\ Join(Append(tokens, token)) = Link(Join(tokens), Len(tokens) + 1, token)
<1>1. PICK more, N : more = Append(tokens, token) /\ N = Len(tokens)
  OBVIOUS
<1>2. /\ more \in Seq(Seq(X)) /\ Len(more) = N + 1 /\ more[N + 1] = token /\ N \in Nat
      /\ \A n \in 1..N : more[n] = tokens[n]
  BY <1>1, AppendProperties
<1>3. PICK f, g : f = Joining(tokens) /\ g = Joining(more)
  OBVIOUS
<1>4. JoinedBy(X, tokens, f) /\ Join(tokens) = f[N]
  BY <1>1, <1>3, JoiningIs
<1>5. JoinedBy(X, more, g) /\ Join(more) = g[N + 1]
  BY <1>2, <1>3, JoiningIs
<1>6. /\ f[0] = <<>> /\ \A n \in 1..N : f[n] = Link(f[n - 1], n, tokens[n])
      /\ f \in [0..N -> Seq(X)]
  BY <1>1, <1>4 DEF JoinedBy
<1>7. g[0] = <<>> /\ \A n \in 1..N + 1 : g[n] = Link(g[n - 1], n, more[n])
  BY <1>2, <1>5 DEF JoinedBy
<1> DEFINE G == {n \in 0..N : g[n] = f[n]}
<1>8. 0 \in G
  <2>1. 0 \in 0..N
    BY <1>2
  <2>2. g[0] = f[0]
    BY <1>6, <1>7
  <2> QED BY <2>1, <2>2
<1>9. \A n \in 1..N : n - 1 \in G => n \in G
  <2> TAKE n \in 1..N
  <2> HAVE n - 1 \in G
  <2>1. n \in 1..N + 1 /\ n \in 0..N
    BY <1>2
  <2> QED BY <1>2, <1>6, <1>7, <2>1
<1>10. N \in G
  <2>1. N \in 0..N
    BY <1>2
  <2> HIDE DEF G
  <2>2. \A n \in 0..N : n \in G
    BY <1>2, <1>8, <1>9, CountingUp
  <2> QED BY <2>1, <2>2
<1>11. g[N + 1] = Link(f[N], N + 1, token)
  <2>1. N + 1 \in 1..N + 1 /\ (N + 1) - 1 = N
    BY <1>2
  <2>2. g[N + 1] = Link(g[(N + 1) - 1], N + 1, more[N + 1])
    BY <1>7, <2>1
  <2> QED BY <1>2, <1>10, <2>1, <2>2
<1>12. Join(tokens) \in Seq(X)
  <2>1. N \in 0..N
    BY <1>2
  <2> QED BY <1>4, <1>6, <2>1
<1>13. Join(<<>>) = <<>>
  <2>1. PICK none : none = <<>>
    OBVIOUS
  <2>2. none \in Seq(Seq(X)) /\ Len(none) = 0
    BY <2>1
  <2>3. JoinedBy(X, none, Joining(none)) /\ Join(none) = Joining(none)[0]
    BY <2>2, JoiningIs
  <2>4. Joining(none)[0] = <<>>
    BY <2>3 DEF JoinedBy
  <2> QED BY <2>1, <2>3, <2>4
<1> QED BY <1>1, <1>4, <1>5, <1>11, <1>12, <1>13

(* What is picked from tokens joined is what is picked from each.          *)
LEMMA PickedNext ==
    ASSUME NEW X, Space \in X, NEW tokens \in Seq(Seq(X)), NEW token \in Seq(X),
           NEW P, Space \notin P
    PROVE  Picked(Join(Append(tokens, token)), P) = Picked(Join(tokens), P) \o Picked(token, P)
<1>1. PICK n, gap, u : /\ n = Len(tokens) + 1 /\ gap = (IF n = 1 THEN <<>> ELSE <<Space>>)
                       /\ u = Join(tokens)
  OBVIOUS
<1>2. u \in Seq(X) /\ Join(Append(tokens, token)) = (u \o gap) \o token
  BY <1>1, JoinNext DEF Link
<1>3. gap \in Seq(X) /\ \A i \in 1..Len(gap) : gap[i] \notin P
  BY <1>1
<1>4. u \o gap \in Seq(X)
  BY <1>2, <1>3, ConcatProperties
<1>5. Picked((u \o gap) \o token, P) = Picked(u \o gap, P) \o Picked(token, P)
  <2>1. PICK v : v = u \o gap
    OBVIOUS
  <2>2. v \in Seq(X)
    BY <1>4, <2>1
  <2>3. Picked(v \o token, P) = Picked(v, P) \o Picked(token, P)
    BY <2>2, PickedTogether
  <2> QED BY <2>1, <2>3
<1>6. Picked(u \o gap, P) = Picked(u, P) \o Picked(gap, P)
  BY <1>2, <1>3, PickedTogether
<1>7. Picked(gap, P) = <<>> /\ Picked(u, P) \in Seq(X)
  BY <1>2, <1>3, PickedSeq
<1>8. Picked(u, P) \o <<>> = Picked(u, P)
  BY <1>7, ConcatEmptySeq
<1> QED BY <1>1, <1>2, <1>5, <1>6, <1>7, <1>8

-----------------------------------------------------------------------------

(* The tokens of a query: words, and phrases in quotes.                    *)
Bare(t) == t \in Seq(Pieces) /\ t # <<>> /\ \A i \in 1..Len(t) : t[i] # Space /\ t[i] # Quote

Phrasing(b) == b \in Seq(Pieces) /\ b # <<>> /\ \A i \in 1..Len(b) : b[i] # Quote

Proper(t) == Bare(t) \/ \E b \in Seq(Pieces) : Phrasing(b) /\ t = Quoted(b)

(* A quoted phrase has a quote at each end.                                *)
LEMMA QuotedIs ==
    ASSUME NEW X, Quote \in X, NEW b \in Seq(X), NEW t, t = Quoted(b)
    PROVE  /\ t \in Seq(X) /\ Len(t) = Len(b) + 2
           /\ t[1] = Quote /\ t[Len(b) + 2] = Quote
           /\ \A i \in 1..Len(b) : t[1 + i] = b[i]
<1>1. PICK q, n : q = <<Quote>> /\ n = Len(b)
  OBVIOUS
<1>2. q \in Seq(X) /\ Len(q) = 1 /\ q[1] = Quote /\ n \in Nat
  BY <1>1
<1>3. PICK u : u = q \o b
  OBVIOUS
<1>4. u \in Seq(X) /\ Len(u) = 1 + n /\ \A i \in 1..1 + n : u[i] = IF i <= 1 THEN q[i] ELSE b[i - 1]
  <2>1. PICK l : l = Len(q)
    OBVIOUS
  <2>2. u \in Seq(X) /\ Len(u) = l + n /\ \A i \in 1..l + n : u[i] = IF i <= l THEN q[i] ELSE b[i - l]
    BY <1>1, <1>2, <1>3, <2>1, ConcatProperties
  <2> QED BY <1>2, <2>1, <2>2
<1>5. u[1] = Quote /\ \A i \in 1..n : u[1 + i] = b[i]
  <2>1. 1 \in 1..1 + n /\ 1 <= 1
    BY <1>2
  <2>2. \A i \in 1..n : 1 + i \in 1..1 + n /\ ~(1 + i <= 1) /\ (1 + i) - 1 = i
    BY <1>2
  <2> QED BY <1>2, <1>4, <2>1, <2>2
<1>6. t = Append(u, Quote)
  <2>1. t = u \o q
    BY <1>1, <1>3 DEF Quoted
  <2>2. PICK w : w = Append(u, Quote)
    OBVIOUS
  <2>3. w \in Seq(X) /\ Len(w) = Len(u) + 1 /\ w[Len(u) + 1] = Quote /\ \A i \in 1..Len(u) : w[i] = u[i]
    BY <1>4, <2>2, AppendProperties
  <2>4. PICK m, l : m = Len(u) /\ l = Len(q)
    OBVIOUS
  <2>5. t \in Seq(X) /\ Len(t) = m + l /\ \A i \in 1..m + l : t[i] = IF i <= m THEN u[i] ELSE q[i - m]
    <3>1. u \in Seq(X) /\ q \in Seq(X)
      BY <1>2, <1>4
    <3> QED BY <2>1, <2>4, <3>1, ConcatProperties
  <2>6. m \in Nat /\ l = 1
    BY <1>2, <1>4, <2>4
  <2>7. \A i \in 1..m + 1 : t[i] = w[i]
    <3> TAKE i \in 1..m + 1
    <3>1. CASE i \in 1..m
      BY <2>3, <2>4, <2>5, <2>6, <3>1
    <3>2. CASE i = m + 1
      <4>1. i \in 1..m + l /\ ~(i <= m) /\ i - m = 1
        BY <2>6, <3>2
      <4> QED BY <1>2, <2>3, <2>4, <2>5, <3>2, <4>1
    <3> QED BY <2>6, <3>1, <3>2
  <2>8. t = [i \in 1..m + 1 |-> t[i]] /\ w = [i \in 1..m + 1 |-> w[i]]
    BY <2>3, <2>4, <2>5, <2>6
  <2> QED BY <2>2, <2>7, <2>8
<1>7. /\ t \in Seq(X) /\ Len(t) = (1 + n) + 1 /\ t[(1 + n) + 1] = Quote
      /\ \A i \in 1..1 + n : t[i] = u[i]
  BY <1>4, <1>6, AppendProperties
<1>8. (1 + n) + 1 = n + 2 /\ 1 \in 1..1 + n /\ \A i \in 1..n : 1 + i \in 1..1 + n
  BY <1>2
<1>9. t[n + 2] = Quote /\ t[1] = Quote /\ \A i \in 1..n : t[1 + i] = b[i]
  BY <1>5, <1>7, <1>8
<1> QED BY <1>1, <1>7, <1>8, <1>9

(* A word begins with no quote, and a phrase with one.                     *)
LEMMA ProperIs ==
    ASSUME NEW t, Proper(t)
    PROVE  t \in Seq(Pieces) /\ t # <<>> /\ (IsQuoted(t) <=> ~Bare(t))
<1>1. CASE Bare(t)
  <2>1. 1 \in 1..Len(t)
    BY <1>1 DEF Bare
  <2> QED BY <1>1, <2>1 DEF Bare, IsQuoted
<1>2. ASSUME NEW b \in Seq(Pieces), Phrasing(b), t = Quoted(b)
      PROVE  t \in Seq(Pieces) /\ t # <<>> /\ (IsQuoted(t) <=> ~Bare(t))
  <2>1. Quote \in Pieces
    BY DEF Pieces
  <2>2. t \in Seq(Pieces) /\ Len(t) = Len(b) + 2 /\ t[1] = Quote
    BY <1>2, <2>1, QuotedIs
  <2>3. Len(b) \in Nat
    OBVIOUS
  <2>4. 1 \in 1..Len(t) /\ t # <<>>
    BY <2>2, <2>3
  <2> QED BY <2>2, <2>4 DEF Bare, IsQuoted
<1> QED BY <1>1, <1>2 DEF Proper

(* The loop that reads a query.                                            *)
States == [tokens : Seq(Seq(Pieces)), open : Seq(Pieces), inside : BOOLEAN]

NothingRead == [tokens |-> <<>>, open |-> <<>>, inside |-> FALSE]

Reads(q, g) ==
    /\ g \in [0..Len(q) -> States] /\ g[0] = NothingRead
    /\ \A n \in 1..Len(q) : g[n] = Read(q, g[n - 1], n)

ReadingOf(q) ==
    CHOOSE f : f = [n \in 0..Len(q) |-> IF n = 0 THEN NothingRead ELSE Read(q, f[n - 1], n)]

ReadInv(q, n, s) ==
    /\ s \in States
    /\ \A k \in 1..Len(s.tokens) : Proper(s.tokens[k])
    /\ \A i \in 1..Len(s.open) : s.open[i] # Quote /\ (~s.inside => s.open[i] # Space)
    /\ s.inside => \E j \in n + 1..Len(q) : q[j] = Quote

(* Flushing keeps what was open as a token.                                *)
LEMMA FlushIs ==
    ASSUME NEW s \in States, NEW r, r = Flush(s)
    PROVE  /\ r \in States /\ r.open = <<>> /\ r.inside = s.inside
           /\ s.open = <<>> => r.tokens = s.tokens
           /\ s.open # <<>> /\ s.inside => r.tokens = Append(s.tokens, Quoted(s.open))
           /\ s.open # <<>> /\ ~s.inside => r.tokens = Append(s.tokens, s.open)
<1>1. PICK tokens : tokens = IF s.open = <<>> THEN s.tokens
                             ELSE Append(s.tokens, IF s.inside THEN Quoted(s.open) ELSE s.open)
  OBVIOUS
<1>2. s.tokens \in Seq(Seq(Pieces)) /\ s.open \in Seq(Pieces) /\ s.inside \in BOOLEAN
  BY DEF States
<1>3. Quoted(s.open) \in Seq(Pieces)
  <2>1. Quote \in Pieces
    BY DEF Pieces
  <2> QED BY <1>2, <2>1, QuotedIs
<1>4. tokens \in Seq(Seq(Pieces))
  <2>1. PICK x : x = IF s.inside THEN Quoted(s.open) ELSE s.open
    OBVIOUS
  <2>2. x \in Seq(Pieces)
    BY <1>2, <1>3, <2>1
  <2>3. Append(s.tokens, x) \in Seq(Seq(Pieces))
    BY <1>2, <2>2, AppendProperties
  <2> QED BY <1>1, <1>2, <2>1, <2>3
<1>5. r = [s EXCEPT !.open = <<>>, !.tokens = tokens]
  BY <1>1 DEF Flush
<1>6. r \in States /\ r.open = <<>> /\ r.inside = s.inside /\ r.tokens = tokens
  <2>1. <<>> \in Seq(Pieces)
    OBVIOUS
  <2> QED BY <1>4, <1>5, <2>1 DEF States
<1> QED BY <1>1, <1>6

(* What is flushed are words and phrases.                                  *)
LEMMA FlushKeeps ==
    ASSUME NEW q, NEW n, NEW s, ReadInv(q, n, s), NEW r, r = Flush(s)
    PROVE  r \in States /\ \A k \in 1..Len(r.tokens) : Proper(r.tokens[k])
<1>1. /\ s \in States /\ \A k \in 1..Len(s.tokens) : Proper(s.tokens[k])
      /\ \A i \in 1..Len(s.open) : s.open[i] # Quote /\ (~s.inside => s.open[i] # Space)
  BY DEF ReadInv
<1>2. /\ r \in States
      /\ s.open = <<>> => r.tokens = s.tokens
      /\ s.open # <<>> /\ s.inside => r.tokens = Append(s.tokens, Quoted(s.open))
      /\ s.open # <<>> /\ ~s.inside => r.tokens = Append(s.tokens, s.open)
  BY <1>1, FlushIs
<1>3. s.tokens \in Seq(Seq(Pieces)) /\ s.open \in Seq(Pieces) /\ s.inside \in BOOLEAN
  BY <1>1 DEF States
<1>4. ASSUME NEW x \in Seq(Pieces), Proper(x), r.tokens = Append(s.tokens, x)
      PROVE  \A k \in 1..Len(r.tokens) : Proper(r.tokens[k])
  <2>1. PICK N : N = Len(s.tokens)
    OBVIOUS
  <2>2. /\ Len(r.tokens) = N + 1 /\ r.tokens[N + 1] = x /\ N \in Nat
        /\ \A k \in 1..N : r.tokens[k] = s.tokens[k]
    BY <1>3, <1>4, <2>1, AppendProperties
  <2>3. \A k \in 1..N + 1 : k \in 1..N \/ k = N + 1
    BY <2>2
  <2> QED BY <1>1, <1>4, <2>1, <2>2, <2>3
<1>5. CASE s.open = <<>>
  BY <1>1, <1>2, <1>5
<1>6. CASE s.open # <<>> /\ s.inside
  <2>1. Phrasing(s.open)
    BY <1>1, <1>3, <1>6 DEF Phrasing
  <2>2. Proper(Quoted(s.open))
    BY <1>3, <2>1 DEF Proper
  <2>3. Quoted(s.open) \in Seq(Pieces)
    BY <2>2, ProperIs
  <2> QED BY <1>2, <1>4, <1>6, <2>2, <2>3
<1>7. CASE s.open # <<>> /\ ~s.inside
  <2>1. Proper(s.open)
    BY <1>1, <1>3, <1>7 DEF Bare, Proper
  <2> QED BY <1>2, <1>3, <1>4, <1>7, <2>1
<1> QED BY <1>2, <1>3, <1>5, <1>6, <1>7

(* One more piece keeps the invariant of the reading.                      *)
LEMMA ReadStep ==
    ASSUME NEW q \in Seq(Pieces), NEW n \in 1..Len(q), NEW s, ReadInv(q, n - 1, s),
           NEW r, r = Read(q, s, n)
    PROVE  ReadInv(q, n, r)
<1>1. /\ s \in States /\ \A k \in 1..Len(s.tokens) : Proper(s.tokens[k])
      /\ \A i \in 1..Len(s.open) : s.open[i] # Quote /\ (~s.inside => s.open[i] # Space)
      /\ s.inside => \E j \in (n - 1) + 1..Len(q) : q[j] = Quote
  BY DEF ReadInv
<1>2. s.tokens \in Seq(Seq(Pieces)) /\ s.open \in Seq(Pieces) /\ s.inside \in BOOLEAN
  BY <1>1 DEF States
<1>3. PICK f : f = Flush(s)
  OBVIOUS
<1>4. /\ f \in States /\ f.open = <<>> /\ f.inside = s.inside
      /\ \A k \in 1..Len(f.tokens) : Proper(f.tokens[k])
  BY <1>1, <1>3, FlushIs, FlushKeeps
<1>5. CASE q[n] = Quote /\ (s.inside \/ \E j \in n + 1..Len(q) : q[j] = Quote)
  <2>1. r = [f EXCEPT !.inside = ~f.inside]
    BY <1>3, <1>5 DEF Read
  <2>2. r \in States /\ r.open = <<>> /\ r.inside = ~s.inside /\ r.tokens = f.tokens
    BY <1>4, <2>1 DEF States
  <2>3. \A i \in 1..Len(r.open) : r.open[i] # Quote /\ (~r.inside => r.open[i] # Space)
    BY <2>2
  <2>4. r.inside => \E j \in n + 1..Len(q) : q[j] = Quote
    BY <1>5, <2>2
  <2> QED BY <1>4, <2>2, <2>3, <2>4 DEF ReadInv
<1>6. CASE /\ ~(q[n] = Quote /\ (s.inside \/ \E j \in n + 1..Len(q) : q[j] = Quote))
           /\ q[n] \in {Space, Quote} /\ ~s.inside
  <2>1. r = f
    BY <1>3, <1>6 DEF Read
  <2>2. \A i \in 1..Len(r.open) : r.open[i] # Quote /\ (~r.inside => r.open[i] # Space)
    BY <1>4, <2>1
  <2> QED BY <1>4, <1>6, <2>1, <2>2 DEF ReadInv
<1>7. CASE /\ ~(q[n] = Quote /\ (s.inside \/ \E j \in n + 1..Len(q) : q[j] = Quote))
           /\ ~(q[n] \in {Space, Quote} /\ ~s.inside)
  <2>1. r = [s EXCEPT !.open = Append(s.open, q[n])]
    BY <1>7 DEF Read
  <2>2. q[n] \in Pieces /\ q[n] # Quote /\ (~s.inside => q[n] # Space)
    BY <1>7
  <2>3. PICK open, N : open = Append(s.open, q[n]) /\ N = Len(s.open)
    OBVIOUS
  <2>4. /\ open \in Seq(Pieces) /\ Len(open) = N + 1 /\ open[N + 1] = q[n] /\ N \in Nat
        /\ \A i \in 1..N : open[i] = s.open[i]
    BY <1>2, <2>2, <2>3, AppendProperties
  <2>5. r \in States /\ r.open = open /\ r.inside = s.inside /\ r.tokens = s.tokens
    BY <1>1, <2>1, <2>3, <2>4 DEF States
  <2>6. \A i \in 1..N + 1 : open[i] # Quote /\ (~s.inside => open[i] # Space)
    <3>1. \A i \in 1..N + 1 : i \in 1..N \/ i = N + 1
      BY <2>4
    <3> QED BY <1>1, <2>2, <2>3, <2>4, <3>1
  <2>7. s.inside => \E j \in n + 1..Len(q) : q[j] = Quote
    <3>1. \A j \in (n - 1) + 1..Len(q) : j = n \/ j \in n + 1..Len(q)
      OBVIOUS
    <3> QED BY <1>1, <2>2, <3>1
  <2> QED BY <1>1, <2>4, <2>5, <2>6, <2>7 DEF ReadInv
<1> QED BY <1>5, <1>6, <1>7

(* The recursive function is the reading, piece by piece.                  *)
LEMMA ReadingIs ==
    ASSUME NEW q \in Seq(Pieces)
    PROVE  /\ Reads(q, ReadingOf(q)) /\ ReadInv(q, Len(q), ReadingOf(q)[Len(q)])
           /\ SplitQuotedAndPlain(q) = Flush(ReadingOf(q)[Len(q)]).tokens
<1> DEFINE N == Len(q)
           Q == States
           step == [x \in Q \X (1..N) |-> IF Read(q, x[1], x[2]) \in Q
                                          THEN Read(q, x[1], x[2]) ELSE NothingRead]
           Body(f) == [n \in 0..N |-> IF n = 0 THEN NothingRead ELSE Read(q, f[n - 1], n)]
<1>1. N \in Nat
  OBVIOUS
<1>2. NothingRead \in Q /\ ReadInv(q, 0, NothingRead)
  <2>1. PICK r : r = NothingRead
    OBVIOUS
  <2>2. r = [tokens |-> <<>>, open |-> <<>>, inside |-> FALSE]
    BY <2>1 DEF NothingRead
  <2>3. <<>> \in Seq(Seq(Pieces)) /\ <<>> \in Seq(Pieces)
    OBVIOUS
  <2>4. r \in States /\ r.tokens = <<>> /\ r.open = <<>> /\ r.inside = FALSE
    BY <2>2, <2>3 DEF States
  <2> QED BY <2>1, <2>4 DEF ReadInv
<1>3. step \in [Q \X (1..N) -> Q]
  BY <1>2
<1>4. PICK f \in [0..N -> Q] :
         f[0] = NothingRead /\ \A n \in 1..N : f[n] = step[<<f[n - 1], n>>]
  <2> HIDE DEF step, N, Q
  <2>1. \E h : Recurs(h, Q, NothingRead, N, step)
    BY <1>1, <1>2, <1>3, RecursionExists
  <2> QED BY <2>1 DEF Recurs
<1>5. \A n \in 1..N : n - 1 \in 0..N /\ n # 0 /\ n \in 0..N
  BY <1>1
<1>6. \A n \in 1..N : ReadInv(q, n - 1, f[n - 1])
                         => ReadInv(q, n, f[n]) /\ f[n] = Read(q, f[n - 1], n)
  <2> TAKE n \in 1..N
  <2> HAVE ReadInv(q, n - 1, f[n - 1])
  <2>1. PICK next : next = Read(q, f[n - 1], n)
    OBVIOUS
  <2>2. ReadInv(q, n, next)
    BY <2>1, ReadStep
  <2>3. next \in Q
    BY <2>2 DEF ReadInv
  <2>4. f[n - 1] \in Q
    BY <1>5
  <2>5. f[n] = next
    BY <1>4, <2>1, <2>3, <2>4
  <2> QED BY <2>1, <2>2, <2>5
<1>7. \A n \in 0..N : ReadInv(q, n, f[n])
  <2> DEFINE G == {n \in 0..N : ReadInv(q, n, f[n])}
  <2>1. 0 \in G
    BY <1>1, <1>2, <1>4
  <2>2. \A n \in 1..N : n - 1 \in G => n \in G
    BY <1>5, <1>6
  <2> HIDE DEF G, N
  <2>3. \A n \in 0..N : n \in G
    BY <1>1, <2>1, <2>2, CountingUp
  <2> QED BY <2>3 DEF G
<1>8. \A n \in 1..N : f[n] = Read(q, f[n - 1], n)
  BY <1>5, <1>6, <1>7
<1>9. \A n \in 0..N : n # 0 => n \in 1..N
  BY <1>1
<1>10. f = Body(f)
  BY <1>4, <1>8, <1>9
<1> DEFINE g == ReadingOf(q)
<1>11. g = Body(g)
  <2>1. \E h : h = Body(h)
    BY <1>10
  <2> QED BY <2>1 DEF ReadingOf
<1>12. g[0] = NothingRead /\ \A n \in 1..N : g[n] = Read(q, g[n - 1], n)
  BY <1>1, <1>5, <1>11
<1>13. g = [n \in 0..N |-> g[n]]
  BY <1>11
<1> HIDE DEF g
<1>14. \A n \in 0..N : ReadInv(q, n, g[n])
  <2> DEFINE G == {n \in 0..N : ReadInv(q, n, g[n])}
  <2>1. 0 \in G
    <3>1. 0 \in 0..N
      BY <1>1
    <3> QED BY <1>2, <1>12, <3>1
  <2>2. \A n \in 1..N : n - 1 \in G => n \in G
    BY <1>5, <1>12, ReadStep
  <2> HIDE DEF G, N
  <2>3. \A n \in 0..N : n \in G
    BY <1>1, <2>1, <2>2, CountingUp
  <2> QED BY <2>3 DEF G
<1>15. g \in [0..N -> States]
  <2>1. \A n \in 0..N : g[n] \in States
    BY <1>14 DEF ReadInv
  <2> QED BY <1>13, <2>1
<1>16. Reads(q, g)
  BY <1>12, <1>15 DEF Reads
<1>17. SplitQuotedAndPlain(q) = Flush(ReadingOf(q)[Len(q)]).tokens
  BY DEF SplitQuotedAndPlain, ReadingOf, NothingRead
<1>18. N \in 0..N
  BY <1>1
<1> QED BY <1>14, <1>16, <1>17, <1>18 DEF g

(* So a query is split into words and phrases.                             *)
LEMMA SplitProper ==
    ASSUME NEW q \in Seq(Pieces)
    PROVE  /\ SplitQuotedAndPlain(q) \in Seq(Seq(Pieces))
           /\ \A k \in 1..Len(SplitQuotedAndPlain(q)) : Proper(SplitQuotedAndPlain(q)[k])
<1>1. PICK s, r : s = ReadingOf(q)[Len(q)] /\ r = Flush(s)
  OBVIOUS
<1>2. ReadInv(q, Len(q), s) /\ SplitQuotedAndPlain(q) = r.tokens
  BY <1>1, ReadingIs
<1>3. r \in States /\ \A k \in 1..Len(r.tokens) : Proper(r.tokens[k])
  BY <1>1, <1>2, FlushKeeps
<1>4. r.tokens \in Seq(Seq(Pieces))
  BY <1>3 DEF States
<1> QED BY <1>2, <1>3, <1>4

-----------------------------------------------------------------------------

(* Reading a token where it stands in a query: it is read as it is.        *)
StandsIn(q, t, a) == a + Len(t) <= Len(q) /\ \A i \in 1..Len(t) : q[a + i] = t[i]

(* Between tokens. *)
Fresh(tokens) == [tokens |-> tokens, open |-> <<>>, inside |-> FALSE]

(* Nothing is open between two tokens.                                     *)
LEMMA FreshIs ==
    ASSUME NEW tokens \in Seq(Seq(Pieces)), NEW s
    PROVE  s = Fresh(tokens) <=> /\ s \in States /\ s.tokens = tokens /\ s.open = <<>>
                                 /\ s.inside = FALSE
<1>1. <<>> \in Seq(Pieces)
  OBVIOUS
<1>2. ASSUME s = Fresh(tokens)
      PROVE  s \in States /\ s.tokens = tokens /\ s.open = <<>> /\ s.inside = FALSE
  BY <1>1, <1>2 DEF Fresh, States
<1>3. ASSUME s \in States, s.tokens = tokens, s.open = <<>>, s.inside = FALSE
      PROVE  s = Fresh(tokens)
  BY <1>3 DEF Fresh, States
<1> QED BY <1>2, <1>3

(* The first pieces of a token, and one more.                              *)
LEMMA FirstNext ==
    ASSUME NEW X, NEW piece \in Seq(X), NEW n \in 1..Len(piece)
    PROVE  Append(SubSeq(piece, 1, n - 1), piece[n]) = SubSeq(piece, 1, n)
<1>1. n \in Nat /\ n - 1 \in 0..Len(piece) /\ n \in 0..Len(piece)
  OBVIOUS
<1>2. PICK a, b : a = SubSeq(piece, 1, n - 1) /\ b = SubSeq(piece, 1, n)
  OBVIOUS
<1>3. a \in Seq(X) /\ Len(a) = n - 1 /\ a = [k \in 1..n - 1 |-> piece[k]]
  BY <1>1, <1>2, FirstOnes
<1>4. b \in Seq(X) /\ Len(b) = n /\ b = [k \in 1..n |-> piece[k]]
  BY <1>1, <1>2, FirstOnes
<1>5. Append(a, piece[n]) = b
  <2>1. PICK c : c = Append(a, piece[n])
    OBVIOUS
  <2>2. piece[n] \in X
    OBVIOUS
  <2>3. c \in Seq(X) /\ Len(c) = (n - 1) + 1 /\ c[(n - 1) + 1] = piece[n] /\ \A k \in 1..n - 1 : c[k] = a[k]
    BY <1>3, <2>1, <2>2, AppendProperties
  <2>4. Len(c) = n /\ c[n] = piece[n]
    BY <1>1, <2>3
  <2>5. \A k \in 1..n : c[k] = b[k]
    <3>1. \A k \in 1..n : k \in 1..n - 1 \/ k = n
      BY <1>1
    <3> QED BY <1>3, <1>4, <2>3, <2>4, <3>1
  <2>6. c = [k \in 1..n |-> c[k]] /\ b = [k \in 1..n |-> b[k]]
    BY <1>4, <2>3, <2>4
  <2> QED BY <2>1, <2>5, <2>6
<1> QED BY <1>2, <1>5

(* A part of a token that is read. *)
Opened(tokens, piece, n, inside) ==
    [tokens |-> tokens, open |-> SubSeq(piece, 1, n), inside |-> inside]

Continues(q, i, piece, n, inside) ==
    q[i] = piece[n] /\ q[i] # Quote /\ (inside \/ q[i] # Space)

(* Reading it opens it.                                                    *)
LEMMA OpenedMore ==
    ASSUME NEW piece \in Seq(Pieces), NEW n \in 1..Len(piece), NEW tokens, NEW inside,
           NEW q, NEW i, Continues(q, i, piece, n, inside),
           NEW s, s = Opened(tokens, piece, n - 1, inside)
    PROVE  Read(q, s, i) = Opened(tokens, piece, n, inside)
<1>0. q[i] = piece[n] /\ q[i] # Quote /\ (inside \/ q[i] # Space)
  BY DEF Continues
<1>1. s.inside = inside /\ s.open = SubSeq(piece, 1, n - 1) /\ s.tokens = tokens
  BY DEF Opened
<1>2. Read(q, s, i) = [s EXCEPT !.open = Append(s.open, q[i])]
  <2>1. ~(q[i] = Quote /\ (s.inside \/ \E j \in i + 1..Len(q) : q[j] = Quote))
    BY <1>0
  <2>2. ~(q[i] \in {Space, Quote} /\ ~s.inside)
    BY <1>0, <1>1
  <2> QED BY <2>1, <2>2 DEF Read
<1>3. Append(SubSeq(piece, 1, n - 1), piece[n]) = SubSeq(piece, 1, n)
  BY FirstNext
<1> QED BY <1>0, <1>1, <1>2, <1>3 DEF Opened

(* A word where it stands is read as it is.                                *)
LEMMA BareRead ==
    ASSUME NEW q \in Seq(Pieces), NEW g, Reads(q, g), NEW t, Bare(t), NEW a \in Nat,
           StandsIn(q, t, a), NEW tokens \in Seq(Seq(Pieces)), g[a] = Fresh(tokens)
    PROVE  Flush(g[a + Len(t)]) = Fresh(Append(tokens, t))
<1>1. PICK m : m = Len(t)
  OBVIOUS
<1>2. t \in Seq(Pieces) /\ t # <<>> /\ m \in Nat /\ \A i \in 1..m : t[i] # Space /\ t[i] # Quote
  BY <1>1 DEF Bare
<1>3. a + m <= Len(q) /\ \A i \in 1..m : q[a + i] = t[i]
  BY <1>1 DEF StandsIn
<1>4. Len(q) \in Nat
  OBVIOUS
<1> DEFINE G == {n \in 0..m : g[a + n] = Opened(tokens, t, n, FALSE)}
<1>5. SubSeq(t, 1, 0) = <<>>
  BY <1>2, SubSeqEmpty
<1>6. 0 \in G
  <2>1. a + 0 = a /\ 0 \in 0..m
    BY <1>2
  <2>2. Opened(tokens, t, 0, FALSE) = Fresh(tokens)
    BY <1>5 DEF Opened, Fresh
  <2> QED BY <2>1, <2>2
<1>7. \A n \in 1..m : n - 1 \in G => n \in G
  <2> TAKE n \in 1..m
  <2> HAVE n - 1 \in G
  <2>1. PICK i, s : i = a + n /\ s = g[a + (n - 1)]
    OBVIOUS
  <2>2. s = Opened(tokens, t, n - 1, FALSE)
    BY <2>1
  <2>3. i \in 1..Len(q) /\ i - 1 = a + (n - 1)
    BY <1>2, <1>3, <1>4, <2>1
  <2>4. g[i] = Read(q, s, i)
    <3>1. g[i] = Read(q, g[i - 1], i)
      BY <2>3 DEF Reads
    <3> QED BY <2>1, <2>3, <3>1
  <2>5. q[i] = t[n] /\ q[i] # Quote /\ q[i] # Space /\ n \in 1..Len(t)
    BY <1>1, <1>2, <1>3, <2>1
  <2>6. Read(q, s, i) = Opened(tokens, t, n, FALSE)
    <3>1. PICK inside : inside = FALSE
      OBVIOUS
    <3>2. Continues(q, i, t, n, inside) /\ s = Opened(tokens, t, n - 1, inside)
      BY <2>2, <2>5, <3>1 DEF Continues
    <3>3. t \in Seq(Pieces) /\ n \in 1..Len(t)
      BY <1>2, <2>5
    <3>4. Read(q, s, i) = Opened(tokens, t, n, inside)
      BY ONLY <3>2, <3>3, OpenedMore
    <3> QED BY <3>1, <3>4
  <2>7. n \in 0..m
    BY <1>2
  <2> QED BY <2>1, <2>4, <2>6, <2>7
<1>8. g[a + m] = Opened(tokens, t, m, FALSE)
  <2>1. m \in 0..m
    BY <1>2
  <2> HIDE DEF G
  <2>2. \A n \in 0..m : n \in G
    BY <1>2, <1>6, <1>7, CountingUp
  <2>3. m \in G
    BY <2>1, <2>2
  <2> QED BY <2>3 DEF G
<1>9. SubSeq(t, 1, m) = t
  <2>1. m \in 0..Len(t)
    BY <1>1, <1>2
  <2>2. SubSeq(t, 1, m) = [k \in 1..m |-> t[k]]
    BY <1>2, <2>1, FirstOnes
  <2>3. t = [k \in 1..m |-> t[k]]
    BY <1>1, <1>2
  <2> QED BY <2>2, <2>3
<1>10. PICK s : s = g[a + m]
  OBVIOUS
<1>11. s \in States /\ s.tokens = tokens /\ s.open = t /\ s.inside = FALSE
  BY <1>2, <1>8, <1>9, <1>10 DEF Opened, States
<1>12. PICK r : r = Flush(s)
  OBVIOUS
<1>13. r \in States /\ r.open = <<>> /\ r.inside = FALSE /\ r.tokens = Append(tokens, t)
  BY <1>2, <1>11, <1>12, FlushIs
<1>14. Append(tokens, t) \in Seq(Seq(Pieces))
  BY <1>2, AppendProperties
<1>15. r = Fresh(Append(tokens, t))
  BY <1>13, <1>14, FreshIs
<1> QED BY <1>1, <1>10, <1>12, <1>15

(* So is a phrase, its quotes a pair.                                      *)
LEMMA QuotedRead ==
    ASSUME NEW q \in Seq(Pieces), NEW g, Reads(q, g), NEW t, Proper(t), ~Bare(t), NEW a \in Nat,
           StandsIn(q, t, a), NEW tokens \in Seq(Seq(Pieces)), g[a] = Fresh(tokens)
    PROVE  g[a + Len(t)] = Fresh(Append(tokens, t))
<1>0. PICK b \in Seq(Pieces) : Phrasing(b) /\ t = Quoted(b)
  BY DEF Proper
<1>1. PICK m : m = Len(b)
  OBVIOUS
<1>2. b # <<>> /\ m \in Nat /\ \A i \in 1..m : b[i] # Quote
  BY <1>0, <1>1 DEF Phrasing
<1>3. /\ t \in Seq(Pieces) /\ Len(t) = m + 2 /\ t[1] = Quote /\ t[m + 2] = Quote
      /\ \A i \in 1..m : t[1 + i] = b[i]
  <2>1. Quote \in Pieces
    BY DEF Pieces
  <2>2. /\ t \in Seq(Pieces) /\ Len(t) = Len(b) + 2 /\ t[1] = Quote /\ t[Len(b) + 2] = Quote
        /\ \A i \in 1..Len(b) : t[1 + i] = b[i]
    <3>1. PICK w : w = Quoted(b)
      OBVIOUS
    <3>2. /\ w \in Seq(Pieces) /\ Len(w) = Len(b) + 2 /\ w[1] = Quote /\ w[Len(b) + 2] = Quote
          /\ \A i \in 1..Len(b) : w[1 + i] = b[i]
      BY <2>1, <3>1, QuotedIs, SMTT(20)
    <3> QED BY <1>0, <3>1, <3>2
  <2> QED BY <1>1, <2>2
<1>4. a + (m + 2) <= Len(q) /\ \A i \in 1..m + 2 : q[a + i] = t[i]
  BY <1>3 DEF StandsIn
<1>5. PICK N : N = Len(q)
  OBVIOUS
<1>6. /\ N \in Nat /\ a + 1 \in 1..N /\ a + (m + 2) \in 1..N
      /\ q[a + 1] = Quote /\ q[a + (m + 2)] = Quote
      /\ \A i \in 1..m : q[a + (1 + i)] = b[i] /\ a + (1 + i) \in 1..N
  <2>1. N \in Nat /\ 1 \in 1..m + 2 /\ m + 2 \in 1..m + 2 /\ \A i \in 1..m : 1 + i \in 1..m + 2
    BY <1>2, <1>5
  <2>2. a + (m + 2) <= N
    BY <1>4, <1>5
  <2>3. a + 1 \in 1..N /\ a + (m + 2) \in 1..N /\ \A i \in 1..m : a + (1 + i) \in 1..N
    BY <1>2, <2>1, <2>2
  <2> QED BY <1>3, <1>4, <2>1, <2>3
<1>7. \A i \in 1..N : g[i] = Read(q, g[i - 1], i)
  BY <1>5 DEF Reads
<1>8. PICK s : s = g[a]
  OBVIOUS
<1>9. s \in States /\ s.tokens = tokens /\ s.open = <<>> /\ s.inside = FALSE
  BY <1>8, FreshIs
<1>10. g[a + 1] = Opened(tokens, b, 0, TRUE)
  <2>1. \E j \in (a + 1) + 1..Len(q) : q[j] = Quote
    <3>1. a + (m + 2) \in (a + 1) + 1..N
      BY <1>2, <1>6
    <3> QED BY <1>5, <1>6, <3>1
  <2>2. PICK f : f = Flush(s)
    OBVIOUS
  <2>3. f \in States /\ f.open = <<>> /\ f.inside = FALSE /\ f.tokens = tokens
    BY <1>9, <2>2, FlushIs
  <2>4. Read(q, s, a + 1) = [f EXCEPT !.inside = ~f.inside]
    BY <1>6, <2>1, <2>2 DEF Read
  <2>5. PICK r : r = [f EXCEPT !.inside = ~f.inside]
    OBVIOUS
  <2>6. r = [tokens |-> tokens, open |-> <<>>, inside |-> TRUE]
    BY <2>3, <2>5 DEF States
  <2>7. SubSeq(b, 1, 0) = <<>>
    BY SubSeqEmpty
  <2>8. (a + 1) - 1 = a
    OBVIOUS
  <2>9. g[a + 1] = r
    <3>1. g[a + 1] = Read(q, g[(a + 1) - 1], a + 1)
      BY <1>6, <1>7
    <3> QED BY <1>8, <2>4, <2>5, <2>8, <3>1
  <2>10. Opened(tokens, b, 0, TRUE) = [tokens |-> tokens, open |-> <<>>, inside |-> TRUE]
    BY <2>7 DEF Opened
  <2> QED BY <2>6, <2>9, <2>10
<1> DEFINE G == {n \in 0..m : g[a + (1 + n)] = Opened(tokens, b, n, TRUE)}
<1>11. 0 \in G
  <2>1. 1 + 0 = 1 /\ 0 \in 0..m
    BY <1>2
  <2> QED BY <1>10, <2>1
<1>12. \A n \in 1..m : n - 1 \in G => n \in G
  <2> TAKE n \in 1..m
  <2> HAVE n - 1 \in G
  <2>1. PICK i, p : i = a + (1 + n) /\ p = g[a + (1 + (n - 1))]
    OBVIOUS
  <2>2. p = Opened(tokens, b, n - 1, TRUE)
    BY <2>1
  <2>3. i \in 1..N /\ i - 1 = a + (1 + (n - 1))
    BY <1>2, <1>6, <2>1
  <2>4. g[i] = Read(q, p, i)
    BY <1>7, <2>1, <2>3
  <2>5. q[i] = b[n] /\ q[i] # Quote /\ n \in 1..Len(b)
    BY <1>1, <1>2, <1>6, <2>1
  <2>6. Read(q, p, i) = Opened(tokens, b, n, TRUE)
    <3>1. PICK inside : inside = TRUE
      OBVIOUS
    <3>2. Continues(q, i, b, n, inside) /\ p = Opened(tokens, b, n - 1, inside)
      BY <2>2, <2>5, <3>1 DEF Continues
    <3>3. b \in Seq(Pieces) /\ n \in 1..Len(b)
      BY <2>5
    <3>4. Read(q, p, i) = Opened(tokens, b, n, inside)
      BY ONLY <3>2, <3>3, OpenedMore
    <3> QED BY <3>1, <3>4
  <2>7. n \in 0..m
    BY <1>2
  <2> QED BY <2>1, <2>4, <2>6, <2>7
<1>13. g[a + (1 + m)] = Opened(tokens, b, m, TRUE)
  <2>1. m \in 0..m
    BY <1>2
  <2> HIDE DEF G
  <2>2. \A n \in 0..m : n \in G
    BY <1>2, <1>11, <1>12, CountingUp
  <2>3. m \in G
    BY <2>1, <2>2
  <2> QED BY <2>3 DEF G
<1>14. SubSeq(b, 1, m) = b
  <2>1. m \in 0..Len(b)
    BY <1>1, <1>2
  <2>2. SubSeq(b, 1, m) = [k \in 1..m |-> b[k]]
    BY <2>1, FirstOnes
  <2>3. b = [k \in 1..m |-> b[k]]
    BY <1>1
  <2> QED BY <2>2, <2>3
<1>15. PICK p : p = g[a + (1 + m)]
  OBVIOUS
<1>16. p \in States /\ p.tokens = tokens /\ p.open = b /\ p.inside = TRUE
  <2>1. p = [tokens |-> tokens, open |-> b, inside |-> TRUE]
    BY <1>13, <1>14, <1>15 DEF Opened
  <2> QED BY <2>1 DEF States
<1>17. PICK f : f = Flush(p)
  OBVIOUS
<1>18. f \in States /\ f.open = <<>> /\ f.inside = TRUE /\ f.tokens = Append(tokens, t)
  BY <1>0, <1>2, <1>16, <1>17, FlushIs
<1>19. g[a + (m + 2)] = [f EXCEPT !.inside = ~f.inside]
  <2>1. (a + (m + 2)) - 1 = a + (1 + m)
    BY <1>2
  <2>2. g[a + (m + 2)] = Read(q, p, a + (m + 2))
    BY <1>6, <1>7, <1>15, <2>1
  <2> QED BY <1>6, <1>16, <1>17, <2>2 DEF Read
<1>20. Append(tokens, t) \in Seq(Seq(Pieces))
  BY <1>3, AppendProperties
<1>21. PICK r : r = [f EXCEPT !.inside = ~f.inside]
  OBVIOUS
<1>22. r \in States /\ r.open = <<>> /\ r.inside = FALSE /\ r.tokens = Append(tokens, t)
  BY <1>18, <1>21 DEF States
<1>23. r = Fresh(Append(tokens, t))
  BY <1>20, <1>22, FreshIs
<1> QED BY <1>3, <1>19, <1>21, <1>23

(* What has been joined stays where it is.                                 *)
Opens(u, v) == Len(u) <= Len(v) /\ \A i \in 1..Len(u) : v[i] = u[i]

(* Joining one more token moves none of the others.                        *)
LEMMA JoinedStays ==
    ASSUME NEW X, Space \in X, NEW tokens \in Seq(Seq(X)), NEW f, JoinedBy(X, tokens, f)
    PROVE  \A n \in 0..Len(tokens) : Opens(f[n], f[Len(tokens)])
<1>1. PICK N : N = Len(tokens)
  OBVIOUS
<1>2. /\ f \in [0..N -> Seq(X)] /\ N \in Nat
      /\ \A n \in 1..N : f[n] = Link(f[n - 1], n, tokens[n])
  BY <1>1 DEF JoinedBy
<1> DEFINE G == {k \in 0..N : \A n \in 0..k : Opens(f[n], f[k])}
<1>3. \A n \in 0..N : f[n] \in Seq(X) /\ Len(f[n]) \in Nat
  BY <1>2
<1>4. 0 \in G
  <2>1. 0 \in 0..N /\ \A n \in 0..0 : n = 0
    BY <1>2
  <2> QED BY <1>3, <2>1 DEF Opens
<1>5. \A k \in 1..N : k - 1 \in G => k \in G
  <2> TAKE k \in 1..N
  <2> HAVE k - 1 \in G
  <2>1. PICK u, v, t : u = f[k - 1] /\ v = f[k] /\ t = tokens[k]
    OBVIOUS
  <2>2. u \in Seq(X) /\ v \in Seq(X) /\ t \in Seq(X) /\ k \in Nat /\ v = Link(u, k, t)
    <3>1. k - 1 \in 0..N /\ k \in 0..N /\ k \in Nat /\ tokens[k] \in Seq(X)
      BY <1>1, <1>2
    <3> QED BY <1>2, <2>1, <3>1
  <2>3. Opens(u, v)
    <3>1. PICK m \in 0..1 : Len(v) = (Len(u) + m) + Len(t) /\ \A i \in 1..Len(u) : v[i] = u[i]
      <4>1. Linked(u, k, t, v)
        BY <2>2, LinkIs
      <4> QED BY <4>1 DEF Linked
    <3>2. Len(u) \in Nat /\ Len(t) \in Nat
      BY <2>2
    <3> QED BY <3>1, <3>2 DEF Opens
  <2>4. ASSUME NEW n \in 0..k - 1 PROVE Opens(f[n], v)
    <3>1. Opens(f[n], u)
      BY <2>1
    <3>2. Len(f[n]) \in Nat /\ Len(u) \in Nat /\ Len(v) \in Nat
      <4>1. n \in 0..N
        BY <1>2
      <4> QED BY <1>3, <2>2, <4>1
    <3>3. \A i \in 1..Len(f[n]) : i \in 1..Len(u)
      BY <3>1, <3>2 DEF Opens
    <3> QED BY <2>3, <3>1, <3>2, <3>3 DEF Opens
  <2>5. Opens(v, v)
    BY <2>2 DEF Opens
  <2>6. \A n \in 0..k : n \in 0..k - 1 \/ n = k
    BY <1>2
  <2>7. k \in 0..N
    BY <1>2
  <2> QED BY <2>1, <2>4, <2>5, <2>6, <2>7
<1>6. N \in G
  <2>1. N \in 0..N
    BY <1>2
  <2> HIDE DEF G
  <2>2. \A n \in 0..N : n \in G
    BY <1>2, <1>4, <1>5, CountingUp
  <2> QED BY <2>1, <2>2
<1> QED BY <1>1, <1>6

(* Flushing what is fresh changes nothing.                                 *)
LEMMA FlushFresh ==
    ASSUME NEW tokens \in Seq(Seq(Pieces)) PROVE Flush(Fresh(tokens)) = Fresh(tokens)
<1>1. PICK s, r : s = Fresh(tokens) /\ r = Flush(s)
  OBVIOUS
<1>2. s \in States /\ s.tokens = tokens /\ s.open = <<>> /\ s.inside = FALSE
  BY <1>1, FreshIs
<1>3. r \in States /\ r.open = <<>> /\ r.inside = FALSE /\ r.tokens = tokens
  BY <1>1, <1>2, FlushIs
<1>4. r = Fresh(tokens)
  BY <1>3, FreshIs
<1> QED BY <1>1, <1>4

(* So is any token where it stands.                                        *)
LEMMA ProperRead ==
    ASSUME NEW q \in Seq(Pieces), NEW g, Reads(q, g), NEW t, Proper(t), NEW a \in Nat,
           StandsIn(q, t, a), NEW tokens \in Seq(Seq(Pieces)), g[a] = Fresh(tokens)
    PROVE  Flush(g[a + Len(t)]) = Fresh(Append(tokens, t))
<1>1. CASE Bare(t)
  BY <1>1, BareRead
<1>2. CASE ~Bare(t)
  <2>1. g[a + Len(t)] = Fresh(Append(tokens, t))
    BY <1>2, QuotedRead
  <2>2. Append(tokens, t) \in Seq(Seq(Pieces))
    <3>1. t \in Seq(Pieces)
      BY ProperIs
    <3> QED BY <3>1, AppendProperties
  <2> QED BY <2>1, <2>2, FlushFresh
<1> QED BY <1>1, <1>2

(* A query joined of tokens is split into the same.                        *)
LEMMA SplitJoin ==
    ASSUME NEW tokens \in Seq(Seq(Pieces)), \A n \in 1..Len(tokens) : Proper(tokens[n])
    PROVE  Join(tokens) \in Seq(Pieces) /\ SplitQuotedAndPlain(Join(tokens)) = tokens
<1>1. PICK N, q, f, g : /\ N = Len(tokens) /\ q = Join(tokens) /\ f = Joining(tokens)
                        /\ g = ReadingOf(q)
  OBVIOUS
<1>2. Space \in Pieces /\ N \in Nat
  BY <1>1 DEF Pieces
<1>3. JoinedBy(Pieces, tokens, f) /\ q = f[N]
  BY <1>1, <1>2, JoiningIs
<1>4. /\ f \in [0..N -> Seq(Pieces)] /\ f[0] = <<>>
      /\ \A n \in 1..N : f[n] = Link(f[n - 1], n, tokens[n])
  BY <1>1, <1>3 DEF JoinedBy
<1>5. \A n \in 0..N : f[n] \in Seq(Pieces) /\ Opens(f[n], q)
  BY <1>1, <1>2, <1>3, <1>4, JoinedStays
<1>6. q \in Seq(Pieces)
  BY <1>2, <1>3, <1>4
<1>7. Reads(q, g) /\ SplitQuotedAndPlain(q) = Flush(g[Len(q)]).tokens
  BY <1>1, <1>6, ReadingIs
<1>8. PICK L : L = Len(q)
  OBVIOUS
<1>9. /\ L \in Nat /\ g \in [0..L -> States] /\ g[0] = NothingRead
      /\ \A i \in 1..L : g[i] = Read(q, g[i - 1], i)
  BY <1>6, <1>7, <1>8 DEF Reads
<1>10. \A n \in 0..N : SubSeq(tokens, 1, n) \in Seq(Seq(Pieces))
  <2> TAKE n \in 0..N
  <2>1. n \in 0..Len(tokens)
    BY <1>1
  <2> QED BY <2>1, FirstOnes
<1> DEFINE Till(n) == SubSeq(tokens, 1, n)
           G == {n \in 0..N : Flush(g[Len(f[n])]) = Fresh(Till(n))}
<1>11. Till(0) = <<>> /\ g[0] = Fresh(Till(0))
  <2>1. Till(0) = <<>>
    BY SubSeqEmpty
  <2> QED BY <1>9, <2>1 DEF NothingRead, Fresh
<1>12. 0 \in G
  <2>1. Flush(Fresh(Till(0))) = Fresh(Till(0)) /\ 0 \in 0..N
    <3>1. 0 \in 0..N
      BY <1>2
    <3>2. Till(0) \in Seq(Seq(Pieces))
      BY <1>10, <3>1
    <3> HIDE DEF Till
    <3> QED BY <3>1, <3>2, FlushFresh
  <2>2. Len(f[0]) = 0
    BY <1>4
  <2> QED BY <1>11, <2>1, <2>2
<1>13. \A n \in 1..N : n - 1 \in G => n \in G
  <2> TAKE n \in 1..N
  <2> HAVE n - 1 \in G
  <2>1. PICK u, v, t, firsts, e : /\ u = f[n - 1] /\ v = f[n] /\ t = tokens[n]
                                  /\ firsts = Till(n - 1) /\ e = Len(u)
    OBVIOUS
  <2>2. n - 1 \in 0..N /\ n \in 0..N /\ n \in Nat /\ Len(tokens) \in Nat /\ n \in 1..Len(tokens)
    BY <1>1, <1>2
  <2>3. /\ u \in Seq(Pieces) /\ v \in Seq(Pieces) /\ t \in Seq(Pieces) /\ Proper(t)
        /\ firsts \in Seq(Seq(Pieces)) /\ v = Link(u, n, t) /\ Flush(g[e]) = Fresh(firsts)
        /\ Opens(v, q)
    <3>1. tokens[n] \in Seq(Pieces) /\ Proper(tokens[n])
      BY <2>2
    <3>2. firsts \in Seq(Seq(Pieces))
      BY <1>10, <2>1, <2>2
    <3> QED BY <1>4, <1>5, <2>1, <2>2, <3>1, <3>2
  <2>4. PICK m \in 0..1 :
           /\ m = (IF n = 1 THEN 0 ELSE 1)
           /\ Len(v) = (Len(u) + m) + Len(t)
           /\ m = 1 => v[Len(u) + 1] = Space
           /\ \A i \in 1..Len(t) : v[(Len(u) + m) + i] = t[i]
    <3>1. Linked(u, n, t, v)
      BY <1>2, <2>2, <2>3, LinkIs
    <3> QED BY <3>1 DEF Linked
  <2>5. PICK a, l : a = e + m /\ l = Len(t)
    OBVIOUS
  <2>6. /\ e \in Nat /\ l \in Nat /\ a \in Nat /\ Len(v) = a + l /\ a + l <= L
        /\ \A i \in 1..a + l : q[i] = v[i]
    <3>1. e \in Nat /\ l \in Nat /\ a \in Nat /\ Len(v) = a + l
      <4>1. Len(u) \in Nat /\ Len(t) \in Nat
        BY <2>3
      <4>2. Len(u) = e /\ Len(t) = l /\ a = e + m /\ Len(v) = (Len(u) + m) + Len(t)
        BY <2>1, <2>4, <2>5
      <4> QED BY <4>1, <4>2
    <3>2. Len(v) <= L /\ \A i \in 1..Len(v) : q[i] = v[i]
      BY <1>8, <2>3 DEF Opens
    <3> QED BY <3>1, <3>2
  <2>7. \A i \in 1..l : a + i \in 1..a + l /\ v[a + i] = t[i]
    <3>1. \A i \in 1..l : a + i \in 1..a + l
      BY <2>6
    <3>2. \A i \in 1..l : v[a + i] = t[i]
      BY <2>1, <2>4, <2>5
    <3> QED BY <3>1, <3>2
  <2>8. StandsIn(q, t, a)
    BY <1>8, <2>5, <2>6, <2>7 DEF StandsIn
  <2>9. g[a] = Fresh(firsts)
    <3>1. CASE n = 1
      <4>1. m = 0 /\ n - 1 = 0
        BY <2>4, <3>1
      <4>2. e = 0
        BY <1>4, <2>1, <4>1
      <4> QED BY <1>11, <2>1, <2>5, <4>1, <4>2
    <3>2. CASE n # 1
      <4>1. m = 1 /\ a = e + 1 /\ v[e + 1] = Space
        BY <2>1, <2>4, <2>5, <3>2
      <4>2. a \in 1..L /\ a \in 1..a + l /\ a - 1 = e /\ e \in 0..L
        BY <1>9, <2>6, <4>1
      <4>3. q[a] = Space
        BY <2>6, <4>1, <4>2
      <4>4. PICK s, r : s = g[e] /\ r = Flush(s)
        OBVIOUS
      <4>5. s \in States /\ r = Fresh(firsts)
        BY <1>9, <2>3, <4>2, <4>4
      <4>6. r.inside = s.inside /\ r.inside = FALSE
        <5>1. r.inside = s.inside
          BY <4>4, <4>5, FlushIs
        <5>2. r.inside = FALSE
          BY <2>3, <4>5, FreshIs
        <5> QED BY <5>1, <5>2
      <4>7. Read(q, s, a) = r
        <5>1. Space # Quote
          BY DEF Space, Quote
        <5> QED BY <4>3, <4>4, <4>6, <5>1 DEF Read
      <4>8. g[a] = Read(q, g[a - 1], a)
        BY <1>9, <4>2
      <4> QED BY <4>2, <4>4, <4>5, <4>7, <4>8
    <3> QED BY <3>1, <3>2
  <2>10. Flush(g[a + l]) = Fresh(Append(firsts, t))
    BY <1>6, <1>7, <2>3, <2>5, <2>6, <2>8, <2>9, ProperRead
  <2>11. Append(firsts, t) = Till(n)
    BY <2>1, <2>2, FirstNext
  <2> QED BY <2>1, <2>2, <2>6, <2>10, <2>11
<1>14. N \in G
  <2>1. N \in 0..N
    BY <1>2
  <2> HIDE DEF G
  <2>2. \A n \in 0..N : n \in G
    BY <1>2, <1>12, <1>13, CountingUp
  <2> QED BY <2>1, <2>2
<1>15. Till(N) = tokens
  <2>1. N \in 0..Len(tokens)
    BY <1>1, <1>2
  <2>2. SubSeq(tokens, 1, N) = [i \in 1..N |-> tokens[i]]
    BY <2>1, FirstOnes
  <2>3. tokens = [i \in 1..N |-> tokens[i]]
    BY <1>1
  <2> QED BY <2>2, <2>3
<1>16. PICK r : r = Flush(g[L])
  OBVIOUS
<1>17. r = Fresh(tokens)
  BY <1>3, <1>8, <1>14, <1>15, <1>16
<1>18. r.tokens = tokens
  BY <1>17, FreshIs
<1> QED BY <1>1, <1>6, <1>7, <1>8, <1>16, <1>18

-----------------------------------------------------------------------------

(* The length of a token is a number.                                      *)
LEMMA CharactersIs ==
    ASSUME NEW t \in Seq(Pieces) PROVE Characters(t) \in Nat
<1>1. PICK f, S : f = [i \in DOMAIN t |-> PieceWidth(t[i])] /\ S = DOMAIN t
  OBVIOUS
<1>2. \A x : PieceWidth(x) \in Nat
  BY DEF PieceWidth
<1>3. S = 1..Len(t) /\ Len(t) \in Nat /\ f \in [S -> Nat]
  BY <1>1, <1>2
<1>4. IsFiniteSet(S)
  BY <1>3, FS_Interval
<1>5. SumFunction(f) \in Nat
  BY <1>3, <1>4, SumNumber
<1> QED BY <1>1, <1>5 DEF Characters

(* Stripping takes punctuation, from the end only.                         *)
LEMMA StrippedIs ==
    ASSUME NEW t \in Seq(Pieces), NEW s, s = Stripped(t)
    PROVE  /\ s \in Seq(Pieces) /\ Len(s) <= Len(t)
           /\ \A i \in 1..Len(s) : s[i] = t[i]
           /\ \A i \in Len(s) + 1..Len(t) : t[i] = Trim
           /\ s # <<>> => s[Len(s)] # Trim
<1>1. PICK kept, n : kept = {i \in DOMAIN t : t[i] # Trim} /\ n = Len(t)
  OBVIOUS
<1>2. /\ n \in Nat /\ kept \subseteq 1..n /\ kept \subseteq Nat
      /\ \A i \in 1..n : i \in kept <=> t[i] # Trim
  BY <1>1
<1>3. s = IF kept = {} THEN <<>> ELSE SubSeq(t, 1, Max(kept))
  BY <1>1 DEF Stripped
<1>4. CASE kept = {}
  <2>1. s = <<>> /\ Len(s) = 0
    BY <1>3, <1>4
  <2>2. s \in Seq(Pieces) /\ \A i \in 1..0 : FALSE
    BY <2>1
  <2> QED BY <1>1, <1>2, <1>4, <2>1, <2>2
<1>5. CASE kept # {}
  <2>1. PICK m : m = Max(kept)
    OBVIOUS
  <2>2. m \in kept /\ \A i \in kept : i <= m
    <3>1. \E x \in kept : \A y \in kept : y <= x
      <4>1. n \in Nat /\ kept \subseteq Nat /\ \A y \in kept : y <= n
        BY <1>2
      <4> QED BY ONLY <1>5, <4>1, GreatestNumber
    <3>2. \E x \in kept : \A y \in kept : x >= y
      BY <1>2, <3>1
    <3>3. Max(kept) \in kept /\ \A y \in kept : Max(kept) >= y
      BY <3>2 DEF Max
    <3> QED BY <1>2, <2>1, <3>3
  <2>3. m \in 1..n /\ m \in 0..Len(t) /\ t[m] # Trim
    BY <1>1, <1>2, <2>2
  <2>4. s = SubSeq(t, 1, m)
    BY <1>3, <1>5, <2>1
  <2>5. s \in Seq(Pieces) /\ Len(s) = m /\ s = [i \in 1..m |-> t[i]]
    BY <2>3, <2>4, FirstOnes
  <2>6. \A i \in m + 1..n : t[i] = Trim
    <3> TAKE i \in m + 1..n
    <3>1. i \in 1..n /\ ~(i <= m)
      BY <1>2, <2>3
    <3> QED BY <1>2, <2>2, <3>1
  <2> QED BY <1>1, <1>2, <2>3, <2>5, <2>6
<1> QED BY <1>4, <1>5

(* A token that ends without any is as it was.                             *)
LEMMA StrippedSame ==
    ASSUME NEW t \in Seq(Pieces), t # <<>>, t[Len(t)] # Trim PROVE Stripped(t) = t
<1>1. PICK s, n : s = Stripped(t) /\ n = Len(t)
  OBVIOUS
<1>2. /\ s \in Seq(Pieces) /\ Len(s) <= n /\ \A i \in 1..Len(s) : s[i] = t[i]
      /\ \A i \in Len(s) + 1..n : t[i] = Trim
  BY <1>1, StrippedIs
<1>3. n \in Nat \ {0} /\ Len(s) \in Nat
  BY <1>1, <1>2
<1>4. Len(s) = n
  <2>1. n \in Len(s) + 1..n \/ Len(s) = n
    BY <1>2, <1>3
  <2> QED BY <1>1, <1>2, <2>1
<1>5. s = [i \in 1..n |-> s[i]] /\ t = [i \in 1..n |-> t[i]]
  BY <1>1, <1>2, <1>4
<1> QED BY <1>1, <1>2, <1>4, <1>5

TermFor(t) == QuoteCompound(Trimmed(t))

KeptToken(t) == IsQuoted(t) \/ ~Dropped(Stripped(t))

(* Nothing is left to clean in it.                                         *)
Settled(t) ==
    /\ Proper(t)
    /\ Bare(t) => /\ t[Len(t)] # Trim /\ ~IsNetworkNoise(t) /\ t # <<StopWord>>
                  /\ Hyphen \in ToSet(t) => Characters(t) <= 3

(* Pieces no cleaning of a token adds or takes away.                       *)
Lasting(P) == P \cap {Quote, Space, Trim, StopWord} = {}

(* What lasts of a token is what lasts of its term.                        *)
LEMMA TermForIs ==
    ASSUME NEW t \in Seq(Pieces), NEW P, Lasting(P)
    PROVE  TermFor(t) \in Seq(Pieces) /\ Picked(TermFor(t), P) = Picked(t, P)
<1>1. PICK u : u = Trimmed(t)
  OBVIOUS
<1>2. u \in Seq(Pieces) /\ Picked(u, P) = Picked(t, P)
  <2>1. CASE IsQuoted(t)
    BY <1>1, <2>1 DEF Trimmed
  <2>2. CASE ~IsQuoted(t)
    <3>1. u = Stripped(t)
      BY <1>1, <2>2 DEF Trimmed
    <3>2. /\ u \in Seq(Pieces) /\ Len(u) <= Len(t) /\ \A i \in 1..Len(u) : u[i] = t[i]
          /\ \A i \in Len(u) + 1..Len(t) : t[i] = Trim
      BY <3>1, StrippedIs
    <3>3. \A i \in Len(u) + 1..Len(t) : t[i] \notin P
      BY <3>2 DEF Lasting
    <3> QED BY <3>2, <3>3, PickedOpening
  <2> QED BY <2>1, <2>2
<1>3. TermFor(t) = u \/ TermFor(t) = Quoted(u)
  BY <1>1 DEF TermFor, QuoteCompound
<1>4. PICK v : v = Quoted(u)
  OBVIOUS
<1>5. v \in Seq(Pieces) /\ Picked(v, P) = Picked(u, P)
  <2>1. PICK q, w : q = <<Quote>> /\ w = q \o u
    OBVIOUS
  <2>2. q \in Seq(Pieces) /\ \A i \in 1..Len(q) : q[i] \notin P
    BY <2>1 DEF Pieces, Lasting
  <2>3. w \in Seq(Pieces) /\ v = w \o q
    BY <1>2, <1>4, <2>1, <2>2, ConcatProperties DEF Quoted
  <2>4. v \in Seq(Pieces)
    BY <2>2, <2>3, ConcatProperties
  <2>5. Picked(q, P) = <<>>
    BY <2>2, PickedSeq
  <2>6. Picked(w, P) = Picked(q, P) \o Picked(u, P) /\ Picked(v, P) = Picked(w, P) \o Picked(q, P)
    <3>1. q \in Seq(Pieces) /\ u \in Seq(Pieces) /\ w \in Seq(Pieces) /\ w = q \o u /\ v = w \o q
      BY <1>2, <2>1, <2>2, <2>3
    <3>2. Picked(q \o u, P) = Picked(q, P) \o Picked(u, P)
      BY ONLY <3>1, PickedTogether
    <3>3. Picked(w \o q, P) = Picked(w, P) \o Picked(q, P)
      <4>1. w \in Seq(Pieces) /\ q \in Seq(Pieces)
        BY <3>1
      <4> QED BY ONLY <4>1, PickedTogether
    <3> QED BY <3>1, <3>2, <3>3
  <2>7. Picked(u, P) \in Seq(Pieces)
    BY <1>2, PickedSeq
  <2>8. <<>> \o Picked(u, P) = Picked(u, P) /\ Picked(u, P) \o <<>> = Picked(u, P)
    BY <2>7, ConcatEmptySeq
  <2> QED BY <2>4, <2>5, <2>6, <2>8
<1> QED BY <1>2, <1>3, <1>4, <1>5

(* Nothing is left to clean in a term; phrases are as they were, and only  *)
(* what has a hyphen is quoted.                                            *)
LEMMA TermSettled ==
    ASSUME NEW t, Proper(t), KeptToken(t), NEW x, x = TermFor(t)
    PROVE  /\ Settled(x)
           /\ IsQuoted(t) => x = t
           /\ ~IsQuoted(t) /\ IsQuoted(x) => Hyphen \in ToSet(x)
<1>1. t \in Seq(Pieces) /\ t # <<>> /\ (IsQuoted(t) <=> ~Bare(t))
  BY ProperIs
<1>2. CASE IsQuoted(t)
  <2>1. x = t
    BY <1>2 DEF TermFor, QuoteCompound, Trimmed
  <2> QED BY <1>1, <1>2, <2>1 DEF Settled
<1>3. CASE ~IsQuoted(t)
  <2>1. PICK s : s = Stripped(t)
    OBVIOUS
  <2>2. /\ s \in Seq(Pieces) /\ Len(s) <= Len(t) /\ \A i \in 1..Len(s) : s[i] = t[i]
        /\ s # <<>> => s[Len(s)] # Trim
    BY <1>1, <2>1, StrippedIs
  <2>3. s # <<>> /\ ~IsNetworkNoise(s) /\ s # <<StopWord>>
    BY <1>3, <2>1 DEF KeptToken, Dropped
  <2>4. Bare(s)
    <3>1. \A i \in 1..Len(s) : i \in 1..Len(t)
      BY <1>1, <2>2
    <3>2. \A i \in 1..Len(t) : t[i] # Space /\ t[i] # Quote
      BY <1>1, <1>3 DEF Bare
    <3> QED BY <2>2, <2>3, <3>1, <3>2 DEF Bare
  <2>5. Proper(s) /\ ~IsQuoted(s)
    <3>1. Proper(s)
      BY <2>4 DEF Proper
    <3> QED BY <2>4, <3>1, ProperIs
  <2>6. x = IF Hyphen \in ToSet(s) /\ Characters(s) > 3 THEN Quoted(s) ELSE s
    BY <1>3, <2>1, <2>5 DEF TermFor, QuoteCompound, Trimmed
  <2>7. CASE Hyphen \in ToSet(s) /\ Characters(s) > 3
    <3>1. x = Quoted(s)
      BY <2>6, <2>7
    <3>2. Phrasing(s)
      BY <2>4 DEF Bare, Phrasing
    <3>3. Proper(x)
      BY <2>2, <3>1, <3>2 DEF Proper
    <3>4. x \in Seq(Pieces) /\ Len(x) = Len(s) + 2 /\ x[1] = Quote /\ \A i \in 1..Len(s) : x[1 + i] = s[i]
      <4>1. Quote \in Pieces
        BY DEF Pieces
      <4> QED BY <2>2, <3>1, <4>1, QuotedIs
    <3>5. IsQuoted(x)
      BY <3>4 DEF IsQuoted
    <3>6. ~Bare(x)
      BY <3>3, <3>5, ProperIs
    <3>7. Hyphen \in ToSet(x)
      <4>1. PICK i \in 1..Len(s) : s[i] = Hyphen
        BY <2>2, <2>7 DEF ToSet
      <4>2. 1 + i \in 1..Len(x) /\ x[1 + i] = Hyphen
        BY <2>2, <3>4, <4>1
      <4> QED BY <3>4, <4>2 DEF ToSet
    <3> QED BY <1>3, <3>3, <3>6, <3>7 DEF Settled
  <2>8. CASE ~(Hyphen \in ToSet(s) /\ Characters(s) > 3)
    <3>1. x = s
      BY <2>6, <2>8
    <3>2. Characters(s) \in Nat
      BY <2>2, CharactersIs
    <3>3. Hyphen \in ToSet(s) => Characters(s) <= 3
      BY <2>8, <3>2
    <3> QED BY <1>3, <2>2, <2>3, <2>5, <3>1, <3>3 DEF Settled
  <2> QED BY <2>7, <2>8
<1> QED BY <1>2, <1>3

(* What has nothing left to clean is kept as it is.                        *)
LEMMA SettledStays ==
    ASSUME NEW t, Settled(t) PROVE KeptToken(t) /\ TermFor(t) = t
<1>1. Proper(t) /\ t \in Seq(Pieces) /\ t # <<>> /\ (IsQuoted(t) <=> ~Bare(t))
  BY ProperIs DEF Settled
<1>2. CASE IsQuoted(t)
  BY <1>2 DEF KeptToken, TermFor, QuoteCompound, Trimmed
<1>3. CASE ~IsQuoted(t)
  <2>1. /\ t[Len(t)] # Trim /\ ~IsNetworkNoise(t) /\ t # <<StopWord>>
        /\ Hyphen \in ToSet(t) => Characters(t) <= 3
    BY <1>1, <1>3 DEF Settled
  <2>2. Stripped(t) = t
    BY <1>1, <2>1, StrippedSame
  <2>3. KeptToken(t)
    BY <1>1, <2>1, <2>2 DEF KeptToken, Dropped
  <2>4. ~(Hyphen \in ToSet(t) /\ Characters(t) > 3)
    <3>1. Characters(t) \in Nat
      BY <1>1, CharactersIs
    <3> QED BY <2>1, <3>1
  <2>5. TermFor(t) = t
    BY <1>3, <2>2, <2>4 DEF TermFor, QuoteCompound, Trimmed
  <2> QED BY <2>3, <2>5
<1> QED BY <1>2, <1>3

(* A word that is dropped is noise or has nothing lasting.                 *)
LEMMA DroppedIs ==
    ASSUME NEW t, Proper(t), NEW P, Lasting(P)
    PROVE  /\ KeptToken(t) => IsQuoted(t) \/ ~IsNetworkNoise(t)
           /\ ~KeptToken(t) => IsNetworkNoise(t) \/ Picked(t, P) = <<>>
<1>1. t \in Seq(Pieces) /\ t # <<>>
  BY ProperIs
<1>2. PICK s : s = Stripped(t)
  OBVIOUS
<1>3. /\ s \in Seq(Pieces) /\ Len(s) <= Len(t) /\ \A i \in 1..Len(s) : s[i] = t[i]
      /\ \A i \in Len(s) + 1..Len(t) : t[i] = Trim
  BY <1>1, <1>2, StrippedIs
<1>4. s # <<>> => s[1] = t[1]
  <2>1. s # <<>> => 1 \in 1..Len(s)
    BY <1>3
  <2> QED BY <1>3, <2>1
<1>5. Picked(s, P) = Picked(t, P)
  <2>1. \A i \in Len(s) + 1..Len(t) : t[i] \notin P
    BY <1>3 DEF Lasting
  <2> QED BY <1>1, <1>3, <2>1, PickedOpening
<1>6. (s = <<>> \/ s = <<StopWord>>) => Picked(s, P) = <<>>
  <2>1. (s = <<>> \/ s = <<StopWord>>) => \A i \in 1..Len(s) : s[i] \notin P
    BY DEF Lasting
  <2> QED BY <1>3, <2>1, PickedSeq
<1>7. ~KeptToken(t) => Dropped(s)
  BY <1>2 DEF KeptToken
<1>8. KeptToken(t) => IsQuoted(t) \/ ~Dropped(s)
  BY <1>2 DEF KeptToken
<1>9. Dropped(s) => s = <<>> \/ s = <<StopWord>> \/ (s # <<>> /\ IsNetworkNoise(s))
  BY DEF Dropped
<1>10. s # <<>> => (IsNetworkNoise(s) <=> IsNetworkNoise(t))
  BY <1>4 DEF IsNetworkNoise
<1>11. ~Dropped(s) => s # <<>> /\ ~IsNetworkNoise(s)
  BY DEF Dropped
<1> QED BY <1>5, <1>6, <1>7, <1>8, <1>9, <1>10, <1>11

-----------------------------------------------------------------------------

(* The tokens of a query, those that are kept, and what they become.       *)
Mapped(s) == [i \in DOMAIN s |-> TermFor(s[i])]

KeptOf(tokens) == {i \in DOMAIN tokens : KeptToken(tokens[i])}

(* Each token kept becomes its term.                                       *)
LEMMA MappedIs ==
    ASSUME NEW s \in Seq(Seq(Pieces))
    PROVE  /\ Mapped(s) \in Seq(Seq(Pieces)) /\ Len(Mapped(s)) = Len(s)
           /\ \A i \in 1..Len(s) : Mapped(s)[i] = TermFor(s[i])
<1>1. \A i \in 1..Len(s) : TermFor(s[i]) \in Seq(Pieces)
  <2> TAKE i \in 1..Len(s)
  <2>1. s[i] \in Seq(Pieces)
    OBVIOUS
  <2>2. Lasting({})
    BY DEF Lasting
  <2> QED BY <2>1, <2>2, TermForIs
<1>2. Mapped(s) = [i \in 1..Len(s) |-> TermFor(s[i])]
  BY DEF Mapped
<1> QED BY <1>1, <1>2

(* One more token is one more term.                                        *)
LEMMA MappedNext ==
    ASSUME NEW s \in Seq(Seq(Pieces)), NEW t \in Seq(Pieces)
    PROVE  Mapped(Append(s, t)) = Append(Mapped(s), TermFor(t))
<1>1. PICK r, m, n, N : /\ r = Append(s, t) /\ m = Mapped(s) /\ n = Mapped(r) /\ N = Len(s)
  OBVIOUS
<1>2. /\ r \in Seq(Seq(Pieces)) /\ Len(r) = N + 1 /\ r[N + 1] = t /\ N \in Nat
      /\ \A i \in 1..N : r[i] = s[i]
  BY <1>1, AppendProperties
<1>3. m \in Seq(Seq(Pieces)) /\ Len(m) = N /\ \A i \in 1..N : m[i] = TermFor(s[i])
  BY <1>1, MappedIs
<1>4. n \in Seq(Seq(Pieces)) /\ Len(n) = N + 1 /\ \A i \in 1..N + 1 : n[i] = TermFor(r[i])
  BY <1>1, <1>2, MappedIs
<1>5. TermFor(t) \in Seq(Pieces)
  <2>1. Lasting({})
    BY DEF Lasting
  <2> QED BY <2>1, TermForIs
<1>6. PICK l : l = Append(m, TermFor(t))
  OBVIOUS
<1>7. /\ l \in Seq(Seq(Pieces)) /\ Len(l) = N + 1 /\ l[N + 1] = TermFor(t)
      /\ \A i \in 1..N : l[i] = m[i]
  BY <1>3, <1>5, <1>6, AppendProperties
<1>8. \A i \in 1..N + 1 : l[i] = n[i]
  <2> TAKE i \in 1..N + 1
  <2>1. i \in 1..N \/ i = N + 1
    BY <1>2
  <2>2. CASE i \in 1..N
    <3>1. l[i] = TermFor(s[i]) /\ r[i] = s[i]
      BY <1>2, <1>3, <1>7, <2>2
    <3> QED BY <1>4, <3>1
  <2>3. CASE i = N + 1
    BY <1>2, <1>4, <1>7, <2>3
  <2> QED BY <2>1, <2>2, <2>3
<1>9. l = [i \in 1..N + 1 |-> l[i]] /\ n = [i \in 1..N + 1 |-> n[i]]
  BY <1>4, <1>7
<1> QED BY <1>1, <1>6, <1>8, <1>9

(* The terms of a query are those of its tokens that are kept.             *)
LEMMA TermsAre ==
    ASSUME NEW q \in Seq(Pieces), NEW was, was = SplitQuotedAndPlain(q),
           NEW parts, parts = Select(was, KeptOf(was))
    PROVE  /\ was \in Seq(Seq(Pieces)) /\ \A i \in 1..Len(was) : Proper(was[i])
           /\ parts \in Seq(Seq(Pieces))
           /\ \A i \in 1..Len(parts) : Proper(parts[i]) /\ KeptToken(parts[i])
           /\ Terms(q) = Mapped(parts)
<1>1. was \in Seq(Seq(Pieces)) /\ \A i \in 1..Len(was) : Proper(was[i])
  BY SplitProper
<1>2. PICK K : K = KeptOf(was)
  OBVIOUS
<1>3. DOMAIN was = 1..Len(was) /\ K \in SUBSET DOMAIN was /\ \A i \in K : KeptToken(was[i])
  BY <1>1, <1>2 DEF KeptOf
<1>4. parts \in Seq(Seq(Pieces))
  BY <1>1, <1>2, <1>3, SelectPicks
<1>5. PICK at : Picks(parts, was, K, at)
  BY <1>1, <1>2, <1>3, SelectPicks
<1>6. \A i \in 1..Len(parts) : at[i] \in K /\ parts[i] = was[at[i]]
  BY <1>5 DEF Picks
<1>7. \A i \in 1..Len(parts) : Proper(parts[i]) /\ KeptToken(parts[i])
  BY <1>1, <1>3, <1>6
<1>8. K = {i \in DOMAIN was : IsQuoted(was[i]) \/ ~Dropped(Stripped(was[i]))}
  BY <1>2 DEF KeptOf, KeptToken
<1>9. Terms(q) = [i \in DOMAIN parts |-> QuoteCompound(Trimmed(parts[i]))]
  BY <1>2, <1>8 DEF Terms
<1>10. Terms(q) = Mapped(parts)
  BY <1>9 DEF Mapped, TermFor
<1> QED BY <1>1, <1>4, <1>7, <1>10

(* There is nothing left to clean.                                         *)
LEMMA TermsStay ==
    ASSUME NEW tokens \in Seq(Seq(Pieces)), \A i \in 1..Len(tokens) : Settled(tokens[i])
    PROVE  Terms(Join(tokens)) = tokens
<1>1. PICK q : q = Join(tokens)
  OBVIOUS
<1>2. \A i \in 1..Len(tokens) : Proper(tokens[i]) /\ KeptToken(tokens[i]) /\ TermFor(tokens[i]) = tokens[i]
  BY SettledStays DEF Settled
<1>3. q \in Seq(Pieces) /\ SplitQuotedAndPlain(q) = tokens
  BY <1>1, <1>2, SplitJoin
<1>4. KeptOf(tokens) = DOMAIN tokens
  <2>1. DOMAIN tokens = 1..Len(tokens)
    OBVIOUS
  <2> QED BY <1>2, <2>1 DEF KeptOf
<1>5. Select(tokens, KeptOf(tokens)) = tokens
  BY <1>4, SelectWhole
<1>6. Terms(q) = Mapped(tokens)
  <2>1. PICK was, parts : was = tokens /\ parts = Select(was, KeptOf(was))
    OBVIOUS
  <2>2. Terms(q) = Mapped(parts)
    BY <1>3, <2>1, TermsAre
  <2> QED BY <1>5, <2>1, <2>2
<1>7. Mapped(tokens) = tokens
  <2>1. PICK m : m = Mapped(tokens)
    OBVIOUS
  <2>2. m \in Seq(Seq(Pieces)) /\ Len(m) = Len(tokens) /\ \A i \in 1..Len(tokens) : m[i] = tokens[i]
    BY <1>2, <2>1, MappedIs
  <2>3. m = [i \in 1..Len(tokens) |-> m[i]] /\ tokens = [i \in 1..Len(tokens) |-> tokens[i]]
    BY <2>2
  <2> QED BY <2>1, <2>2, <2>3
<1> QED BY <1>1, <1>6, <1>7

(* What lasts of the tokens that are not noise is what lasts of the terms. *)
QuietOf(tokens) == {i \in DOMAIN tokens : IsQuoted(tokens[i]) \/ ~IsNetworkNoise(tokens[i])}

(* Taken one by one, the tokens have the same lasting pieces as their      *)
(* terms.                                                                  *)
LEMMA LastingKept ==
    ASSUME NEW was \in Seq(Seq(Pieces)), \A i \in 1..Len(was) : Proper(was[i]),
           NEW P, Lasting(P)
    PROVE  Picked(Join(Mapped(Select(was, KeptOf(was)))), P)
              = Picked(Join(Select(was, QuietOf(was))), P)
<1>1. PICK N, K, H : N = Len(was) /\ K = KeptOf(was) /\ H = QuietOf(was)
  OBVIOUS
<1>2. /\ N \in Nat /\ DOMAIN was = 1..N /\ K \in SUBSET DOMAIN was /\ H \in SUBSET DOMAIN was
      /\ \A i \in 1..N : /\ was[i] \in Seq(Pieces) /\ Proper(was[i])
                         /\ i \in K <=> KeptToken(was[i])
                         /\ i \in H <=> IsQuoted(was[i]) \/ ~IsNetworkNoise(was[i])
  BY <1>1 DEF KeptOf, QuietOf
<1>3. Space \in Pieces /\ Space \notin P
  BY DEF Pieces, Lasting
<1> DEFINE kept(n) == Select(was, UpToPlace(K, n))
           quiet(n) == Select(was, UpToPlace(H, n))
           G == {n \in 0..N : Picked(Join(Mapped(kept(n))), P) = Picked(Join(quiet(n)), P)}
<1>0. SelectsUp(Seq(Pieces), was, K) /\ SelectsUp(Seq(Pieces), was, H)
  BY <1>2, SelectUpTo
<1>4. /\ kept(0) = <<>> /\ quiet(0) = <<>>
      /\ \A n \in 0..N : kept(n) \in Seq(Seq(Pieces)) /\ quiet(n) \in Seq(Seq(Pieces))
      /\ kept(N) = Select(was, K) /\ quiet(N) = Select(was, H)
  BY <1>0, <1>1 DEF SelectsUp
<1>5. \A n \in 1..N : /\ kept(n) = IF n \in K THEN Append(kept(n - 1), was[n]) ELSE kept(n - 1)
                      /\ quiet(n) = IF n \in H THEN Append(quiet(n - 1), was[n]) ELSE quiet(n - 1)
  BY <1>0, <1>1 DEF SelectsUp
<1> HIDE DEF kept, quiet
<1>6. 0 \in G
  <2>1. Mapped(<<>>) = <<>>
    BY DEF Mapped
  <2>2. 0 \in 0..N
    BY <1>2
  <2> QED BY <1>4, <2>1, <2>2
<1>7. \A n \in 1..N : n - 1 \in G => n \in G
  <2> TAKE n \in 1..N
  <2> HAVE n - 1 \in G
  <2>1. PICK t, a, b, m, x : /\ t = was[n] /\ a = kept(n - 1) /\ b = quiet(n - 1)
                             /\ m = Mapped(a) /\ x = TermFor(t)
    OBVIOUS
  <2>2. n - 1 \in 0..N /\ n \in 0..N
    BY <1>2
  <2>3. /\ a \in Seq(Seq(Pieces)) /\ b \in Seq(Seq(Pieces)) /\ t \in Seq(Pieces) /\ Proper(t)
        /\ Picked(Join(m), P) = Picked(Join(b), P)
    BY <1>2, <1>4, <2>1, <2>2
  <2>4. m \in Seq(Seq(Pieces))
    BY <2>1, <2>3, MappedIs
  <2>5. x \in Seq(Pieces) /\ Picked(x, P) = Picked(t, P)
    BY <2>1, <2>3, TermForIs
  <2>6. Mapped(Append(a, t)) = Append(m, x)
    BY <2>1, <2>3, MappedNext
  <2>7. Picked(Join(Append(m, x)), P) = Picked(Join(m), P) \o Picked(x, P)
    <3>1. m \in Seq(Seq(Pieces)) /\ x \in Seq(Pieces)
      BY <2>4, <2>5
    <3> QED BY ONLY <1>3, <3>1, PickedNext
  <2>8. Picked(Join(Append(b, t)), P) = Picked(Join(b), P) \o Picked(t, P)
    BY <1>3, <2>3, PickedNext
  <2>9. /\ n \in K => n \in H
        /\ n \notin K => n \notin H \/ Picked(t, P) = <<>>
    <3>1. /\ KeptToken(t) => IsQuoted(t) \/ ~IsNetworkNoise(t)
          /\ ~KeptToken(t) => IsNetworkNoise(t) \/ Picked(t, P) = <<>>
      BY <2>3, DroppedIs
    <3>2. /\ n \in K <=> KeptToken(t)
          /\ n \in H <=> IsQuoted(t) \/ ~IsNetworkNoise(t)
      BY <1>2, <2>1
    <3>3. ~KeptToken(t) => ~IsQuoted(t)
      BY DEF KeptToken
    <3> QED BY <3>1, <3>2, <3>3
  <2>10. CASE n \in K
    <3>1. kept(n) = Append(a, t) /\ quiet(n) = Append(b, t)
      BY <1>5, <2>1, <2>9, <2>10
    <3> QED BY <2>2, <2>3, <2>5, <2>6, <2>7, <2>8, <3>1
  <2>11. CASE n \notin K /\ n \in H
    <3>1. kept(n) = a /\ quiet(n) = Append(b, t) /\ Picked(t, P) = <<>>
      BY <1>5, <2>1, <2>9, <2>11
    <3>2. Picked(Join(b), P) \o <<>> = Picked(Join(b), P)
      <4>1. Join(b) \in Seq(Pieces)
        BY <1>3, <2>3, JoinNext
      <4>2. Picked(Join(b), P) \in Seq(Pieces)
        BY <4>1, PickedSeq
      <4> QED BY <4>2, ConcatEmptySeq
    <3> QED BY <2>1, <2>2, <2>3, <2>8, <3>1, <3>2
  <2>12. CASE n \notin K /\ n \notin H
    <3>1. kept(n) = a /\ quiet(n) = b
      BY <1>5, <2>1, <2>12
    <3> QED BY <2>1, <2>2, <2>3, <3>1
  <2> QED BY <2>10, <2>11, <2>12
<1>8. N \in G
  <2>1. N \in 0..N
    BY <1>2
  <2> HIDE DEF G
  <2>2. \A n \in 0..N : n \in G
    BY <1>2, <1>6, <1>7, CountingUp
  <2> QED BY <2>1, <2>2
<1> QED BY <1>1, <1>4, <1>8

(* Every quote has a partner.                                              *)
QuotesIn(u) == Len(Picked(u, {Quote}))

(* A token has two quotes or none.                                         *)
LEMMA QuotesOfToken ==
    ASSUME NEW t, Proper(t) PROVE QuotesIn(t) \in {0, 2}
<1>1. CASE Bare(t)
  <2>1. t \in Seq(Pieces) /\ \A i \in 1..Len(t) : t[i] \notin {Quote}
    BY <1>1 DEF Bare
  <2>2. Picked(t, {Quote}) = <<>>
    BY <2>1, PickedSeq
  <2> QED BY <2>2 DEF QuotesIn
<1>2. CASE ~Bare(t)
  <2>1. PICK b \in Seq(Pieces) : Phrasing(b) /\ t = Quoted(b)
    BY <1>2 DEF Proper
  <2>2. PICK n : n = Len(b)
    OBVIOUS
  <2>3. n \in Nat /\ \A i \in 1..n : b[i] # Quote
    BY <2>1, <2>2 DEF Phrasing
  <2>4. /\ t \in Seq(Pieces) /\ Len(t) = n + 2 /\ t[1] = Quote /\ t[n + 2] = Quote
        /\ \A i \in 1..n : t[1 + i] = b[i]
    <3>1. Quote \in Pieces
      BY DEF Pieces
    <3>2. /\ t \in Seq(Pieces) /\ Len(t) = Len(b) + 2 /\ t[1] = Quote /\ t[Len(b) + 2] = Quote
          /\ \A i \in 1..Len(b) : t[1 + i] = b[i]
      <4>1. PICK w : w = Quoted(b)
        OBVIOUS
      <4>2. /\ w \in Seq(Pieces) /\ Len(w) = Len(b) + 2 /\ w[1] = Quote /\ w[Len(b) + 2] = Quote
            /\ \A i \in 1..Len(b) : w[1 + i] = b[i]
        BY ONLY b \in Seq(Pieces), <3>1, <4>1, QuotedIs
      <4> QED BY <2>1, <4>1, <4>2
    <3> QED BY <2>2, <3>2
  <2>5. PICK K : K = PlacesOf(t, {Quote})
    OBVIOUS
  <2>6. \A i \in 1..n + 2 : t[i] = Quote <=> i = 1 \/ i = n + 2
    <3> TAKE i \in 1..n + 2
    <3>1. i = 1 \/ i = n + 2 \/ (i - 1 \in 1..n /\ i = 1 + (i - 1))
      BY <2>3
    <3>2. i - 1 \in 1..n => i # 1 /\ i # n + 2
      BY <2>3
    <3> QED BY <2>3, <2>4, <3>1, <3>2
  <2>7. K = {1} \cup {n + 2} /\ 1 # n + 2
    <3>1. DOMAIN t = 1..n + 2 /\ 1 \in 1..n + 2 /\ n + 2 \in 1..n + 2 /\ 1 # n + 2
      BY <2>3, <2>4
    <3> QED BY <2>5, <2>6, <3>1 DEF PlacesOf
  <2>8. Cardinality(K) = 2
    <3>1. IsFiniteSet({1}) /\ Cardinality({1}) = 1
      BY FS_Singleton
    <3>2. Cardinality({1} \cup {n + 2}) = Cardinality({1}) + 1
      BY <2>7, <3>1, FS_AddElement
    <3>3. 1 + 1 = 2
      OBVIOUS
    <3> QED BY <2>7, <3>1, <3>2, <3>3
  <2>9. Len(Picked(t, {Quote})) = Cardinality(K)
    BY <2>4, <2>5, PickedSeq
  <2> QED BY <2>8, <2>9 DEF QuotesIn
<1> QED BY <1>1, <1>2

(* So the quotes of joined tokens are pairs.                               *)
LEMMA QuotesPaired ==
    ASSUME NEW tokens \in Seq(Seq(Pieces)), \A i \in 1..Len(tokens) : Proper(tokens[i])
    PROVE  QuotesIn(Join(tokens)) % 2 = 0
<1>1. PICK N, f : N = Len(tokens) /\ f = Joining(tokens)
  OBVIOUS
<1>2. Space \in Pieces /\ N \in Nat /\ \A n \in 1..N : tokens[n] \in Seq(Pieces) /\ Proper(tokens[n])
  BY <1>1 DEF Pieces
<1>3. JoinedBy(Pieces, tokens, f) /\ Join(tokens) = f[N]
  BY <1>1, <1>2, JoiningIs
<1>4. /\ f \in [0..N -> Seq(Pieces)] /\ f[0] = <<>>
      /\ \A n \in 1..N : f[n] = Link(f[n - 1], n, tokens[n])
  BY <1>1, <1>3 DEF JoinedBy
<1> DEFINE G == {n \in 0..N : QuotesIn(f[n]) % 2 = 0}
<1>5. 0 \in G
  <2>1. 0 \in 0..N /\ f[0] \in Seq(Pieces) /\ \A i \in 1..Len(f[0]) : f[0][i] \notin {Quote}
    BY <1>2, <1>4
  <2>2. Picked(f[0], {Quote}) = <<>>
    BY <2>1, PickedSeq
  <2>3. QuotesIn(f[0]) = 0
    BY <2>2 DEF QuotesIn
  <2> QED BY <2>1, <2>3
<1>6. \A n \in 1..N : n - 1 \in G => n \in G
  <2> TAKE n \in 1..N
  <2> HAVE n - 1 \in G
  <2>1. PICK u, t, gap, v, P : /\ u = f[n - 1] /\ t = tokens[n] /\ v = u \o gap /\ P = {Quote}
                               /\ gap = (IF n = 1 THEN <<>> ELSE <<Space>>)
    OBVIOUS
  <2>2. n \in 0..N /\ n - 1 \in 0..N /\ u \in Seq(Pieces) /\ t \in Seq(Pieces) /\ Proper(t)
    <3>1. n \in 0..N /\ n - 1 \in 0..N
      BY <1>2
    <3>2. f[n - 1] \in Seq(Pieces)
      BY <1>4, <3>1
    <3>3. tokens[n] \in Seq(Pieces) /\ Proper(tokens[n])
      BY <1>2
    <3> QED BY <2>1, <3>1, <3>2, <3>3
  <2>3. f[n] = v \o t
    BY <1>4, <2>1 DEF Link
  <2>4. gap \in Seq(Pieces) /\ \A i \in 1..Len(gap) : gap[i] \notin P
    <3>1. Space # Quote
      BY DEF Space, Quote
    <3>2. CASE gap = <<>>
      BY <3>2
    <3>3. CASE gap = <<Space>>
      BY <1>2, <2>1, <3>1, <3>3
    <3> QED BY <2>1, <3>2, <3>3
  <2>5. v \in Seq(Pieces)
    BY <2>1, <2>2, <2>4, ConcatProperties
  <2>6. Picked(v \o t, P) = Picked(v, P) \o Picked(t, P)
    <3>1. v \in Seq(Pieces) /\ t \in Seq(Pieces)
      BY <2>2, <2>5
    <3> QED BY ONLY <3>1, PickedTogether
  <2>7. Picked(u \o gap, P) = Picked(u, P) \o Picked(gap, P)
    <3>1. u \in Seq(Pieces) /\ gap \in Seq(Pieces)
      BY <2>2, <2>4
    <3> QED BY ONLY <3>1, PickedTogether
  <2>8. Picked(gap, P) = <<>> /\ Picked(u, P) \in Seq(Pieces) /\ Picked(t, P) \in Seq(Pieces)
    BY <2>2, <2>4, PickedSeq
  <2>9. Picked(v, P) = Picked(u, P)
    <3>1. Picked(u, P) \o <<>> = Picked(u, P)
      BY <2>8, ConcatEmptySeq
    <3> QED BY <2>1, <2>7, <2>8, <3>1
  <2>10. Len(Picked(v \o t, P)) = Len(Picked(u, P)) + Len(Picked(t, P))
    BY <2>6, <2>8, <2>9, ConcatProperties
  <2>11. PICK a, b : a = QuotesIn(u) /\ b = QuotesIn(t)
    OBVIOUS
  <2>12. QuotesIn(f[n]) = a + b /\ a \in Nat /\ a % 2 = 0 /\ b \in {0, 2}
    <3>1. a = Len(Picked(u, P)) /\ b = Len(Picked(t, P)) /\ QuotesIn(f[n]) = Len(Picked(v \o t, P))
      BY <2>1, <2>3, <2>11 DEF QuotesIn
    <3>2. a % 2 = 0 /\ b \in {0, 2}
      BY <2>1, <2>2, <2>11, QuotesOfToken
    <3>3. Len(Picked(u, P)) \in Nat
      BY <2>8
    <3> QED BY <2>10, <3>1, <3>2, <3>3
  <2>13. (a + b) % 2 = 0
    <3>1. (a + 0) % 2 = 0 /\ (a + 2) % 2 = 0
      BY <2>12
    <3> QED BY <2>12, <3>1
  <2> QED BY <2>2, <2>12, <2>13
<1>7. N \in G
  <2>1. N \in 0..N
    BY <1>2
  <2> HIDE DEF G
  <2>2. \A n \in 0..N : n \in G
    BY <1>2, <1>5, <1>6, CountingUp
  <2> QED BY <2>1, <2>2
<1> QED BY <1>3, <1>7

(* Phrases without a hyphen become what they are, and nothing else does.   *)
PhrasesOf(tokens) == {i \in DOMAIN tokens : IsQuoted(tokens[i]) /\ Hyphen \notin ToSet(tokens[i])}

(* Every phrase of the query is a term, and every term that is a phrase    *)
(* without hyphen was one.                                                 *)
LEMMA PhrasesKept ==
    ASSUME NEW was \in Seq(Seq(Pieces)), \A i \in 1..Len(was) : Proper(was[i]),
           NEW parts, parts = Select(was, KeptOf(was)), NEW terms, terms = Mapped(parts)
    PROVE  /\ Select(terms, PhrasesOf(terms)) = Select(was, PhrasesOf(was))
           /\ \A t \in ToSet(was) : IsQuoted(t) => t \in ToSet(terms)
<1>1. PICK K, J, B, X : /\ K = KeptOf(was) /\ J = PhrasesOf(terms) /\ B = PhrasesOf(was)
                        /\ X = Seq(Pieces)
  OBVIOUS
<1>2. /\ DOMAIN was = 1..Len(was) /\ K \in SUBSET DOMAIN was
      /\ \A i \in 1..Len(was) : i \in K <=> KeptToken(was[i])
      /\ \A i \in 1..Len(was) : i \in B <=> IsQuoted(was[i]) /\ Hyphen \notin ToSet(was[i])
      /\ B \subseteq 1..Len(was)
  BY <1>1 DEF KeptOf, PhrasesOf
<1>3. parts \in Seq(X)
  BY <1>1, <1>2, SelectPicks
<1>4. PICK at : Picks(parts, was, K, at)
  BY <1>1, <1>2, SelectPicks
<1>5. PICK M : M = Len(parts)
  OBVIOUS
<1>6. /\ at \in [1..M -> K] /\ \A i \in K : \E n \in 1..M : at[n] = i
      /\ \A n \in 1..M : parts[n] = was[at[n]]
  BY <1>4, <1>5 DEF Picks
<1>7. terms \in Seq(X) /\ Len(terms) = M /\ \A i \in 1..M : terms[i] = TermFor(parts[i])
  BY <1>1, <1>3, <1>5, MappedIs
<1>8. DOMAIN parts = 1..M /\ DOMAIN terms = 1..M
  BY <1>3, <1>5, <1>7
<1>9. B \in SUBSET K
  <2>1. \A i \in B : KeptToken(was[i])
    BY <1>2 DEF KeptToken
  <2> QED BY <1>2, <2>1
<1>10. ASSUME NEW i \in 1..M
       PROVE  /\ at[i] \in K /\ at[i] \in 1..Len(was) /\ parts[i] = was[at[i]]
              /\ IsQuoted(parts[i]) => terms[i] = parts[i]
              /\ ~IsQuoted(parts[i]) /\ IsQuoted(terms[i]) => Hyphen \in ToSet(terms[i])
  <2>1. at[i] \in K /\ at[i] \in 1..Len(was) /\ parts[i] = was[at[i]]
    BY <1>2, <1>6
  <2>2. Proper(parts[i]) /\ KeptToken(parts[i])
    BY <1>2, <2>1
  <2> QED BY <1>7, <2>1, <2>2, TermSettled
<1>11. \A i \in 1..M : i \in J <=> IsQuoted(terms[i]) /\ Hyphen \notin ToSet(terms[i])
  BY <1>1, <1>8 DEF PhrasesOf
<1>12. \A i \in 1..M : (i \in J <=> at[i] \in B) /\ (i \in J => terms[i] = parts[i])
  <2> TAKE i \in 1..M
  <2>1. /\ i \in J <=> IsQuoted(terms[i]) /\ Hyphen \notin ToSet(terms[i])
        /\ at[i] \in B <=> IsQuoted(parts[i]) /\ Hyphen \notin ToSet(parts[i])
    BY <1>2, <1>10, <1>11
  <2>2. CASE IsQuoted(parts[i])
    <3>1. terms[i] = parts[i]
      BY <1>10, <2>2
    <3> QED BY <2>1, <3>1
  <2>3. CASE ~IsQuoted(parts[i])
    <3>1. ~(IsQuoted(terms[i]) /\ Hyphen \notin ToSet(terms[i]))
      BY <1>10, <2>3
    <3> QED BY <2>1, <2>3, <3>1
  <2> QED BY <2>2, <2>3
<1>13. J \in SUBSET DOMAIN parts
  BY <1>1, <1>8 DEF PhrasesOf
<1>14. Narrows(terms, J, parts, B, at)
  BY <1>5, <1>7, <1>8, <1>12, <1>13 DEF Narrows
<1>15. Select(terms, J) = Select(was, B)
  <2>1. was \in Seq(X)
    BY <1>1
  <2>2. K \in SUBSET DOMAIN was /\ terms \in Seq(X)
    BY <1>2, <1>7
  <2> QED BY ONLY <1>3, <1>4, <1>9, <1>13, <1>14, <2>1, <2>2, PicksAgain
<1>16. \A t \in ToSet(was) : IsQuoted(t) => t \in ToSet(terms)
  <2> TAKE t \in ToSet(was)
  <2> HAVE IsQuoted(t)
  <2>1. PICK i \in 1..Len(was) : t = was[i]
    BY <1>2 DEF ToSet
  <2>2. i \in K
    BY <1>2, <2>1 DEF KeptToken
  <2>3. PICK n \in 1..M : at[n] = i
    BY <1>6, <2>2
  <2>4. terms[n] = t
    BY <1>10, <2>1, <2>3
  <2> QED BY <1>8, <2>4 DEF ToSet
<1> QED BY <1>1, <1>15, <1>16

(* A query that leaves terms becomes those terms.                          *)
LEMMA CleanedIs ==
    ASSUME NEW q \in Seq(Pieces), NEW was, was = SplitQuotedAndPlain(q),
           NEW parts, parts = Select(was, KeptOf(was)),
           NEW terms, terms = Mapped(parts),
           NEW cleaned, cleaned = CleanQuery(q)
    PROVE  /\ was \in Seq(Seq(Pieces)) /\ \A i \in 1..Len(was) : Proper(was[i])
           /\ terms \in Seq(Seq(Pieces)) /\ \A i \in 1..Len(terms) : Settled(terms[i])
           /\ IF terms = <<>> THEN cleaned = q
              ELSE /\ cleaned = Join(terms) /\ cleaned \in Seq(Pieces)
                   /\ SplitQuotedAndPlain(cleaned) = terms
           /\ CleanQuery(cleaned) = cleaned
<1>1. /\ was \in Seq(Seq(Pieces)) /\ \A i \in 1..Len(was) : Proper(was[i])
      /\ parts \in Seq(Seq(Pieces))
      /\ \A i \in 1..Len(parts) : Proper(parts[i]) /\ KeptToken(parts[i])
      /\ Terms(q) = terms
  BY TermsAre
<1>2. /\ terms \in Seq(Seq(Pieces)) /\ Len(terms) = Len(parts)
      /\ \A i \in 1..Len(parts) : terms[i] = TermFor(parts[i])
  BY <1>1, MappedIs
<1>3. \A i \in 1..Len(terms) : Settled(terms[i])
  <2> TAKE i \in 1..Len(terms)
  <2>1. Proper(parts[i]) /\ KeptToken(parts[i]) /\ terms[i] = TermFor(parts[i])
    BY <1>1, <1>2
  <2> QED BY <2>1, TermSettled
<1>4. cleaned = IF terms = <<>> THEN q ELSE Join(terms)
  BY <1>1 DEF CleanQuery
<1>5. CASE terms = <<>>
  BY <1>1, <1>2, <1>3, <1>4, <1>5
<1>6. CASE terms # <<>>
  <2>1. cleaned = Join(terms)
    BY <1>4, <1>6
  <2>2. \A i \in 1..Len(terms) : Proper(terms[i])
    BY <1>3 DEF Settled
  <2>3. cleaned \in Seq(Pieces) /\ SplitQuotedAndPlain(cleaned) = terms
    BY <1>2, <2>1, <2>2, SplitJoin
  <2>4. Terms(cleaned) = terms
    BY <1>2, <1>3, <2>1, TermsStay
  <2>5. CleanQuery(cleaned) = cleaned
    BY <1>6, <2>1, <2>4 DEF CleanQuery
  <2> QED BY <1>1, <1>2, <1>3, <1>6, <2>1, <2>3, <2>5
<1> QED BY <1>5, <1>6

Pure(t) ==
    /\ Last(t) # Trim /\ ~(~IsQuoted(t) /\ IsNetworkNoise(t)) /\ t # <<StopWord>>
    /\ Hyphen \in ToSet(t) => Characters(t) <= 3

(* Cleaning keeps what matters of a query and leaves nothing to clean.     *)
LEMMA CleaningFromTypes == query \in Seq(Pieces) => CleaningKeepsTheTerms
<1> SUFFICES ASSUME query \in Seq(Pieces) PROVE CleaningKeepsTheTerms
  OBVIOUS
<1> SUFFICES
      LET cleaned == CleanQuery(query)
          was == SplitQuotedAndPlain(query)
          is == SplitQuotedAndPlain(cleaned)
          Phrases(tokens) ==
              Select(tokens, {i \in DOMAIN tokens : IsQuoted(tokens[i])
                                                    /\ Hyphen \notin ToSet(tokens[i])})
          Plain(pieces) ==
              Select(pieces, {i \in DOMAIN pieces : pieces[i] \in {Numeral, Keyterm}})
          Noise(t) == ~IsQuoted(t) /\ IsNetworkNoise(t)
      IN  /\ CleanQuery(cleaned) = cleaned
          /\ Phrases(is) = Phrases(was)
          /\ \A t \in ToSet(was) : IsQuoted(t) => t \in ToSet(is)
          /\ \/ Plain(cleaned) = Plain(Join(Select(was, {i \in DOMAIN was : ~Noise(was[i])})))
             \/ cleaned = query
          /\ cleaned # query =>
                /\ Cardinality({i \in DOMAIN cleaned : cleaned[i] = Quote}) % 2 = 0
                /\ \A t \in {s \in ToSet(is) : ~IsQuoted(s)} :
                      /\ Last(t) # Trim /\ ~Noise(t) /\ t # <<StopWord>>
                      /\ Hyphen \in ToSet(t) => Characters(t) <= 3
  BY Zenon DEF CleaningKeepsTheTerms
<1>1. PICK q, was, parts, terms, cleaned, is :
         /\ q = query /\ was = SplitQuotedAndPlain(q) /\ parts = Select(was, KeptOf(was))
         /\ terms = Mapped(parts) /\ cleaned = CleanQuery(q) /\ is = SplitQuotedAndPlain(cleaned)
  OBVIOUS
<1>2. q \in Seq(Pieces)
  BY <1>1
<1>3. /\ was \in Seq(Seq(Pieces)) /\ \A i \in 1..Len(was) : Proper(was[i])
      /\ terms \in Seq(Seq(Pieces)) /\ \A i \in 1..Len(terms) : Settled(terms[i])
      /\ IF terms = <<>> THEN cleaned = q
         ELSE /\ cleaned = Join(terms) /\ cleaned \in Seq(Pieces)
              /\ SplitQuotedAndPlain(cleaned) = terms
      /\ CleanQuery(cleaned) = cleaned
  BY <1>1, <1>2, CleanedIs
<1>4. /\ Select(is, PhrasesOf(is)) = Select(was, PhrasesOf(was))
      /\ \A t \in ToSet(was) : IsQuoted(t) => t \in ToSet(is)
  <2>1. CASE terms = <<>>
    <3>1. is = was
      BY <1>1, <1>3, <2>1
    <3> QED BY <3>1
  <2>2. CASE terms # <<>>
    <3>1. is = terms
      BY <1>1, <1>3, <2>2
    <3>2. /\ Select(terms, PhrasesOf(terms)) = Select(was, PhrasesOf(was))
          /\ \A t \in ToSet(was) : IsQuoted(t) => t \in ToSet(terms)
      BY <1>1, <1>3, PhrasesKept
    <3> QED BY <3>1, <3>2
  <2> QED BY <2>1, <2>2
<1>5. PICK P : P = {Numeral, Keyterm}
  OBVIOUS
<1>6. Picked(cleaned, P) = Picked(Join(Select(was, QuietOf(was))), P) \/ cleaned = query
  <2>1. Lasting(P)
    BY <1>5 DEF Lasting, Numeral, Keyterm, Quote, Space, Trim, StopWord
  <2>2. CASE terms = <<>>
    BY <1>1, <1>3, <2>2
  <2>3. CASE terms # <<>>
    <3>1. cleaned = Join(Mapped(Select(was, KeptOf(was))))
      BY <1>1, <1>3, <2>3
    <3> QED BY <1>3, <2>1, <3>1, LastingKept
  <2> QED BY <2>2, <2>3
<1>7. \A u : Picked(u, P) = Select(u, {i \in DOMAIN u : u[i] \in {Numeral, Keyterm}})
  BY <1>5 DEF Picked, PlacesOf
<1>8. QuietOf(was) = {i \in DOMAIN was : ~(~IsQuoted(was[i]) /\ IsNetworkNoise(was[i]))}
  BY DEF QuietOf
<1>9. cleaned # query => Cardinality({i \in DOMAIN cleaned : cleaned[i] = Quote}) % 2 = 0
  <2> SUFFICES ASSUME cleaned # query
               PROVE  Cardinality({i \in DOMAIN cleaned : cleaned[i] = Quote}) % 2 = 0
    OBVIOUS
  <2>1. cleaned = Join(terms) /\ cleaned \in Seq(Pieces)
    BY <1>1, <1>3
  <2>2. \A i \in 1..Len(terms) : Proper(terms[i])
    BY <1>3 DEF Settled
  <2>3. QuotesIn(Join(terms)) % 2 = 0
    BY <1>3, <2>2, QuotesPaired
  <2>4. QuotesIn(cleaned) = Cardinality(PlacesOf(cleaned, {Quote}))
    BY <2>1, PickedSeq DEF QuotesIn
  <2>5. PlacesOf(cleaned, {Quote}) = {i \in DOMAIN cleaned : cleaned[i] = Quote}
    BY DEF PlacesOf
  <2> QED BY <2>1, <2>3, <2>4, <2>5
<1>10. cleaned # query => \A t \in {s \in ToSet(is) : ~IsQuoted(s)} : Pure(t)
  <2> SUFFICES ASSUME cleaned # query, NEW t \in ToSet(is), ~IsQuoted(t) PROVE Pure(t)
    OBVIOUS
  <2>1. is = terms
    BY <1>1, <1>3
  <2>2. DOMAIN terms = 1..Len(terms)
    BY <1>3
  <2>3. PICK i \in 1..Len(terms) : t = terms[i]
    BY <2>1, <2>2 DEF ToSet
  <2>4. Settled(t)
    BY <1>3, <2>3
  <2>5. Bare(t)
    BY <2>4, ProperIs DEF Settled
  <2> QED BY <2>4, <2>5 DEF Settled, Pure, Last
<1>11. /\ Select(is, {i \in DOMAIN is : IsQuoted(is[i]) /\ Hyphen \notin ToSet(is[i])})
          = Select(was, {i \in DOMAIN was : IsQuoted(was[i]) /\ Hyphen \notin ToSet(was[i])})
       /\ \A t \in ToSet(was) : IsQuoted(t) => t \in ToSet(is)
  BY <1>4, Zenon DEF PhrasesOf
<1>12. \/ Select(cleaned, {i \in DOMAIN cleaned : cleaned[i] \in {Numeral, Keyterm}})
          = Select(Join(Select(was, QuietOf(was))),
                   {i \in DOMAIN Join(Select(was, QuietOf(was))) :
                       Join(Select(was, QuietOf(was)))[i] \in {Numeral, Keyterm}})
       \/ cleaned = query
  BY <1>6, <1>7, Zenon
<1>13. CleanQuery(cleaned) = cleaned
  BY <1>3
<1>14. cleaned # query =>
          \A t \in {s \in ToSet(is) : ~IsQuoted(s)} :
             /\ Last(t) # Trim /\ ~(~IsQuoted(t) /\ IsNetworkNoise(t)) /\ t # <<StopWord>>
             /\ Hyphen \in ToSet(t) => Characters(t) <= 3
  BY <1>10, Zenon DEF Pure
<1> QED BY <1>1, <1>8, <1>9, <1>11, <1>12, <1>13, <1>14, ZenonT(60)

(* Of every query, cleaning keeps every phrase, number and term, in order, *)
(* and once done leaves nothing to clean.                                  *)
THEOREM CleaningCorrect == TextsSpec => []CleaningKeepsTheTerms
<1>1. InputsInv => CleaningKeepsTheTerms
  BY CleaningFromTypes DEF InputsInv
<1> QED BY <1>1, InputsTypes, PTL
=============================================================================
