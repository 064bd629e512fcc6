------------------------- MODULE OutlineCacheProofs --------------------------
(***************************************************************************)
(* Theorems about OutlineCache for every set of documents and callers and  *)
(* every cache size: that it is bounded, that its two structures stay one, *)
(* that it keeps the promise of OutlineMemo, and that it evicts the least  *)
(* recently used document.                                                 *)
(***************************************************************************)
EXTENDS OutlineRecency, FiniteSetTheorems, SequenceTheorems, TLAPS

Known == {d \in Docs : IsCached(d)}

(* s lists every member of K once and nothing else. *)
Lists(s, K) ==
    /\ s \in Seq(K)
    /\ \A i, j \in 1..Len(s) : s[i] = s[j] => i = j
    /\ \A x \in K : \E i \in 1..Len(s) : s[i] = x

(* The strengthening of the three invariants.  That no one waits for a     *)
(* page when there is no mirror is what keeps the cache empty then.        *)
IInv ==
    /\ TypeOK
    /\ Lists(lru, Known)
    /\ Len(lru) <= CacheSize
    /\ ~mirror => lru = <<>> /\ \A g \in Getters : awaiting[g] = None

-----------------------------------------------------------------------------
(* Lemmas about the order of the keys. *)

LEMMA PositionFinds ==
    ASSUME NEW K, NEW s, Lists(s, K), NEW d \in K
    PROVE  /\ Position(s, d) \in 1..Len(s)
           /\ s[Position(s, d)] = d
  BY DEF Lists, Position

LEMMA MoveToEndLists ==
    ASSUME NEW K, NEW s, Lists(s, K), NEW d \in K
    PROVE  /\ Lists(MoveToEnd(s, d), K)
           /\ Len(MoveToEnd(s, d)) = Len(s)
<1> DEFINE n == Len(s)
           p == Position(s, d)
           t == MoveToEnd(s, d)
<1>1. n \in Nat /\ s \in [1..n -> K]
  BY LenProperties DEF Lists
<1>2. p \in 1..n /\ s[p] = d
  BY PositionFinds
<1>3. t = [i \in 1..n |-> IF i = n THEN d ELSE IF i < p THEN s[i] ELSE s[i + 1]]
  BY DEF MoveToEnd
<1> HIDE DEF p, t
<1>4. t \in [1..n -> K]
  BY <1>1, <1>2, <1>3
<1>5. t \in Seq(K) /\ Len(t) = n
  BY <1>1, <1>4
<1>6. \A i, j \in 1..n : t[i] = t[j] => i = j
  <2> TAKE i, j \in 1..n
  <2> DEFINE From(x) == IF x = n THEN p ELSE IF x < p THEN x ELSE x + 1
  <2>1. t[i] = s[From(i)] /\ t[j] = s[From(j)]
    BY <1>1, <1>2, <1>3
  <2>2. From(i) \in 1..n /\ From(j) \in 1..n
    BY <1>1, <1>2
  <2>3. From(i) = From(j) => i = j
    BY <1>1, <1>2
  <2> HIDE DEF From
  <2> QED
    BY <2>1, <2>2, <2>3 DEF Lists
<1>7. \A x \in K : \E i \in 1..n : t[i] = x
  <2> TAKE x \in K
  <2>1. PICK k \in 1..n : s[k] = x
    BY DEF Lists
  <2>2. CASE k = p
    <3>1. t[n] = x /\ n \in 1..n
      BY <1>1, <1>2, <1>3, <2>1, <2>2
    <3> QED
      BY <3>1
  <2>3. CASE k < p
    <3>1. t[k] = x
      BY <1>1, <1>2, <1>3, <2>1, <2>3
    <3> QED
      BY <3>1
  <2>4. CASE k > p
    <3>1. t[k - 1] = x /\ k - 1 \in 1..n
      BY <1>1, <1>2, <1>3, <2>1, <2>4
    <3> QED
      BY <3>1
  <2> QED
    BY <1>1, <1>2, <2>2, <2>3, <2>4
<1> QED
  BY <1>5, <1>6, <1>7 DEF Lists, t

LEMMA AppendLists ==
    ASSUME NEW K, NEW s, Lists(s, K), NEW d, d \notin K
    PROVE  /\ Lists(Append(s, d), K \cup {d})
           /\ Len(Append(s, d)) = Len(s) + 1
<1> DEFINE n == Len(s)
           t == Append(s, d)
<1>1. n \in Nat /\ s \in [1..n -> K] /\ s \in Seq(K \cup {d})
  BY LenProperties, SeqMonotonic DEF Lists
<1>2. t \in Seq(K \cup {d}) /\ Len(t) = n + 1
  BY <1>1, AppendProperties
<1>3. t[n + 1] = d /\ \A i \in 1..n : t[i] = s[i]
  BY <1>1, AppendProperties
<1> HIDE DEF t
<1>4. \A i, j \in 1..(n + 1) : t[i] = t[j] => i = j
  <2> TAKE i, j \in 1..(n + 1)
  <2>1. \A k \in 1..n : t[k] # d
    BY <1>1, <1>3
  <2> QED
    BY <1>1, <1>3, <2>1 DEF Lists
<1>5. \A x \in K \cup {d} : \E i \in 1..(n + 1) : t[i] = x
  <2> TAKE x \in K \cup {d}
  <2>1. CASE x = d
    BY <1>1, <1>3, <2>1
  <2>2. CASE x \in K
    <3>1. PICK k \in 1..n : s[k] = x
      BY <2>2 DEF Lists
    <3> QED
      BY <1>1, <1>3, <3>1
  <2> QED
    BY <2>1, <2>2
<1> QED
  BY <1>2, <1>4, <1>5 DEF Lists, t

LEMMA TailLists ==
    ASSUME NEW K, NEW s, Lists(s, K), Len(s) > 0
    PROVE  /\ Head(s) \in K
           /\ Lists(Tail(s), K \ {Head(s)})
           /\ Len(Tail(s)) = Len(s) - 1
<1> DEFINE n == Len(s)
           t == Tail(s)
<1>1. n \in Nat /\ s \in [1..n -> K] /\ s # <<>>
  BY LenProperties, EmptySeq DEF Lists
<1>2. Head(s) = s[1] /\ s[1] \in K
  BY <1>1
<1>3. t \in Seq(K) /\ Len(t) = n - 1 /\ \A i \in 1..(n - 1) : t[i] = s[i + 1]
  BY <1>1, HeadTailProperties DEF Lists
<1> HIDE DEF t
<1>4. \A i \in 1..(n - 1) : t[i] \in K \ {s[1]}
  BY <1>1, <1>2, <1>3 DEF Lists
<1>5. t \in Seq(K \ {s[1]})
  <2>1. t \in [1..(n - 1) -> K \ {s[1]}]
    BY <1>1, <1>3, <1>4, LenProperties
  <2> QED
    BY <1>1, <2>1
<1>6. \A i, j \in 1..(n - 1) : t[i] = t[j] => i = j
  BY <1>1, <1>3 DEF Lists
<1>7. \A x \in K \ {s[1]} : \E i \in 1..(n - 1) : t[i] = x
  <2> TAKE x \in K \ {s[1]}
  <2>1. PICK k \in 1..n : s[k] = x
    BY DEF Lists
  <2>2. k - 1 \in 1..(n - 1) /\ t[k - 1] = x
    BY <1>1, <1>3, <2>1
  <2> QED
    BY <2>2
<1> QED
  BY <1>2, <1>3, <1>5, <1>6, <1>7 DEF Lists, t

LEMMA ListsCount ==
    ASSUME NEW K, NEW s, Lists(s, K)
    PROVE  IsFiniteSet(K) /\ Cardinality(K) = Len(s)
<1>1. Len(s) \in Nat /\ s \in [1..Len(s) -> K]
  BY LenProperties DEF Lists
<1>2. IsFiniteSet(1..Len(s)) /\ Cardinality(1..Len(s)) = Len(s)
  BY <1>1, FS_Interval
<1>3. s \in Bijection(1..Len(s), K)
  BY <1>1 DEF Lists, Bijection, Injection, Surjection, IsInjective
<1> QED
  BY <1>2, <1>3, FS_Bijection DEF ExistsBijection

-----------------------------------------------------------------------------
(* Storing an outline keeps the order and the entries one structure, adds  *)
(* the document and takes out at most the least recently used one, which   *)
(* is never the document just stored.                                      *)
LEMMA StoreKeeps ==
    ASSUME IInv, NEW d \in Docs, NEW o \in Outlines, Store(d, o)
    PROVE  /\ entry' \in [Docs -> Outlines \cup {Absent}]
           /\ Lists(lru', Known')
           /\ Len(lru') <= CacheSize
           /\ \E gone \in SUBSET (Known \ {d}) :
                 /\ IF ~IsCached(d) /\ Len(lru) = CacheSize
                    THEN \E e \in Docs : gone = {e}
                    ELSE gone = {}
                 /\ entry' = [e \in Docs |-> IF e = d THEN o
                                             ELSE IF e \in gone THEN Absent
                                             ELSE entry[e]]
<1> DEFINE s == Touched(d)
           filled == [entry EXCEPT ![d] = o]
           K == Known \cup {d}
<1>1. /\ Len(lru) \in Nat /\ lru \in Seq(Known) /\ CacheSize \in Nat \ {0}
      /\ entry \in [Docs -> Outlines \cup {Absent}]
      /\ Len(lru) <= CacheSize
      /\ Absent \notin Outlines
  BY LenProperties, CacheSizeAssumption, MarkersAssumption
     DEF IInv, TypeOK, Lists, Outlines
<1>2. d \in Known <=> IsCached(d)
  BY DEF Known
<1>3. /\ Lists(s, K)
      /\ Len(s) = IF IsCached(d) THEN Len(lru) ELSE Len(lru) + 1
  <2>1. CASE IsCached(d)
    <3>1. K = Known
      BY <1>2, <2>1
    <3> QED
      BY <1>2, <2>1, <3>1, MoveToEndLists DEF Touched, IInv
  <2>2. CASE ~IsCached(d)
    BY <1>2, <2>2, AppendLists DEF Touched, IInv
  <2> QED
    BY <2>1, <2>2
<1>4. filled \in [Docs -> Outlines \cup {Absent}]
  BY <1>1
<1>5. K = {e \in Docs : filled[e] # Absent}
  BY <1>1 DEF Known, IsCached
<1>6. CASE Len(s) <= CacheSize
  <2>1. lru' = s /\ entry' = filled
    BY <1>1, <1>3, <1>6 DEF Store
  <2>2. Known' = K
    BY <2>1, <1>5 DEF Known, IsCached
  <2>3. ~(~IsCached(d) /\ Len(lru) = CacheSize)
    BY <1>1, <1>3, <1>6
  <2>4. entry' = [e \in Docs |-> IF e = d THEN o
                                 ELSE IF e \in {} THEN Absent ELSE entry[e]]
    BY <1>1, <2>1
  <2> HIDE DEF s, K, filled
  <2>5. \E gone \in SUBSET (Known \ {d}) :
           /\ gone = {}
           /\ entry' = [e \in Docs |-> IF e = d THEN o
                                       ELSE IF e \in gone THEN Absent
                                       ELSE entry[e]]
    <3>1. {} \in SUBSET (Known \ {d})
      OBVIOUS
    <3> WITNESS {} \in SUBSET (Known \ {d})
    <3> QED
      BY <2>4
  <2> QED
    BY <1>3, <1>4, <1>6, <2>1, <2>2, <2>3, <2>5
<1>7. CASE ~(Len(s) <= CacheSize)
  <2> DEFINE h == Head(s)
  <2>1. /\ lru' = Tail(s)
        /\ entry' = [filled EXCEPT ![h] = Absent]
    BY <1>1, <1>3, <1>7 DEF Store
  <2>2. ~IsCached(d) /\ Len(lru) = CacheSize /\ Len(s) = CacheSize + 1
    BY <1>1, <1>3, <1>7
  <2>3. h \in K /\ Lists(Tail(s), K \ {h}) /\ Len(Tail(s)) = CacheSize
    <3> HIDE DEF s, K
    <3>1. Lists(s, K) /\ Len(s) > 0
      BY <1>1, <1>3, <2>2
    <3>2. Head(s) \in K /\ Lists(Tail(s), K \ {Head(s)})
          /\ Len(Tail(s)) = Len(s) - 1
      BY <3>1, TailLists
    <3> QED
      BY <1>1, <2>2, <3>2
  <2>4. h # d
    <3>1. s = Append(lru, d) /\ Len(lru) > 0
      BY <1>1, <2>2 DEF Touched
    <3>2. Head(s) = lru[1] /\ lru[1] \in Known
      BY <1>1, <3>1
    <3> QED
      BY <1>2, <2>2, <3>2
  <2>5. h \in Known \ {d}
    BY <2>3, <2>4
  <2> HIDE DEF h, s
  <2>6. Known' = K \ {h}
    BY <1>1, <1>4, <1>5, <2>1, <2>5 DEF Known, IsCached
  <2>7. entry' \in [Docs -> Outlines \cup {Absent}]
    BY <1>4, <2>1
  <2>8. entry' = [e \in Docs |-> IF e = d THEN o
                                 ELSE IF e \in {h} THEN Absent ELSE entry[e]]
    BY <1>1, <2>1, <2>5 DEF Known
  <2>9. {h} \in SUBSET (Known \ {d}) /\ h \in Docs
    BY <2>5 DEF Known
  <2> HIDE DEF K, filled
  <2> QED
    BY <1>1, <2>1, <2>2, <2>3, <2>6, <2>7, <2>8, <2>9
<1> QED
  BY <1>6, <1>7

LEMMA InitIInv == Init => IInv
<1> SUFFICES ASSUME Init PROVE IInv
  OBVIOUS
<1>1. Known = {}
  BY DEF Init, Known, IsCached
<1>2. TypeOK
  BY DEF Init, TypeOK, Outlines
<1>3. Lists(lru, Known) /\ Len(lru) <= CacheSize
  BY <1>1, EmptySeq, CacheSizeAssumption DEF Init, Lists
<1> QED
  BY <1>2, <1>3 DEF IInv, Init

LEMMA NextIInv == IInv /\ [Next]_vars => IInv'
<1> SUFFICES ASSUME IInv, [Next]_vars PROVE IInv'
  OBVIOUS
<1> USE DEF Outlines
<1>1. ASSUME NEW g \in Getters, NEW d \in Docs, GetDisabled(g, d)
      PROVE  IInv'
  BY <1>1 DEF IInv, TypeOK, GetDisabled, Known, IsCached
<1>2. ASSUME NEW g \in Getters, NEW d \in Docs, GetHit(g, d)
      PROVE  IInv'
  <2>1. d \in Known
    BY <1>2 DEF GetHit, Known
  <2>2. Known' = Known
    BY <1>2 DEF GetHit, Known, IsCached
  <2>3. Lists(lru', Known') /\ Len(lru') <= CacheSize
    BY <1>2, <2>1, <2>2, MoveToEndLists DEF IInv, GetHit
  <2>4. lru' \in Seq(Docs)
    BY <2>2, <2>3, SeqMonotonic DEF Lists, Known
  <2>5. entry[d] \in Outlines
    BY <1>2 DEF IInv, TypeOK, GetHit, IsCached
  <2>6. TypeOK'
    BY <1>2, <2>4, <2>5 DEF IInv, TypeOK, GetHit
  <2> QED
    BY <1>2, <2>3, <2>6 DEF IInv, GetHit
<1>3. ASSUME NEW g \in Getters, NEW d \in Docs, GetMiss(g, d)
      PROVE  IInv'
  BY <1>3 DEF IInv, TypeOK, GetMiss, Known, IsCached
<1>4. ASSUME NEW g \in Getters, NEW outline \in {awaiting[g], NoOutline},
             FetchReturns(g, outline)
      PROVE  IInv'
  <2>1. awaiting[g] \in Docs /\ outline \in Outlines
    BY <1>4 DEF IInv, TypeOK, FetchReturns
  <2>2. /\ entry' \in [Docs -> Outlines \cup {Absent}]
        /\ Lists(lru', Known')
        /\ Len(lru') <= CacheSize
    BY <1>4, <2>1, StoreKeeps DEF FetchReturns
  <2>3. lru' \in Seq(Docs)
    <3>1. Known' \subseteq Docs
      BY DEF Known
    <3> QED
      BY <2>2, <3>1, SeqMonotonic DEF Lists
  <2>4. TypeOK'
    BY <1>4, <2>1, <2>2, <2>3 DEF IInv, TypeOK, FetchReturns
  <2>5. mirror /\ mirror'
    BY <1>4 DEF IInv, TypeOK, FetchReturns
  <2> QED
    BY <2>2, <2>4, <2>5 DEF IInv
<1>5. ASSUME NEW g \in Getters, FetchRaises(g)
      PROVE  IInv'
  BY <1>5 DEF IInv, TypeOK, FetchRaises, Known, IsCached
<1>6. ASSUME UNCHANGED vars
      PROVE  IInv'
  BY <1>6 DEF IInv, TypeOK, vars, Known, IsCached
<1> QED
  BY <1>1, <1>2, <1>3, <1>4, <1>5, <1>6 DEF Next, Get, FetchEnds

LEMMA Invariance == SafeSpec => []IInv
  BY InitIInv, NextIInv, PTL DEF SafeSpec

(* Every variable of the fetcher keeps its type. *)
THEOREM TypeCorrect == SafeSpec => []TypeOK
<1>1. IInv => TypeOK
  BY DEF IInv
<1> QED
  BY <1>1, Invariance, PTL

(* The order of the keys and the entries are one structure whatever the    *)
(* number of overlapping fetches and the order in which they end.          *)
THEOREM OrderCorrect == SafeSpec => []OrderMatchesEntries
<1>1. IInv => OrderMatchesEntries
  BY DEF IInv, OrderMatchesEntries, Lists, Known
<1> QED
  BY <1>1, Invariance, PTL

(* The cache never holds more than CacheSize outlines between two steps.   *)
THEOREM Bounded == SafeSpec => []CacheBounded
<1>1. IInv => CacheBounded
  <2> SUFFICES ASSUME IInv PROVE CacheBounded
    OBVIOUS
  <2>1. Cardinality(Known) = Len(lru)
    BY ListsCount DEF IInv
  <2> QED
    BY <2>1 DEF IInv, CacheBounded, Known
<1> QED
  BY <1>1, Invariance, PTL

-----------------------------------------------------------------------------
(* Every step of the cache is a step OutlineMemo allows, or none: answers  *)
(* are the document's own outline or the empty one, and a store forgets at *)
(* most one other document, and only when the cache is full.               *)
THEOREM Implements == SafeSpec => Memo!SafeSpec
<1>1. Init => Memo!Init
  BY DEF Init, Memo!Init
<1>2. IInv /\ [Next]_vars => [Memo!Next]_(Memo!vars)
  <2> SUFFICES ASSUME IInv, [Next]_vars
               PROVE  Memo!Next \/ UNCHANGED Memo!vars
    OBVIOUS
  <2>1. ASSUME NEW g \in Getters, NEW d \in Docs, GetDisabled(g, d)
        PROVE  Memo!AnswerNow(g, d)
    <3>1. lru = <<>>
      BY <2>1 DEF IInv, GetDisabled
    <3>2. entry[d] = Absent
      BY <3>1, EmptySeq DEF IInv, Lists, Known, IsCached
    <3> QED
      BY <2>1, <3>2 DEF GetDisabled, Memo!AnswerNow
  <2>2. ASSUME NEW g \in Getters, NEW d \in Docs, GetHit(g, d)
        PROVE  Memo!AnswerNow(g, d)
    BY <2>2 DEF GetHit, IsCached, Memo!AnswerNow
  <2>3. ASSUME NEW g \in Getters, NEW d \in Docs, GetMiss(g, d)
        PROVE  Memo!Ask(g, d)
    BY <2>3 DEF GetMiss, IsCached, Memo!Ask
  <2>4. ASSUME NEW g \in Getters, NEW outline \in {awaiting[g], NoOutline},
               FetchReturns(g, outline)
        PROVE  Memo!Settle(g)
    <3> DEFINE d == awaiting[g]
    <3>1. d \in Docs /\ outline \in Outlines
      BY <2>4 DEF IInv, TypeOK, FetchReturns, Outlines
    <3>2. Memo!Known = Known /\ Cardinality(Known) = Len(lru)
      BY ListsCount DEF IInv, Known, Memo!Known, IsCached
    <3>3. PICK gone \in SUBSET (Known \ {d}) :
             /\ IF ~IsCached(d) /\ Len(lru) = CacheSize
                THEN \E e \in Docs : gone = {e}
                ELSE gone = {}
             /\ entry' = [e \in Docs |-> IF e = d THEN outline
                                         ELSE IF e \in gone THEN Absent
                                         ELSE entry[e]]
      BY <2>4, <3>1, StoreKeeps DEF FetchReturns
    <3>4. Memo!Cardinality(Known) = Cardinality(Known)
      BY DEF Memo!Cardinality, Cardinality
    <3>5. Memo!Learn(g, outline, gone)
      BY <2>4, <3>2, <3>3, <3>4 DEF FetchReturns, Memo!Learn, IsCached
    <3>6. gone \in SUBSET Docs /\ outline \in Docs \cup {NoOutline}
      BY <3>1, <3>3 DEF Known, Outlines
    <3> QED
      BY <3>5, <3>6 DEF Memo!Settle
  <2>5. ASSUME NEW g \in Getters, FetchRaises(g)
        PROVE  Memo!Settle(g)
    BY <2>5 DEF FetchRaises, Memo!GiveUp, Memo!Settle
  <2>6. ASSUME UNCHANGED vars
        PROVE  UNCHANGED Memo!vars
    BY <2>6 DEF vars, Memo!vars
  <2> QED
    BY <2>1, <2>2, <2>3, <2>4, <2>5, <2>6
       DEF Next, Get, FetchEnds, Memo!Next
<1> QED
  BY <1>1, <1>2, Invariance, PTL DEF SafeSpec, Memo!SafeSpec

-----------------------------------------------------------------------------
(* The order of eviction: the order of the keys is the end of the history  *)
(* of use.                                                                 *)

(* Every document used so far. *)
Seen == {d \in Docs : \E i \in 1..Len(recency) : recency[i] = d}

(* s is the end of t, position by position. *)
Ends(s, t) ==
    /\ Len(s) <= Len(t)
    /\ \A i \in 1..Len(s) : s[i] = t[(Len(t) - Len(s)) + i]

HInv ==
    /\ IInv
    /\ Lists(recency, Seen)
    /\ Ends(lru, recency)
    /\ Len(lru) = IF Len(recency) > CacheSize THEN CacheSize ELSE Len(recency)

-----------------------------------------------------------------------------
LEMMA ListsLen == ASSUME NEW K, NEW s, Lists(s, K) PROVE Len(s) \in Nat
BY LenProperties DEF Lists

(* Where a document stands is known from any position that holds it.       *)
LEMMA PositionUnique ==
    ASSUME NEW K, NEW s, Lists(s, K), NEW d \in K, NEW i \in 1..Len(s), s[i] = d
    PROVE  Position(s, d) = i
<1>1. Position(s, d) \in 1..Len(s) /\ s[Position(s, d)] = d
  BY PositionFinds
<1> QED
  BY <1>1 DEF Lists

LEMMA MoveToEndAt ==
    ASSUME NEW K, NEW s, Lists(s, K), NEW d \in K, NEW p, p = Position(s, d)
    PROVE  /\ p \in 1..Len(s) /\ s[p] = d
           /\ Len(MoveToEnd(s, d)) = Len(s)
           /\ \A i \in 1..Len(s) :
                 MoveToEnd(s, d)[i] = IF i = Len(s) THEN d
                                      ELSE IF i < p THEN s[i] ELSE s[i + 1]
BY PositionFinds, MoveToEndLists DEF MoveToEnd

(* A key that is used again moves to the end of both.                      *)
LEMMA UseKept ==
    ASSUME NEW K, NEW s, Lists(s, K), NEW L, NEW t, Lists(t, L), Ends(s, t), NEW d \in K
    PROVE  d \in L /\ Ends(MoveToEnd(s, d), MoveToEnd(t, d))
<1> DEFINE n == Len(s)
           shift == Len(t) - Len(s)
           p == Position(s, d)
<1>1. n \in Nat /\ Len(t) \in Nat /\ n <= Len(t) /\ shift \in Nat /\ Len(t) = shift + n
  BY ListsLen DEF Ends
<1>2. p \in 1..n /\ s[p] = d
  BY PositionFinds
<1>3. shift + p \in 1..Len(t) /\ t[shift + p] = d
  BY <1>1, <1>2 DEF Ends
<1>4. d \in L
  <2>1. t \in [1..Len(t) -> L]
    BY LenProperties DEF Lists
  <2> QED
    BY <1>3, <2>1
<1>5. Position(t, d) = shift + p
  BY <1>3, <1>4, PositionUnique
<1>6. /\ Len(MoveToEnd(s, d)) = n
      /\ \A i \in 1..n : MoveToEnd(s, d)[i] = IF i = n THEN d
                                              ELSE IF i < p THEN s[i] ELSE s[i + 1]
  BY MoveToEndAt
<1>7. /\ Len(MoveToEnd(t, d)) = Len(t)
      /\ \A i \in 1..Len(t) :
            MoveToEnd(t, d)[i] = IF i = Len(t) THEN d
                                 ELSE IF i < shift + p THEN t[i] ELSE t[i + 1]
  BY <1>4, <1>5, MoveToEndAt
<1>8. \A i \in 1..n : s[i] = t[shift + i]
  BY DEF Ends
<1> HIDE DEF p, shift, n
<1>9. ASSUME NEW i \in 1..n PROVE MoveToEnd(s, d)[i] = MoveToEnd(t, d)[shift + i]
  <2>1. shift + i \in 1..Len(t)
    BY <1>1
  <2>2. CASE i = n
    BY <1>1, <1>6, <1>7, <2>1, <2>2
  <2>3. CASE i < p
    <3>1. i # n /\ shift + i # Len(t) /\ shift + i < shift + p
      BY <1>1, <1>2, <2>3
    <3> QED
      BY <1>6, <1>7, <1>8, <2>1, <2>3, <3>1
  <2>4. CASE i # n /\ ~(i < p)
    <3>1. i + 1 \in 1..n /\ shift + i # Len(t) /\ ~(shift + i < shift + p)
          /\ shift + (i + 1) = (shift + i) + 1
      BY <1>1, <1>2, <2>4
    <3> QED
      BY <1>6, <1>7, <1>8, <2>1, <2>4, <3>1
  <2> QED
    BY <2>2, <2>3, <2>4
<1> QED
  BY <1>1, <1>4, <1>6, <1>7, <1>9 DEF Ends, shift, n

(* A document used for the first time is last in both.                     *)
LEMMA UseNew ==
    ASSUME NEW K, NEW s, Lists(s, K), NEW L, NEW t, Lists(t, L), Ends(s, t), NEW d
    PROVE  Ends(Append(s, d), Append(t, d))
<1>1. Len(s) \in Nat /\ Len(t) \in Nat /\ s \in Seq(K) /\ t \in Seq(L)
  BY ListsLen DEF Lists
<1>2. /\ Len(Append(s, d)) = Len(s) + 1
      /\ \A i \in 1..(Len(s) + 1) : Append(s, d)[i] = IF i <= Len(s) THEN s[i] ELSE d
  BY <1>1
<1>3. /\ Len(Append(t, d)) = Len(t) + 1
      /\ \A i \in 1..(Len(t) + 1) : Append(t, d)[i] = IF i <= Len(t) THEN t[i] ELSE d
  BY <1>1
<1> QED
  BY <1>1, <1>2, <1>3 DEF Ends

(* A document that was evicted and is used again moves over the ones that  *)
(* are not kept: the kept ones stand one place before where they stood.    *)
LEMMA UseForgotten ==
    ASSUME NEW K, NEW s, Lists(s, K), NEW L, NEW t, Lists(t, L), Ends(s, t),
           NEW d \in L \ K
    PROVE  /\ Len(s) < Len(t)
           /\ \A i \in 1..(Len(s) + 1) :
                 Append(s, d)[i] = IF i = Len(s) + 1 THEN d
                                   ELSE MoveToEnd(t, d)[(Len(t) - Len(s)) + i - 1]
           /\ MoveToEnd(t, d)[Len(t)] = d
<1> DEFINE n == Len(s)
           m == Len(t)
           p == Position(t, d)
<1>1. n \in Nat /\ m \in Nat /\ n <= m /\ s \in Seq(K)
  BY ListsLen DEF Ends, Lists
<1>2. p \in 1..m /\ t[p] = d
  BY PositionFinds
<1>3. \A i \in 1..n : s[i] = t[(m - n) + i] /\ s[i] \in K
  BY <1>1 DEF Ends
<1>4. p <= m - n
  <2> SUFFICES ASSUME ~(p <= m - n) PROVE FALSE
    OBVIOUS
  <2>1. p - (m - n) \in 1..n /\ (m - n) + (p - (m - n)) = p
    BY <1>1, <1>2
  <2> QED
    BY <1>2, <1>3, <2>1
<1>5. \A i \in 1..m : MoveToEnd(t, d)[i] = IF i = m THEN d
                                           ELSE IF i < p THEN t[i] ELSE t[i + 1]
  BY MoveToEndAt
<1>6. \A i \in 1..(n + 1) : Append(s, d)[i] = IF i <= n THEN s[i] ELSE d
  BY <1>1
<1> HIDE DEF p
<1>7. ASSUME NEW i \in 1..n PROVE Append(s, d)[i] = MoveToEnd(t, d)[(m - n) + i - 1]
  <2>1. (m - n) + i - 1 \in 1..m /\ (m - n) + i - 1 # m /\ ~((m - n) + i - 1 < p)
        /\ ((m - n) + i - 1) + 1 = (m - n) + i
    BY <1>1, <1>2, <1>4
  <2> QED
    BY <1>1, <1>3, <1>5, <1>6, <2>1
<1> QED
  BY <1>1, <1>2, <1>4, <1>5, <1>6, <1>7

LEMMA DropOldest ==
    ASSUME NEW K, NEW s, Lists(s, K), NEW d, NEW u, Len(u) \in Nat, Len(s) \in Nat,
           Len(s) <= Len(u),
           \A i \in 1..Len(s) : Append(s, d)[i + 1] = u[(Len(u) - Len(s)) + i]
    PROVE  Ends(Tail(Append(s, d)), u) /\ Len(Tail(Append(s, d))) = Len(s)
<1> DEFINE a == Append(s, d)
<1>1. a \in Seq(K \cup {d}) /\ Len(a) = Len(s) + 1 /\ a # <<>>
  <2>1. s \in Seq(K \cup {d})
    BY SeqMonotonic DEF Lists
  <2>2. a \in Seq(K \cup {d}) /\ Len(a) = Len(s) + 1
    BY <2>1, AppendProperties
  <2> HIDE DEF a
  <2> QED
    BY <2>2, EmptySeq
<1>2. /\ Len(Tail(a)) = Len(s)
      /\ \A i \in 1..Len(s) : Tail(a)[i] = a[i + 1]
  <2> HIDE DEF a
  <2>1. Len(Tail(a)) = Len(a) - 1 /\ \A i \in 1..Len(Tail(a)) : Tail(a)[i] = a[i + 1]
    BY <1>1, HeadTailProperties
  <2> QED
    BY <1>1, <2>1
<1> HIDE DEF a
<1> QED
  BY <1>2 DEF Ends, a

-----------------------------------------------------------------------------
LEMMA SeenDocs == HInv => Known \subseteq Seen /\ Seen \subseteq Docs
<1> SUFFICES ASSUME HInv, NEW d \in Known PROVE d \in Seen
  BY DEF Seen
<1>1. PICK i \in 1..Len(lru) : lru[i] = d
  BY DEF HInv, IInv, Lists
<1>2. Len(lru) \in Nat /\ Len(recency) \in Nat
  BY ListsLen DEF HInv, IInv
<1>3. (Len(recency) - Len(lru)) + i \in 1..Len(recency)
  BY <1>2 DEF HInv, Ends
<1> QED
  BY <1>1, <1>3 DEF HInv, Ends, Seen, Known

(* What a use does to the history.                                         *)
LEMMA UsedLists ==
    ASSUME HInv, NEW d \in Docs, Used(d)
    PROVE  /\ Lists(recency', Seen')
           /\ recency' = IF d \in Seen THEN MoveToEnd(recency, d) ELSE Append(recency, d)
           /\ Len(recency') = IF d \in Seen THEN Len(recency) ELSE Len(recency) + 1
<1>1. recency' = IF d \in Seen THEN MoveToEnd(recency, d) ELSE Append(recency, d)
  BY DEF Used, Seen
<1>2. Lists(recency, Seen)
  BY DEF HInv
<1>3. /\ Lists(recency', Seen \cup {d})
      /\ Len(recency') = IF d \in Seen THEN Len(recency) ELSE Len(recency) + 1
  <2>1. CASE d \in Seen
    <3>1. Seen \cup {d} = Seen
      BY <2>1
    <3> QED
      BY <1>1, <1>2, <2>1, <3>1, MoveToEndLists
  <2>2. CASE d \notin Seen
    BY <1>1, <1>2, <2>2, AppendLists
  <2> QED
    BY <2>1, <2>2
<1>4. Seen' = Seen \cup {d}
  <2>1. Seen \cup {d} \subseteq Docs
    BY DEF Seen
  <2>2. recency' \in [1..Len(recency') -> Seen \cup {d}]
    BY <1>3, LenProperties DEF Lists
  <2>3. \A e \in Seen \cup {d} : \E i \in 1..Len(recency') : recency'[i] = e
    BY <1>3 DEF Lists
  <2> HIDE DEF Used
  <2>4. \A e : e \in Seen' <=> e \in Docs /\ \E i \in 1..Len(recency') : recency'[i] = e
    BY DEF Seen
  <2> QED
    BY <2>1, <2>2, <2>3, <2>4
<1> QED
  BY <1>1, <1>3, <1>4

(* A hit, or a store of a document that is kept already: it moves to the   *)
(* end of both orders.                                                     *)
LEMMA TouchKeeps ==
    ASSUME HInv, NEW d \in Known, Used(d), lru' = MoveToEnd(lru, d), IInv'
    PROVE  HInv'
<1>1. d \in Seen /\ d \in Docs /\ Lists(lru, Known)
  BY SeenDocs DEF HInv, IInv
<1>2. Ends(MoveToEnd(lru, d), MoveToEnd(recency, d))
  BY <1>1, UseKept DEF HInv
<1>3. /\ Lists(recency', Seen') /\ recency' = MoveToEnd(recency, d)
      /\ Len(recency') = Len(recency)
  BY <1>1, UsedLists
<1>4. Len(lru') = Len(lru)
  BY <1>1, MoveToEndLists
<1> QED
  BY <1>2, <1>3, <1>4 DEF HInv

(* A store of a document that is not kept: it joins the end, and the cache *)
(* gives up its oldest document if it was full.                            *)
LEMMA StoreNewKeeps ==
    ASSUME HInv, NEW d \in Docs, d \notin Known, Used(d), IInv',
           lru' = IF Len(Append(lru, d)) > CacheSize THEN Tail(Append(lru, d))
                  ELSE Append(lru, d)
    PROVE  HInv'
<1> DEFINE n == Len(lru)
           m == Len(recency)
<1>1. /\ n \in Nat /\ m \in Nat /\ CacheSize \in Nat \ {0} /\ n <= m
      /\ n = IF m > CacheSize THEN CacheSize ELSE m
      /\ Lists(lru, Known) /\ Lists(recency, Seen) /\ Ends(lru, recency)
  BY ListsLen, CacheSizeAssumption DEF HInv, IInv, Ends
<1>2. Len(Append(lru, d)) = n + 1
  BY <1>1, AppendLists
<1>3. /\ Lists(recency', Seen')
      /\ recency' = IF d \in Seen THEN MoveToEnd(recency, d) ELSE Append(recency, d)
      /\ Len(recency') = IF d \in Seen THEN m ELSE m + 1
  BY UsedLists
<1>4. CASE d \in Seen
  <2>1. /\ n < m
        /\ \A i \in 1..(n + 1) :
              Append(lru, d)[i] = IF i = n + 1 THEN d ELSE recency'[(m - n) + i - 1]
        /\ recency'[m] = d
    <3>1. recency' = MoveToEnd(recency, d) /\ d \in Seen \ Known
      BY <1>3, <1>4
    <3>2. /\ n < m
          /\ \A i \in 1..(n + 1) :
                Append(lru, d)[i] = IF i = n + 1 THEN d
                                    ELSE MoveToEnd(recency, d)[(m - n) + i - 1]
          /\ MoveToEnd(recency, d)[m] = d
      <4>1. Lists(lru, Known) /\ Lists(recency, Seen) /\ Ends(lru, recency)
            /\ d \in Seen \ Known
        BY <1>1, <3>1
      <4> QED
        BY <4>1, UseForgotten
    <3> QED
      BY <3>1, <3>2
  <2>2. n = CacheSize /\ lru' = Tail(Append(lru, d)) /\ Len(recency') = m
    BY <1>1, <1>2, <1>3, <1>4, <2>1
  <2>3. \A i \in 1..n : Append(lru, d)[i + 1] = recency'[(m - n) + i]
    <3> TAKE i \in 1..n
    <3>1. i + 1 \in 1..(n + 1) /\ (m - n) + (i + 1) - 1 = (m - n) + i
          /\ (i + 1 = n + 1 => (m - n) + i = m)
      BY <1>1
    <3> QED
      BY <2>1, <3>1
  <2>4. Ends(lru', recency') /\ Len(lru') = n
    <3>1. Len(recency') \in Nat /\ n <= Len(recency')
      BY <1>1, <2>2
    <3>2. \A i \in 1..n : Append(lru, d)[i + 1] = recency'[(Len(recency') - n) + i]
      BY <2>2, <2>3
    <3>3. Ends(Tail(Append(lru, d)), recency') /\ Len(Tail(Append(lru, d))) = Len(lru)
      BY <1>1, <3>1, <3>2, DropOldest
    <3> QED
      BY <2>2, <3>3
  <2> QED
    BY <1>1, <1>3, <2>1, <2>2, <2>4 DEF HInv
<1>5. CASE d \notin Seen
  <2>1. recency' = Append(recency, d) /\ Len(recency') = m + 1
    BY <1>3, <1>5
  <2>2. Ends(Append(lru, d), recency')
    BY <1>1, <2>1, UseNew
  <2>3. CASE n + 1 <= CacheSize
    <3>1. lru' = Append(lru, d) /\ n = m
      BY <1>1, <1>2, <2>3
    <3> QED
      BY <1>1, <1>2, <1>3, <2>1, <2>2, <2>3, <3>1 DEF HInv
  <2>4. CASE ~(n + 1 <= CacheSize)
    <3>1. lru' = Tail(Append(lru, d)) /\ n = CacheSize
      BY <1>1, <1>2, <2>4
    <3>2. \A i \in 1..n : Append(lru, d)[i + 1] = recency'[(Len(recency') - n) + i]
      <4> TAKE i \in 1..n
      <4>1. i + 1 \in 1..Len(Append(lru, d))
            /\ (Len(recency') - Len(Append(lru, d))) + (i + 1) = (Len(recency') - n) + i
        BY <1>1, <1>2, <2>1
      <4> QED
        BY <2>2, <4>1 DEF Ends
    <3>3. Ends(lru', recency') /\ Len(lru') = n
      <4>1. Len(recency') \in Nat /\ n <= Len(recency')
        BY <1>1, <2>1
      <4>2. Ends(Tail(Append(lru, d)), recency') /\ Len(Tail(Append(lru, d))) = Len(lru)
        BY <1>1, <3>2, <4>1, DropOldest
      <4> QED
        BY <3>1, <4>2
    <3> QED
      BY <1>1, <1>3, <2>1, <3>1, <3>3 DEF HInv
  <2> QED
    BY <2>3, <2>4
<1> QED
  BY <1>4, <1>5

LEMMA HInitial == HInit => HInv
<1> SUFFICES ASSUME HInit PROVE HInv
  OBVIOUS
<1>1. IInv /\ lru = <<>> /\ recency = <<>>
  BY InitIInv DEF HInit, Init
<1>2. Seen = {} /\ Len(recency) = 0 /\ Len(lru) = 0
  BY <1>1 DEF Seen
<1>3. Lists(recency, Seen)
  BY <1>1, <1>2, EmptySeq DEF Lists
<1>4. Ends(lru, recency)
  BY <1>2 DEF Ends
<1> QED
  BY <1>1, <1>2, <1>3, <1>4, CacheSizeAssumption DEF HInv

(* Forgetting the history, every step is a step of the cache.              *)
LEMMA HNextIsNext == [HNext]_hvars => [Next]_vars
BY DEF HNext, hvars, Next, Get, FetchEnds

LEMMA HInductive == HInv /\ [HNext]_hvars => HInv'
<1> SUFFICES ASSUME HInv, [HNext]_hvars PROVE HInv'
  OBVIOUS
<1>1. IInv /\ IInv'
  BY HNextIsNext, NextIInv DEF HInv
<1>2. ASSUME UNCHANGED <<lru, recency>> PROVE HInv'
  BY <1>1, <1>2 DEF HInv, Seen, IInv
<1>3. ASSUME NEW g \in Getters, NEW d \in Docs, GetHit(g, d), Used(d) PROVE HInv'
  BY <1>1, <1>3, TouchKeeps DEF GetHit, Known
<1>4. ASSUME NEW g \in Getters, NEW outline \in {awaiting[g], NoOutline},
             FetchReturns(g, outline), Used(awaiting[g])
      PROVE  HInv'
  <2> DEFINE d == awaiting[g]
  <2>1. d \in Docs /\ Store(d, outline)
    BY <1>1, <1>4 DEF FetchReturns, IInv, TypeOK
  <2>2. d \in Known <=> IsCached(d)
    BY <2>1 DEF Known
  <2>3. lru' = IF Len(Touched(d)) > CacheSize THEN Tail(Touched(d)) ELSE Touched(d)
    BY <2>1 DEF Store
  <2>4. CASE IsCached(d)
    <3>1. Touched(d) = MoveToEnd(lru, d) /\ Len(MoveToEnd(lru, d)) = Len(lru)
      BY <1>1, <2>2, <2>4, MoveToEndLists DEF Touched, IInv
    <3>2. Len(lru) \in Nat /\ Len(lru) <= CacheSize /\ CacheSize \in Nat
      BY <1>1, ListsLen, CacheSizeAssumption DEF IInv
    <3>3. lru' = MoveToEnd(lru, d)
      BY <2>3, <3>1, <3>2
    <3> QED
      BY <1>1, <1>4, <2>2, <2>4, <3>3, TouchKeeps
  <2>5. CASE ~IsCached(d)
    <3>1. Touched(d) = Append(lru, d)
      BY <2>5 DEF Touched
    <3> QED
      BY <1>1, <1>4, <2>1, <2>2, <2>3, <2>5, <3>1, StoreNewKeeps
  <2> QED
    BY <2>4, <2>5
<1> QED
  BY <1>2, <1>3, <1>4 DEF HNext, hvars, vars, GetDisabled, GetMiss, FetchRaises

(* The outlines the cache holds are those of the documents used last, in   *)
(* the order of their last use, whatever fetches overlap, fail or are      *)
(* cancelled: eviction takes the least recently used document and no       *)
(* other (OutlineFetcher.get).                                             *)
THEOREM KeepsRecent == HSpec => []KeepsMostRecent
<1>1. HInv => KeepsMostRecent
  <2> SUFFICES ASSUME HInv PROVE KeepsMostRecent
    OBVIOUS
  <2> DEFINE n == Len(lru)
             m == Len(recency)
             end == SubSeq(recency, m - n + 1, m)
  <2>1. /\ n \in Nat /\ m \in Nat /\ n <= m
        /\ lru \in Seq(Docs) /\ recency \in Seq(Seen) /\ Seen \subseteq Docs
        /\ n = IF m > CacheSize THEN CacheSize ELSE m
    BY ListsLen, SeenDocs DEF HInv, IInv, TypeOK, Ends, Lists
  <2>2. recency \in Seq(Docs)
    BY <2>1, SeqMonotonic
  <2>3. Len(end) = n /\ \A i \in 1..n : end[i] = recency[(m - n) + i]
    BY <2>1, <2>2
  <2>4. end \in Seq(Docs)
    BY <2>1, <2>2
  <2>5. \A i \in 1..n : end[i] = lru[i]
    BY <2>3 DEF HInv, Ends
  <2>6. end = lru
    <3> HIDE DEF end
    <3> QED
      BY <2>1, <2>3, <2>4, <2>5, SeqEqual
  <2> QED
    BY <2>1, <2>6 DEF KeepsMostRecent
<1>2. HSpec => []HInv
  BY HInitial, HInductive, PTL DEF HSpec
<1> QED
  BY <1>1, <1>2, PTL
=============================================================================
