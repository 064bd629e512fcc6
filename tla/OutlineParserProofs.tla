------------------------ MODULE OutlineParserProofs -------------------------
(***************************************************************************)
(* Proofs about OutlineParser, for every set of ids, every length of a     *)
(* word and every bound on the page.  All rest on two facts about what     *)
(* the parser keeps of the page's structure: the stack of sections is the  *)
(* part of the open elements that are sections, which is a prefix of them, *)
(* and the skip count is at most the number of non-prose elements among    *)
(* them, short of it by at most the stray end tags read since the first of *)
(* these was opened.  The body, the levels, the headings and the places of *)
(* words then each have an invariant of their own.                         *)
(***************************************************************************)
EXTENDS OutlineParser, Counting, TLAPS

Kinds == {"section", "heading", "nonprose", "stray", "word"}
Names == Ids \cup {NoId} \cup NonProseTags \cup Nat
Event == [kind : Kinds, id : Names, within : SUBSET Nat]

HistoryOK ==
    /\ history \in Seq(Event)
    /\ \A e \in DOMAIN history : history[e].within \subseteq 1..e - 1
    /\ \A e \in Events("section") : history[e].id \in Ids \cup {NoId}

(* The open elements are events, in the order they happened.               *)
PageOK ==
    /\ page \in Seq(Nat)
    /\ \A i \in DOMAIN page : /\ page[i] \in DOMAIN history
                              /\ history[page[i]].kind # "word"
    /\ \A i, j \in DOMAIN page : i < j => page[i] < page[j]

StackOK ==
    /\ openSections \in Seq(Ids \cup {NoId})
    /\ Len(openSections) <= Len(page)
    /\ \A i \in DOMAIN page : history[page[i]].kind = "section" <=> i <= Len(openSections)
    /\ \A i \in DOMAIN openSections : openSections[i] = history[page[i]].id

(* An event the page may bring next.                                       *)
Fits(k, id) ==
    /\ k \in Kinds
    /\ id \in Names
    /\ k = "section" => id \in Ids \cup {NoId}

(* A stray end tag takes one from the count that belongs to an element     *)
(* still open, and the count starts anew once none is.                     *)
StraysWithin(o) == {s \in Events("stray") : o \in history[s].within}

SkipOK ==
    /\ skip \in Nat
    /\ skip <= Cardinality(NonProseOpen)
    /\ NonProseOpen # {} =>
           Cardinality(NonProseOpen) <= skip + Cardinality(StraysWithin(Earliest(NonProseOpen)))

Structure == HistoryOK /\ PageOK /\ StackOK /\ SkipOK

(* What an end tag may be: that of the innermost element or of none, ...   *)
EndRead(k) ==
    \/ Closes(k)
    \/ (\A e \in Range(page) : history[e].kind # k) /\ UNCHANGED <<page, history>>

(* ... or of a non-prose element other than those that are open.           *)
StrayRead(tag) == Happens("stray", tag) /\ NonProseOpen # {} /\ UNCHANGED page

Lowered(n) == IF n = 0 THEN 0 ELSE n - 1

LEMMA EndIs == \A k : Ends(k) => EndRead(k)
BY DEF Ends, EndRead

LEMMA EndNonProseIs ==
    ASSUME NEW tag, EndNonProse(tag)
    PROVE  /\ UNCHANGED <<openSections, collecting, level, buffer, words, length, sections, starts>>
           /\ skip' = Lowered(skip)
           /\ EndRead("nonprose") \/ StrayRead(tag)
<1>1. NonProseOpen = {} => \A e \in Range(page) : history[e].kind # "nonprose"
  BY DEF NonProseOpen
<1> QED BY <1>1 DEF EndNonProse, NonProseEnds, EndRead, StrayRead, Lowered

-----------------------------------------------------------------------------
(* A sequence that grows by one element.                                   *)
LEMMA AppendIs ==
    ASSUME NEW X, NEW s \in Seq(X), NEW x
    PROVE  /\ Len(Append(s, x)) = Len(s) + 1 /\ DOMAIN Append(s, x) = 1..Len(s) + 1
           /\ \A i \in 1..Len(s) : Append(s, x)[i] = s[i]
           /\ Append(s, x)[Len(s) + 1] = x
           /\ x \in X => Append(s, x) \in Seq(X)
OBVIOUS

LEMMA AppendRange ==
    ASSUME NEW X, NEW s \in Seq(X), NEW x
    PROVE  Range(Append(s, x)) = Range(s) \cup {x}
<1> DEFINE t == Append(s, x)
<1>1. /\ Len(s) \in Nat /\ DOMAIN s = 1..Len(s) /\ DOMAIN t = 1..Len(s) + 1
      /\ \A i \in 1..Len(s) : t[i] = s[i]
      /\ t[Len(s) + 1] = x
  BY AppendIs
<1> HIDE DEF t
<1>2. Range(t) = {t[i] : i \in 1..Len(s) + 1} /\ Range(s) = {s[i] : i \in 1..Len(s)}
  BY <1>1 DEF Range
<1>3. 1..Len(s) + 1 = (1..Len(s)) \cup {Len(s) + 1}
  BY <1>1
<1> QED BY <1>1, <1>2, <1>3 DEF t

-----------------------------------------------------------------------------
(* An event happens: what it adds, and what it leaves as it was.           *)

LEMMA NewEvent ==
    ASSUME HistoryOK
    PROVE  /\ Len(history) \in Nat
           /\ DOMAIN history = 1..Len(history)
           /\ Len(history) + 1 \notin DOMAIN history
           /\ \A kind : Events(kind) \subseteq DOMAIN history
           /\ WordsRead \in Nat
<1>1. Len(history) \in Nat /\ DOMAIN history = 1..Len(history)
  BY DEF HistoryOK
<1>2. \A kind : Events(kind) \subseteq DOMAIN history
  BY DEF Events
<1>3. IsFiniteSet(Events("word"))
  <2>1. IsFiniteSet(1..Len(history))
    BY <1>1, FS_Interval
  <2>2. Events("word") \in SUBSET (1..Len(history))
    BY <1>1, <1>2
  <2> QED BY <2>1, <2>2, FS_Subset
<1> QED BY <1>1, <1>2, <1>3, FS_CardinalityType DEF WordsRead

LEMMA HistoryGrows ==
    ASSUME HistoryOK, PageOK, NEW k, NEW id, Fits(k, id), Happens(k, id)
    PROVE  /\ HistoryOK'
           /\ Len(history') = Len(history) + 1
           /\ DOMAIN history' = DOMAIN history \cup {Len(history) + 1}
           /\ \A e \in DOMAIN history : history'[e] = history[e]
           /\ history'[Len(history) + 1] =
                  [kind |-> k, id |-> id, within |-> Range(page)]
<1> DEFINE r == [kind |-> k, id |-> id, within |-> Range(page)]
<1>1. Range(page) \subseteq 1..Len(history)
  BY DEF HistoryOK, PageOK, Range
<1>2. r \in Event
  BY <1>1 DEF Event, Fits
<1>3. history' = Append(history, r)
  BY DEF Happens
<1>4. history \in Seq(Event)
  BY DEF HistoryOK
<1>5. r.kind = k /\ r.id = id /\ r.within = Range(page)
  OBVIOUS
<1> HIDE DEF r
<1>6. /\ history' \in Seq(Event)
      /\ Len(history') = Len(history) + 1
      /\ DOMAIN history' = DOMAIN history \cup {Len(history) + 1}
      /\ \A e \in DOMAIN history : history'[e] = history[e]
      /\ history'[Len(history) + 1] = r
  BY <1>2, <1>3, <1>4
<1>7. \A e \in DOMAIN history' : history'[e].within \subseteq 1..e - 1
  <2> TAKE e \in DOMAIN history'
  <2>1. CASE e \in DOMAIN history
    BY <1>6, <2>1 DEF HistoryOK
  <2>2. CASE e = Len(history) + 1
    BY <1>1, <1>4, <1>5, <1>6, <2>2
  <2> QED BY <1>6, <2>1, <2>2
<1>8. \A e \in Events("section")' : history'[e].id \in Ids \cup {NoId}
  BY <1>5, <1>6 DEF HistoryOK, Events, Fits
<1> QED BY <1>6, <1>7, <1>8 DEF HistoryOK, r

LEMMA EventsGrow ==
    ASSUME HistoryOK, PageOK, NEW k, NEW id, Fits(k, id), Happens(k, id),
           NEW kind
    PROVE  Events(kind)' = IF kind = k THEN Events(kind) \cup {Len(history) + 1}
                           ELSE Events(kind)
<1>1. /\ DOMAIN history' = DOMAIN history \cup {Len(history) + 1}
      /\ \A e \in DOMAIN history : history'[e] = history[e]
      /\ history'[Len(history) + 1] =
             [kind |-> k, id |-> id, within |-> Range(page)]
  BY HistoryGrows
<1>2. history'[Len(history) + 1].kind = k
  BY <1>1
<1>3. \A e \in DOMAIN history' : history'[e].kind = kind <=>
          \/ e \in DOMAIN history /\ history[e].kind = kind
          \/ e = Len(history) + 1 /\ k = kind
  BY <1>1, <1>2, NewEvent
<1> QED BY <1>1, <1>3 DEF Events

LEMMA SectionsAroundStay ==
    ASSUME HistoryOK, PageOK, NEW k, NEW id, Fits(k, id), Happens(k, id)
    PROVE  /\ \A e \in DOMAIN history : SectionsAround(e)' = SectionsAround(e)
           /\ \A n : n = Len(history) + 1 =>
                  SectionsAround(n)' = {e \in Range(page) : history[e].kind = "section"}
<1>1. /\ \A e \in DOMAIN history : history'[e] = history[e]
      /\ history'[Len(history) + 1] = [kind |-> k, id |-> id, within |-> Range(page)]
  BY HistoryGrows
<1>9. history'[Len(history) + 1].within = Range(page)
  BY <1>1
<1>2. \A e \in DOMAIN history : history[e].within \subseteq DOMAIN history
  <2> TAKE e \in DOMAIN history
  <2>1. history[e].within \subseteq 1..e - 1 /\ DOMAIN history = 1..Len(history)
    BY DEF HistoryOK
  <2>2. Len(history) \in Nat
    BY DEF HistoryOK
  <2> QED BY <2>1, <2>2
<1>3. Range(page) \subseteq DOMAIN history
  BY DEF PageOK, Range
<1>4. ASSUME NEW e \in DOMAIN history
      PROVE  SectionsAround(e)' = SectionsAround(e)
  BY <1>1, <1>2, <1>4 DEF SectionsAround
<1>5. ASSUME NEW n, n = Len(history) + 1
      PROVE  SectionsAround(n)' = {e \in Range(page) : history[e].kind = "section"}
  BY <1>1, <1>9, <1>3, <1>5 DEF SectionsAround
<1> QED BY <1>4, <1>5

-----------------------------------------------------------------------------
(* An element opens: it is the innermost.                                  *)
LEMMA PagePush ==
    ASSUME HistoryOK, PageOK, NEW k, NEW id, k # "word", Fits(k, id), Opens(k, id)
    PROVE  /\ PageOK'
           /\ Happens(k, id)
           /\ Len(page') = Len(page) + 1
           /\ \A i \in DOMAIN page : page'[i] = page[i]
           /\ page'[Len(page) + 1] = Len(history) + 1
           /\ Range(page)' = Range(page) \cup {Len(history) + 1}
<1>1. Happens(k, id) /\ page' = Append(page, Len(history) + 1)
  BY DEF Opens
<1>2. page \in Seq(Nat) /\ Len(history) \in Nat /\ DOMAIN history = 1..Len(history)
  BY DEF PageOK, HistoryOK
<1>3. /\ Len(page') = Len(page) + 1
      /\ DOMAIN page' = DOMAIN page \cup {Len(page) + 1}
      /\ \A i \in DOMAIN page : page'[i] = page[i]
      /\ page'[Len(page) + 1] = Len(history) + 1
      /\ DOMAIN page = 1..Len(page)
  BY <1>1, <1>2
<1>9. page' \in Seq(Nat)
  BY <1>1, <1>2, Len(history) + 1 \in Nat
<1>4. Range(page)' = Range(page) \cup {Len(history) + 1}
  BY <1>3 DEF Range
<1>5. /\ DOMAIN history' = DOMAIN history \cup {Len(history) + 1}
      /\ \A e \in DOMAIN history : history'[e] = history[e]
      /\ history'[Len(history) + 1] = [kind |-> k, id |-> id, within |-> Range(page)]
  BY <1>1, HistoryGrows
<1>8. history'[Len(history) + 1].kind = k
  BY <1>5
<1>6. PageOK'
  <2>1. \A i \in DOMAIN page' : page'[i] \in DOMAIN history' /\ history'[page'[i]].kind # "word"
    BY <1>3, <1>5, <1>8 DEF PageOK
  <2>2. \A i, j \in DOMAIN page' : i < j => page'[i] < page'[j]
    BY <1>2, <1>3 DEF PageOK
  <2> QED BY <1>9, <2>1, <2>2 DEF PageOK
<1> QED BY <1>1, <1>3, <1>4, <1>6

(* The innermost element ends.                                             *)
LEMMA PagePop ==
    ASSUME HistoryOK, PageOK, page # <<>>, page' = Front(page), UNCHANGED history
    PROVE  /\ PageOK'
           /\ Len(page) \in Nat \ {0}
           /\ Len(page') = Len(page) - 1
           /\ \A i \in DOMAIN page' : i \in DOMAIN page /\ page'[i] = page[i]
           /\ Last(page) = page[Len(page)]
           /\ Last(page) \in Range(page)
           /\ Range(page)' = Range(page) \ {Last(page)}
<1>1. /\ page \in Seq(Nat)
      /\ page' = SubSeq(page, 1, Len(page) - 1)
      /\ Last(page) = page[Len(page)]
  BY DEF PageOK, Front, Last
<1>2. /\ Len(page) \in Nat \ {0}
      /\ DOMAIN page = 1..Len(page)
      /\ Len(page') = Len(page) - 1
      /\ DOMAIN page' = 1..Len(page) - 1
      /\ \A i \in DOMAIN page' : i \in DOMAIN page /\ page'[i] = page[i]
      /\ page' \in Seq(Nat)
  <2>1. Len(page) \in Nat \ {0} /\ DOMAIN page = 1..Len(page)
    BY <1>1
  <2>2. /\ Len(page') = Len(page) - 1
        /\ DOMAIN page' = 1..Len(page) - 1
        /\ page' \in Seq(Nat)
    BY <1>1, <2>1
  <2>3. \A i \in 1..Len(page) - 1 : page'[i] = page[i]
    BY <1>1, <2>1
  <2> QED BY <2>1, <2>2, <2>3
<1>3. Last(page) \in Range(page)
  <2>1. Len(page) \in DOMAIN page /\ Last(page) = page[Len(page)]
    BY <1>1, <1>2 DEF Last
  <2> QED BY <2>1 DEF Range
<1>4. \A i \in DOMAIN page' : page[i] # Last(page)
  <2> TAKE i \in DOMAIN page'
  <2>1. i \in DOMAIN page /\ Len(page) \in DOMAIN page /\ i < Len(page)
    BY <1>2
  <2>2. page[i] < page[Len(page)] /\ page[i] \in Nat /\ page[Len(page)] \in Nat
    BY <2>1, <1>1 DEF PageOK
  <2> QED BY <1>1, <2>2
<1>5. Range(page)' = Range(page) \ {Last(page)}
  <2>1. \A i \in DOMAIN page : i \in DOMAIN page' \/ i = Len(page)
    BY <1>2
  <2> QED BY <1>1, <1>2, <1>4, <2>1 DEF Range
<1>6. PageOK'
  BY <1>2 DEF PageOK
<1> QED BY <1>1, <1>2, <1>3, <1>5, <1>6

-----------------------------------------------------------------------------
(* Every step keeps the stack and the skip count in line with the page.    *)

LEMMA StackEmpty ==
    ASSUME PageOK, StackOK
    PROVE  openSections = <<>> <=> \A e \in Range(page) : history[e].kind # "section"
<1>1. /\ Len(openSections) \in Nat /\ Len(page) \in Nat
      /\ DOMAIN page = 1..Len(page)
      /\ openSections = <<>> <=> Len(openSections) = 0
      /\ Len(openSections) <= Len(page)
  BY DEF PageOK, StackOK
<1>2. CASE Len(openSections) = 0
  BY <1>1, <1>2 DEF StackOK, Range
<1>3. CASE Len(openSections) # 0
  <2>1. 1 \in DOMAIN page /\ 1 <= Len(openSections)
    BY <1>1, <1>3
  <2>2. history[page[1]].kind = "section" /\ page[1] \in Range(page)
    BY <2>1 DEF StackOK, Range
  <2> QED BY <1>1, <1>3, <2>2
<1> QED BY <1>2, <1>3

(* The stack stands for the elements it stood for.                         *)
LEMMA StackStays ==
    ASSUME StackOK, PageOK, HistoryOK, UNCHANGED openSections,
           NEW k, NEW id, Fits(k, id), k \notin {"section", "word"}, Opens(k, id)
    PROVE  StackOK'
<1>1. /\ Happens(k, id)
      /\ Len(page') = Len(page) + 1
      /\ \A i \in DOMAIN page : page'[i] = page[i]
      /\ page'[Len(page) + 1] = Len(history) + 1
      /\ page' \in Seq(Nat)
  BY PagePush DEF PageOK
<1>2. /\ \A e \in DOMAIN history : history'[e] = history[e]
      /\ history'[Len(history) + 1] = [kind |-> k, id |-> id, within |-> Range(page)]
  BY <1>1, HistoryGrows
<1>3. history'[Len(history) + 1].kind # "section"
  BY <1>2
<1>4. /\ page \in Seq(Nat) /\ Len(page) \in Nat /\ DOMAIN page = 1..Len(page)
      /\ DOMAIN page' = 1..Len(page) + 1
      /\ Len(openSections) \in Nat /\ DOMAIN openSections = 1..Len(openSections)
      /\ Len(openSections) <= Len(page)
  BY <1>1 DEF PageOK, StackOK
<1>5. \A i \in DOMAIN page' : history'[page'[i]].kind = "section" <=> i <= Len(openSections)
  <2> TAKE i \in DOMAIN page'
  <2>1. CASE i \in DOMAIN page
    BY <1>1, <1>2, <2>1 DEF PageOK, StackOK
  <2>2. CASE i = Len(page) + 1
    BY <1>1, <1>3, <1>4, <2>2
  <2> QED BY <1>4, <2>1, <2>2
<1>6. \A i \in DOMAIN openSections : openSections[i] = history'[page'[i]].id
  BY <1>1, <1>2, <1>4 DEF PageOK, StackOK
<1> QED BY <1>1, <1>4, <1>5, <1>6 DEF StackOK

LEMMA StackOnPop ==
    ASSUME StackOK, PageOK, HistoryOK, page # <<>>, page' = Front(page),
           UNCHANGED history,
           openSections' = IF history[Last(page)].kind = "section" THEN Front(openSections)
                           ELSE openSections
    PROVE  StackOK'
<1>1. /\ PageOK'
      /\ Len(page) \in Nat \ {0}
      /\ Len(page') = Len(page) - 1
      /\ \A i \in DOMAIN page' : i \in DOMAIN page /\ page'[i] = page[i]
      /\ Last(page) = page[Len(page)]
  BY PagePop
<1>2. /\ DOMAIN page = 1..Len(page) /\ DOMAIN page' = 1..Len(page')
      /\ openSections \in Seq(Ids \cup {NoId})
      /\ Len(openSections) \in Nat /\ DOMAIN openSections = 1..Len(openSections)
      /\ Len(openSections) <= Len(page)
      /\ Len(page) \in DOMAIN page
  BY <1>1 DEF PageOK, StackOK
<1>9. Len(openSections) \in Nat /\ Len(page) \in Nat /\ Len(openSections) <= Len(page)
  BY <1>1, <1>2
<1>3. history[Last(page)].kind = "section" <=> Len(openSections) = Len(page)
  <2>1. history[page[Len(page)]].kind = "section" <=> Len(page) <= Len(openSections)
    BY <1>2 DEF StackOK
  <2>2. Len(page) <= Len(openSections) <=> Len(openSections) = Len(page)
    BY <1>9
  <2> QED BY <1>1, <2>1, <2>2
<1>4. CASE Len(openSections) = Len(page)
  <2>1. openSections' = SubSeq(openSections, 1, Len(openSections) - 1)
    BY <1>3, <1>4 DEF Front
  <2>2. /\ openSections' \in Seq(Ids \cup {NoId})
        /\ Len(openSections') = Len(page) - 1
        /\ DOMAIN openSections' = 1..Len(page) - 1
    BY <2>1, <1>1, <1>2, <1>4
  <2>3. \A i \in 1..Len(page) - 1 : openSections'[i] = openSections[i]
    BY <2>1, <1>1, <1>2, <1>4
  <2>4. \A i \in DOMAIN page' : i <= Len(openSections') /\ i <= Len(openSections)
    BY <1>1, <1>2, <1>4, <2>2
  <2>5. \A i \in DOMAIN page' : history[page'[i]].kind = "section"
    BY <1>1, <2>4 DEF StackOK
  <2>6. \A i \in DOMAIN openSections' : openSections'[i] = history[page'[i]].id
    BY <1>1, <1>2, <1>4, <2>2, <2>3 DEF StackOK
  <2> QED BY <1>1, <2>2, <2>4, <2>5, <2>6 DEF StackOK
<1>5. CASE Len(openSections) # Len(page)
  <2>0. openSections' = openSections
    BY <1>3, <1>5
  <2>1. openSections' = openSections /\ Len(openSections) <= Len(page')
    <3>1. Len(page') = Len(page) - 1
      BY <1>1
    <3>2. Len(openSections) <= Len(page) - 1
      BY <1>9, <1>5
    <3> QED BY <2>0, <3>1, <3>2
  <2>2. \A i \in DOMAIN page' : history[page'[i]].kind = "section" <=> i <= Len(openSections)
    BY <1>1 DEF StackOK
  <2>3. \A i \in DOMAIN openSections : openSections[i] = history[page'[i]].id
    BY <1>1, <1>2, <2>1 DEF StackOK
  <2> QED BY <1>2, <2>1, <2>2, <2>3 DEF StackOK
<1> QED BY <1>4, <1>5

LEMMA EarliestOne ==
    ASSUME NEW S, S \subseteq Nat, S # {}
    PROVE  Earliest(S) \in S /\ \A n \in S : Earliest(S) <= n
BY LeastNumber DEF Earliest

(* Numbers above all of a set leave its least element what it is.          *)
LEMMA EarliestStays ==
    ASSUME NEW S, NEW T, T \subseteq Nat, S \subseteq T, S # {},
           \A n \in T \ S : \A m \in S : m < n
    PROVE  Earliest(T) = Earliest(S)
<1>1. PICK m : m = Earliest(S)
  OBVIOUS
<1>2. PICK n : n = Earliest(T)
  OBVIOUS
<1>3. m \in S /\ \A e \in S : m <= e
  BY <1>1, EarliestOne
<1>4. n \in T /\ \A e \in T : n <= e
  BY <1>2, EarliestOne
<1>5. n \in Nat /\ m \in Nat /\ n <= m
  BY <1>3, <1>4
<1>6. n \in S
  BY <1>3, <1>4, <1>5
<1> QED BY <1>1, <1>2, <1>3, <1>5, <1>6

(* The sets the bounds of the skip count are about.                        *)
LEMMA NonProseFacts ==
    ASSUME HistoryOK, PageOK
    PROVE  /\ NonProseOpen \subseteq DOMAIN history /\ DOMAIN history \subseteq Nat
           /\ IsFiniteSet(NonProseOpen) /\ Cardinality(NonProseOpen) \in Nat
           /\ Cardinality(NonProseOpen) = 0 <=> NonProseOpen = {}
           /\ \A o : /\ IsFiniteSet(StraysWithin(o))
                     /\ Cardinality(StraysWithin(o)) \in Nat
<1>1. /\ DOMAIN history = 1..Len(history) /\ Len(history) \in Nat
      /\ Events("stray") \subseteq DOMAIN history
  BY NewEvent
<1>2. NonProseOpen \subseteq DOMAIN history
  BY DEF NonProseOpen, PageOK, Range
<1>3. IsFiniteSet(DOMAIN history)
  BY <1>1, FS_Interval
<1>4. IsFiniteSet(NonProseOpen)
  BY <1>2, <1>3, FS_Subset
<1>5. ASSUME NEW o PROVE IsFiniteSet(StraysWithin(o)) /\ Cardinality(StraysWithin(o)) \in Nat
  <2>1. StraysWithin(o) \in SUBSET DOMAIN history
    BY <1>1 DEF StraysWithin
  <2>2. IsFiniteSet(StraysWithin(o))
    BY <1>3, <2>1, FS_Subset
  <2> QED BY <2>2, FS_CardinalityType
<1> QED BY <1>1, <1>2, <1>4, <1>5, FS_CardinalityType, FS_EmptySet

LEMMA SkipOnPush ==
    ASSUME Structure, NEW k, NEW id, Fits(k, id), k \notin {"stray", "word"}, Opens(k, id),
           skip' = IF k = "nonprose" THEN skip + 1 ELSE skip
    PROVE  SkipOK'
<1>0. HistoryOK /\ PageOK /\ SkipOK
  BY DEF Structure
<1>9. PICK n : n = Len(history) + 1
  OBVIOUS
<1>1. Happens(k, id) /\ Range(page)' = Range(page) \cup {n} /\ PageOK' /\ HistoryOK'
  BY <1>0, <1>9, PagePush, HistoryGrows
<1>2. /\ \A e \in DOMAIN history : history'[e] = history[e]
      /\ history'[n] = [kind |-> k, id |-> id, within |-> Range(page)]
      /\ Events("stray")' = Events("stray")
  BY <1>0, <1>1, <1>9, HistoryGrows, EventsGrow
<1>3. history'[n].kind = k
  BY <1>2
<1>4. /\ Range(page) \subseteq DOMAIN history /\ n \notin DOMAIN history
      /\ Events("stray") \subseteq DOMAIN history
      /\ n \in Nat /\ \A e \in DOMAIN history : e < n
  BY <1>0, <1>9, NewEvent DEF PageOK, Range
<1>5. NonProseOpen' = IF k = "nonprose" THEN NonProseOpen \cup {n} ELSE NonProseOpen
  BY <1>1, <1>2, <1>3, <1>4 DEF NonProseOpen
<1>6. \A o : StraysWithin(o)' = StraysWithin(o)
  BY <1>2, <1>4 DEF StraysWithin
<1>7. /\ NonProseOpen \subseteq DOMAIN history /\ NonProseOpen \subseteq Nat
      /\ IsFiniteSet(NonProseOpen) /\ Cardinality(NonProseOpen) \in Nat
      /\ Cardinality(NonProseOpen) = 0 <=> NonProseOpen = {}
      /\ \A o : Cardinality(StraysWithin(o)) \in Nat
  BY <1>0, NonProseFacts
<1>8. CASE k = "nonprose"
  <2>1. NonProseOpen' = NonProseOpen \cup {n} /\ n \notin NonProseOpen /\ skip' = skip + 1
    BY <1>4, <1>5, <1>7, <1>8
  <2>2. Cardinality(NonProseOpen \cup {n}) = Cardinality(NonProseOpen) + 1
    BY <1>7, <2>1, FS_AddElement
  <2>3. PICK S, T : S = NonProseOpen /\ T = NonProseOpen'
    OBVIOUS
  <2>4. CASE S = {}
    <3>1. Cardinality(T) = 1 /\ skip = 0
      BY <1>0, <1>7, <2>1, <2>2, <2>3, <2>4 DEF SkipOK
    <3>2. Cardinality(StraysWithin(Earliest(T)))' \in Nat
      BY <1>6, <1>7
    <3>3. 1 <= 1 + Cardinality(StraysWithin(Earliest(T)))'
      BY <3>2
    <3>4. Cardinality(StraysWithin(Earliest(NonProseOpen)))' = Cardinality(StraysWithin(Earliest(T)))'
      BY <2>3 DEF StraysWithin, Earliest
    <3> QED BY <2>1, <2>3, <3>1, <3>3, <3>4 DEF SkipOK
  <2>5. CASE S # {}
    <3>1. Earliest(T) = Earliest(S)
      <4>1. T \subseteq Nat /\ S \subseteq T /\ \A e \in T \ S : \A m \in S : m < e
        BY <1>4, <1>7, <2>1, <2>3
      <4> QED BY <2>5, <4>1, EarliestStays
    <3>2. PICK o : o = Earliest(S)
      OBVIOUS
    <3>3. Earliest(NonProseOpen)' = o
      BY <2>3, <3>1, <3>2 DEF Earliest
    <3>4. StraysWithin(Earliest(NonProseOpen))' = StraysWithin(o)
      BY <1>6, <3>3 DEF StraysWithin
    <3>5. /\ skip \in Nat /\ skip <= Cardinality(S)
          /\ Cardinality(S) <= skip + Cardinality(StraysWithin(o))
      BY <1>0, <2>3, <2>5, <3>2 DEF SkipOK
    <3>6. Cardinality(StraysWithin(o)) \in Nat /\ Cardinality(S) \in Nat
      BY <1>7, <2>3
    <3>7. Cardinality(NonProseOpen)' = Cardinality(S) + 1
      BY <2>1, <2>2, <2>3
    <3> QED BY <2>1, <3>4, <3>5, <3>6, <3>7 DEF SkipOK
  <2> QED BY <2>4, <2>5
<1>10. CASE k # "nonprose"
  <2>1. NonProseOpen' = NonProseOpen /\ skip' = skip
    BY <1>5, <1>10
  <2>2. StraysWithin(Earliest(NonProseOpen))' = StraysWithin(Earliest(NonProseOpen))
    <3>1. PICK o : o = Earliest(NonProseOpen)
      OBVIOUS
    <3>2. Earliest(NonProseOpen)' = o
      BY <2>1, <3>1 DEF Earliest
    <3> QED BY <1>6, <3>1, <3>2 DEF StraysWithin
  <2> QED BY <1>0, <2>1, <2>2 DEF SkipOK
<1> QED BY <1>8, <1>10

LEMMA SkipOnPop ==
    ASSUME Structure, page # <<>>, page' = Front(page), UNCHANGED history,
           skip' = IF history[Last(page)].kind = "nonprose" THEN Lowered(skip) ELSE skip
    PROVE  SkipOK'
<1>0. HistoryOK /\ PageOK /\ SkipOK
  BY DEF Structure
<1>9. PICK n : n = Last(page)
  OBVIOUS
<1>1. /\ Range(page)' = Range(page) \ {n}
      /\ n \in Range(page) /\ n = page[Len(page)] /\ Len(page) \in Nat \ {0}
  BY <1>0, <1>9, PagePop
<1>2. NonProseOpen' = NonProseOpen \ {n}
  BY <1>1 DEF NonProseOpen
<1>3. \A o : StraysWithin(o)' = StraysWithin(o)
  BY DEF StraysWithin, Events
<1>4. \A e \in Range(page) : e = n \/ e < n
  <2> TAKE e \in Range(page)
  <2>1. PICK i \in DOMAIN page : e = page[i]
    BY DEF Range
  <2>2. DOMAIN page = 1..Len(page)
    BY <1>0 DEF PageOK
  <2>3. i = Len(page) \/ (i < Len(page) /\ Len(page) \in DOMAIN page)
    BY <1>1, <2>2
  <2> QED BY <1>0, <1>1, <2>1, <2>3 DEF PageOK
<1>5. /\ NonProseOpen \subseteq Nat /\ NonProseOpen \subseteq Range(page)
      /\ IsFiniteSet(NonProseOpen) /\ Cardinality(NonProseOpen) \in Nat
      /\ Cardinality(NonProseOpen) = 0 <=> NonProseOpen = {}
      /\ \A o : Cardinality(StraysWithin(o)) \in Nat
  BY <1>0, NonProseFacts DEF NonProseOpen
<1>6. PICK S, T : S = NonProseOpen /\ T = NonProseOpen'
  OBVIOUS
<1>7. CASE history[n].kind = "nonprose"
  <2>1. n \in S /\ T = S \ {n} /\ skip' = Lowered(skip)
    BY <1>1, <1>2, <1>6, <1>7, <1>9 DEF NonProseOpen
  <2>2. Cardinality(T) = Cardinality(S) - 1 /\ Cardinality(S) \in Nat
    BY <1>5, <1>6, <2>1, FS_RemoveElement
  <2>3. Cardinality(S) # 0
    BY <1>5, <1>6, <2>1
  <2>4. skip \in Nat /\ skip <= Cardinality(S)
    BY <1>0, <1>6 DEF SkipOK
  <2>5. skip' \in Nat /\ skip' <= Cardinality(T) /\ skip - 1 <= skip'
    BY <2>1, <2>2, <2>3, <2>4 DEF Lowered
  <2>6. ASSUME T # {}
        PROVE  Cardinality(T) <= skip' + Cardinality(StraysWithin(Earliest(NonProseOpen)))'
    <3>1. Earliest(S) = Earliest(T)
      <4>1. S \subseteq Nat /\ T \subseteq S /\ \A e \in S \ T : \A m \in T : m < e
        BY <1>4, <1>5, <1>6, <2>1
      <4> QED BY <2>6, <4>1, EarliestStays
    <3>2. PICK o : o = Earliest(S)
      OBVIOUS
    <3>3. Earliest(NonProseOpen)' = o
      BY <1>6, <3>1, <3>2 DEF Earliest
    <3>4. StraysWithin(Earliest(NonProseOpen))' = StraysWithin(o)
      BY <1>3, <3>3 DEF StraysWithin
    <3>5. Cardinality(S) <= skip + Cardinality(StraysWithin(o))
      BY <1>0, <1>6, <2>1, <3>2 DEF SkipOK
    <3>6. Cardinality(StraysWithin(o)) \in Nat
      BY <1>5
    <3> QED BY <2>2, <2>4, <2>5, <3>4, <3>5, <3>6
  <2> QED BY <1>6, <2>5, <2>6 DEF SkipOK
<1>8. CASE history[n].kind # "nonprose"
  <2>1. NonProseOpen' = NonProseOpen /\ skip' = skip
    BY <1>2, <1>8, <1>9 DEF NonProseOpen
  <2>2. StraysWithin(Earliest(NonProseOpen))' = StraysWithin(Earliest(NonProseOpen))
    <3>1. PICK o : o = Earliest(NonProseOpen)
      OBVIOUS
    <3>2. Earliest(NonProseOpen)' = o
      BY <2>1, <3>1 DEF Earliest
    <3> QED BY <1>3, <3>1, <3>2 DEF StraysWithin
  <2> QED BY <1>0, <2>1, <2>2 DEF SkipOK
<1> QED BY <1>7, <1>8

(* A stray end tag is one more of them, and takes one from the count.      *)
LEMMA SkipOnStray ==
    ASSUME Structure, NEW tag, Fits("stray", tag), StrayRead(tag), skip' = Lowered(skip)
    PROVE  SkipOK'
<1>0. HistoryOK /\ PageOK /\ SkipOK
  BY DEF Structure
<1>1. PICK n : n = Len(history) + 1
  OBVIOUS
<1>2. /\ Happens("stray", tag) /\ NonProseOpen # {} /\ UNCHANGED page
  BY DEF StrayRead
<1>3. /\ \A e \in DOMAIN history : history'[e] = history[e]
      /\ history'[n] = [kind |-> "stray", id |-> tag, within |-> Range(page)]
      /\ Events("stray")' = Events("stray") \cup {n}
      /\ Events("stray") \subseteq DOMAIN history
      /\ n \notin DOMAIN history
      /\ Range(page) \subseteq DOMAIN history
  BY <1>0, <1>1, <1>2, HistoryGrows, EventsGrow, NewEvent DEF PageOK, Range
<1>4. history'[n].within = Range(page)
  BY <1>3
<1>5. NonProseOpen' = NonProseOpen
  BY <1>2, <1>3 DEF NonProseOpen
<1>6. /\ NonProseOpen \subseteq Nat /\ NonProseOpen \subseteq Range(page)
      /\ Cardinality(NonProseOpen) \in Nat
      /\ \A o : IsFiniteSet(StraysWithin(o)) /\ Cardinality(StraysWithin(o)) \in Nat
  BY <1>0, NonProseFacts DEF NonProseOpen
<1>7. PICK o : o = Earliest(NonProseOpen)
  OBVIOUS
<1>8. o \in Range(page)
  BY <1>2, <1>6, <1>7, EarliestOne
<1>9. StraysWithin(o)' = StraysWithin(o) \cup {n} /\ n \notin StraysWithin(o)
  BY <1>3, <1>4, <1>8 DEF StraysWithin
<1>10. Cardinality(StraysWithin(o) \cup {n}) = Cardinality(StraysWithin(o)) + 1
  BY <1>6, <1>9, FS_AddElement
<1>11. Earliest(NonProseOpen)' = o
  BY <1>5, <1>7 DEF Earliest
<1>12. Cardinality(StraysWithin(Earliest(NonProseOpen)))' = Cardinality(StraysWithin(o)) + 1
  <2>1. StraysWithin(Earliest(NonProseOpen))' = StraysWithin(o)'
    BY <1>11 DEF StraysWithin
  <2> QED BY <1>9, <1>10, <2>1
<1>13. /\ skip \in Nat /\ skip <= Cardinality(NonProseOpen)
       /\ Cardinality(NonProseOpen) <= skip + Cardinality(StraysWithin(o))
  BY <1>0, <1>2, <1>7 DEF SkipOK
<1>14. skip' \in Nat /\ skip' <= skip /\ skip <= skip' + 1
  BY <1>13 DEF Lowered
<1>15. Cardinality(NonProseOpen)' = Cardinality(NonProseOpen)
  BY <1>5
<1>16. Cardinality(StraysWithin(o)) \in Nat
  BY <1>6
<1>17. /\ skip' <= Cardinality(NonProseOpen)
       /\ Cardinality(NonProseOpen) <= skip' + (Cardinality(StraysWithin(o)) + 1)
  BY <1>6, <1>13, <1>14, <1>16
<1> QED BY <1>12, <1>14, <1>15, <1>17 DEF SkipOK

LEMMA FitsElements ==
    /\ \A tag \in NonProseTags : Fits("nonprose", tag) /\ Fits("stray", tag)
    /\ Fits("heading", NoId)
    /\ \A id \in Ids \cup {NoId} : Fits("section", id)
    /\ \A n \in Nat : Fits("word", n)
BY DEF Fits, Kinds, Names

(* An element opens, and the stack and the count follow.                   *)
LEMMA StructureOnPush ==
    ASSUME Structure, NEW k, NEW id, Fits(k, id), k \notin {"stray", "word"}, Opens(k, id),
           skip' = IF k = "nonprose" THEN skip + 1 ELSE skip,
           StackOK'
    PROVE  Structure'
<1>1. Happens(k, id) /\ PageOK'
  BY PagePush DEF Structure
<1>2. HistoryOK'
  BY <1>1, HistoryGrows DEF Structure
<1>3. SkipOK'
  BY SkipOnPush
<1> QED BY <1>1, <1>2, <1>3 DEF Structure

(* An element ends, or a tag that closes nothing is read.                  *)
LEMMA StructureOnEnd ==
    ASSUME Structure, NEW k, EndRead(k), k \in Kinds,
           openSections' = IF k = "section"
                           THEN IF openSections = <<>> THEN <<>> ELSE Front(openSections)
                           ELSE openSections,
           skip' = IF k = "nonprose" THEN Lowered(skip) ELSE skip
    PROVE  Structure'
<1>1. UNCHANGED history
  BY DEF EndRead, Closes
<1>2. HistoryOK /\ PageOK /\ StackOK /\ SkipOK
  BY DEF Structure
<1>3. HistoryOK'
  BY <1>1, <1>2 DEF HistoryOK, Events
<1>4. CASE page # <<>> /\ history[Last(page)].kind = k /\ page' = Front(page)
  <2>1. Last(page) \in Range(page) /\ PageOK'
    BY <1>1, <1>2, <1>4, PagePop
  <2>2. k = "section" => openSections # <<>>
    BY <1>2, <1>4, <2>1, StackEmpty
  <2>3. openSections' = IF history[Last(page)].kind = "section" THEN Front(openSections)
                        ELSE openSections
    BY <1>4, <2>2
  <2>4. StackOK'
    BY <1>1, <1>2, <1>4, <2>3, StackOnPop
  <2>5. SkipOK'
    BY <1>1, <1>4, SkipOnPop
  <2> QED BY <1>3, <2>1, <2>4, <2>5 DEF Structure
<1>5. CASE (\A e \in Range(page) : history[e].kind # k) /\ UNCHANGED page
  <2>1. k = "section" => openSections = <<>>
    BY <1>2, <1>5, StackEmpty
  <2>2. UNCHANGED openSections
    BY <2>1
  <2>3. k = "nonprose" => NonProseOpen = {}
    BY <1>5 DEF NonProseOpen
  <2>4. k = "nonprose" => skip = 0
    <3>1. skip \in Nat /\ skip <= Cardinality(NonProseOpen)
      BY <1>2 DEF SkipOK
    <3> QED BY <2>3, <3>1, FS_EmptySet
  <2>5. UNCHANGED skip
    BY <2>4 DEF Lowered
  <2>6. NonProseOpen' = NonProseOpen /\ UNCHANGED page
    BY <1>1, <1>5 DEF NonProseOpen
  <2>7. SkipOK'
    BY <1>1, <1>2, <2>5, <2>6 DEF SkipOK, StraysWithin, Earliest, Events
  <2> QED BY <1>1, <1>2, <1>3, <1>5, <2>2, <2>7 DEF Structure, PageOK, StackOK
<1> QED BY <1>4, <1>5 DEF EndRead, Closes

(* A stray end tag of a non-prose element is read.                         *)
LEMMA StructureOnStray ==
    ASSUME Structure, NEW tag \in NonProseTags, StrayRead(tag), UNCHANGED openSections,
           skip' = Lowered(skip)
    PROVE  Structure'
<1>1. HistoryOK /\ PageOK /\ StackOK /\ Fits("stray", tag)
  BY FitsElements DEF Structure
<1>2. Happens("stray", tag) /\ UNCHANGED page
  BY DEF StrayRead
<1>3. HistoryOK' /\ DOMAIN history \subseteq DOMAIN history'
      /\ \A e \in DOMAIN history : history'[e] = history[e]
  BY <1>1, <1>2, HistoryGrows
<1>4. PageOK' /\ StackOK'
  BY <1>1, <1>2, <1>3 DEF PageOK, StackOK
<1>5. SkipOK'
  BY <1>1, SkipOnStray
<1> QED BY <1>3, <1>4, <1>5 DEF Structure

LEMMA StructureNext == Structure /\ [Next]_vars => Structure'
<1> SUFFICES ASSUME Structure, [Next]_vars PROVE Structure'
  OBVIOUS
<1>1. HistoryOK /\ PageOK /\ StackOK /\ SkipOK
  BY DEF Structure
<1>2. ASSUME NEW tag \in NonProseTags, StartNonProse(tag)
      PROVE  Structure'
  <2>1. Opens("nonprose", tag) /\ skip' = skip + 1 /\ UNCHANGED openSections
    BY <1>2 DEF StartNonProse
  <2>2. StackOK'
    BY <1>1, <2>1, FitsElements, StackStays
  <2> QED BY <2>1, <2>2, FitsElements, StructureOnPush
<1>3. ASSUME NEW tag \in NonProseTags, EndNonProse(tag)
      PROVE  Structure'
  <2>1. /\ EndRead("nonprose") \/ StrayRead(tag)
        /\ skip' = Lowered(skip) /\ UNCHANGED openSections
    BY <1>3, EndNonProseIs
  <2>2. CASE EndRead("nonprose")
    BY <2>1, <2>2, StructureOnEnd DEF Kinds
  <2>3. CASE StrayRead(tag)
    BY <2>1, <2>3, StructureOnStray
  <2> QED BY <2>1, <2>2, <2>3
<1>4. ASSUME NEW id \in Ids \cup {NoId}, StartSection(id)
      PROVE  Structure'
  <2>1. /\ Opens("section", id) /\ openSections' = Append(openSections, id)
        /\ UNCHANGED skip
        /\ \A e \in Range(page) : history[e].kind = "section"
    BY <1>4 DEF StartSection
  <2>2. /\ Happens("section", id)
        /\ Len(page') = Len(page) + 1
        /\ \A i \in DOMAIN page : page'[i] = page[i]
        /\ page'[Len(page) + 1] = Len(history) + 1
        /\ page' \in Seq(Nat)
    BY <1>1, <2>1, FitsElements, PagePush DEF PageOK
  <2>3. /\ \A e \in DOMAIN history : history'[e] = history[e]
        /\ history'[Len(history) + 1] = [kind |-> "section", id |-> id, within |-> Range(page)]
    BY <1>1, <2>2, FitsElements, HistoryGrows
  <2>4. history'[Len(history) + 1].kind = "section" /\ history'[Len(history) + 1].id = id
    BY <2>3
  <2>5. /\ Len(page) \in Nat /\ DOMAIN page = 1..Len(page) /\ DOMAIN page' = 1..Len(page) + 1
        /\ openSections \in Seq(Ids \cup {NoId}) /\ Len(openSections) \in Nat
        /\ Len(openSections) <= Len(page)
    BY <1>1, <2>2 DEF PageOK, StackOK
  <2>6. Len(openSections) = Len(page)
    <3>1. \A i \in DOMAIN page : i <= Len(openSections)
      BY <1>1, <2>1 DEF StackOK, Range
    <3> QED BY <2>5, <3>1
  <2>7. /\ openSections' \in Seq(Ids \cup {NoId})
        /\ Len(openSections') = Len(page')
        /\ DOMAIN openSections' = DOMAIN page'
        /\ \A i \in DOMAIN page : openSections'[i] = openSections[i]
        /\ openSections'[Len(page) + 1] = id
    BY <2>1, <2>2, <2>5, <2>6
  <2>8. ASSUME NEW i \in DOMAIN page'
        PROVE  /\ history'[page'[i]].kind = "section" /\ i <= Len(openSections')
               /\ openSections'[i] = history'[page'[i]].id
    <3>1. CASE i \in DOMAIN page
      <4>1. page[i] \in DOMAIN history /\ history[page[i]].kind = "section"
        BY <1>1, <2>1, <3>1 DEF PageOK, Range
      <4>2. openSections[i] = history[page[i]].id
        BY <1>1, <2>5, <2>6, <3>1 DEF StackOK
      <4> QED BY <2>2, <2>3, <2>5, <2>7, <3>1, <4>1, <4>2
    <3>2. CASE i = Len(page) + 1
      BY <2>2, <2>4, <2>5, <2>7, <3>2
    <3> QED BY <2>5, <3>1, <3>2
  <2>9. StackOK'
    <3>1. Len(openSections') <= Len(page')
      BY <2>2, <2>5, <2>7
    <3> QED BY <2>7, <2>8, <3>1 DEF StackOK
  <2> QED BY <2>1, <2>9, FitsElements, StructureOnPush
<1>5. CASE EndSection
  <2>1. /\ EndRead("section") /\ UNCHANGED skip
        /\ openSections' = IF openSections = <<>> THEN <<>> ELSE Front(openSections)
    BY <1>5, EndIs DEF EndSection
  <2> QED BY <2>1, StructureOnEnd DEF Kinds
<1>6. CASE StartHeading
  <2>1. Opens("heading", NoId) /\ UNCHANGED skip /\ UNCHANGED openSections
    BY <1>6 DEF StartHeading
  <2>2. StackOK'
    BY <1>1, <2>1, FitsElements, StackStays
  <2> QED BY <2>1, <2>2, FitsElements, StructureOnPush
<1>7. CASE EndHeading
  <2>1. EndRead("heading") /\ UNCHANGED skip /\ UNCHANGED openSections
    BY <1>7, EndIs DEF EndHeading
  <2> QED BY <2>1, StructureOnEnd DEF Kinds
<1>8. CASE Data
  <2>1. Happens("word", WordsRead + 1) /\ UNCHANGED <<openSections, skip, page>>
    BY <1>8 DEF Data
  <2>2. Fits("word", WordsRead + 1)
    BY <1>1, NewEvent, FitsElements
  <2>3. HistoryOK' /\ DOMAIN history \subseteq DOMAIN history'
        /\ \A e \in DOMAIN history : history'[e] = history[e]
    BY <1>1, <2>1, <2>2, HistoryGrows
  <2>4. PageOK' /\ StackOK'
    BY <1>1, <2>1, <2>3 DEF PageOK, StackOK
  <2>5. NonProseOpen' = NonProseOpen /\ Events("stray")' = Events("stray")
        /\ Events("stray") \subseteq DOMAIN history
    BY <1>1, <2>1, <2>2, <2>3, EventsGrow, NewEvent DEF NonProseOpen, PageOK, Range
  <2>6. SkipOK'
    <3>1. PICK o : o = Earliest(NonProseOpen)
      OBVIOUS
    <3>2. Earliest(NonProseOpen)' = o
      BY <2>5, <3>1 DEF Earliest
    <3>3. StraysWithin(Earliest(NonProseOpen))' = StraysWithin(o)
      BY <2>3, <2>5, <3>2 DEF StraysWithin
    <3> QED BY <1>1, <2>1, <2>5, <3>1, <3>3 DEF SkipOK
  <2> QED BY <2>3, <2>4, <2>6 DEF Structure
<1>9. CASE UNCHANGED vars
  <2>1. HistoryOK' /\ PageOK' /\ StackOK'
    BY <1>1, <1>9 DEF HistoryOK, PageOK, StackOK, Events, vars, parser
  <2>2. SkipOK'
    BY <1>1, <1>9 DEF SkipOK, StraysWithin, Earliest, Events, NonProseOpen, vars, parser
  <2> QED BY <2>1, <2>2 DEF Structure
<1> QED BY <1>2, <1>3, <1>4, <1>5, <1>6, <1>7, <1>8, <1>9 DEF Next

LEMMA StructureInit == Init => Structure
<1> SUFFICES ASSUME Init PROVE Structure
  OBVIOUS
<1>1. /\ history = <<>> /\ page = <<>> /\ openSections = <<>> /\ skip = 0
      /\ DOMAIN history = {} /\ DOMAIN page = {} /\ DOMAIN openSections = {}
      /\ Len(page) = 0 /\ Len(openSections) = 0
  BY DEF Init
<1>2. HistoryOK /\ PageOK /\ StackOK
  BY <1>1 DEF HistoryOK, PageOK, StackOK, Events
<1>3. NonProseOpen = {}
  BY <1>1 DEF NonProseOpen, Range
<1>4. SkipOK
  BY <1>1, <1>3, FS_EmptySet DEF SkipOK
<1> QED BY <1>2, <1>4 DEF Structure

(* On every page the stack holds the sections that are open, outermost     *)
(* first, and the skip count is never more than the non-prose elements     *)
(* that are open, nor short of them by more than the stray end tags read   *)
(* since the outermost of these was opened.                                *)
THEOREM StructureKept == Spec => []Structure
BY StructureInit, StructureNext, PTL DEF Spec

-----------------------------------------------------------------------------
(* The body.                                                               *)

(* Whether a word read is in the body as it should be.                     *)
InBodyOnlyByStrays(w) ==
    IF SectionsAround(w) = {} THEN history[w].id \notin Body
    ELSE IF NonProseAround(w) = {} THEN history[w].id \in Body
    ELSE history[w].id \in Body =>
             Cardinality(NonProseAround(w)) <= Cardinality(StraysBefore(w))

WordsOK == words \in Seq(Nat)

(* The body holds no word that was not read, and a word is read once.      *)
BodyOK ==
    /\ WordsOK
    /\ \A w \in Events("word") : history[w].id \in 1..WordsRead
    /\ Body \subseteq {history[w].id : w \in Events("word")}
    /\ \A w \in Events("word") : InBodyOnlyByStrays(w)

(* A word enters the body if a section is open and the count is 0.         *)
OpenProse == openSections # <<>> /\ skip = 0

(* What is around a word is settled when it is read.                       *)
LEMMA AroundStays ==
    ASSUME HistoryOK, PageOK, NEW k, NEW id, Fits(k, id), Happens(k, id)
    PROVE  /\ \A w \in DOMAIN history : /\ NonProseAround(w)' = NonProseAround(w)
                                        /\ StraysBefore(w)' = StraysBefore(w)
           /\ \A n : n = Len(history) + 1 =>
                  /\ NonProseAround(n)' = NonProseOpen
                  /\ k = "word" => StraysBefore(n)' = StraysWithin(Earliest(NonProseOpen))
<1>1. PICK n : n = Len(history) + 1
  OBVIOUS
<1>2. /\ \A e \in DOMAIN history : history'[e] = history[e]
      /\ history'[n] = [kind |-> k, id |-> id, within |-> Range(page)]
      /\ Events("stray")' = IF k = "stray" THEN Events("stray") \cup {n} ELSE Events("stray")
      /\ Events("stray") \subseteq DOMAIN history
      /\ DOMAIN history = 1..Len(history) /\ Len(history) \in Nat
  BY <1>1, HistoryGrows, EventsGrow, NewEvent
<1>3. history'[n].within = Range(page) /\ \A e \in DOMAIN history : e < n /\ ~(n < e)
  BY <1>1, <1>2
<1>4. Range(page) \subseteq DOMAIN history
  BY DEF PageOK, Range
<1>5. \A e \in DOMAIN history : history[e].within \subseteq DOMAIN history
  <2> TAKE e \in DOMAIN history
  <2>1. history[e].within \subseteq 1..e - 1 /\ e \in 1..Len(history)
    BY <1>2 DEF HistoryOK
  <2> QED BY <1>2, <2>1
<1>6. ASSUME NEW w \in DOMAIN history
      PROVE  NonProseAround(w)' = NonProseAround(w)
  BY <1>2, <1>5 DEF NonProseAround
<1>7. ASSUME NEW w \in DOMAIN history
      PROVE  StraysBefore(w)' = StraysBefore(w)
  <2>1. PICK o : o = Earliest(NonProseAround(w))
    OBVIOUS
  <2>2. Earliest(NonProseAround(w))' = o
    BY <1>6, <2>1 DEF Earliest
  <2>3. StraysBefore(w) = {s \in Events("stray") : s < w /\ o \in history[s].within}
    BY <2>1 DEF StraysBefore
  <2>4. StraysBefore(w)' = {s \in Events("stray")' : s < w /\ o \in history'[s].within}
    BY <2>2 DEF StraysBefore
  <2>5. ~(n < w)
    BY <1>3
  <2> QED BY <1>2, <1>3, <2>3, <2>4, <2>5
<1>8. NonProseAround(n)' = NonProseOpen
  BY <1>2, <1>3, <1>4 DEF NonProseAround, NonProseOpen
<1>9. ASSUME k = "word"
      PROVE  StraysBefore(n)' = StraysWithin(Earliest(NonProseOpen))
  <2>1. PICK o : o = Earliest(NonProseOpen)
    OBVIOUS
  <2>2. Earliest(NonProseAround(n))' = o
    BY <1>8, <2>1 DEF Earliest
  <2>3. StraysBefore(n)' = {s \in Events("stray")' : s < n /\ o \in history'[s].within}
    BY <2>2 DEF StraysBefore
  <2>4. StraysWithin(o) = {s \in Events("stray") : o \in history[s].within}
    BY DEF StraysWithin
  <2>5. \A s \in Events("stray") : s < n /\ history'[s] = history[s]
    BY <1>2, <1>3
  <2> QED BY <1>2, <1>9, <2>1, <2>3, <2>4, <2>5
<1> QED BY <1>1, <1>6, <1>7, <1>8, <1>9

(* Nothing is read that enters the body.                                   *)
LEMMA BodyKept ==
    ASSUME BodyOK, UNCHANGED words, Events("word")' = Events("word"),
           \A w \in Events("word") : /\ history'[w] = history[w]
                                     /\ SectionsAround(w)' = SectionsAround(w)
                                     /\ NonProseAround(w)' = NonProseAround(w)
                                     /\ StraysBefore(w)' = StraysBefore(w)
    PROVE  BodyOK'
<1>1. Body' = Body /\ WordsOK' /\ WordsRead' = WordsRead
  BY DEF Body, BodyOK, WordsOK, WordsRead, Range
<1>2. \A w \in Events("word") : InBodyOnlyByStrays(w)'
  BY <1>1 DEF BodyOK, InBodyOnlyByStrays
<1>3. /\ \A w \in Events("word")' : history'[w].id \in 1..WordsRead'
      /\ Body' \subseteq {history'[w].id : w \in Events("word")'}
  BY <1>1 DEF BodyOK
<1> QED BY <1>1, <1>2, <1>3 DEF BodyOK

LEMMA OneMoreWord ==
    ASSUME HistoryOK, NEW n, n \notin DOMAIN history, Events("word")' = Events("word") \cup {n}
    PROVE  WordsRead' = WordsRead + 1
<1>1. /\ DOMAIN history = 1..Len(history) /\ Len(history) \in Nat
      /\ Events("word") \subseteq DOMAIN history
  BY NewEvent
<1>2. IsFiniteSet(Events("word"))
  <2>1. IsFiniteSet(1..Len(history))
    BY <1>1, FS_Interval
  <2> QED BY <1>1, <2>1, FS_Subset
<1>3. Cardinality(Events("word") \cup {n}) = Cardinality(Events("word")) + 1
  BY <1>1, <1>2, FS_AddElement
<1> QED BY <1>3 DEF WordsRead

LEMMA BodyNext == Structure /\ BodyOK /\ [Next]_vars => BodyOK'
<1> SUFFICES ASSUME Structure, BodyOK, [Next]_vars PROVE BodyOK'
  OBVIOUS
<1>0. HistoryOK /\ PageOK /\ StackOK /\ SkipOK
  BY DEF Structure
<1>1. ASSUME UNCHANGED words, NEW k, NEW id, Fits(k, id), k # "word", Happens(k, id)
      PROVE  BodyOK'
  <2>1. /\ Events("word")' = Events("word") /\ Events("word") \subseteq DOMAIN history
        /\ \A w \in DOMAIN history : history'[w] = history[w]
    BY <1>0, <1>1, EventsGrow, NewEvent, HistoryGrows
  <2>2. \A w \in DOMAIN history : /\ SectionsAround(w)' = SectionsAround(w)
                                  /\ NonProseAround(w)' = NonProseAround(w)
                                  /\ StraysBefore(w)' = StraysBefore(w)
    BY <1>0, <1>1, SectionsAroundStay, AroundStays
  <2> QED BY <1>1, <2>1, <2>2, BodyKept
<1>2. ASSUME UNCHANGED words, UNCHANGED history
      PROVE  BodyOK'
  <2>1. \A w : /\ SectionsAround(w)' = SectionsAround(w)
               /\ NonProseAround(w)' = NonProseAround(w)
               /\ StraysBefore(w)' = StraysBefore(w)
    BY <1>2 DEF SectionsAround, NonProseAround, StraysBefore, Earliest, Events
  <2>2. Events("word")' = Events("word")
    BY <1>2 DEF Events
  <2> QED BY <1>2, <2>1, <2>2, BodyKept
<1>3. ASSUME NEW tag \in NonProseTags, StartNonProse(tag)
      PROVE  BodyOK'
  BY <1>1, <1>3, FitsElements DEF StartNonProse, Opens
<1>4. ASSUME NEW id \in Ids \cup {NoId}, StartSection(id)
      PROVE  BodyOK'
  BY <1>1, <1>4, FitsElements DEF StartSection, Opens
<1>5. CASE StartHeading
  BY <1>1, <1>5, FitsElements DEF StartHeading, Opens
<1>6. CASE EndSection \/ EndHeading
  BY <1>2, <1>6 DEF EndSection, EndHeading, Ends, Closes
<1>9. ASSUME NEW tag \in NonProseTags, EndNonProse(tag)
      PROVE  BodyOK'
  <2>1. UNCHANGED words /\ (EndRead("nonprose") \/ StrayRead(tag))
    BY <1>9, EndNonProseIs
  <2>2. CASE EndRead("nonprose")
    BY <1>2, <2>1, <2>2 DEF EndRead, Closes
  <2>3. CASE StrayRead(tag)
    BY <1>1, <2>1, <2>3, FitsElements DEF StrayRead
  <2> QED BY <2>1, <2>2, <2>3
<1>7. CASE UNCHANGED vars
  BY <1>2, <1>7 DEF vars, parser
<1>8. CASE Data
  <2>1. PICK word : word = WordsRead + 1
    OBVIOUS
  <2>2. PICK n : n = Len(history) + 1
    OBVIOUS
  <2>3. word \in Nat \ {0} /\ WordsRead \in Nat /\ Happens("word", word) /\ Fits("word", word)
    BY <1>0, <1>8, <2>1, NewEvent, FitsElements DEF Data
  <2>4. words' = IF ~OpenProse THEN words
                 ELSE IF words = <<>> THEN <<word>>
                 ELSE Append(Append(words, Space), word)
    BY <1>8, <2>1 DEF Data, OpenProse
  <2>5. words \in Seq(Nat) /\ Space \in Nat /\ word # Space
    BY <2>3 DEF BodyOK, WordsOK, Space
  <2>6. WordsOK' /\ Body' = IF OpenProse THEN Body \cup {word} ELSE Body
    <3>1. CASE ~OpenProse
      BY <2>4, <2>5, <3>1 DEF WordsOK, Body, Range
    <3>2. CASE OpenProse /\ words = <<>>
      <4>1. words' \in Seq(Nat) /\ Range(words') = {word} /\ Range(words) = {}
        BY <2>3, <2>4, <3>2 DEF Range
      <4> QED BY <2>5, <3>2, <4>1 DEF WordsOK, Body
    <3>3. CASE OpenProse /\ words # <<>>
      <4>1. words' = Append(Append(words, Space), word)
        BY <2>4, <3>3
      <4>2. PICK ws : ws = Append(words, Space)
        OBVIOUS
      <4>3. ws \in Seq(Nat) /\ Range(ws) = Range(words) \cup {Space}
        BY <2>5, <4>2, AppendIs, AppendRange
      <4>4. words' \in Seq(Nat) /\ Range(words') = Range(ws) \cup {word}
        BY <2>3, <4>1, <4>2, <4>3, AppendIs, AppendRange
      <4> QED BY <2>5, <3>3, <4>3, <4>4 DEF WordsOK, Body
    <3> QED BY <3>1, <3>2, <3>3
  <2>7. /\ \A e \in DOMAIN history : history'[e] = history[e]
        /\ history'[n] = [kind |-> "word", id |-> word, within |-> Range(page)]
        /\ Events("word")' = Events("word") \cup {n}
        /\ Events("word") \subseteq DOMAIN history
        /\ n \notin DOMAIN history
    BY <1>0, <2>2, <2>3, HistoryGrows, EventsGrow, NewEvent
  <2>8. history'[n].id = word
    BY <2>7
  <2>9. \A w \in Events("word") : history[w].id \in 1..WordsRead /\ history[w].id # word
    BY <2>1, <2>3 DEF BodyOK
  <2>10. \A w \in Events("word")' : history'[w].id \in 1..WordsRead'
    <3>1. WordsRead' = word
      BY <1>0, <2>1, <2>7, OneMoreWord
    <3>2. word \in 1..word /\ \A i \in 1..WordsRead : i \in 1..word
      BY <2>1, <2>3
    <3> QED BY <2>7, <2>8, <2>9, <3>1, <3>2
  <2>11. Body' \subseteq {history'[w].id : w \in Events("word")'}
    <3>1. Body \subseteq {history[w].id : w \in Events("word")}
      BY DEF BodyOK
    <3>2. \A w \in Events("word") : w \in Events("word")' /\ history'[w].id = history[w].id
      BY <2>7
    <3>3. Body' \subseteq Body \cup {word}
      BY <2>6
    <3> QED BY <2>7, <2>8, <3>1, <3>2, <3>3
  <2>12. ASSUME NEW w \in Events("word")
         PROVE  InBodyOnlyByStrays(w)'
    <3>1. w \in DOMAIN history /\ history'[w] = history[w] /\ history[w].id # word
      BY <2>7, <2>9
    <3>2. /\ SectionsAround(w)' = SectionsAround(w)
          /\ NonProseAround(w)' = NonProseAround(w) /\ StraysBefore(w)' = StraysBefore(w)
      BY <1>0, <2>3, <3>1, SectionsAroundStay, AroundStays
    <3>3. history'[w].id \in Body' <=> history[w].id \in Body
      BY <2>6, <3>1
    <3>4. InBodyOnlyByStrays(w)
      BY DEF BodyOK
    <3> QED BY <3>2, <3>3, <3>4 DEF InBodyOnlyByStrays
  <2>13. InBodyOnlyByStrays(n)'
    <3>1. /\ SectionsAround(n)' = {e \in Range(page) : history[e].kind = "section"}
          /\ NonProseAround(n)' = NonProseOpen
          /\ StraysBefore(n)' = StraysWithin(Earliest(NonProseOpen))
      BY <1>0, <2>2, <2>3, SectionsAroundStay, AroundStays
    <3>2. SectionsAround(n)' # {} <=> openSections # <<>>
      BY <1>0, <3>1, StackEmpty
    <3>3. word \in Body' <=> OpenProse
      <4>1. word \notin Body
        BY <2>9 DEF BodyOK
      <4> QED BY <2>6, <4>1
    <3>4. NonProseOpen = {} => skip = 0
      <4>1. skip \in Nat /\ skip <= Cardinality(NonProseOpen)
        BY <1>0 DEF SkipOK
      <4> QED BY <4>1, FS_EmptySet
    <3>5. NonProseOpen # {} /\ skip = 0 =>
              Cardinality(NonProseOpen) <= Cardinality(StraysWithin(Earliest(NonProseOpen)))
      <4>1. Cardinality(StraysWithin(Earliest(NonProseOpen))) \in Nat
        BY <1>0, NonProseFacts
      <4> QED BY <1>0, <4>1 DEF SkipOK
    <3> QED BY <2>8, <3>1, <3>2, <3>3, <3>4, <3>5 DEF InBodyOnlyByStrays, OpenProse
  <2> QED BY <2>6, <2>7, <2>10, <2>11, <2>12, <2>13 DEF BodyOK
<1> QED BY <1>3, <1>4, <1>5, <1>6, <1>7, <1>8, <1>9 DEF Next

LEMMA BodyInit == Init => BodyOK
BY DEF Init, BodyOK, WordsOK, Body, Range, Events

(* The body of the outline has every word read inside a section and        *)
(* outside script, style and navigation, and of the others only words of a *)
(* section, inside no more of these elements than there were stray end     *)
(* tags of such elements since the outermost was opened.                   *)
THEOREM BodyCorrect == Spec => []BodyIsProse
<1>1. BodyOK => BodyIsProse
  BY DEF BodyOK, BodyIsProse, InBodyOnlyByStrays
<1> QED BY <1>1, BodyInit, BodyNext, StructureKept, PTL DEF Spec

-----------------------------------------------------------------------------
(* Levels.                                                                 *)

(* An id names one section, and the stack is as deep as its sections are.  *)
SectionEvents ==
    /\ \A e, f \in Events("section") : history[e].id = history[f].id /\ history[e].id # NoId => e = f
    /\ \A i \in DOMAIN openSections : Cardinality(SectionsAround(page[i])) = i - 1

(* A level is that of the section of that id. *)
IsLevelOf(n, id) ==
    \E e \in Events("section") : /\ history[e].id = id
                                 /\ n = Cardinality(SectionsAround(e)) + 1

Titles == [anchor : Ids, title : Seq(Nat), level : Nat \ {0}]

SectionsOK ==
    /\ sections \in Seq(Titles)
    /\ collecting \in Ids \cup {None}
    /\ level \in Nat \ {0}
    /\ buffer \in Seq(Nat)

LevelsOK ==
    /\ SectionsOK
    /\ SectionEvents
    /\ collecting # None => IsLevelOf(level, collecting)
    /\ \A i \in DOMAIN sections : IsLevelOf(sections[i].level, sections[i].anchor)

LEMMA PageCounted ==
    ASSUME PageOK
    PROVE  IsFiniteSet(Range(page)) /\ Cardinality(Range(page)) = Len(page)
<1>1. page \in Seq(Nat) /\ Len(page) \in Nat /\ DOMAIN page = 1..Len(page)
  BY DEF PageOK
<1>2. page \in [1..Len(page) -> Range(page)]
  BY <1>1 DEF Range
<1>3. \A i, j \in 1..Len(page) : page[i] = page[j] => i = j
  BY <1>1 DEF PageOK
<1>4. page \in Bijection(1..Len(page), Range(page))
  BY <1>2, <1>3 DEF Bijection, Injection, Surjection, IsInjective, Range
<1>5. ExistsBijection(1..Len(page), Range(page))
  BY <1>4 DEF ExistsBijection
<1> QED BY <1>1, <1>5, FS_CountingElements, FS_NatBijection

(* Levels of the sections there are stay what they are.                    *)
LEMMA LevelsStay ==
    ASSUME Structure, NEW k, NEW id, Fits(k, id), Happens(k, id),
           NEW n, NEW anchor, IsLevelOf(n, anchor)
    PROVE  IsLevelOf(n, anchor)'
<1>1. HistoryOK /\ PageOK
  BY DEF Structure
<1>2. PICK e \in Events("section") : history[e].id = anchor /\ n = Cardinality(SectionsAround(e)) + 1
  BY DEF IsLevelOf
<1>3. e \in Events("section")' /\ e \in DOMAIN history
  <2>1. Events("section")' = IF k = "section" THEN Events("section") \cup {Len(history) + 1}
                             ELSE Events("section")
    BY <1>1, EventsGrow
  <2> QED BY <2>1 DEF Events
<1>4. history'[e] = history[e]
  BY <1>1, <1>3, HistoryGrows
<1>5. SectionsAround(e)' = SectionsAround(e)
  BY <1>1, <1>3, SectionsAroundStay
<1> QED BY <1>2, <1>3, <1>4, <1>5 DEF IsLevelOf

LEMMA LevelsUnchanged ==
    ASSUME UNCHANGED history, NEW n, NEW anchor
    PROVE  IsLevelOf(n, anchor)' <=> IsLevelOf(n, anchor)
<1>1. \A e : SectionsAround(e)' = SectionsAround(e)
  BY DEF SectionsAround
<1> QED BY <1>1 DEF IsLevelOf, Events

LEMMA SectionEventsStay ==
    ASSUME Structure, SectionEvents, NEW k, NEW id, Fits(k, id), Happens(k, id),
           k # "section", UNCHANGED openSections,
           \A i \in DOMAIN page : page'[i] = page[i]
    PROVE  SectionEvents'
<1>1. HistoryOK /\ PageOK /\ StackOK
  BY DEF Structure
<1>2. Events("section")' = Events("section") /\ Events("section") \subseteq DOMAIN history
  BY <1>1, EventsGrow, NewEvent
<1>3. \A e \in DOMAIN history : history'[e] = history[e] /\ SectionsAround(e)' = SectionsAround(e)
  BY <1>1, HistoryGrows, SectionsAroundStay
<1>4. \A i \in DOMAIN openSections : i \in DOMAIN page /\ page[i] \in DOMAIN history
  BY <1>1 DEF StackOK, PageOK
<1>5. \A e, f \in Events("section")' :
          history'[e].id = history'[f].id /\ history'[e].id # NoId => e = f
  BY <1>2, <1>3 DEF SectionEvents
<1>6. ASSUME NEW i \in DOMAIN openSections
      PROVE  Cardinality(SectionsAround(page[i]))' = i - 1
  <2>1. PICK e : e = page[i]
    OBVIOUS
  <2>2. page'[i] = e /\ SectionsAround(e)' = SectionsAround(e)
    BY <1>3, <1>4, <1>6, <2>1
  <2>3. SectionsAround(page[i])' = SectionsAround(e)
    BY <2>1, <2>2 DEF SectionsAround
  <2> QED BY <2>1, <2>3 DEF SectionEvents
<1> QED BY <1>5, <1>6 DEF SectionEvents

LEMMA SectionEventsOnEnd ==
    ASSUME SectionEvents, UNCHANGED history,
           \A i \in DOMAIN openSections' : i \in DOMAIN openSections /\ page'[i] = page[i]
    PROVE  SectionEvents'
<1>1. ASSUME NEW i \in DOMAIN openSections'
      PROVE  Cardinality(SectionsAround(page[i]))' = i - 1
  <2>1. SectionsAround(page[i])' = SectionsAround(page[i])
    BY <1>1 DEF SectionsAround
  <2> QED BY <1>1, <2>1 DEF SectionEvents
<1> QED BY <1>1 DEF SectionEvents, Events

(* An end tag leaves a prefix of the stack where it was.                   *)
LEMMA StackOnEnd ==
    ASSUME Structure, NEW k, EndRead(k), k \in Kinds,
           openSections' = IF k = "section"
                           THEN IF openSections = <<>> THEN <<>> ELSE Front(openSections)
                           ELSE openSections,
           skip' = IF k = "nonprose" THEN Lowered(skip) ELSE skip
    PROVE  \A i \in DOMAIN openSections' : i \in DOMAIN openSections /\ page'[i] = page[i]
<1>1. HistoryOK /\ PageOK /\ StackOK /\ UNCHANGED history
  BY DEF Structure, EndRead, Closes
<1>2. Structure'
  BY StructureOnEnd
<1>3. ASSUME NEW i \in DOMAIN openSections' PROVE i \in DOMAIN openSections
  <2>1. CASE k = "section" /\ openSections # <<>>
    <3>1. openSections' = SubSeq(openSections, 1, Len(openSections) - 1)
      BY <2>1 DEF Front
    <3>2. Len(openSections) \in Nat \ {0} /\ openSections \in Seq(Ids \cup {NoId})
      BY <1>1, <2>1 DEF StackOK
    <3> QED BY <1>3, <3>1, <3>2
  <2>2. CASE ~(k = "section" /\ openSections # <<>>)
    <3>1. UNCHANGED openSections
      BY <2>2
    <3> QED BY <1>3, <3>1
  <2> QED BY <2>1, <2>2
<1>4. ASSUME NEW i \in DOMAIN openSections' PROVE page'[i] = page[i]
  <2>1. i \in DOMAIN page'
    BY <1>2, <1>4 DEF Structure, StackOK, PageOK
  <2>2. CASE page # <<>> /\ page' = Front(page)
    BY <1>1, <2>1, <2>2, PagePop
  <2>3. CASE UNCHANGED page
    BY <2>3
  <2> QED BY <2>2, <2>3 DEF EndRead, Closes
<1> QED BY <1>3, <1>4

LEMMA SectionOpens ==
    ASSUME Structure, SectionEvents, NEW id \in Ids \cup {NoId}, StartSection(id)
    PROVE  SectionEvents'
<1>1. HistoryOK /\ PageOK /\ StackOK /\ Fits("section", id)
  BY FitsElements DEF Structure
<1>2. /\ Opens("section", id) /\ openSections' = Append(openSections, id)
      /\ \A e \in Range(page) : history[e].kind = "section"
      /\ \A e \in Events("section") : history[e].id = id => id = NoId
  BY DEF StartSection
<1>3. PICK n : n = Len(history) + 1
  OBVIOUS
<1>4. /\ Happens("section", id)
      /\ \A i \in DOMAIN page : page'[i] = page[i]
      /\ page'[Len(page) + 1] = n
  BY <1>1, <1>2, <1>3, PagePush
<1>5. /\ \A e \in DOMAIN history : history'[e] = history[e] /\ SectionsAround(e)' = SectionsAround(e)
      /\ history'[n] = [kind |-> "section", id |-> id, within |-> Range(page)]
      /\ SectionsAround(n)' = {e \in Range(page) : history[e].kind = "section"}
      /\ Events("section")' = Events("section") \cup {n}
      /\ Events("section") \subseteq DOMAIN history
  BY <1>1, <1>3, <1>4, HistoryGrows, SectionsAroundStay, EventsGrow, NewEvent
<1>6. history'[n].id = id /\ SectionsAround(n)' = Range(page)
  BY <1>2, <1>5
<1>7. \A e, f \in Events("section")' :
          history'[e].id = history'[f].id /\ history'[e].id # NoId => e = f
  BY <1>2, <1>5, <1>6 DEF SectionEvents
<1>8. Len(openSections) = Len(page)
  <2>1. /\ Len(page) \in Nat /\ DOMAIN page = 1..Len(page)
        /\ Len(openSections) \in Nat /\ Len(openSections) <= Len(page)
    BY <1>1 DEF PageOK, StackOK
  <2>2. \A i \in DOMAIN page : i <= Len(openSections)
    BY <1>1, <1>2 DEF StackOK, Range
  <2>3. Len(page) = 0 \/ Len(page) \in DOMAIN page
    BY <2>1
  <2>4. Len(page) <= Len(openSections)
    BY <2>1, <2>2, <2>3
  <2> QED BY <2>1, <2>4
<1>9. /\ Len(page) \in Nat
      /\ DOMAIN openSections' = DOMAIN openSections \cup {Len(page) + 1}
      /\ \A i \in DOMAIN openSections : i \in DOMAIN page /\ page[i] \in DOMAIN history
  BY <1>1, <1>2, <1>8 DEF PageOK, StackOK
<1>10. ASSUME NEW i \in DOMAIN openSections'
       PROVE  Cardinality(SectionsAround(page[i]))' = i - 1
  <2>1. CASE i \in DOMAIN openSections
    <3>1. PICK e : e = page[i]
      OBVIOUS
    <3>2. page'[i] = e /\ SectionsAround(e)' = SectionsAround(e)
      BY <1>4, <1>5, <1>9, <2>1, <3>1
    <3>3. SectionsAround(page[i])' = SectionsAround(e)
      BY <3>2 DEF SectionsAround
    <3> QED BY <2>1, <3>1, <3>3 DEF SectionEvents
  <2>2. CASE i = Len(page) + 1
    <3>1. page'[i] = n
      BY <1>4, <2>2
    <3>2. SectionsAround(page[i])' = Range(page)
      BY <1>6, <3>1 DEF SectionsAround
    <3>3. Cardinality(Range(page)) = Len(page)
      BY <1>1, PageCounted
    <3>4. i - 1 = Len(page)
      BY <1>9, <2>2
    <3> QED BY <3>2, <3>3, <3>4
  <2> QED BY <1>9, <2>1, <2>2
<1> QED BY <1>7, <1>10 DEF SectionEvents

-----------------------------------------------------------------------------
(* What every step does with the titles, and with what is being collected. *)

LEMMA TopOfStack ==
    ASSUME Structure, openSections # <<>>
    PROVE  /\ Len(openSections) \in Nat \ {0}
           /\ Len(openSections) \in DOMAIN openSections
           /\ Len(openSections) \in DOMAIN page
           /\ page[Len(openSections)] \in Events("section")
           /\ Last(openSections) = history[page[Len(openSections)]].id
           /\ Last(openSections) \in Ids \cup {NoId}
<1>1. HistoryOK /\ PageOK /\ StackOK
  BY DEF Structure
<1>2. /\ Len(openSections) \in Nat \ {0}
      /\ DOMAIN openSections = 1..Len(openSections)
      /\ DOMAIN page = 1..Len(page) /\ Len(page) \in Nat
      /\ Len(openSections) <= Len(page)
  BY <1>1 DEF StackOK, PageOK
<1>3. Len(openSections) \in DOMAIN openSections /\ Len(openSections) \in DOMAIN page
  BY <1>2
<1>4. history[page[Len(openSections)]].kind = "section" /\ page[Len(openSections)] \in DOMAIN history
  BY <1>1, <1>2, <1>3 DEF StackOK, PageOK
<1>5. Last(openSections) = openSections[Len(openSections)]
  BY DEF Last
<1>6. Last(openSections) = history[page[Len(openSections)]].id
  BY <1>1, <1>3, <1>5 DEF StackOK
<1>7. Last(openSections) \in Ids \cup {NoId}
  BY <1>1, <1>3, <1>5 DEF StackOK
<1> QED BY <1>2, <1>3, <1>4, <1>6, <1>7 DEF Events

LEMMA SectionsTyped == SectionsOK /\ Structure /\ [Next]_vars => SectionsOK'
<1> SUFFICES ASSUME SectionsOK, Structure, [Next]_vars PROVE SectionsOK'
  OBVIOUS
<1>1. CASE StartHeading
  <2>1. UNCHANGED sections
    BY <1>1 DEF StartHeading
  <2>2. CASE openSections # <<>> /\ Last(openSections) # NoId /\ collecting' = Last(openSections)
             /\ level' = Len(openSections) /\ buffer' = <<>>
    <3>1. Len(openSections) \in Nat \ {0} /\ Last(openSections) \in Ids
      BY <2>2, TopOfStack
    <3> QED BY <2>1, <2>2, <3>1 DEF SectionsOK
  <2>3. CASE UNCHANGED <<collecting, level, buffer>>
    BY <2>1, <2>3 DEF SectionsOK
  <2> QED BY <1>1, <2>2, <2>3 DEF StartHeading
<1>2. CASE EndHeading
  <2>1. collecting' = None /\ UNCHANGED <<level, buffer>>
    BY <1>2 DEF EndHeading
  <2>2. CASE collecting # None /\ buffer # <<>>
    <3> DEFINE s == [anchor |-> collecting, title |-> buffer, level |-> level]
    <3>1. s \in Titles
      BY <2>2 DEF SectionsOK, Titles
    <3>2. sections' = Append(sections, s)
      BY <1>2, <2>2 DEF EndHeading
    <3> HIDE DEF s
    <3>3. sections' \in Seq(Titles)
      BY <3>1, <3>2 DEF SectionsOK
    <3> QED BY <2>1, <3>3 DEF SectionsOK
  <2>3. CASE ~(collecting # None /\ buffer # <<>>)
    <3>1. UNCHANGED sections
      BY <1>2, <2>3 DEF EndHeading
    <3> QED BY <2>1, <3>1 DEF SectionsOK
  <2> QED BY <2>2, <2>3
<1>3. CASE Data
  <2>1. WordsRead + 1 \in Nat
    BY NewEvent DEF Structure
  <2>2. UNCHANGED <<collecting, level, sections>>
        /\ buffer' = IF collecting = None THEN buffer ELSE Append(buffer, WordsRead + 1)
    BY <1>3 DEF Data
  <2>3. buffer' \in Seq(Nat)
    BY <2>1, <2>2 DEF SectionsOK
  <2> QED BY <2>2, <2>3 DEF SectionsOK
<1>4. CASE UNCHANGED <<collecting, level, buffer, sections>>
  BY <1>4 DEF SectionsOK
<1> QED BY <1>1, <1>2, <1>3, <1>4
        DEF Next, StartNonProse, EndNonProse, StartSection, EndSection, vars, parser

LEMMA LevelsNext == LevelsOK /\ Structure /\ [Next]_vars => LevelsOK'
<1> SUFFICES ASSUME LevelsOK, Structure, [Next]_vars PROVE LevelsOK'
  OBVIOUS
<1>1. SectionsOK' /\ SectionsOK /\ SectionEvents /\ HistoryOK /\ PageOK /\ StackOK
  BY SectionsTyped DEF LevelsOK, Structure
<1>2. ASSUME NEW k, NEW id, Fits(k, id), Happens(k, id), SectionEvents',
             UNCHANGED <<collecting, level, sections>>
      PROVE  LevelsOK'
  BY <1>1, <1>2, LevelsStay DEF LevelsOK
<1>3. ASSUME NEW k, NEW id, Fits(k, id), k # "word", Opens(k, id)
      PROVE  Happens(k, id) /\ \A i \in DOMAIN page : page'[i] = page[i]
  BY <1>1, <1>3, PagePush
<1>4. ASSUME NEW k, EndRead(k), k \in Kinds, UNCHANGED <<collecting, level, sections>>,
             openSections' = IF k = "section"
                             THEN IF openSections = <<>> THEN <<>> ELSE Front(openSections)
                             ELSE openSections,
             skip' = IF k = "nonprose" THEN Lowered(skip) ELSE skip
      PROVE  LevelsOK'
  <2>1. SectionEvents' /\ UNCHANGED history
    BY <1>1, <1>4, StackOnEnd, SectionEventsOnEnd DEF EndRead, Closes
  <2> QED BY <1>1, <1>4, <2>1, LevelsUnchanged DEF LevelsOK
<1>5. ASSUME NEW tag \in NonProseTags, StartNonProse(tag)
      PROVE  LevelsOK'
  <2>1. Opens("nonprose", tag) /\ UNCHANGED <<openSections, collecting, level, sections>>
    BY <1>5 DEF StartNonProse
  <2>2. SectionEvents'
    BY <1>1, <1>3, <2>1, FitsElements, SectionEventsStay
  <2> QED BY <1>2, <1>3, <2>1, <2>2, FitsElements
<1>6. ASSUME NEW tag \in NonProseTags, EndNonProse(tag)
      PROVE  LevelsOK'
  <2>1. /\ EndRead("nonprose") \/ StrayRead(tag)
        /\ skip' = Lowered(skip) /\ UNCHANGED <<openSections, collecting, level, sections>>
    BY <1>6, EndNonProseIs
  <2>2. CASE EndRead("nonprose")
    BY <1>4, <2>1, <2>2 DEF Kinds
  <2>3. CASE StrayRead(tag)
    <3>1. Happens("stray", tag) /\ UNCHANGED page
      BY <2>3 DEF StrayRead
    <3>2. SectionEvents'
      BY <1>1, <2>1, <3>1, FitsElements, SectionEventsStay
    <3> QED BY <1>2, <2>1, <3>1, <3>2, FitsElements
  <2> QED BY <2>1, <2>2, <2>3
<1>7. ASSUME NEW id \in Ids \cup {NoId}, StartSection(id)
      PROVE  LevelsOK'
  <2>1. SectionEvents'
    BY <1>1, <1>7, SectionOpens
  <2>2. Happens("section", id) /\ UNCHANGED <<collecting, level, sections>>
    BY <1>3, <1>7, FitsElements DEF StartSection
  <2> QED BY <1>2, <2>1, <2>2, FitsElements
<1>8. CASE EndSection
  BY <1>4, <1>8, EndIs DEF EndSection, Kinds
<1>9. CASE StartHeading
  <2>1. Opens("heading", NoId) /\ UNCHANGED <<openSections, sections>>
    BY <1>9 DEF StartHeading
  <2>2. Happens("heading", NoId) /\ SectionEvents'
    BY <1>1, <1>3, <2>1, FitsElements, SectionEventsStay
  <2>3. CASE openSections # <<>> /\ Last(openSections) # NoId /\ collecting' = Last(openSections)
             /\ level' = Len(openSections)
    <3>1. PICK e \in Events("section") :
              e = page[Len(openSections)] /\ history[e].id = Last(openSections)
      BY <2>3, TopOfStack
    <3>2. Cardinality(SectionsAround(e)) = Len(openSections) - 1
      BY <1>1, <2>3, <3>1, TopOfStack DEF SectionEvents
    <3>3. IsLevelOf(Len(openSections), Last(openSections))
      <4>1. Len(openSections) = Cardinality(SectionsAround(e)) + 1
        BY <2>3, <3>2, TopOfStack
      <4> QED BY <3>1, <4>1 DEF IsLevelOf
    <3>4. \A n, anchor : IsLevelOf(n, anchor) => IsLevelOf(n, anchor)'
      BY <2>2, FitsElements, LevelsStay
    <3>5. IsLevelOf(level, collecting)'
      <4>1. PICK n : n = Len(openSections)
        OBVIOUS
      <4>2. PICK anchor : anchor = Last(openSections)
        OBVIOUS
      <4>3. IsLevelOf(n, anchor)' /\ level' = n /\ collecting' = anchor
        BY <2>3, <3>3, <3>4, <4>1, <4>2
      <4> QED BY <4>3 DEF IsLevelOf
    <3>6. \A i \in DOMAIN sections : IsLevelOf(sections[i].level, sections[i].anchor)'
      <4> TAKE i \in DOMAIN sections
      <4>1. PICK n, anchor : n = sections[i].level /\ anchor = sections[i].anchor
        OBVIOUS
      <4>2. IsLevelOf(n, anchor)'
        BY <3>4, <4>1 DEF LevelsOK
      <4> QED BY <2>1, <4>1, <4>2 DEF IsLevelOf
    <3> QED BY <1>1, <2>1, <2>2, <3>5, <3>6 DEF LevelsOK
  <2>4. CASE UNCHANGED <<collecting, level, buffer>>
    BY <1>2, <2>1, <2>2, <2>4, FitsElements
  <2> QED BY <1>9, <2>3, <2>4 DEF StartHeading
<1>10. CASE EndHeading
  <2>1. EndRead("heading") /\ UNCHANGED <<openSections, skip>> /\ collecting' = None
    BY <1>10, EndIs DEF EndHeading
  <2>2. SectionEvents' /\ UNCHANGED history
    BY <1>1, <2>1, StackOnEnd, SectionEventsOnEnd DEF EndRead, Closes, Kinds
  <2>3. ASSUME NEW i \in DOMAIN sections'
        PROVE  IsLevelOf(sections'[i].level, sections'[i].anchor)
    <3>1. CASE i \in DOMAIN sections /\ sections'[i] = sections[i]
      BY <3>1 DEF LevelsOK
    <3>2. CASE collecting # None
               /\ sections'[i] = [anchor |-> collecting, title |-> buffer, level |-> level]
      <4>1. sections'[i].level = level /\ sections'[i].anchor = collecting
        BY <3>2
      <4> QED BY <3>2, <4>1 DEF LevelsOK
    <3>3. sections \in Seq(Titles)
      BY <1>1 DEF SectionsOK
    <3>4. CASE collecting # None /\ buffer # <<>>
      <4>1. PICK s : s = [anchor |-> collecting, title |-> buffer, level |-> level]
        OBVIOUS
      <4>2. sections' = Append(sections, s)
        BY <1>10, <3>4, <4>1 DEF EndHeading
      <4>3. (i \in DOMAIN sections /\ sections'[i] = sections[i]) \/ sections'[i] = s
        BY <2>3, <3>3, <4>2
      <4> QED BY <3>1, <3>2, <3>4, <4>1, <4>3
    <3>5. CASE ~(collecting # None /\ buffer # <<>>)
      <4>1. UNCHANGED sections
        BY <1>10, <3>5 DEF EndHeading
      <4> QED BY <2>3, <3>1, <4>1
    <3> QED BY <3>4, <3>5
  <2>4. \A i \in DOMAIN sections' : IsLevelOf(sections[i].level, sections[i].anchor)'
    BY <2>2, <2>3 DEF IsLevelOf, Events, SectionsAround
  <2> QED BY <1>1, <2>1, <2>2, <2>4 DEF LevelsOK
<1>11. CASE Data
  <2>1. /\ Happens("word", WordsRead + 1) /\ WordsRead \in Nat
        /\ UNCHANGED <<openSections, collecting, level, sections, page>>
    BY <1>1, <1>11, NewEvent DEF Data
  <2>2. SectionEvents'
    BY <1>1, <2>1, FitsElements, SectionEventsStay
  <2> QED BY <1>2, <2>1, <2>2, FitsElements
<1>12. CASE UNCHANGED vars
  <2>1. SectionEvents' /\ UNCHANGED <<history, collecting, level, sections>>
    BY <1>1, <1>12, SectionEventsOnEnd DEF vars, parser
  <2> QED BY <1>1, <2>1, LevelsUnchanged DEF LevelsOK
<1> QED BY <1>5, <1>6, <1>7, <1>8, <1>9, <1>10, <1>11, <1>12 DEF Next

LEMMA LevelsInit == Init => LevelsOK
<1> SUFFICES ASSUME Init PROVE LevelsOK
  OBVIOUS
<1>1. /\ openSections = <<>> /\ collecting = None /\ level = 1 /\ buffer = <<>>
      /\ sections = <<>> /\ history = <<>>
      /\ DOMAIN openSections = {} /\ DOMAIN sections = {} /\ DOMAIN history = {}
  BY DEF Init
<1>2. SectionsOK
  BY <1>1 DEF SectionsOK
<1>3. SectionEvents
  BY <1>1 DEF SectionEvents, Events
<1> QED BY <1>1, <1>2, <1>3 DEF LevelsOK

LEMMA LevelsInvariant == Spec => []LevelsOK
BY LevelsInit, LevelsNext, StructureKept, PTL DEF Spec

(* The shallowest section of an outline is of level 1, and the others are  *)
(* deeper by the sections opened in between, wrapper or no wrapper.        *)
THEOREM LevelsCorrect == Spec => []LevelsFollowNesting
<1>1. ASSUME LevelsOK, Structure PROVE LevelsFollowNesting
  <2> DEFINE Depth(id) == Cardinality(SectionsAround(OpenedAt(id)))
             Levels == {sections[i].level : i \in Kept}
             shallowest == CHOOSE i \in Kept : \A j \in Kept : sections[i].level <= sections[j].level
  <2>1. \A i \in Kept : i \in DOMAIN sections /\ sections[i] \in Titles
    BY <1>1 DEF LevelsOK, SectionsOK, Kept
  <2>2. ASSUME NEW i \in Kept
        PROVE  /\ sections[i].level \in Nat \ {0} /\ Depth(sections[i].anchor) \in Nat
               /\ sections[i].level = Depth(sections[i].anchor) + 1
    <3>1. sections[i].level \in Nat \ {0} /\ sections[i].anchor \in Ids
      BY <2>1 DEF Titles
    <3>2. PICK e \in Events("section") : /\ history[e].id = sections[i].anchor
                                         /\ sections[i].level = Cardinality(SectionsAround(e)) + 1
      BY <1>1, <2>1 DEF LevelsOK, IsLevelOf
    <3>3. NoId \notin Ids
      BY AnchorsAssumption DEF Ids
    <3>4. OpenedAt(sections[i].anchor) = e
      BY <1>1, <3>1, <3>2, <3>3 DEF LevelsOK, SectionEvents, OpenedAt
    <3>5. IsFiniteSet(SectionsAround(e))
      <4>1. SectionsAround(e) \in SUBSET (1..e - 1) /\ e \in Int
        BY <1>1 DEF SectionsAround, Structure, HistoryOK, Events
      <4>2. IsFiniteSet(1..e - 1)
        BY <4>1, FS_Interval
      <4> QED BY <4>1, <4>2, FS_Subset
    <3>6. Cardinality(SectionsAround(e)) \in Nat
      BY <3>5, FS_CardinalityType
    <3> QED BY <3>1, <3>2, <3>4, <3>6
  <2>3. ASSUME Kept # {}
        PROVE  shallowest \in Kept /\ \A j \in Kept : sections[shallowest].level <= sections[j].level
    <3>1. Levels \subseteq Nat /\ Levels # {}
      BY <2>2, <2>3
    <3> HIDE DEF Levels
    <3>2. PICK m \in Levels : \A n \in Levels : m <= n
      BY <3>1, LeastNumber
    <3>3. PICK i \in Kept : sections[i].level = m
      BY DEF Levels
    <3>4. \A j \in Kept : sections[i].level <= sections[j].level
      BY <3>2, <3>3 DEF Levels
    <3> QED BY <3>3, <3>4
  <2> HIDE DEF Depth, Levels, shallowest
  <2>4. OutlineSections = [i \in Kept |->
            [sections[i] EXCEPT !.level = @ - (sections[shallowest].level - 1)]]
    BY DEF OutlineSections, shallowest
  <2>5. ASSUME NEW i \in Kept
        PROVE  /\ OutlineSections[i].anchor = sections[i].anchor
               /\ OutlineSections[i].level
                      = sections[i].level - (sections[shallowest].level - 1)
    BY <2>1, <2>4 DEF Titles
  <2>6. Range(OutlineSections) = {OutlineSections[i] : i \in Kept}
    BY <2>4 DEF Range
  <2>7. ASSUME Kept # {}
        PROVE  OutlineSections[shallowest].level = 1
    BY <2>2, <2>3, <2>5, <2>7
  <2>8. ASSUME NEW i \in Kept, NEW j \in Kept
        PROVE  /\ OutlineSections[i].level >= 1
               /\ OutlineSections[i].level + Depth(OutlineSections[j].anchor)
                      = OutlineSections[j].level + Depth(OutlineSections[i].anchor)
    <3>1. shallowest \in Kept /\ sections[shallowest].level <= sections[i].level
      BY <2>3
    <3> QED BY <2>2, <2>5, <3>1
  <2>9. Range(OutlineSections) # {} => Kept # {}
    BY <2>6
  <2> QED BY <2>3, <2>6, <2>7, <2>8, <2>9 DEF LevelsFollowNesting, Depth
<1> QED BY <1>1, LevelsInvariant, StructureKept, PTL

-----------------------------------------------------------------------------
(* Titles.                                                                 *)

OpenHeadings == {h \in Range(page) : history[h].kind = "heading"}
Listed(id) == {s \in Range(sections) : s.anchor = id}

(* The innermost open section, as the parser sees it.                      *)
Top == IF openSections = <<>> THEN None ELSE Last(openSections)

(* A section is listed once a heading of its own has ended, as the first.  *)
NamedByFirst(id) ==
    IF ClosedHeadings(id) = {}
    THEN Listed(id) = {}
    ELSE \E s : /\ Listed(id) = {s}
                /\ Range(s.title) = HeadingWords(Earliest(ClosedHeadings(id)))

(* A heading is collected while its section, the innermost one open when   *)
(* it started, has no title; and every later heading starts after it ends. *)
HeadingsOK ==
    /\ \A h \in OpenHeadings : \A g \in Events("heading") : g <= h
    /\ collecting # None =>
           /\ \E h \in OpenHeadings : /\ SectionAt(h) = collecting
                                      /\ Range(buffer) = HeadingWords(h)
           /\ ClosedHeadings(collecting) = {}
    /\ \A h \in OpenHeadings :
           SectionAt(h) \in Ids /\ collecting # SectionAt(h) => ClosedHeadings(SectionAt(h)) # {}
    /\ \A id \in Ids : NamedByFirst(id)

LEMMA LatestOne ==
    ASSUME NEW bound \in Nat, NEW S, S \subseteq 1..bound, S # {}
    PROVE  Latest(S) \in S /\ \A n \in S : n <= Latest(S)
<1>1. S \subseteq Nat /\ \A n \in S : n <= bound
  OBVIOUS
<1>2. \E m \in S : \A n \in S : n <= m
  BY <1>1, GreatestNumber
<1> QED BY <1>2 DEF Latest

LEMMA SectionsAroundEarlier ==
    ASSUME HistoryOK, NEW e \in DOMAIN history
    PROVE  SectionsAround(e) \subseteq DOMAIN history
<1>1. history[e].within \subseteq 1..e - 1 /\ DOMAIN history = 1..Len(history)
  BY NewEvent DEF HistoryOK
<1>2. Len(history) \in Nat
  BY NewEvent
<1> QED BY <1>1, <1>2 DEF SectionsAround

LEMMA SectionAtTop ==
    ASSUME Structure, NEW S, S = {e \in Range(page) : history[e].kind = "section"}
    PROVE  /\ S = {} <=> openSections = <<>>
           /\ S # {} => Latest(S) \in DOMAIN history /\ history[Latest(S)].id = Last(openSections)
<1>1. PageOK /\ StackOK /\ HistoryOK
  BY DEF Structure
<1>2. S = {} <=> openSections = <<>>
  BY <1>1, StackEmpty
<1>3. ASSUME S # {}
      PROVE  Latest(S) \in DOMAIN history /\ history[Latest(S)].id = Last(openSections)
  <2>1. /\ Len(openSections) \in Nat \ {0} /\ Len(openSections) \in DOMAIN page
        /\ page[Len(openSections)] \in Events("section")
        /\ Last(openSections) = history[page[Len(openSections)]].id
    BY <1>2, <1>3, TopOfStack
  <2> DEFINE m == page[Len(openSections)]
  <2>2. m \in S
    BY <2>1 DEF Events, Range
  <2>3. \A e \in S : e <= m
    <3> TAKE e \in S
    <3>1. PICK i \in DOMAIN page : e = page[i]
      BY DEF Range
    <3>2. history[page[i]].kind = "section"
      BY <3>1
    <3>3. i <= Len(openSections) /\ page \in Seq(Nat)
      BY <1>1, <3>2 DEF StackOK, PageOK
    <3>4. i = Len(openSections) \/ i < Len(openSections)
      BY <2>1, <3>3
    <3>5. i < Len(openSections) => page[i] < m
      BY <1>1, <2>1 DEF PageOK
    <3>6. page[i] \in Nat /\ m \in Nat
      BY <2>1, <3>3
    <3> QED BY <3>1, <3>4, <3>5, <3>6
  <2>4. S \subseteq 1..Len(history) /\ Len(history) \in Nat
    BY <1>1, NewEvent DEF PageOK, Range
  <2>5. Latest(S) \in S /\ \A e \in S : e <= Latest(S)
    BY <1>3, <2>4, LatestOne
  <2>6. Latest(S) = m
    <3>1. m \in Nat /\ Latest(S) \in Nat /\ m <= Latest(S) /\ Latest(S) <= m
      BY <2>2, <2>3, <2>4, <2>5
    <3> QED BY <3>1
  <2> QED BY <2>1, <2>6 DEF Events
<1> QED BY <1>2, <1>3

LEMMA HeadingsGrow ==
    ASSUME Structure, NEW k, NEW id, Fits(k, id), Happens(k, id)
    PROVE  /\ \A h \in DOMAIN history :
                  /\ SectionAt(h)' = SectionAt(h)
                  /\ HeadingWords(h)' = IF k = "word" /\ h \in Range(page)
                                        THEN HeadingWords(h) \cup {id} ELSE HeadingWords(h)
           /\ \A n : n = Len(history) + 1 => SectionAt(n)' = Top /\ HeadingWords(n)' = {}
<1>1. HistoryOK /\ PageOK
  BY DEF Structure
<1>2. PICK n : n = Len(history) + 1
  OBVIOUS
<1>3. /\ \A e \in DOMAIN history : history'[e] = history[e] /\ SectionsAround(e)' = SectionsAround(e)
      /\ history'[n] = [kind |-> k, id |-> id, within |-> Range(page)]
      /\ SectionsAround(n)' = {e \in Range(page) : history[e].kind = "section"}
      /\ Events("word")' = IF k = "word" THEN Events("word") \cup {n} ELSE Events("word")
      /\ Events("word") \subseteq DOMAIN history
      /\ Len(history) \in Nat /\ DOMAIN history = 1..Len(history) /\ n \notin DOMAIN history
  BY <1>1, <1>2, HistoryGrows, SectionsAroundStay, EventsGrow, NewEvent
<1>4. history'[n].id = id /\ history'[n].within = Range(page)
  BY <1>3
<1>5. \A e \in DOMAIN history : history[e].within \subseteq DOMAIN history
  BY <1>1, <1>3 DEF HistoryOK
<1>6. ASSUME NEW h \in DOMAIN history
      PROVE  SectionAt(h)' = SectionAt(h)
  <2>1. PICK S : S = SectionsAround(h) /\ S = SectionsAround(h)'
    BY <1>3
  <2>2. S # {} => Latest(S) \in DOMAIN history
    BY <1>1, <1>3, <2>1, SectionsAroundEarlier, LatestOne
  <2>3. S # {} => history'[Latest(S)].id = history[Latest(S)].id
    BY <1>3, <2>2
  <2> QED BY <2>1, <2>3 DEF SectionAt
<1>7. SectionAt(n)' = Top
  <2>1. PICK S : S = SectionsAround(n)'
    OBVIOUS
  <2>2. /\ S = {} <=> openSections = <<>>
        /\ S # {} => Latest(S) \in DOMAIN history /\ history[Latest(S)].id = Last(openSections)
    BY <1>3, <2>1, SectionAtTop
  <2>3. SectionAt(n)' = IF S = {} THEN None ELSE history'[Latest(S)].id
    BY <2>1 DEF SectionAt
  <2> QED BY <1>3, <2>2, <2>3 DEF Top
<1>8. ASSUME NEW h \in DOMAIN history
      PROVE  HeadingWords(h)' = IF k = "word" /\ h \in Range(page)
                                THEN HeadingWords(h) \cup {id} ELSE HeadingWords(h)
  <2>1. {w \in Events("word") : h \in history[w].within}'
            = IF k = "word" /\ h \in Range(page)
              THEN {w \in Events("word") : h \in history[w].within} \cup {n}
              ELSE {w \in Events("word") : h \in history[w].within}
    BY <1>3, <1>4
  <2> QED BY <1>3, <1>4, <2>1 DEF HeadingWords
<1>9. HeadingWords(n)' = {}
  <2>1. Range(page) \subseteq DOMAIN history
    BY <1>1 DEF PageOK, Range
  <2>2. \A w \in Events("word")' : n \notin history'[w].within
    BY <1>3, <1>4, <1>5, <2>1
  <2> QED BY <2>2 DEF HeadingWords
<1> QED BY <1>2, <1>6, <1>7, <1>8, <1>9

LEMMA ClosedStay ==
    ASSUME Structure, NEW k, NEW id, Fits(k, id), Happens(k, id),
           \A h \in DOMAIN history : h \in Range(page)' <=> h \in Range(page),
           k = "heading" => Len(history) + 1 \in Range(page)',
           NEW a
    PROVE  /\ ClosedHeadings(a)' = ClosedHeadings(a)
           /\ \A h \in ClosedHeadings(a) : HeadingWords(h)' = HeadingWords(h)
<1>1. HistoryOK /\ PageOK
  BY DEF Structure
<1>2. /\ \A h \in DOMAIN history : SectionAt(h)' = SectionAt(h)
      /\ \A h \in DOMAIN history : h \notin Range(page) => HeadingWords(h)' = HeadingWords(h)
  BY HeadingsGrow
<1>3. Events("heading")' = IF k = "heading" THEN Events("heading") \cup {Len(history) + 1}
                           ELSE Events("heading")
  BY <1>1, EventsGrow
<1>4. Events("heading") \subseteq DOMAIN history
  BY <1>1, NewEvent
<1>5. \A h \in Events("heading") :
          (SectionAt(h) = a /\ h \notin Range(page) /\ HeadingWords(h) # {})'
              <=> SectionAt(h) = a /\ h \notin Range(page) /\ HeadingWords(h) # {}
  BY <1>2, <1>4
<1>6. ClosedHeadings(a)' = ClosedHeadings(a)
  BY <1>3, <1>5 DEF ClosedHeadings
<1> QED BY <1>2, <1>4, <1>6 DEF ClosedHeadings

LEMMA NamesStay ==
    ASSUME NEW a, UNCHANGED sections, ClosedHeadings(a)' = ClosedHeadings(a),
           \A h \in ClosedHeadings(a) : HeadingWords(h)' = HeadingWords(h),
           ClosedHeadings(a) \subseteq Nat, NamedByFirst(a)
    PROVE  NamedByFirst(a)'
<1>1. Listed(a)' = Listed(a)
  BY DEF Listed, Range
<1>2. CASE ClosedHeadings(a) = {}
  BY <1>1, <1>2 DEF NamedByFirst
<1>3. CASE ClosedHeadings(a) # {}
  <2>1. PICK h : h = Earliest(ClosedHeadings(a))
    OBVIOUS
  <2>2. h \in ClosedHeadings(a)
    BY <1>3, <2>1, EarliestOne
  <2>3. PICK s : Listed(a) = {s} /\ Range(s.title) = HeadingWords(h)
    BY <1>3, <2>1 DEF NamedByFirst
  <2>4. Earliest(ClosedHeadings(a))' = h
    BY <2>1 DEF Earliest
  <2>5. HeadingWords(Earliest(ClosedHeadings(a)))' = HeadingWords(h)'
    BY <2>4 DEF HeadingWords
  <2>6. HeadingWords(h)' = HeadingWords(h)
    BY <2>2
  <2> QED BY <1>1, <1>3, <2>3, <2>5, <2>6 DEF NamedByFirst
<1> QED BY <1>2, <1>3

(* The headings, and what is known of them, stay.                          *)
LEMMA HeadingsKept ==
    ASSUME HistoryOK, HeadingsOK, UNCHANGED <<collecting, buffer, sections>>,
           OpenHeadings' = OpenHeadings, Events("heading")' = Events("heading"),
           OpenHeadings \subseteq Events("heading"),
           \A h \in Events("heading") : /\ SectionAt(h)' = SectionAt(h)
                                        /\ HeadingWords(h)' = HeadingWords(h),
           \A a : ClosedHeadings(a)' = ClosedHeadings(a)
    PROVE  HeadingsOK'
<1>1. \A a : ClosedHeadings(a) \subseteq Events("heading")
  BY DEF ClosedHeadings
<1>2. Events("heading") \subseteq Nat
  BY NewEvent
<1>3. \A h \in OpenHeadings' : \A g \in Events("heading")' : g <= h
  BY DEF HeadingsOK
<1>4. ASSUME collecting' # None
      PROVE  /\ \E h \in OpenHeadings' : /\ SectionAt(h)' = collecting'
                                         /\ Range(buffer)' = HeadingWords(h)'
             /\ ClosedHeadings(collecting)' = {}
  <2>1. PICK h \in OpenHeadings : SectionAt(h) = collecting /\ Range(buffer) = HeadingWords(h)
    BY <1>4 DEF HeadingsOK
  <2>2. SectionAt(h)' = SectionAt(h) /\ HeadingWords(h)' = HeadingWords(h)
    BY <2>1
  <2>3. PICK a : a = collecting
    OBVIOUS
  <2>4. ClosedHeadings(a)' = {}
    BY <1>4, <2>3 DEF HeadingsOK
  <2>5. ClosedHeadings(collecting)' = {}
    BY <2>3, <2>4 DEF ClosedHeadings
  <2> QED BY <2>1, <2>2, <2>5 DEF Range
<1>5. ASSUME NEW h \in OpenHeadings, SectionAt(h)' \in Ids, collecting' # SectionAt(h)'
      PROVE  ClosedHeadings(SectionAt(h))' # {}
  <2>1. PICK a : a = SectionAt(h)
    OBVIOUS
  <2>2. SectionAt(h)' = a
    BY <2>1
  <2>3. ClosedHeadings(a)' # {}
    BY <1>5, <2>1, <2>2 DEF HeadingsOK
  <2> QED BY <2>2, <2>3 DEF ClosedHeadings
<1>6. \A a \in Ids : NamedByFirst(a)'
  <2> TAKE a \in Ids
  <2>1. NamedByFirst(a)
    BY DEF HeadingsOK
  <2>2. ClosedHeadings(a) \subseteq Nat
    BY <1>1, <1>2
  <2>3. \A h \in ClosedHeadings(a) : HeadingWords(h)' = HeadingWords(h)
    BY <1>1
  <2> QED BY <2>1, <2>2, <2>3, NamesStay
<1> QED BY <1>3, <1>4, <1>5, <1>6 DEF HeadingsOK

LEMMA HistorySays ==
    ASSUME UNCHANGED history
    PROVE  \A h : SectionAt(h)' = SectionAt(h) /\ HeadingWords(h)' = HeadingWords(h)
<1>1. \A h : SectionsAround(h)' = SectionsAround(h)
  BY DEF SectionsAround
<1>2. ASSUME NEW h PROVE SectionAt(h)' = SectionAt(h)
  <2>1. PICK S : S = SectionsAround(h) /\ S = SectionsAround(h)'
    BY <1>1
  <2> QED BY <2>1 DEF SectionAt
<1>3. \A h : HeadingWords(h)' = HeadingWords(h)
  BY DEF HeadingWords, Events
<1> QED BY <1>2, <1>3

LEMMA OpenHeadingsFacts ==
    ASSUME Structure
    PROVE  /\ OpenHeadings \subseteq Events("heading")
           /\ Events("heading") \subseteq DOMAIN history
           /\ DOMAIN history \subseteq Nat
           /\ Range(page) \subseteq DOMAIN history
<1>1. HistoryOK /\ PageOK
  BY DEF Structure
<1> QED BY <1>1, NewEvent DEF OpenHeadings, PageOK, Range, Events

(* An element other than a heading opens.                                  *)
LEMMA HeadingsOnPush ==
    ASSUME Structure, HeadingsOK, NEW k, NEW id, Fits(k, id),
           k \notin {"stray", "word", "heading"}, Opens(k, id), UNCHANGED <<collecting, buffer, sections>>
    PROVE  HeadingsOK'
<1>1. HistoryOK /\ PageOK
  BY DEF Structure
<1>2. PICK n : n = Len(history) + 1
  OBVIOUS
<1>3. /\ Happens(k, id) /\ Range(page)' = Range(page) \cup {n}
      /\ \A e \in DOMAIN history : history'[e] = history[e]
      /\ history'[n] = [kind |-> k, id |-> id, within |-> Range(page)]
      /\ Events("heading")' = Events("heading")
      /\ n \notin DOMAIN history
  BY <1>1, <1>2, PagePush, HistoryGrows, EventsGrow, NewEvent
<1>4. history'[n].kind # "heading"
  BY <1>3
<1>5. OpenHeadings' = OpenHeadings
  BY <1>3, <1>4, OpenHeadingsFacts DEF OpenHeadings
<1>6. \A h \in Events("heading") : /\ SectionAt(h)' = SectionAt(h)
                                   /\ HeadingWords(h)' = HeadingWords(h)
  BY <1>3, HeadingsGrow, OpenHeadingsFacts
<1>7. \A h \in DOMAIN history : h \in Range(page)' <=> h \in Range(page)
  BY <1>3
<1>8. \A a : ClosedHeadings(a)' = ClosedHeadings(a)
  BY <1>3, <1>7, ClosedStay
<1> QED BY <1>1, <1>3, <1>5, <1>6, <1>8, HeadingsKept, OpenHeadingsFacts

(* An element other than a heading ends, or a stray tag does nothing.      *)
LEMMA HeadingsOnEnd ==
    ASSUME Structure, Structure', HeadingsOK,
           UNCHANGED <<history, collecting, buffer, sections>>,
           \A h \in Events("heading") : h \in Range(page)' <=> h \in Range(page)
    PROVE  HeadingsOK'
<1>1. /\ Range(page)' \subseteq DOMAIN history
      /\ \A h : SectionAt(h)' = SectionAt(h) /\ HeadingWords(h)' = HeadingWords(h)
      /\ Events("heading")' = Events("heading")
  BY HistorySays DEF Events, Structure, PageOK, Range
<1>2. \A a : ClosedHeadings(a)' = ClosedHeadings(a)
  BY <1>1 DEF ClosedHeadings
<1>3. HistoryOK
  BY DEF Structure
<1>4. OpenHeadings' = OpenHeadings
  BY <1>1, OpenHeadingsFacts DEF OpenHeadings, Events
<1> QED BY <1>1, <1>2, <1>3, <1>4, HeadingsKept, OpenHeadingsFacts

LEMMA HeadingsOnStray ==
    ASSUME Structure, HeadingsOK, NEW tag, Fits("stray", tag), StrayRead(tag),
           UNCHANGED <<collecting, buffer, sections>>
    PROVE  HeadingsOK'
<1>1. HistoryOK /\ PageOK
  BY DEF Structure
<1>2. Happens("stray", tag) /\ UNCHANGED page
  BY DEF StrayRead
<1>3. /\ \A e \in DOMAIN history : history'[e] = history[e]
      /\ Events("heading")' = Events("heading")
  BY <1>1, <1>2, HistoryGrows, EventsGrow
<1>4. OpenHeadings' = OpenHeadings
  BY <1>2, <1>3, OpenHeadingsFacts DEF OpenHeadings
<1>5. \A h \in Events("heading") : /\ SectionAt(h)' = SectionAt(h)
                                   /\ HeadingWords(h)' = HeadingWords(h)
  BY <1>2, HeadingsGrow, OpenHeadingsFacts
<1>6. \A h \in DOMAIN history : h \in Range(page)' <=> h \in Range(page)
  BY <1>2 DEF Range
<1>7. \A a : ClosedHeadings(a)' = ClosedHeadings(a)
  BY <1>2, <1>6, ClosedStay
<1> QED BY <1>1, <1>3, <1>4, <1>5, <1>7, HeadingsKept, OpenHeadingsFacts

LEMMA HeadingStarts ==
    ASSUME Structure, SectionsOK, HeadingsOK, StartHeading
    PROVE  HeadingsOK'
<1>1. HistoryOK /\ PageOK /\ Fits("heading", NoId)
  BY FitsElements DEF Structure
<1>2. PICK n : n = Len(history) + 1
  OBVIOUS
<1>3. /\ Opens("heading", NoId) /\ UNCHANGED sections
      /\ \A e \in Range(page) : history[e].kind # "heading"
  BY DEF StartHeading
<1>4. /\ Happens("heading", NoId) /\ Range(page)' = Range(page) \cup {n}
      /\ \A e \in DOMAIN history : history'[e] = history[e]
      /\ history'[n] = [kind |-> "heading", id |-> NoId, within |-> Range(page)]
      /\ Events("heading")' = Events("heading") \cup {n}
      /\ n \notin DOMAIN history
  BY <1>1, <1>2, <1>3, PagePush, HistoryGrows, EventsGrow, NewEvent
<1>5. OpenHeadings = {} /\ collecting = None
  <2>1. OpenHeadings = {}
    BY <1>3 DEF OpenHeadings
  <2> QED BY <2>1 DEF HeadingsOK
<1>6. OpenHeadings' = {n}
  <2>1. history'[n].kind = "heading"
    BY <1>4
  <2>2. \A e \in Range(page) : history'[e].kind # "heading"
    BY <1>3, <1>4, OpenHeadingsFacts
  <2> QED BY <1>4, <2>1, <2>2 DEF OpenHeadings
<1>7. /\ \A h \in DOMAIN history : h \in Range(page)' <=> h \in Range(page)
      /\ n \in Range(page)'
  BY <1>4
<1>8. ASSUME NEW a
      PROVE  /\ ClosedHeadings(a)' = ClosedHeadings(a)
             /\ \A h \in ClosedHeadings(a) : HeadingWords(h)' = HeadingWords(h)
  BY <1>1, <1>2, <1>4, <1>7, ClosedStay
<1>9. SectionAt(n)' = Top /\ HeadingWords(n)' = {}
  BY <1>1, <1>2, <1>4, HeadingsGrow
<1>10. \A a \in Ids : NamedByFirst(a)'
  <2> TAKE a \in Ids
  <2>1. NamedByFirst(a) /\ ClosedHeadings(a) \subseteq Nat
    BY OpenHeadingsFacts DEF HeadingsOK, ClosedHeadings
  <2> QED BY <1>3, <1>8, <2>1, NamesStay
<1>11. \A h \in OpenHeadings' : \A g \in Events("heading")' : g <= h
  <2>1. \A g \in Events("heading") : g \in 1..Len(history)
    BY <1>1, NewEvent
  <2>2. Len(history) \in Nat
    BY <1>1, NewEvent
  <2> QED BY <1>2, <1>4, <1>6, <2>1, <2>2
<1>12. Top \in Ids => /\ openSections # <<>> /\ Last(openSections) = Top
                      /\ Last(openSections) # NoId
  BY AnchorsAssumption DEF Top, Ids
<1>13. CASE openSections # <<>> /\ Last(openSections) # NoId
            /\ \A s \in Range(sections) : s.anchor # Last(openSections)
  <2>1. collecting' = Last(openSections) /\ buffer' = <<>> /\ Top = Last(openSections)
    BY <1>13 DEF StartHeading, Top
  <2>2. PICK a : a = Last(openSections)
    OBVIOUS
  <2>3. a \in Ids
    BY <1>13, <2>2, TopOfStack
  <2>4. ClosedHeadings(a) = {}
    <3>1. Listed(a) = {}
      BY <1>13, <2>2 DEF Listed
    <3>2. NamedByFirst(a)
      BY <2>3 DEF HeadingsOK
    <3> QED BY <3>1, <3>2 DEF NamedByFirst
  <2>5. ClosedHeadings(collecting)' = {}
    <3>1. ClosedHeadings(a)' = {} /\ collecting' = a
      BY <1>8, <2>1, <2>2, <2>4
    <3> QED BY <3>1 DEF ClosedHeadings
  <2>6. \E h \in OpenHeadings' : /\ SectionAt(h)' = collecting'
                                 /\ Range(buffer)' = HeadingWords(h)'
    <3>1. Range(buffer)' = {}
      BY <2>1 DEF Range
    <3> QED BY <1>6, <1>9, <2>1, <3>1
  <2>7. \A h \in OpenHeadings' : ~ (SectionAt(h)' \in Ids /\ collecting' # SectionAt(h)')
    BY <1>6, <1>9, <2>1
  <2> QED BY <1>10, <1>11, <2>5, <2>6, <2>7 DEF HeadingsOK
<1>14. CASE UNCHANGED <<collecting, level, buffer>>
            /\ ~ (openSections # <<>> /\ Last(openSections) # NoId
                  /\ \A s \in Range(sections) : s.anchor # Last(openSections))
  <2>1. collecting' = None
    BY <1>5, <1>14
  <2>2. ASSUME NEW h \in OpenHeadings', SectionAt(h)' \in Ids
        PROVE  ClosedHeadings(SectionAt(h))' # {}
    <3>1. PICK a : a = SectionAt(h)'
      OBVIOUS
    <3>2. a \in Ids /\ a = Top
      BY <1>6, <1>9, <2>2, <3>1
    <3>3. Listed(a) # {}
      BY <1>12, <1>14, <3>2 DEF Listed
    <3>4. NamedByFirst(a)
      BY <3>2 DEF HeadingsOK
    <3>5. ClosedHeadings(a)' # {}
      BY <1>8, <3>3, <3>4 DEF NamedByFirst
    <3> QED BY <3>1, <3>5 DEF ClosedHeadings
  <2> QED BY <1>10, <1>11, <2>1, <2>2 DEF HeadingsOK
<1> QED BY <1>13, <1>14 DEF StartHeading

LEMMA HeadingReads ==
    ASSUME Structure, SectionsOK, HeadingsOK, Data
    PROVE  HeadingsOK'
<1>1. HistoryOK /\ PageOK
  BY DEF Structure
<1> DEFINE word == WordsRead + 1
<1>2. /\ Happens("word", word) /\ Fits("word", word)
      /\ buffer' = IF collecting = None THEN buffer ELSE Append(buffer, word)
      /\ UNCHANGED <<collecting, sections, page>>
  BY <1>1, NewEvent, FitsElements DEF Data
<1>3. word \in Nat /\ buffer \in Seq(Nat)
  BY <1>1, NewEvent DEF SectionsOK
<1> HIDE DEF word
<1>4. /\ \A e \in DOMAIN history : history'[e] = history[e]
      /\ Events("heading")' = Events("heading")
  BY <1>1, <1>2, HistoryGrows, EventsGrow
<1>5. OpenHeadings' = OpenHeadings
  BY <1>2, <1>4, OpenHeadingsFacts DEF OpenHeadings, Range
<1>6. \A h \in DOMAIN history :
          /\ SectionAt(h)' = SectionAt(h)
          /\ HeadingWords(h)' = IF h \in Range(page) THEN HeadingWords(h) \cup {word}
                                ELSE HeadingWords(h)
  BY <1>2, HeadingsGrow
<1>7. \A h \in DOMAIN history : h \in Range(page)' <=> h \in Range(page)
  BY <1>2 DEF Range
<1>8. ASSUME NEW a
      PROVE  /\ ClosedHeadings(a)' = ClosedHeadings(a)
             /\ \A h \in ClosedHeadings(a) : HeadingWords(h)' = HeadingWords(h)
  BY <1>2, <1>7, ClosedStay
<1>9. \A a \in Ids : NamedByFirst(a)'
  <2> TAKE a \in Ids
  <2>1. NamedByFirst(a) /\ ClosedHeadings(a) \subseteq Nat
    BY OpenHeadingsFacts DEF HeadingsOK, ClosedHeadings
  <2> QED BY <1>2, <1>8, <2>1, NamesStay
<1>10. \A h \in OpenHeadings' : \A g \in Events("heading")' : g <= h
  BY <1>4, <1>5 DEF HeadingsOK
<1>11. ASSUME collecting' # None
       PROVE  /\ \E h \in OpenHeadings' : /\ SectionAt(h)' = collecting'
                                          /\ Range(buffer)' = HeadingWords(h)'
              /\ ClosedHeadings(collecting)' = {}
  <2>1. PICK h \in OpenHeadings : SectionAt(h) = collecting /\ Range(buffer) = HeadingWords(h)
    BY <1>2, <1>11 DEF HeadingsOK
  <2>2. h \in DOMAIN history /\ h \in Range(page)
    BY OpenHeadingsFacts DEF OpenHeadings
  <2>3. HeadingWords(h)' = HeadingWords(h) \cup {word} /\ SectionAt(h)' = SectionAt(h)
    BY <1>6, <2>2
  <2>4. buffer' = Append(buffer, word)
    BY <1>2, <1>11
  <2>5. Range(buffer)' = Range(buffer) \cup {word}
    BY <1>3, <2>4 DEF Range
  <2>6. PICK a : a = collecting
    OBVIOUS
  <2>7. ClosedHeadings(a)' = {} /\ collecting' = a
    BY <1>2, <1>8, <1>11, <2>6 DEF HeadingsOK
  <2>8. ClosedHeadings(collecting)' = {}
    BY <2>7 DEF ClosedHeadings
  <2> QED BY <1>2, <1>5, <2>1, <2>3, <2>5, <2>8
<1>12. ASSUME NEW h \in OpenHeadings', SectionAt(h)' \in Ids, collecting' # SectionAt(h)'
       PROVE  ClosedHeadings(SectionAt(h))' # {}
  <2>1. PICK a : a = SectionAt(h)
    OBVIOUS
  <2>2. SectionAt(h)' = a /\ h \in OpenHeadings
    BY <1>5, <1>6, <2>1, OpenHeadingsFacts
  <2>3. ClosedHeadings(a)' # {}
    BY <1>2, <1>8, <1>12, <2>1, <2>2 DEF HeadingsOK
  <2> QED BY <2>2, <2>3 DEF ClosedHeadings
<1> QED BY <1>9, <1>10, <1>11, <1>12 DEF HeadingsOK

LEMMA HeadingEnds ==
    ASSUME Structure, SectionsOK, HeadingsOK, EndHeading
    PROVE  HeadingsOK'
<1>1. HistoryOK /\ PageOK /\ StackOK
  BY DEF Structure
<1>2. /\ EndRead("heading") /\ UNCHANGED <<openSections, buffer, skip, history>>
      /\ collecting' = None
  BY EndIs DEF EndHeading, Ends, Closes
<1>3. Structure'
  BY <1>2, StructureOnEnd DEF Kinds
<1>4. /\ \A h : SectionAt(h)' = SectionAt(h) /\ HeadingWords(h)' = HeadingWords(h)
      /\ Events("heading")' = Events("heading")
  BY <1>2, HistorySays DEF Events
<1>5. CASE (\A e \in Range(page) : history[e].kind # "heading") /\ UNCHANGED page
  <2>1. OpenHeadings = {}
    BY <1>5 DEF OpenHeadings
  <2>2. collecting = None
    BY <2>1 DEF HeadingsOK
  <2>3. UNCHANGED <<collecting, sections>>
    BY <1>2, <2>2 DEF EndHeading
  <2>4. \A h \in Events("heading") : h \in Range(page)' <=> h \in Range(page)
    BY <1>5 DEF Range
  <2> QED BY <1>2, <1>3, <2>3, <2>4, HeadingsOnEnd
<1>6. CASE page # <<>> /\ history[Last(page)].kind = "heading" /\ page' = Front(page)
  <2>1. PICK h : h = Last(page)
    OBVIOUS
  <2>2. Range(page)' = Range(page) \ {h} /\ h \in Range(page)
    BY <1>1, <1>2, <1>6, <2>1, PagePop
  <2>3. h \in OpenHeadings /\ h \in Events("heading")
    BY <1>6, <2>1, <2>2, OpenHeadingsFacts DEF OpenHeadings
  <2>4. \A g \in OpenHeadings : g = h
    <3> TAKE g \in OpenHeadings
    <3>1. g <= h /\ h <= g
      BY <2>3, OpenHeadingsFacts DEF HeadingsOK
    <3>2. g \in Nat /\ h \in Nat
      BY <2>3, OpenHeadingsFacts
    <3> QED BY <3>1, <3>2
  <2>5. OpenHeadings' = {}
    BY <1>2, <2>2, <2>4 DEF OpenHeadings
  <2>6. \A a : /\ ClosedHeadings(a) \subseteq Events("heading") /\ h \notin ClosedHeadings(a)
               /\ ClosedHeadings(a)' = IF SectionAt(h) = a /\ HeadingWords(h) # {}
                                       THEN ClosedHeadings(a) \cup {h} ELSE ClosedHeadings(a)
    BY <1>4, <2>2, <2>3 DEF ClosedHeadings
  <2>7. ASSUME NEW a \in Ids, ClosedHeadings(a)' = ClosedHeadings(a), Listed(a)' = Listed(a)
        PROVE  NamedByFirst(a)'
    <3>1. NamedByFirst(a)
      BY DEF HeadingsOK
    <3>2. CASE ClosedHeadings(a) = {}
      BY <2>7, <3>1, <3>2 DEF NamedByFirst
    <3>3. CASE ClosedHeadings(a) # {}
      <4>1. PICK e : e = Earliest(ClosedHeadings(a))
        OBVIOUS
      <4>2. PICK s : Listed(a) = {s} /\ Range(s.title) = HeadingWords(e)
        BY <3>1, <3>3, <4>1 DEF NamedByFirst
      <4>3. Earliest(ClosedHeadings(a))' = e
        BY <2>7, <4>1 DEF Earliest
      <4>4. HeadingWords(Earliest(ClosedHeadings(a)))' = HeadingWords(e)'
        BY <4>3 DEF HeadingWords
      <4> QED BY <1>4, <2>7, <3>3, <4>2, <4>4 DEF NamedByFirst
    <3> QED BY <3>2, <3>3
  <2>8. CASE collecting # None
    <3>1. PICK c : c = collecting
      OBVIOUS
    <3>2. /\ SectionAt(h) = c /\ Range(buffer) = HeadingWords(h) /\ ClosedHeadings(c) = {}
          /\ c \in Ids
      BY <2>4, <2>8, <3>1 DEF HeadingsOK, SectionsOK
    <3>3. CASE buffer = <<>>
      <4>1. HeadingWords(h) = {}
        BY <3>2, <3>3 DEF Range
      <4>2. UNCHANGED sections
        BY <3>3 DEF EndHeading
      <4>3. \A a : ClosedHeadings(a)' = ClosedHeadings(a) /\ Listed(a)' = Listed(a)
        BY <2>6, <4>1, <4>2 DEF Listed, Range
      <4> QED BY <1>2, <2>5, <2>7, <4>3 DEF HeadingsOK
    <3>4. CASE buffer # <<>>
      <4>1. PICK s : s = [anchor |-> collecting, title |-> buffer, level |-> level]
        OBVIOUS
      <4>2. sections' = Append(sections, s) /\ s.anchor = c /\ s.title = buffer
        BY <2>8, <3>1, <3>4, <4>1 DEF EndHeading
      <4>3. Range(sections') = Range(sections) \cup {s}
        BY <4>2, AppendRange DEF SectionsOK
      <4>4. Listed(c) = {}
        BY <3>2 DEF HeadingsOK, NamedByFirst
      <4>5. Listed(c)' = {s} /\ \A a : a # c => Listed(a)' = Listed(a)
        BY <4>2, <4>3, <4>4 DEF Listed
      <4>6. HeadingWords(h) # {}
        <5>1. 1 \in DOMAIN buffer
          BY <3>4 DEF SectionsOK
        <5> QED BY <3>2, <5>1 DEF Range
      <4>7. ClosedHeadings(c)' = {h} /\ \A a : a # c => ClosedHeadings(a)' = ClosedHeadings(a)
        BY <2>6, <3>2, <4>6
      <4>8. NamedByFirst(c)'
        <5>1. Earliest(ClosedHeadings(c))' = h
          <6>1. h \in Nat
            BY <2>3, OpenHeadingsFacts
          <6>2. Earliest(ClosedHeadings(c))' = Earliest({h})
            BY <4>7 DEF Earliest
          <6>3. Earliest({h}) \in {h}
            BY <6>1, EarliestOne
          <6> QED BY <6>2, <6>3
        <5>2. HeadingWords(Earliest(ClosedHeadings(c)))' = HeadingWords(h)'
          BY <5>1 DEF HeadingWords
        <5>3. Range(s.title) = HeadingWords(h)'
          BY <1>4, <3>2, <4>2
        <5> QED BY <4>5, <4>7, <5>2, <5>3 DEF NamedByFirst
      <4>9. \A a \in Ids : NamedByFirst(a)'
        BY <2>7, <4>5, <4>7, <4>8
      <4> QED BY <1>2, <2>5, <4>9 DEF HeadingsOK
    <3> QED BY <3>3, <3>4
  <2>9. CASE collecting = None
    <3>1. UNCHANGED sections
      BY <2>9 DEF EndHeading
    <3>2. \A a : Listed(a)' = Listed(a)
      BY <3>1 DEF Listed, Range
    <3>3. ASSUME NEW a \in Ids, SectionAt(h) = a, HeadingWords(h) # {}
          PROVE  NamedByFirst(a)'
      <4>1. ClosedHeadings(a) # {}
        BY <2>3, <2>9, <3>3, AnchorsAssumption DEF HeadingsOK, Ids
      <4>2. ClosedHeadings(a)' = ClosedHeadings(a) \cup {h}
        BY <2>6, <3>3
      <4>3. PICK e : e = Earliest(ClosedHeadings(a))
        OBVIOUS
      <4>4. ClosedHeadings(a) \subseteq Nat /\ h \in Nat
        BY <2>3, <2>6, OpenHeadingsFacts
      <4>5. e \in ClosedHeadings(a) /\ \A g \in ClosedHeadings(a) : e <= g
        BY <4>1, <4>3, <4>4, EarliestOne
      <4>6. e <= h
        BY <2>3, <2>6, <4>5 DEF HeadingsOK
      <4>7. PICK S : S = ClosedHeadings(a) \cup {h} /\ S = ClosedHeadings(a)'
        BY <4>2
      <4>8. Earliest(S) \in S /\ \A g \in S : Earliest(S) <= g
        BY <4>4, <4>7, EarliestOne
      <4>9. Earliest(S) = e
        <5>1. e \in S /\ S \subseteq Nat /\ \A g \in S : e <= g
          BY <4>4, <4>5, <4>6, <4>7
        <5>2. Earliest(S) <= e /\ e <= Earliest(S) /\ e \in Nat /\ Earliest(S) \in Nat
          BY <4>8, <5>1
        <5> QED BY <5>2
      <4>10. PICK s : Listed(a) = {s} /\ Range(s.title) = HeadingWords(e)
        BY <4>1, <4>3 DEF HeadingsOK, NamedByFirst
      <4>11. Earliest(ClosedHeadings(a))' = e
        BY <4>7, <4>9 DEF Earliest
      <4>12. HeadingWords(Earliest(ClosedHeadings(a)))' = HeadingWords(e)'
        BY <4>11 DEF HeadingWords
      <4>13. ClosedHeadings(a)' # {}
        BY <4>2
      <4> QED BY <1>4, <3>2, <4>10, <4>12, <4>13 DEF NamedByFirst
    <3>4. \A a \in Ids : NamedByFirst(a)'
      BY <2>6, <2>7, <3>2, <3>3
    <3> QED BY <1>2, <2>5, <3>4 DEF HeadingsOK
  <2> QED BY <2>8, <2>9
<1> QED BY <1>2, <1>5, <1>6 DEF EndRead, Closes

LEMMA HeadingsNext ==
    Structure /\ Structure' /\ SectionsOK /\ HeadingsOK /\ [Next]_vars => HeadingsOK'
<1> SUFFICES ASSUME Structure, Structure', SectionsOK, HeadingsOK, [Next]_vars
             PROVE  HeadingsOK'
  OBVIOUS
<1>1. HistoryOK /\ PageOK
  BY DEF Structure
<1>2. ASSUME NEW k, EndRead(k), k # "heading"
      PROVE  /\ UNCHANGED history
             /\ \A h \in Events("heading") : h \in Range(page)' <=> h \in Range(page)
  <2>1. UNCHANGED history
    BY <1>2 DEF EndRead, Closes
  <2>2. CASE page # <<>> /\ history[Last(page)].kind = k /\ page' = Front(page)
    <3>1. Range(page)' = Range(page) \ {Last(page)}
      BY <1>1, <2>1, <2>2, PagePop
    <3>2. Last(page) \notin Events("heading")
      BY <1>2, <2>2 DEF Events
    <3> QED BY <2>1, <3>1, <3>2
  <2>3. CASE UNCHANGED page
    BY <2>1, <2>3 DEF Range
  <2> QED BY <1>2, <2>2, <2>3 DEF EndRead, Closes
<1>3. ASSUME NEW tag \in NonProseTags, StartNonProse(tag)
      PROVE  HeadingsOK'
  BY <1>3, FitsElements, HeadingsOnPush DEF StartNonProse
<1>4. ASSUME NEW tag \in NonProseTags, EndNonProse(tag)
      PROVE  HeadingsOK'
  <2>1. /\ EndRead("nonprose") \/ StrayRead(tag)
        /\ UNCHANGED <<collecting, buffer, sections>>
    BY <1>4, EndNonProseIs
  <2>2. CASE EndRead("nonprose")
    BY <1>2, <2>1, <2>2, HeadingsOnEnd
  <2>3. CASE StrayRead(tag)
    BY <2>1, <2>3, FitsElements, HeadingsOnStray
  <2> QED BY <2>1, <2>2, <2>3
<1>5. ASSUME NEW id \in Ids \cup {NoId}, StartSection(id)
      PROVE  HeadingsOK'
  BY <1>5, FitsElements, HeadingsOnPush DEF StartSection
<1>6. CASE EndSection
  BY <1>2, <1>6, EndIs, HeadingsOnEnd DEF EndSection
<1>7. CASE UNCHANGED vars
  BY <1>7, HeadingsOnEnd DEF vars, parser, Range
<1> QED BY <1>3, <1>4, <1>5, <1>6, <1>7, HeadingStarts, HeadingEnds, HeadingReads DEF Next

LEMMA HeadingsInit == Init => HeadingsOK
<1> SUFFICES ASSUME Init PROVE HeadingsOK
  OBVIOUS
<1>1. /\ collecting = None /\ sections = <<>> /\ history = <<>> /\ page = <<>>
      /\ DOMAIN sections = {} /\ DOMAIN history = {} /\ DOMAIN page = {}
  BY DEF Init
<1>2. OpenHeadings = {} /\ \A id : ClosedHeadings(id) = {} /\ Listed(id) = {}
  BY <1>1 DEF OpenHeadings, ClosedHeadings, Listed, Range, Events
<1> QED BY <1>1, <1>2 DEF HeadingsOK, NamedByFirst

(* A section is listed exactly when a heading of its own with text in it   *)
(* has ended, and is named by the first of those, on every page.           *)
THEOREM HeadingsCorrect == Spec => []HeadingsNameTheirSection
<1>1. LevelsOK => SectionsOK
  BY DEF LevelsOK
<1>2. HeadingsOK => HeadingsNameTheirSection
  <2> SUFFICES ASSUME HeadingsOK, NEW id \in Ids
               PROVE  IF ClosedHeadings(id) = {} THEN Listed(id) = {}
                      ELSE /\ Cardinality(Listed(id)) = 1
                           /\ \A s \in Listed(id) :
                                  Range(s.title) = HeadingWords(Earliest(ClosedHeadings(id)))
    BY DEF HeadingsNameTheirSection, Listed
  <2>1. NamedByFirst(id)
    BY DEF HeadingsOK
  <2> QED BY <2>1, FS_Singleton DEF NamedByFirst
<1> QED BY <1>1, <1>2, HeadingsInit, HeadingsNext, LevelsInvariant, StructureKept, PTL DEF Spec

-----------------------------------------------------------------------------
(* Offsets.                                                                *)

(* Characters before the i-th of some joined words.                        *)
OffsetIn(ws, i) ==
    LET separators == {j \in 1..i - 1 : ws[j] = Space}
        before     == {j \in 1..i - 1 : ws[j] # Space}
    IN  Cardinality(separators) + WordLength * Cardinality(before)

LEMMA OffsetNumber ==
    ASSUME NEW ws, NEW i \in Nat
    PROVE  OffsetIn(ws, i) \in Nat
<1> DEFINE separators == {j \in 1..i - 1 : ws[j] = Space}
           before     == {j \in 1..i - 1 : ws[j] # Space}
<1>1. IsFiniteSet(separators) /\ IsFiniteSet(before)
  <2>1. IsFiniteSet(1..i - 1)
    BY FS_Interval
  <2>2. separators \in SUBSET (1..i - 1) /\ before \in SUBSET (1..i - 1)
    OBVIOUS
  <2> HIDE DEF separators, before
  <2> QED BY <2>1, <2>2, FS_Subset
<1>2. OffsetIn(ws, i) = Cardinality(separators) + WordLength * Cardinality(before)
  BY DEF OffsetIn
<1> HIDE DEF separators, before
<1>3. Cardinality(separators) \in Nat /\ Cardinality(before) \in Nat
  BY <1>1, FS_CardinalityType
<1>4. WordLength * Cardinality(before) \in Nat
  BY <1>3, WordLengthAssumption
<1> QED BY <1>2, <1>3, <1>4

LEMMA OffsetNext ==
    ASSUME NEW ws, NEW i \in Nat \ {0}
    PROVE  OffsetIn(ws, i + 1) = OffsetIn(ws, i) + (IF ws[i] = Space THEN 1 ELSE WordLength)
<1> DEFINE separators == {j \in 1..i - 1 : ws[j] = Space}
           before     == {j \in 1..i - 1 : ws[j] # Space}
           separators1 == {j \in 1..i : ws[j] = Space}
           before1     == {j \in 1..i : ws[j] # Space}
<1>1. IsFiniteSet(separators) /\ IsFiniteSet(before)
  <2>1. IsFiniteSet(1..i - 1)
    BY FS_Interval
  <2>2. separators \in SUBSET (1..i - 1) /\ before \in SUBSET (1..i - 1)
    OBVIOUS
  <2> HIDE DEF separators, before
  <2> QED BY <2>1, <2>2, FS_Subset
<1>2. /\ OffsetIn(ws, i) = Cardinality(separators) + WordLength * Cardinality(before)
      /\ OffsetIn(ws, i + 1) = Cardinality(separators1) + WordLength * Cardinality(before1)
  <2>1. (i + 1) - 1 = i
    OBVIOUS
  <2> QED BY <2>1 DEF OffsetIn
<1>3. 1..i = (1..i - 1) \cup {i} /\ i \notin 1..i - 1
  OBVIOUS
<1>4. i \notin separators /\ i \notin before
  OBVIOUS
<1>5. CASE ws[i] = Space
  <2>1. separators1 = separators \cup {i} /\ before1 = before
    BY <1>3, <1>5
  <2> HIDE DEF separators, before, separators1, before1
  <2>2. Cardinality(separators1) = Cardinality(separators) + 1
    BY <1>1, <1>4, <2>1, FS_AddElement
  <2>3. Cardinality(separators) \in Nat /\ WordLength * Cardinality(before) \in Int
    BY <1>1, FS_CardinalityType, WordLengthAssumption
  <2> QED BY <1>2, <1>5, <2>1, <2>2, <2>3
<1>6. CASE ws[i] # Space
  <2>1. separators1 = separators /\ before1 = before \cup {i}
    BY <1>3, <1>6
  <2> HIDE DEF separators, before, separators1, before1
  <2>2. Cardinality(before1) = Cardinality(before) + 1
    BY <1>1, <1>4, <2>1, FS_AddElement
  <2>3. Cardinality(separators) \in Nat /\ Cardinality(before) \in Nat
    BY <1>1, FS_CardinalityType
  <2>4. WordLength * Cardinality(before1) = WordLength * Cardinality(before) + WordLength
    BY <2>2, <2>3, WordLengthAssumption
  <2>5. WordLength * Cardinality(before) \in Int /\ WordLength \in Int
    BY <2>3, WordLengthAssumption
  <2> QED BY <1>2, <1>6, <2>1, <2>3, <2>4, <2>5
<1> QED BY <1>5, <1>6

LEMMA OffsetStays ==
    ASSUME NEW ws, NEW vs, NEW i \in Nat, \A j \in 1..i - 1 : vs[j] = ws[j]
    PROVE  OffsetIn(vs, i) = OffsetIn(ws, i)
<1>1. /\ {j \in 1..i - 1 : vs[j] = Space} = {j \in 1..i - 1 : ws[j] = Space}
      /\ {j \in 1..i - 1 : vs[j] # Space} = {j \in 1..i - 1 : ws[j] # Space}
  OBVIOUS
<1> QED BY <1>1 DEF OffsetIn

LEMMA OffsetZero == \A ws : OffsetIn(ws, 1) = 0
<1> TAKE ws
<1>1. {j \in 1..1 - 1 : ws[j] = Space} = {} /\ {j \in 1..1 - 1 : ws[j] # Space} = {}
  OBVIOUS
<1>2. WordLength * 0 = 0
  BY WordLengthAssumption
<1> QED BY <1>1, <1>2, FS_EmptySet DEF OffsetIn

Join(ws, word) == IF ws = <<>> THEN <<word>> ELSE Append(Append(ws, Space), word)

(* A word joined to the others: where it is, and how long they are now.    *)
LEMMA Joined ==
    ASSUME NEW ws \in Seq(Nat), NEW word \in Nat \ {0}, NEW vs,
           vs = Join(ws, word)
    PROVE  /\ vs \in Seq(Nat)
           /\ Len(vs) \in DOMAIN vs /\ vs[Len(vs)] = word
           /\ \A i \in DOMAIN ws : i \in DOMAIN vs /\ vs[i] = ws[i]
           /\ \A i \in DOMAIN vs : i \in DOMAIN ws \/ vs[i] = Space \/ i = Len(vs)
           /\ \A i \in DOMAIN ws : OffsetIn(vs, i) = OffsetIn(ws, i)
           /\ OffsetIn(vs, Len(vs)) = IF ws = <<>> THEN 0 ELSE OffsetIn(ws, Len(ws) + 1) + 1
           /\ OffsetIn(vs, Len(vs) + 1) = OffsetIn(vs, Len(vs)) + WordLength
<1>1. CASE ws = <<>>
  <2>1. /\ vs = <<word>> /\ Len(vs) = 1 /\ DOMAIN vs = {1} /\ vs[1] = word /\ DOMAIN ws = {}
        /\ vs \in Seq(Nat)
    BY <1>1 DEF Join
  <2>2. OffsetIn(vs, 1) = 0
    BY OffsetZero
  <2>3. OffsetIn(vs, 1 + 1) = 0 + WordLength
    BY <2>1, <2>2, OffsetNext DEF Space
  <2> QED BY <1>1, <2>1, <2>2, <2>3
<1>2. CASE ws # <<>>
  <2>1. /\ vs \in Seq(Nat) /\ Len(vs) = Len(ws) + 2 /\ Len(ws) \in Nat
        /\ DOMAIN ws = 1..Len(ws)
        /\ DOMAIN vs = DOMAIN ws \cup {Len(ws) + 1, Len(ws) + 2}
        /\ \A i \in DOMAIN ws : vs[i] = ws[i]
        /\ vs[Len(ws) + 1] = Space /\ vs[Len(ws) + 2] = word
    BY <1>2 DEF Space, Join
  <2>2. \A i \in 1..Len(ws) + 1 : OffsetIn(vs, i) = OffsetIn(ws, i)
    <3> TAKE i \in 1..Len(ws) + 1
    <3>1. i \in Nat /\ \A j \in 1..i - 1 : j \in DOMAIN ws
      BY <2>1
    <3>2. \A j \in 1..i - 1 : vs[j] = ws[j]
      BY <2>1, <3>1
    <3> QED BY <3>1, <3>2, OffsetStays
  <2>3. OffsetIn(vs, Len(ws) + 1) = OffsetIn(ws, Len(ws) + 1)
    BY <2>1, <2>2
  <2>4. OffsetIn(vs, (Len(ws) + 1) + 1) = OffsetIn(vs, Len(ws) + 1) + 1
    <3>1. Len(ws) + 1 \in Nat \ {0}
      BY <2>1
    <3>2. OffsetIn(vs, (Len(ws) + 1) + 1)
              = OffsetIn(vs, Len(ws) + 1) + (IF vs[Len(ws) + 1] = Space THEN 1 ELSE WordLength)
      BY ONLY <3>1, OffsetNext
    <3> QED BY <2>1, <3>2
  <2>5. OffsetIn(vs, (Len(ws) + 2) + 1) = OffsetIn(vs, Len(ws) + 2) + WordLength
    <3>1. Len(ws) + 2 \in Nat \ {0}
      BY <2>1
    <3>2. OffsetIn(vs, (Len(ws) + 2) + 1)
              = OffsetIn(vs, Len(ws) + 2) + (IF vs[Len(ws) + 2] = Space THEN 1 ELSE WordLength)
      BY ONLY <3>1, OffsetNext
    <3>3. vs[Len(ws) + 2] # Space
      BY <2>1 DEF Space
    <3> QED BY <3>2, <3>3
  <2>6. (Len(ws) + 1) + 1 = Len(ws) + 2 /\ Len(ws) + 2 \in DOMAIN vs
    BY <2>1
  <2>7. \A i \in DOMAIN ws : i \in DOMAIN vs /\ OffsetIn(vs, i) = OffsetIn(ws, i)
    BY <2>1, <2>2
  <2>8. \A i \in DOMAIN vs : i \in DOMAIN ws \/ vs[i] = Space \/ i = Len(vs)
    BY <2>1
  <2> QED BY <1>2, <2>1, <2>3, <2>4, <2>5, <2>6, <2>7, <2>8
<1> QED BY <1>1, <1>2

(* A word is read once and joined once.                                    *)
WordsOnce ==
    /\ \A e \in Events("word") : history[e].id \in 1..WordsRead
    /\ \A e, f \in Events("word") : history[e].id = history[f].id => e = f
    /\ \A i, j \in DOMAIN words : words[i] = words[j] /\ words[i] # Space => i = j

Lengths ==
    /\ length \in Nat
    /\ length = OffsetIn(words, Len(words) + 1)
    /\ \A i \in DOMAIN words : words[i] # Space => OffsetIn(words, i) < length

Starts == [offset : Nat, anchor : Ids]

(* A start is that of the section of its anchor, in the order they open.   *)
StartsInOrder ==
    /\ starts \in Seq(Starts)
    /\ \A k \in DOMAIN starts : starts[k].offset <= length
    /\ \A k \in DOMAIN starts : \E e \in Events("section") : history[e].id = starts[k].anchor
    /\ \A e \in Events("section") :
           history[e].id # NoId => \E k \in DOMAIN starts : starts[k].anchor = history[e].id
    /\ \A k, l \in DOMAIN starts : \A e, f \in Events("section") :
           k < l /\ history[e].id = starts[k].anchor /\ history[f].id = starts[l].anchor => e < f

(* A start is at or before a word in the body exactly when its section     *)
(* opened before the word was read.                                        *)
StartsPlaced ==
    \A k \in DOMAIN starts, i \in DOMAIN words :
        \A e \in Events("section"), w \in Events("word") :
            /\ history[e].id = starts[k].anchor
            /\ words[i] # Space
            /\ history[w].id = words[i]
            => (starts[k].offset <= OffsetIn(words, i) <=> e < w)

Placement == WordsOnce /\ Lengths /\ StartsInOrder /\ StartsPlaced

(* Nothing is read and no section starts.                                  *)
LEMMA PlacementKept ==
    ASSUME Placement, UNCHANGED <<words, length, starts>>,
           Events("section")' = Events("section"), Events("word")' = Events("word"),
           \A e \in Events("section") \cup Events("word") : history'[e] = history[e]
    PROVE  Placement'
<1>1. WordsOnce' /\ Lengths'
  BY DEF Placement, WordsOnce, Lengths, WordsRead
<1>2. StartsInOrder'
  BY DEF Placement, StartsInOrder
<1>3. StartsPlaced'
  BY DEF Placement, StartsPlaced
<1> QED BY <1>1, <1>2, <1>3 DEF Placement

LEMMA SectionPlaced ==
    ASSUME Structure, LevelsOK, BodyOK, Placement, NEW id \in Ids \cup {NoId}, StartSection(id)
    PROVE  Placement'
<1>1. HistoryOK /\ PageOK /\ Fits("section", id) /\ WordsOnce /\ Lengths /\ StartsInOrder /\ StartsPlaced
  BY FitsElements DEF Structure, Placement
<1>2. PICK n : n = Len(history) + 1
  OBVIOUS
<1>3. /\ Happens("section", id) /\ UNCHANGED <<words, length>>
      /\ starts' = IF id = NoId THEN starts
                   ELSE Append(starts, [offset |-> length, anchor |-> id])
      /\ \A e \in Events("section") : history[e].id = id => id = NoId
  BY <1>1, PagePush DEF StartSection
<1>4. /\ \A e \in DOMAIN history : history'[e] = history[e]
      /\ history'[n] = [kind |-> "section", id |-> id, within |-> Range(page)]
      /\ Events("section")' = Events("section") \cup {n}
      /\ Events("word")' = Events("word")
      /\ Events("section") \subseteq DOMAIN history /\ Events("word") \subseteq DOMAIN history
      /\ DOMAIN history = 1..Len(history) /\ Len(history) \in Nat
  BY <1>1, <1>2, <1>3, HistoryGrows, EventsGrow, NewEvent
<1>5. history'[n].id = id /\ \A e \in DOMAIN history : e < n /\ e \in Nat
  BY <1>2, <1>4
<1>6. WordsOnce'
  BY <1>1, <1>3, <1>4 DEF WordsOnce, WordsRead
<1>7. Lengths'
  BY <1>1, <1>3 DEF Lengths
<1>8. CASE id = NoId
  <2>1. UNCHANGED starts
    BY <1>3, <1>8
  <2>2. \A k \in DOMAIN starts : starts[k].anchor \in Ids /\ starts[k].anchor # NoId
    <3>1. NoId \notin Ids
      BY AnchorsAssumption DEF Ids
    <3>2. \A k \in DOMAIN starts : starts[k] \in Starts
      BY <1>1 DEF StartsInOrder
    <3> QED BY <3>1, <3>2 DEF Starts
  <2>3. StartsInOrder'
    <3>1. \A k \in DOMAIN starts : \E e \in Events("section")' : history'[e].id = starts[k].anchor
      <4> TAKE k \in DOMAIN starts
      <4>1. PICK e \in Events("section") : history[e].id = starts[k].anchor
        BY <1>1 DEF StartsInOrder
      <4> QED BY <1>4, <4>1
    <3>2. \A e \in Events("section")' : history'[e].id # NoId =>
              e \in Events("section") /\ history'[e].id = history[e].id
      BY <1>4, <1>5, <1>8
    <3>3. \A e \in Events("section")' :
              history'[e].id # NoId => \E k \in DOMAIN starts : starts[k].anchor = history'[e].id
      BY <1>1, <3>2 DEF StartsInOrder
    <3>4. ASSUME NEW k \in DOMAIN starts, NEW l \in DOMAIN starts,
                 NEW e \in Events("section")', NEW f \in Events("section")',
                 k < l, history'[e].id = starts[k].anchor, history'[f].id = starts[l].anchor
          PROVE  e < f
      BY <1>1, <2>2, <3>2, <3>4 DEF StartsInOrder
    <3> QED BY <1>1, <1>3, <2>1, <3>1, <3>3, <3>4 DEF StartsInOrder
  <2>4. StartsPlaced'
    BY <1>1, <1>3, <1>4, <1>5, <1>8, <2>1, <2>2 DEF StartsPlaced
  <2> QED BY <1>6, <1>7, <2>3, <2>4 DEF Placement
<1>9. CASE id # NoId
  <2>1. PICK s : s = [offset |-> length, anchor |-> id]
    OBVIOUS
  <2>2. /\ starts' = Append(starts, s) /\ s.offset = length /\ s.anchor = id
        /\ s \in Starts
    BY <1>1, <1>3, <1>9, <2>1 DEF Lengths, Starts
  <2>3. PICK m : m = Len(starts) + 1
    OBVIOUS
  <2>4. /\ starts' \in Seq(Starts)
        /\ DOMAIN starts' = DOMAIN starts \cup {m}
        /\ \A k \in DOMAIN starts : starts'[k] = starts[k]
        /\ starts'[m] = s
        /\ DOMAIN starts = 1..Len(starts) /\ Len(starts) \in Nat
    BY <1>1, <2>2, <2>3 DEF StartsInOrder
  <2>5. \A k \in DOMAIN starts : starts[k].anchor # id /\ k < m /\ k \in Nat
    BY <1>1, <1>3, <1>9, <2>3, <2>4 DEF StartsInOrder
  <2>6. \A e \in Events("section") : history[e].id # id
    BY <1>3, <1>9
  <2>7. StartsInOrder'
    <3>1. \A k \in DOMAIN starts' : starts'[k].offset <= length'
      BY <1>1, <1>3, <2>2, <2>4 DEF StartsInOrder, Lengths
    <3>2. \A k \in DOMAIN starts' : \E e \in Events("section")' : history'[e].id = starts'[k].anchor
      <4> TAKE k \in DOMAIN starts'
      <4>1. CASE k \in DOMAIN starts
        <5>1. PICK e \in Events("section") : history[e].id = starts[k].anchor
          BY <1>1, <4>1 DEF StartsInOrder
        <5> QED BY <1>4, <2>4, <4>1, <5>1
      <4>2. CASE k = m
        BY <1>4, <1>5, <2>2, <2>4, <4>2
      <4> QED BY <2>4, <4>1, <4>2
    <3>3. \A e \in Events("section")' :
              history'[e].id # NoId => \E k \in DOMAIN starts' : starts'[k].anchor = history'[e].id
      <4> SUFFICES ASSUME NEW e \in Events("section")', history'[e].id # NoId
                   PROVE  \E k \in DOMAIN starts' : starts'[k].anchor = history'[e].id
        OBVIOUS
      <4>1. CASE e \in Events("section")
        <5>1. PICK k \in DOMAIN starts : starts[k].anchor = history[e].id
          BY <1>1, <1>4, <4>1 DEF StartsInOrder
        <5> QED BY <1>4, <2>4, <4>1, <5>1
      <4>2. CASE e = n
        BY <1>5, <2>2, <2>4, <4>2
      <4> QED BY <1>4, <4>1, <4>2
    <3>4. ASSUME NEW k \in DOMAIN starts', NEW l \in DOMAIN starts',
                 NEW e \in Events("section")', NEW f \in Events("section")',
                 k < l, history'[e].id = starts'[k].anchor, history'[f].id = starts'[l].anchor
          PROVE  e < f
      <4>1. k \in DOMAIN starts
        BY <2>3, <2>4, <3>4
      <4>2. e \in Events("section")
        BY <1>4, <1>5, <2>4, <2>5, <3>4, <4>1
      <4>3. CASE l = m
        <5>1. f = n
          BY <1>4, <2>2, <2>4, <2>6, <3>4, <4>3
        <5> QED BY <1>4, <1>5, <4>2, <5>1
      <4>4. CASE l \in DOMAIN starts
        <5>1. f \in Events("section")
          BY <1>4, <1>5, <2>4, <2>5, <3>4, <4>4
        <5> QED BY <1>1, <1>4, <2>4, <3>4, <4>1, <4>2, <4>4, <5>1 DEF StartsInOrder
      <4> QED BY <2>4, <4>3, <4>4
    <3> QED BY <2>4, <3>1, <3>2, <3>3, <3>4 DEF StartsInOrder
  <2>8. StartsPlaced'
    <3> SUFFICES ASSUME NEW k \in DOMAIN starts', NEW i \in DOMAIN words,
                        NEW e \in Events("section")', NEW w \in Events("word"),
                        history'[e].id = starts'[k].anchor, words[i] # Space,
                        history'[w].id = words[i]
                 PROVE  starts'[k].offset <= OffsetIn(words, i) <=> e < w
      BY <1>3, <1>4 DEF StartsPlaced
    <3>1. history[w].id = words[i] /\ w < n /\ w \in Nat /\ n \in Nat
      BY <1>2, <1>4, <1>5
    <3>2. CASE k \in DOMAIN starts
      <4>1. e \in Events("section") /\ history[e].id = starts[k].anchor
        BY <1>4, <1>5, <2>4, <2>5, <3>2
      <4> QED BY <1>1, <2>4, <3>1, <3>2, <4>1 DEF StartsPlaced
    <3>3. CASE k = m
      <4>1. e = n /\ starts'[k].offset = length
        BY <1>4, <2>2, <2>4, <2>6, <3>3
      <4>2. OffsetIn(words, i) < length /\ length \in Nat /\ OffsetIn(words, i) \in Nat
        <5>1. i \in Nat
          BY DEF BodyOK, WordsOK
        <5> QED BY <1>1, <5>1, OffsetNumber DEF Lengths
      <4>3. ~ (length <= OffsetIn(words, i)) /\ ~ (n < w)
        BY <3>1, <4>2
      <4> QED BY <4>1, <4>3
    <3> QED BY <2>4, <3>2, <3>3
  <2> QED BY <1>6, <1>7, <2>7, <2>8 DEF Placement
<1> QED BY <1>8, <1>9

LEMMA StartsKept ==
    ASSUME StartsInOrder, UNCHANGED starts, Events("section")' = Events("section"),
           \A e \in Events("section") : history'[e] = history[e],
           \A k \in DOMAIN starts : starts[k].offset <= length'
    PROVE  StartsInOrder'
BY DEF StartsInOrder

LEMMA WordPlaced ==
    ASSUME Structure, BodyOK, Placement, Data
    PROVE  Placement'
<1>1. HistoryOK /\ PageOK /\ WordsOnce /\ Lengths /\ StartsInOrder /\ StartsPlaced
  BY DEF Structure, Placement
<1>2. PICK n : n = Len(history) + 1
  OBVIOUS
<1>3. PICK word : word = WordsRead + 1
  OBVIOUS
<1>4. /\ Happens("word", word) /\ Fits("word", word) /\ word \in Nat \ {0}
      /\ WordsRead \in Nat /\ UNCHANGED starts
  BY <1>1, <1>3, NewEvent, FitsElements DEF Data
<1>5. /\ \A e \in DOMAIN history : history'[e] = history[e]
      /\ history'[n] = [kind |-> "word", id |-> word, within |-> Range(page)]
      /\ Events("section")' = Events("section")
      /\ Events("word")' = Events("word") \cup {n}
      /\ Events("section") \subseteq DOMAIN history /\ Events("word") \subseteq DOMAIN history
      /\ DOMAIN history = 1..Len(history) /\ Len(history) \in Nat /\ n \notin DOMAIN history
  BY <1>1, <1>2, <1>4, HistoryGrows, EventsGrow, NewEvent
<1>6. history'[n].id = word /\ \A e \in DOMAIN history : e < n /\ e \in Nat
  BY <1>2, <1>5
<1>7. WordsRead' = word
  BY <1>1, <1>3, <1>5, OneMoreWord
<1>8. \A e \in Events("word") : history[e].id \in 1..WordsRead /\ history[e].id # word
  BY <1>1, <1>3, <1>4 DEF WordsOnce
<1>9. \A i \in DOMAIN words : words[i] # word
  <2>1. word # Space
    BY <1>4 DEF Space
  <2>2. word \notin Body
    BY <1>8 DEF BodyOK
  <2> QED BY <2>1, <2>2 DEF Body, Range
<1>10. /\ \A e \in Events("word")' : history'[e].id \in 1..WordsRead'
       /\ \A e, f \in Events("word")' : history'[e].id = history'[f].id => e = f
  <2>1. word \in 1..word /\ \A i \in 1..WordsRead : i \in 1..word
    BY <1>3, <1>4
  <2>2. \A e \in Events("word")' : history'[e].id \in 1..WordsRead'
    BY <1>5, <1>6, <1>7, <1>8, <2>1
  <2>3. \A e, f \in Events("word")' : history'[e].id = history'[f].id => e = f
    BY <1>1, <1>5, <1>6, <1>8 DEF WordsOnce
  <2> QED BY <2>2, <2>3
<1>11. \A e \in Events("section") : history'[e] = history[e] /\ e < n
  BY <1>5, <1>6
<1>12. CASE UNCHANGED <<words, length>>
  <2>1. \A i \in DOMAIN words, w \in Events("word")' :
            history'[w].id = words[i] => w \in Events("word") /\ history[w].id = words[i]
    BY <1>5, <1>6, <1>9
  <2>2. StartsPlaced'
    BY <1>1, <1>4, <1>5, <1>11, <1>12, <2>1 DEF StartsPlaced
  <2>3. WordsOnce' /\ Lengths'
    BY <1>1, <1>10, <1>12 DEF WordsOnce, Lengths
  <2>4. StartsInOrder'
    <3>1. length' = length
      BY <1>12
    <3>2. \A k \in DOMAIN starts : starts[k].offset <= length'
      BY <1>1, <3>1 DEF StartsInOrder
    <3> QED BY <1>1, <1>4, <1>5, <1>11, <3>2, StartsKept
  <2> QED BY <2>2, <2>3, <2>4 DEF Placement
<1>13. CASE /\ words' = IF words = <<>> THEN <<word>> ELSE Append(Append(words, Space), word)
            /\ length' = IF words = <<>> THEN WordLength ELSE length + 1 + WordLength
  <2>1. words \in Seq(Nat) /\ DOMAIN words \subseteq Nat
    BY DEF BodyOK, WordsOK
  <2>2. PICK p : p = Len(words')
    OBVIOUS
  <2>0. PICK vs : vs = words'
    OBVIOUS
  <2>12. vs = Join(words, word)
    BY <1>13, <2>0 DEF Join
  <2>13. /\ vs \in Seq(Nat)
         /\ Len(vs) \in DOMAIN vs /\ vs[Len(vs)] = word
         /\ \A i \in DOMAIN words : i \in DOMAIN vs /\ vs[i] = words[i]
         /\ \A i \in DOMAIN vs : i \in DOMAIN words \/ vs[i] = Space \/ i = Len(vs)
         /\ \A i \in DOMAIN words : OffsetIn(vs, i) = OffsetIn(words, i)
         /\ OffsetIn(vs, Len(vs)) = IF words = <<>> THEN 0 ELSE OffsetIn(words, Len(words) + 1) + 1
         /\ OffsetIn(vs, Len(vs) + 1) = OffsetIn(vs, Len(vs)) + WordLength
    <3>1. words \in Seq(Nat) /\ word \in Nat \ {0}
      BY <1>4, <2>1
    <3> QED BY <2>12, <3>1, Joined
  <2>3. /\ words' \in Seq(Nat) /\ p \in DOMAIN words' /\ words'[p] = word
        /\ \A i \in DOMAIN words : i \in DOMAIN words' /\ words'[i] = words[i]
        /\ \A i \in DOMAIN words' : i \in DOMAIN words \/ words'[i] = Space \/ i = p
        /\ \A i \in DOMAIN words : OffsetIn(words', i) = OffsetIn(words, i)
        /\ OffsetIn(words', p) = IF words = <<>> THEN 0 ELSE OffsetIn(words, Len(words) + 1) + 1
        /\ OffsetIn(words', p + 1) = OffsetIn(words', p) + WordLength
    BY <2>0, <2>2, <2>13
  <2>4. length \in Nat /\ length = OffsetIn(words, Len(words) + 1)
    BY <1>1 DEF Lengths
  <2>5. words = <<>> => length = 0
    <3>1. ASSUME words = <<>> PROVE Len(words) + 1 = 1
      BY <3>1
    <3> QED BY <2>4, <3>1, OffsetZero
  <2>6. /\ length' = OffsetIn(words', p) + WordLength
        /\ length <= OffsetIn(words', p)
        /\ OffsetIn(words', p) \in Nat
    <3>1. words = <<>> => /\ length' = 0 + WordLength /\ OffsetIn(words', p) = 0
                          /\ length = 0
      BY <1>13, <2>3, <2>4, <2>5, WordLengthAssumption
    <3>2. words # <<>> => /\ length' = (length + 1) + WordLength
                          /\ OffsetIn(words', p) = length + 1
      BY <1>13, <2>3, <2>4, WordLengthAssumption
    <3> QED BY <2>4, <3>1, <3>2
  <2>7. /\ length' \in Nat /\ length < length' /\ OffsetIn(words', p) < length'
    BY <2>4, <2>6, WordLengthAssumption
  <2>8. Lengths'
    <3>1. \A i \in DOMAIN words : words[i] # Space =>
              OffsetIn(words, i) < length /\ OffsetIn(words, i) \in Nat
      BY <1>1, <2>1, OffsetNumber DEF Lengths
    <3>2. \A i \in DOMAIN words' : words'[i] # Space => OffsetIn(words', i) < length'
      <4> TAKE i \in DOMAIN words'
      <4>1. CASE i \in DOMAIN words
        BY <2>3, <2>4, <2>7, <3>1, <4>1
      <4>2. CASE i = p
        BY <2>7, <4>2
      <4> QED BY <2>3, <4>1, <4>2
    <3> QED BY <2>2, <2>3, <2>6, <2>7, <3>2 DEF Lengths
  <2>9. WordsOnce'
    <3>1. \A i, j \in DOMAIN words' : words'[i] = words'[j] /\ words'[i] # Space => i = j
      <4>1. ASSUME NEW i \in DOMAIN words', words'[i] # Space
            PROVE  /\ i \in DOMAIN words => words'[i] # word
                   /\ i \notin DOMAIN words => i = p
        BY <1>9, <2>3, <4>1
      <4> QED BY <1>1, <2>3, <4>1 DEF WordsOnce
    <3> QED BY <1>10, <3>1 DEF WordsOnce
  <2>10. StartsInOrder'
    <3>1. \A k \in DOMAIN starts : starts[k].offset <= length'
      <4> TAKE k \in DOMAIN starts
      <4>1. starts[k].offset \in Nat
        <5>1. starts[k] \in Starts
          BY <1>1 DEF StartsInOrder
        <5> QED BY <5>1 DEF Starts
      <4>2. starts[k].offset <= length
        BY <1>1 DEF StartsInOrder
      <4> QED BY <2>4, <2>7, <4>1, <4>2
    <3> QED BY <1>1, <1>4, <1>5, <1>11, <3>1, StartsKept
  <2>11. StartsPlaced'
    <3> SUFFICES ASSUME NEW k \in DOMAIN starts, NEW i \in DOMAIN words',
                        NEW e \in Events("section"), NEW w \in Events("word")',
                        history'[e].id = starts[k].anchor, words'[i] # Space,
                        history'[w].id = words'[i]
                 PROVE  starts[k].offset <= OffsetIn(words', i) <=> e < w
      BY <1>4, <1>5 DEF StartsPlaced
    <3>1. history[e].id = starts[k].anchor
      BY <1>11
    <3>2. CASE i \in DOMAIN words
      <4>1. words'[i] = words[i] /\ words[i] # word
        BY <1>9, <2>3, <3>2
      <4>2. w \in Events("word") /\ history[w].id = words[i]
        BY <1>5, <1>6, <4>1
      <4> QED BY <1>1, <2>3, <3>1, <3>2, <4>1, <4>2 DEF StartsPlaced
    <3>3. CASE i = p
      <4>1. w = n
        BY <1>5, <1>8, <2>3, <3>3
      <4>2. starts[k].offset \in Nat
        <5>1. starts[k] \in Starts
          BY <1>1 DEF StartsInOrder
        <5> QED BY <5>1 DEF Starts
      <4>3. starts[k].offset <= length
        BY <1>1 DEF StartsInOrder
      <4>4. starts[k].offset <= OffsetIn(words', p)
        BY <2>4, <2>6, <4>2, <4>3
      <4> QED BY <1>11, <3>3, <4>1, <4>4
    <3> QED BY <2>3, <3>2, <3>3
  <2> QED BY <2>8, <2>9, <2>10, <2>11 DEF Placement
<1>14. \/ UNCHANGED <<words, length>>
       \/ /\ words' = IF words = <<>> THEN <<word>> ELSE Append(Append(words, Space), word)
          /\ length' = IF words = <<>> THEN WordLength ELSE length + 1 + WordLength
  BY <1>3 DEF Data
<1> QED BY <1>12, <1>13, <1>14

LEMMA PlacementNext ==
    Structure /\ LevelsOK /\ BodyOK /\ Placement /\ [Next]_vars => Placement'
<1> SUFFICES ASSUME Structure, LevelsOK, BodyOK, Placement, [Next]_vars PROVE Placement'
  OBVIOUS
<1>1. HistoryOK /\ PageOK
  BY DEF Structure
<1>2. ASSUME NEW k, NEW id, Fits(k, id), k \notin {"section", "word"}, Happens(k, id),
             UNCHANGED <<words, length, starts>>
      PROVE  Placement'
  <2>1. /\ \A e \in DOMAIN history : history'[e] = history[e]
        /\ Events("section")' = Events("section") /\ Events("word")' = Events("word")
        /\ Events("section") \cup Events("word") \subseteq DOMAIN history
    BY <1>1, <1>2, HistoryGrows, EventsGrow, NewEvent
  <2> QED BY <1>2, <2>1, PlacementKept
<1>3. ASSUME UNCHANGED <<history, words, length, starts>>
      PROVE  Placement'
  BY <1>3, PlacementKept DEF Events
<1>4. ASSUME NEW tag \in NonProseTags, StartNonProse(tag)
      PROVE  Placement'
  BY <1>2, <1>4, FitsElements DEF StartNonProse, Opens
<1>5. CASE StartHeading
  BY <1>2, <1>5, FitsElements DEF StartHeading, Opens
<1>6. CASE EndSection \/ EndHeading
  BY <1>3, <1>6 DEF EndSection, EndHeading, Ends, Closes
<1>8. ASSUME NEW tag \in NonProseTags, EndNonProse(tag)
      PROVE  Placement'
  <2>1. /\ EndRead("nonprose") \/ StrayRead(tag)
        /\ UNCHANGED <<words, length, starts>>
    BY <1>8, EndNonProseIs
  <2>2. CASE EndRead("nonprose")
    BY <1>3, <2>1, <2>2 DEF EndRead, Closes
  <2>3. CASE StrayRead(tag)
    BY <1>2, <2>1, <2>3, FitsElements DEF StrayRead
  <2> QED BY <2>1, <2>2, <2>3
<1>7. CASE UNCHANGED vars
  BY <1>3, <1>7 DEF vars, parser
<1> QED BY <1>4, <1>5, <1>6, <1>7, <1>8, SectionPlaced, WordPlaced DEF Next

LEMMA PlacementInit == Init => Placement
<1> SUFFICES ASSUME Init PROVE Placement
  OBVIOUS
<1>1. /\ history = <<>> /\ words = <<>> /\ starts = <<>> /\ length = 0
      /\ DOMAIN history = {} /\ DOMAIN words = {} /\ DOMAIN starts = {} /\ Len(words) + 1 = 1
  BY DEF Init
<1>2. OffsetIn(words, Len(words) + 1) = 0
  BY <1>1, OffsetZero
<1>3. WordsOnce /\ StartsInOrder /\ StartsPlaced
  BY <1>1 DEF WordsOnce, StartsInOrder, StartsPlaced, Events
<1> QED BY <1>1, <1>2, <1>3 DEF Placement, Lengths

LEMMA PlacementInvariant == Spec => [](Structure /\ LevelsOK /\ BodyOK /\ Placement)
BY PlacementInit, PlacementNext, BodyInit, BodyNext, LevelsInvariant, StructureKept, PTL DEF Spec

(* A word of the body is located in the linkable section opened last       *)
(* before it was read, and nowhere if none was.                            *)
THEOREM LocationsCorrect == Spec => []LocateFollowsReading
<1>1. ASSUME Structure, LevelsOK, BodyOK, Placement PROVE LocateFollowsReading
  <2> SUFFICES ASSUME NEW word \in Body
               PROVE  LET before == OpenedBefore(EventOf(word))
                      IN  Locate(OffsetOf(word))
                              = IF before = {} THEN None ELSE history[Latest(before)].id
    BY DEF LocateFollowsReading
  <2>1. WordsOnce /\ StartsInOrder /\ StartsPlaced /\ SectionEvents /\ HistoryOK
    BY <1>1 DEF Placement, LevelsOK, Structure
  <2>2. PICK i \in DOMAIN words : words[i] = word /\ words[i] # Space
    BY DEF Body, Range
  <2>3. OffsetOf(word) = OffsetIn(words, i)
    <3>1. \A j \in DOMAIN words : words[j] = word => j = i
      BY <2>1, <2>2 DEF WordsOnce
    <3>2. (CHOOSE j \in DOMAIN words : words[j] = word) = i
      BY <2>2, <3>1
    <3> QED BY <3>2 DEF OffsetOf, OffsetAt, OffsetIn
  <2>4. PICK w \in Events("word") : history[w].id = word
    BY <1>1 DEF BodyOK
  <2>5. EventOf(word) = w
    BY <2>1, <2>4 DEF WordsOnce, EventOf
  <2> DEFINE opened  == {e \in Events("section") : e < w /\ history[e].id \in Titled}
             started == {k \in Linked : starts[k].offset <= OffsetIn(words, i)}
  <2>6. /\ OpenedBefore(EventOf(word)) = opened
        /\ Locate(OffsetOf(word)) = IF started = {} THEN None ELSE starts[Latest(started)].anchor
    BY <2>3, <2>5 DEF OpenedBefore, Locate
  <2>7. NoId \notin Titled
    <3>1. NoId \notin Ids
      BY AnchorsAssumption DEF Ids
    <3>2. \A j \in DOMAIN sections : sections[j] \in Titles
      BY <1>1 DEF LevelsOK, SectionsOK
    <3>3. \A j \in Kept : sections[j].anchor \in Ids
      BY <3>2 DEF Kept, Titles
    <3> QED BY <3>1, <3>3 DEF Titled
  <2>8. \A k \in DOMAIN starts, e \in Events("section") :
            history[e].id = starts[k].anchor =>
                (starts[k].offset <= OffsetIn(words, i) <=> e < w)
    BY <2>1, <2>2, <2>4 DEF StartsPlaced
  <2>9. ASSUME NEW k \in started
        PROVE  \E e \in opened : history[e].id = starts[k].anchor
    <3>1. k \in DOMAIN starts /\ starts[k].anchor \in Titled
          /\ starts[k].offset <= OffsetIn(words, i)
      BY DEF Linked
    <3>2. PICK e \in Events("section") : history[e].id = starts[k].anchor
      BY <2>1, <3>1 DEF StartsInOrder
    <3> QED BY <2>8, <3>1, <3>2
  <2>10. ASSUME NEW e \in opened
         PROVE  \E k \in started : starts[k].anchor = history[e].id
    <3>1. PICK k \in DOMAIN starts : starts[k].anchor = history[e].id
      BY <2>1, <2>7 DEF StartsInOrder
    <3> QED BY <2>8, <3>1 DEF Linked
  <2>11. started \subseteq 1..Len(starts) /\ Len(starts) \in Nat
    BY <2>1 DEF StartsInOrder, Linked
  <2>12. opened \subseteq 1..Len(history) /\ Len(history) \in Nat
    BY <2>1, NewEvent
  <2>13. \A e, f \in opened : history[e].id = history[f].id => e = f
    BY <2>1, <2>7 DEF SectionEvents
  <2>14. \A k, l \in started, e, f \in opened :
             k < l /\ history[e].id = starts[k].anchor /\ history[f].id = starts[l].anchor => e < f
    <3>1. \A k \in started : k \in DOMAIN starts
      BY DEF Linked
    <3> QED BY <2>1, <3>1 DEF StartsInOrder
  <2> HIDE DEF opened, started
  <2>15. started = {} <=> opened = {}
    BY <2>9, <2>10
  <2>16. ASSUME started # {}
         PROVE  starts[Latest(started)].anchor = history[Latest(opened)].id
    <3>1. PICK k : k = Latest(started)
      OBVIOUS
    <3>2. k \in started /\ \A l \in started : l <= k
      BY <2>11, <2>16, <3>1, LatestOne
    <3>3. PICK e \in opened : history[e].id = starts[k].anchor
      BY <2>9, <3>2
    <3>4. ASSUME NEW f \in opened PROVE f <= e
      <4>1. PICK l \in started : starts[l].anchor = history[f].id
        BY <2>10
      <4>2. l = k \/ l < k
        BY <2>11, <3>2, <4>1
      <4>3. l = k => f = e
        BY <2>13, <3>3, <4>1
      <4>4. l < k => f < e
        BY <2>14, <3>2, <3>3, <4>1
      <4>5. e \in Nat /\ f \in Nat
        BY <2>12
      <4> QED BY <4>2, <4>3, <4>4, <4>5
    <3>5. Latest(opened) \in opened /\ \A f \in opened : f <= Latest(opened)
      BY <2>12, <3>3, LatestOne
    <3>6. Latest(opened) = e
      <4>1. PICK m : m = Latest(opened)
        OBVIOUS
      <4>2. m \in opened /\ e <= m /\ m <= e
        BY <3>4, <3>5, <4>1
      <4>3. m \in Nat /\ e \in Nat
        BY <2>12, <4>2
      <4> QED BY <4>1, <4>2, <4>3
    <3> QED BY <3>1, <3>3, <3>6
  <2> QED BY <2>6, <2>15, <2>16
<1> QED BY <1>1, PlacementInvariant, PTL
=============================================================================
