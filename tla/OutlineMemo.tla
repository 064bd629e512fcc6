----------------------------- MODULE OutlineMemo -----------------------------
(***************************************************************************)
(* What get_document may rely on when it asks for a document's outline:    *)
(* an answer that is the document's own outline or the empty one, from a   *)
(* memo that holds at most Capacity documents and forgets at most one      *)
(* other document per lesson, and only when it is full.  Nothing is said   *)
(* about which document is forgotten: that is OutlineCache's business.     *)
(***************************************************************************)
EXTENDS Naturals, FiniteSets

CONSTANTS
    Docs,       \* Solr document ids
    Getters,    \* concurrent callers of OutlineFetcher.get
    Capacity,   \* documents the memo may hold
    NoOutline,  \* the empty outline
    Absent,     \* "not in the memo"
    None, Raised

VARIABLES
    memo,    \* memo[d]: the outline remembered for d, or Absent
    asking,  \* asking[g]: the document g waits for, or None
    answer   \* answer[g]: what g's last call returned, Raised, or None

vars == <<memo, asking, answer>>

Known == {d \in Docs : memo[d] # Absent}

Init ==
    /\ memo = [d \in Docs |-> Absent]
    /\ asking = [g \in Getters |-> None]
    /\ answer = [g \in Getters |-> None]

(* A caller is answered at once: with what is remembered, or, where there  *)
(* is no mirror to ask, with the empty outline.                            *)
AnswerNow(g, d) ==
    /\ asking[g] = None
    /\ answer' = [answer EXCEPT ![g] =
                    IF memo[d] = Absent THEN NoOutline ELSE memo[d]]
    /\ UNCHANGED <<memo, asking>>

Ask(g, d) ==
    /\ asking[g] = None
    /\ memo[d] = Absent
    /\ asking' = [asking EXCEPT ![g] = d]
    /\ answer' = [answer EXCEPT ![g] = None]
    /\ UNCHANGED memo

(* The caller learns what the mirror said.  A memo that was full forgets   *)
(* one other document when the lesson is about a document it did not hold. *)
Learn(g, outline, forgotten) ==
    /\ asking[g] # None
    /\ outline \in {asking[g], NoOutline}
    /\ forgotten \subseteq Known \ {asking[g]}
    /\ IF memo[asking[g]] = Absent /\ Cardinality(Known) = Capacity
       THEN \E d \in Docs : forgotten = {d}
       ELSE forgotten = {}
    /\ memo' = [d \in Docs |-> IF d = asking[g] THEN outline
                               ELSE IF d \in forgotten THEN Absent
                               ELSE memo[d]]
    /\ answer' = [answer EXCEPT ![g] = outline]
    /\ asking' = [asking EXCEPT ![g] = None]

(* The caller is cancelled, or the request fails in a way nobody maps to   *)
(* the empty outline: nothing is learnt.                                   *)
GiveUp(g) ==
    /\ asking[g] # None
    /\ answer' = [answer EXCEPT ![g] = Raised]
    /\ asking' = [asking EXCEPT ![g] = None]
    /\ UNCHANGED memo

Settle(g) ==
    \/ \E outline \in Docs \cup {NoOutline}, forgotten \in SUBSET Docs :
          Learn(g, outline, forgotten)
    \/ GiveUp(g)

Next ==
    \E g \in Getters :
        \/ \E d \in Docs : AnswerNow(g, d) \/ Ask(g, d)
        \/ Settle(g)

SafeSpec == Init /\ [][Next]_vars

Spec == SafeSpec /\ \A g \in Getters : WF_vars(Settle(g))
=============================================================================
