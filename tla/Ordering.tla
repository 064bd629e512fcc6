------------------------------ MODULE Ordering -------------------------------
(***************************************************************************)
(* Putting the elements of a finite set in order, and the elements of a    *)
(* sequence that are kept, in the order they have there.                   *)
(***************************************************************************)
EXTENDS Integers, FiniteSets

(* The elements of S in a strict order: each comes after as many as are    *)
(* before it.                                                              *)
Ranked(S, Before(_, _)) ==
    [n \in 1..Cardinality(S) |->
        CHOOSE x \in S : Cardinality({y \in S : Before(y, x)}) = n - 1]

Less(m, n) == m < n

Select(s, kept) ==
    LET order == Ranked(kept, Less)
    IN  [n \in DOMAIN order |-> s[order[n]]]
=============================================================================
