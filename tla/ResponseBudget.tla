--------------------------- MODULE ResponseBudget ----------------------------
(***************************************************************************)
(* The character budgets (content.py, portal.py, tools/document.py): which *)
(* of the results of a search, passages of a document or sections of an    *)
(* outline are shown when they do not all fit.                             *)
(*                                                                         *)
(* A text is represented by its length.  The results and the outline grow  *)
(* one element at a time; every prefix is an input of the functions below, *)
(* and the properties hold of every state, for every budget.               *)
(***************************************************************************)
EXTENDS Ordering, Sequences, SequencesExt, Functions

CONSTANTS
    Sizes,            \* lengths of a formatted result or an outline line
    Levels,           \* nesting levels of a section
    MaxResults,       \* bound: results of a search
    MaxEntries,       \* bound: sections of an outline
    MaxBudget,        \* bound: budgets considered
    SeparatorLength,  \* "\n\n---\n\n" has 7 characters
    HeaderLength,     \* characters of the passages' header
    NoticeLength,     \* characters of a truncation message
    WarningLength,    \* characters of _DEPRECATION_WARNING
    DOCUMENTATION_MAX_CHARS

Signals == {"replacement", "deprecated", "eol"}
Budgets == 1..MaxBudget

ASSUME LengthsAssumption ==
    /\ Sizes \subseteq Nat \ {0}
    /\ {SeparatorLength, HeaderLength, NoticeLength, WarningLength,
        DOCUMENTATION_MAX_CHARS} \subseteq Nat \ {0}
ASSUME LevelsAssumption == Levels \subseteq Nat \ {0} /\ 1 \in Levels
ASSUME BudgetsAssumption == MaxBudget \in Nat

VARIABLES
    results,  \* the formatted results, best first: [rank, size, signals]
    entries   \* the sections of an outline: [level, size]

vars == <<results, entries>>

Lengths(s) == [i \in DOMAIN s |-> s[i].size]
Lower(m, n) == IF m < n THEN m ELSE n

-----------------------------------------------------------------------------
(* _select_within_budget: how many of the results are shown, their         *)
(* characters, whether the last one is cut and whether a notice follows.   *)

Truncated(size, max) ==
    [included |-> 1, chars |-> Lower(size, max), cut |-> size > max, notice |-> size > max]

(* What the next result takes, its separator included.                     *)
Cost(taken, size) == size + IF taken.included = 0 THEN 0 ELSE SeparatorLength

Include(taken, size) ==
    [taken EXCEPT !.included = @ + 1, !.chars = @ + Cost(taken, size)]

(* Mutant: a result that does not fit is skipped and later ones are tried. *)
TakeGreedily(taken, size, max) ==
    IF taken.chars + Cost(taken, size) > max THEN taken ELSE Include(taken, size)

(* The loop is left at the first result that does not fit. *)
Take(taken, size, max) ==
    IF taken.over \/ taken.chars + Cost(taken, size) > max
    THEN [taken EXCEPT !.over = TRUE]
    ELSE Include(taken, size)

Taken(sizes, max) ==
    LET taken[n \in 0..Len(sizes)] ==
            IF n = 0 THEN [included |-> 0, chars |-> 0, over |-> FALSE]
            ELSE Take(taken[n - 1], sizes[n], max)
    IN  taken[Len(sizes)]

SelectWithinBudget(sizes, max) ==
    LET taken == Taken(sizes, max)
    IN  IF Len(sizes) = 1 \/ taken.included = 0 THEN Truncated(sizes[1], max)
        ELSE [included |-> taken.included, chars |-> taken.chars, cut |-> FALSE,
              notice |-> taken.included < Len(sizes)]

Length(selection) ==
    selection.chars + IF selection.notice THEN NoticeLength ELSE 0

-----------------------------------------------------------------------------
(* _format_portal_results, for a search that found something. *)

SortKey(result) ==
    CASE "eol" \in result.signals -> 2
      [] "eol" \notin result.signals /\ "deprecated" \in result.signals -> 0
      [] result.signals = {"replacement"} -> -1
      [] result.signals = {} -> 1

(* list.sort is stable: the search's order decides among equals.           *)
Outranks(a, b) ==
    \/ SortKey(a) < SortKey(b)
    \/ SortKey(a) = SortKey(b) /\ a.rank < b.rank

Sorted(found) == Ranked(Range(found), Outranks)

(* Mutant: sorted after the cut. *)
ShownUnsorted(found, max) ==
    Sorted(SubSeq(found, 1, SelectWithinBudget(Lengths(found), max).included))

(* The results an answer shows, in its order. *)
Shown(found, max) ==
    SubSeq(Sorted(found), 1, SelectWithinBudget(Lengths(Sorted(found)), max).included)

AnswerLength(found, hasDeprecation, max) ==
    Length(SelectWithinBudget(Lengths(Sorted(found)), max))
        + IF hasDeprecation \/ \E i \in DOMAIN found : SortKey(found[i]) <= 0
          THEN WarningLength ELSE 0

-----------------------------------------------------------------------------
(* Mutant: the header is not part of the budget. *)
PassagesBudgetHeadless(max, current) == Lower(max, DOCUMENTATION_MAX_CHARS) - current

(* What _format_document_passages has left after the metadata and header.  *)
PassagesBudget(max, current) ==
    Lower(max, DOCUMENTATION_MAX_CHARS) - current - HeaderLength

(* The characters of the passages a document shows, their notice aside.    *)
PassageChars(sizes, max, current) ==
    LET remaining == PassagesBudget(max, current)
    IN  IF remaining <= 0 THEN 0
        ELSE HeaderLength + SelectWithinBudget(sizes, remaining).chars

-----------------------------------------------------------------------------
(* The outline of a documentation page. *)

Width(lines) == SumFunction([i \in DOMAIN lines |-> lines[i].size + 3])

UpTo(outline, depth) == Select(outline, {i \in DOMAIN outline : outline[i].level <= depth})

FullDepth(outline) ==
    IF outline = <<>> THEN 1
    ELSE CHOOSE d \in {e.level : e \in Range(outline)} :
             \A e \in Range(outline) : e.level <= d

(* Where "while n > low and n is too wide: n -= 1" stops. *)
Down(from, low, tooWide) ==
    LET stop[n \in low..from] == IF n > low /\ n \in tooWide THEN stop[n - 1] ELSE n
    IN  stop[from]

WideDepths(outline, max) == {d \in 1..FullDepth(outline) : Width(UpTo(outline, d)) > max}

(* Mutant: one level more is dropped than needed. *)
ShedDepthTwice(outline, max) ==
    LET depth == Down(FullDepth(outline), 1, WideDepths(outline, max))
    IN  IF 1 < depth /\ depth < FullDepth(outline) THEN depth - 1 ELSE depth

(* _shed_depth: the depth at which its loop stops. *)
ShedDepth(outline, max) == Down(FullDepth(outline), 1, WideDepths(outline, max))

FitToBudget(outline, max) ==
    LET depth == ShedDepth(outline, max)
        kept == UpTo(outline, depth)
        wide == {n \in DOMAIN kept : Width(SubSeq(kept, 1, n)) > max}
        lines == SubSeq(kept, 1, Down(Len(kept), 0, wide))
    IN  [lines |-> lines, shed |-> depth < FullDepth(outline),
         truncated |-> Len(lines) < Len(kept)]

-----------------------------------------------------------------------------
Init == results = <<>> /\ entries = <<>>

AddResult(size, signals) ==
    /\ entries = <<>>
    /\ Len(results) < MaxResults
    /\ results' = Append(results, [rank |-> Len(results) + 1, size |-> size,
                                   signals |-> signals])
    /\ UNCHANGED entries

AddEntry(level, size) ==
    /\ results = <<>>
    /\ Len(entries) < MaxEntries
    /\ entries' = Append(entries, [level |-> level, size |-> size])
    /\ UNCHANGED results

Next ==
    \/ \E size \in Sizes, signals \in SUBSET Signals : AddResult(size, signals)
    \/ \E level \in Levels, size \in Sizes : AddEntry(level, size)

Spec == Init /\ [][Next]_vars

-----------------------------------------------------------------------------
(* An answer shows the longest prefix of the results that fits with its    *)
(* separators, to the character; only if not even the first fits is that   *)
(* one cut, to exactly the budget; and the notice is there precisely when  *)
(* something was left out.                                                 *)
AnswerIsLongestPrefix ==
    results # <<>> =>
        \A max \in Budgets :
            LET sizes == Lengths(results)
                Joined(n) == SumFunction(SubSeq(sizes, 1, n)) + (n - 1) * SeparatorLength
                fitting == {n \in 1..Len(sizes) : Joined(n) <= max}
                selected == SelectWithinBudget(sizes, max)
            IN  /\ selected.cut <=> fitting = {}
                /\ selected.notice <=> selected.cut \/ selected.included < Len(sizes)
                /\ IF fitting = {}
                   THEN selected.chars = max
                   ELSE /\ selected.included = Cardinality(fitting)
                        /\ selected.chars = Joined(selected.included)

(* What the budget leaves out are the results that matter least: none left *)
(* out is about a replacement while one merely found is shown, and among   *)
(* equals the search's own order decides.                                  *)
WorstResultsDropFirst ==
    results # <<>> =>
        \A max \in Budgets :
            LET shown == ToSet(Shown(results, max))
            IN  \A r \in shown, dropped \in ToSet(results) \ shown :
                    \/ SortKey(r) < SortKey(dropped)
                    \/ SortKey(r) = SortKey(dropped) /\ r.rank < dropped.rank

(* The metadata, the header and the passages of a documentation page keep  *)
(* within both budgets, however much the metadata have used up, unless     *)
(* the metadata alone do not.                                              *)
PassagesWithinBudget ==
    results # <<>> =>
        \A max \in Budgets, current \in 0..MaxBudget :
            LET chars == PassageChars(Lengths(results), max, current)
            IN  \/ chars = 0
                \/ /\ current + chars <= max
                   /\ current + chars <= DOCUMENTATION_MAX_CHARS

(* A trimmed outline "keeps the document's shape": it fits; if the top     *)
(* level fits, whole levels are dropped, the deepest first and no more of  *)
(* them than necessary; otherwise the first chapters remain.  Its note     *)
(* says what happened.  (A top level without entries fits any budget.)     *)
OutlineKeepsShape ==
    \A max \in Budgets :
        LET fit == FitToBudget(entries, max)
            top == UpTo(entries, 1)
        IN  /\ Width(fit.lines) <= max
            /\ fit.shed \/ fit.truncated <=> fit.lines # entries
            /\ IF Width(top) <= max
               THEN \E depth \in Levels :
                       /\ fit.lines = UpTo(entries, depth)
                       /\ \/ fit.lines = entries
                          \/ \A deeper \in Levels :
                                UpTo(entries, deeper) # fit.lines /\ deeper > depth
                                => Width(UpTo(entries, deeper)) > max
               ELSE \E n \in 0..Len(top) - 1 :
                       /\ fit.lines = SubSeq(top, 1, n)
                       /\ Width(SubSeq(top, 1, n + 1)) > max
=============================================================================
