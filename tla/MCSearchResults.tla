--------------------------- MODULE MCSearchResults ---------------------------
(* SearchResults on a small index, and statements of the code's comments   *)
(* and docstrings about it, for TLC.                                       *)
EXTENDS SearchResults

Guide == [id |-> "guide", kind |-> "documentation"]
Notes == [id |-> "notes", kind |-> "documentation"]
Kb == [id |-> "kb", kind |-> "solution"]
Cve == [id |-> "cve", kind |-> "Cve"]

MCThreeKinds == {Guide, Kb, Cve}
MCTwoGuides == {Guide, Notes}

Text(snippets, fallback) == [snippets |-> snippets, fallback |-> fallback]

MCTexts == {Text(<<>>, 0), Text(<<0, 2>>, 1), Text(<<1, 2>>, 1)}
MCFewTexts == {Text(<<0, 1>>, 1), Text(<<1>>, 1)}

(* metrics.py, SEARCH_DEPRECATION_DETECTED: "Fires when at least one       *)
(* deprecation-sourced document survives into the final result set".       *)
DeprecationFlagShown ==
    \A n \in 1..Queries, limit \in 1..MaxLimit :
        Result(n, limit).hasDeprecation =>
            \E q \in 1..n :
                Parents(Result(n, limit).chunks) \cap Parents(DepChunks(q)) # {}

(* config.py, exclude_kbase: "Exclude kbase documents (solutions and       *)
(* articles) from search results".                                         *)
NoKbaseWhenExcluded ==
    EXCLUDE_KBASE =>
        \A doc \in Documents :
            doc.kind \in KbaseKinds => doc.id \notin Parents(Result(Queries, MaxLimit).chunks)
=============================================================================
