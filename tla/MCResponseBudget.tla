-------------------------- MODULE MCResponseBudget ---------------------------
(* What a docstring says of ResponseBudget, for TLC.                       *)
EXTENDS ResponseBudget

(* content.py, _select_within_budget: "max_chars: Maximum total characters *)
(* in the output"; config.py, max_response_chars: "Maximum characters in a *)
(* single tool response".                                                  *)
ResponseWithinBudget ==
    results # <<>> =>
        \A max \in Budgets : AnswerLength(results, FALSE, max) <= max
=============================================================================
