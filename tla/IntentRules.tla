----------------------------- MODULE IntentRules -----------------------------
(***************************************************************************)
(* The intent registry (intent.py) and what the rules that match a query   *)
(* make of its two requests.  Whether a pattern matches is the query's     *)
(* business: a query is the set of the rules it matches.  The boosts of a  *)
(* rule are represented by its place in the registry.                      *)
(***************************************************************************)
EXTENDS Integers, Sequences

(* A rule: does it have highlight terms, does it have deprecation terms    *)
(* (for titles and content, or for neither).  Every rule has a bq.         *)
Rule(name, highlight, dep) ==
    [name |-> name, bq |-> TRUE, highlight |-> highlight, dep |-> dep]

INTENT_RULES ==
    << Rule("release_date", FALSE, FALSE), Rule("eus", TRUE, FALSE),
       Rule("lifecycle", TRUE, FALSE),     Rule("spice", TRUE, TRUE),
       Rule("cloud_deploy", TRUE, FALSE),  Rule("sap", TRUE, FALSE),
       Rule("container_compat", TRUE, FALSE),
       Rule("programming_language", TRUE, FALSE),
       Rule("gfs2", TRUE, TRUE),           Rule("rpm_ostree", TRUE, FALSE),
       Rule("ethtool", TRUE, FALSE),       Rule("definition_lookup", FALSE, FALSE),
       Rule("vm", TRUE, TRUE) >>

Rules == DOMAIN INTENT_RULES

First(rules) == CHOOSE i \in rules : \A j \in rules : i <= j

(* The rule whose bq replaces, and whose terms extend, those of the main   *)
(* request; 0 for none.  The label the query is counted under comes along. *)
apply_main_boosts(matched) ==
    LET usable == {i \in matched : INTENT_RULES[i].bq}
    IN  IF usable = {} THEN [bq |-> 0, hl |-> 0, counted |-> "no match"]
        ELSE LET i == First(usable)
             IN  [bq |-> i, hl |-> IF INTENT_RULES[i].highlight THEN i ELSE 0,
                  counted |-> "matched"]

(* Mutant: a rule without terms is passed over. *)
DeprecationFallsThrough(matched) ==
    LET usable == {i \in matched : INTENT_RULES[i].dep}
    IN  IF usable = {} THEN [run |-> TRUE, bq |-> 0, counted |-> "no match"]
        ELSE [run |-> TRUE, bq |-> First(usable), counted |-> "matched"]

(* Whether the deprecation request is sent, and the rule whose terms are   *)
(* appended to its own.  A first match without terms rules it out.         *)
apply_deprecation_boosts(matched) ==
    IF matched = {} THEN [run |-> TRUE, bq |-> 0, counted |-> "no match"]
    ELSE LET i == First(matched)
         IN  IF INTENT_RULES[i].dep THEN [run |-> TRUE, bq |-> i, counted |-> "matched"]
             ELSE [run |-> FALSE, bq |-> 0, counted |-> "skipped"]
=============================================================================
