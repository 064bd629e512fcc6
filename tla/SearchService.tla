---------------------------- MODULE SearchService ----------------------------
(***************************************************************************)
(* What search_portal promises a caller, query by query: each query of a   *)
(* call comes to one outcome, which never changes afterwards; the call is  *)
(* answered once, when every query has its outcome, and a query that       *)
(* failed only shows in the answer when all of them did.                   *)
(***************************************************************************)
EXTENDS Naturals

CONSTANTS
    Calls,       \* calls of the tool
    MaxQueries,  \* queries of a call that are searched
    Failures,    \* ways a query can fail
    Unknown,     \* the query has no outcome yet
    Message(_)   \* the answer that reports a failure

VARIABLES
    state,    \* "idle", "searching" or "answered"
    size,     \* how many queries the call searches
    outcome,  \* outcome[c][i]: Unknown, "found", "nothing" or a failure
    reply     \* the answer, or "none"

vars == <<state, size, outcome, reply>>

Slots == 1..MaxQueries

Verdicts == {"found", "nothing"} \cup Failures

(* The answer to a call whose queries came to the outcomes seen. *)
Verdict(seen, n) ==
    IF \E i \in 1..n : seen[i] = "found" THEN "results"
    ELSE IF \E i \in 1..n : seen[i] = "nothing" THEN "no_results"
    ELSE Message(seen[1])

Init ==
    /\ state = [c \in Calls |-> "idle"]
    /\ size = [c \in Calls |-> 0]
    /\ outcome = [c \in Calls |-> [i \in Slots |-> Unknown]]
    /\ reply = [c \in Calls |-> "none"]

Reject(c) ==
    /\ state[c] = "idle"
    /\ state' = [state EXCEPT ![c] = "answered"]
    /\ reply' = [reply EXCEPT ![c] = "bad_query"]
    /\ UNCHANGED <<size, outcome>>

Submit(c, n) ==
    /\ state[c] = "idle"
    /\ state' = [state EXCEPT ![c] = "searching"]
    /\ size' = [size EXCEPT ![c] = n]
    /\ UNCHANGED <<outcome, reply>>

(* A query comes to its outcome while its call waits for it. *)
Decide(c, i, verdict) ==
    /\ state[c] = "searching"
    /\ i <= size[c]
    /\ outcome[c][i] = Unknown
    /\ outcome' = [outcome EXCEPT ![c][i] = verdict]
    /\ UNCHANGED <<state, size, reply>>

Answer(c) ==
    /\ state[c] = "searching"
    /\ \A i \in 1..size[c] : outcome[c][i] # Unknown
    /\ state' = [state EXCEPT ![c] = "answered"]
    /\ reply' = [reply EXCEPT ![c] = Verdict(outcome[c], size[c])]
    /\ UNCHANGED <<size, outcome>>

(* The client withdraws the call. *)
Abandon(c) ==
    /\ state[c] = "searching"
    /\ state' = [state EXCEPT ![c] = "answered"]
    /\ reply' = [reply EXCEPT ![c] = "cancelled"]
    /\ UNCHANGED <<size, outcome>>

Next ==
    \E c \in Calls :
        \/ Reject(c) \/ Answer(c) \/ Abandon(c)
        \/ \E n \in Slots : Submit(c, n)
        \/ \E i \in Slots, verdict \in Verdicts : Decide(c, i, verdict)

Spec == Init /\ [][Next]_vars
=============================================================================
