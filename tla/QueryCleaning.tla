---------------------------- MODULE QueryCleaning -----------------------------
(***************************************************************************)
(* _clean_query (solr.py): what is left of a user's query when it is sent  *)
(* to Solr.                                                                *)
(*                                                                         *)
(* A query is a sequence of pieces: Quote, Space, Hyphen, Trim (one of     *)
(* "?.,!"), and words, one for each of the kinds the code tells apart: a   *)
(* stop word, a network interface (for addresses too, which are dropped if *)
(* they are the whole token), a number and a term.                         *)
(***************************************************************************)
EXTENDS Ordering, SequencesExt, FiniteSetsExt

Quote == "quote"
Space == " "
Hyphen == "-"
Trim == "?"
StopWord == "the"
Interface == "ens3"
Numeral == "9"
Keyterm == "kdump"

Pieces == {Quote, Space, Hyphen, Trim, StopWord, Interface, Numeral, Keyterm}

PieceWidth(piece) ==
    CASE piece = StopWord -> 3 [] piece = Interface -> 4 [] piece = Keyterm -> 5 [] OTHER -> 1

Characters(token) == SumFunction([i \in DOMAIN token |-> PieceWidth(token[i])])

Quoted(token) == <<Quote>> \o token \o <<Quote>>

IsQuoted(token) == token[1] = Quote

(* Words are split at spaces, phrases kept with their quotes.  A quote     *)
(* without a partner only separates words; an empty phrase is dropped.     *)
Flush(s) ==
    [s EXCEPT !.open = <<>>,
              !.tokens = IF s.open = <<>> THEN @
                         ELSE Append(@, IF s.inside THEN Quoted(s.open) ELSE s.open)]

Read(query, s, i) ==
    IF query[i] = Quote /\ (s.inside \/ \E j \in i + 1..Len(query) : query[j] = Quote)
    THEN [Flush(s) EXCEPT !.inside = ~@]
    ELSE IF query[i] \in {Space, Quote} /\ ~s.inside THEN Flush(s)
    ELSE [s EXCEPT !.open = Append(@, query[i])]

SplitQuotedAndPlain(query) ==
    LET read[n \in 0..Len(query)] ==
            IF n = 0 THEN [tokens |-> <<>>, open |-> <<>>, inside |-> FALSE]
            ELSE Read(query, read[n - 1], n)
    IN  Flush(read[Len(query)]).tokens

(* rstrip(_TERM_TRIM_CHARS) *)
Stripped(token) ==
    LET kept == {i \in DOMAIN token : token[i] # Trim}
    IN  IF kept = {} THEN <<>> ELSE SubSeq(token, 1, Max(kept))

(* _is_network_noise: the pattern matches the beginning of a token. *)
IsNetworkNoise(token) == token[1] = Interface

Dropped(token) == token = <<>> \/ IsNetworkNoise(token) \/ token = <<StopWord>>

(* Mutant: a phrase with a hyphen is quoted again. *)
QuoteEverything(token) ==
    IF Hyphen \in ToSet(token) /\ Characters(token) > 3 THEN Quoted(token) ELSE token

(* _quote_hyphenated_compounds *)
QuoteCompound(token) ==
    IF Hyphen \in ToSet(token) /\ ~IsQuoted(token) /\ Characters(token) > 3
    THEN Quoted(token) ELSE token

(* rstrip applies to plain words. *)
Trimmed(token) == IF IsQuoted(token) THEN token ELSE Stripped(token)

Terms(query) ==
    LET tokens == SplitQuotedAndPlain(query)
        parts == Select(tokens, {i \in DOMAIN tokens :
                                    IsQuoted(tokens[i]) \/ ~Dropped(Stripped(tokens[i]))})
    IN  [i \in DOMAIN parts |-> QuoteCompound(Trimmed(parts[i]))]

(* " ".join(parts) *)
Join(parts) ==
    LET joined[n \in 0..Len(parts)] ==
            IF n = 0 THEN <<>>
            ELSE joined[n - 1] \o (IF n = 1 THEN <<>> ELSE <<Space>>) \o parts[n]
    IN  joined[Len(parts)]

(* The query itself if nothing is left of it. *)
CleanQuery(query) == IF Terms(query) = <<>> THEN query ELSE Join(Terms(query))
=============================================================================
