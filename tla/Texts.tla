-------------------------------- MODULE Texts --------------------------------
(***************************************************************************)
(* Every small input of the functions that await nothing: a query by the   *)
(* rules it matches or piece by piece, a name handed to get_document, a    *)
(* text letter by letter, or the results and outlines of ResponseBudget.   *)
(***************************************************************************)
EXTENDS ResponseBudget, PassageExtraction, IntentRules, DocumentNames, QueryCleaning

CONSTANTS
    Pages,             \* paths of solutions, articles and documentation pages
    Errata, Cves,      \* advisory and CVE numbers
    MaxText, MaxBody,  \* bounds: letters of a document, of a body searched
    MaxPieces          \* bound: pieces of a query

VARIABLES
    matched,  \* a query: the rules it matches
    name,     \* a name asked for
    text,     \* a document's text
    query     \* the words of a query

own == <<matched, name, text, query>>
texts == <<vars, own>>

Letters == {NewLine, Term, Keyword, Rhv}

(* The three conventions of the index. *)
Page(path) == [id |-> path \o Index, view_uri |-> <<>>]
Erratum(id) == [id |-> <<id>>, view_uri |-> <<"/", "errata", "/", id, "/">>]
Cve(id) == [id |-> <<"/", "cve", "/", id>> \o Index, view_uri |-> <<"/", "cve", "/", id>>]

Corpus == {Page(path) : path \in Pages} \cup {Erratum(id) : id \in Errata}
              \cup {Cve(id) : id \in Cves}

Word(s) == s \in STRING /\ s \notin Site \cup {"/", "index.html", Fragment}

ASSUME PagesAssumption ==
    \A path \in Pages :
        /\ path \in Seq(STRING) /\ path # <<>>
        /\ path[1] = "/" /\ Word(Last(path))
        /\ \A i \in DOMAIN path : path[i] = "/" \/ Word(path[i])
ASSUME NumbersAssumption == \A id \in Errata \cup Cves : Word(id)
ASSUME DistinctAssumption ==
    /\ \A id \in Errata : <<"/", "errata", "/", id>> \notin Pages
    /\ \A id \in Cves : <<"/", "cve", "/", id>> \notin Pages

Written(path) == {path, path \o <<"/">>, path \o Index}
Url(site, path, fragment) == <<site>> \o path \o fragment

(* A document's fields, its path in any form, and the URLs made of that.            *)
Spellings(doc) ==
    LET paths == Written(RemoveSuffix(doc_uri(doc), <<"/">>))
    IN  {doc.id} \cup ({doc.view_uri} \ {<<>>}) \cup paths
            \cup {Url(site, p, f) : site \in Site, p \in paths, f \in {<<>>, <<Fragment>>}}
            \cup {BuildDocUrl(doc)}

TextsInit == Init /\ matched = {} /\ name = <<>> /\ text = <<>> /\ query = <<>>

(* Only one of the inputs is built at a time. *)
Only(inputs) ==
    /\ "matched" \in inputs \/ matched = {}
    /\ "text" \in inputs \/ text = <<>>
    /\ "query" \in inputs \/ query = <<>>
    /\ name = <<>>

Grow == Only({}) /\ Next /\ UNCHANGED own

Match(i) ==
    /\ Only({"matched"}) /\ \A j \in matched : j < i
    /\ matched' = matched \cup {i}
    /\ UNCHANGED <<vars, name, text, query>>

Ask(doc) ==
    /\ Only({})
    /\ name' \in Spellings(doc)
    /\ UNCHANGED <<vars, matched, text, query>>

Write(letter) ==
    /\ Only({"text"}) /\ Len(text) < MaxText
    /\ text' = Append(text, letter)
    /\ UNCHANGED <<vars, matched, name, query>>

Type(piece) ==
    /\ Only({"query"}) /\ Len(query) < MaxPieces
    /\ query' = Append(query, piece)
    /\ UNCHANGED <<vars, matched, name, text>>

Idle == results = <<>> /\ entries = <<>>

TextsNext ==
    \/ Grow
    \/ /\ Idle
       /\ \/ \E i \in Rules : Match(i)
          \/ \E doc \in Corpus : Ask(doc)
          \/ \E letter \in Letters : Write(letter)
          \/ \E piece \in Pieces : Type(piece)

TextsSpec == TextsInit /\ [][TextsNext]_texts

-----------------------------------------------------------------------------
(* "First match wins for both main-query and deprecation-query boosts": a  *)
(* query's two requests are boosted by one rule, the first of the registry *)
(* that matches; the deprecation request is skipped exactly when that rule *)
(* has no terms for it, whatever less specific rule has some; the "vm"     *)
(* boosts go to queries no other rule matches.                             *)
SpecificIntentWins ==
    LET main == apply_main_boosts(matched)
        dep == apply_deprecation_boosts(matched)
    IN  /\ (matched = {}) <=> (main.bq = 0)
        /\ \A i \in matched : main.bq <= i
        /\ main.hl \in {0, main.bq}
        /\ dep.bq \in {0, main.bq}
        /\ dep.run <=> (main.bq = 0 \/ dep.bq = main.bq)
        /\ dep.counted # "skipped" => main.counted = dep.counted
        /\ (main.bq # 0 /\ INTENT_RULES[main.bq].name = "vm") => matched = {main.bq}

(* _clean_query "Strips trailing punctuation", "preserves quoted phrases   *)
(* intact", "always keeps numeric tokens" and "Falls back to the original  *)
(* query": what goes to Solr is that query or made of terms only, none a   *)
(* wildcard or an open quote; every phrase, numeral and term of the query  *)
(* is in it, in the same order; and there is nothing left to clean in it.  *)
CleaningKeepsTheTerms ==
    LET cleaned == CleanQuery(query)
        was == SplitQuotedAndPlain(query)
        is == SplitQuotedAndPlain(cleaned)
        Phrases(tokens) ==
            Select(tokens, {i \in DOMAIN tokens : IsQuoted(tokens[i])
                                                  /\ Hyphen \notin ToSet(tokens[i])})
        Plain(pieces) ==
            Select(pieces, {i \in DOMAIN pieces : pieces[i] \in {Numeral, Keyterm}})
        Noise(t) == ~IsQuoted(t) /\ IsNetworkNoise(t)
    IN  /\ CleanQuery(cleaned) = cleaned
        /\ Phrases(is) = Phrases(was)
        /\ \A t \in ToSet(was) : IsQuoted(t) => t \in ToSet(is)
        /\ \/ Plain(cleaned) = Plain(Join(Select(was, {i \in DOMAIN was : ~Noise(was[i])})))
           \/ cleaned = query
        /\ cleaned # query =>
              /\ Cardinality({i \in DOMAIN cleaned : cleaned[i] = Quote}) % 2 = 0
              /\ \A t \in {s \in ToSet(is) : ~IsQuoted(s)} :
                    /\ Last(t) # Trim /\ ~Noise(t) /\ t # <<StopWord>>
                    /\ Hyphen \in ToSet(t) => Characters(t) <= 3

(* "callers legitimately supply any of them": whichever name of a document *)
(* a caller gives, the URL it was shown among them, the lookup finds that  *)
(* document and no other; and a page's names lead to one mirror page.      *)
NamesFindTheirDocument ==
    \A doc \in Corpus :
        name \in Spellings(doc) =>
            /\ Lookup(Corpus, name) = {doc}
            /\ doc.view_uri = <<>> => HtmlPath(NormalizeDocId(name)) = HtmlPath(doc.id)

(* The paragraphs of a document that are not blank nor in its table of     *)
(* contents, with the offsets the text gives them.                         *)
Passages(start) ==
    LET raw == RawParagraphs(text)
        Start(k) == SumFunction([j \in 1..(k - 1) |-> Len(raw[j]) + Len(Separator(text))])
    IN  {[pos |-> Start(k), text |-> raw[k]] :
            k \in {j \in DOMAIN raw : ~Blank(raw[j]) /\ Start(j) >= start}}

(* They compete if one of them mentions the query. *)
Competing(rhvQuery, start) ==
    {[score |-> Base(Passages(start), p.text) * Multiplier(p.text, rhvQuery),
      pos |-> p.pos, text |-> p.text] :
        p \in {q \in Passages(start) :
                 \E r \in Passages(start) : Term \in ToSet(r.text)}}

(* Extraction shows paragraphs of the document at their own offsets, in    *)
(* its order and apart from each other, none from the table of contents;   *)
(* if one of them mentions the query, each is left out only for better     *)
(* ones, that are near it or use up the limit: the best is never lost.     *)
(* Something is shown of every document (_extract_relevant_section).       *)
PassagesKeepTheBest ==
    text # <<>> =>
        \A rhvQuery \in BOOLEAN, start \in {0, 2} \cap 0..(Len(text) - 1) :
            LET selected == SelectNonoverlapping(Scored(text, rhvQuery, start))
                kept == ToSet(selected)
                scored == Competing(rhvQuery, start)
                shown == ExtractRelevantSection(text, TRUE, rhvQuery, start)
            IN  /\ kept \subseteq scored
                /\ Len(selected) <= MaxSections
                /\ \A i, j \in DOMAIN selected :
                      i < j => selected[i].pos + MinGap <= selected[j].pos
                /\ \A p \in scored \ kept :
                      \/ \E s \in kept : Better(s, p) /\ Near(s, p)
                      \/ Len(selected) = MaxSections /\ \A s \in kept : Better(s, p)
                /\ \A excerpt \in ToSet(shown) :
                      excerpt.text # <<>> /\ find(text, excerpt.text, start) >= 0
                /\ kept # {} => \A i \in DOMAIN shown : IsPrefix(shown[i].text, selected[i].text)

(* "None means not body text": a highlight is placed only where a probe of *)
(* it occurs; one that stands in the body is found, at the first occurrence*)
(* of its opening; a short one only if it occurs once; and one that lost a *)
(* sentence in its first third, by what follows.                           *)
PassagesFound ==
    Len(text) \in 1..MaxBody /\ NewLine \notin ToSet(text) =>
        \A snippet \in BoundedSeq({Term, Keyword, Rhv}, MaxBody) :
            LET passage == FilterRhvSentences(snippet, FALSE)
                at == Find(text, passage)
                places == Occurrences(text, passage, 0)
            IN  IF Len(passage) < MIN_PROBE_CHARS
                THEN IF passage # <<>> /\ Cardinality(places) = 1
                     THEN at \in places ELSE at = -1
                ELSE /\ at >= 0 =>
                          \E i \in 0..Len(passage) - MIN_PROBE_CHARS :
                              Slice(passage, i, i + MIN_PROBE_CHARS)
                                  = Slice(text, at, at + MIN_PROBE_CHARS)
                     /\ places # {} => at = find(text, Slice(passage, 0, PROBE_CHARS), 0)
                     /\ (/\ Occurrences(text, snippet, 0) # {}
                         /\ \E i \in 1..(Len(passage) * 35) \div 100 :
                               /\ passage = Slice(snippet, 0, i) \o Slice(snippet, i + 1, Len(snippet))
                               /\ Len(passage) - (Len(passage) * 35) \div 100 >= MIN_PROBE_CHARS)
                        => at >= 0
=============================================================================
