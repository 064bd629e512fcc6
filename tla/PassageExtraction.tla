-------------------------- MODULE PassageExtraction --------------------------
(***************************************************************************)
(* Finding text in text: the passages extracted from a document that came  *)
(* without highlights (solr.py, _extract_relevant_section) and the place   *)
(* of a highlight in the body of a mirror page (outline.py, _find).        *)
(*                                                                         *)
(* A text is a sequence of letters: NewLine, Term (a word of the query),   *)
(* Keyword (doubles a paragraph's score), Rhv (demotes it) and others.     *)
(* Offsets start at 0.  Every letter but NewLine is a token of BM25, and   *)
(* the words of a query are one term of it.                                *)
(***************************************************************************)
EXTENDS Ordering, SequencesExt

CONSTANTS
    MaxSections,     \* passages extracted at most
    MinGap,          \* least distance of their starts (500 characters)
    PerSection,      \* characters shown of a passage
    MIN_PROBE_CHARS, \* 25
    PROBE_CHARS      \* 60

ASSUME PassagesAssumption ==
    /\ {MaxSections, MinGap, PerSection, MIN_PROBE_CHARS, PROBE_CHARS} \subseteq Nat \ {0}
    /\ MIN_PROBE_CHARS <= PROBE_CHARS

NewLine == "\n"
Term == "t"
Keyword == "k"
Rhv == "v"

-----------------------------------------------------------------------------
(* Python's strings. *)

Slice(text, from, to) == SubSeq(text, from + 1, IF to < Len(text) THEN to ELSE Len(text))

Occurrences(text, piece, from) ==
    {i \in from..Len(text) - Len(piece) : Slice(text, i, i + Len(piece)) = piece}

find(text, piece, from) ==
    LET at == Occurrences(text, piece, from)
    IN  IF at = {} THEN -1 ELSE CHOOSE i \in at : \A j \in at : i <= j

(* A separator is cut out as soon as it has been read.                     *)
Cut(text, separator, parts, n) ==
    LET from == parts.next
        end == n - Len(separator)
    IN  IF from <= end /\ Slice(text, end, n) = separator
        THEN [cut |-> Append(parts.cut, Slice(text, from, end)), next |-> n]
        ELSE parts

split(text, separator) ==
    LET read[n \in 0..Len(text)] ==
            IF n = 0 THEN [cut |-> <<>>, next |-> 0]
            ELSE Cut(text, separator, read[n - 1], n)
        parts == read[Len(text)]
    IN  Append(parts.cut, Slice(text, parts.next, Len(text)))

-----------------------------------------------------------------------------
(* The paragraphs of a document, with their offsets. *)

Separator(content) ==
    IF Len(split(content, <<NewLine, NewLine>>)) < 3 THEN <<NewLine>> ELSE <<NewLine, NewLine>>

RawParagraphs(content) == split(content, Separator(content))

(* Mutant: every paragraph is searched for from the start. *)
PlaceFromStart(content, placed, para) ==
    Append(placed, [pos |-> find(content, para, 0), text |-> para])

(* A paragraph is searched for behind the one before it. *)
Place(content, placed, para) ==
    LET offset == IF placed = <<>> THEN 0 ELSE Last(placed).pos + Len(Last(placed).text)
    IN  Append(placed, [pos |-> find(content, para, offset), text |-> para])

Placed(content) ==
    LET raw == RawParagraphs(content)
        placed[n \in 0..Len(raw)] ==
            IF n = 0 THEN <<>> ELSE Place(content, placed[n - 1], raw[n])
    IN  placed[Len(raw)]

Blank(text) == ToSet(text) \subseteq {NewLine}

Count(text, letter) == Cardinality({i \in DOMAIN text : text[i] = letter})

Words(text) == Len(text) - Count(text, NewLine)

SCALE == 1000000

(* Mutant: only the paragraphs that contain a term get a score. *)
BaseOfMentions(corpus, text) == SCALE * Count(text, Term)

(* BM25Plus(corpus).get_scores(terms) with k1 = 1.5, b = 0.75, delta = 1,  *)
(* in millionths of the term's idf, which is positive and the same for all *)
(* paragraphs.  delta goes to every paragraph of a corpus with the term.   *)
Base(corpus, text) ==
    LET total == SumFunction([p \in corpus |-> Words(p.text)])
        terms == Count(text, Term)
    IN  IF \A p \in corpus : Count(p.text, Term) = 0 THEN 0
        ELSE SCALE + (SCALE * (20 * terms * total))
                        \div (3 * total + 9 * Words(text) * Cardinality(corpus)
                                + 8 * terms * total)

(* _calculate_score_multiplier, in twentieths. *)
Multiplier(text, rhvQuery) ==
    LET boosted == IF Count(text, Keyword) > 0 THEN 40 ELSE 20
    IN  IF Count(text, Rhv) > 0 /\ ~rhvQuery THEN boosted \div 20 ELSE boosted

(* sort(reverse=True) on (score, offset, text). *)
Better(p, q) == p.score > q.score \/ (p.score = q.score /\ p.pos > q.pos)

Valid(content, start) == {p \in ToSet(Placed(content)) : ~Blank(p.text) /\ p.pos >= start}

(* _collect_scored_paragraphs: once a paragraph has a term, all have a     *)
(* positive score.                                                         *)
Scored(content, rhvQuery, start) ==
    LET valid == Valid(content, start)
    IN  Ranked({[score |-> Base(valid, p.text) * Multiplier(p.text, rhvQuery),
                 pos |-> p.pos, text |-> p.text] :
                    p \in {q \in valid : Base(valid, q.text) > 0}},
               Better)

Near(p, q) == p.pos - q.pos < MinGap /\ q.pos - p.pos < MinGap

(* Greedy, from the best on; then in the order of the text. *)
Choose(selected, p) ==
    IF Len(selected) >= MaxSections \/ \E s \in ToSet(selected) : Near(p, s)
    THEN selected ELSE Append(selected, p)

Chosen(paragraphs) ==
    LET chosen[n \in 0..Len(paragraphs)] ==
            IF n = 0 THEN <<>> ELSE Choose(chosen[n - 1], paragraphs[n])
    IN  chosen[Len(paragraphs)]

Earlier(p, q) == p.pos < q.pos

SelectNonoverlapping(paragraphs) == Ranked(ToSet(Chosen(paragraphs)), Earlier)

(* What is shown of a passage: up to PerSection characters and two marks.  *)
Excerpt(p, start) ==
    [text |-> Slice(p.text, 0, PerSection),
     before |-> p.pos > start, after |-> Len(p.text) > PerSection]

(* start: where a long document's table of contents is taken to end.       *)
ExtractRelevantSection(content, queryTerms, rhvQuery, start) ==
    LET selected == SelectNonoverlapping(Scored(content, rhvQuery, start))
        Lead(from) == <<[text |-> Slice(content, from, from + PerSection),
                         before |-> FALSE, after |-> FALSE]>>
    IN  IF ~queryTerms THEN Lead(0)
        ELSE IF selected = <<>> THEN Lead(start)
        ELSE [i \in DOMAIN selected |-> Excerpt(selected[i], start)]

-----------------------------------------------------------------------------
(* A highlight loses its misleading sentences, an Rhv letter each, unless  *)
(* the query is about them.                                                *)
FilterRhvSentences(snippet, rhvQuery) ==
    IF rhvQuery THEN snippet ELSE Select(snippet, {i \in DOMAIN snippet : snippet[i] # Rhv})

(* DocumentOutline._find. *)

Percents == {0, 35, 60, 80}

Probe(text, percent) ==
    LET from == (Len(text) * percent) \div 100 IN Slice(text, from, from + PROBE_CHARS)

(* Mutant: a short passage is placed at its first occurrence. *)
FindShortAnywhere(body, text) == find(body, text, 0)

(* A short passage has a place only if it occurs once. *)
FindShort(body, text) ==
    LET at == find(body, text, 0)
    IN  IF text = <<>> \/ find(body, text, at + 1) >= 0 THEN -1 ELSE at

(* The first probe that occurs decides. *)
Find(body, text) ==
    IF Len(text) < MIN_PROBE_CHARS THEN FindShort(body, text)
    ELSE LET hits == {n \in Percents : /\ Len(Probe(text, n)) >= MIN_PROBE_CHARS
                                       /\ find(body, Probe(text, n), 0) >= 0}
         IN  IF hits = {} THEN -1
             ELSE find(body, Probe(text, CHOOSE n \in hits : \A m \in hits : n <= m), 0)
=============================================================================
