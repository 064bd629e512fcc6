---------------------------- MODULE OutlineParser ----------------------------
(***************************************************************************)
(* _OutlineParser and parse_document (outline.py): one pass over the tags  *)
(* and text of a guide's HTML page that collects its linkable sections,    *)
(* the body text, and the offset at which each section starts; and locate, *)
(* which uses the offsets to say which section a passage came from.        *)
(*                                                                         *)
(* The page is generated one event at a time: well nested sections,        *)
(* headings and non-prose elements, end tags of elements that are not      *)
(* open, and words.  As html.parser reads it, the content of a script or   *)
(* style element is text up to the element's own end tag.  A page may end  *)
(* anywhere, so every state is the end of some page and the properties are *)
(* invariants.  The n-th word read is represented by the number n; `page'  *)
(* and `history' record what the page says, for the properties, and are    *)
(* never read by the parser.                                               *)
(***************************************************************************)
EXTENDS Naturals, Sequences, FiniteSets, SequencesExt

CONSTANTS
    Anchors,      \* ids of sections of the document
    Wrappers,     \* ids that start with _WRAPPER_ID_PREFIX
    NoId,         \* the id of a section without one
    None,         \* no heading is being collected, no section found
    RawTags,      \* script and style: to html.parser their content is text
    OtherTags,    \* nav, the other element of _NON_PROSE_TAGS
    WordLength,   \* characters in a word
    MaxElements,  \* bound: elements of a page
    MaxNonProse,  \* bound: non-prose elements among them
    MaxWords,     \* bound: words of a page
    MaxEvents     \* bound: elements, words and end tags that stray within
                  \* non-prose elements, those elements counted twice

ASSUME WordLengthAssumption == WordLength \in Nat \ {0}
ASSUME AnchorsAssumption ==
    /\ Anchors \cap Wrappers = {}
    /\ NoId \notin Anchors \cup Wrappers
    /\ None \notin Anchors \cup Wrappers \cup {NoId}

VARIABLES
    openSections,  \* _open_sections, the innermost last
    collecting,    \* _collecting: the section whose heading is open, or None
    level,         \* _level
    buffer,        \* _buffer, the words of the heading being collected
    skip,          \* _skip
    words,         \* _words: words and the separators (Space) between them
    length,        \* _length
    sections,      \* sections: [anchor, title, level]
    starts,        \* starts: [offset, anchor]
    page,          \* the elements open on the page, the innermost last
    history        \* every element opened, word and recorded stray end tag,
                   \* in order

parser == <<openSections, collecting, level, buffer, skip, words, length,
            sections, starts>>
vars == <<parser, page, history>>

Ids == Anchors \cup Wrappers
Space == 0

NonProseTags == RawTags \cup OtherTags  \* _NON_PROSE_TAGS

-----------------------------------------------------------------------------
(* What the page says. *)

Events(kind) == {e \in DOMAIN history : history[e].kind = kind}
Elements == Events("section") \cup Events("heading") \cup Events("nonprose")
WordsRead == Cardinality(Events("word"))

Size == Len(history) + Cardinality(Events("nonprose"))

(* An event is recorded with the elements it happens in.                   *)
Happens(kind, id) ==
    /\ Size < MaxEvents
    /\ history' = Append(history, [kind |-> kind, id |-> id, within |-> Range(page)])

(* The innermost element is a script or a style: no tag but its own end.   *)
InRaw ==
    /\ page # <<>>
    /\ history[Last(page)].kind = "nonprose"
    /\ history[Last(page)].id \in RawTags

Opens(kind, id) ==
    /\ ~InRaw
    /\ Cardinality(Elements) < MaxElements
    /\ page' = Append(page, Len(history) + 1)
    /\ Happens(kind, id)

(* The innermost element ends. *)
Closes(kind) ==
    /\ page # <<>>
    /\ history[Last(page)].kind = kind
    /\ page' = Front(page)
    /\ UNCHANGED history

(* The innermost element ends, or the tag closes nothing. *)
Ends(kind) ==
    \/ Closes(kind)
    \/ /\ ~InRaw
       /\ \A e \in Range(page) : history[e].kind # kind
       /\ UNCHANGED <<page, history>>

NonProseOpen == {e \in Range(page) : history[e].kind = "nonprose"}

(* The innermost element is this non-prose element and ends, or none is    *)
(* open and the tag closes nothing.  One read within other non-prose       *)
(* elements is recorded.                                                   *)
NonProseEnds(tag) ==
    \/ Closes("nonprose") /\ history[Last(page)].id = tag
    \/ NonProseOpen = {} /\ UNCHANGED <<page, history>>
    \/ /\ ~InRaw
       /\ NonProseOpen # {}
       /\ \A e \in NonProseOpen : history[e].id # tag
       /\ Happens("stray", tag)
       /\ UNCHANGED page

-----------------------------------------------------------------------------
Init ==
    /\ openSections = <<>>
    /\ collecting = None
    /\ level = 1
    /\ buffer = <<>>
    /\ skip = 0
    /\ words = <<>>
    /\ length = 0
    /\ sections = <<>>
    /\ starts = <<>>
    /\ page = <<>>
    /\ history = <<>>

StartNonProse(tag) ==
    /\ Cardinality(Events("nonprose")) < MaxNonProse
    /\ Opens("nonprose", tag)
    /\ skip' = skip + 1
    /\ UNCHANGED <<openSections, collecting, level, buffer, words, length,
                   sections, starts>>

(* Mutant: a flag instead of a count, so that the inner end tag ends both. *)
EndNonProseAll(tag) ==
    /\ NonProseEnds(tag)
    /\ skip' = 0
    /\ UNCHANGED <<openSections, collecting, level, buffer, words, length,
                   sections, starts>>

(* The count does not say which elements it counts: any of the three end   *)
(* tags lowers it.                                                         *)
EndNonProse(tag) ==
    /\ NonProseEnds(tag)
    /\ skip' = IF skip = 0 THEN 0 ELSE skip - 1
    /\ UNCHANGED <<openSections, collecting, level, buffer, words, length,
                   sections, starts>>

(* An id is used once per page; sections nest in sections only.            *)
StartSection(id) ==
    /\ \A e \in Events("section") : history[e].id = id => id = NoId
    /\ \A e \in Range(page) : history[e].kind = "section"
    /\ Opens("section", id)
    /\ openSections' = Append(openSections, id)
    /\ starts' = IF id = NoId THEN starts
                 ELSE Append(starts, [offset |-> length, anchor |-> id])
    /\ UNCHANGED <<collecting, level, buffer, skip, words, length, sections>>

EndSection ==
    /\ Ends("section")
    /\ openSections' = IF openSections = <<>> THEN <<>> ELSE Front(openSections)
    /\ UNCHANGED <<collecting, level, buffer, skip, words, length, sections, starts>>

(* Mutant: a section without an id is not on the stack. *)
StartHeadingIdsOnly ==
    LET ids == SelectSeq(openSections, LAMBDA id : id # NoId)
    IN  /\ \A e \in Range(page) : history[e].kind # "heading"
        /\ Opens("heading", NoId)
        /\ IF /\ ids # <<>>
              /\ \A s \in Range(sections) : s.anchor # Last(ids)
           THEN /\ collecting' = Last(ids)
                /\ level' = Len(ids)
                /\ buffer' = <<>>
           ELSE UNCHANGED <<collecting, level, buffer>>
        /\ UNCHANGED <<openSections, skip, words, length, sections, starts>>

(* A heading names the innermost open section unless that has no id or a   *)
(* title already.                                                          *)
StartHeading ==
    /\ \A e \in Range(page) : history[e].kind # "heading"
    /\ Opens("heading", NoId)
    /\ IF /\ openSections # <<>>
          /\ Last(openSections) # NoId
          /\ \A s \in Range(sections) : s.anchor # Last(openSections)
       THEN /\ collecting' = Last(openSections)
            /\ level' = Len(openSections)
            /\ buffer' = <<>>
       ELSE UNCHANGED <<collecting, level, buffer>>
    /\ UNCHANGED <<openSections, skip, words, length, sections, starts>>

EndHeading ==
    /\ Ends("heading")
    /\ sections' = IF collecting # None /\ buffer # <<>>
                   THEN Append(sections, [anchor |-> collecting, title |-> buffer,
                                          level |-> level])
                   ELSE sections
    /\ collecting' = None
    /\ UNCHANGED <<openSections, level, buffer, skip, words, length, starts>>

(* Mutant: the separator is not counted in the length. *)
DataUnspaced ==
    LET word == WordsRead + 1
    IN  /\ word <= MaxWords
        /\ Happens("word", word)
        /\ buffer' = IF collecting = None THEN buffer ELSE Append(buffer, word)
        /\ IF skip # 0 \/ openSections = <<>>
           THEN UNCHANGED <<words, length>>
           ELSE /\ words' = words \o (IF words = <<>> THEN <<word>> ELSE <<Space, word>>)
                /\ length' = length + WordLength
        /\ UNCHANGED <<openSections, collecting, level, skip, sections, starts, page>>

(* handle_data, one word of the data at a time. *)
Data ==
    LET word == WordsRead + 1
    IN  /\ word <= MaxWords
        /\ Happens("word", word)
        /\ buffer' = IF collecting = None THEN buffer ELSE Append(buffer, word)
        /\ IF skip # 0 \/ openSections = <<>>
           THEN UNCHANGED <<words, length>>
           ELSE IF words = <<>>
           THEN words' = <<word>> /\ length' = WordLength
           ELSE /\ words' = Append(Append(words, Space), word)
                /\ length' = length + 1 + WordLength
        /\ UNCHANGED <<openSections, collecting, level, skip, sections, starts, page>>

Next ==
    \/ \E tag \in NonProseTags : StartNonProse(tag) \/ EndNonProse(tag)
    \/ \E id \in Ids \cup {NoId} : StartSection(id)
    \/ EndSection
    \/ StartHeading \/ EndHeading
    \/ Data

Spec == Init /\ [][Next]_vars

-----------------------------------------------------------------------------
(* parse_document: the outline of the page read so far. *)

(* The places of its sections in `sections', and of its starts in `starts'. *)
Kept == {i \in DOMAIN sections : sections[i].anchor \notin Wrappers}
Titled == {sections[i].anchor : i \in Kept}
Linked == {i \in DOMAIN starts : starts[i].anchor \in Titled}

(* Mutant: the wrapper's depth counts. *)
OutlineLevelsAll ==
    LET shallowest == CHOOSE i \in DOMAIN sections :
                          \A j \in DOMAIN sections : sections[i].level <= sections[j].level
    IN  [i \in Kept |->
            [sections[i] EXCEPT !.level = @ - (sections[shallowest].level - 1)]]

OutlineSections ==
    LET shallowest == CHOOSE i \in Kept :
                          \A j \in Kept : sections[i].level <= sections[j].level
    IN  [i \in Kept |->
            [sections[i] EXCEPT !.level = @ - (sections[shallowest].level - 1)]]

Earliest(places) == CHOOSE i \in places : \A j \in places : i <= j
Latest(places) == CHOOSE i \in places : \A j \in places : j <= i

(* DocumentOutline.locate, for a passage found at an offset of the body:   *)
(* the last section that starts there or before, or None.                  *)
Locate(offset) ==
    LET before == {i \in Linked : starts[i].offset <= offset}
    IN  IF before = {} THEN None ELSE starts[Latest(before)].anchor

(* Characters of the joined words before the i-th: a separator is one.     *)
OffsetAt(i) ==
    LET separators == {j \in 1..i - 1 : words[j] = Space}
        before     == {j \in 1..i - 1 : words[j] # Space}
    IN  Cardinality(separators) + WordLength * Cardinality(before)

(* str.find of a word: its place in the joined words. *)
OffsetOf(word) == OffsetAt(CHOOSE i \in DOMAIN words : words[i] = word)

Body == Range(words) \ {Space}

-----------------------------------------------------------------------------
EventOf(word) == CHOOSE e \in Events("word") : history[e].id = word

(* The linkable sections opened before an event.                           *)
OpenedBefore(event) == {e \in Events("section") : e < event /\ history[e].id \in Titled}

(* The offsets recorded while reading agree with the final string: a word  *)
(* is located in the linkable section opened last before it, never in one  *)
(* opened after it, however sections, headings and skipped text interleave *)
(* and whether or not its section had its title yet when it was read.      *)
LocateFollowsReading ==
    \A word \in Body :
        LET before == OpenedBefore(EventOf(word))
        IN  Locate(OffsetOf(word)) = IF before = {} THEN None ELSE history[Latest(before)].id

(* The sections an event happens in, and the innermost of them.            *)
SectionsAround(event) == {e \in history[event].within : history[e].kind = "section"}

SectionAt(event) ==
    IF SectionsAround(event) = {} THEN None ELSE history[Latest(SectionsAround(event))].id

(* The words of a heading, and the headings directly in a section that     *)
(* have ended and had any.                                                 *)
HeadingWords(heading) ==
    {history[e].id : e \in {w \in Events("word") : heading \in history[w].within}}

ClosedHeadings(id) ==
    {h \in Events("heading") : /\ SectionAt(h) = id
                               /\ h \notin Range(page)
                               /\ HeadingWords(h) # {}}

(* A section is listed exactly when a heading of its own with any text has *)
(* ended, and under the text of the first such heading: it never takes the *)
(* heading of a nested section, of the section around it, of an anonymous  *)
(* section, or a later formatting heading.                                 *)
HeadingsNameTheirSection ==
    \A id \in Ids :
        LET listed == {s \in Range(sections) : s.anchor = id}
        IN  IF ClosedHeadings(id) = {}
            THEN listed = {}
            ELSE /\ Cardinality(listed) = 1
                 /\ \A s \in listed :
                        Range(s.title) = HeadingWords(Earliest(ClosedHeadings(id)))

OpenedAt(id) == CHOOSE e \in Events("section") : history[e].id = id

(* "Levels are normalised so the shallowest section returned is level 1",  *)
(* and the levels follow the nesting: a section inside another is deeper   *)
(* by the number of sections opened in between, wrapper or no wrapper.     *)
LevelsFollowNesting ==
    LET outline   == Range(OutlineSections)
        Depth(id) == Cardinality(SectionsAround(OpenedAt(id)))
    IN  outline # {} =>
            /\ \E s \in outline : s.level = 1
            /\ \A s, t \in outline :
                   /\ s.level >= 1
                   /\ s.level + Depth(t.anchor) = t.level + Depth(s.anchor)

(* The non-prose elements an event happens in, and the stray non-prose end *)
(* tags read before it since the outermost of them was opened.             *)
NonProseAround(event) == {e \in history[event].within : history[e].kind = "nonprose"}

StraysBefore(event) ==
    {s \in Events("stray") :
        s < event /\ Earliest(NonProseAround(event)) \in history[s].within}

(* The body is the prose of the sections: it has every word read inside a  *)
(* section and outside script, style and nav, none from outside sections,  *)
(* and a word inside n nested non-prose elements only if n stray end tags  *)
(* of such elements were read since the outermost of the n was opened.     *)
BodyIsProse ==
    /\ Body \subseteq {history[w].id : w \in Events("word")}
    /\ \A w \in Events("word") :
          LET skipped == NonProseAround(w)
          IN  IF SectionsAround(w) = {} THEN history[w].id \notin Body
              ELSE IF skipped = {} THEN history[w].id \in Body
              ELSE history[w].id \in Body =>
                       Cardinality(skipped) <= Cardinality(StraysBefore(w))
=============================================================================
