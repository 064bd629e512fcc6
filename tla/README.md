# okp-mcp: a TLA+ model

okp-mcp is an MCP server that answers tool calls of a language model from a Solr
index of Red Hat content and from the HTML mirror beside it.  It is one Python
process with one asyncio event loop; everything concurrent in it is a matter of
coroutines interleaving at their awaits.  This directory models the parts whose
behaviour depends on that interleaving, on failures of Solr and the mirror, and
on the ranking arithmetic in between, checks them with TLC on small instances
and proves the most important invariants with TLAPS.

Paths below are relative to the repository; line numbers are those of
PROJECT.json's map.

## Inventory

| Component | State | Operations | Interacts with | Hard behaviour |
|---|---|---|---|---|
| `tools/search.py` `search_portal` | none of its own; per call: queries, result | normalise queries, fan out, map exceptions to messages | portal pipelines, metrics | cancellation between any two awaits; finally clause |
| `portal.py` pipelines | per call: pending Solr tasks | main + deprecation request per query, fusion across queries | Solr client, intent rules | `gather` with and without `return_exceptions`; abandoned requests; partial failure |
| `portal.py` ranking | none | documents to chunks, RRF, deduplication, score gate, cut | - | ties, split votes, incomparable scores |
| `solr.py` `_solr_query` | Prometheus counters | one HTTP request, status accounting | Solr | swallowed validation errors, cancellation |
| `solr.py` cleaning, extraction; `bm25.py` | none | query tokens, highlight filtering, paragraph scores and selection | - | overlap and gap arithmetic, scores without a mention |
| `outline.py` `OutlineFetcher` | LRU cache of 64 outlines | `get`, `_fetch` | HTML mirror | lookup / await / store is not atomic |
| `outline.py` parser, `locate` | parser stack, one skip count | tag and data events | - | stray end tags, attribution of passages |
| `tools/document.py` `get_document` | none; counters | id normalisation, fetch, decision tree | Solr, OutlineFetcher | two awaits, errors of two services |
| `content.py`, `formatting.py` | none | budgets, truncation, annotations | - | off-by-one at the budget |
| `intent.py` | rule table | first matching rule on two paths | Solr parameters | both paths must agree on the rule |
| `metrics.py`, `request_id.py` middlewares | per request flags, context variables | one observation per request, request id set/reset | HTTP server | streaming responses, crashes before headers, sessions |
| `server.py`, `config.py` | lifespan, settings | open and close the HTTP client | everything | shutdown with requests in flight |
| `telemetry.py`, `build_info.py`, `run_code.py`, scripts | - | start-up | - | none |

What makes each correct, in a sentence: a call is answered once and its answer
is justified by what Solr said; failures of one query or of the outline never
cost the others; every request and call is counted once; the cache is bounded
and coherent under overlap; fusion ranks by agreement and shows each document
once; what a budget leaves out is what matters least; a passage is linked to the
section it was read after, and never to another document's.  `PROJECT.json` lists
the hazards by line.

## Modules

How the components interact, and which module models which:

    search_portal -- one task per query -- two requests per query -- Solr
        PortalSearch (implements SearchService): who waits for whom, what fails
        SearchResults (uses SearchRanking): what the responses become
        QueryCleaning, IntentRules: what Solr is asked, and whether twice
        PassageExtraction: what is shown of a document without highlights
        ResponseBudget: how much of it is shown
    get_document -- Solr, then OutlineFetcher.get -- HTML mirror
        GetDocument (instantiates OutlineMemo): the two awaits and the reply
        OutlineCache, OutlineRecency (implement OutlineMemo): the shared cache
        OutlineParser: what the page of the mirror becomes
        PassageExtraction: where a passage stands in that page
        DocumentNames: which document, URL and page a name stands for
        ResponseBudget: passages and outlines within their budgets
    every HTTP request -- PrometheusMiddleware -- RequestIDHeaderMiddleware -- app
    every MCP message -- RequestIDContextMiddleware -- tool
        HttpMiddleware: counters and request ids around both
    server lifespan -- the HTTP client all requests share
        GetDocument.Shutdown: it is closed with calls under way

* `OutlineMemo` - what an outline lookup may rely on: a bounded memo, own or
  empty outlines, at most one document forgotten per lesson.  `GetDocument`
  uses it in place of the cache, `OutlineCache` is proved to implement it.
* `OutlineCache` - `OutlineFetcher` as it is: the `OrderedDict` as the order of
  its keys (`lru`) and their values (`entry`), callers that hit at once
  (`GetHit`) or await the mirror (`GetMiss`, then `FetchReturns` or
  `FetchRaises`).  A caller that has returned can call again.
* `OutlineRecency` - `OutlineCache` with a history of use, for the LRU policy.
* `OutlineParser` - `_OutlineParser` one tag or word at a time, `parse_document`
  as operators on what it has collected, `locate` from an offset.  The page is
  the environment: well nested sections, headings, `script`, `style` and `nav` elements,
  stray end tags, words.  Inside a `script` or `style` there are no tags but its own end, as
  `html.parser` reads them.  The end tag of a non-prose element strays wherever no such
  element is open, within others too, that of a section or
  heading only where none is open.  Section ids are not repeated, sections nest in sections
  only.  `history` keeps every element, word and stray tag with the set of elements it stands
  in; the properties speak of the page through it.
* `GetDocument` - the tool's two awaits.  `Start` sends the request to Solr;
  `SolrAnswers` and `SolrFails` are the resumption on either fetch path;
  a documentation page whose outline is not remembered then waits
  (`OutlineReturns`, `OutlineRaises`).  Formatting awaits nothing and is part of
  the step that resumes last; `Formatted` is its decision tree, `Counted` its
  counters.  Lengths enter as the room a response's metadata leave (`Rooms`): for either
  header, for the short one only, or for none; which header it is depends on the outline.  `Shutdown` closes the client (`server.py`, `_app_lifespan`): requests under
  way end as any request may, and every later one is refused with an exception that is
  no `HTTPError` (`StartRefused`, the phase `"refused"`).
* `SearchService` - what a search promises per query: one outcome that never
  changes, one answer made of the outcomes.
* `PortalSearch` - the orchestration: `request[c][i]["main"|"dep"]` is the state of
  each Solr task, `exc[c][i]` the exception the sub-query's `gather` raised,
  `metrics` the counters.  `Start`, `Send`, `RequestEnds`, `RequestCancelled`,
  `Answer`, `Cancel` and `EndCancelled` are the steps between awaits.  A request
  whose sibling failed goes on after its call, as the tasks of `gather` do.
* `Ordering` - a finite set in a strict order (`Ranked`: each element has its place from the
  number before it, which is what a sort without equals comes to) and what is kept of a
  sequence, in its order (`Select`).
* `SearchRanking` - the pure operators of the ranking pipeline.  Reciprocal ranks
  are integers over a common multiple (`Scale`), so sums and ties are exact.  Nested loops
  over lists are the set of places they visit, in reading order (`Places`, `Collect`).
* `SearchResults` - the responses of one call, grown one document at a time, and
  the properties of what the pipelines make of them.
* `ResponseBudget` - a text is its length: selection with separators, order by
  annotation, the passages' budget, the outline's levels.  The loops are functions of the
  number of turns (`Taken`, `Down`).
* `HttpMiddleware` - a request's `phase`, its context variable (`var`, `token`), the
  identifier in its scope's `state`, and the counter's `recorded` and `status_code`.
  `Receive` is the way in through both middlewares, `SendStart` a response start on its
  way out, `End` the return, error or cancellation of the application; `Deliver`,
  `OnMessage`, `Log` and `EndMessage` are the steps of the message a request carries,
  whose task copies the context of its own request or of the one that opened its session.
* `IntentRules` - the registry, in its order, and the first match on both paths.
* `QueryCleaning` - `_clean_query` on pieces of text: quotes, spaces, hyphens,
  punctuation and one word of each kind.
* `DocumentNames` - names as sequences of segments: `doc_uri`, the URLs shown, the
  normalisation of a `doc_id`, the lookup's filter, the path of the mirror page.
* `PassageExtraction` - texts as sequences of letters: paragraphs and their offsets,
  scores, the greedy choice, excerpts; and `_find` with its probes.
* `Texts` - builds every input of these four and of `ResponseBudget`, one kind at a time,
  and states their properties.  The index is any set of pages, advisories and CVEs.
* `OutlineCacheProofs`, `PortalSearchProofs`, `GetDocumentProofs`, `HttpMiddlewareProofs`,
  `OutlineParserProofs`, `SearchResultsProofs`, `TextsProofs` - the theorems.
* `Counting` - the lemmas they share: exact counters, least and greatest numbers, sums,
  sorting, what is picked from a sequence, recursion on numbers.
* `MC...` - small instances, and the statements of comments, docstrings and tests
  that the code does not keep.

## What the runs check

An operator whose comment starts with "Mutant:" is a wrong version of the definition
below it.  Replacing the definition by its mutant must make TLC find a violation; they
document what each property is able to see, and nothing else uses them.

| Run | Instance | Distinct states | What it shows |
|---|---|---|---|
| `outline_cache` | 3 callers, 3 documents, 2 places | 23,629 | order and entries stay one structure, the cache is bounded and holds exactly the documents used last, it keeps `OutlineMemo`'s promise, every `get` returns |
| `outline_parser` | 4 elements (up to 2 of them non-prose), 3 words, stray end tags, 7 of these in all with non-prose elements counted twice; 2 ids and a wrapper | 1.6 million | `locate` agrees with reading order, sections take their own first heading, levels follow nesting, the body has all the prose, and a word inside non-prose elements only if as many of their end tags strayed |
| `document_call` | 2 calls, 2 guides, 1 solution, 2 passages, 1 remembered outline | 318,036 | anchors are the document's own, the mirror changes nothing but anchors (and, with metadata within 70 characters of the budget, whether there is room for passages), lookups are counted once, every call ends, with the client closed at any point |
| `search_call` | 1 call, up to 2 queries (3 submitted), 7 outcomes per request | 42,598 | answers are justified, no healthy search leaks requests, requests and searches are counted once, calls end, requests drain, `SearchService` is kept |
| `results` | 2 rows per response for one query, 3 rows in all for two | 42,325 | the gate never empties an answer, agreement prevails, disjoint lists interleave, one place per document, fusion loses none |
| `http_requests` | 2 requests with a message each, 4 transports, stateless or not | 2.3 million | one observation per request under the status its client saw, a request's task under its own identifier and, without sessions, its message too, answers name the identifier their handler logged under |
| `texts` | 3 results, 4 sections, budgets to 24; 13 rules; 7 documents; texts of 7 letters, bodies and passages of 5; queries of 5 pieces | 73,513 | the longest prefix to the character, the worst results first to go, passages within both budgets, outlines keep their shape; one rule boosts both requests; every name finds its document; the passage with the best score is never lost; passages are placed only where they stand; cleaning keeps the terms |

Why the bounds are enough.  The cache needs one document more than it has places,
and three callers so that two overlap on one document while a third evicts it.  A call of two
queries is the smallest in which one fails and the other does not, and three
submitted queries exercise the cap; calls share no state but the counters, and the
theorems cover any number of calls and queries.  Two documents and two calls are the
smallest instance in which a reply could take another's anchors, and one remembered
outline makes every second lesson evict.  Two rows from each of two requests suffice to
agree, to disagree and to split a document's votes between two chunks; 0.45, the
gate's ratio, lies between the scores' ratio 0.4 and 1.  Four elements and three words are a section in a
section, each with its heading, and a word in each or between them.  A section, two
non-prose elements, a stray end tag in them and a word tell the count from a flag, and two
stray tags in one element from one; `style` stands for `script` too, which the parser treats
alike.  The lengths in
`ResponseBudget` are small on purpose: budgets of every value around every sum of
lengths are tried, which is where an off-by-one would show.  Two requests are what it takes for a message to
run in a session another request opened, with answers in either order; the identifiers
are the two requests' own, one a client chose, and a JSON-RPC id.  A text of
seven letters holds three paragraphs between blank lines, the number from which the code
splits there, and two that repeat each other; probes of 2 to 3 letters in bodies of five can miss the opening
and hit further in.  The seven documents are of all three naming conventions, next to
one whose path extends another's and two whose ids agree but for their kind.  A query of five pieces
holds a quoted compound, a phrase next to a word, and three quotes.

Deadlock is checked for the cache, whose callers can always call again.  The other
models describe calls made once, or inputs that have an end, and stop.

### Statements the code does not keep

Each of these runs expects TLC to find a counterexample.

| Run | Statement | What happens |
|---|---|---|
| `results_deprecation` | the deprecation counter fires for a document in the final result (`metrics.py`) | the flag is taken before the fused list is cut |
| `results_kbase` | `exclude_kbase` excludes solutions and articles from results (`config.py`) | only the main request is filtered, the deprecation request asks for them |
| `document_outline` | the outline never turns a working lookup into an error (`outline.py`) | only `httpx.HTTPError` is mapped to the empty outline |
| `document_not_found` | the not-found counter means that Solr has no such document (`metrics.py`) | a body that fails validation counts too |
| `budget_exceeded` | `max_chars` is the maximum of characters in the output (`content.py`, `config.py`) | notice and warning are added after the budget is spent |

Seen while modelling, without a run: overlapping misses of one document each send a
request.  Votes of a document that two queries return under different chunk ids do not
add up, so it can rank below one that a single query returned.  A deprecation document
that scores over 1/0.45 times as much as every main result drops them all.  Text after
a nested section is located in the nested section, since only starts are recorded.  A stray
`</style>` inside the `nav` lowers the one count that skips both, so that the rest of the
table of contents is body text, which the comment at `outline.py:59` and `test_outline.py:307`
rule out; `BodyIsProse` says exactly when.  With
metadata within 70 characters of the budget, the longer header that explains links leaves
no room, and a page shows its passages only without the outline (`document.py:181`).  BM25+
adds its delta to every paragraph once a term occurs in any, so "those with positive scores"
(`solr.py:351`) are all of them: paragraphs that do not mention the query are shown where
there is room, and a term-less paragraph with a deprecation word (`solr.py:335`) can come
before one that mentions it.  An
outline with headings of level two only (Solr's fallback) is dropped whole when it
does not fit.  A chunk about an end-of-life product is sorted last even if deprecated,
and then raises no warning; one that names a replacement raises it.  `HIGHLIGHT_USED`
counts passages that do not fit.  `_status` starts as success, so a cancelled Solr
request is counted as a success (`solr.py:194`).  Transport `http` gets neither host, port nor
middlewares (`config.py:204`), so its requests are not counted or stamped.  In a stateful session
messages log under the identifier of the request that opened it, and an answer that started
before its message was handled carries its own.  A path with a fragment but no host is
not found.  Of paragraphs with equal scores the later is preferred, and "non-overlapping" is a
distance of their starts: long passages may overlap.  `metrics.py:53` speaks of 12 rule names, the registry
has 13.  The opening of a long passage need not be unique in the body, and then its first
occurrence is taken.  A query of which nothing is left goes to Solr as it was typed, wildcards
included.  A `doc_id` that `urlsplit` rejects is counted as
a call but leaves no duration.

## Fairness

One coroutine runs at a time and each runs to its next await, so a step of a model is
the code between two awaits.  The event loop runs every task that is ready: resumptions
(`Resume`, `Transfer` of a ready request) are weakly fair.  The HTTP clients have a
timeout of 30 seconds on every operation, and Solr and the mirror send finite
responses: answers (`Transfer` of a request in flight, `SolrEnds`, `OutlineEnds`,
`FetchEnds`) are weakly fair, with a failure as good as a success.  No client has to
call, and none has to cancel.  Weak fairness suffices because nothing but its own end
disables any of these steps, a cancellation apart, which ends the wait too.

## What is proved

TLAPS checks the following for every value of the constants that satisfies the named
assumptions of the modules.  The proofs are about the safety part of the specifications
(`SafeSpec` where there is fairness).  Every invariant the passing runs check is proved; what
only TLC checks is liveness.

### The outline cache (`OutlineCacheProofs`)

From `CacheSizeAssumption` (at least one place) and `MarkersAssumption` (the markers are not
documents): `TypeCorrect`, `OrderCorrect`, `Bounded`, `Implements` (the cache implements
`OutlineMemo`'s safety part) and `KeepsRecent` (`KeepsMostRecent`).
`OrderMatchesEntries` is inductive only with types and a bound, so `IInv` says that `lru`
lists the cached documents, each once (`Lists(lru, Known)`), that it is no longer than
the cache, and that nothing is cached or awaited without a mirror.  The lemmas say what
moving to the end, appending and popping the head do to a list of a set; `StoreKeeps`
combines them for the one operation that changes the cache.  `Bounded` follows because a list
of a set is as long as the set is big; `Implements` because a store pops at most one
document, when the memo is full, and not the one just stored.  For the order of eviction
`HInv` says that the history lists every document used, each once, and that `lru` is its
end: a document that is used again after it was evicted moves over the ones that are not
kept, so the kept ones stay the end.

### The search (`PortalSearchProofs`)

From `QueriesAssumption`, `OutcomesAssumption` and `NoErrorAssumption`: `TypeCorrect`,
`AnswerCorrect` (`AnswerJustified`), `NoLeak` (`NoStrayRequests`), `RequestsCounted`
(`SolrAccounted`), `SearchesCounted` (`SearchesAccounted`) and `Implements`
(`ServiceSpec`).  The difficulty is that requests go on after their call is answered: that an
answer stays justified needs that a late end cannot change what a sub-query came to.
`CallInv`, per call, says that requests are alive in a healthy sub-query only while the call
runs, that a failed sub-query has a failed request, that unused slots are empty and an idle
call is new; `IInv` adds the types and `Justified`.  A step of one call leaves the others
alone (`OthersKeep`, `CallStepKeeps`), so each action has a lemma about its own call.  The
refinement maps a sub-query's pair of requests to one outcome (`QueryOutcome`), and
shows that a request's end either decides it or changes nothing.  `AccountInv` says that
each counter is the cardinality of the set it counts.  The set of calls may be infinite:
a counted set starts empty and gains one element when its counter goes up (`Tally`).

### The lookup (`GetDocumentProofs`)

From `NoneAssumption`, `PassagesAssumption` and `UnansweredAssumption`: `TypeCorrect`,
`AnchorsCorrect` (`AnchorsBelong`), `OutlineDecorates` (`OutlineOnlyDecorates`) and
`LookupsCounted` (`DocumentsAccounted`).  What was read before the await must still fit
what comes after it: `Waiting` says that a call in its second wait holds a response that names
the document it asked for, and that the fetcher was asked for that same document; `MemoOwn`
that the memo holds outlines under their own documents, whatever is learnt and forgotten
meanwhile.  `MadeOf` says that the body of every reply is what `Formatted` makes of the
call's own request and Solr's own answer, from which two calls that asked and got the same
show the same.  The counters are exact as those of the search are.  The proof uses
`OutlineMemo` only, so it holds for any cache that implements it.  Two outlines that differ
in what they place may choose different headers: `OutlinesApart` shows that this makes a
difference only if there is room for the short one and not for the other, which is the
exception `OutlineOnlyDecorates` names (`LinksCrowdOut`).

### The middlewares (`HttpMiddlewareProofs`)

From `IdsAssumption`, `StatusesAssumption`, `RequestsAssumption` and `NoneAssumption`:
`RequestsCounted` (`HttpAccounted`), `IdentifiersCorrect` (`OwnIdentifier`) and
`AnswersCorrect` (`AnswerTellsTheLog`).  `RequestInv` ties a request's context
variable and its reset token to its phase; `MessageInv` says that a message runs under an
identifier, which is the state's from the moment it is handled; `StatelessInv` that there is
only one to run under without sessions.  `Once` relates the flag, the status that would be
recorded and what the client saw, and the counter follows by adding one request to
the finite set it is owed for (`OneMore`).

### The parser (`OutlineParserProofs`)

From `WordLengthAssumption` and `AnchorsAssumption`, for every page: `StructureKept`,
`BodyCorrect` (`BodyIsProse`), `LevelsCorrect` (`LevelsFollowNesting`), `HeadingsCorrect`
(`HeadingsNameTheirSection`) and `LocationsCorrect` (`LocateFollowsReading`).  All rest on
`Structure`: the stack of sections is a prefix of the elements open on the page, the part of
them that are sections, and the skip count is at most the number of those that are not
prose, and short of it by at most the stray end tags read since the outermost of them was
opened.  Outside non-prose elements it is therefore zero, whatever strayed before, and a
stray tag's effect ends with the outermost of the elements it strayed in.  A level is then one more than the sections around.  For the headings,
`HeadingsOK` says that at most one heading is open and that it is the latest; a section
is listed under the first that ended with text.  For `locate`, `Placement` says
that offsets are as ordered as the openings they record and that a start is at or before a
word exactly when its section opened before the word was read.

### Ranking and fusion (`SearchResultsProofs`)

From `ScaleAssumption` and the five assumptions of `SearchResults` (scores, snippets and
limits are numbers, a document's id is not the marker for none, no list is longer than the
ranks `Scale` covers), for any index, any number of queries and any limit: `TypeCorrect`,
`EmptyCorrect` (`EmptyOnlyIfNothingFound`), `PlacesCorrect` (`OnePlacePerDocument`),
`DocumentsCorrect` (`FusionLosesNoDocument`), `ConsensusCorrect` (`AgreementPrevails`) and
`InterleavingCorrect` (`DisjointListsInterleave`).  The invariant is only that responses are
Solr's; the work is in the operators.  Counting those ahead of an element numbers a finite set in a strict
order without gaps (`RankedSorts`).  Sums over lists and ranks are the folds of
the community modules; what they need (a sum may be split at any element, is monotone, is
zero for zeros) is proved in `Counting` by taking a counterexample of least size.  A vote is
exact because `Scale` is a multiple of every denominator, so votes strictly decrease with
the rank.  `Fuses` says what a fused list is: one version of each chunk,
those with more votes first.  Two disjoint lists are counted rank by rank: before the
n-th of the first stand n - 1 of each.

### Budgets (`TextsProofs`)

From `LengthsAssumption`, `LevelsAssumption` and `BudgetsAssumption` (lengths are positive,
there is a top level), for every search, outline and budget: `TypeCorrect`, `PrefixCorrect`
(`AnswerIsLongestPrefix`), `WorstCorrect` (`WorstResultsDropFirst`), `PassagesCorrect`
(`PassagesWithinBudget`) and `ShapeCorrect` (`OutlineKeepsShape`).  A loop is a function on
the number of its turns; that there is one is `RecursionExists`, and what holds after every
turn follows by counting up (`CountingUp`).  `LoopInv` says that what is taken fits, and
that once a result did not fit, the next one does not: with `JoinsMonotone` the results that
fit are then exactly the first ones.  `DownStops` says where a trimming loop stops, and that
everything above it was too wide; dropping entries never makes an outline wider
(`WidthGrows`), so a top level that is too wide makes the first loop go all the way down.
These are theorems of `ResponseBudget`'s `Spec`, and `TextsAnswers` says that `Texts`
implements it.

### Intents, names and texts (`TextsProofs`)

The bounds `MaxText`, `MaxBody` and `MaxPieces` are not assumed to be numbers even, so the
theorems are about sequences of any length; the invariant is only that inputs are made of
letters, pieces or rules (`InputsInv`), and the work is in the functions.  An induction over
a text is a loop invariant each time: what the recursive function has after n letters,
tokens or paragraphs holds for none, and one more keeps it.

* `IntentCorrect` (`SpecificIntentWins`): every set of rules has a first one, and both paths
  look for it.
* `NamesCorrect` (`NamesFindTheirDocument`), from `PagesAssumption`, `NumbersAssumption` and
  `DistinctAssumption`: pages have paths that start with a slash and end in a word,
  numbers are words, and no page lies where an advisory or a CVE does.  A document of any
  convention has one path (`Canonical`), no two have the same, and every spelling
  normalises to that path in one of three written forms, or is an advisory's number
  (`Short`).  `PathAdmits` and `NumberAdmits` say that the filter of such a name admits the
  fields of that one document.  Without `DistinctAssumption` the statement is false: the
  filter does not tell kinds apart.
* `BestCorrect` (`PassagesKeepTheBest`), from `PassagesAssumption`: `CutInv` says that the
  parts cut so far, with the separators between them, are the text read so far, so each
  has a known start.  `PlacedInv` says that a paragraph is placed at that start unless it is
  blank, since only newlines lie between the offset searched from and the start: this is where the
  offset kept from paragraph to paragraph matters.  Candidates are then at different places and
  ordered by `Better` strictly.  `ScorePositive` says that the BM25+ score of a
  paragraph is positive exactly if one of them mentions the query.  `ChosenInv` says that each candidate passed so far is
  chosen, near a better one that is, or was met with the limit used up by better ones (`Covered`).
* `FoundCorrect` (`PassagesFound`), from `PassagesAssumption`: a probe is a part of the
  passage and `find` returns the first place of it.  A passage that lost a letter in
  its first third has its second probe behind the gap, where the body continues as the
  passage does (`LongStillFound`).
* `CleaningCorrect` (`CleaningKeepsTheTerms`): `ReadInv` says that the tokens read are words
  without quotes or spaces, or phrases in quotes (`Proper`), whatever quotes lack a
  partner.  Reading proper tokens joined by spaces gives those tokens back (`SplitJoin`): this is
  what makes cleaning idempotent, once a term that was cleaned is shown to be left alone
  (`TermSettled`, `SettledStays`).  What `Lasting` pieces the tokens have is neither dropped
  nor reordered (`LastingKept`), phrases without a hyphen become what they are
  (`PhrasesKept`), and each token has no quotes or two (`QuotesPaired`).

### Only model-checked

The liveness properties: `EveryGetReturns`, `EveryCallEnds`, `RequestsDrain`, and the fair
part of `MemoSpec`.  Fairness and `ENABLED` are out of the prover's reach.

## What is not modelled, and why

* BM25 scores of several terms, each with an idf of its own, and floating point: `Base` is
  the score of one term, exact to a millionth of its idf.  The text patterns (boilerplate,
  annotations, intents, addresses) are regular expressions; their results enter as choices
  or as letters of a kind.  `PortalSearch` leaves open whether a
  query skips its deprecation request: `IntentRules` shows that both happen.
* Words: formatting, messages and logging, except their lengths in `ResponseBudget` and the
  identifier they are logged under in `HttpMiddleware`.
* Telemetry, build information, the `run_code` placeholder, settings and scripts.
* Solr, the mirror, httpx and FastMCP are external: they answer, fail or are cancelled in every
  way `src/` distinguishes.

## Plan

The components that keep state or decide anything are modelled, every invariant the runs
check of them is proved for every value of the constants, and liveness is checked by TLC.
What a change of the code asks for first:

1. Another field or convention in the index: `DocumentNames`, and `Canonical` in
   `TextsProofs`, which is where the conventions are told apart.
2. Another kind of token in a query: `QueryCleaning`, and `Settled`, which says when a
   term is left alone.
3. Another reader of the outline cache, or another policy: `OutlineMemo` first, since
   `GetDocument` is proved from what it promises.
4. The annotations' text patterns and the idf of several terms, if their results are ever to be more than
   choices.
