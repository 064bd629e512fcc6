---------------------------- MODULE DocumentNames ----------------------------
(***************************************************************************)
(* The names a document goes by: the id and view_uri of the Solr index,    *)
(* the URL that answers show, what a caller hands back to get_document and *)
(* the page of the HTML mirror (tools/document.py, content.py, portal.py,  *)
(* outline.py).                                                            *)
(*                                                                         *)
(* A name is a sequence of segments: site, "/", words, "index.html", and a *)
(* fragment.  No name of the index starts with a site.                     *)
(***************************************************************************)
EXTENDS Integers, SequencesExt

Site == {"https://access.redhat.com", "http://access.redhat.com"}
AccessUrl == "https://access.redhat.com"
Fragment == "#anchor"

Index == <<"/", "index.html">>

RemoveSuffix(name, suffix) ==
    IF IsSuffix(suffix, name) THEN SubSeq(name, 1, Len(name) - Len(suffix)) ELSE name

(* The canonical path of a document. *)
doc_uri(doc) ==
    RemoveSuffix(IF doc.view_uri # <<>> THEN doc.view_uri ELSE doc.id, Index)

(* What search_portal and get_document show of it. *)
BuildDocUrl(doc) == IF doc_uri(doc) = <<>> THEN <<>> ELSE <<AccessUrl>> \o doc_uri(doc)

(* urlsplit takes fragments off URLs only. *)
NormalizeDocId(name) ==
    IF name # <<>> /\ Head(name) \in Site
    THEN LET path == RemoveSuffix(Tail(name), <<Fragment>>)
         IN  IF path = <<>> THEN <<"/">> ELSE path
    ELSE name

(* Mutant: the suffix is not restored. *)
FilterBare(name) ==
    LET safe == RemoveSuffix(RemoveSuffix(name, Index), <<"/">>)
    IN  [ids |-> {safe}, uris |-> {safe, safe \o <<"/">>}]

(* The ids and view_uris that _doc_id_filter admits. *)
DocIdFilter(name) ==
    LET safe == RemoveSuffix(RemoveSuffix(name, Index), <<"/">>)
    IN  [ids |-> {safe, safe \o Index}, uris |-> {safe, safe \o <<"/">>}]

Lookup(corpus, name) ==
    LET filter == DocIdFilter(NormalizeDocId(name))
    IN  {doc \in corpus : doc.id \in filter.ids
                         \/ doc.view_uri \in filter.uris \ {<<>>}}

(* The file of the mirror a name stands for. *)
HtmlPath(name) ==
    LET path == IF IsPrefix(<<"/">>, name) THEN name ELSE <<"/">> \o name
    IN  IF Last(path) = "index.html" THEN path
        ELSE RemoveSuffix(path, <<"/">>) \o Index
=============================================================================
