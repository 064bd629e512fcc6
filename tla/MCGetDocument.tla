---------------------------- MODULE MCGetDocument -----------------------------
(***************************************************************************)
(* What the comments beside get_document say of it, checked on one call.   *)
(***************************************************************************)
EXTENDS GetDocument

(* outline.py:286: "The outline is a navigational extra, so it must never  *)
(* turn a working get_document call into an error": a call that ended in   *)
(* an exception had no document from Solr.                                 *)
OutlineNeverBreaks ==
    \A c \in Calls :
        reply[c] # None /\ reply[c].text = "raised"
            => solr[c] = None \/ solr[c].end # "docs"

(* metrics.py:133: DOCUMENT_NOT_FOUND "fires when a get_document lookup    *)
(* returns no matching Solr document": as often as Solr said there is none. *)
NotFoundMeansAbsent ==
    metrics.notFound = Cardinality({c \in Calls : solr[c] # None /\ solr[c].end = "empty"})
=============================================================================
