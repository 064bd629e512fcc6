--------------------------- MODULE MCOutlineParser ---------------------------
(* OutlineParser up to the names of the ids: the properties treat all ids  *)
(* of Anchors alike, so permuting them is sound.                           *)
EXTENDS OutlineParser

AnchorSymmetry == Permutations(Anchors)
=============================================================================
