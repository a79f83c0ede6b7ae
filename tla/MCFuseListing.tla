--------------------------- MODULE MCFuseListing ---------------------------
(* An instance of FuseListing: names of two lengths in one directory.      *)
EXTENDS FuseListing

Nothing == {}
FiveNames == 101 .. 105
=============================================================================
