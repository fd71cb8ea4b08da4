--------------------------- MODULE MCSearchProxy ---------------------------
(***************************************************************************)
(* Instances of SearchProxy for TLC.                                       *)
(***************************************************************************)
EXTENDS SearchProxy, MCVanzelf

CONSTANT searcher

Searcher == {searcher}
=============================================================================
