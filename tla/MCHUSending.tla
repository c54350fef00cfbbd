---------------------------- MODULE MCHUSending -----------------------------
(* Values of the constants of HUSending for TLC: one frame, the boundary,  *)
(* one byte more, and three frames.                                        *)
EXTENDS HUSending

Boundaries == {6, 16384, 16385, 40000}
=============================================================================
