----------------------------- MODULE MCBresenham -----------------------------
(***************************************************************************)
(* Bresenham on small maps.  A map of 5 x 4 cells has lines of every slope *)
(* (flat, steep, diagonal, single cells) and walks of several rounds.      *)
(***************************************************************************)
EXTENDS Bresenham
=============================================================================
