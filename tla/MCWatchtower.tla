---------------------------- MODULE MCWatchtower ----------------------------
(* A chain of up to four blocks with a window of two anchors: reorgs within  *)
(* the window, at its edge and beyond it.  s2 takes the recovery branch.     *)
EXTENDS Watchtower
=============================================================================
