---------------------------- MODULE MCViewsTab -----------------------------
(***************************************************************************)
(* The dialog with at most three views open and as many kept by its tab;   *)
(* an opacity above the largest, here 2, can be typed.                     *)
(***************************************************************************)
EXTENDS Dialog

CONSTANTS v1, v2, v3, v4, v5, v6

MCViews    == {v1, v2, v3, v4, v5, v6}
MCTyped    == {3}
MCSymmetry == Permutations(MCViews)
=============================================================================
