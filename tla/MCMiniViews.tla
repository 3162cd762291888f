---------------------------- MODULE MCMiniViews ----------------------------
(***************************************************************************)
(* MiniViews with two views and two windows, one of them inside the other. *)
(***************************************************************************)
EXTENDS MiniViews, TLC

CONSTANTS v1, v2, browser, page

MCViews      == {v1, v2}
MCWindows    == {browser, page}
MCContainers == browser :> {browser} @@ page :> {page, browser}
MCSymmetry   == Permutations(MCViews)
=============================================================================
