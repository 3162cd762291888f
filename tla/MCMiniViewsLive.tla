-------------------------- MODULE MCMiniViewsLive --------------------------
(***************************************************************************)
(* MiniViews with two views and one window to watch, small enough for the  *)
(* temporal properties and for the two traces a view needs to go astray.   *)
(***************************************************************************)
EXTENDS MiniViews, TLC

CONSTANTS v1, v2, page

MCViews      == {v1, v2}
MCWindows    == {page}
MCContainers == page :> {page}
=============================================================================
