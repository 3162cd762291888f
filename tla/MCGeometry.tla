----------------------------- MODULE MCGeometry -----------------------------
(***************************************************************************)
(* A minimized window, a wide one and a tall one; a selection that fits in *)
(* both and one without area; typed coordinates that turn a region inside  *)
(* out and that lie outside of the source.                                 *)
(***************************************************************************)
EXTENDS Geometry

MCSizes       == {<<0, 0>>, <<5, 2>>, <<2, 3>>}
MCDesktop     == <<6, 4>>
MCRegions     == {<<0, 0, 1, 1>>, <<1, 0, 4, 1>>, <<1, 1, 1, 1>>}
MCLengths     == {3, 7}
MCCoordinates == {0, 3, 9}
=============================================================================
