------------------------------ MODULE MCMirror ------------------------------
(***************************************************************************)
(* Two widths; a frame is a border wider than the client area.  The region *)
(* the user selects fits in the larger; the coordinate he types makes of   *)
(* it a region that fits in both, an empty one, and one turned inside out  *)
(* or moved to the left edge when the source is smaller or minimized.      *)
(***************************************************************************)
EXTENDS Mirror

MCWidths   == {0, 4, 8}
MCFrameOf  == [w \in {4, 8} |-> w + w \div 4]
MCClips    == {<<2, 6>>}
MCEdges    == {3}
MCFailures == {"create", "finish", "resize", "copy"}
=============================================================================
