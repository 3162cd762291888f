SPECIFICATION Spec
CONSTANTS
  Widths <- MCWidths
  FrameOf <- MCFrameOf
  Clips <- MCClips
  Edges <- MCEdges
  NoClip = NoClip
  Failures = {}
INVARIANTS
  AdjustedIsDrawn
CHECK_DEADLOCK FALSE
