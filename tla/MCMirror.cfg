SPECIFICATION FairSpec
CONSTANTS
  Widths <- MCWidths
  FrameOf <- MCFrameOf
  Clips <- MCClips
  Edges <- MCEdges
  NoClip = NoClip
  Failures <- MCFailures
INVARIANTS
  CopyFits
  NullOnlyAfterFailure
  NeverAnotherRegion
PROPERTIES
  SizesSettle
  ClipComesBack
CHECK_DEADLOCK FALSE
