\* The two threads with an interval of three units and a cycle of three frames.
CONSTANTS
  Interval = 3
  FramesPerCycle = 3
SPECIFICATION FairSpec
INVARIANTS NoUpdateAfterExit
PROPERTIES FrameRateBounded PacerSpec HalfSecondsKeepComing QuitStopsBoth
\* The program ends; then only time passes.
CHECK_DEADLOCK FALSE
