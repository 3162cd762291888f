SPECIFICATION FairSpec
CONSTANTS
  Nodes <- MCNodes
  Subs <- MCSubs
  AcidNodes <- MCAcid
  MaxDos = 2
INVARIANTS
  AcidInOrder
  UndoneInOrder
PROPERTIES
  AtomicSpec
  WalkEnds
\* The command is dropped, or done and redone as often as MaxDos allows.
CHECK_DEADLOCK FALSE
