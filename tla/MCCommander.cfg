SPECIFICATION Spec
CONSTANTS
  Leaf = Leaf
  Pair = Pair
  AcidOne = AcidOne
  AcidTwo = AcidTwo
  Text = Text
  DefaultType = DefaultType
  Commands <- MCCommands
  Acids <- MCAcids
  Synchronous <- MCSynchronous
  Types <- MCTypes
  TypeOf <- MCTypeOf
  Size <- MCSize
  Width = 16
  MaxCalls = 3
INVARIANTS
  CountsOutstanding
  UndoesWhatWasAsked
  UndoableIsInEffect
  NothingLeftBehind
PROPERTIES
  ReturnsWhenDone
  HistorySpec
CHECK_DEADLOCK FALSE
