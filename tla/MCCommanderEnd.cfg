SPECIFICATION FairSpec
CONSTANTS
  Leaf = Leaf
  Pair = Pair
  AcidOne = AcidOne
  AcidTwo = AcidTwo
  Text = Text
  DefaultType = DefaultType
  Commands = {Leaf}
  Acids = {}
  Synchronous = {Leaf}
  Types <- MCTypes
  TypeOf <- OneTypeOf
  Size <- OneSize
  Width = 16
  MaxCalls = 1
PROPERTIES
  EndFinishes
CHECK_DEADLOCK FALSE
