\* The Views tab against the list of views, the Advanced tab against the registry.
CONSTANTS
  v1 = v1
  v2 = v2
  v3 = v3
  v4 = v4
  v5 = v5
  v6 = v6
  Views <- MCViews
  NoView = NoView
  MaxViews = 3
  Typed <- MCTyped
  MaxOpacity = 2
  Absent = Absent
  NoBoxes = NoBoxes
SYMMETRY MCSymmetry
SPECIFICATION DialogSpec
INVARIANTS TabFollowsList TypedForSelected SavedIsUsed Reachable BoxesTell ClearedStays
PROPERTIES ClickSelectsItem OnlyUserChanges
