\* Safety of the main thread: two views, a window inside another.
CONSTANTS
  v1 = v1
  v2 = v2
  browser = browser
  page = page
  Views <- MCViews
  Windows <- MCWindows
  Containers <- MCContainers
  Desktop = Desktop
  Elsewhere = Elsewhere
  NoView = NoView
  ClosedView = ClosedView
SYMMETRY MCSymmetry
SPECIFICATION Spec
INVARIANTS EditModesAgree SelectionHasTarget RestOnlyWhenEmpty HiddenForAReason
PROPERTIES SelectionStaysClear ListStableInFrame LifecycleSpec
\* The program ends or crashes.
CHECK_DEADLOCK FALSE
