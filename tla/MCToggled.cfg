\* A view that was never told to hide stays hidden after a selection.
CONSTANTS
  v1 = v1
  v2 = v2
  page = page
  Views <- MCViews
  Windows <- MCWindows
  Containers <- MCContainers
  Desktop = Desktop
  Elsewhere = Elsewhere
  NoView = NoView
  ClosedView = ClosedView
SPECIFICATION Spec
INVARIANTS HiddenOnlyWhenToggled
\* The program ends or crashes.
CHECK_DEADLOCK FALSE
