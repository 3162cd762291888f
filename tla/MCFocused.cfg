\* A view dropped on the focused window stays visible over it outside of edit mode.
CONSTANTS
  v1 = v1
  v2 = v2
  page = page
  Views <- MCViews
  Windows <- MCWindows
  Containers <- MCContainers
  Desktop = Desktop
  Elsewhere = Elsewhere
  NoView = NoView
  ClosedView = ClosedView
SPECIFICATION Spec
PROPERTIES HiddenWhenSourceFocused
\* The program ends or crashes.
CHECK_DEADLOCK FALSE
