\* Liveness of the main loop.
CONSTANTS
  v1 = v1
  v2 = v2
  page = page
  Views <- MCViews
  Windows <- MCWindows
  Containers <- MCContainers
  Desktop = Desktop
  Elsewhere = Elsewhere
  NoView = NoView
  ClosedView = ClosedView
SPECIFICATION FairSpec
PROPERTIES SourceGoneCloses ReappearsWhenSourceLeaves QuitEnds
\* The program ends or crashes.
CHECK_DEADLOCK FALSE
