----------------------------- MODULE MiniViews -----------------------------
(***************************************************************************)
(* The main thread of the program: the list of mini views, what makes each *)
(* of them visible or not, the selection of a clip region, and the place   *)
(* of the main window in the z-order.                                      *)
(*                                                                         *)
(* Everything here runs on one thread: a handler runs to its end before    *)
(* the next message is dispatched, and the half-second work of a frame     *)
(* (RunHalfSecondActions) visits the views one after the other.  Other     *)
(* programs run beside it: their windows take the focus and disappear at   *)
(* any time, also between two visits of the same frame.                    *)
(*                                                                         *)
(* The flags of the views, one bool member per view in the code, are sets  *)
(* of views.  The order of the list, the sizes and the painting are left   *)
(* out: no property here depends on them.                                  *)
(*                                                                         *)
(* A definition whose name ends in an underscore and a word, Wake_Never,   *)
(* is the one below it with a fault put in, to see that the property it is *)
(* listed with notices; nothing else uses it.                              *)
(***************************************************************************)
CONSTANTS
  Views,       \* the mini views that can exist at one time
  Windows,     \* the windows of other programs
  Containers,  \* for each of them, the window itself and those it is inside of
  Desktop,     \* the desktop, the source of a view that is not placed yet
  Elsewhere,   \* the focus is in no window a view can watch
  NoView,      \* ClipSel::miniView is null
  ClosedView   \* ClipSel::miniView points to a view that was closed

TopLevel == {w \in Windows : Containers[w] = {w}}

ASSUME WindowsAssumption ==
  /\ Containers \in [Windows -> SUBSET Windows]
  /\ \A w \in Windows : w \in Containers[w]
  /\ Desktop \notin Windows
  /\ Elsewhere \notin Windows
  /\ NoView \notin Views
  /\ ClosedView \notin Views \cup {NoView}

VARIABLES
  \* The other programs
  windows,     \* the windows that exist (IsWindow)
  foreground,  \* the foreground window
  \* MiniViews
  live,        \* currMiniViews: the views whose window exists
  editMode,    \* MiniViews::editMode
  clipWin,     \* the window of clipSel exists
  clipTarget,  \* ClipSel::miniView: whose clip region is being selected
  resting,     \* the main window is at the bottom of the z-order
  status,      \* the life of the process
  \* Every MiniView
  source,      \* hSource
  setting,     \* settingWindow: not dropped on a window yet
  inEdit,      \* MiniView::editMode
  hideWhen,    \* hideWhenSourceOnTop
  bySource,    \* hiddenBySourceOnTop
  byParent,    \* hiddenByParent
  shown,       \* the window of the view is visible
  closing,     \* a WM_CLOSE waits in the queue of the view
  \* The frame
  checking     \* the views RunHalfSecondActions has still to visit

outside   == <<windows, foreground>>
selection == <<clipWin, clipTarget>>
flags     == <<setting, inEdit, hideWhen, bySource, byParent, shown>>
vars      == <<windows, foreground, live, editMode, clipWin, clipTarget, resting,
             status, source, setting, inEdit, hideWhen, bySource, byParent,
             shown, closing, checking>>

Running == status \in {"running", "quitting", "leaving"}

\* The main thread is not inside a frame and can dispatch a message.  It
\* dispatches none after the frame that follows WM_QUIT.
Idle == status \in {"running", "quitting"} /\ checking = {}

Foregrounds(ws) == (ws \cap TopLevel) \cup {Elsewhere}

\* ValidateProperties asks IsWindow; the desktop always is one.
SourceExists(v) == source[v] \in windows \cup {Desktop}

OnTop(v) == source[v] \in windows /\ foreground \in Containers[source[v]]

Init ==
  /\ windows = Windows
  /\ foreground \in Foregrounds(Windows)
  /\ live = {}
  /\ editMode = TRUE
  /\ clipWin = FALSE
  /\ clipTarget = NoView
  /\ resting = TRUE
  /\ status = "running"
  /\ source = [v \in Views |-> Desktop]
  /\ setting = {} /\ inEdit = {} /\ hideWhen = {}
  /\ bySource = {} /\ byParent = {} /\ shown = {}
  /\ closing = {}
  /\ checking = {}

-----------------------------------------------------------------------------
(* The other programs *)

FocusChange ==
  /\ Running
  /\ foreground' \in Foregrounds(windows) \ {foreground}
  /\ UNCHANGED <<windows, live, editMode, selection, resting, status, source,
                 flags, closing, checking>>

\* A window goes, and every window inside of it.  Handles are not reused.
WindowDestroyed(w) ==
  /\ Running
  /\ w \in windows
  /\ windows' = {x \in windows : w \notin Containers[x]}
  /\ foreground' = IF foreground \in windows' THEN foreground ELSE Elsewhere
  /\ UNCHANGED <<live, editMode, selection, resting, status, source, flags,
                 closing, checking>>

-----------------------------------------------------------------------------
(* Operations of MiniViews *)

\* FixPosition: the main window, and the views in it, come back to the top.
Wake_Never == UNCHANGED resting
Wake == resting' = FALSE

\* SetEditMode(TRUE) of every view, which also shows it: what the operations
\* that force edit mode on (if !editMode, ToggleEditMode) have done first.
EditedViews_Stale == inEdit
EditedViews == IF editMode THEN inEdit ELSE inEdit \cup live
EditedShown == IF editMode THEN shown ELSE shown \cup live

ToggleEditMode ==
  /\ Idle
  /\ editMode' = ~editMode
  /\ inEdit' = IF editMode THEN inEdit \ live ELSE inEdit \cup live
  /\ shown' = EditedShown
  /\ UNCHANGED <<outside, live, selection, resting, status, source, setting,
                 hideWhen, bySource, byParent, closing, checking>>

\* The constructor and CreateThis of a view.  hideWhenSourceOnTop comes from
\* the preferences; hiddenBySourceOnTop starts true.
CreateView(v) ==
  /\ live' = live \cup {v}
  /\ source' = [source EXCEPT ![v] = Desktop]
  /\ setting' = setting \cup {v}
  /\ inEdit' = EditedViews \cup {v}
  /\ \/ hideWhen' = hideWhen \cup {v}
     \/ UNCHANGED hideWhen
  /\ bySource' = bySource \cup {v}
  /\ shown' = EditedShown \cup {v}

\* The main window is awake and in edit mode even when the view's window
\* cannot be created.
AddMiniView(v) ==
  /\ Idle
  /\ v \notin live
  /\ Wake
  /\ editMode' = TRUE
  /\ \/ CreateView(v)
     \/ /\ inEdit' = EditedViews
        /\ shown' = EditedShown
        /\ UNCHANGED <<live, source, setting, hideWhen, bySource>>
  /\ UNCHANGED <<outside, selection, status, byParent, closing, checking>>

\* The window goes, and with it the messages that wait for it.
DestroyThis(v) ==
  /\ shown' = shown \ {v}
  /\ closing' = closing \ {v}

\* The pointer of clipSel stays.
CloseMiniView(v) ==
  /\ DestroyThis(v)
  /\ live' = live \ {v}
  /\ clipTarget' = IF clipTarget = v THEN ClosedView ELSE clipTarget
  /\ resting' = (resting \/ live' = {})
  /\ source' = [source EXCEPT ![v] = Desktop]
  /\ setting' = setting \ {v}
  /\ inEdit' = inEdit \ {v}
  /\ hideWhen' = hideWhen \ {v}
  /\ bySource' = bySource \ {v}
  /\ byParent' = byParent \ {v}

\* The WM_CLOSE that PostCloseMessage left in the queue is dispatched.
HandleClose(v) ==
  /\ Idle
  /\ v \in closing
  /\ CloseMiniView(v)
  /\ UNCHANGED <<outside, editMode, clipWin, status, checking>>

\* The x button sends WM_CLOSE.
CloseButton(v) ==
  /\ Idle
  /\ v \in inEdit \cap shown
  /\ CloseMiniView(v)
  /\ UNCHANGED <<outside, editMode, clipWin, status, checking>>

PostCloseMessage_Lost(v) == UNCHANGED closing
PostCloseMessage(v) == closing' = closing \cup {v}

\* "Close" of the context menu
ContextClose(v) ==
  /\ Idle
  /\ v \in inEdit \cap shown
  /\ PostCloseMessage(v)
  /\ UNCHANGED <<outside, live, editMode, selection, resting, status, source,
                 flags, checking>>

NoViews ==
  /\ live' = {}
  /\ clipTarget' = IF clipTarget \in live THEN ClosedView ELSE clipTarget
  /\ source' = [v \in Views |-> Desktop]
  /\ setting' = {} /\ inEdit' = {} /\ hideWhen' = {}
  /\ bySource' = {} /\ byParent' = {} /\ shown' = {}
  /\ closing' = {}

\* Unlike CloseMiniView this does not put the main window to rest.
ClearMiniViews ==
  /\ Idle
  /\ NoViews
  /\ UNCHANGED <<outside, editMode, clipWin, resting, status, checking>>

-----------------------------------------------------------------------------
(* Operations of a MiniView *)

\* The window below the cursor, or the one above it that can be captured.
DropTargets ==
  UNION {{w} \cup (Containers[w] \cap TopLevel) : w \in windows}

\* ExitSizeMove of a view that is not placed yet.
DropMiniView_Again(v, w) ==
  /\ Idle
  /\ v \in setting \cap shown
  /\ w \in DropTargets \cap windows
  /\ source' = [source EXCEPT ![v] = w]
  /\ UNCHANGED <<outside, live, editMode, selection, resting, status, setting,
                 inEdit, hideWhen, bySource, byParent, shown, closing, checking>>
DropMiniView(v, w) ==
  /\ Idle
  /\ v \in setting \cap shown
  /\ w \in DropTargets \cap windows
  /\ source' = [source EXCEPT ![v] = w]
  /\ setting' = setting \ {v}
  /\ UNCHANGED <<outside, live, editMode, selection, resting, status, inEdit,
                 hideWhen, bySource, byParent, shown, closing, checking>>

\* createMirror throws, after the view was hidden, and nothing catches it: an
\* exception that leaves a window procedure ends the program, or Windows
\* suppresses it and the view stays as it is.
DropThrows(v) ==
  /\ Idle
  /\ v \in setting \cap shown
  /\ shown' = shown \ {v}
  /\ status' \in {status, "crashed"}
  /\ UNCHANGED <<outside, live, editMode, selection, resting, source, setting,
                 inEdit, hideWhen, bySource, byParent, closing, checking>>

\* The same in the handlers that capture the source of a placed view anew, for
\* its clip region or its size, and change nothing else here: MatchSource,
\* ClearClipRegion, SizeFinished.
CaptureThrows(v) ==
  /\ Idle
  /\ v \in live \ setting
  /\ status' = "crashed"
  /\ UNCHANGED <<outside, live, editMode, selection, resting, source, flags,
                 closing, checking>>

\* CheckHideBySourceOnTop, once hideWhenSourceOnTop is hide, with
\* hiddenBySourceOnTop by and the visible views vis before it.
CheckHide_Sticky(v, hide, by, vis) ==
  /\ bySource' = IF v \in hide /\ OnTop(v) THEN by \cup {v} ELSE by \ {v}
  /\ shown' = IF v \in hide /\ OnTop(v) /\ v \notin inEdit THEN vis \ {v} ELSE vis
CheckHide_ByParentForgotten(v, hide, by, vis) ==
  \/ /\ v \in hide /\ v \notin by /\ OnTop(v)
     /\ bySource' = by \cup {v}
     /\ shown' = IF v \in inEdit THEN vis ELSE vis \ {v}
  \/ /\ v \in hide /\ v \in by /\ ~OnTop(v)
     /\ bySource' = by \ {v}
     /\ shown' = vis \cup {v}
  \/ /\ v \notin hide \/ (v \in by <=> OnTop(v))
     /\ bySource' = by
     /\ shown' = vis
CheckHide(v, hide, by, vis) ==
  \/ /\ v \in hide /\ v \notin by /\ OnTop(v)
     /\ bySource' = by \cup {v}
     /\ shown' = IF v \in inEdit THEN vis ELSE vis \ {v}
  \/ /\ v \in hide /\ v \in by /\ ~OnTop(v)
     /\ bySource' = by \ {v}
     /\ shown' = IF v \in byParent THEN vis ELSE vis \cup {v}
  \/ /\ v \notin hide \/ (v \in by <=> OnTop(v))
     /\ bySource' = by
     /\ shown' = vis

ToggleHideWhenSourceOnTop(v) ==
  /\ Idle
  /\ v \in live
  /\ LET due == {v} \cap hideWhen \cap bySource
         hide == IF v \in hideWhen THEN hideWhen \ {v} ELSE hideWhen \cup {v}
     IN  /\ hideWhen' = hide
         /\ CheckHide(v, hide, bySource \ due, shown \cup due)
  /\ UNCHANGED <<outside, live, editMode, selection, resting, status, source,
                 setting, inEdit, byParent, closing, checking>>

-----------------------------------------------------------------------------
(* The selection of a clip region *)

\* Either call of SetForegroundWindow may be refused.
ForegroundsAfterSelect(v) ==
  {foreground, Elsewhere} \cup
    IF source[v] \in windows THEN Containers[source[v]] \cap TopLevel ELSE {}

HideByParentRequests(vis) ==
  /\ shown' = vis \ (live \ byParent)
  /\ byParent' = byParent \cup live

ShowByParentRequests_Keep ==
  /\ shown' = shown \cup ((live \cap byParent) \ bySource)
  /\ UNCHANGED byParent
ShowByParentRequests_Forget ==
  /\ UNCHANGED shown
  /\ byParent' = byParent \ live
ShowByParentRequests ==
  /\ shown' = shown \cup ((live \cap byParent) \ bySource)
  /\ byParent' = byParent \ live

\* ClipSel::CreateThis keeps the pointer to the view, whether it can make its
\* window or not, and makes none when it has one.
SetClipRegion(v) ==
  /\ Idle
  /\ v \in live
  /\ editMode' = TRUE
  /\ inEdit' = EditedViews
  /\ HideByParentRequests(EditedShown)
  /\ clipTarget' = v
  /\ clipWin' \in {clipWin, TRUE}
  /\ foreground' \in ForegroundsAfterSelect(v) \cap Foregrounds(windows)
  /\ UNCHANGED <<windows, live, resting, status, source, setting, hideWhen,
                 bySource, closing, checking>>

\* LButtonUp of the selection window: the views are shown again, then
\* SetClip through the pointer.  When the view was closed meanwhile that is
\* undefined and the program may fall there; the capture of a placed view may
\* throw there.
EndSetClipRegion ==
  /\ Idle
  /\ clipWin
  /\ clipWin' = FALSE
  /\ clipTarget' = NoView
  /\ ShowByParentRequests
  /\ \/ UNCHANGED status
     \/ clipTarget \notin setting /\ status' = "crashed"
  /\ UNCHANGED <<outside, live, editMode, resting, source, setting, inEdit,
                 hideWhen, bySource, closing, checking>>

-----------------------------------------------------------------------------
(* The frames and the life of the program *)

\* RunFrame and FixPosition, which brings the main window back to the top.
\* The main loop dispatches every message that waits before it runs a frame.
BeginHalfSecond_Forever ==
  /\ Idle
  /\ closing = {}
  /\ Wake
  /\ checking' = live
  /\ UNCHANGED <<outside, live, editMode, selection, status, source, flags,
                 closing>>
BeginHalfSecond ==
  /\ Idle
  /\ closing = {}
  /\ Wake
  /\ checking' = live
  /\ status' = IF status = "quitting" THEN "leaving" ELSE status
  /\ UNCHANGED <<outside, live, editMode, selection, source, flags, closing>>

ValidateView_Closes(v) ==
  /\ Running
  /\ v \in checking
  /\ checking' = checking \ {v}
  /\ \/ /\ ~SourceExists(v)
        /\ CloseMiniView(v)
     \/ /\ SourceExists(v)
        /\ CheckHide(v, hideWhen, bySource, shown)
        /\ UNCHANGED <<live, clipTarget, resting, source, setting, inEdit,
                       hideWhen, byParent, closing>>
  /\ UNCHANGED <<outside, editMode, clipWin, status>>

\* ValidateProperties of the next view: one whose source is gone posts itself
\* a WM_CLOSE and stays in the list while the frame walks it.  A source that
\* has another size is captured anew, which may throw.
ValidateView(v) ==
  /\ Running
  /\ v \in checking
  /\ checking' = checking \ {v}
  /\ \/ /\ ~SourceExists(v)
        /\ PostCloseMessage(v)
        /\ UNCHANGED <<bySource, shown>>
     \/ /\ SourceExists(v)
        /\ CheckHide(v, hideWhen, bySource, shown)
        /\ UNCHANGED closing
  /\ \/ UNCHANGED status
     \/ SourceExists(v) /\ v \notin setting /\ status' = "crashed"
  /\ UNCHANGED <<outside, live, editMode, selection, resting, source, setting,
                 inEdit, hideWhen, byParent>>

\* WM_SIZE of the main window
MainWindowSized ==
  /\ Idle
  /\ resting
  /\ Wake
  /\ UNCHANGED <<outside, live, editMode, selection, status, source, flags,
                 closing, checking>>

\* PostQuitMessage, from the menu of the icon or the dialog
Quit ==
  /\ Idle
  /\ status = "running"
  /\ status' = "quitting"
  /\ UNCHANGED <<outside, live, editMode, selection, resting, source, flags,
                 closing, checking>>

\* The main loop has met WM_QUIT and ends, after a last frame if one was due.
ExitProgram ==
  /\ status \in {"quitting", "leaving"}
  /\ checking = {}
  /\ status' = "exited"
  /\ NoViews
  /\ UNCHANGED <<outside, editMode, clipWin, resting, checking>>

Outside ==
  \/ FocusChange
  \/ \E w \in Windows : WindowDestroyed(w)

User ==
  \/ \E v \in Views :
       \/ AddMiniView(v) \/ CloseButton(v) \/ ContextClose(v)
       \/ DropThrows(v) \/ CaptureThrows(v)
       \/ ToggleHideWhenSourceOnTop(v) \/ SetClipRegion(v)
       \/ \E w \in Windows : DropMiniView(v, w)
  \/ ToggleEditMode \/ ClearMiniViews \/ EndSetClipRegion
  \/ MainWindowSized \/ Quit

Machine ==
  \/ BeginHalfSecond \/ ExitProgram
  \/ \E v \in Views : ValidateView(v) \/ HandleClose(v)

Next == Outside \/ User \/ Machine

Spec == Init /\ [][Next]_vars

\* What the main loop does for itself: it empties the queue, walks the views
\* to the end and leaves on WM_QUIT.  A frame needs an empty queue, which the
\* user can fill again and again, but not faster than the loop empties it.
\* Nothing is assumed of the user and of the other programs.
Fairness ==
  /\ SF_vars(BeginHalfSecond)
  /\ WF_vars(ExitProgram)
  /\ \A v \in Views : WF_vars(ValidateView(v)) /\ WF_vars(HandleClose(v))

FairSpec == Spec /\ Fairness

-----------------------------------------------------------------------------
(* Properties *)

\* Every variable has its type, and the flags, the queue and the frame speak
\* of views in currMiniViews only.
TypeOK ==
  /\ windows \subseteq Windows
  /\ foreground \in Foregrounds(windows)
  /\ live \subseteq Views
  /\ editMode \in BOOLEAN /\ clipWin \in BOOLEAN /\ resting \in BOOLEAN
  /\ clipTarget \in live \cup {NoView, ClosedView}
  /\ status \in {"running", "quitting", "leaving", "exited", "crashed"}
  /\ source \in [Views -> Windows \cup {Desktop}]
  /\ setting \subseteq live /\ inEdit \subseteq live /\ hideWhen \subseteq live
  /\ bySource \subseteq live /\ byParent \subseteq live /\ shown \subseteq live
  /\ closing \subseteq live
  /\ checking \subseteq live

\* MiniViews::editMode and the editMode of every view say the same, however
\* views are added, toggled and made to show a selection (IsInEditMode,
\* SetEditMode).
EditModesAgree == inEdit = IF editMode THEN live ELSE {}

\* LButtonUp of the selection window and the views it hid: as long as there is
\* a window to release the mouse in, or a view hidden for it, the pointer it
\* will use is not null.
SelectionHasTarget == clipWin \/ byParent # {} => clipTarget # NoView

\* While a mini view exists the main window, which draws it, is not left at
\* the bottom of the z-order (Rest, Wake).
RestOnlyWhenEmpty == resting => live = {}

\* A placed view is invisible only while one of the two flags that hide it is
\* set, hiddenByParent or hiddenBySourceOnTop: no order of hiding and showing
\* leaves it invisible with neither.  That the flag is ever cleared, and the
\* view shown, is not said here: the ones that are stranded keep theirs.
HiddenForAReason == live \ setting \subseteq shown \cup byParent \cup bySource

\* A view hidden for a selection stays hidden until the selection shows it
\* again, whatever the focus, the frames and the other views do meanwhile
\* (hiddenByParent in CheckHideBySourceOnTop), and none that is hidden for a
\* second selection is left in its way (HideByParentRequest).  The code does
\* show it, hiddenByParent set, when edit mode is entered again
\* (ToggleEditMode, AddMiniView, SetClipRegion) and when hideWhenSourceOnTop is
\* turned off while hiddenBySourceOnTop is set too.
SelectionStaysClear ==
  [][\A v \in byParent' \cap shown' :
       \/ v \in byParent \cap shown
       \/ v \in byParent /\ ~editMode /\ editMode'
       \/ v \in byParent \cap bySource \cap (hideWhen \ hideWhen')]_vars

\* The frame walks currMiniViews, so nothing it does to one view adds or
\* removes a view (ValidateProperties posts its WM_CLOSE).
ListStableInFrame == [][checking # {} => live' = live]_vars

\* A view is placed once, watches one window until it is closed, and nothing
\* happens after the end of the program.
Lifecycle == INSTANCE ViewLifecycle WITH
  Targets <- Windows,
  Nothing <- Desktop,
  phase <- [v \in Views |-> IF v \notin live THEN "closed"
                            ELSE IF v \in setting THEN "placing" ELSE "viewing"],
  watches <- source,
  ended <- ~Running
LifecycleSpec == Lifecycle!Spec

\* A view whose source is destroyed is closed, whatever else happens, unless
\* the program stops (ValidateProperties, ProcessCloseMessage).
SourceGoneCloses ==
  \A v \in Views :
    Running /\ v \in live /\ ~SourceExists(v) ~> ~Running \/ v \notin live

\* A placed view that hides when its source is on top comes back for good when
\* the source has left the top for good (CheckHideBySourceOnTop).
ReappearsWhenSourceLeaves ==
  \A v \in Views :
    <>[](/\ Running /\ v \in hideWhen \ (byParent \cup setting)
         /\ SourceExists(v) /\ ~OnTop(v)) => <>[](v \in shown)

\* The program ends after it was asked to (Run).
QuitEnds == status \in {"quitting", "leaving"} ~> ~Running

\* "Toggle Hiding a Mini View when its source is focused": after the frame
\* looked at it, outside of edit mode, no such view is visible.
HiddenWhenSourceFocused ==
  [][\A v \in checking \ checking' :
       v \in hideWhen /\ ~editMode /\ OnTop(v) => v \notin shown']_vars

\* "Toggle Hiding a Mini View when its source is focused": a placed view for
\* which this is off is hidden for the selection of a clip region only.
HiddenOnlyWhenToggled ==
  Running => live \ setting \subseteq shown \cup byParent \cup hideWhen
=============================================================================
