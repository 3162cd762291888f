# Mini Views: specification and proofs

Mini Views shows live thumbnails of other programs' windows ("mini views") on
top of the desktop.  It is a Windows program of one process: a main thread that
owns every window and dispatches every message, frames of Windows' graphics
capture included, and a timer thread.  It comes with a library of its author's
(`CrossCutLib`) whose Commander runs a thread of its own.  This directory holds TLA+ modules of its logic,
TLC configurations that check them on small instances, and TLAPS proofs for all
instances.

Paths below are relative to `src/source/MiniViewsLib` unless they say otherwise.

## 1. Inventory

| Component | State it keeps | Operations | Interacts with |
|---|---|---|---|
| **MiniViews** (`MiniViews.cpp`) | `currMiniViews`, `editMode`, position of the main window, `clipSel` | add, close, clear views, toggle edit mode, begin and end the selection of a clip region, rest and wake, run, run a frame | calls every MiniView; told by them (`CloseMiniView`, `SetClipRegion`, `NotifyChange`); refreshes the dialog |
| **MiniView** (`MiniView.cpp`) | `hSource`, `settingWindow`, `editMode`, `hideWhenSourceOnTop`, `hiddenBySourceOnTop`, `hiddenByParent`, visibility, clip, ratio, frozen image | create, drop on a source, hide and show, toggle hiding, validate twice a second, paint, close | the source window of another program; the queue (`WM_CLOSE`); the Mirror |
| **ClipSel** (`ClipSel.cpp`) | its window, a raw pointer to the view, a rectangle | create, drag, release | `MiniViews::EndSetClipRegion` |
| **Main loop and Updater** (`MiniViews.cpp`, `Updater.cpp`) | `hasFrameToRun`, `continueUpdating`, `frameNumber`, `keepRunning` | dispatch, frame, timed update, start, stop, join | two threads that share two atomic flags |
| **Main dialog and Views tab** (`MainDialog/*.cpp`) | `currTreeItems`, `currMiniView`, the fields, the tab shown | refresh, select an item, apply an edit, change the tab, open and close | a copy of `currMiniViews`, not refreshed by every change |
| **Preferences and registry** (`Preferences.cpp`, `RegistryTypes.cpp`, the Advanced tab) | cached values and the registry, the notification icon | get, set, toggle, clear, start and end of the program | read by new views and the tabs; decide whether dialog and icon exist |
| **Graphics capture** (`WinrtGraphicsCapture.cpp`) | session, frame pool, swap chain, size, region, pause, lock | create, set and clear the region, follow the size, close, frame arrived | called by MiniView; called back by Windows with frames that lag behind the window |
| **View geometry** (`MiniView.cpp`, `Math.cpp`) | the size the user gave, the clip region, the part that is drawn, the size it was computed for | fix and lock the ratio, match the source, drag, type, clip | integer arithmetic with a memory; the size of the source |
| **Commander** (`CrossCutLib/Commander.cpp`) | undo and redo lists, a command queue, its thread; the tree of sub-commands it walks through | do, undo, redo, wait, clear; do and undo one command, with retries and rollbacks | any thread; calls the commands and the error handlers of its users; not used by the program's windows |
| **Logger, ErrorHandler, SimpleIcu, WindowsLib, Version** | little | formatting, thin wrappers of the Windows API | everyone |

What is hard here:

* *Order.* Four bool members of a view (`editMode`, `hideWhenSourceOnTop`,
  `hiddenBySourceOnTop`, `hiddenByParent`) and the visibility of its window are
  changed by eight handlers.  Nothing but the order in which they run keeps the
  window and the flags together.
* *Other programs.* Their windows take the focus and disappear between any two
  reads, also in the middle of a frame.
* *The queue.* A view that finds its source gone posts a `WM_CLOSE` to itself;
  between that and the close anything can happen to the view.
* *Pointers that stay.* `ClipSel::miniView`, `currMiniView` and `currTreeItems`
  outlive what they point to or are copies of.
* *Two threads* that pass a request by a flag which one sets and the other
  clears without looking again, and shutdown by a flag and a join.
* *Condition variables* of the Commander, whose conditions are not changed under
  the mutex that their waiters hold.
* *Sizes of different moments.*  A capture frame has the size its window had when
  it was taken, the view looks at the window twice a second, the user resizes
  it whenever he likes.  Clip regions are scaled from one of these to the other.
* *Memories of what was computed or read*: the size `FixRatio` last worked for,
  the region a paused mirror keeps, the preference that is taken for saved.
* *Trees.* A command is executed by functions that call each other through its
  tree of sub-commands; whether a failure is dropped, retried, rolled back or
  fatal depends on every node above the leaf that failed.
* *Failures.* A window that cannot be created after the views were hidden for
  it; a capture that throws after the dropped view was hidden, or with half of
  what a frame needs made; a registry that refuses a write or a deletion in the
  middle of clearing it; a command that fails in one of its parts.

`PROJECT.json` lists these under "hazards", each at its line with the
properties that cover it.

## 2. Modules

| Module | Of | Kind |
|---|---|---|
| `ViewLifecycle` | what the program promises of a view | abstract specification |
| `MiniViews` | MiniViews, MiniView, ClipSel: the main thread | component, implements `ViewLifecycle` |
| `FramePacer` | what one flag between two threads promises | abstract specification |
| `FrameLoop` | main loop, `RunFrame`, the Updater | component, implements `FramePacer` |
| `ViewsTab` | the Views tab | component |
| `Preferences` | preferences, registry, Advanced tab, icon | component |
| `Dialog` | the dialog with both tabs in the running program | composes `ViewsTab` and `Preferences` |
| `Mirror` | graphics capture and the view that drives it | component |
| `Geometry` | size, ratio and clip region of a view | component |
| `CommandHistory` | what undo and redo promise | abstract specification |
| `Commander` | Commander, its thread and its callers | component, implements `CommandHistory` |
| `AtomicCommand` | what the execution of one command promises | abstract specification |
| `Execution` | `DoCommand`, `UndoCommand` and what they call | component, implements `AtomicCommand` |
| `MCMiniViews`, `MCMiniViewsLive`, `MCViewsTab` (of `Dialog`), `MCMirror`, `MCGeometry`, `MCCommander`, `MCExecution` | instances | for TLC |
| `MiniViewsProofs`, `FrameLoopProofs`, `DialogProofs`, `MirrorProofs`, `GeometryProofs`, `CommanderProofs`, `ExecutionProofs` | theorems | TLAPS |

`MiniViews`, `FrameLoop`, `Mirror` and `Geometry` describe one view from four
sides that do not touch: which window it watches and whether it is visible, when
it is looked at, what its capture copies, and how large its picture is.  What
one needs of another it takes as an event of its environment (a drop, a new size
of the source, a region).  `Commander` and `Execution` divide the Commander in
the same way: what a command is to the queue and the stacks, and what happens
inside one step of the command thread.

A definition whose name ends in an underscore and a word (`Wake_Never`) is the
definition below it with a plausible bug put in.  Nothing uses these; they are
there to show that each property notices the bug it is about ("mutants" in
`PROJECT.json` pairs them).

### MiniViews

The state is what the classes hold, the per-view bools as sets of views:

| Variable | Code |
|---|---|
| `windows`, `foreground` | what `IsWindow`, `GetForegroundWindow` answer |
| `live`, `editMode` | `currMiniViews`, `MiniViews::editMode` |
| `clipWin`, `clipTarget` | the window of `clipSel`, `ClipSel::miniView` |
| `resting` | the main window was put to `HWND_BOTTOM` and not raised since |
| `status` | the life of the process |
| `source`, `setting`, `inEdit`, `hideWhen`, `bySource`, `byParent` | `hSource`, `settingWindow`, `MiniView::editMode`, `hideWhenSourceOnTop`, `hiddenBySourceOnTop`, `hiddenByParent` |
| `shown`, `closing` | the window is visible; a `WM_CLOSE` is in its queue |
| `checking` | the views the loop of `RunHalfSecondActions` has still to visit |

A handler is one action, with every call it makes: `AddMiniView` wakes the main
window, forces edit mode on all views, creates the view and lists it, or does
all but the last two when the window cannot be created.  The half-second work is
not one action: `BeginHalfSecond` raises the main window and starts the walk and
`ValidateView` visits one view, because other programs run between the visits.
No message is dispatched in between (`Idle`).

Of the order in which two conditions are read within one handler nothing is
kept: `GetForegroundWindow` and `IsWindow` are read at one moment per handler.

What stands for more than it says: `Containers` gives, for every window of
another program, the windows it is inside of, so that `IsSourceOnTop`, which
climbs `GetParent`, and the drop, which may move to the top-level window
(`GA_ROOT` in `createMirrorNoLock`), are set operations.  `ClosedView` is a
pointer to a view that is gone.  `DropThrows` is `createMirror` throwing inside
a window procedure, which nothing catches: Windows ends the process or swallows
the exception, depending on its settings.  `CaptureThrows` is the same in the
handlers that capture the source of a placed view anew, where a swallowed
exception leaves no trace in this state; the visit of a frame (`ValidateView`)
and the release of the mouse (`EndSetClipRegion`) may throw too.  Using
`ClosedView` is undefined and may end the process (`EndSetClipRegion`).

### FrameLoop

`main` and `updater` say where each thread is; the flags and `frameNumber` are
the code's.  `asleep` is what is left of `sleep_for`; `Elapse` lets a unit of
time pass between any two steps, so a thread may be late by any amount but never
wakes early.  `sinceFrame` and `sincePrevious` only measure: the ages of the last
two frames, capped at `Interval`, so the state space is finite with no
constraint.  What messages do is `MiniViews`' matter.

`FramePacer` says the same without threads: `rest` is the time before the next
request, `asked` and `answering` the request and the frame, `life` how far the
pacer is.  `Pacer` in `FrameLoop` maps `asked` to `hasFrameToRun`, `rest` to
`asleep`, and `life` to where the main thread is (`Life`); it is "closing" for a
thread of the Updater that had read `continueUpdating` before it was cleared.

`MiniViews` and `FrameLoop` describe the same loop at two grains.  `MiniViews` takes from
`FrameLoop` that half-second work keeps coming (`HalfSecondsKeepComing`) and
adds what it does; `FrameLoop` takes from `MiniViews` that handlers and frames
end.

### ViewsTab

`list` is `currMiniViews`, `tree` the third members of `currTreeItems`,
`selected` `currMiniView`, `typed` the view for which a number stands in a field
that is not applied yet.  `RefreshViewsTab` does nothing unless the dialog
exists and shows the tab, as in `MainDialog::RefreshViewsTab`, and
`ClearMiniViews` does not call it at all.  Deleting the items of the tree one by
one moves the tree's own selection, which calls back
(`NotifyTreeItemSelected`); so after a rebuild the selection is any listed view.

### Preferences and Dialog

Three preferences stand for the thirteen: the two check boxes that decide
something here (the dialog at the start, the icon) and the number that is typed.
`reg` and `key` are the registry, `cached` and `assigned` the members of
`RegistryValue`.  `Got` is its `Get`: a value that is not assigned is looked for
in the registry at every call.  `CheckClicked` is `Toggle`, which inverts the
cached value and keeps it when the write fails, after Windows has toggled the
box itself.  `ClearSavedSettings` clears value after value up to the first that
fails and deletes the key after the last.  `Run` and `Exit` are the start and the
end of the program, a killed one and a failing `CreateKey` included, so the
registry outlives any number of starts.  `cleared` only observes.

`Dialog` puts both tabs in one window: opening and closing it is one action of
both modules, what happens in one tab leaves the other alone, and the end of the
program ends both.

### Mirror

`source` is the size of the window now, `captured` that of the frames that come,
`seen` that which the view saw at its last look (`MiniView::sourceSize`); the
other variables have the names of the members of `Mirror`.  One dimension is
modelled: the code treats width and height alike, and what it demands of both is
demanded of each.  A window is resized at any moment (`ResizeSource`); frames of
the new size come later (`Capture`), and `ValidateProperties` still later or
earlier than those.  A frame is `FrameOf[w]` wide, which is not the width of the
client area; hence the scaling.

`Failures` says which calls may fail: the capture is refused (`create`), it throws
after the capture was started and before or after the swap chain was made
(`finish`), the buffers cannot be resized (`resize`), the copy fails (`copy`).
`FrameMeetsNull` is a frame that finds no swap chain.  `adjusted`, `mishaps` and
`crashed` observe.

Frames come to the thread that made the capture: the frame pool is not a
free-threaded one (`Direct3D11CaptureFramePool::Create`), and every operation
holds the lock of the mirror from its first line to its last.  So an operation of
the view is one step.  A frame is two, because what is copied depends on the order
inside of `frameArrived`: `FrameOfSameSize` or `FrameOfNewSize` is `updateSize`,
which resizes the swap chain, and `RenderFrame` is the copy, which reads a surface
of the width of the pool, and then the pool that is recreated for the new size.
`frame` says where the handler is; `Free` keeps the view's operations out of it,
while the window goes on changing.  An exception of `updateSize` or of the copy
ends the handler there, so the pool keeps its old size.

What the modelling showed of the code and is part of the model:

* The first frame of another size is copied from a surface that still has the old
  size into a swap chain that has the new one (`WinrtGraphicsCapture.cpp:444-449`).
  `CopyResource` is then given two textures of different sizes, which it does not
  allow, and a region may reach beyond the old surface.  So a frame can be lost at
  every change of size, and the one after it is right.  `CopyFits` says exactly
  which frames these are.
* When `ClearClipRegion` meets an exception of the mirror (`MiniView.cpp:152`), the
  mirror has no region any more and the view still is `clipped` (`ClearClip`).

### Geometry

The variables have the names of the members of `MiniView`; `client` is the size
Windows gave the view and `selecting` that of the window of ClipSel.  `FixRatio`
computes only when the ratio is locked and the shown size is not the one it
remembers (`lastFixedTo`), so its guard is part of the model and every action
says what it does to that memory.  `RoundedQuotient` is the code's, with
rounding half away from zero; `Fitted` and `InternalClip` are the letterboxing.
`Granted` is what Windows does to a size that is less than the minimum of
`SetMinMaxSize`.

`FixRatio` trusts its memory, so the code keeps a ratio only while the memory is
right.  It is not in all reachable states, and no state is excluded: the properties
say which *steps* can make it wrong.

What the modelling showed of the code and is part of the model:

* `MatchSource` takes the size it asked for as one that needs no fixing, though
  Windows may have raised it to the minimum; `Drop` does not fix the ratio; a number
  typed while the ratio is not locked leaves what was remembered, and locking the
  ratio again then changes nothing (`SizedUnremembered`).
* A number typed for a letterboxed view leaves the letterbox of the old size
  (`MiniView.cpp:241`): the drawn part may then lie outside of the view
  (`TypedWhenLetterboxed`).

### Commander

A stretch of code under `commandLocker` is one step.  Everything else is cut
where the other thread can come in: testing a condition, dozing off and sleeping
(`"test"`, `"drowsy"`, `"asleep"`) are separate for both threads, and so are the
decrement of `numSynchronousCommands` (`Count`) and the notification (`Notify`).
`todoBuffer`, `undoBuffers` and `redoBuffers` are the code's.  The counter wraps
at `Width`.  `undoType` is the member of the one object `undoCommand` that all
calls of `Undo` queue; the type a caller asked for is kept in the queue only to
compare the two.  `applied` counts how often a command is in effect and `spoiled`
collects those that took effect in part.

The caller is the thread that made the Commander: it alone holds
`synchronousLock`.  `Post` is any other thread with an asynchronous command.

What the modelling showed of the code and is part of the model:

* `hasCommandsLock` is unlocked after the first sleep and not locked again
  (`ownsLock`), so a second sleep waits without the lock and the unlock after it
  throws (`Unlock`).  The thread survives one pause; at the end of the next
  the process is terminated.
* `DoAcid` passes its `async` as `isSynchronous` (`DoAcid`, `CountsOutstanding`).
* Undoing a leaf of an ACID command reports failure without doing anything, so
  no rollback ever succeeds (`RollbackFails`) and no ACID command is undone
  (`ExecuteUndoRefused`).

### Execution

The functions of `Commander.cpp:195-411` call each other recursively.  Here the
stack of calls is a node of the tree: `at` is the sequence of indexes that leads
from the command to the innermost call, the calls under way are its prefixes,
and the iterator of every loop is an index in it.  `returned` is what the
innermost call has just returned, `retrying` the parameter of `DoDo`, and
`hasAcidParent` is whether a prefix is in `AcidNodes`.  So one step calls
(`DoFirst`, `NextSub`), leaves a loop (`SubsDone`, `FirstSubFails`,
`LaterSubFails`) or executes a leaf, which may succeed, throw a `KnownError`
whose handler wants a retry or not, or throw something else (`LeafDone`,
`LeafRetried`, `LeafFails`, `LeafThrows`).  `effect` counts how often each leaf
is in effect; `failed`, `odd` and `before` observe.  What a leaf or a handler does is its
author's, hence nondeterministic.

`AtomicCommand` is what the two stacks may rely on: `Begin`, then `Done` or one of
the ways to fail, then `Undone` or one of the ways not to.

What the modelling showed of the code and is part of the model:

* `DoDo` catches what a leaf throws, so nothing is thrown in `DoAcidSubItems`
  but `AcidRollbackFailure`, a pointer that no handler catches: the branches that
  ask an error handler again (`Commander.cpp:288-308`, 321-338) are never
  reached, nor are those of `UndoAcidSubItems`, which never has a sub-command to
  do again.  `DoUndo` has no caller.
* `RetryCommand` retries the leaf and not the command, once.  The three other
  answers do the same: `DoDo` returns false.  In a plain command that result is
  dropped (`Commander.cpp:207-212`), so nothing is rolled back or discarded,
  though `ErrorHandler.h:10` says so of `DiscardCommand`; in an ACID command it
  ends the loop, so nothing continues, though `ErrorHandler.h:13` says so of
  `ContinueCommand`.
* A plain command with an ACID part is undone without it and redone with it:
  after a redo the part is in effect twice.
* An exception in `Undo` of a plain leaf, and a failure behind the first part of
  an ACID command, end the process (`UndoLeafThrows`, `LaterSubFails`).

## 3. Runs

| Run | Instance | Distinct states | Shows |
|---|---|---|---|
| `safety` (`MCMiniViews.cfg`) | 2 views, a window inside another, views symmetric | 683 thousand | the main thread and `LifecycleSpec` |
| `liveness` (`MCMiniViewsLive.cfg`) | 2 views, 1 window, fair | 373 thousand | closing, reappearing, ending |
| `frames` (`FrameLoop.cfg`) | interval of 3 units, 3 frames a cycle | 1136 | the loop and the Updater |
| `views_tab` (`MCViewsTab.cfg`) | `DialogSpec`: 3 views open of 6 objects, 3 preferences | 79 thousand (by symmetry) | the copy in the tab, the preferences |
| `mirror` (`MCMirror.cfg`) | 2 widths and minimized, every failure, fair | 659 thousand | regions, frames and buffers |
| `geometry` (`MCGeometry.cfg`) | 3 sizes of a source, 6 acts of the user | 2.7 million | size, ratio and letterboxing |
| `commander` (`MCCommander.cfg`) | 4 commands of 2 types, 3 calls and End | 1.9 million | counting, undo and redo |
| `execution` (`MCExecution.cfg`) | a tree of 5 leaves, 3 of them ACID, done twice, fair | 192 thousand | the walk through a command |
| `toggled` (`MCToggled.cfg`) | as `liveness` | violation | see section 6 |
| `focused` (`MCFocused.cfg`) | as `liveness` | violation | see section 6 |
| `mirror_adjusted` (`MCMirrorAdjusted.cfg`) | as `mirror`, without failures | violation | see section 6 |
| `commander_end` (`MCCommanderEnd.cfg`) | 1 command, 1 call and End, fair | violation | see section 6 |

The type invariant of each component (`TypeOK` of its module) is no property of a
run: it is proved, for every value of the constants (section 4).

`safety`
: `EditModesAgree`: the edit mode of the program and of every view agree.
: `SelectionHasTarget`: while the selection window exists, or a view is hidden
  for it, ClipSel's pointer is not null.
: `RestOnlyWhenEmpty`: the main window is never left at the bottom with a view
  open.
: `HiddenForAReason`: a placed view that is invisible has `hiddenByParent` or
  `hiddenBySourceOnTop` set, though not that the flag is ever cleared (finding 1).
: `SelectionStaysClear`: a view that is hidden for a selection is not shown before
  its end, and none that is hidden for a second selection is left in its way, but by
  edit mode being entered or by its own option being turned off.
: `ListStableInFrame`: the frame does not change the list it walks.
: `LifecycleSpec`: the module implements `ViewLifecycle`: a view is placed once,
  watches one window until it is closed, and nothing happens after the end.

`liveness`
: `SourceGoneCloses`, `ReappearsWhenSourceLeaves`, `QuitEnds`.

`frames`
: `NoUpdateAfterExit`: the Updater never touches the program object
  after `Run` has returned; `FrameRateBounded`: three frames in a row span an
  interval; `HalfSecondsKeepComing`: lost requests starve nothing;
  `QuitStopsBoth`.
: `PacerSpec`: the module implements `FramePacer`: a frame runs only for a request
  that nobody has answered, requests are an interval apart and are not counted, and
  after the stop no frame begins and at most one request is still made.

`views_tab`
: `TabFollowsList`: when there is something to show, tree and
  selection are of the list; `ClickSelectsItem`: the position stored in an item
  is never that of another view; `TypedForSelected`: a number is applied to the
  view it was typed for.
: `SavedIsUsed`: what is taken for the saved value is the saved value, through
  failed writes, clearing and restarts.
: `Reachable`: the program always has its dialog open or wants an icon; a
  program with neither could not even be ended.
: `BoxesTell`: the check boxes show what the program uses, after a failed write
  and a clearing that stopped in the middle too.
: `ClearedStays`: what was cleared stays cleared: nothing that only reads, and no
  restart, brings a value or the key back.
: `OnlyUserChanges`: what a check box stands for changes only when it is clicked, and
  the opacity only when it is typed or cleared: no reading, failed write, new dialog
  or clearing changes a setting behind the user's back.

`mirror`
: `CopyFits`: unless a call failed, a frame of the size the mirror knew can be
  copied: the region lies in its surface, is not empty and fits in the swap chain,
  or all three sizes are the same.  The first frame of another size can be copied
  just when a region is drawn that lies in the old surface too.
: `NullOnlyAfterFailure`: a frame meets the null pointer of a swap chain only after
  a call of the graphics system failed.
: `NeverAnotherRegion`: pausing and resuming never bring back a region that the
  view has changed since.
: `SizesSettle`: when a size stays, pool and mirror follow it, and from then on every
  frame can be copied.
: `ClipComesBack`: a region that was paused because the window was too small is
  drawn again, at its place, when there is room and the size stays, in behaviours
  without a mishap (a failure, a minimized window, a hasty region; section 5).

`geometry`
: `RatioRemembered`: a step that touches the size, the picture or what `FixRatio`
  remembers leaves the picture in the proportion that is remembered, up to the
  rounding of one length, also when it found it wrong; except a drop, a match of the
  source, a selection that matches while `FixRatio` does not compute, and a number
  typed without the lock or for a letterboxed view.
: `PictureStaysInside`: the part that is drawn lies inside the view and in its
  middle, until a number is typed for a letterboxed view, and again from the next
  time it is computed.

`commander`
: `CountsOutstanding`: the counter is the number of synchronous commands not
  finished, with the exact error that calls of `DoAcid` add to it.
: `ReturnsWhenDone`: without calls of `DoAcid`, a synchronous call returns when
  nothing it waits for is left, and not earlier.
: `UndoesWhatWasAsked`: the one object that all undos share holds the type that
  was asked for until the undo is executed.
: `UndoableIsInEffect`: a command is in effect as often as it is on the undo
  stack, unless it failed in part or its undo was refused.
: `NothingLeftBehind`: when the destructor has returned, the queue is empty and
  the thread has ended.
: `HistorySpec`: the module implements `CommandHistory`: of every type one line of
  commands with a position in it.

`execution`
: `AcidInOrder`: in an ACID command under way no part is done before those in front
  of it succeeded, however deep they are.
: `UndoneInOrder`: an undo that stops on an exception leaves the parts in front
  undone and the later ones in effect; a stack would leave it the other way
  round.
: `AtomicSpec`: the module implements `AtomicCommand`: every leaf is done at most once
  by a Do, an ACID part completely or not at all, and an Undo undoes every leaf
  but the ACID ones exactly once.
: `WalkEnds`: every Do and Undo ends, whatever the error handlers answer.

### Bounds

Two views are enough for what the views share (edit mode, rest, the pointer of
ClipSel, the walk of a frame, one view closed while another is visited); no
handler relates three.  The nested pair of windows gives a source whose
container is in the foreground, a source that goes with its container, and a drop
that moves to the container.  `liveness` does without the nesting and without
symmetry, which TLC does not support for it.  With an interval of 3 units a frame
may be late by less, by exactly and by more than an interval; a cycle of 3
frames has one that is neither first nor last.  In `views_tab` six objects are
three open and as many kept alive by a stale tab (`MaxViews` = 3); opacities are
0 to `MaxOpacity` = 2, so the typed 3 is above the limit.

In `mirror` the window is minimized, 4 or 8 wide and its frames 5 and 10.  The
region a user selects fits in the larger; the typed coordinate makes one that
fits in both, an empty one and one turned inside out, so a mirror is paused,
resumed, empty and refused.  In `geometry` the source is minimized, wide or tall;
`Regions` has an empty selection, `Coordinates` and `Lengths` have values inside
and outside of every source, and six acts (`MaxActs`) are more than the longest
chain of operations that each depend on what the one before left (drop, lock,
select, release, type, drag).  What sources and half seconds do is not counted.

In `commander` three calls (`MaxCalls`) fill an undo stack, empty it and cut off
a redo, with End after them; two of them can be a vector of two commands.  Two
types show that the shared object is not mixed up.  `Width` = 16 stands for
2^32: it is more than twice the calls, and the counter wraps below zero (after an
asynchronous `DoAcid`) as the code's does.

In `execution` the tree has every kind of node: a plain leaf, a plain command and
an ACID command, a command below an ACID one, and a leaf behind it, so a part
fails in front of, below and behind others.  A command that is itself ACID is
left to the proof, which is for every tree.  `MaxDos` = 2 is a Do and a redo after an
Undo.

There is no state constraint, and no other bound: every other variable is finite
as the code has it.  The parameters are general in the proofs.

### Fairness

`FairSpec` of `MiniViews`: the main loop finishes a frame it began, dispatches
the posted closes and leaves after `WM_QUIT` (weak fairness).  A half-second
frame needs an empty queue, which the user can fill again and again but not
faster than the loop empties it, so `BeginHalfSecond` has strong fairness; that
the frames come is what `HalfSecondsKeepComing` shows in `FrameLoop`.  Nothing
is assumed of the user or of other programs: a view may wait in a selection for
ever.  `FairSpec` of `FrameLoop`: both threads are scheduled, handlers and frames
end, time passes; quitting is not fair.

`FairSpec` of `Mirror`: Windows captures a window that is not minimized and
delivers its frames, a handler of a frame that began ends, and the half second comes
(`HalfSecondsKeepComing`); `ValidateProperties` has strong fairness, because it waits while
a frame is handled and the timer fires again and again.  Nothing is
assumed of the user, and no failure is demanded.  `FairSpec` of `Commander`: both
threads are scheduled; nobody is forced to call, and a condition variable need
not wake by itself.  `FairSpec` of `Execution`: the command thread is scheduled,
and no `Do`, `Undo` or error handler hangs.

Deadlock is checked in `views_tab`.  The others may stop: after the end of the
program, after a crash, or, in `geometry`, when the user's acts are used up.

## 4. Proofs

`MiniViewsProofs` proves, for any sets of views and windows and any nesting
(`WindowsAssumption`: a window is inside itself, the special values are no windows
and no views), the type invariant and every property of the run `safety`, the
refinement included.

The inductive invariant `Inv` is the conjunction of `TypeOK`, the four invariants of the run and
`ClosedWatchNothing` (a view that is not listed watches nothing), which only the
refinement needs: a view opened again must start with no source.  Each conjunct
has a lemma of its own that every action keeps it (`TypeStep`,
`EditModesStep`, `SelectionStep`, `RestStep`, `HiddenStep`, `ClosedStep`), with
one step per action.  They are separate because they need little of each other:
all but the first need `TypeOK`, whose `flags \subseteq live` says that a handler
that loops over the list reaches every flag.  `HiddenForAReason` is inductive by
itself because a view shows itself whenever the last of its two reasons goes.
`SelectionStaysClear` is proved of every step from `TypeOK` (`flags` are of listed
views, so hiding the whole list hides everything).  `ImplementsLifecycle` maps `AddMiniView` to `Open` or a
stutter, `DropMiniView` to `Place`, the three ways to close to `Close`,
`ClearMiniViews` to `CloseAll`, `ExitProgram` and every crash to `End`
(`LifecycleFall`, for the four actions that may crash), and everything else to a
stutter.

Seven more theorems explain the first two findings and carry the liveness of views.
A view is `Stranded`, hidden with its option off, by the end of a selection only
(`StrandedBySelection`), if its option was never on (`StrandedNeverSet`), until
edit mode or the option is turned on (`StrandedLasts`).  A frame leaves a view over
its focused source only if it is `Exposed`, which begins in edit mode, where a view is
so from its constructor on, or by turning the option on for a view with the
constructor's flag (`OnlyExposedStay`, `ExposedCauses`).  `GoneAreClosed` is what
every step does for `SourceGoneCloses`; it needs `PlacingWatchNothing` (a view being
placed has no source).  `VisitShows` says that one visit of the frame
shows a view whose source is not on top.

`FrameLoopProofs` proves, for any positive interval and cycle
(`LoopAssumption`), `TypeOK`, `NoUpdateAfterExit`, `FrameRateBounded` and the
refinement `PacerSpec`.  `FrameRateBounded` needs an invariant on time, `RequestInv`: `Interval - asleep` is the age of
the last request; the frame before the last is always older than that request,
and a request that waits while no frame runs is younger than the last frame too.
So the frame that answers it begins an interval or more after the last but one.
`LoopPacesFrames` shows from the same invariant that the two threads implement
`FramePacer`: `StepPacer` has one step per action, of which seven are stutters.
That a frame never begins unasked is `RequestInv`; that nothing is asked twice after
the stop needs that the thread is told to stop before it is joined (`UpdaterInv`).
`JoinDrawsNear` bounds the join: from then on every step of the thread and every
unit of its sleep lowers `Left`, which is at most `Interval + 3`.

`DialogProofs` proves the types and every property of `views_tab` for any views, any bound on
them and any typed numbers, of the composed specification.  `DialogInv` is
`TabInv` (types and what holds of the tab), `SettingsInv` and one conjunct that
joins them: a program that does not run shows no tab.  Each half is proved for
its own steps and carried over the other's (`TabUntouched`,
`SettingsUntouched`).  `SettingsInv` is what makes `Reachable` and `BoxesTell`
inductive: every check box that is in the registry has been read (`ChecksRead`), so
what is in use is the cached value; the boxes show the cached values
(`BoxesCached`); and the dialog goes only when an icon is there or wanted
(`IconWanted`).  `OnlyUserEverChanges` has one lemma per way a preference is
touched (`UsedAfterRead` to `UsedAfterClearing`) and rests on `SavedIsUsed` and
`ChecksRead`: clearing a value that is in the registry leaves in use what was
cached, which is what was saved.

`MirrorProofs` proves the types and the three invariants of `mirror` for any widths,
frame sizes, regions and edges, and any failures (`MirrorAssumption`).
`MirrorInv` is `TypeOK`, `ChainFits` (the sizes of pool and swap chain fit, except while a
frame of another size is between its two steps), `FrameLookedAt` (a frame between
its two steps is one of a capture, and its region was looked at), `DrawnInside` (a region that is drawn lies
in the frames the mirror knows) and `CopyOrNone` (the copy a mirror keeps is the
view's region or none, unless a coordinate was typed since), which gives
`NeverAnotherRegion` when the mirror resumes with its copy.  The scaling enters
through `ScaledRegion`.  `RenderKeeps` is the second step of a frame, `OutsideKeeps`
the steps of other programs, which may come between the two.  `NullOnlyAfterFailure`
needs that a mirror that captures knows a size (`SizeKnown`).

`GeometryProofs` proves the types and both properties of `geometry` for any sizes,
regions, coordinates and lengths.  Its first half is arithmetic: a rounded
quotient is off by at most half of its divisor (`RoundedClose`), so a size
computed by width or by height is in proportion (`ByWidthRight`,
`ByHeightRight`), lies in its guide (`FittedRight`) and is centred
(`InternalClipRight`).  `GeometryInv` has one conjunct for each thing that is
kept: `PlaceOK`, `ClipOK`, `SizeOK` (the view has room for the size its user set),
and `MemoryOK` (types, and a view that is not dropped yet is not letterboxed).  That
what is remembered is right is no invariant of the code, so it is no part of it:
both properties are proved of the single step, from `GeometryInv` and, for a step
that computes nothing, from what it found (`Right`, `RightStep`, `Kept`).

`CommanderProofs` proves the types and every property of `commander` for any commands, types
and numbers of calls and any width of the counter; `ReturnsWhenDone` and
`UndoesWhatWasAsked` assume `2 * MaxCalls + 1 < Width`, so that a counter of zero
means that nothing is outstanding, which `FewOutstanding` gives.
`CountsOutstanding` is a balance of every step (`CallsAdd`, `TakeKeeps`,
`CountTakesOff`) taken modulo the width.  `NothingLeftBehind` follows from
`KillIsLast`: nothing is queued behind the kill command.  `UndoesWhatWasAsked`
rests on a caller that is free having nothing of its own outstanding
(`FreeHasNothing`).  `KeepsHistory` maps a done command to `Done`, undo, redo and
the refused or throwing undo to `Undone`, `Redone` and `Dropped`; the four ways a
line of commands is cut and joined are lemmas on sequences (`LineDone` to
`LineDropped`).  `UndoableIsInEffect` counts occurrences in a stack (`TimesAppend`,
`TimesWithoutTop`) and needs that a stack holds commands of its type only.

Its last part says what can make the two threads wait for each other.
`StuckWhenLost`: only a call lost on the command thread or a return lost on the
caller, and `CallsLostInGap` and `ReturnsLostInGap` say when that happens: between a
test and the sleep after it, and never otherwise.  The first rests on `QueueIsFlagged` (the
flag that `Run` reads without the mutex is never false while something is queued).
`JoinsSoon`: a destructor that got to its join gets through it, since the kill
command was executed (`KillUnderWay`, under the assumption on `Width` above).  `StuckWhenLost`
and `JoinsSoon` leave calls of `DoAcid` aside; `AcidWaits` is about these: one that
waits never returns, as long as no asynchronous one made up for it (`AcidFew`, `3 *
MaxCalls + 1 < Width`).

`ExecutionProofs` proves the safety properties of `execution`, the refinement
included, for every tree of commands, every choice of ACID nodes in it and every
number of Dos.  A recursive walk is proved without induction over the tree, because
the invariant speaks of positions: a leaf is *passed* (`Passed`) when it comes before
`at` or is below it and the call has returned.  `ExecutionInv` is `TypeOK`, `AtRest`
(between two walks no call is under way), `Doing` and `Undoing`.  `Doing` says
that leaves not passed are as they were before the walk (`DoneOnce`), that
passed plain ones were done or have failed (`PlainDone`), that in an ACID part
under way all passed leaves were done but those of a call that returns false
(`AcidDone`), that an ACID part that is not under way is whole or untouched
(`AcidWhole`), and that only an ACID call
returns false (`DoReturns`).  `Undoing` is the mirror image (`UndoneOnce`,
`UndoReturns`).  Moving on is a fact on sequences: what precedes the next
sibling is what preceded this one or is below it, and nothing is between a node and
its first child (the lemmas of the first part).  `ExecutionIsAtomic` maps
`DoStarts` to `Begin`, the end of a walk to `Done`, `Refused`, `Undone` or
`UndoRefused`, the two ways to end the process to `RollbackFails` and
`UndoThrows`, and everything between to a stutter.

Three more theorems are about the walk as a whole.
`UndoNeverDoesAgain`: an ACID loop of an Undo stops only at the sub-command it
began with, so the half of `UndoAcidSubItems` that does the later ones again
(`Commander.cpp:381-406`) is dead, and `Execution` rightly has no action for it.
`WalkNeverStuck`: whatever a call returned, its loop has a step.  And
`WalkShortens` is the argument under `WalkEnds`: in a finite tree every step of a
walk lowers `Distance`, a natural number made of the calls under way
(`UnderWay`), the nodes not called yet (`Ahead`) and the retry that is left.  What
`WalkEnds` adds to it is fairness alone.

The theorems that state no property of a run (in "theorems", those without a
"property") are about formulas defined beside their proofs, which no run checks.

Only model-checked: the liveness properties (`liveness`, `HalfSecondsKeepComing`,
`QuitStopsBoth`, `SizesSettle`, `ClipComesBack`, `WalkEnds`), since fairness is
beyond the prover.  What some of them need of single steps is proved: `GoneAreClosed`
and `VisitShows` of the views, `JoinDrawsNear` of the join, `WalkShortens` of the
walk.

## 5. Not modelled, and why

Nearly all of the repository's lines are vendored: `IcuLib` (Unicode) and
`GoogleTestLib`.  Of the rest a large part is thin wrappers of the Windows API
(`WindowsLib`), strings, tests and the layout of the dialog.  The modules are
about the few thousand lines that remain.

Of the main thread (`MiniViews`, `ViewsTab`):

* Modal loops.  While a context menu, a message box or a drag is up, Windows
  dispatches messages inside the handler.  The modules take a handler as one
  step, at the moment of its effect.  `MiniView::RunContextMenu` on a view that
  is closed inside its own message box is therefore not covered.
* Handles are not reused by Windows after a window is destroyed.
* A view is dropped on a window of another program, not on one of Mini Views.
* `FixPosition` is taken to raise the main window whenever it is at the bottom:
  there always is a window above it that is not topmost.
* `WM_CLOSE` of the main window (Alt+F4) reaches Windows' default handler, which
  destroys the window and the views in it while the program runs on
  (`MiniViews.cpp:539`).  The modules keep the main window until the end.
* Selecting a clip region from the Views tab for a view that `ClearMiniViews`
  has taken from the list.  It ends in the states that `SetClipRegion` followed
  by `ClearMiniViews` ends in.
* Painting and the frozen images of a source that gives no picture: whether a
  source is frozen is read off pixels.
* The opacity of the main window and its field in the General tab, menus'
  contents, the registration of hotkeys.

Of the preferences:

* Reading the registry does not fail, and no other program edits it.
* The opacity field shows a typed number above 255 until the next refresh, and a
  check box is the only kind `BoxesTell` speaks of.
* After a failed write the value used is the registry's old one if there is one,
  else the new one; `InUse` says so, and it is not a property that it is the one
  the user chose.
* `IsFirstRun` is used by nothing.

Of the capture:

* Failures are those of `Failures`.  A swap chain that stays of full size after
  a region was set on a source of constant size wastes memory only.
* A region chosen while the window was minimized, or between a change of its
  size and the view's next look (`"hasty"` of `Mishaps`): the mirror is then told
  a size the view has not seen, and a view that later sees the old size again
  does not tell it.  The model has these steps and the safety properties cover
  them; `ClipComesBack` does not.
* `clipPaused` "happens while a clip region is larger than a window"
  (`WinrtGraphicsCapture.h:123`), and not only then: when a region is set, the
  window is minimized before the first frame of the new capture, the half second
  tells the mirror the size zero, and the window is restored with its first
  frame coming before the next half second, `updateClip`
  (`WinrtGraphicsCapture.cpp:478`) turns the region off without pausing it and
  `handleSourceSizeChange` (line 241) makes a mirror without it.  The region
  stays off.  The model has these steps too (`"minimized"` of `Mishaps`), the
  safety properties cover them, and `ClipComesBack` does not.

Of the geometry:

* Borders, DPI, places on the screen, and the overflow of products of huge typed
  numbers.
* That a locked view has the ratio of what it shows: it has not, after the steps that
  `RatioRemembered` names, until `FixRatio` sees another size or the view is dragged.
  `AdjustClipLeft` and its three siblings forget what was
  remembered without computing anew: a locked
  view is then stretched until the next half second that sees another size, or
  the next drag.  These are states of the model and not excluded from it; see the
  remarks of section 6.
* Typed coordinates may turn the clip region inside out; its size is then negative
  and no ratio is promised.

Of the Commander: listeners, of which no command of the repository has any; a
thread other than the maker of the Commander that waits.  In `Execution` an
error handler answers and does not throw; a leaf that throws a `KnownError` has
done nothing, as a retry assumes; and of a leaf that throws something else both
are possible.  The `Commander` takes a command as one step; that it is one is
what `Execution` shows of it.

Not modelled at all: Logger, ErrorHandler, SimpleIcu, WindowsLib, Version, the
entry points, the unused copy of the Updater in `CrossCutLib`, and the comparison
of floating-point numbers, which TLA+'s tools have not.  "components" in
`PROJECT.json` says why of each.

## 6. Findings

1. `toggled`.  `hiddenBySourceOnTop` starts true (`MiniView.cpp:32`) and is not
   maintained while "Hide when source is top" is off (`MiniView.cpp:889`), but
   `ShowByParentRequest` (`MiniView.cpp:376`) believes it.  With the preference
   "hide when source on top by default" off (it is on unless changed), a view
   stays invisible after *Set Clip Region*, until edit mode is entered again or the
   option is turned on for it (`StrandedLasts`).  Nothing but a selection does this,
   and only to a view whose option was never on (`StrandedBySelection`,
   `StrandedNeverSet`).
2. `focused`.  A view stays visible over its focused source outside of edit mode:
   `CheckHideBySourceOnTop` (`MiniView.cpp:889`) reacts to changes only, and leaving
   edit mode (line 298) looks at nothing.  In the trace a view is added, with the
   flag of its constructor (`hiddenBySourceOnTop`, line 32), dropped on the focused
   window and edit mode is left: the flag says that it is hidden already.  The same
   state is reached when the source comes to the front during edit mode, which sets
   the flag without hiding (line 892), and when the option is turned on, with the
   source on top, for a view that still has the flag of its constructor.  There is no
   other way (`ExposedCauses`).
3. `mirror_adjusted`.  Typing a coordinate of the clip area in the Views tab, as
   `README.md:32` of the repository recommends, changes the view's region and not
   the mirror's (`MiniView.cpp:162-220`): a captured view goes on drawing the old
   one until it is dragged or matched to its source.
4. `commander_end`.  The destructor of a Commander, which "finishes all pending
   commands and kills the command thread" (`Commander.h:68`), can wait for ever:
   the thread changes the counter and notifies (`Commander.cpp:484-485`) without
   the mutex that `End` waits with, so both may happen between the test and the
   sleep.  Every synchronous call has the same gap, and the command thread has one of
   its own: a call that comes between its test of `hasCommandsToExecute` and its
   sleep is not executed before the next one, or a wake for no reason.  There is no third way to hang
   (`StuckWhenLost`), calls of `DoAcid` aside.

Three remarks that are no findings, since no run refutes a sentence for them.  A synchronous `DoAcid` never returns (`AcidWaits`):
it counts a call that is queued as one that nobody waits for (`Commander.cpp:91`,
94); no code of the repository makes such a call.  And `msPerFrame` is called the minimum time between
frames (`MiniViews.h:91`).  It is the minimum between two *requests*; a late frame
and a punctual one may follow each other at once.  What holds, and is proved, is
the bound over three frames.  And *Lock Size Ratio* "keeps the Mini Views width and
height in the same proportion" (`README.md:36` of the repository) less than it
says: a view that is dropped, matched or given a size in the Views tab keeps another
proportion in the cases that `RatioRemembered` names.

## 7. Plan

Done: all components with logic of their own.  What is left, in this order:

1. Nested dispatch in `MiniViews`: the context menu and the message box of
   `FrozenInfo` as two steps with any handler between them.
2. Frozen images: a source that stops giving a picture, with freezing as a choice
   of the environment.
3. The mirror's cases that `"hasty"` sets aside, and both dimensions, where one
   may have room and the other not.
