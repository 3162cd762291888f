---------------------------- MODULE Preferences -----------------------------
(***************************************************************************)
(* The preferences: values in the registry, each with a cached copy in the *)
(* running program, the boxes of the Advanced tab that show and change     *)
(* them, and what they decide: whether the program has a notification icon *)
(* and whether its dialog opens at the start.                              *)
(*                                                                         *)
(* Three preferences stand for the thirteen: the two that decide something *)
(* here and the one that is typed.  A check box is 0 or 1.  A value that   *)
(* is asked for is read from the registry as long as none was found there  *)
(* or the last write failed.                                               *)
(*                                                                         *)
(* A definition whose name ends in an underscore and a word is the one     *)
(* below it with a fault put in; see the module MiniViews.                 *)
(***************************************************************************)
EXTENDS Integers, Sequences

CONSTANTS
  Typed,       \* the numbers a user types as the default opacity
  MaxOpacity,  \* 255
  Absent,      \* there is no such value in the registry
  NoBoxes      \* there is no dialog

VARIABLES
  running,
  reg,       \* the values in the registry
  key,       \* the key of Mini Views exists in the registry
  cached,    \* cachedValue
  assigned,  \* isAssigned
  boxes,     \* what the Advanced tab shows
  dialog,    \* the window of the dialog exists
  icon,      \* there is a notification icon
  lastActionClearedSettings,
  cleared    \* all was cleared and nothing was asked since; nothing depends on it

store == <<reg, key>>
copy  == <<cached, assigned>>
vars  == <<running, store, copy, boxes, dialog, icon, lastActionClearedSettings, cleared>>

\* In the order in which ClearSavedPreferences clears them
Names == <<"ShowDialogOnStart", "UseNotificationIcon", "DefaultOpacity">>

Prefs == {Names[i] : i \in DOMAIN Names}
Checks == Prefs \ {"DefaultOpacity"}

Default == [p \in Prefs |-> 1]

Unread == [p \in Prefs |-> FALSE]

Init ==
  /\ running = FALSE
  /\ reg = [p \in Prefs |-> Absent]
  /\ key = FALSE
  /\ cached = Default
  /\ assigned = Unread
  /\ boxes = NoBoxes
  /\ dialog = FALSE
  /\ icon = FALSE
  /\ lastActionClearedSettings = FALSE
  /\ cleared = FALSE

-----------------------------------------------------------------------------
(* Reading and writing *)

\* What Get returns for the cached copy c, assigned or not (a)
Got(p, c, a) == IF ~a[p] /\ reg'[p] # Absent THEN reg'[p] ELSE c[p]

\* Get of the preferences in some, after the step has left the copy c and a
Read(some, c, a) ==
  /\ cached' = [p \in Prefs |-> IF p \in some THEN Got(p, c, a) ELSE c[p]]
  /\ assigned' = [p \in Prefs |-> a[p] \/ (p \in some /\ reg'[p] # Absent)]

\* AdvancedWindow::RefreshWindow, and CreateSubWindows
RefreshWindow(c, a) ==
  /\ Read(Prefs, c, a)
  /\ boxes' = cached'

\* CreateOrSetDword, which makes the key when there is none
Written(p, v) ==
  /\ reg' = [reg EXCEPT ![p] = v]
  /\ key' = TRUE

-----------------------------------------------------------------------------
(* The program *)

Run_ByChoiceOnly ==
  /\ ~running
  /\ running' = TRUE
  /\ UNCHANGED <<store, cleared>>
  /\ lastActionClearedSettings' = FALSE
  /\ dialog' = (Got("ShowDialogOnStart", Default, Unread) = 1)
  /\ \/ icon' = (Got("UseNotificationIcon", Default, Unread) = 1)
     \/ icon' = FALSE
  /\ IF dialog' THEN RefreshWindow(Default, Unread)
               ELSE Read(Prefs, Default, Unread) /\ UNCHANGED boxes

\* The constructor of MiniViews and Run up to its loop; the icon may fail
Run ==
  /\ ~running
  /\ running' = TRUE
  /\ UNCHANGED <<store, cleared>>
  /\ lastActionClearedSettings' = FALSE
  /\ dialog' = \/ Got("ShowDialogOnStart", Default, Unread) = 1
               \/ Got("UseNotificationIcon", Default, Unread) = 0
  /\ \/ icon' = (Got("UseNotificationIcon", Default, Unread) = 1)
     \/ icon' = FALSE
  /\ IF dialog' THEN RefreshWindow(Default, Unread)
               ELSE Read(Prefs, Default, Unread) /\ UNCHANGED boxes

\* The end of Run; without CreateKey it failed or the program was killed
Exit ==
  /\ running
  /\ running' = FALSE
  /\ key' \in IF lastActionClearedSettings THEN {key} ELSE {key, TRUE}
  /\ boxes' = NoBoxes
  /\ dialog' = FALSE
  /\ icon' = FALSE
  /\ cached' = Default
  /\ assigned' = Unread
  /\ UNCHANGED <<reg, lastActionClearedSettings, cleared>>

RunHalfSecondActions ==
  /\ running
  /\ UNCHANGED <<running, store, boxes, dialog, lastActionClearedSettings, cleared>>
  /\ Read({"UseNotificationIcon"}, cached, assigned)
  /\ \/ icon' = (icon \/ cached'["UseNotificationIcon"] = 1)
     \/ UNCHANGED icon

\* A double click on the icon, or the message of a second instance
OpenDialog ==
  /\ running
  /\ ~dialog
  /\ dialog' = TRUE
  /\ UNCHANGED <<running, store, icon, lastActionClearedSettings, cleared>>
  /\ RefreshWindow(cached, assigned)

\* A double click on the icon, or the dialog is minimized to it, if so preferred
CloseDialog ==
  /\ running
  /\ dialog
  /\ dialog' = FALSE
  /\ boxes' = NoBoxes
  /\ UNCHANGED <<running, store, icon, lastActionClearedSettings, cleared>>
  /\ \/ icon /\ UNCHANGED copy
     \/ /\ Read({"UseNotificationIcon"}, cached, assigned)
        /\ cached'["UseNotificationIcon"] = 1

-----------------------------------------------------------------------------
(* The Advanced tab *)

\* NotifyButtonClicked for a check box, which Windows has toggled by itself; the
\* write may fail
CheckClicked_RefreshedWhenSaved(p) ==
  /\ dialog
  /\ lastActionClearedSettings' = FALSE
  /\ cleared' = FALSE
  /\ icon' = (icon /\ p # "UseNotificationIcon")
  /\ UNCHANGED <<running, dialog>>
  /\ LET c == [cached EXCEPT ![p] = 1 - @]
     IN  \/ Written(p, c[p]) /\ RefreshWindow(c, [assigned EXCEPT ![p] = TRUE])
         \/ /\ UNCHANGED store
            /\ cached' = c
            /\ assigned' = [assigned EXCEPT ![p] = FALSE]
            /\ boxes' = [boxes EXCEPT ![p] = 1 - @]

CheckClicked(p) ==
  /\ dialog
  /\ lastActionClearedSettings' = FALSE
  /\ cleared' = FALSE
  /\ icon' = (icon /\ p # "UseNotificationIcon")
  /\ UNCHANGED <<running, dialog>>
  /\ LET c == [cached EXCEPT ![p] = 1 - @]
     IN  \/ Written(p, c[p]) /\ RefreshWindow(c, [assigned EXCEPT ![p] = TRUE])
         \/ UNCHANGED store /\ RefreshWindow(c, [assigned EXCEPT ![p] = FALSE])

\* NotifyEditUpdated: the field keeps what was typed
OpacityTyped(n) ==
  /\ dialog
  /\ boxes' = [boxes EXCEPT !["DefaultOpacity"] = n]
  /\ cleared' = FALSE
  /\ UNCHANGED <<running, dialog, icon, lastActionClearedSettings>>
  /\ LET v == IF n > MaxOpacity THEN MaxOpacity ELSE IF n < 0 THEN 0 ELSE n
     IN  /\ cached' = [cached EXCEPT !["DefaultOpacity"] = v]
         /\ \/ /\ Written("DefaultOpacity", v)
               /\ assigned' = [assigned EXCEPT !["DefaultOpacity"] = TRUE]
            \/ /\ UNCHANGED store
               /\ assigned' = [assigned EXCEPT !["DefaultOpacity"] = FALSE]

\* ClearSavedPreferences: the values before one that fails, or all of them, and
\* then the key
ClearValues(n) ==
  reg' = [p \in Prefs |-> IF \E i \in 1 .. n : p = Names[i] THEN Absent ELSE reg[p]]

ClearKey(n) ==
  /\ key' \in IF n = Len(Names) THEN {FALSE, key} ELSE {key}
  /\ cleared' = (n = Len(Names) /\ ~key')

ClearSavedSettings_StillAssigned ==
  /\ dialog
  /\ lastActionClearedSettings' = TRUE
  /\ UNCHANGED <<running, dialog, icon>>
  /\ \E n \in 0 .. Len(Names) :
       /\ ClearValues(n)
       /\ ClearKey(n)
       /\ RefreshWindow(cached, assigned)

ClearSavedSettings_EditNotified ==
  /\ dialog
  /\ lastActionClearedSettings' = TRUE
  /\ UNCHANGED <<running, dialog, icon>>
  /\ \E n \in 0 .. Len(Names) :
       /\ ClearKey(n)
       /\ reg' = [p \in Prefs |-> IF p = "DefaultOpacity" THEN cached[p]
                                 ELSE IF \E i \in 1 .. n : p = Names[i] THEN Absent
                                 ELSE reg[p]]
       /\ RefreshWindow(cached, Unread)

ClearSavedSettings_Defaults ==
  /\ dialog
  /\ lastActionClearedSettings' = TRUE
  /\ UNCHANGED <<running, dialog, icon>>
  /\ \E n \in 0 .. Len(Names) :
       /\ ClearValues(n)
       /\ ClearKey(n)
       /\ RefreshWindow(Default, [p \in Prefs |-> assigned[p] /\ \A i \in 1 .. n : p # Names[i]])

\* The button; nothing that is cleared is assigned any more
ClearSavedSettings ==
  /\ dialog
  /\ lastActionClearedSettings' = TRUE
  /\ UNCHANGED <<running, dialog, icon>>
  /\ \E n \in 0 .. Len(Names) :
       /\ ClearValues(n)
       /\ ClearKey(n)
       /\ RefreshWindow(cached, [p \in Prefs |-> assigned[p] /\ \A i \in 1 .. n : p # Names[i]])

\* The tab comes into sight
ShowAdvanced ==
  /\ dialog
  /\ UNCHANGED <<running, store, dialog, icon, lastActionClearedSettings, cleared>>
  /\ RefreshWindow(cached, assigned)

AdvancedTab ==
  \/ \E p \in Checks : CheckClicked(p)
  \/ \E n \in Typed : OpacityTyped(n)
  \/ ClearSavedSettings
  \/ ShowAdvanced

Next ==
  \/ Run \/ Exit \/ RunHalfSecondActions
  \/ OpenDialog \/ CloseDialog
  \/ AdvancedTab

Spec == Init /\ [][Next]_vars

-----------------------------------------------------------------------------
(* Properties *)

\* What the program uses, what Get returns
InUse(p) == IF ~assigned[p] /\ reg[p] # Absent THEN reg[p] ELSE cached[p]

\* What the program uses is what it would find after a restart, as long as a value
\* was found or the last write of it succeeded; the copy is never taken for a saved
\* value that was cleared meanwhile (RegistryValue::Clear).
SavedIsUsed ==
  running => \A p \in Prefs : assigned[p] => reg[p] = cached[p]

\* A running program has its dialog open or wants a notification icon, which the
\* next half second creates; without both it could not be reached or ended, since
\* its windows have no button in the task bar (Run, SysCommand, ToggleShown).
Reachable == running => dialog \/ InUse("UseNotificationIcon") = 1

\* The boxes of the Advanced tab show what the program uses, also after a write has
\* failed or the settings were cleared.
BoxesTell == running /\ dialog => \A p \in Checks : boxes[p] = InUse(p)

\* After Clear Saved Settings has succeeded nothing is in the registry until the user
\* sets something: neither the field that is rewritten, nor reading, nor a restart
\* puts a value there, and the end of the program does not put the key there.
ClearedStays ==
  cleared =>
    /\ \A p \in Prefs : reg[p] = Absent
    /\ lastActionClearedSettings => ~key

\* In a running program a check box means the same until it is clicked: no reading, no
\* failed write of another value, no new dialog and no clearing of the registry, whole or
\* half, changes it behind the user's back.  An opacity that could not be saved is
\* different: it is used once the old one is cleared (RegistryValue::Get).
OnlyUserChanges ==
  [][running /\ running' =>
       /\ \A p \in Checks : InUse(p)' # InUse(p) => CheckClicked(p)
       /\ InUse("DefaultOpacity")' # InUse("DefaultOpacity") =>
            ClearSavedSettings \/ \E n \in Typed : OpacityTyped(n)]_vars
=============================================================================
