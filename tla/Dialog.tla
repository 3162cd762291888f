------------------------------- MODULE Dialog -------------------------------
(***************************************************************************)
(* The main dialog in the running program: the Views tab (ViewsTab) and    *)
(* the Advanced tab with the preferences (Preferences) share the window,   *)
(* which one double click creates or destroys for both, only one of them   *)
(* is in sight, and the end of the program ends both.                      *)
(***************************************************************************)
EXTENDS ViewsTab, Integers

CONSTANTS Typed, MaxOpacity, Absent, NoBoxes

ASSUME OpacityAssumption ==
  /\ Typed \subseteq Int
  /\ MaxOpacity \in Nat
  /\ Absent \notin Int

VARIABLES
  running, reg, key, cached, assigned, boxes, icon, lastActionClearedSettings, cleared

Advanced == INSTANCE Preferences

dialogVars == <<vars, Advanced!vars>>

\* All of Preferences but the window
settings == <<running, reg, key, cached, assigned, boxes, icon,
              lastActionClearedSettings, cleared>>

\* All of ViewsTab but the window
views == <<list, tree, selected, onTab, typed>>

DialogInit == Init /\ Advanced!Init

\* The views and the tab go with the program
Quit ==
  /\ Advanced!Exit
  /\ list' = <<>> /\ tree' = <<>>
  /\ selected' = NoView /\ typed' = NoView
  /\ onTab' = FALSE

DialogNext ==
  \/ running /\ WithinDialog /\ UNCHANGED settings
  \/ OpenDialog /\ Advanced!OpenDialog
  \/ CloseDialog /\ Advanced!CloseDialog
  \/ ~onTab /\ Advanced!AdvancedTab /\ UNCHANGED views
  \/ Advanced!RunHalfSecondActions /\ UNCHANGED views
  \/ Advanced!Run /\ UNCHANGED views
  \/ Quit

DialogSpec == DialogInit /\ [][DialogNext]_dialogVars

-----------------------------------------------------------------------------
(* Properties of Preferences, here of the program with its whole dialog *)

\* See Preferences: an assigned value is the saved one.
SavedIsUsed == Advanced!SavedIsUsed

\* See Preferences: a running program has a dialog or wants an icon.
Reachable == Advanced!Reachable

\* See Preferences: the boxes show what is used.
BoxesTell == Advanced!BoxesTell

\* See Preferences: what was cleared stays cleared.
ClearedStays == Advanced!ClearedStays

\* See Preferences: only the user changes what is used.
OnlyUserChanges == Advanced!OnlyUserChanges
=============================================================================
