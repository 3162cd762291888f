----------------------------- MODULE ViewsTab ------------------------------
(***************************************************************************)
(* The Views tab of the main dialog: a tree with an item for every mini    *)
(* view and fields that show and edit the selected one.  The tree is a     *)
(* copy of currMiniViews, made by RefreshWindow(true, ...) when views are  *)
(* added and closed and when the tab comes into sight, but not when all    *)
(* views are cleared; an item names its view by its position.  The fields  *)
(* are the user's between two refreshes.                                   *)
(*                                                                         *)
(* The tree and currMiniView hold shared pointers, so a view here is an    *)
(* object, which can outlive its window.  What a view does with an edit is *)
(* left out.                                                               *)
(*                                                                         *)
(* A definition whose name ends in an underscore and a word is the one     *)
(* below it with a fault put in; see the module MiniViews.                 *)
(***************************************************************************)
EXTENDS SequencesExt

CONSTANTS
  Views,    \* the MiniView objects
  NoView,   \* currMiniView is null
  MaxViews  \* a bound on the views that are open at one time

ASSUME ViewsAssumption ==
  /\ NoView \notin Views
  /\ MaxViews \in Nat

VARIABLES
  list,      \* currMiniViews
  tree,      \* currTreeItems, in the order of the items of the tree
  selected,  \* currMiniView
  dialog,    \* the window of the dialog exists
  onTab,     \* selectedTab = TabId::ViewsTab
  typed      \* for which view the user has typed a number that is not applied

vars == <<list, tree, selected, dialog, onTab, typed>>

Showing == dialog /\ onTab

Init ==
  /\ list = <<>> /\ tree = <<>>
  /\ selected = NoView /\ typed = NoView
  /\ dialog \in BOOLEAN
  /\ onTab = FALSE

-----------------------------------------------------------------------------
(* RefreshWindow *)

\* RefreshWindow(false, ...) ends by writing the fields of currMiniView, or by
\* emptying them.
RefreshFields == typed' = NoView

\* The tree reselects while its items are deleted one by one, so the selection
\* may move to any listed view; one that is not listed gives way to the first.
RebuildTree_KeepFields ==
  /\ tree' = list'
  /\ selected' \in (IF list' = <<>> THEN {NoView} ELSE ToSet(list'))
  /\ UNCHANGED typed
RebuildTree ==
  /\ tree' = list'
  /\ selected' \in (IF list' = <<>> THEN {NoView} ELSE ToSet(list'))
  /\ RefreshFields

\* MainDialog::RefreshViewsTab(true, true)
RefreshViewsTab ==
  \/ Showing /\ RebuildTree
  \/ ~Showing /\ UNCHANGED <<tree, selected, typed>>

-----------------------------------------------------------------------------
(* What happens to the views *)

\* The new view is another object than any the tab still holds.
AddMiniView(v) ==
  /\ Len(list) < MaxViews
  /\ v \notin ToSet(list) \cup ToSet(tree) \cup {selected}
  /\ \/ list' = Append(list, v)
     \/ UNCHANGED list  \* CreateThis failed
  /\ RefreshViewsTab
  /\ UNCHANGED <<dialog, onTab>>

CloseMiniView_Quiet(v) ==
  /\ \E i \in DOMAIN list : list[i] = v /\ list' = RemoveAt(list, i)
  /\ UNCHANGED <<tree, selected, typed, dialog, onTab>>
CloseMiniView(v) ==
  /\ \E i \in DOMAIN list : list[i] = v /\ list' = RemoveAt(list, i)
  /\ RefreshViewsTab
  /\ UNCHANGED <<dialog, onTab>>

\* The tab is not told.
ClearMiniViews ==
  /\ list' = <<>>
  /\ UNCHANGED <<tree, selected, dialog, onTab, typed>>

\* A view is moved, dropped or changed from its menu.
NotifyChange ==
  /\ list # <<>>
  /\ Showing
  /\ RefreshFields
  /\ UNCHANGED <<list, tree, selected, dialog, onTab>>

-----------------------------------------------------------------------------
(* The dialog and the user *)

OpenDialog ==
  /\ ~dialog
  /\ dialog' = TRUE
  /\ UNCHANGED <<list, onTab>>
  /\ \/ onTab /\ RebuildTree
     \/ ~onTab /\ UNCHANGED <<tree, selected, typed>>

\* The items and the fields go, currTreeItems and currMiniView stay.
CloseDialog ==
  /\ dialog
  /\ dialog' = FALSE
  /\ typed' = NoView
  /\ UNCHANGED <<list, tree, selected, onTab>>

ShowTab_Lazy ==
  /\ dialog /\ ~onTab
  /\ onTab' = TRUE
  /\ UNCHANGED <<list, tree, selected, dialog, typed>>
ShowTab ==
  /\ dialog /\ ~onTab
  /\ onTab' = TRUE
  /\ UNCHANGED <<list, dialog>>
  /\ RebuildTree

\* NotifyEditFocusLost, when the focus leaves the field and when the tab is
\* hidden: the number goes to the view that is selected now.
Apply ==
  /\ Showing
  /\ typed # NoView
  /\ RefreshFields
  /\ UNCHANGED <<list, tree, selected, dialog, onTab>>

LeaveTab ==
  /\ Showing
  /\ onTab' = FALSE
  /\ RefreshFields
  /\ UNCHANGED <<list, tree, selected, dialog>>

Type ==
  /\ Showing
  /\ selected # NoView
  /\ typed' = selected
  /\ UNCHANGED <<list, tree, selected, dialog, onTab>>

\* NotifyTreeItemSelected, with the position of the item in the tree
SelectItem(i) ==
  /\ Showing
  /\ i \in DOMAIN tree
  /\ selected' = IF i \in DOMAIN list THEN list[i] ELSE NoView
  /\ RefreshFields
  /\ UNCHANGED <<list, tree, dialog, onTab>>

\* What leaves the dialog open or closed
WithinDialog ==
  \/ \E v \in Views : AddMiniView(v) \/ CloseMiniView(v)
  \/ ClearMiniViews \/ NotifyChange
  \/ ShowTab \/ LeaveTab
  \/ Type \/ Apply
  \/ \E i \in 1 .. MaxViews : SelectItem(i)

Next == WithinDialog \/ OpenDialog \/ CloseDialog

Spec == Init /\ [][Next]_vars

-----------------------------------------------------------------------------
(* Properties *)

\* Every variable has its type; no view is listed twice.
TypeOK ==
  /\ list \in Seq(Views) /\ IsInjective(list) /\ Len(list) <= MaxViews
  /\ tree \in Seq(Views) /\ IsInjective(tree) /\ Len(tree) <= MaxViews
  /\ selected \in Views \cup {NoView}
  /\ typed \in Views \cup {NoView}
  /\ dialog \in BOOLEAN /\ onTab \in BOOLEAN

\* As soon as there is a view to show, the tree is currMiniViews, position by
\* position, the fields are those of a listed view or of none, and no closed
\* view is kept alive, though ClearMiniViews leaves the tab as it was and
\* views come and go while it is out of sight.
TabFollowsList ==
  Showing /\ list # <<>> =>
    /\ tree = list
    /\ selected \in ToSet(list) \cup {NoView}

\* An item clicked is the item selected: its position, taken when the tree was
\* built, is never that of another view (NotifyTreeItemSelected).
ClickSelectsItem ==
  [][\A i \in DOMAIN tree : SelectItem(i) => selected' \in {tree[i], NoView}]_vars

\* A number is applied to the view it was typed for, also when that view is
\* closed under the user's hands and the selection moves
\* (NotifyEditFocusLost, RefreshWindow).
TypedForSelected == typed # NoView => Showing /\ typed = selected
=============================================================================
