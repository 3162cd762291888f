-------------------------- MODULE MiniViewsProofs --------------------------
(***************************************************************************)
(* What holds of MiniViews for any views, any windows and any nesting of   *)
(* the windows.  Every safety property follows from one inductive          *)
(* invariant; the last part shows that MiniViews implements ViewLifecycle. *)
(***************************************************************************)
EXTENDS MiniViews, TLAPS

\* A view that is not in the list watches nothing; the refinement needs it.
ClosedWatchNothing == \A v \in Views \ live : source[v] = Desktop

Inv ==
  /\ TypeOK
  /\ EditModesAgree
  /\ SelectionHasTarget
  /\ RestOnlyWhenEmpty
  /\ HiddenForAReason
  /\ ClosedWatchNothing

LEMMA InitInv == Init => Inv
  BY WindowsAssumption DEF Init, Inv, TypeOK, EditModesAgree, SelectionHasTarget,
     RestOnlyWhenEmpty, HiddenForAReason, ClosedWatchNothing, Foregrounds, TopLevel

-----------------------------------------------------------------------------
(* Every action keeps the invariant. *)

LEMMA TypeStep == TypeOK /\ [Next]_vars => TypeOK'
<1> SUFFICES ASSUME TypeOK, [Next]_vars PROVE TypeOK'
  OBVIOUS
<1> USE WindowsAssumption DEF TypeOK, outside, selection, flags, Foregrounds
<1>1. CASE FocusChange
  BY <1>1 DEF FocusChange
<1>2. ASSUME NEW w \in Windows, WindowDestroyed(w) PROVE TypeOK'
  BY <1>2 DEF WindowDestroyed
<1>3. CASE ToggleEditMode
  BY <1>3 DEF ToggleEditMode, EditedShown
<1>4. CASE ClearMiniViews
  BY <1>4 DEF ClearMiniViews, NoViews, Idle
<1>5. CASE EndSetClipRegion
  BY <1>5 DEF EndSetClipRegion, ShowByParentRequests
<1>6. CASE MainWindowSized
  BY <1>6 DEF MainWindowSized, Wake
<1>7. CASE Quit
  BY <1>7 DEF Quit
<1>8. ASSUME NEW v \in Views, AddMiniView(v) PROVE TypeOK'
  BY <1>8 DEF AddMiniView, CreateView, Wake, Idle, EditedViews, EditedShown
<1>9. ASSUME NEW v \in Views, CloseButton(v) PROVE TypeOK'
  BY <1>9 DEF CloseButton, CloseMiniView, DestroyThis, Idle
<1>10. ASSUME NEW v \in Views, ContextClose(v) PROVE TypeOK'
  BY <1>10 DEF ContextClose, PostCloseMessage
<1>11. ASSUME NEW v \in Views, DropThrows(v) PROVE TypeOK'
  BY <1>11 DEF DropThrows
<1>12. ASSUME NEW v \in Views, CaptureThrows(v) PROVE TypeOK'
  BY <1>12 DEF CaptureThrows
<1>13. ASSUME NEW v \in Views, ToggleHideWhenSourceOnTop(v) PROVE TypeOK'
  BY <1>13 DEF ToggleHideWhenSourceOnTop, CheckHide
<1>14. ASSUME NEW v \in Views, SetClipRegion(v) PROVE TypeOK'
  BY <1>14 DEF SetClipRegion, HideByParentRequests, EditedViews, EditedShown
<1>15. ASSUME NEW v \in Views, NEW w \in Windows, DropMiniView(v, w) PROVE TypeOK'
  BY <1>15 DEF DropMiniView
<1>16. CASE BeginHalfSecond
  BY <1>16 DEF BeginHalfSecond, Wake
<1>17. CASE ExitProgram
  BY <1>17 DEF ExitProgram, NoViews
<1>18. ASSUME NEW v \in Views, ValidateView(v) PROVE TypeOK'
  BY <1>18 DEF ValidateView, PostCloseMessage, CheckHide
<1>19. ASSUME NEW v \in Views, HandleClose(v) PROVE TypeOK'
  BY <1>19 DEF HandleClose, CloseMiniView, DestroyThis, Idle
<1>20. CASE UNCHANGED vars
  BY <1>20 DEF vars
<1> QED
  BY <1>1, <1>2, <1>3, <1>4, <1>5, <1>6, <1>7, <1>8, <1>9, <1>10, <1>11,
     <1>12, <1>13, <1>14, <1>15, <1>16, <1>17, <1>18, <1>19, <1>20
     DEF Next, Outside, User, Machine

LEMMA EditModesStep ==
  TypeOK /\ EditModesAgree /\ [Next]_vars => EditModesAgree'
<1> SUFFICES ASSUME TypeOK, EditModesAgree, [Next]_vars
             PROVE  EditModesAgree'
  OBVIOUS
<1> USE DEF EditModesAgree, TypeOK, outside, selection, flags
<1>1. CASE FocusChange
  BY <1>1 DEF FocusChange
<1>2. ASSUME NEW w \in Windows, WindowDestroyed(w) PROVE EditModesAgree'
  BY <1>2 DEF WindowDestroyed
<1>3. CASE ToggleEditMode
  BY <1>3 DEF ToggleEditMode
<1>4. CASE ClearMiniViews
  BY <1>4 DEF ClearMiniViews, NoViews
<1>5. CASE EndSetClipRegion
  BY <1>5 DEF EndSetClipRegion
<1>6. CASE MainWindowSized
  BY <1>6 DEF MainWindowSized
<1>7. CASE Quit
  BY <1>7 DEF Quit
<1>8. ASSUME NEW v \in Views, AddMiniView(v) PROVE EditModesAgree'
  BY <1>8 DEF AddMiniView, CreateView, EditedViews
<1>9. ASSUME NEW v \in Views, CloseButton(v) PROVE EditModesAgree'
  BY <1>9 DEF CloseButton, CloseMiniView
<1>10. ASSUME NEW v \in Views, ContextClose(v) PROVE EditModesAgree'
  BY <1>10 DEF ContextClose
<1>11. ASSUME NEW v \in Views, DropThrows(v) PROVE EditModesAgree'
  BY <1>11 DEF DropThrows
<1>12. ASSUME NEW v \in Views, CaptureThrows(v) PROVE EditModesAgree'
  BY <1>12 DEF CaptureThrows
<1>13. ASSUME NEW v \in Views, ToggleHideWhenSourceOnTop(v) PROVE EditModesAgree'
  BY <1>13 DEF ToggleHideWhenSourceOnTop
<1>14. ASSUME NEW v \in Views, SetClipRegion(v) PROVE EditModesAgree'
  BY <1>14 DEF SetClipRegion, EditedViews
<1>15. ASSUME NEW v \in Views, NEW w \in Windows, DropMiniView(v, w)
      PROVE  EditModesAgree'
  BY <1>15 DEF DropMiniView
<1>16. CASE BeginHalfSecond
  BY <1>16 DEF BeginHalfSecond
<1>17. CASE ExitProgram
  BY <1>17 DEF ExitProgram, NoViews
<1>18. ASSUME NEW v \in Views, ValidateView(v) PROVE EditModesAgree'
  BY <1>18 DEF ValidateView
<1>19. ASSUME NEW v \in Views, HandleClose(v) PROVE EditModesAgree'
  BY <1>19 DEF HandleClose, CloseMiniView
<1>20. CASE UNCHANGED vars
  BY <1>20 DEF vars
<1> HIDE DEF EditModesAgree, TypeOK, outside, selection, flags
<1> QED
  BY <1>1, <1>2, <1>3, <1>4, <1>5, <1>6, <1>7, <1>8, <1>9, <1>10, <1>11,
     <1>12, <1>13, <1>14, <1>15, <1>16, <1>17, <1>18, <1>19, <1>20
     DEF Next, Outside, User, Machine

LEMMA SelectionStep ==
  TypeOK /\ SelectionHasTarget /\ [Next]_vars => SelectionHasTarget'
<1> SUFFICES ASSUME TypeOK, SelectionHasTarget, [Next]_vars
             PROVE  SelectionHasTarget'
  OBVIOUS
<1> USE WindowsAssumption DEF SelectionHasTarget, TypeOK, outside, selection,
    flags
<1>1. CASE FocusChange
  BY <1>1 DEF FocusChange
<1>2. ASSUME NEW w \in Windows, WindowDestroyed(w) PROVE SelectionHasTarget'
  BY <1>2 DEF WindowDestroyed
<1>3. CASE ToggleEditMode
  BY <1>3 DEF ToggleEditMode
<1>4. CASE ClearMiniViews
  BY <1>4 DEF ClearMiniViews, NoViews
<1>5. CASE EndSetClipRegion
  BY <1>5 DEF EndSetClipRegion, ShowByParentRequests
<1>6. CASE MainWindowSized
  BY <1>6 DEF MainWindowSized
<1>7. CASE Quit
  BY <1>7 DEF Quit
<1>8. ASSUME NEW v \in Views, AddMiniView(v) PROVE SelectionHasTarget'
  BY <1>8 DEF AddMiniView
<1>9. ASSUME NEW v \in Views, CloseButton(v) PROVE SelectionHasTarget'
  BY <1>9 DEF CloseButton, CloseMiniView
<1>10. ASSUME NEW v \in Views, ContextClose(v) PROVE SelectionHasTarget'
  BY <1>10 DEF ContextClose
<1>11. ASSUME NEW v \in Views, DropThrows(v) PROVE SelectionHasTarget'
  BY <1>11 DEF DropThrows
<1>12. ASSUME NEW v \in Views, CaptureThrows(v) PROVE SelectionHasTarget'
  BY <1>12 DEF CaptureThrows
<1>13. ASSUME NEW v \in Views, ToggleHideWhenSourceOnTop(v) PROVE SelectionHasTarget'
  BY <1>13 DEF ToggleHideWhenSourceOnTop
<1>14. ASSUME NEW v \in Views, SetClipRegion(v) PROVE SelectionHasTarget'
  BY <1>14 DEF SetClipRegion, HideByParentRequests
<1>15. ASSUME NEW v \in Views, NEW w \in Windows, DropMiniView(v, w)
      PROVE  SelectionHasTarget'
  BY <1>15 DEF DropMiniView
<1>16. CASE BeginHalfSecond
  BY <1>16 DEF BeginHalfSecond
<1>17. CASE ExitProgram
  BY <1>17 DEF ExitProgram, NoViews
<1>18. ASSUME NEW v \in Views, ValidateView(v) PROVE SelectionHasTarget'
  BY <1>18 DEF ValidateView
<1>19. ASSUME NEW v \in Views, HandleClose(v) PROVE SelectionHasTarget'
  BY <1>19 DEF HandleClose, CloseMiniView
<1>20. CASE UNCHANGED vars
  BY <1>20 DEF vars
<1> HIDE DEF SelectionHasTarget, TypeOK, outside, selection, flags
<1> QED
  BY <1>1, <1>2, <1>3, <1>4, <1>5, <1>6, <1>7, <1>8, <1>9, <1>10, <1>11,
     <1>12, <1>13, <1>14, <1>15, <1>16, <1>17, <1>18, <1>19, <1>20
     DEF Next, Outside, User, Machine

LEMMA RestStep ==
  TypeOK /\ RestOnlyWhenEmpty /\ [Next]_vars => RestOnlyWhenEmpty'
<1> SUFFICES ASSUME TypeOK, RestOnlyWhenEmpty, [Next]_vars
             PROVE  RestOnlyWhenEmpty'
  OBVIOUS
<1> USE DEF RestOnlyWhenEmpty, TypeOK, outside, selection, flags
<1>1. CASE FocusChange
  BY <1>1 DEF FocusChange
<1>2. ASSUME NEW w \in Windows, WindowDestroyed(w) PROVE RestOnlyWhenEmpty'
  BY <1>2 DEF WindowDestroyed
<1>3. CASE ToggleEditMode
  BY <1>3 DEF ToggleEditMode
<1>4. CASE ClearMiniViews
  BY <1>4 DEF ClearMiniViews, NoViews
<1>5. CASE EndSetClipRegion
  BY <1>5 DEF EndSetClipRegion
<1>6. CASE MainWindowSized
  BY <1>6 DEF MainWindowSized, Wake
<1>7. CASE Quit
  BY <1>7 DEF Quit
<1>8. ASSUME NEW v \in Views, AddMiniView(v) PROVE RestOnlyWhenEmpty'
  BY <1>8 DEF AddMiniView, Wake
<1>9. ASSUME NEW v \in Views, CloseButton(v) PROVE RestOnlyWhenEmpty'
  BY <1>9 DEF CloseButton, CloseMiniView
<1>10. ASSUME NEW v \in Views, ContextClose(v) PROVE RestOnlyWhenEmpty'
  BY <1>10 DEF ContextClose
<1>11. ASSUME NEW v \in Views, DropThrows(v) PROVE RestOnlyWhenEmpty'
  BY <1>11 DEF DropThrows
<1>12. ASSUME NEW v \in Views, CaptureThrows(v) PROVE RestOnlyWhenEmpty'
  BY <1>12 DEF CaptureThrows
<1>13. ASSUME NEW v \in Views, ToggleHideWhenSourceOnTop(v) PROVE RestOnlyWhenEmpty'
  BY <1>13 DEF ToggleHideWhenSourceOnTop
<1>14. ASSUME NEW v \in Views, SetClipRegion(v) PROVE RestOnlyWhenEmpty'
  BY <1>14 DEF SetClipRegion
<1>15. ASSUME NEW v \in Views, NEW w \in Windows, DropMiniView(v, w)
      PROVE  RestOnlyWhenEmpty'
  BY <1>15 DEF DropMiniView
<1>16. CASE BeginHalfSecond
  BY <1>16 DEF BeginHalfSecond, Wake
<1>17. CASE ExitProgram
  BY <1>17 DEF ExitProgram, NoViews
<1>18. ASSUME NEW v \in Views, ValidateView(v) PROVE RestOnlyWhenEmpty'
  BY <1>18 DEF ValidateView
<1>19. ASSUME NEW v \in Views, HandleClose(v) PROVE RestOnlyWhenEmpty'
  BY <1>19 DEF HandleClose, CloseMiniView
<1>20. CASE UNCHANGED vars
  BY <1>20 DEF vars
<1> HIDE DEF RestOnlyWhenEmpty, TypeOK, outside, selection, flags
<1> QED
  BY <1>1, <1>2, <1>3, <1>4, <1>5, <1>6, <1>7, <1>8, <1>9, <1>10, <1>11,
     <1>12, <1>13, <1>14, <1>15, <1>16, <1>17, <1>18, <1>19, <1>20
     DEF Next, Outside, User, Machine

LEMMA HiddenStep ==
  TypeOK /\ HiddenForAReason /\ [Next]_vars => HiddenForAReason'
<1> SUFFICES ASSUME TypeOK, HiddenForAReason, [Next]_vars
             PROVE  HiddenForAReason'
  OBVIOUS
<1> USE DEF HiddenForAReason, TypeOK, outside, selection, flags
<1>1. CASE FocusChange
  BY <1>1 DEF FocusChange
<1>2. ASSUME NEW w \in Windows, WindowDestroyed(w) PROVE HiddenForAReason'
  BY <1>2 DEF WindowDestroyed
<1>3. CASE ToggleEditMode
  BY <1>3 DEF ToggleEditMode, EditedShown, Idle
<1>4. CASE ClearMiniViews
  BY <1>4 DEF ClearMiniViews, NoViews
<1>5. CASE EndSetClipRegion
  BY <1>5 DEF EndSetClipRegion, ShowByParentRequests, Idle
<1>6. CASE MainWindowSized
  BY <1>6 DEF MainWindowSized
<1>7. CASE Quit
  BY <1>7 DEF Quit, Idle
<1>8. ASSUME NEW v \in Views, AddMiniView(v) PROVE HiddenForAReason'
  BY <1>8 DEF AddMiniView, CreateView, EditedShown, Idle
<1>9. ASSUME NEW v \in Views, CloseButton(v) PROVE HiddenForAReason'
  BY <1>9 DEF CloseButton, CloseMiniView, DestroyThis, Idle
<1>10. ASSUME NEW v \in Views, ContextClose(v) PROVE HiddenForAReason'
  BY <1>10 DEF ContextClose
<1>11. ASSUME NEW v \in Views, DropThrows(v) PROVE HiddenForAReason'
  BY <1>11 DEF DropThrows
<1>12. ASSUME NEW v \in Views, CaptureThrows(v) PROVE HiddenForAReason'
  BY <1>12 DEF CaptureThrows
<1>13. ASSUME NEW v \in Views, ToggleHideWhenSourceOnTop(v) PROVE HiddenForAReason'
  BY <1>13 DEF ToggleHideWhenSourceOnTop, CheckHide, Idle
<1>14. ASSUME NEW v \in Views, SetClipRegion(v) PROVE HiddenForAReason'
  BY <1>14 DEF SetClipRegion, HideByParentRequests, EditedShown, Idle
<1>15. ASSUME NEW v \in Views, NEW w \in Windows, DropMiniView(v, w)
      PROVE  HiddenForAReason'
  BY <1>15 DEF DropMiniView
<1>16. CASE BeginHalfSecond
  BY <1>16 DEF BeginHalfSecond, Idle
<1>17. CASE ExitProgram
  BY <1>17 DEF ExitProgram, NoViews
<1>18. ASSUME NEW v \in Views, ValidateView(v) PROVE HiddenForAReason'
  BY <1>18 DEF ValidateView, CheckHide
<1>19. ASSUME NEW v \in Views, HandleClose(v) PROVE HiddenForAReason'
  BY <1>19 DEF HandleClose, CloseMiniView, DestroyThis, Idle
<1>20. CASE UNCHANGED vars
  BY <1>20 DEF vars
<1> HIDE DEF HiddenForAReason, TypeOK, outside, selection, flags
<1> QED
  BY <1>1, <1>2, <1>3, <1>4, <1>5, <1>6, <1>7, <1>8, <1>9, <1>10, <1>11,
     <1>12, <1>13, <1>14, <1>15, <1>16, <1>17, <1>18, <1>19, <1>20
     DEF Next, Outside, User, Machine

LEMMA ClosedStep ==
  TypeOK /\ ClosedWatchNothing /\ [Next]_vars => ClosedWatchNothing'
<1> SUFFICES ASSUME TypeOK, ClosedWatchNothing, [Next]_vars
             PROVE  ClosedWatchNothing'
  OBVIOUS
<1> USE DEF ClosedWatchNothing, TypeOK, outside, selection, flags
<1>1. CASE FocusChange
  BY <1>1 DEF FocusChange
<1>2. ASSUME NEW w \in Windows, WindowDestroyed(w) PROVE ClosedWatchNothing'
  BY <1>2 DEF WindowDestroyed
<1>3. CASE ToggleEditMode
  BY <1>3 DEF ToggleEditMode
<1>4. CASE ClearMiniViews
  BY <1>4 DEF ClearMiniViews, NoViews
<1>5. CASE EndSetClipRegion
  BY <1>5 DEF EndSetClipRegion
<1>6. CASE MainWindowSized
  BY <1>6 DEF MainWindowSized
<1>7. CASE Quit
  BY <1>7 DEF Quit
<1>8. ASSUME NEW v \in Views, AddMiniView(v) PROVE ClosedWatchNothing'
  BY <1>8 DEF AddMiniView, CreateView
<1>9. ASSUME NEW v \in Views, CloseButton(v) PROVE ClosedWatchNothing'
  BY <1>9 DEF CloseButton, CloseMiniView
<1>10. ASSUME NEW v \in Views, ContextClose(v) PROVE ClosedWatchNothing'
  BY <1>10 DEF ContextClose
<1>11. ASSUME NEW v \in Views, DropThrows(v) PROVE ClosedWatchNothing'
  BY <1>11 DEF DropThrows
<1>12. ASSUME NEW v \in Views, CaptureThrows(v) PROVE ClosedWatchNothing'
  BY <1>12 DEF CaptureThrows
<1>13. ASSUME NEW v \in Views, ToggleHideWhenSourceOnTop(v) PROVE ClosedWatchNothing'
  BY <1>13 DEF ToggleHideWhenSourceOnTop
<1>14. ASSUME NEW v \in Views, SetClipRegion(v) PROVE ClosedWatchNothing'
  BY <1>14 DEF SetClipRegion
<1>15. ASSUME NEW v \in Views, NEW w \in Windows, DropMiniView(v, w)
      PROVE  ClosedWatchNothing'
  BY <1>15 DEF DropMiniView
<1>16. CASE BeginHalfSecond
  BY <1>16 DEF BeginHalfSecond
<1>17. CASE ExitProgram
  BY <1>17 DEF ExitProgram, NoViews
<1>18. ASSUME NEW v \in Views, ValidateView(v) PROVE ClosedWatchNothing'
  BY <1>18 DEF ValidateView
<1>19. ASSUME NEW v \in Views, HandleClose(v) PROVE ClosedWatchNothing'
  BY <1>19 DEF HandleClose, CloseMiniView
<1>20. CASE UNCHANGED vars
  BY <1>20 DEF vars
<1> HIDE DEF ClosedWatchNothing, TypeOK, outside, selection, flags
<1> QED
  BY <1>1, <1>2, <1>3, <1>4, <1>5, <1>6, <1>7, <1>8, <1>9, <1>10, <1>11,
     <1>12, <1>13, <1>14, <1>15, <1>16, <1>17, <1>18, <1>19, <1>20
     DEF Next, Outside, User, Machine

LEMMA StepInv == Inv /\ [Next]_vars => Inv'
  BY TypeStep, EditModesStep, SelectionStep, RestStep, HiddenStep, ClosedStep
     DEF Inv

LEMMA SpecInv == Spec => []Inv
<1>1. Init => Inv
  BY InitInv
<1>2. Inv /\ [Next]_vars => Inv'
  BY StepInv
<1> QED
  BY <1>1, <1>2, PTL DEF Spec

-----------------------------------------------------------------------------
(* The properties of the runs, for all values of the constants *)

\* The flags of MiniView, the queue of close messages and the walk of
\* RunHalfSecondActions never name a view that left currMiniViews.
THEOREM TypeCorrect == Spec => []TypeOK
<1>1. Inv => TypeOK
  BY DEF Inv
<1> QED
  BY SpecInv, <1>1, PTL

\* ToggleEditMode, and the three operations that force edit mode on, keep
\* MiniViews::editMode and the editMode of every view in step.
THEOREM EditModesAlwaysAgree == Spec => []EditModesAgree
<1>1. Inv => EditModesAgree
  BY DEF Inv
<1> QED
  BY SpecInv, <1>1, PTL

\* The mouse is never released on a selection with a null target.
THEOREM SelectionAlwaysHasTarget == Spec => []SelectionHasTarget
<1>1. Inv => SelectionHasTarget
  BY DEF Inv
<1> QED
  BY SpecInv, <1>1, PTL

\* Rest and Wake: no mini view is ever left under the other windows.
THEOREM NeverRestsWithViews == Spec => []RestOnlyWhenEmpty
<1>1. Inv => RestOnlyWhenEmpty
  BY DEF Inv
<1> QED
  BY SpecInv, <1>1, PTL

\* No interleaving of hiding and showing leaves a placed view invisible with
\* both its flags clear (ShowByParentRequest, CheckHideBySourceOnTop).
THEOREM AlwaysHiddenForAReason == Spec => []HiddenForAReason
<1>1. Inv => HiddenForAReason
  BY DEF Inv
<1> QED
  BY SpecInv, <1>1, PTL

\* What a selection hid comes back in its way by edit mode or by its own option
\* only (HideByParentRequest, hiddenByParent in CheckHideBySourceOnTop).
THEOREM SelectionAlwaysStaysClear == Spec => SelectionStaysClear
<1> DEFINE Clear ==
      \A v \in byParent' \cap shown' :
        \/ v \in byParent \cap shown
        \/ v \in byParent /\ ~editMode /\ editMode'
        \/ v \in byParent \cap bySource \cap (hideWhen \ hideWhen')
<1>1. ASSUME Inv, [Next]_vars PROVE Clear
  <2> USE <1>1 DEF Inv, TypeOK, outside, selection, flags
  <2>1. CASE FocusChange
    BY <2>1 DEF FocusChange
  <2>2. ASSUME NEW w \in Windows, WindowDestroyed(w) PROVE Clear
    BY <2>2 DEF WindowDestroyed
  <2>3. CASE ToggleEditMode
    BY <2>3 DEF ToggleEditMode, EditedShown
  <2>4. CASE ClearMiniViews
    BY <2>4 DEF ClearMiniViews, NoViews
  <2>5. CASE EndSetClipRegion
    BY <2>5 DEF EndSetClipRegion, ShowByParentRequests
  <2>6. CASE MainWindowSized \/ Quit
    BY <2>6 DEF MainWindowSized, Quit
  <2>7. ASSUME NEW v \in Views, AddMiniView(v) PROVE Clear
    BY <2>7 DEF AddMiniView, CreateView, EditedShown
  <2>8. ASSUME NEW v \in Views, CloseButton(v) \/ HandleClose(v) PROVE Clear
    BY <2>8 DEF CloseButton, HandleClose, CloseMiniView, DestroyThis
  <2>9. ASSUME NEW v \in Views, ContextClose(v) \/ DropThrows(v) \/ CaptureThrows(v)
        PROVE  Clear
    BY <2>9 DEF ContextClose, DropThrows, CaptureThrows
  <2>10. ASSUME NEW v \in Views, ToggleHideWhenSourceOnTop(v) PROVE Clear
    BY <2>10 DEF ToggleHideWhenSourceOnTop, CheckHide
  <2>11. ASSUME NEW v \in Views, SetClipRegion(v) PROVE Clear
    BY <2>11 DEF SetClipRegion, HideByParentRequests, EditedShown
  <2>12. ASSUME NEW v \in Views, NEW w \in Windows, DropMiniView(v, w) PROVE Clear
    BY <2>12 DEF DropMiniView
  <2>13. CASE BeginHalfSecond
    BY <2>13 DEF BeginHalfSecond
  <2>14. CASE ExitProgram
    BY <2>14 DEF ExitProgram, NoViews
  <2>15. ASSUME NEW v \in Views, ValidateView(v) PROVE Clear
    BY <2>15 DEF ValidateView, CheckHide
  <2>16. CASE UNCHANGED vars
    BY <2>16 DEF vars
  <2> HIDE DEF Clear
  <2> QED
    BY <2>1, <2>2, <2>3, <2>4, <2>5, <2>6, <2>7, <2>8, <2>9, <2>10, <2>11,
       <2>12, <2>13, <2>14, <2>15, <2>16 DEF Next, Outside, User, Machine
<1>2. Inv /\ [Next]_vars => [Clear]_vars
  BY <1>1
<1> QED
  BY SpecInv, <1>2, PTL DEF Spec, SelectionStaysClear

\* Nothing adds or removes a view while RunHalfSecondActions walks the list.
THEOREM ListAlwaysStableInFrame == Spec => ListStableInFrame
<1>1. ASSUME [Next]_vars, checking # {} PROVE live' = live
  BY <1>1 DEF Next, Outside, User, Machine, vars, Idle, FocusChange,
     WindowDestroyed, ToggleEditMode, ClearMiniViews, EndSetClipRegion,
     MainWindowSized, Quit, AddMiniView, CloseButton, ContextClose,
     DropThrows, CaptureThrows, ToggleHideWhenSourceOnTop, SetClipRegion, DropMiniView,
     BeginHalfSecond, ExitProgram, ValidateView, HandleClose
<1>2. [Next]_vars => [checking # {} => live' = live]_vars
  BY <1>1
<1> QED
  BY <1>2, PTL DEF Spec, ListStableInFrame

-----------------------------------------------------------------------------
(* MiniViews implements ViewLifecycle. *)

LEMMA LifecycleInit == Init => Lifecycle!Init
  BY DEF Init, Running, Lifecycle!Init

\* Most actions leave the life of the views alone.
LEMMA LifecycleStutter ==
  ASSUME UNCHANGED <<live, setting, source>>, Running' = Running
  PROVE  UNCHANGED Lifecycle!vars
  BY DEF Lifecycle!vars

LEMMA LifecycleClose ==
  ASSUME Inv, NEW v \in live, Running, UNCHANGED status, CloseMiniView(v)
  PROVE  Lifecycle!Next
<1>1. Lifecycle!Close(v)
  BY DEF Inv, TypeOK, CloseMiniView, Running, Lifecycle!Close
<1> QED
  BY <1>1 DEF Lifecycle!Next, Inv, TypeOK

\* So do those that may end the program with an exception, when they do not.
LEMMA LifecycleFall ==
  ASSUME Running, UNCHANGED <<live, setting, source>>,
         UNCHANGED status \/ status' = "crashed"
  PROVE  Lifecycle!Next \/ UNCHANGED Lifecycle!vars
<1>1. CASE UNCHANGED status
  BY <1>1, LifecycleStutter DEF Running
<1>2. CASE status' = "crashed"
  <2>1. Lifecycle!End
    BY <1>2 DEF Running, Lifecycle!End
  <2> QED
    BY <2>1 DEF Lifecycle!Next
<1> QED
  BY <1>1, <1>2

LEMMA LifecycleStep ==
  Inv /\ [Next]_vars => Lifecycle!Next \/ UNCHANGED Lifecycle!vars
<1> DEFINE Goal == Lifecycle!Next \/ UNCHANGED Lifecycle!vars
<1> SUFFICES ASSUME Inv, [Next]_vars PROVE Goal
  OBVIOUS
<1> USE DEF outside, selection, flags
<1>1. CASE ClearMiniViews
  <2>1. Lifecycle!CloseAll
    BY <1>1 DEF ClearMiniViews, NoViews, Idle, Running, Lifecycle!CloseAll
  <2> QED
    BY <2>1 DEF Lifecycle!Next
<1>2. CASE EndSetClipRegion
  BY <1>2, LifecycleFall DEF EndSetClipRegion, Idle, Running
<1>3. ASSUME NEW v \in Views, AddMiniView(v) PROVE Goal
  <2>1. CASE CreateView(v)
    <3>1. Lifecycle!Open(v)
      BY <1>3, <2>1 DEF AddMiniView, CreateView, Idle, Running, Inv, TypeOK,
         ClosedWatchNothing, Lifecycle!Open
    <3> QED
      BY <3>1 DEF Lifecycle!Next
  <2>2. CASE UNCHANGED <<live, source, setting>>
    BY <1>3, <2>2, LifecycleStutter DEF AddMiniView, Running
  <2> QED
    BY <1>3, <2>1, <2>2 DEF AddMiniView
<1>4. ASSUME NEW v \in Views, CloseButton(v) PROVE Goal
  BY <1>4, LifecycleClose DEF CloseButton, Idle, Running, Inv, TypeOK
<1>5. ASSUME NEW v \in Views, HandleClose(v) PROVE Goal
  BY <1>5, LifecycleClose DEF HandleClose, Idle, Running, Inv, TypeOK
<1>6. ASSUME NEW v \in Views, DropThrows(v) \/ CaptureThrows(v) \/ ValidateView(v)
      PROVE  Goal
  BY <1>6, LifecycleFall DEF DropThrows, CaptureThrows, ValidateView, Idle, Running
<1>7. ASSUME NEW v \in Views, NEW w \in Windows, DropMiniView(v, w) PROVE Goal
  <2>1. Lifecycle!Place(v, w)
    BY <1>7 DEF DropMiniView, Idle, Running, Inv, TypeOK, Lifecycle!Place
  <2> QED
    BY <2>1 DEF Lifecycle!Next
<1>8. CASE ExitProgram
  <2>1. Lifecycle!End
    BY <1>8 DEF ExitProgram, NoViews, Running, Lifecycle!End
  <2> QED
    BY <2>1 DEF Lifecycle!Next
<1>9. CASE BeginHalfSecond \/ Quit
  BY <1>9, LifecycleStutter DEF BeginHalfSecond, Quit, Idle, Running
<1>10. CASE \/ UNCHANGED vars \/ FocusChange \/ ToggleEditMode
           \/ MainWindowSized
  BY <1>10, LifecycleStutter
     DEF vars, FocusChange, ToggleEditMode, MainWindowSized, Running
<1>11. ASSUME NEW w \in Windows, WindowDestroyed(w) PROVE Goal
  BY <1>11, LifecycleStutter DEF WindowDestroyed, Running
<1>12. ASSUME NEW v \in Views,
              \/ ContextClose(v) \/ ToggleHideWhenSourceOnTop(v)
              \/ SetClipRegion(v)
       PROVE  Goal
  BY <1>12, LifecycleStutter DEF ContextClose, ToggleHideWhenSourceOnTop,
     SetClipRegion, Running
<1> HIDE DEF Goal, outside, selection, flags
<1> QED
  BY <1>1, <1>2, <1>3, <1>4, <1>5, <1>6, <1>7, <1>8, <1>9, <1>10,
     <1>11, <1>12
     DEF Next, Outside, User, Machine

\* Whatever the messages, frames and other programs do, a mini view is placed
\* once, keeps its source until it is closed, and none changes after the end.
THEOREM ImplementsLifecycle == Spec => LifecycleSpec
<1>1. Init => Lifecycle!Init
  BY LifecycleInit
<1>2. Inv /\ [Next]_vars => [Lifecycle!Next]_(Lifecycle!vars)
  BY LifecycleStep
<1> QED
  BY SpecInv, <1>1, <1>2, PTL DEF Spec, LifecycleSpec, Lifecycle!Spec

-----------------------------------------------------------------------------
(* How a view comes to be hidden for nothing, and stays so. *)

\* Placed views for which the option is off, hidden and not for a selection.
Stranded == {v \in live \ setting : v \notin shown \cup byParent \cup hideWhen}

\* Views that still have the hiddenBySourceOnTop of their constructor, and with it the
\* option off.
NeverSet == bySource \ hideWhen

\* A view is left hidden with the option off by the end of a selection and by nothing
\* else (ShowByParentRequest skips the views that are hiddenBySourceOnTop).
StrandedBySelection == [][Stranded' \subseteq Stranded \/ EndSetClipRegion]_vars

THEOREM OnlyStrandedBySelection == Spec => StrandedBySelection
<1> DEFINE Goal == Stranded' \subseteq Stranded \/ EndSetClipRegion
<1>1. ASSUME Inv, [Next]_vars PROVE Goal
  <2> USE <1>1 DEF Inv, TypeOK, HiddenForAReason, Stranded, outside, selection, flags
  <2>1. CASE Outside
    BY <2>1 DEF Outside, FocusChange, WindowDestroyed
  <2>2. CASE ToggleEditMode
    BY <2>2 DEF ToggleEditMode, EditedShown
  <2>3. CASE ClearMiniViews \/ ExitProgram
    BY <2>3 DEF ClearMiniViews, ExitProgram, NoViews
  <2>4. CASE EndSetClipRegion
    BY <2>4
  <2>5. CASE MainWindowSized \/ Quit \/ BeginHalfSecond
    BY <2>5 DEF MainWindowSized, Quit, BeginHalfSecond
  <2>6. ASSUME NEW v \in Views, AddMiniView(v) PROVE Goal
    BY <2>6 DEF AddMiniView, CreateView, EditedShown
  <2>7. ASSUME NEW v \in Views, CloseButton(v) \/ HandleClose(v) PROVE Goal
    BY <2>7 DEF CloseButton, HandleClose, CloseMiniView, DestroyThis
  <2>8. ASSUME NEW v \in Views, ContextClose(v) \/ CaptureThrows(v) PROVE Goal
    BY <2>8 DEF ContextClose, CaptureThrows
  <2>9. ASSUME NEW v \in Views, DropThrows(v) PROVE Goal
    BY <2>9 DEF DropThrows
  <2>10. ASSUME NEW v \in Views, ToggleHideWhenSourceOnTop(v) PROVE Goal
    BY <2>10 DEF ToggleHideWhenSourceOnTop, CheckHide
  <2>11. ASSUME NEW v \in Views, SetClipRegion(v) PROVE Goal
    BY <2>11 DEF SetClipRegion, HideByParentRequests, EditedShown
  <2>12. ASSUME NEW v \in Views, NEW w \in Windows, DropMiniView(v, w) PROVE Goal
    BY <2>12 DEF DropMiniView
  <2>13. ASSUME NEW v \in Views, ValidateView(v) PROVE Goal
    BY <2>13 DEF ValidateView, CheckHide
  <2>14. CASE UNCHANGED vars
    BY <2>14 DEF vars
  <2> HIDE DEF Goal
  <2> QED
    BY <2>1, <2>2, <2>3, <2>4, <2>5, <2>6, <2>7, <2>8, <2>9, <2>10, <2>11, <2>12, <2>13,
       <2>14 DEF Next, User, Machine
<1> QED
  BY SpecInv, <1>1, PTL DEF Spec, StrandedBySelection

\* Only a view for which the option was never on can be left hidden: from the time the
\* option is on, the flag and the option agree about it until it is closed.
StrandedNeverSet ==
  [][Stranded' \subseteq NeverSet' /\ NeverSet' \cap live \subseteq NeverSet]_vars

THEOREM OnlyNeverSetStranded == Spec => StrandedNeverSet
<1> DEFINE Goal == NeverSet' \cap live \subseteq NeverSet
<1>1. ASSUME Inv, [Next]_vars PROVE Goal
  <2> USE <1>1 DEF Inv, TypeOK, NeverSet, outside, selection, flags
  <2>1. CASE Outside
    BY <2>1 DEF Outside, FocusChange, WindowDestroyed
  <2>2. CASE ClearMiniViews \/ ExitProgram
    BY <2>2 DEF ClearMiniViews, ExitProgram, NoViews
  <2>3. CASE ToggleEditMode \/ EndSetClipRegion \/ MainWindowSized \/ Quit \/ BeginHalfSecond
    BY <2>3 DEF ToggleEditMode, EndSetClipRegion, MainWindowSized, Quit, BeginHalfSecond
  <2>4. ASSUME NEW v \in Views, AddMiniView(v) PROVE Goal
    BY <2>4 DEF AddMiniView, CreateView
  <2>5. ASSUME NEW v \in Views, CloseButton(v) \/ HandleClose(v) PROVE Goal
    BY <2>5 DEF CloseButton, HandleClose, CloseMiniView
  <2>6. ASSUME NEW v \in Views,
               \/ ContextClose(v) \/ CaptureThrows(v) \/ DropThrows(v) \/ SetClipRegion(v)
        PROVE  Goal
    BY <2>6 DEF ContextClose, CaptureThrows, DropThrows, SetClipRegion
  <2>7. ASSUME NEW v \in Views, ToggleHideWhenSourceOnTop(v) PROVE Goal
    BY <2>7 DEF ToggleHideWhenSourceOnTop, CheckHide
  <2>8. ASSUME NEW v \in Views, NEW w \in Windows, DropMiniView(v, w) PROVE Goal
    BY <2>8 DEF DropMiniView
  <2>9. ASSUME NEW v \in Views, ValidateView(v) PROVE Goal
    BY <2>9 DEF ValidateView, CheckHide
  <2>10. CASE UNCHANGED vars
    BY <2>10 DEF vars
  <2> HIDE DEF Goal
  <2> QED
    BY <2>1, <2>2, <2>3, <2>4, <2>5, <2>6, <2>7, <2>8, <2>9, <2>10 DEF Next, User, Machine
<1>2. Inv' => Stranded' \subseteq NeverSet'
  BY DEF Inv, HiddenForAReason, Stranded, NeverSet
<1> QED
  BY SpecInv, <1>1, <1>2, PTL DEF Spec, StrandedNeverSet

\* What shows a view again that is hidden for nothing: edit mode, or the option turned
\* on.  No frame, no focus and no end of another selection does.
StrandedLasts ==
  [][\/ Stranded \cap shown' \subseteq hideWhen'
     \/ ~editMode /\ editMode']_vars

THEOREM StrandedAlwaysLasts == Spec => StrandedLasts
<1> DEFINE Goal == Stranded \cap shown' \subseteq hideWhen' \/ (~editMode /\ editMode')
<1>1. ASSUME Inv, [Next]_vars PROVE Goal
  <2> USE <1>1 DEF Inv, TypeOK, HiddenForAReason, Stranded, outside, selection, flags
  <2>1. ASSUME shown' \subseteq shown PROVE Goal
    BY <2>1
  <2>2. CASE Outside \/ UNCHANGED vars
    BY <2>1, <2>2 DEF Outside, FocusChange, WindowDestroyed, vars
  <2>3. CASE ToggleEditMode
    BY <2>3 DEF ToggleEditMode, EditedShown
  <2>4. CASE ClearMiniViews \/ ExitProgram
    BY <2>1, <2>4 DEF ClearMiniViews, ExitProgram, NoViews
  <2>5. CASE EndSetClipRegion
    BY <2>5 DEF EndSetClipRegion, ShowByParentRequests
  <2>6. CASE MainWindowSized \/ Quit \/ BeginHalfSecond
    BY <2>1, <2>6 DEF MainWindowSized, Quit, BeginHalfSecond
  <2>7. ASSUME NEW v \in Views, AddMiniView(v) PROVE Goal
    BY <2>7 DEF AddMiniView, CreateView, EditedShown
  <2>8. ASSUME NEW v \in Views, CloseButton(v) \/ HandleClose(v) PROVE Goal
    BY <2>1, <2>8 DEF CloseButton, HandleClose, CloseMiniView, DestroyThis
  <2>9. ASSUME NEW v \in Views, ContextClose(v) \/ CaptureThrows(v) \/ DropThrows(v)
        PROVE  Goal
    BY <2>1, <2>9 DEF ContextClose, CaptureThrows, DropThrows
  <2>10. ASSUME NEW v \in Views, ToggleHideWhenSourceOnTop(v) PROVE Goal
    BY <2>10 DEF ToggleHideWhenSourceOnTop, CheckHide
  <2>11. ASSUME NEW v \in Views, SetClipRegion(v) PROVE Goal
    BY <2>11 DEF SetClipRegion, HideByParentRequests, EditedShown
  <2>12. ASSUME NEW v \in Views, NEW w \in Windows, DropMiniView(v, w) PROVE Goal
    BY <2>1, <2>12 DEF DropMiniView
  <2>13. ASSUME NEW v \in Views, ValidateView(v) PROVE Goal
    BY <2>13 DEF ValidateView, CheckHide
  <2> HIDE DEF Goal
  <2> QED
    BY <2>2, <2>3, <2>4, <2>5, <2>6, <2>7, <2>8, <2>9, <2>10, <2>11, <2>12, <2>13
       DEF Next, User, Machine
<1> QED
  BY SpecInv, <1>1, PTL DEF Spec, StrandedLasts

-----------------------------------------------------------------------------
(* How a view comes to stay over the source that has the focus. *)

\* Views that pass for hidden by their source and are visible.
Exposed == hideWhen \cap bySource \cap shown

\* Outside of edit mode, the frame leaves a view visible whose source is on top only
\* when it passes for hidden already.
OnlyExposedStay ==
  [][\A v \in checking \ checking' :
       v \in hideWhen /\ ~editMode /\ OnTop(v) /\ v \in shown' => v \in Exposed]_vars

THEOREM AlwaysOnlyExposedStay == Spec => OnlyExposedStay
<1> DEFINE Goal ==
      \A v \in checking \ checking' :
        v \in hideWhen /\ ~editMode /\ OnTop(v) /\ v \in shown' => v \in Exposed
<1>1. ASSUME Inv, [Next]_vars PROVE Goal
  <2> SUFFICES ASSUME NEW v \in checking \ checking',
                      v \in hideWhen, ~editMode, OnTop(v), v \in shown'
               PROVE  v \in Exposed
    OBVIOUS
  <2>1. v \in Views /\ v \notin inEdit
    BY <1>1 DEF Inv, TypeOK, EditModesAgree
  <2>2. ValidateView(v)
    BY <1>1 DEF Next, Outside, User, Machine, vars, Idle, FocusChange,
       WindowDestroyed, ToggleEditMode, ClearMiniViews, EndSetClipRegion,
       MainWindowSized, Quit, AddMiniView, CloseButton, ContextClose,
       DropThrows, CaptureThrows, ToggleHideWhenSourceOnTop, SetClipRegion, DropMiniView,
       BeginHalfSecond, ExitProgram, ValidateView, HandleClose
  <2>3. SourceExists(v)
    BY DEF OnTop, SourceExists
  <2> QED
    BY <2>1, <2>2, <2>3 DEF ValidateView, CheckHide, Exposed
<1> QED
  BY SpecInv, <1>1, PTL DEF Spec, OnlyExposedStay

\* A view comes to pass for hidden while it is visible in edit mode only, in which it is
\* so from its constructor on, or when the option is turned on for a view that still has
\* the constructor's flag; leaving edit mode looks at neither.
ExposedCauses ==
  [][editMode' \/ Exposed' \subseteq Exposed \cup NeverSet]_vars

THEOREM AlwaysExposedCauses == Spec => ExposedCauses
<1> DEFINE Goal == editMode' \/ Exposed' \subseteq Exposed \cup NeverSet
<1>1. ASSUME Inv, [Next]_vars PROVE Goal
  <2> USE <1>1 DEF Inv, TypeOK, EditModesAgree, Exposed, NeverSet, outside, selection, flags
  <2>1. CASE Outside \/ UNCHANGED vars
    BY <2>1 DEF Outside, FocusChange, WindowDestroyed, vars
  <2>2. CASE ToggleEditMode
    BY <2>2 DEF ToggleEditMode, EditedShown
  <2>3. CASE ClearMiniViews \/ ExitProgram
    BY <2>3 DEF ClearMiniViews, ExitProgram, NoViews
  <2>4. CASE EndSetClipRegion
    BY <2>4 DEF EndSetClipRegion, ShowByParentRequests
  <2>5. CASE MainWindowSized \/ Quit \/ BeginHalfSecond
    BY <2>5 DEF MainWindowSized, Quit, BeginHalfSecond
  <2>6. ASSUME NEW v \in Views, AddMiniView(v) \/ SetClipRegion(v) PROVE Goal
    BY <2>6 DEF AddMiniView, SetClipRegion
  <2>7. ASSUME NEW v \in Views, CloseButton(v) \/ HandleClose(v) PROVE Goal
    BY <2>7 DEF CloseButton, HandleClose, CloseMiniView, DestroyThis
  <2>8. ASSUME NEW v \in Views, ContextClose(v) \/ CaptureThrows(v) \/ DropThrows(v)
        PROVE  Goal
    BY <2>8 DEF ContextClose, CaptureThrows, DropThrows
  <2>9. ASSUME NEW v \in Views, ToggleHideWhenSourceOnTop(v) PROVE Goal
    BY <2>9 DEF ToggleHideWhenSourceOnTop, CheckHide
  <2>10. ASSUME NEW v \in Views, NEW w \in Windows, DropMiniView(v, w) PROVE Goal
    BY <2>10 DEF DropMiniView
  <2>11. ASSUME NEW v \in Views, ValidateView(v) PROVE Goal
    BY <2>11 DEF ValidateView, CheckHide
  <2> HIDE DEF Goal
  <2> QED
    BY <2>1, <2>2, <2>3, <2>4, <2>5, <2>6, <2>7, <2>8, <2>9, <2>10, <2>11
       DEF Next, User, Machine
<1> QED
  BY SpecInv, <1>1, PTL DEF Spec, ExposedCauses

-----------------------------------------------------------------------------
(* What the frames achieve, whoever comes between two visits. *)

\* A view that is not placed yet watches the desktop.
PlacingWatchNothing == \A v \in setting : source[v] = Desktop

LEMMA PlacingStep == TypeOK /\ PlacingWatchNothing /\ [Next]_vars => PlacingWatchNothing'
<1> SUFFICES ASSUME TypeOK, PlacingWatchNothing, [Next]_vars PROVE PlacingWatchNothing'
  OBVIOUS
<1> USE DEF TypeOK, PlacingWatchNothing, outside, selection, flags
<1>1. ASSUME UNCHANGED source, setting' \subseteq setting PROVE PlacingWatchNothing'
  BY <1>1
<1>2. CASE Outside \/ UNCHANGED vars
  BY <1>1, <1>2 DEF Outside, FocusChange, WindowDestroyed, vars
<1>3. CASE ClearMiniViews \/ ExitProgram
  BY <1>3 DEF ClearMiniViews, ExitProgram, NoViews
<1>4. CASE ToggleEditMode \/ EndSetClipRegion \/ MainWindowSized \/ Quit \/ BeginHalfSecond
  BY <1>1, <1>4 DEF ToggleEditMode, EndSetClipRegion, MainWindowSized, Quit, BeginHalfSecond
<1>5. ASSUME NEW v \in Views, AddMiniView(v) PROVE PlacingWatchNothing'
  BY <1>5 DEF AddMiniView, CreateView
<1>6. ASSUME NEW v \in Views, CloseButton(v) \/ HandleClose(v) PROVE PlacingWatchNothing'
  BY <1>6 DEF CloseButton, HandleClose, CloseMiniView
<1>7. ASSUME NEW v \in Views,
             \/ ContextClose(v) \/ CaptureThrows(v) \/ DropThrows(v) \/ SetClipRegion(v)
             \/ ToggleHideWhenSourceOnTop(v) \/ ValidateView(v)
      PROVE  PlacingWatchNothing'
  BY <1>1, <1>7 DEF ContextClose, CaptureThrows, DropThrows, SetClipRegion,
     ToggleHideWhenSourceOnTop, ValidateView
<1>8. ASSUME NEW v \in Views, NEW w \in Windows, DropMiniView(v, w)
      PROVE  PlacingWatchNothing'
  BY <1>8 DEF DropMiniView
<1> HIDE DEF TypeOK, PlacingWatchNothing, outside, selection, flags
<1> QED
  BY <1>2, <1>3, <1>4, <1>5, <1>6, <1>7, <1>8 DEF Next, User, Machine

\* Views whose source is destroyed.
Gone == {v \in live : ~SourceExists(v)}

\* A view whose source is gone never gets another, the frame that visits it leaves a
\* WM_CLOSE for it, and that WM_CLOSE waits until the view is closed: what SourceGoneCloses
\* needs of every step, and only the loop's progress is left to fairness.
GoneAreClosed ==
  [][/\ Gone \cap live' \subseteq Gone'
     /\ Gone \cap checking \subseteq checking' \cup closing'
     /\ closing \cap live' \subseteq closing']_vars

THEOREM GoneAlwaysClosed == Spec => GoneAreClosed
<1> DEFINE Goal == /\ Gone \cap live' \subseteq Gone'
                   /\ Gone \cap checking \subseteq checking' \cup closing'
                   /\ closing \cap live' \subseteq closing'
<1>1. ASSUME Inv, PlacingWatchNothing, [Next]_vars PROVE Goal
  <2> USE <1>1, WindowsAssumption
      DEF Inv, TypeOK, Gone, SourceExists, outside, selection, flags
  <2>1. ASSUME UNCHANGED source, windows' \subseteq windows,
               checking \subseteq checking', closing \cap live' \subseteq closing'
        PROVE  Goal
    <3>1. Desktop \notin windows
      OBVIOUS
    <3>2. Gone \cap live' \subseteq Gone'
      BY <2>1, <3>1
    <3> QED
      BY <2>1, <3>2
  <2>2. CASE Outside \/ UNCHANGED vars
    BY <2>1, <2>2 DEF Outside, FocusChange, WindowDestroyed, vars
  <2>3. CASE ClearMiniViews \/ ExitProgram
    BY <2>3 DEF ClearMiniViews, ExitProgram, NoViews, Idle
  <2>4. CASE \/ ToggleEditMode \/ EndSetClipRegion \/ MainWindowSized \/ Quit
             \/ BeginHalfSecond
    BY <2>1, <2>4 DEF ToggleEditMode, EndSetClipRegion, MainWindowSized, Quit,
       BeginHalfSecond, Idle
  <2>5. ASSUME NEW v \in Views, AddMiniView(v) PROVE Goal
    <3>1. /\ v \notin live /\ UNCHANGED <<windows, checking, closing>>
          /\ \A x \in live : source'[x] = source[x]
      BY <2>5 DEF AddMiniView, CreateView
    <3> QED
      BY <3>1
  <2>6. ASSUME NEW v \in Views, CloseButton(v) \/ HandleClose(v) PROVE Goal
    <3>1. /\ live' = live \ {v} /\ closing' = closing \ {v}
          /\ UNCHANGED <<windows, checking>> /\ checking = {}
          /\ \A x \in live \ {v} : source'[x] = source[x]
      BY <2>6 DEF CloseButton, HandleClose, CloseMiniView, DestroyThis, Idle
    <3> QED
      BY <3>1
  <2>7. ASSUME NEW v \in Views,
               \/ ContextClose(v) \/ CaptureThrows(v) \/ DropThrows(v) \/ SetClipRegion(v)
               \/ ToggleHideWhenSourceOnTop(v)
        PROVE  Goal
    BY <2>1, <2>7 DEF ContextClose, PostCloseMessage, CaptureThrows, DropThrows,
       SetClipRegion, ToggleHideWhenSourceOnTop
  <2>8. ASSUME NEW v \in Views, NEW w \in Windows, DropMiniView(v, w) PROVE Goal
    <3>1. /\ v \notin Gone /\ UNCHANGED <<windows, checking, closing, live>>
          /\ \A x \in live \ {v} : source'[x] = source[x]
      BY <2>8 DEF DropMiniView, PlacingWatchNothing
    <3>2. checking = {}
      BY <2>8 DEF DropMiniView, Idle
    <3> QED
      BY <3>1, <3>2
  <2>9. ASSUME NEW v \in Views, ValidateView(v) PROVE Goal
    <3>1. UNCHANGED <<live, windows, source>> /\ closing \subseteq closing'
      BY <2>9 DEF ValidateView, PostCloseMessage
    <3>2. checking' = checking \ {v} /\ (v \in Gone => v \in closing')
      BY <2>9 DEF ValidateView, PostCloseMessage
    <3> QED
      BY <3>1, <3>2
  <2> HIDE DEF Goal
  <2> QED
    BY <2>2, <2>3, <2>4, <2>5, <2>6, <2>7, <2>8, <2>9 DEF Next, User, Machine
<1>2. Init => PlacingWatchNothing
  BY DEF Init, PlacingWatchNothing
<1>3. Inv /\ PlacingWatchNothing /\ [Next]_vars => PlacingWatchNothing'
  BY PlacingStep DEF Inv
<1> QED
  BY SpecInv, <1>1, <1>2, <1>3, PTL DEF Spec, GoneAreClosed

\* A placed view that hides when its source is on top is visible after a frame visited
\* it with its source elsewhere, or it is hidden for a selection: whatever hid it, no
\* second visit is needed.
VisitShows ==
  [][\A v \in (checking \ checking') \ setting :
       v \in hideWhen /\ SourceExists(v) /\ ~OnTop(v) => v \in shown' \cup byParent']_vars

THEOREM VisitAlwaysShows == Spec => VisitShows
<1> DEFINE Goal ==
      \A v \in (checking \ checking') \ setting :
        v \in hideWhen /\ SourceExists(v) /\ ~OnTop(v) => v \in shown' \cup byParent'
<1>1. ASSUME Inv, [Next]_vars PROVE Goal
  <2> SUFFICES ASSUME NEW v \in (checking \ checking') \ setting,
                      v \in hideWhen, SourceExists(v), ~OnTop(v)
               PROVE  v \in shown' \cup byParent'
    OBVIOUS
  <2>1. v \in live
    BY <1>1 DEF Inv, TypeOK
  <2>2. ValidateView(v)
    BY <1>1 DEF Next, Outside, User, Machine, vars, Idle, FocusChange,
       WindowDestroyed, ToggleEditMode, ClearMiniViews, EndSetClipRegion,
       MainWindowSized, Quit, AddMiniView, CloseButton, ContextClose,
       DropThrows, CaptureThrows, ToggleHideWhenSourceOnTop, SetClipRegion, DropMiniView,
       BeginHalfSecond, ExitProgram, ValidateView, HandleClose
  <2>3. byParent' = byParent /\ CheckHide(v, hideWhen, bySource, shown)
    BY <2>2 DEF ValidateView
  <2> QED
    BY <1>1, <2>1, <2>3 DEF Inv, HiddenForAReason, CheckHide
<1> QED
  BY SpecInv, <1>1, PTL DEF Spec, VisitShows
=============================================================================
