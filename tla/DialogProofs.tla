---------------------------- MODULE DialogProofs ----------------------------
(***************************************************************************)
(* What holds of the program with its dialog (Dialog) for any views, any   *)
(* bound on them and any numbers typed.  The Views tab and the preferences *)
(* share nothing but the window of the dialog, so each has an inductive    *)
(* invariant of its own.                                                   *)
(***************************************************************************)
EXTENDS Dialog, TLAPS

-----------------------------------------------------------------------------
(* The Views tab *)

TabInv == TypeOK /\ TabFollowsList /\ TypedForSelected

LEMMA ConcatType ==
  ASSUME NEW S, NEW a \in Seq(S), NEW b \in Seq(S)
  PROVE  /\ a \o b \in Seq(S)
         /\ Len(a \o b) = Len(a) + Len(b)
         /\ \A k \in 1 .. Len(a) : (a \o b)[k] = a[k]
         /\ \A k \in Len(a) + 1 .. Len(a) + Len(b) : (a \o b)[k] = b[k - Len(a)]
  OBVIOUS

LEMMA SubSeqType ==
  ASSUME NEW S, NEW s \in Seq(S), NEW m \in 1 .. Len(s) + 1, NEW n \in 0 .. Len(s),
         m <= n + 1
  PROVE  /\ SubSeq(s, m, n) \in Seq(S)
         /\ Len(SubSeq(s, m, n)) = n + 1 - m
         /\ \A k \in 1 .. n + 1 - m : SubSeq(s, m, n)[k] = s[m + k - 1]
  OBVIOUS

\* Erasing the view at position i leaves a list without repetition.
LEMMA RemoveAtType ==
  ASSUME NEW S, NEW s \in Seq(S), IsInjective(s), NEW i \in DOMAIN s
  PROVE  /\ RemoveAt(s, i) \in Seq(S)
         /\ IsInjective(RemoveAt(s, i))
         /\ Len(RemoveAt(s, i)) = Len(s) - 1
<1>1. Len(s) \in Nat /\ i \in 1 .. Len(s) /\ DOMAIN s = 1 .. Len(s)
  OBVIOUS
<1>a. PICK a : a = SubSeq(s, 1, i - 1)
  OBVIOUS
<1>b. PICK b : b = SubSeq(s, i + 1, Len(s))
  OBVIOUS
<1>2. /\ a \in Seq(S)
      /\ Len(a) = i - 1
      /\ \A k \in 1 .. i - 1 : a[k] = s[k]
  <2>1. 1 \in 1 .. Len(s) + 1 /\ i - 1 \in 0 .. Len(s) /\ 1 <= (i - 1) + 1
    BY <1>1
  <2>2. /\ a \in Seq(S)
        /\ Len(a) = (i - 1) + 1 - 1
        /\ \A k \in 1 .. (i - 1) + 1 - 1 : a[k] = s[1 + k - 1]
    BY <2>1, <1>a, SubSeqType
  <2> QED
    BY <1>1, <2>2
<1>3. /\ b \in Seq(S)
      /\ Len(b) = Len(s) - i
      /\ \A k \in 1 .. Len(s) - i : b[k] = s[i + k]
  <2>1. i + 1 \in 1 .. Len(s) + 1 /\ Len(s) \in 0 .. Len(s) /\ i + 1 <= Len(s) + 1
    BY <1>1
  <2>2. /\ b \in Seq(S)
        /\ Len(b) = Len(s) + 1 - (i + 1)
        /\ \A k \in 1 .. Len(s) + 1 - (i + 1) : b[k] = s[(i + 1) + k - 1]
    BY <2>1, <1>b, SubSeqType
  <2>3. \A k \in 1 .. Len(s) - i : (i + 1) + k - 1 = i + k
    BY <1>1
  <2> QED
    BY <1>1, <2>2, <2>3
<1>4. PICK r : r = RemoveAt(s, i)
  OBVIOUS
<1>5. r = a \o b
  BY <1>a, <1>b, <1>4 DEF RemoveAt
<1>6. r \in Seq(S) /\ Len(r) = Len(s) - 1
  <2>1. r \in Seq(S) /\ Len(r) = Len(a) + Len(b)
    BY <1>2, <1>3, <1>5, ConcatType
  <2>2. Len(a) + Len(b) = Len(s) - 1
    BY <1>1, <1>2, <1>3
  <2> QED
    BY <2>1, <2>2
<1>7. \A k \in 1 .. Len(s) - 1 : r[k] = IF k < i THEN s[k] ELSE s[k + 1]
  <2> TAKE k \in 1 .. Len(s) - 1
  <2>1. CASE k < i
    BY <1>1, <1>2, <1>3, <1>5, <2>1, ConcatType
  <2>2. CASE k >= i
    <3>1. k \in Len(a) + 1 .. Len(a) + Len(b) /\ k - Len(a) \in 1 .. Len(s) - i
      BY <1>1, <1>2, <1>3, <2>2
    <3>2. r[k] = b[k - Len(a)]
      BY <1>5, <3>1, ConcatType
    <3>3. b[k - Len(a)] = s[i + (k - Len(a))]
      BY <1>3, <3>1
    <3>4. i + (k - Len(a)) = k + 1 /\ ~(k < i)
      BY <1>1, <1>2, <2>2
    <3> QED
      BY <3>2, <3>3, <3>4
  <2> QED
    BY <1>1, <2>1, <2>2
<1>8. IsInjective(r)
  <2> SUFFICES ASSUME NEW j \in 1 .. Len(s) - 1, NEW k \in 1 .. Len(s) - 1, r[j] = r[k]
               PROVE  j = k
    BY <1>1, <1>6 DEF IsInjective
  <2> QED
    BY <1>1, <1>7 DEF IsInjective
<1> QED
  BY <1>4, <1>6, <1>8

LEMMA AppendType ==
  ASSUME NEW S, NEW s \in Seq(S), IsInjective(s), NEW v \in S, v \notin ToSet(s)
  PROVE  /\ Append(s, v) \in Seq(S)
         /\ IsInjective(Append(s, v))
         /\ Len(Append(s, v)) = Len(s) + 1
<1>1. \A k \in 1 .. Len(s) : s[k] # v
  BY DEF ToSet
<1> QED
  BY <1>1 DEF IsInjective

\* A tab without views, before the program runs and after it.
LEMMA TabEmpty ==
  /\ Init => TabInv
  /\ /\ list' = <<>> /\ tree' = <<>> /\ selected' = NoView /\ typed' = NoView
     /\ onTab' = FALSE /\ dialog' = FALSE
     => TabInv'
<1>1. <<>> \in Seq(Views) /\ Len(<<>>) = 0 /\ IsInjective(<<>>)
  BY DEF IsInjective
<1>2. ASSUME Init PROVE TabInv
  <2>1. list \in Seq(Views) /\ IsInjective(list) /\ Len(list) <= MaxViews
    BY <1>1, <1>2, ViewsAssumption DEF Init
  <2>2. tree \in Seq(Views) /\ IsInjective(tree) /\ Len(tree) <= MaxViews
    BY <1>1, <1>2, ViewsAssumption DEF Init
  <2>3. selected \in Views \cup {NoView} /\ typed \in Views \cup {NoView}
    BY <1>2 DEF Init
  <2>4. dialog \in BOOLEAN /\ onTab \in BOOLEAN
    BY <1>2 DEF Init
  <2>5. TypeOK
    BY <2>1, <2>2, <2>3, <2>4 DEF TypeOK
  <2>6. TabFollowsList /\ TypedForSelected
    BY <1>2 DEF Init, TabFollowsList, TypedForSelected, Showing
  <2> QED
    BY <2>5, <2>6 DEF TabInv
<1>3. ASSUME list' = <<>>, tree' = <<>>, selected' = NoView, typed' = NoView,
             onTab' = FALSE, dialog' = FALSE
      PROVE  TabInv'
  <2>1. list' \in Seq(Views) /\ IsInjective(list') /\ Len(list') <= MaxViews
    BY <1>1, <1>3, ViewsAssumption
  <2>2. tree' \in Seq(Views) /\ IsInjective(tree') /\ Len(tree') <= MaxViews
    BY <1>1, <1>3, ViewsAssumption
  <2>3. selected' \in Views \cup {NoView} /\ typed' \in Views \cup {NoView}
    BY <1>3
  <2>4. dialog' \in BOOLEAN /\ onTab' \in BOOLEAN
    BY <1>3
  <2>5. TypeOK'
    BY <2>1, <2>2, <2>3, <2>4 DEF TypeOK
  <2>6. TabFollowsList' /\ TypedForSelected'
    BY <1>3 DEF TabFollowsList, TypedForSelected, Showing
  <2> QED
    BY <2>5, <2>6 DEF TabInv
<1> QED
  BY <1>2, <1>3

\* A tree that was just built, or is not looked at, agrees with the list.
LEMMA Rebuilt ==
  ASSUME list' \in Seq(Views), IsInjective(list'), Len(list') <= MaxViews,
         dialog' \in BOOLEAN, onTab' \in BOOLEAN, RebuildTree
  PROVE  TabInv'
  BY DEF RebuildTree, RefreshFields, TabInv, TypeOK, TabFollowsList, TypedForSelected,
     Showing, ToSet

LEMMA Refreshed ==
  ASSUME TabInv, list' \in Seq(Views), IsInjective(list'), Len(list') <= MaxViews,
         UNCHANGED <<dialog, onTab>>, RefreshViewsTab
  PROVE  TabInv'
<1> USE DEF TabInv, TypeOK
<1>1. CASE Showing /\ RebuildTree
  BY <1>1, Rebuilt
<1>2. CASE ~Showing /\ UNCHANGED <<tree, selected, typed>>
  BY <1>2 DEF TabFollowsList, TypedForSelected, Showing
<1> QED
  BY <1>1, <1>2 DEF RefreshViewsTab

LEMMA TabStep == TabInv /\ [WithinDialog]_vars => TabInv'
<1> SUFFICES ASSUME TabInv, [WithinDialog]_vars PROVE TabInv'
  OBVIOUS
<1> USE ViewsAssumption DEF TabInv, TypeOK
<1>1. ASSUME NEW v \in Views, AddMiniView(v) PROVE TabInv'
  <2>1. list' \in Seq(Views) /\ IsInjective(list') /\ Len(list') <= MaxViews
    <3>1. CASE list' = Append(list, v)
      BY <1>1, <3>1, AppendType DEF AddMiniView
    <3>2. CASE UNCHANGED list
      BY <3>2
    <3> QED
      BY <1>1, <3>1, <3>2 DEF AddMiniView
  <2> QED
    BY <1>1, <2>1, Refreshed DEF AddMiniView
<1>2. ASSUME NEW v \in Views, CloseMiniView(v) PROVE TabInv'
  <2>1. PICK i \in DOMAIN list : list' = RemoveAt(list, i)
    BY <1>2 DEF CloseMiniView
  <2>2. list' \in Seq(Views) /\ IsInjective(list') /\ Len(list') <= MaxViews
    BY <2>1, RemoveAtType
  <2> QED
    BY <1>2, <2>2, Refreshed DEF CloseMiniView
<1>3. CASE ClearMiniViews
  BY <1>3 DEF ClearMiniViews, TabFollowsList, TypedForSelected, Showing, IsInjective
<1>4. CASE NotifyChange
  BY <1>4 DEF NotifyChange, RefreshFields, TabFollowsList, TypedForSelected, Showing
<1>5. CASE ShowTab
  BY <1>5, Rebuilt DEF ShowTab
<1>6. CASE LeaveTab
  BY <1>6 DEF LeaveTab, RefreshFields, TabFollowsList, TypedForSelected, Showing
<1>7. CASE Type
  BY <1>7 DEF Type, TabFollowsList, TypedForSelected, Showing
<1>8. CASE Apply
  BY <1>8 DEF Apply, RefreshFields, TabFollowsList, TypedForSelected, Showing
<1>9. ASSUME NEW i \in 1 .. MaxViews, SelectItem(i) PROVE TabInv'
  BY <1>9 DEF SelectItem, RefreshFields, TabFollowsList, TypedForSelected, Showing, ToSet
<1>10. CASE UNCHANGED vars
  BY <1>10 DEF vars, TabFollowsList, TypedForSelected, Showing
<1> QED
  BY <1>1, <1>2, <1>3, <1>4, <1>5, <1>6, <1>7, <1>8, <1>9, <1>10 DEF WithinDialog

-----------------------------------------------------------------------------
(* The preferences *)

LEMMA PrefsAre ==
  /\ Advanced!Prefs = {"ShowDialogOnStart", "UseNotificationIcon", "DefaultOpacity"}
  /\ Advanced!Checks = {"ShowDialogOnStart", "UseNotificationIcon"}
  /\ Len(Advanced!Names) = 3
  /\ \A p \in Advanced!Prefs : \E i \in 1 .. 3 : p = Advanced!Names[i]
<1>1. DOMAIN Advanced!Names = {1, 2, 3} /\ Len(Advanced!Names) = 3 /\ 1 .. 3 = {1, 2, 3}
  BY DEF Advanced!Names
<1> QED
  BY <1>1 DEF Advanced!Prefs, Advanced!Checks, Advanced!Names

Bit == {0, 1}

SettingsType ==
  /\ reg \in [Advanced!Prefs -> Int \union {Absent}]
  /\ cached \in [Advanced!Prefs -> Int]
  /\ assigned \in [Advanced!Prefs -> BOOLEAN]
  /\ \A p \in Advanced!Checks : reg[p] \in Bit \union {Absent} /\ cached[p] \in Bit

\* A value of a check box that is in the registry has been read: the program
\* reads all when it starts, and again whenever it fails to write one.
ChecksRead ==
  running => \A p \in Advanced!Checks : reg[p] # Absent => assigned[p]

BoxesCached ==
  running /\ dialog =>
    boxes \in [Advanced!Prefs -> Int] /\ \A p \in Advanced!Checks : boxes[p] = cached[p]

\* The dialog goes only when there is an icon or one is wanted.
IconWanted ==
  /\ icon => running /\ cached["UseNotificationIcon"] = 1
  /\ running /\ ~dialog => cached["UseNotificationIcon"] = 1
  /\ dialog => running

SettingsInv ==
  /\ SettingsType
  /\ SavedIsUsed
  /\ ChecksRead
  /\ BoxesCached
  /\ IconWanted
  /\ ClearedStays

\* Reading leaves every value that was found equal to the one in the registry.
LEMMA ReadKeeps ==
  ASSUME NEW some \in SUBSET Advanced!Prefs,
         NEW c \in [Advanced!Prefs -> Int], NEW a \in [Advanced!Prefs -> BOOLEAN],
         reg' \in [Advanced!Prefs -> Int \union {Absent}],
         \A p \in Advanced!Checks : reg'[p] \in Bit \union {Absent} /\ c[p] \in Bit,
         \A p \in Advanced!Prefs : a[p] => reg'[p] = c[p],
         Advanced!Read(some, c, a)
  PROVE  /\ cached' \in [Advanced!Prefs -> Int]
         /\ assigned' \in [Advanced!Prefs -> BOOLEAN]
         /\ \A p \in Advanced!Checks : cached'[p] \in Bit
         /\ \A p \in Advanced!Prefs : assigned'[p] => reg'[p] = cached'[p]
         /\ \A p \in some : reg'[p] # Absent => assigned'[p]
         /\ \A p \in Advanced!Prefs : a[p] \/ reg'[p] = Absent => cached'[p] = c[p]
         /\ \A p \in Advanced!Prefs : a[p] => assigned'[p]
<1>1. Advanced!Checks \subseteq Advanced!Prefs
  BY DEF Advanced!Checks
<1> QED
  BY <1>1 DEF Advanced!Read, Advanced!Got

LEMMA SettingsInit == Advanced!Init => SettingsInv
<1> SUFFICES ASSUME Advanced!Init PROVE SettingsInv
  OBVIOUS
<1> USE DEF Advanced!Init
<1>1. Advanced!Checks \subseteq Advanced!Prefs
  BY DEF Advanced!Checks
<1>2. SettingsType
  <2>1. reg \in [Advanced!Prefs -> Int \union {Absent}]
    OBVIOUS
  <2>2. cached \in [Advanced!Prefs -> Int]
    BY DEF Advanced!Default
  <2>3. assigned \in [Advanced!Prefs -> BOOLEAN]
    BY DEF Advanced!Unread
  <2>4. \A p \in Advanced!Checks : reg[p] \in Bit \union {Absent} /\ cached[p] \in Bit
    BY <1>1 DEF Bit, Advanced!Default
  <2> QED
    BY <2>1, <2>2, <2>3, <2>4 DEF SettingsType
<1>3. SavedIsUsed /\ ChecksRead /\ BoxesCached /\ IconWanted /\ ClearedStays
  BY DEF SavedIsUsed, Advanced!SavedIsUsed, ChecksRead, BoxesCached, IconWanted,
     ClearedStays, Advanced!ClearedStays
<1> QED
  BY <1>2, <1>3 DEF SettingsInv

\* What the fields are filled from is what the program uses.
LEMMA RefreshKeeps ==
  ASSUME NEW c \in [Advanced!Prefs -> Int], NEW a \in [Advanced!Prefs -> BOOLEAN],
         reg' \in [Advanced!Prefs -> Int \union {Absent}],
         \A p \in Advanced!Checks : reg'[p] \in Bit \union {Absent} /\ c[p] \in Bit,
         \A p \in Advanced!Prefs : a[p] => reg'[p] = c[p],
         Advanced!RefreshWindow(c, a)
  PROVE  /\ SettingsType' /\ SavedIsUsed' /\ ChecksRead' /\ BoxesCached'
         /\ \A p \in Advanced!Prefs : a[p] \/ reg'[p] = Absent => cached'[p] = c[p]
<1>1. Advanced!Read(Advanced!Prefs, c, a) /\ boxes' = cached'
  BY DEF Advanced!RefreshWindow
<1>2. /\ cached' \in [Advanced!Prefs -> Int]
      /\ assigned' \in [Advanced!Prefs -> BOOLEAN]
      /\ \A p \in Advanced!Checks : cached'[p] \in Bit
      /\ \A p \in Advanced!Prefs : assigned'[p] => reg'[p] = cached'[p]
      /\ \A p \in Advanced!Prefs : reg'[p] # Absent => assigned'[p]
      /\ \A p \in Advanced!Prefs : a[p] \/ reg'[p] = Absent => cached'[p] = c[p]
  <2>1. Advanced!Checks \subseteq Advanced!Prefs
    BY DEF Advanced!Checks
  <2> QED
    BY <1>1, <2>1 DEF Advanced!Read, Advanced!Got
<1>3. Advanced!Checks \subseteq Advanced!Prefs
  BY DEF Advanced!Checks
<1>4. SettingsType'
  BY <1>2 DEF SettingsType
<1>5. SavedIsUsed'
  BY <1>2 DEF SavedIsUsed, Advanced!SavedIsUsed
<1>6. ChecksRead'
  BY <1>2, <1>3 DEF ChecksRead
<1>7. BoxesCached'
  BY <1>1, <1>2 DEF BoxesCached
<1> QED
  BY <1>2, <1>4, <1>5, <1>6, <1>7

LEMMA RunKeeps == SettingsInv /\ Advanced!Run => SettingsInv'
<1> SUFFICES ASSUME SettingsInv, Advanced!Run PROVE SettingsInv'
  OBVIOUS
<1> DEFINE c == Advanced!Default
           a == Advanced!Unread
           use == Advanced!Got("UseNotificationIcon", c, a)
<1>1. /\ c \in [Advanced!Prefs -> Int] /\ a \in [Advanced!Prefs -> BOOLEAN]
      /\ \A p \in Advanced!Prefs : c[p] = 1 /\ a[p] = FALSE
  BY DEF Advanced!Default, Advanced!Unread
<1>2. /\ UNCHANGED <<reg, key, cleared>> /\ running'
      /\ lastActionClearedSettings' = FALSE
      /\ Advanced!Read(Advanced!Prefs, c, a)
      /\ dialog' => boxes' = cached'
      /\ icon' => use = 1
      /\ ~dialog' => use # 0
  BY DEF Advanced!Run, Advanced!RefreshWindow, Advanced!store
<1>3. /\ Advanced!Checks \subseteq Advanced!Prefs
      /\ "UseNotificationIcon" \in Advanced!Checks
  BY PrefsAre
<1>4. /\ reg' \in [Advanced!Prefs -> Int \union {Absent}]
      /\ \A p \in Advanced!Checks : reg'[p] \in Bit \union {Absent} /\ c[p] \in Bit
  BY <1>1, <1>2, <1>3 DEF SettingsInv, SettingsType, Bit
<1>5. /\ cached' \in [Advanced!Prefs -> Int]
      /\ assigned' \in [Advanced!Prefs -> BOOLEAN]
      /\ \A p \in Advanced!Checks : cached'[p] \in Bit
      /\ \A p \in Advanced!Prefs : assigned'[p] => reg'[p] = cached'[p]
      /\ \A p \in Advanced!Prefs : reg'[p] # Absent => assigned'[p]
  <2> HIDE DEF c, a
  <2> QED
    BY <1>1, <1>2, <1>4, ReadKeeps
<1>6. cached'["UseNotificationIcon"] = use
  BY <1>2, <1>3 DEF Advanced!Read
<1>7. SettingsType'
  BY <1>4, <1>5 DEF SettingsType
<1>8. SavedIsUsed' /\ ChecksRead' /\ BoxesCached'
  BY <1>2, <1>3, <1>5
     DEF SavedIsUsed, Advanced!SavedIsUsed, ChecksRead, BoxesCached
<1>9. IconWanted'
  BY <1>2, <1>3, <1>5, <1>6 DEF IconWanted, Bit
<1>10. ClearedStays'
  BY <1>2 DEF SettingsInv, ClearedStays, Advanced!ClearedStays
<1> QED
  BY <1>7, <1>8, <1>9, <1>10 DEF SettingsInv

\* A check box of the Advanced tab is clicked, saved or not.
LEMMA CheckKeeps ==
  ASSUME SettingsInv, NEW p \in Advanced!Checks, Advanced!CheckClicked(p)
  PROVE  SettingsInv'
<1> USE DEF SettingsInv, SettingsType
<1> DEFINE c == [cached EXCEPT ![p] = 1 - @]
<1>1. /\ Advanced!Checks \subseteq Advanced!Prefs
      /\ "UseNotificationIcon" \in Advanced!Checks
  BY PrefsAre
<1>2. /\ c \in [Advanced!Prefs -> Int]
      /\ \A q \in Advanced!Checks : c[q] \in Bit
      /\ \A q \in Advanced!Prefs : q # p => c[q] = cached[q]
  BY <1>1 DEF Bit
<1>3. /\ dialog /\ running /\ dialog' /\ running'
      /\ lastActionClearedSettings' = FALSE /\ cleared' = FALSE
      /\ icon' => icon /\ p # "UseNotificationIcon"
  BY DEF Advanced!CheckClicked, IconWanted
<1>4. PICK a \in [Advanced!Prefs -> BOOLEAN] :
        /\ Advanced!RefreshWindow(c, a)
        /\ \A q \in Advanced!Prefs : q # p => a[q] = assigned[q] /\ reg'[q] = reg[q]
        /\ a[p] => reg'[p] = c[p]
        /\ reg'[p] \in {c[p], reg[p]}
        /\ reg' \in [Advanced!Prefs -> Int \union {Absent}]
  <2>1. CASE Advanced!Written(p, c[p])
             /\ Advanced!RefreshWindow(c, [assigned EXCEPT ![p] = TRUE])
    <3>1. PICK a : a = [assigned EXCEPT ![p] = TRUE]
      OBVIOUS
    <3>2. a \in [Advanced!Prefs -> BOOLEAN]
      BY <3>1
    <3>3. reg' = [reg EXCEPT ![p] = c[p]]
      BY <2>1 DEF Advanced!Written
    <3>4. reg'[p] = c[p] /\ reg' \in [Advanced!Prefs -> Int \union {Absent}]
      BY <1>1, <1>2, <3>3
    <3>5. \A q \in Advanced!Prefs : q # p => a[q] = assigned[q] /\ reg'[q] = reg[q]
      BY <3>1, <3>3
    <3> QED
      BY <2>1, <3>1, <3>2, <3>4, <3>5
  <2>2. CASE UNCHANGED <<reg, key>>
             /\ Advanced!RefreshWindow(c, [assigned EXCEPT ![p] = FALSE])
    <3>1. PICK a : a = [assigned EXCEPT ![p] = FALSE]
      OBVIOUS
    <3>2. a \in [Advanced!Prefs -> BOOLEAN] /\ ~a[p]
      BY <1>1, <3>1
    <3>3. \A q \in Advanced!Prefs : q # p => a[q] = assigned[q] /\ reg'[q] = reg[q]
      BY <2>2, <3>1
    <3> QED
      BY <2>2, <3>1, <3>2, <3>3
  <2> QED
    BY <2>1, <2>2 DEF Advanced!CheckClicked, Advanced!store
<1>5. /\ \A q \in Advanced!Checks : reg'[q] \in Bit \union {Absent}
      /\ \A q \in Advanced!Prefs : a[q] => reg'[q] = c[q]
  BY <1>1, <1>2, <1>3, <1>4 DEF SavedIsUsed, Advanced!SavedIsUsed
<1> HIDE DEF c
<1>6. /\ SettingsType' /\ SavedIsUsed' /\ ChecksRead' /\ BoxesCached'
      /\ \A q \in Advanced!Prefs : a[q] \/ reg'[q] = Absent => cached'[q] = c[q]
  <2> HIDE DEF SettingsInv, SettingsType
  <2> QED
    BY <1>2, <1>4, <1>5, RefreshKeeps
<1>7. IconWanted'
  <2>1. ASSUME icon' PROVE cached'["UseNotificationIcon"] = 1
    BY <1>1, <1>2, <1>3, <1>4, <1>6, <2>1 DEF IconWanted, ChecksRead
  <2> QED
    BY <1>3, <2>1 DEF IconWanted
<1>8. ClearedStays'
  BY <1>3 DEF ClearedStays, Advanced!ClearedStays
<1> QED
  BY <1>6, <1>7, <1>8

\* A number is typed; what is written and cached differs from it, for the field only.
LEMMA OpacityKeeps ==
  ASSUME SettingsInv, NEW n \in Typed, Advanced!OpacityTyped(n)
  PROVE  SettingsInv'
<1> USE DEF SettingsInv
<1>1. /\ Advanced!Prefs = Advanced!Checks \union {"DefaultOpacity"}
      /\ "UseNotificationIcon" \in Advanced!Checks
      /\ "DefaultOpacity" \notin Advanced!Checks
  BY PrefsAre
<1>2. /\ dialog /\ running /\ dialog' /\ running' /\ icon' = icon /\ ~cleared'
      /\ boxes' = [boxes EXCEPT !["DefaultOpacity"] = n]
  BY DEF Advanced!OpacityTyped, IconWanted
<1>3. PICK v \in Int :
        /\ cached' = [cached EXCEPT !["DefaultOpacity"] = v]
        /\ \/ /\ Advanced!Written("DefaultOpacity", v)
              /\ assigned' = [assigned EXCEPT !["DefaultOpacity"] = TRUE]
           \/ /\ UNCHANGED <<reg, key>>
              /\ assigned' = [assigned EXCEPT !["DefaultOpacity"] = FALSE]
  <2> DEFINE v == IF n > MaxOpacity THEN MaxOpacity ELSE IF n < 0 THEN 0 ELSE n
  <2>1. v \in Int
    BY OpacityAssumption
  <2>2. /\ cached' = [cached EXCEPT !["DefaultOpacity"] = v]
        /\ \/ /\ Advanced!Written("DefaultOpacity", v)
              /\ assigned' = [assigned EXCEPT !["DefaultOpacity"] = TRUE]
           \/ /\ UNCHANGED <<reg, key>>
              /\ assigned' = [assigned EXCEPT !["DefaultOpacity"] = FALSE]
    BY DEF Advanced!OpacityTyped, Advanced!store
  <2> HIDE DEF v
  <2> QED
    BY <2>1, <2>2
<1>4. \A p \in Advanced!Checks :
        reg'[p] = reg[p] /\ cached'[p] = cached[p] /\ assigned'[p] = assigned[p]
  BY <1>1, <1>3 DEF SettingsType, Advanced!Written
<1>5. SettingsType'
  <2>1. reg' \in [Advanced!Prefs -> Int \union {Absent}]
    BY <1>3 DEF SettingsType, Advanced!Written
  <2>2. cached' \in [Advanced!Prefs -> Int]
    BY <1>3 DEF SettingsType
  <2>3. assigned' \in [Advanced!Prefs -> BOOLEAN]
    BY <1>3 DEF SettingsType
  <2> QED
    BY <1>4, <2>1, <2>2, <2>3 DEF SettingsType
<1>6. SavedIsUsed'
  <2>1. assigned'["DefaultOpacity"] => reg'["DefaultOpacity"] = cached'["DefaultOpacity"]
    BY <1>1, <1>3 DEF SettingsType, Advanced!Written
  <2> QED
    BY <1>1, <1>2, <1>4, <2>1 DEF SavedIsUsed, Advanced!SavedIsUsed
<1>7. ChecksRead'
  BY <1>2, <1>4 DEF ChecksRead
<1>8. BoxesCached'
  <2>1. boxes' \in [Advanced!Prefs -> Int]
    BY <1>2, OpacityAssumption DEF BoxesCached
  <2>2. \A p \in Advanced!Checks : boxes'[p] = boxes[p]
    BY <1>1, <1>2 DEF BoxesCached
  <2> QED
    BY <1>2, <1>4, <2>1, <2>2 DEF BoxesCached
<1>9. IconWanted'
  BY <1>1, <1>2, <1>4 DEF IconWanted
<1>10. ClearedStays'
  BY <1>2 DEF ClearedStays, Advanced!ClearedStays
<1> QED
  BY <1>5, <1>6, <1>7, <1>8, <1>9, <1>10

\* The button clears all of the registry or part of it; what is used stays.
LEMMA ClearKeeps ==
  ASSUME SettingsInv, Advanced!ClearSavedSettings
  PROVE  SettingsInv'
<1> USE DEF SettingsInv
<1>1. /\ Advanced!Checks \subseteq Advanced!Prefs
      /\ "UseNotificationIcon" \in Advanced!Checks
  BY PrefsAre
<1>2. /\ dialog /\ running /\ dialog' /\ running' /\ icon' = icon
      /\ lastActionClearedSettings'
  BY DEF Advanced!ClearSavedSettings, IconWanted
<1>3. PICK n \in 0 .. Len(Advanced!Names) :
        /\ Advanced!ClearValues(n)
        /\ Advanced!ClearKey(n)
        /\ Advanced!RefreshWindow(cached, [p \in Advanced!Prefs |->
              assigned[p] /\ \A i \in 1 .. n : p # Advanced!Names[i]])
  BY DEF Advanced!ClearSavedSettings
<1>4. PICK a : a = [p \in Advanced!Prefs |->
                      assigned[p] /\ \A i \in 1 .. n : p # Advanced!Names[i]]
  OBVIOUS
<1>5. a \in [Advanced!Prefs -> BOOLEAN]
  BY <1>4
<1>6. reg' \in [Advanced!Prefs -> Int \union {Absent}]
  BY <1>3 DEF Advanced!ClearValues, SettingsType
<1>7. \A p \in Advanced!Prefs :
        /\ reg'[p] = reg[p] \/ reg'[p] = Absent
        /\ a[p] => assigned[p] /\ reg'[p] = reg[p]
        /\ ~a[p] => ~assigned[p] \/ reg'[p] = Absent
  BY <1>3, <1>4 DEF Advanced!ClearValues
<1>8. /\ \A p \in Advanced!Checks : reg'[p] \in Bit \union {Absent} /\ cached[p] \in Bit
      /\ \A p \in Advanced!Prefs : a[p] => reg'[p] = cached[p]
  <2>1. \A p \in Advanced!Checks : reg'[p] \in Bit \union {Absent} /\ cached[p] \in Bit
    BY <1>1, <1>6, <1>7 DEF SettingsType
  <2>2. \A p \in Advanced!Prefs : assigned[p] => reg[p] = cached[p]
    BY <1>2 DEF SavedIsUsed, Advanced!SavedIsUsed
  <2> QED
    BY <1>5, <1>6, <1>7, <2>1, <2>2 DEF SettingsType
<1>9. /\ SettingsType' /\ SavedIsUsed' /\ ChecksRead' /\ BoxesCached'
      /\ \A p \in Advanced!Prefs : a[p] \/ reg'[p] = Absent => cached'[p] = cached[p]
  <2>1. cached \in [Advanced!Prefs -> Int] /\ Advanced!RefreshWindow(cached, a)
    BY <1>3, <1>4 DEF SettingsType
  <2> HIDE DEF SettingsInv
  <2> QED
    BY <1>5, <1>6, <1>8, <2>1, RefreshKeeps
<1>10. IconWanted'
  <2>1. cached'["UseNotificationIcon"] = cached["UseNotificationIcon"]
    <3>1. reg["UseNotificationIcon"] # Absent => assigned["UseNotificationIcon"]
      BY <1>1, <1>2 DEF ChecksRead
    <3>2. a["UseNotificationIcon"] \/ reg'["UseNotificationIcon"] = Absent
      BY <1>1, <1>5, <1>6, <1>7, <3>1 DEF SettingsType
    <3> QED
      BY <1>1, <1>9, <3>2
  <2> QED
    BY <1>2, <2>1 DEF IconWanted
<1>11. ClearedStays'
  <2>1. ASSUME cleared' PROVE ~key' /\ \A p \in Advanced!Prefs : reg'[p] = Absent
    <3>1. n = 3 /\ ~key'
      BY <1>3, <2>1, PrefsAre DEF Advanced!ClearKey
    <3>2. \A p \in Advanced!Prefs : reg'[p] = Absent
      BY <1>3, <3>1, PrefsAre DEF Advanced!ClearValues
    <3> QED
      BY <3>1, <3>2
  <2> QED
    BY <2>1 DEF ClearedStays, Advanced!ClearedStays
<1> QED
  BY <1>9, <1>10, <1>11

LEMMA ShowKeeps ==
  ASSUME SettingsInv, running, running', dialog', UNCHANGED <<reg, key, icon>>,
         UNCHANGED <<lastActionClearedSettings, cleared>>,
         Advanced!RefreshWindow(cached, assigned)
  PROVE  SettingsInv'
<1>1. /\ cached \in [Advanced!Prefs -> Int] /\ assigned \in [Advanced!Prefs -> BOOLEAN]
      /\ reg' \in [Advanced!Prefs -> Int \union {Absent}]
      /\ \A p \in Advanced!Checks : reg'[p] \in Bit \union {Absent} /\ cached[p] \in Bit
  BY DEF SettingsInv, SettingsType
<1>2. \A p \in Advanced!Prefs : assigned[p] => reg'[p] = cached[p]
  BY DEF SettingsInv, SavedIsUsed, Advanced!SavedIsUsed
<1>3. /\ SettingsType' /\ SavedIsUsed' /\ ChecksRead' /\ BoxesCached'
      /\ \A p \in Advanced!Prefs :
           assigned[p] \/ reg'[p] = Absent => cached'[p] = cached[p]
  BY <1>1, <1>2, RefreshKeeps
<1>4. IconWanted'
  <2>1. /\ "UseNotificationIcon" \in Advanced!Checks
        /\ "UseNotificationIcon" \in Advanced!Prefs
    BY PrefsAre
  <2>2. reg["UseNotificationIcon"] # Absent => assigned["UseNotificationIcon"]
    BY <2>1 DEF SettingsInv, ChecksRead
  <2>3. cached'["UseNotificationIcon"] = cached["UseNotificationIcon"]
    BY <1>3, <2>1, <2>2
  <2> QED
    BY <2>3 DEF SettingsInv, IconWanted
<1>5. ClearedStays'
  BY DEF SettingsInv, ClearedStays, Advanced!ClearedStays
<1> QED
  BY <1>3, <1>4, <1>5 DEF SettingsInv

\* The half second, and the question for the icon when the dialog goes, ask for
\* one preference only.
LEMMA AskKeeps ==
  ASSUME SettingsInv, running, running', UNCHANGED <<reg, key>>,
         UNCHANGED <<lastActionClearedSettings, cleared>>,
         Advanced!Read({"UseNotificationIcon"}, cached, assigned)
  PROVE  /\ SettingsType' /\ SavedIsUsed' /\ ChecksRead' /\ ClearedStays'
         /\ \A p \in Advanced!Checks : cached'[p] = cached[p]
<1> DEFINE some == {"UseNotificationIcon"}
<1>1. /\ some \in SUBSET Advanced!Prefs /\ Advanced!Checks \subseteq Advanced!Prefs
      /\ cached \in [Advanced!Prefs -> Int] /\ assigned \in [Advanced!Prefs -> BOOLEAN]
      /\ reg' \in [Advanced!Prefs -> Int \union {Absent}]
      /\ \A p \in Advanced!Checks : reg'[p] \in Bit \union {Absent} /\ cached[p] \in Bit
  BY PrefsAre DEF SettingsInv, SettingsType
<1>2. \A p \in Advanced!Prefs : assigned[p] => reg'[p] = cached[p]
  BY DEF SettingsInv, SavedIsUsed, Advanced!SavedIsUsed
<1>3. \A p \in Advanced!Checks : reg'[p] # Absent => assigned[p]
  BY DEF SettingsInv, ChecksRead
<1>4. /\ cached' \in [Advanced!Prefs -> Int]
      /\ assigned' \in [Advanced!Prefs -> BOOLEAN]
      /\ \A p \in Advanced!Checks : cached'[p] \in Bit
      /\ \A p \in Advanced!Prefs : assigned'[p] => reg'[p] = cached'[p]
      /\ \A p \in Advanced!Prefs : assigned[p] \/ reg'[p] = Absent => cached'[p] = cached[p]
      /\ \A p \in Advanced!Prefs : assigned[p] => assigned'[p]
  <2> HIDE DEF some
  <2>1. Advanced!Read(some, cached, assigned)
    BY DEF some
  <2> QED
    BY <1>1, <1>2, <2>1, ReadKeeps
<1>5. SettingsType'
  BY <1>1, <1>4 DEF SettingsType
<1>6. SavedIsUsed'
  BY <1>4 DEF SavedIsUsed, Advanced!SavedIsUsed
<1>7. ChecksRead'
  BY <1>1, <1>3, <1>4 DEF ChecksRead
<1>8. ClearedStays'
  BY DEF SettingsInv, ClearedStays, Advanced!ClearedStays
<1> QED
  BY <1>1, <1>3, <1>4, <1>5, <1>6, <1>7, <1>8

LEMMA HalfSecondKeeps ==
  ASSUME SettingsInv, Advanced!RunHalfSecondActions
  PROVE  SettingsInv'
<1>1. /\ running /\ running' /\ UNCHANGED <<reg, key>>
      /\ UNCHANGED <<lastActionClearedSettings, cleared>> /\ UNCHANGED <<boxes, dialog>>
      /\ Advanced!Read({"UseNotificationIcon"}, cached, assigned)
      /\ icon' => icon \/ cached'["UseNotificationIcon"] = 1
  <2>1. icon' => icon \/ cached'["UseNotificationIcon"] = 1
    BY Zenon DEF Advanced!RunHalfSecondActions
  <2> QED
    BY <2>1 DEF Advanced!RunHalfSecondActions, Advanced!store
<1>2. /\ SettingsType' /\ SavedIsUsed' /\ ChecksRead' /\ ClearedStays'
      /\ \A p \in Advanced!Checks : cached'[p] = cached[p]
  BY <1>1, AskKeeps
<1>3. BoxesCached'
  BY <1>1, <1>2 DEF SettingsInv, BoxesCached
<1>4. IconWanted'
  BY <1>1, <1>2, PrefsAre DEF SettingsInv, IconWanted
<1> QED
  BY <1>2, <1>3, <1>4 DEF SettingsInv

LEMMA CloseKeeps ==
  ASSUME SettingsInv, Advanced!CloseDialog
  PROVE  SettingsInv'
<1>1. /\ running /\ running' /\ UNCHANGED <<reg, key>>
      /\ UNCHANGED <<lastActionClearedSettings, cleared>> /\ ~dialog' /\ UNCHANGED icon
  BY DEF Advanced!CloseDialog, Advanced!store
<1>2. BoxesCached'
  BY <1>1 DEF BoxesCached
<1>3. CASE icon /\ UNCHANGED <<cached, assigned>>
  <2>1. SettingsType' /\ SavedIsUsed' /\ ChecksRead' /\ ClearedStays'
    BY <1>1, <1>3 DEF SettingsInv, SettingsType, SavedIsUsed, Advanced!SavedIsUsed,
       ChecksRead, ClearedStays, Advanced!ClearedStays
  <2>2. IconWanted'
    BY <1>1, <1>3 DEF SettingsInv, IconWanted
  <2> QED
    BY <1>2, <2>1, <2>2 DEF SettingsInv
<1>4. CASE /\ Advanced!Read({"UseNotificationIcon"}, cached, assigned)
           /\ cached'["UseNotificationIcon"] = 1
  <2>1. SettingsType' /\ SavedIsUsed' /\ ChecksRead' /\ ClearedStays'
    BY <1>1, <1>4, AskKeeps
  <2>2. IconWanted'
    BY <1>1, <1>4 DEF IconWanted
  <2> QED
    BY <1>2, <2>1, <2>2 DEF SettingsInv
<1> QED
  BY <1>3, <1>4 DEF Advanced!CloseDialog, Advanced!copy

LEMMA ExitKeeps ==
  ASSUME SettingsInv, Advanced!Exit
  PROVE  SettingsInv'
<1>1. /\ ~running' /\ ~dialog' /\ ~icon' /\ UNCHANGED <<reg, lastActionClearedSettings>>
      /\ UNCHANGED cleared /\ cached' = Advanced!Default /\ assigned' = Advanced!Unread
      /\ lastActionClearedSettings => key' = key
  BY DEF Advanced!Exit
<1>2. SettingsType'
  <2>1. /\ cached' \in [Advanced!Prefs -> Int] /\ assigned' \in [Advanced!Prefs -> BOOLEAN]
        /\ \A p \in Advanced!Checks : cached'[p] \in Bit
    BY <1>1, PrefsAre DEF Advanced!Default, Advanced!Unread, Bit
  <2> QED
    BY <1>1, <2>1 DEF SettingsInv, SettingsType
<1>3. SavedIsUsed' /\ ChecksRead' /\ BoxesCached' /\ IconWanted'
  BY <1>1 DEF SavedIsUsed, Advanced!SavedIsUsed, ChecksRead, BoxesCached, IconWanted
<1>4. ClearedStays'
  BY <1>1 DEF SettingsInv, ClearedStays, Advanced!ClearedStays
<1> QED
  BY <1>2, <1>3, <1>4 DEF SettingsInv

-----------------------------------------------------------------------------
(* The whole program *)

\* The Views tab is in sight in a running program only, so a dialog that Run
\* creates shows nothing of the tab.
DialogInv == TabInv /\ SettingsInv /\ (~running => ~onTab)

LEMMA DialogKept ==
  ASSUME WithinDialog PROVE UNCHANGED dialog
BY DEF WithinDialog, AddMiniView, CloseMiniView, ClearMiniViews, NotifyChange, ShowTab,
   LeaveTab, Type, Apply, SelectItem

\* What changes neither list nor tab keeps the tab's invariant if the dialog
\* stays, or comes or goes with the tab out of sight.
LEMMA TabUntouched ==
  ASSUME TabInv, UNCHANGED views, UNCHANGED dialog \/ ~onTab, dialog' \in BOOLEAN
  PROVE  TabInv'
BY DEF views, TabInv, TypeOK, TabFollowsList, TypedForSelected, Showing

LEMMA SettingsUntouched ==
  ASSUME SettingsInv, UNCHANGED settings, UNCHANGED dialog
  PROVE  SettingsInv'
BY DEF SettingsInv, settings, SettingsType, SavedIsUsed, Advanced!SavedIsUsed, ChecksRead,
   BoxesCached, IconWanted, ClearedStays, Advanced!ClearedStays

LEMMA DialogStep == DialogInv /\ [DialogNext]_dialogVars => DialogInv'
<1> SUFFICES ASSUME DialogInv, [DialogNext]_dialogVars PROVE DialogInv'
  OBVIOUS
<1>0. TabInv /\ SettingsInv /\ (~running => ~onTab) /\ dialog \in BOOLEAN
  BY DEF DialogInv, TabInv, TypeOK
<1>1. CASE running /\ WithinDialog /\ UNCHANGED settings
  <2>1. TabInv'
    BY <1>0, <1>1, TabStep
  <2>2. SettingsInv'
    BY <1>0, <1>1, DialogKept, SettingsUntouched
  <2>3. running'
    BY <1>1 DEF settings
  <2> QED
    BY <2>1, <2>2, <2>3 DEF DialogInv
<1>2. CASE OpenDialog /\ Advanced!OpenDialog
  <2>1. TabInv'
    <3>1. /\ dialog' = TRUE /\ UNCHANGED <<list, onTab>>
          /\ list \in Seq(Views) /\ IsInjective(list) /\ Len(list) <= MaxViews
          /\ onTab \in BOOLEAN
      BY <1>0, <1>2 DEF OpenDialog, TabInv, TypeOK
    <3>2. dialog' \in BOOLEAN
      BY <3>1
    <3>3. CASE RebuildTree
      BY <3>1, <3>2, <3>3, Rebuilt
    <3>4. CASE ~onTab /\ UNCHANGED <<tree, selected, typed>>
      BY <1>0, <3>1, <3>2, <3>4, TabUntouched DEF views
    <3> QED
      BY <1>2, <3>3, <3>4 DEF OpenDialog
  <2>2. /\ running /\ running' /\ dialog' /\ UNCHANGED <<reg, key, icon>>
        /\ UNCHANGED <<lastActionClearedSettings, cleared>>
        /\ Advanced!RefreshWindow(cached, assigned)
    BY <1>2 DEF Advanced!OpenDialog, Advanced!store
  <2>3. SettingsInv'
    BY <1>0, <2>2, ShowKeeps
  <2> QED
    BY <2>1, <2>2, <2>3 DEF DialogInv
<1>3. CASE CloseDialog /\ Advanced!CloseDialog
  <2>1. TabInv'
    BY <1>0, <1>3 DEF CloseDialog, TabInv, TypeOK, TabFollowsList, TypedForSelected, Showing
  <2>2. SettingsInv'
    BY <1>0, <1>3, CloseKeeps
  <2>3. running'
    BY <1>3 DEF Advanced!CloseDialog
  <2> QED
    BY <2>1, <2>2, <2>3 DEF DialogInv
<1>4. CASE ~onTab /\ Advanced!AdvancedTab /\ UNCHANGED views
  <2>1. UNCHANGED dialog
    BY <1>4 DEF Advanced!AdvancedTab, Advanced!CheckClicked, Advanced!OpacityTyped,
       Advanced!ClearSavedSettings, Advanced!ShowAdvanced
  <2>2. TabInv' /\ ~onTab'
    BY <1>0, <1>4, <2>1, TabUntouched DEF views
  <2>3. ASSUME NEW p \in Advanced!Checks, Advanced!CheckClicked(p) PROVE SettingsInv'
    BY <1>0, <2>3, CheckKeeps
  <2>4. ASSUME NEW n \in Typed, Advanced!OpacityTyped(n) PROVE SettingsInv'
    BY <1>0, <2>4, OpacityKeeps
  <2>5. ASSUME Advanced!ClearSavedSettings PROVE SettingsInv'
    BY <1>0, <2>5, ClearKeeps
  <2>6. ASSUME Advanced!ShowAdvanced PROVE SettingsInv'
    <3>1. /\ running /\ running' /\ dialog' /\ UNCHANGED <<reg, key, icon>>
          /\ UNCHANGED <<lastActionClearedSettings, cleared>>
          /\ Advanced!RefreshWindow(cached, assigned)
      BY <1>0, <2>6 DEF Advanced!ShowAdvanced, Advanced!store, SettingsInv, IconWanted
    <3> QED
      BY <1>0, <3>1, ShowKeeps
  <2> QED
    BY <1>4, <2>2, <2>3, <2>4, <2>5, <2>6 DEF DialogInv, Advanced!AdvancedTab
<1>5. CASE Advanced!RunHalfSecondActions /\ UNCHANGED views
  <2>1. running' /\ UNCHANGED dialog
    BY <1>5 DEF Advanced!RunHalfSecondActions
  <2>2. TabInv'
    BY <1>0, <1>5, <2>1, TabUntouched
  <2>3. SettingsInv'
    BY <1>0, <1>5, HalfSecondKeeps
  <2> QED
    BY <2>1, <2>2, <2>3 DEF DialogInv
<1>6. CASE Advanced!Run /\ UNCHANGED views
  <2>1. dialog' \in BOOLEAN
    BY <1>6, Zenon DEF Advanced!Run
  <2>2. running' /\ ~running
    BY <1>6 DEF Advanced!Run
  <2>3. TabInv'
    BY <1>0, <1>6, <2>1, <2>2, TabUntouched
  <2>4. SettingsInv'
    BY <1>0, <1>6, RunKeeps
  <2> QED
    BY <2>2, <2>3, <2>4 DEF DialogInv
<1>7. CASE Quit
  <2>1. /\ list' = <<>> /\ tree' = <<>> /\ selected' = NoView /\ typed' = NoView
        /\ onTab' = FALSE /\ dialog' = FALSE
    BY <1>7 DEF Quit, Advanced!Exit
  <2>2. TabInv'
    BY <2>1, TabEmpty
  <2>3. SettingsInv'
    BY <1>0, <1>7, ExitKeeps DEF Quit
  <2> QED
    BY <2>1, <2>2, <2>3 DEF DialogInv
<1>8. CASE UNCHANGED dialogVars
  <2>1. /\ UNCHANGED views /\ UNCHANGED settings /\ UNCHANGED dialog /\ UNCHANGED running
    BY <1>8 DEF dialogVars, vars, Advanced!vars, views, settings, Advanced!store, Advanced!copy
  <2>2. TabInv' /\ SettingsInv'
    BY <1>0, <2>1, TabUntouched, SettingsUntouched
  <2> QED
    BY <1>0, <2>1, <2>2 DEF DialogInv, views
<1> QED
  BY <1>1, <1>2, <1>3, <1>4, <1>5, <1>6, <1>7, <1>8 DEF DialogNext

LEMMA DialogAlways == DialogSpec => []DialogInv
<1>1. DialogInit => DialogInv
  BY TabEmpty, SettingsInit DEF DialogInit, DialogInv, Init
<1>2. DialogInv /\ [DialogNext]_dialogVars => DialogInv'
  BY DialogStep
<1> QED
  BY <1>1, <1>2, PTL DEF DialogSpec

-----------------------------------------------------------------------------
(* The properties of the runs *)

\* The variables of the tab keep their types, whatever number of views come and
\* go; neither list ever holds a view twice.
THEOREM TabTypeCorrect == DialogSpec => []TypeOK
<1>1. DialogInv => TypeOK
  BY DEF DialogInv, TabInv
<1> QED
  BY DialogAlways, <1>1, PTL

\* The tree is currMiniViews, position by position, whenever it is in sight and
\* there is something to show.
THEOREM TabAlwaysFollows == DialogSpec => []TabFollowsList
<1>1. DialogInv => TabFollowsList
  BY DEF DialogInv, TabInv
<1> QED
  BY DialogAlways, <1>1, PTL

\* A number that is not applied yet is for the view that is selected.
THEOREM AlwaysTypedForSelected == DialogSpec => []TypedForSelected
<1>1. DialogInv => TypedForSelected
  BY DEF DialogInv, TabInv
<1> QED
  BY DialogAlways, <1>1, PTL

\* The position NotifyTreeItemSelected is given is that of the view clicked.
THEOREM ClickAlwaysSelects == DialogSpec => ClickSelectsItem
<1>1. ASSUME DialogInv, NEW i \in DOMAIN tree, SelectItem(i)
      PROVE  selected' \in {tree[i], NoView}
  BY <1>1 DEF DialogInv, TabInv, TypeOK, TabFollowsList, SelectItem
<1>2. DialogInv /\ [DialogNext]_dialogVars
      => [\A i \in DOMAIN tree : SelectItem(i) => selected' \in {tree[i], NoView}]_vars
  BY <1>1
<1> QED
  BY DialogAlways, <1>2, PTL DEF DialogSpec, ClickSelectsItem

\* A cached preference that counts as assigned is the one in the registry, through
\* every write that fails and every clearing that stops half way.
THEOREM AlwaysSavedIsUsed == DialogSpec => []SavedIsUsed
<1>1. DialogInv => SavedIsUsed
  BY DEF DialogInv, SettingsInv
<1> QED
  BY DialogAlways, <1>1, PTL

\* Nobody is locked out of a running program: without a dialog it wants an icon.
THEOREM AlwaysReachable == DialogSpec => []Reachable
<1>1. ASSUME DialogInv PROVE Reachable
  <2>1. SettingsInv /\ SavedIsUsed /\ ChecksRead /\ IconWanted
    BY <1>1 DEF DialogInv, SettingsInv
  <2>2. "UseNotificationIcon" \in Advanced!Checks
    BY PrefsAre
  <2> QED
    BY <2>1, <2>2 DEF Reachable, Advanced!Reachable, Advanced!InUse, ChecksRead, IconWanted
<1> QED
  BY DialogAlways, <1>1, PTL

\* A box of the Advanced tab is ticked when its preference is on.
THEOREM BoxesAlwaysTell == DialogSpec => []BoxesTell
<1>1. ASSUME DialogInv PROVE BoxesTell
  <2>1. ChecksRead /\ BoxesCached
    BY <1>1 DEF DialogInv, SettingsInv
  <2> QED
    BY <2>1 DEF BoxesTell, Advanced!BoxesTell, Advanced!InUse, ChecksRead, BoxesCached
<1> QED
  BY DialogAlways, <1>1, PTL

\* What Clear Saved Settings removed is not written back behind the user's back.
THEOREM ClearedAlwaysStays == DialogSpec => []ClearedStays
<1>1. DialogInv => ClearedStays
  BY DEF DialogInv, SettingsInv
<1> QED
  BY DialogAlways, <1>1, PTL

-----------------------------------------------------------------------------
(* What changes a preference *)

\* Reading changes nothing: what is used after it is what Get returned.
LEMMA UsedAfterRead ==
  ASSUME NEW some \in SUBSET Advanced!Prefs, NEW c, NEW a \in [Advanced!Prefs -> BOOLEAN],
         NEW p \in Advanced!Prefs, Advanced!Read(some, c, a)
  PROVE  Advanced!InUse(p)' = IF ~a[p] /\ reg'[p] # Absent THEN reg'[p] ELSE c[p]
BY DEF Advanced!Read, Advanced!Got, Advanced!InUse

LEMMA UsedAfterOnlyReading ==
  ASSUME SettingsInv, NEW some \in SUBSET Advanced!Prefs, UNCHANGED reg,
         Advanced!Read(some, cached, assigned), NEW p \in Advanced!Prefs
  PROVE  Advanced!InUse(p)' = Advanced!InUse(p)
BY UsedAfterRead DEF SettingsInv, SettingsType, Advanced!InUse

LEMMA UsedAfterNothing ==
  ASSUME UNCHANGED <<reg, cached, assigned>>, NEW p
  PROVE  Advanced!InUse(p)' = Advanced!InUse(p)
BY DEF Advanced!InUse

\* A click changes no preference but the one it is for, saved or not.
LEMMA UsedAfterClick ==
  ASSUME SettingsInv, NEW q \in Advanced!Checks, Advanced!CheckClicked(q),
         NEW p \in Advanced!Prefs, p # q
  PROVE  Advanced!InUse(p)' = Advanced!InUse(p)
<1> DEFINE c == [cached EXCEPT ![q] = 1 - @]
<1>1. q \in Advanced!Prefs /\ cached \in [Advanced!Prefs -> Int]
      /\ assigned \in [Advanced!Prefs -> BOOLEAN]
      /\ reg \in [Advanced!Prefs -> Int \union {Absent}]
  BY PrefsAre DEF SettingsInv, SettingsType
<1>2. c[p] = cached[p]
  BY <1>1
<1>3. PICK a \in [Advanced!Prefs -> BOOLEAN] :
        /\ Advanced!Read(Advanced!Prefs, c, a)
        /\ a[p] = assigned[p]
        /\ reg'[p] = reg[p]
  <2>1. PICK b \in BOOLEAN :
          /\ Advanced!RefreshWindow(c, [assigned EXCEPT ![q] = b])
          /\ Advanced!Written(q, c[q]) \/ UNCHANGED <<reg, key>>
    BY DEF Advanced!CheckClicked, Advanced!store
  <2>2. [assigned EXCEPT ![q] = b] \in [Advanced!Prefs -> BOOLEAN]
        /\ [assigned EXCEPT ![q] = b][p] = assigned[p]
    BY <1>1
  <2>3. reg'[p] = reg[p]
    BY <1>1, <2>1 DEF Advanced!Written
  <2>4. Advanced!Read(Advanced!Prefs, c, [assigned EXCEPT ![q] = b])
    BY <2>1 DEF Advanced!RefreshWindow
  <2> HIDE DEF c
  <2> QED
    BY <2>2, <2>3, <2>4
<1> HIDE DEF c
<1> QED
  BY <1>2, <1>3, UsedAfterRead DEF Advanced!InUse

LEMMA UsedAfterTyping ==
  ASSUME SettingsInv, NEW n \in Typed, Advanced!OpacityTyped(n), NEW p \in Advanced!Checks
  PROVE  Advanced!InUse(p)' = Advanced!InUse(p)
<1>1. p \in Advanced!Prefs /\ p # "DefaultOpacity"
  BY PrefsAre
<1>2. reg'[p] = reg[p] /\ cached'[p] = cached[p] /\ assigned'[p] = assigned[p]
  BY <1>1 DEF Advanced!OpacityTyped, Advanced!Written, Advanced!store, SettingsInv, SettingsType
<1> QED
  BY <1>2 DEF Advanced!InUse

\* Clearing leaves a check box as it is, because it has been read (ChecksRead): what
\* is cached is what was used.
LEMMA UsedAfterClearing ==
  ASSUME SettingsInv, running, Advanced!ClearSavedSettings, NEW p \in Advanced!Checks
  PROVE  Advanced!InUse(p)' = Advanced!InUse(p)
<1>1. p \in Advanced!Prefs
  BY PrefsAre
<1>2. PICK n \in 0 .. Len(Advanced!Names) :
        /\ Advanced!ClearValues(n)
        /\ Advanced!RefreshWindow(cached, [q \in Advanced!Prefs |->
              assigned[q] /\ \A i \in 1 .. n : q # Advanced!Names[i]])
  BY DEF Advanced!ClearSavedSettings
<1>3. PICK a : a = [q \in Advanced!Prefs |->
                      assigned[q] /\ \A i \in 1 .. n : q # Advanced!Names[i]]
  OBVIOUS
<1>4. a \in [Advanced!Prefs -> BOOLEAN] /\ Advanced!Read(Advanced!Prefs, cached, a)
  BY <1>2, <1>3 DEF Advanced!RefreshWindow
<1>5. reg[p] # Absent => assigned[p]
  BY DEF SettingsInv, ChecksRead
<1>6. /\ reg'[p] # Absent => reg'[p] = reg[p]
      /\ ~a[p] => ~assigned[p] \/ reg'[p] = Absent
  BY <1>1, <1>2, <1>3 DEF Advanced!ClearValues
<1>7. Advanced!InUse(p) = cached[p]
  BY <1>5 DEF Advanced!InUse
<1>8. Advanced!InUse(p)' = cached[p]
  <2>1. ~(~a[p] /\ reg'[p] # Absent)
    BY <1>5, <1>6
  <2> QED
    BY <1>1, <1>4, <2>1, UsedAfterRead
<1> QED
  BY <1>7, <1>8

\* Only a click changes what a check box stands for, and only typing or clearing the
\* opacity: every Get, write that fails and new dialog leaves the rest as it was.
THEOREM OnlyUserEverChanges == DialogSpec => OnlyUserChanges
<1> DEFINE Unchanged(p) == Advanced!InUse(p)' = Advanced!InUse(p)
           Allowed ==
             running /\ running' =>
               /\ \A p \in Advanced!Checks : ~Unchanged(p) => Advanced!CheckClicked(p)
               /\ ~Unchanged("DefaultOpacity") =>
                    \/ Advanced!ClearSavedSettings
                    \/ \E n \in Typed : Advanced!OpacityTyped(n)
<1>1. ASSUME DialogInv, [DialogNext]_dialogVars PROVE Allowed
  <2> SUFFICES ASSUME running, running' PROVE Allowed
    OBVIOUS
  <2>0. /\ SettingsInv
        /\ Advanced!Checks \subseteq Advanced!Prefs /\ "DefaultOpacity" \in Advanced!Prefs
        /\ "DefaultOpacity" \notin Advanced!Checks
        /\ {"UseNotificationIcon"} \in SUBSET Advanced!Prefs
    BY <1>1, PrefsAre DEF DialogInv
  <2>1. CASE UNCHANGED <<reg, cached, assigned>>
    BY <2>1, UsedAfterNothing
  <2>2. CASE \E some \in SUBSET Advanced!Prefs :
               UNCHANGED reg /\ Advanced!Read(some, cached, assigned)
    BY <2>0, <2>2, UsedAfterOnlyReading
  <2>3. ASSUME NEW q \in Advanced!Checks, Advanced!CheckClicked(q) PROVE Allowed
    <3>1. \A p \in Advanced!Prefs : p # q => Unchanged(p)
      BY <2>0, <2>3, UsedAfterClick
    <3> QED
      BY <2>0, <2>3, <3>1
  <2>4. ASSUME NEW n \in Typed, Advanced!OpacityTyped(n) PROVE Allowed
    <3>1. \A p \in Advanced!Checks : Unchanged(p)
      BY <2>0, <2>4, UsedAfterTyping
    <3> QED
      BY <2>4, <3>1
  <2>5. CASE Advanced!ClearSavedSettings
    <3>1. \A p \in Advanced!Checks : Unchanged(p)
      BY <2>0, <2>5, UsedAfterClearing
    <3> QED
      BY <2>5, <3>1
  <2>6. CASE Advanced!OpenDialog \/ Advanced!ShowAdvanced
    <3>1. UNCHANGED reg /\ Advanced!Read(Advanced!Prefs, cached, assigned)
      BY <2>6 DEF Advanced!OpenDialog, Advanced!ShowAdvanced, Advanced!RefreshWindow, Advanced!store
    <3> QED
      BY <2>2, <3>1
  <2>7. CASE Advanced!CloseDialog \/ Advanced!RunHalfSecondActions
    <3>1. \/ UNCHANGED <<reg, cached, assigned>>
          \/ UNCHANGED reg /\ Advanced!Read({"UseNotificationIcon"}, cached, assigned)
      BY <2>7 DEF Advanced!CloseDialog, Advanced!RunHalfSecondActions, Advanced!store, Advanced!copy
    <3> QED
      BY <2>0, <2>1, <2>2, <3>1
  <2>8. CASE UNCHANGED settings \/ UNCHANGED dialogVars
    BY <2>1, <2>8 DEF settings, dialogVars, Advanced!vars, Advanced!store, Advanced!copy
  <2>9. ~Advanced!Run /\ ~Quit
    BY DEF Advanced!Run, Quit, Advanced!Exit
  <2> HIDE DEF Allowed
  <2> QED
    BY <1>1, <2>3, <2>4, <2>5, <2>6, <2>7, <2>8, <2>9 DEF DialogNext, Advanced!AdvancedTab
<1>2. DialogInv /\ [DialogNext]_dialogVars =>
        [running /\ running' =>
           /\ \A p \in Advanced!Checks :
                Advanced!InUse(p)' # Advanced!InUse(p) => Advanced!CheckClicked(p)
           /\ Advanced!InUse("DefaultOpacity")' # Advanced!InUse("DefaultOpacity") =>
                Advanced!ClearSavedSettings
                \/ \E n \in Typed : Advanced!OpacityTyped(n)]_(Advanced!vars)
  BY <1>1
<1> QED
  BY DialogAlways, <1>2, PTL DEF DialogSpec, OnlyUserChanges, Advanced!OnlyUserChanges
=============================================================================
