------------------------------ MODULE Geometry ------------------------------
(***************************************************************************)
(* The size of one view: the size its user gave it, the clip region, and   *)
(* with a locked ratio the part of the view that is drawn (the internal    *)
(* clip), which FixRatio computes only when the shown size differs from    *)
(* the one it last worked for.  An operation that changes one of these has *)
(* to keep that memory in step; some operations do not, and the properties *)
(* name them.                                                              *)
(*                                                                         *)
(* A size is <<width, height>>, a region <<left, top, right, bottom>>.     *)
(* Borders and places on the screen are left out.                          *)
(*                                                                         *)
(* A definition whose name ends in an underscore and a word is the one     *)
(* below it with a fault put in; see the module MiniViews.                 *)
(***************************************************************************)
EXTENDS Integers

CONSTANTS
  Sizes,             \* the client sizes of source windows, <<0, 0>> minimized
  Desktop,           \* the size of the desktop, the source of a blank view
  minimumDimension,
  Regions,           \* what a user may select with the mouse
  Lengths,           \* widths and heights a user types or drags to
  Coordinates,       \* coordinates a user types
  NoRegion,
  NoSize,
  MaxActs            \* a bound on what a user does

ASSUME GeometryAssumption ==
  /\ Sizes \subseteq Nat \X Nat
  /\ Desktop \in (Nat \ {0}) \X (Nat \ {0})
  /\ minimumDimension \in Nat
  /\ Regions \subseteq Nat \X Nat \X Nat \X Nat
  /\ \A r \in Regions : r[1] <= r[3] /\ r[2] <= r[4]
  /\ Lengths \subseteq Int
  /\ Coordinates \subseteq Int
  /\ NoRegion \notin Int \X Int \X Int \X Int
  /\ NoSize \notin Nat \X Nat
  /\ MaxActs \in Nat

VARIABLES
  settingWindow,   \* the view is blank, not yet dropped on a window
  source,          \* the client size of hSource
  sourceSize,
  lockRatio,
  clipped,
  rcClip,
  lastUserSet,     \* lastUserSetCliWidth and lastUserSetCliHeight
  lastFixedTo,     \* lastCliWidthFixedTo and lastCliHeightFixedTo
  rcInternalClip,  \* NoRegion when internallyClipped is false
  client,          \* the size of the client area of the view
  selecting,       \* the size of the window of ClipSel, or NoSize
  acts             \* how often the user did something

place == <<settingWindow, source, sourceSize, selecting>>
clip  == <<clipped, rcClip>>
vars  == <<place, lockRatio, clip, lastUserSet, lastFixedTo, rcInternalClip,
           client, acts>>

Abs(n) == IF n < 0 THEN -n ELSE n

Larger(m, n) == IF m < n THEN n ELSE m

RoundedQuotient(dividend, divisor) ==
  IF dividend = 0 \/ divisor = 0 THEN 0
  ELSE LET q == (Abs(dividend) + Abs(divisor) \div 2) \div Abs(divisor)
       IN  IF (dividend > 0) = (divisor > 0) THEN q ELSE -q

Whole(s) == <<0, 0, s[1], s[2]>>

SizeOf(r) == <<r[3] - r[1], r[4] - r[2]>>

\* sourceWidth and sourceHeight of FixRatio and DoSizing
Shown == IF clipped THEN SizeOf(rcClip) ELSE source

Init ==
  /\ settingWindow = TRUE
  /\ source = Desktop
  /\ sourceSize \in Sizes  \* it has no initial value
  /\ lockRatio \in BOOLEAN
  /\ clipped = FALSE
  /\ rcClip = Whole(Desktop)
  /\ lastUserSet = <<0, 0>>
  /\ lastFixedTo = <<0, 0>>
  /\ rcInternalClip = NoRegion
  /\ client = <<Desktop[1] \div 6, Desktop[2] \div 6>>
  /\ selecting = NoSize
  /\ acts = 0

-----------------------------------------------------------------------------
(* What the operations are made of *)

\* SetMinMaxSize of a view whose source has the size s
MinTrackSize(s) ==
  IF s[1] > s[2]
  THEN <<IF s[2] = 0 THEN 0 ELSE (minimumDimension * s[1]) \div s[2], minimumDimension>>
  ELSE <<minimumDimension, IF s[1] = 0 THEN 0 ELSE (minimumDimension * s[2]) \div s[1]>>

\* Windows gives a window with a frame, as views have in edit mode, no less than
\* its minimum, and no window less than nothing
Granted(size, framed, s) ==
  LET least == IF framed THEN MinTrackSize(s) ELSE <<0, 0>>
  IN  <<Larger(size[1], least[1]), Larger(size[2], least[2])>>

\* The size s put into the guide size g with the proportion of s
MatchHeight(g, s) ==
  /\ s[1] > 0
  /\ \/ s[1] > g[1] /\ s[2] <= g[2]
     \/ (s[1] > g[1]) = (s[2] > g[2]) /\ s[1] * g[2] > s[2] * g[1]

MatchWidth(g, s) ==
  /\ s[2] > 0
  /\ \/ s[1] <= g[1] /\ s[2] > g[2]
     \/ (s[1] > g[1]) = (s[2] > g[2]) /\ s[2] * g[1] > s[1] * g[2]

ByHeight(h, s) == <<RoundedQuotient(h * s[1], s[2]), h>>
ByWidth(w, s)  == <<w, RoundedQuotient(w * s[2], s[1])>>

Fitted(g, s) ==
  IF MatchHeight(g, s) THEN ByWidth(g[1], s)
  ELSE IF MatchWidth(g, s) THEN ByHeight(g[2], s)
  ELSE g

InternalClip_OffCentre(g, s) ==
  LET f == Fitted(g, s)
  IN  IF f = g THEN NoRegion
      ELSE LET left == RoundedQuotient(g[1], 2)
               top  == RoundedQuotient(g[2], 2)
           IN  <<left, top, left + f[1], top + f[2]>>

InternalClip(g, s) ==
  LET f == Fitted(g, s)
  IN  IF f = g THEN NoRegion
      ELSE LET left == RoundedQuotient(Abs(g[1] - f[1]), 2)
               top  == RoundedQuotient(Abs(g[2] - f[2]), 2)
           IN  <<left, top, left + f[1], top + f[2]>>

FixRatio_ClipStays(r) ==
  IF lockRatio' /\ ~settingWindow' /\ Shown' # lastFixedTo
  THEN /\ rcInternalClip' = LET c == InternalClip(lastUserSet', Shown')
                            IN  IF c = NoRegion THEN r ELSE c
       /\ lastFixedTo' = Shown'
  ELSE rcInternalClip' = r /\ UNCHANGED lastFixedTo

\* FixRatio for what the step has set; unless it computes, the internal clip is r
FixRatio(r) ==
  IF lockRatio' /\ ~settingWindow' /\ Shown' # lastFixedTo
  THEN /\ rcInternalClip' = InternalClip(lastUserSet', Shown')
       /\ lastFixedTo' = Shown'
  ELSE rcInternalClip' = r /\ UNCHANGED lastFixedTo

ClearFixRatioCache ==
  /\ rcInternalClip' = NoRegion
  /\ lastFixedTo' = <<0, 0>>

-----------------------------------------------------------------------------
(* The source window, and the half-second look at it *)

ResizeSource(s) ==
  /\ ~settingWindow
  /\ s # source
  /\ source' = s
  /\ UNCHANGED <<settingWindow, sourceSize, selecting, lockRatio, clip, lastUserSet,
                 lastFixedTo, rcInternalClip, client, acts>>

ValidateProperties ==
  /\ sourceSize # source
  /\ sourceSize' = source
  /\ UNCHANGED <<settingWindow, source, selecting, lockRatio, clip, lastUserSet, client,
                 acts>>
  /\ FixRatio(rcInternalClip)

-----------------------------------------------------------------------------
(* What the user does, in the menu of the view, the Views tab or with the mouse *)

\* A view of a source of the size s gets the size shown, as MatchSource does it
Match(size, framed, s) ==
  /\ client' = Granted(size, framed, s)
  /\ lastUserSet' = client'

\* ExitSizeMove of a blank view, over a window of size s; match is
\* DefaultMatchSourceSize.  The ratio is not fixed.
Drop(s, match) ==
  /\ settingWindow
  /\ settingWindow' = FALSE
  /\ source' = s
  /\ sourceSize' = s
  /\ rcClip' = Whole(s)
  /\ UNCHANGED <<selecting, lockRatio, clipped, lastFixedTo>>
  /\ IF match
     THEN Match(s, TRUE, s) /\ rcInternalClip' = NoRegion
     ELSE lastUserSet' = client /\ UNCHANGED <<client, rcInternalClip>>

MatchSource(framed) ==
  /\ Match(Shown, framed, source)
  /\ rcInternalClip' = NoRegion
  /\ UNCHANGED <<place, lockRatio, clip, lastFixedTo>>

ToggleLockRatio ==
  /\ lockRatio' = ~lockRatio
  /\ UNCHANGED <<place, clip, lastUserSet, client>>
  /\ FixRatio(rcInternalClip)

\* SetClipRegion of view and program: the selection window covers the source
SetClipRegion(framed) ==
  /\ source[1] > 0 /\ source[2] > 0
  /\ client' = Granted(lastUserSet, framed, source)
  /\ selecting' = source
  /\ UNCHANGED <<settingWindow, source, sourceSize, lockRatio, clip, lastUserSet,
                 lastFixedTo, rcInternalClip>>

\* The mouse button is released: EndSetClipRegion and SetClip
SetClip(r, match, framed) ==
  /\ selecting # NoSize
  /\ r[3] < selecting[1] /\ r[4] < selecting[2]
  /\ selecting' = NoSize
  /\ clipped' = TRUE
  /\ rcClip' = r
  /\ UNCHANGED <<settingWindow, source, sourceSize, lockRatio>>
  /\ IF match
     THEN Match(SizeOf(r), framed, source) /\ FixRatio(NoRegion)
     ELSE UNCHANGED <<client, lastUserSet>> /\ FixRatio(rcInternalClip)

ClearClipRegion(framed) ==
  /\ client' = Granted(lastUserSet, framed, source)
  /\ clipped' = FALSE
  /\ rcClip' = Whole(source)
  /\ UNCHANGED <<place, lockRatio, lastUserSet>>
  /\ FixRatio(rcInternalClip)

\* AdjustClipLeft, Top, Right and Bottom, sides 1 to 4, from the fields of the
\* Views tab, which are enabled for a clipped view
AdjustClip(side, n) ==
  /\ clipped
  /\ LET last == source[IF side \in {1, 3} THEN 1 ELSE 2]
     IN  rcClip' = [rcClip EXCEPT ![side] = IF n < 0 THEN 0
                                            ELSE IF n > last THEN last ELSE n]
  /\ ClearFixRatioCache
  /\ UNCHANGED <<place, lockRatio, clipped, lastUserSet, client>>

\* The field of the width or the height has lost the focus, with a number in it
AdjustCli(size, framed) ==
  /\ lastUserSet' = size
  /\ client' = Granted(size, framed, source)
  /\ lastFixedTo' = IF lockRatio THEN Shown ELSE lastFixedTo
  /\ UNCHANGED <<place, lockRatio, clip, rcInternalClip>>

AdjustCliWidth(n, framed) ==
  AdjustCli(IF lockRatio THEN ByWidth(n, Shown) ELSE <<n, client[2]>>, framed)

AdjustCliHeight(n, framed) ==
  AdjustCli(IF lockRatio THEN ByHeight(n, Shown) ELSE <<client[1], n>>, framed)

\* The size a drag of the edge to the given size is turned into
Sized(edge, size) ==
  IF edge = "top" \/ (edge = "corner" /\ size[1] * Shown[2] > Shown[1] * size[2])
  THEN ByHeight(size[2], Shown)
  ELSE ByWidth(size[1], Shown)

\* The edge, left or right ("side"), top or bottom ("top") or a corner, is dragged
DoSizing(edge, size) ==
  /\ lastUserSet' = IF lockRatio /\ ~settingWindow THEN Sized(edge, size) ELSE size
  /\ client' = Granted(lastUserSet', TRUE, source)
  /\ lastFixedTo' = IF lockRatio /\ ~settingWindow THEN Shown ELSE <<0, 0>>
  /\ rcInternalClip' = NoRegion
  /\ UNCHANGED <<place, lockRatio, clip>>

UserActs ==
  /\ acts < MaxActs
  /\ acts' = acts + 1
  /\ \/ \E s \in Sizes, match \in BOOLEAN : Drop(s, match)
     \/ ToggleLockRatio
     \/ \E framed \in BOOLEAN :
          \/ MatchSource(framed)
          \/ SetClipRegion(framed)
          \/ \E r \in Regions, match \in BOOLEAN : SetClip(r, match, framed)
          \/ ClearClipRegion(framed)
          \/ \E n \in Lengths : AdjustCliWidth(n, framed) \/ AdjustCliHeight(n, framed)
     \/ \E side \in 1..4, n \in Coordinates : AdjustClip(side, n)
     \/ \E edge \in {"side", "top", "corner"}, w, h \in Lengths : DoSizing(edge, <<w, h>>)

Next ==
  \/ \E s \in Sizes : ResizeSource(s)
  \/ ValidateProperties
  \/ UserActs

Spec == Init /\ [][Next]_vars

-----------------------------------------------------------------------------
(* Properties *)

Places == {Desktop} \union Sizes

\* The type invariant; a coordinate of the clip region is one of the source's or of
\* a selection, whatever was typed.
TypeOK ==
  /\ settingWindow \in BOOLEAN
  /\ source \in Places
  /\ sourceSize \in Places
  /\ lockRatio \in BOOLEAN
  /\ clipped \in BOOLEAN
  /\ rcClip \in Nat \X Nat \X Nat \X Nat
  /\ \A i \in 1..4 : \/ \E r \in Regions : rcClip[i] <= r[i]
                     \/ \E s \in Places : rcClip[i] <= Whole(s)[IF i \in {1, 3} THEN 3 ELSE 4]
  /\ lastUserSet \in Int \X Int
  /\ lastFixedTo \in Int \X Int
  /\ rcInternalClip \in (Int \X Int \X Int \X Int) \union {NoRegion}
  /\ client \in Nat \X Nat
  /\ selecting \in Places \union {NoSize}
  /\ acts \in 0..MaxActs

Picture == IF rcInternalClip = NoRegion THEN lastUserSet ELSE SizeOf(rcInternalClip)

\* The proportion of s up to the rounding of one of the two lengths
InProportion(size, s) ==
  \/ 2 * Abs(size[1] * s[2] - size[2] * s[1]) <= s[1]
  \/ 2 * Abs(size[1] * s[2] - size[2] * s[1]) <= s[2]

\* The picture has the proportion FixRatio last worked for
RatioRight ==
  /\ lastFixedTo[1] > 0 /\ lastFixedTo[2] > 0
  /\ lastUserSet[1] >= 0 /\ lastUserSet[2] >= 0
  => InProportion(Picture, lastFixedTo)

\* The part of the view that is drawn lies inside the size the user gave the view, in
\* its middle, and the view is not smaller (sizes are negative only when they come from
\* a clip region that typed coordinates turned inside out)
Inside ==
  /\ rcInternalClip # NoRegion
  /\ lastFixedTo[1] > 0 /\ lastFixedTo[2] > 0
  /\ lastUserSet[1] >= 0 /\ lastUserSet[2] >= 0
  => /\ 0 <= rcInternalClip[1] /\ rcInternalClip[1] <= rcInternalClip[3]
     /\ 0 <= rcInternalClip[2] /\ rcInternalClip[2] <= rcInternalClip[4]
     /\ rcInternalClip[3] <= lastUserSet[1] /\ lastUserSet[1] <= client[1]
     /\ rcInternalClip[4] <= lastUserSet[2] /\ lastUserSet[2] <= client[2]
     /\ rcInternalClip[1] - (lastUserSet[1] - rcInternalClip[3]) \in {0, 1}
     /\ rcInternalClip[2] - (lastUserSet[2] - rcInternalClip[4]) \in {0, 1}

Typed == \E n \in Lengths, framed \in BOOLEAN :
           AdjustCliWidth(n, framed) \/ AdjustCliHeight(n, framed)

\* A width or height is typed for a view that draws only a part of itself
TypedWhenLetterboxed == rcInternalClip # NoRegion /\ Typed

\* The steps that set the size of the view and leave what FixRatio remembers
SizedUnremembered ==
  \/ \E s \in Sizes, match \in BOOLEAN : Drop(s, match)
  \/ \E framed \in BOOLEAN : MatchSource(framed)
  \/ \E r \in Regions, framed \in BOOLEAN :
       SetClip(r, TRUE, framed) /\ UNCHANGED lastFixedTo
  \/ ~lockRatio /\ Typed

\* What FixRatio remembers is not right in all states of the code: where it is wrong,
\* the ratio of a locked view is not restored, for FixRatio finds the size it remembers
\* and does nothing. But only these steps leave it wrong: a drop, a match of the source,
\* a selection that matches when FixRatio does not compute, and a typed size without the
\* lock or of a letterboxed view. Every other step that touches the size, the picture or
\* the memory leaves them right, also when it found them wrong.
RatioRemembered ==
  /\ RatioRight
  /\ [][\/ RatioRight'
        \/ UNCHANGED <<lastUserSet, rcInternalClip, lastFixedTo>>
        \/ SizedUnremembered
        \/ TypedWhenLetterboxed]_vars

\* Only a size typed for a letterboxed view can put the picture outside of the view or
\* out of its middle; every other step keeps it there, and a picture that is computed
\* is there.
PictureStaysInside ==
  /\ Inside
  /\ [][Inside \/ rcInternalClip' # rcInternalClip
          => Inside' \/ TypedWhenLetterboxed]_vars
=============================================================================
