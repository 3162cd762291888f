------------------------------- MODULE Mirror -------------------------------
(***************************************************************************)
(* A mirror: the live copy of a source window made by Windows' graphics    *)
(* capture, and the view (MiniView) that tells it what to show.            *)
(*                                                                         *)
(* Every operation holds the lock of the mirror from its first to its last *)
(* line, and frames come to the thread that made the capture, between its  *)
(* messages, so an operation of the view is one step.  A frame takes two:  *)
(* the sizes are brought up to date, then the frame is copied and the pool *)
(* follows; the copy finds sizes set in different steps.  Frames lag       *)
(* behind the window, and the view looks at the size of the window twice a *)
(* second: a window can be resized, minimized and restored before either   *)
(* of them notices.                                                        *)
(*                                                                         *)
(* One dimension is enough: width and height are treated alike, and what   *)
(* holds of one is needed of both.  A region is a pair of a left and a     *)
(* right coordinate.                                                       *)
(*                                                                         *)
(* A definition whose name ends in an underscore and a word is the one     *)
(* below it with a fault put in; see the module MiniViews.                 *)
(***************************************************************************)
EXTENDS Integers

CONSTANTS
  Widths,    \* the widths of the client area of the source, 0 when minimized
  FrameOf,   \* the width of a frame of it, for every width but 0
  Clips,     \* the clip regions a user chooses
  Edges,     \* the coordinates a user types for an edge of a clip region
  NoClip,
  Failures   \* what may fail

ASSUME MirrorAssumption ==
  /\ Widths \subseteq Nat
  /\ FrameOf \in [Widths \ {0} -> Nat \ {0}]
  /\ Clips \subseteq Nat \X Nat
  /\ Edges \subseteq Nat
  /\ NoClip \notin Nat \X Nat
  /\ Failures \subseteq {"create", "finish", "resize", "copy"}

VARIABLES
  open,       \* the source window exists
  source,     \* the width of the client area of the source window
  captured,   \* the width of the frames that come
  clip,       \* the view's rcClip, or NoClip when its clipped is false
  adjusted,   \* the mirror was not told of the view's present clip; nothing depends
              \* on it
  seen,       \* the view's sourceSize
  capturing,  \* graphicsCaptureSource is not null
  pool,       \* the width of the frame pool, and of the surfaces of its frames
  swapChain,  \* the width of the swap chain, 0 for none
  size,
  clipped,
  clipPaused,
  frameClipRegionInvalid,
  frameClipRegion,
  gdiClipRegion,
  gdiSourceSize,
  frame,      \* how far frameArrived is: "none", or with its size looked at "same" as
              \* before, or "resized"
  mishaps,    \* what has happened of Mishaps; nothing depends on it
  crashed     \* a null pointer was used

window == <<open, source, captured>>
view   == <<clip, adjusted, seen>>
chain  == <<capturing, pool, swapChain, size>>
region == <<clipped, clipPaused, frameClipRegionInvalid, frameClipRegion,
            gdiClipRegion, gdiSourceSize>>
course == <<frame, crashed>>
vars == <<window, view, chain, region, mishaps, course>>

Empty == <<0, 0>>

\* A call has failed; the source was minimized; a region was chosen while it was,
\* or between a change of its size and the view's next look at it
Mishaps == {"failed", "minimized", "hasty"}

FrameWidths == {FrameOf[w] : w \in Widths \ {0}}

\* A view just dropped on a window (createMirror has returned)
Init ==
  /\ open = TRUE
  /\ source \in Widths \ {0}
  /\ captured = FrameOf[source]
  /\ clip = NoClip
  /\ adjusted = FALSE
  /\ seen = source
  /\ capturing = TRUE
  /\ pool = captured
  /\ swapChain = captured
  /\ size = captured
  /\ clipped = FALSE
  /\ clipPaused = FALSE
  /\ frameClipRegionInvalid = TRUE
  /\ frameClipRegion = Empty
  /\ gdiClipRegion = Empty
  /\ gdiSourceSize = 0
  /\ frame = "none"
  /\ mishaps = {}
  /\ crashed = FALSE

-----------------------------------------------------------------------------
(* The source window *)

ResizeSource(w) ==
  /\ ~crashed
  /\ open
  /\ w # source
  /\ source' = w
  /\ mishaps' = IF w = 0 THEN mishaps \union {"minimized"} ELSE mishaps
  /\ UNCHANGED <<open, captured, view, chain, region, course>>

CloseSource ==
  /\ ~crashed
  /\ open
  /\ open' = FALSE
  /\ UNCHANGED <<source, captured, view, chain, region, mishaps, course>>

\* A frame of the present width is captured; a minimized window has none
Capture ==
  /\ ~crashed
  /\ open
  /\ source # 0
  /\ captured # FrameOf[source]
  /\ captured' = FrameOf[source]
  /\ UNCHANGED <<open, source, view, chain, region, mishaps, course>>

-----------------------------------------------------------------------------
(* The mirror's own operations *)

\* The thread is between two messages
Free == ~crashed /\ frame = "none"

Mishap(some) == mishaps' = mishaps \union some

clearClipNoLock_RegionStays ==
  /\ clipped' = FALSE
  /\ frameClipRegionInvalid' = TRUE
  /\ frameClipRegion' = Empty
  /\ UNCHANGED gdiClipRegion

clearClipNoLock ==
  /\ clipped' = FALSE
  /\ frameClipRegionInvalid' = TRUE
  /\ frameClipRegion' = Empty
  /\ gdiClipRegion' = Empty

resetChain_CaptureStays ==
  /\ UNCHANGED capturing
  /\ pool' = 0
  /\ swapChain' = 0
  /\ size' = 0

resetChain ==
  /\ capturing' = FALSE
  /\ pool' = 0
  /\ swapChain' = 0
  /\ size' = 0

\* createMirrorNoLock, as far as it gets: it is refused a capture and leaves
\* nothing behind, or it throws when the capture runs already, before or after
\* the swap chain is made
Created ==
  /\ open
  /\ capturing' = TRUE
  /\ pool' = captured
  /\ swapChain' = captured
  /\ size' = captured

NotCreated ==
  \/ /\ "create" \in Failures \/ ~open
     /\ resetChain
  \/ /\ open
     /\ "finish" \in Failures
     /\ capturing' = TRUE
     /\ pool' = captured
     /\ swapChain' \in {0, captured}
     /\ size' = captured

createMirrorNoLock ==
  /\ \/ Created /\ UNCHANGED mishaps
     \/ NotCreated /\ Mishap({"failed"})
  /\ clearClipNoLock
  /\ UNCHANGED gdiSourceSize

\* setClipNoLock, which ends in the middle when createMirrorNoLock throws; w is
\* the width the view found, before the gdiSourceSize that is left then, others
\* what else to note
setClipNoLock(c, w, before, others) ==
  \/ /\ Created
     /\ clipped' = TRUE
     /\ frameClipRegionInvalid' = TRUE
     /\ frameClipRegion' = Empty
     /\ gdiClipRegion' = c
     /\ gdiSourceSize' = w
     /\ Mishap(others)
  \/ /\ NotCreated
     /\ clearClipNoLock
     /\ Mishap({"failed"} \union others)
     /\ gdiSourceSize' = before

handleSourceSizeChange(w) ==
  IF clipped \/ clipPaused
  THEN /\ setClipNoLock(gdiClipRegion, w, IF clipped THEN w ELSE gdiSourceSize, {})
       /\ clipPaused' = (clipPaused /\ clipped)
  ELSE /\ createMirrorNoLock
       /\ UNCHANGED clipPaused

-----------------------------------------------------------------------------
(* What the view asks of its mirror *)

TellClip(c) ==
  /\ Free
  /\ clip' = c
  /\ adjusted' = FALSE
  /\ setClipNoLock(c, source, gdiSourceSize,
                   IF source \in {seen} \ {0} THEN {} ELSE {"hasty"})
  /\ UNCHANGED <<window, seen, clipPaused, course>>

\* MiniView::SetClip after a region was selected
SetClip == \E c \in Clips : TellClip(c)

\* SizeFinished, and MatchSource, which calls createMirror first to the same effect
SizeFinished == clip # NoClip /\ TellClip(clip)

\* A region with its left or its right edge at x
Moved(r, x) == {<<x, r[2]>>, <<r[1], x>>}

\* AdjustClipLeft and AdjustClipRight, which keep it from the mirror
AdjustClip ==
  /\ Free
  /\ open
  /\ clip # NoClip
  /\ \E x \in Edges : clip' \in Moved(clip, IF x > source THEN source ELSE x)
  /\ adjusted' = (adjusted \/ clip' # clip)
  /\ UNCHANGED <<window, seen, chain, region, mishaps, course>>

\* MiniView::ClearClipRegion, which leaves the view clipped when the mirror throws
ClearClip ==
  /\ Free
  /\ \/ /\ Created
        /\ clip' = NoClip
        /\ adjusted' = FALSE
        /\ UNCHANGED mishaps
     \/ /\ NotCreated
        /\ UNCHANGED <<clip, adjusted>>
        /\ Mishap({"failed"})
  /\ clearClipNoLock
  /\ UNCHANGED <<window, seen, clipPaused, gdiSourceSize, course>>

\* MiniView::ValidateProperties, every half second
ValidateProperties ==
  /\ Free
  /\ open
  /\ seen # source
  /\ seen' = source
  /\ handleSourceSizeChange(source)
  /\ UNCHANGED <<window, clip, adjusted, course>>

-----------------------------------------------------------------------------
(* What Windows tells the mirror *)

Scaled(r, from, to) == <<(to * r[1]) \div from, (to * r[2]) \div from>>

Usable(box, w) == box[1] < box[2] /\ box[2] < w

updateClip_NotPaused(w, sizeChanged) ==
  IF ~(sizeChanged \/ frameClipRegionInvalid \/ ~Usable(frameClipRegion, w))
  THEN UNCHANGED region
  ELSE LET box == IF gdiSourceSize > 0 THEN Scaled(gdiClipRegion, gdiSourceSize, w)
                                       ELSE frameClipRegion
       IN  /\ frameClipRegion' = box
           /\ frameClipRegionInvalid' = ~Usable(box, w)
           /\ clipped' = Usable(box, w)
           /\ UNCHANGED <<clipPaused, gdiClipRegion, gdiSourceSize>>

\* updateClip for a frame of width w; a region that is good stays as it is
updateClip(w, sizeChanged) ==
  IF ~(sizeChanged \/ frameClipRegionInvalid \/ ~Usable(frameClipRegion, w))
  THEN UNCHANGED region
  ELSE IF gdiSourceSize > 0
  THEN LET box == Scaled(gdiClipRegion, gdiSourceSize, w)
       IN  /\ frameClipRegion' = box
           /\ frameClipRegionInvalid' = ~Usable(box, w)
           /\ clipped' = Usable(box, w)
           /\ clipPaused' = TRUE
           /\ UNCHANGED <<gdiClipRegion, gdiSourceSize>>
  ELSE /\ clipped' = FALSE
       /\ UNCHANGED <<clipPaused, frameClipRegionInvalid, frameClipRegion,
                      gdiClipRegion, gdiSourceSize>>

UpdateRegion(w, sizeChanged) ==
  IF clipped THEN updateClip(w, sizeChanged) ELSE UNCHANGED region

FrameArrives ==
  /\ Free
  /\ capturing
  /\ UNCHANGED <<window, view, capturing>>

\* ... and finds no swap chain
FrameMeetsNull ==
  /\ FrameArrives
  /\ swapChain = 0
  /\ crashed' = TRUE
  /\ UNCHANGED <<pool, swapChain, size, region, frame, mishaps>>

\* A frame of the width the mirror knows
FrameOfSameSize ==
  /\ FrameArrives
  /\ swapChain # 0
  /\ captured = size
  /\ UpdateRegion(size, FALSE)
  /\ frame' = "same"
  /\ UNCHANGED <<pool, swapChain, size, mishaps, crashed>>

ResizeBuffers_InWindowUnits ==
  swapChain' = IF clipped' THEN gdiClipRegion[2] - gdiClipRegion[1] ELSE size'

\* refreshSwapChain
ResizeBuffers ==
  swapChain' = IF clipped' THEN frameClipRegion'[2] - frameClipRegion'[1] ELSE size'

\* A frame of another width, which the swap chain follows; a failure ends the handler
FrameOfNewSize ==
  /\ FrameArrives
  /\ swapChain # 0
  /\ captured # size
  /\ size' = captured
  /\ UpdateRegion(captured, TRUE)
  /\ \/ ResizeBuffers /\ frame' = "resized" /\ UNCHANGED mishaps
     \/ "resize" \in Failures /\ UNCHANGED <<swapChain, frame>> /\ Mishap({"failed"})
  /\ UNCHANGED <<pool, crashed>>

RenderFrame_PoolStays ==
  /\ frame # "none"
  /\ frame' = "none"
  /\ UNCHANGED <<window, view, chain, region, mishaps, crashed>>

\* renderFrame and the rest of frameArrived: the frame is copied from a surface of the
\* width of the pool, then the pool follows the size; a failure of the copy or of the
\* pool leaves it behind
RenderFrame ==
  /\ frame # "none"
  /\ frame' = "none"
  /\ \/ /\ pool' = IF frame = "resized" THEN size ELSE pool
        /\ UNCHANGED mishaps
     \/ "copy" \in Failures /\ UNCHANGED pool /\ Mishap({"failed"})
  /\ UNCHANGED <<window, view, capturing, swapChain, size, region, crashed>>

\* sourceClosed
SourceClosed ==
  /\ Free
  /\ ~open
  /\ capturing
  /\ resetChain
  /\ clearClipNoLock
  /\ UNCHANGED <<window, view, clipPaused, gdiSourceSize, mishaps, course>>

Next ==
  \/ \E w \in Widths : ResizeSource(w)
  \/ CloseSource
  \/ Capture
  \/ SetClip
  \/ SizeFinished
  \/ AdjustClip
  \/ ClearClip
  \/ ValidateProperties
  \/ FrameMeetsNull
  \/ FrameOfSameSize
  \/ FrameOfNewSize
  \/ RenderFrame
  \/ SourceClosed

Spec == Init /\ [][Next]_vars

\* A window that is not minimized is captured, frames are delivered, and a handler that
\* began ends; the timer of the view is served again and again although frames come
\* between its messages.  Nothing is assumed of the user, and no failure is demanded.
FairSpec ==
  /\ Spec
  /\ WF_vars(Capture)
  /\ WF_vars(FrameOfSameSize \/ FrameOfNewSize)
  /\ WF_vars(RenderFrame)
  /\ SF_vars(ValidateProperties)

-----------------------------------------------------------------------------
(* Properties *)

Regions == Nat \X Nat

\* The type invariant: widths, regions and flags of the Mirror and the view.
TypeOK ==
  /\ open \in BOOLEAN
  /\ source \in Widths
  /\ captured \in FrameWidths
  /\ clip \in Regions \union {NoClip}
  /\ adjusted \in BOOLEAN
  /\ seen \in Widths
  /\ capturing \in BOOLEAN
  /\ pool \in FrameWidths \union {0}
  /\ swapChain \in Nat
  /\ size \in FrameWidths \union {0}
  /\ clipped \in BOOLEAN
  /\ clipPaused \in BOOLEAN
  /\ frameClipRegionInvalid \in BOOLEAN
  /\ frameClipRegion \in Regions
  /\ gdiClipRegion \in Regions
  /\ gdiSourceSize \in Widths \union {0}
  /\ frame \in {"none", "same", "resized"}
  /\ mishaps \subseteq Mishaps
  /\ crashed \in BOOLEAN

Drawn == clipped /\ ~frameClipRegionInvalid

\* What the graphics system asks of copyFrame: a region that is not empty, lies in the
\* surface of the frame and fits in the swap chain; without one, two equal sizes
CopyIsLegal ==
  IF clipped
  THEN /\ frameClipRegion[1] < frameClipRegion[2]
       /\ frameClipRegion[2] <= pool
       /\ frameClipRegion[2] - frameClipRegion[1] <= swapChain
  ELSE swapChain = pool

\* Unless a call failed, a frame whose size the mirror knew can be copied. The first of
\* another size comes to a swap chain that has the new size and from a surface that has
\* the old one (the pool is recreated after the copy): it can be copied just when a
\* region is drawn that lies in the old surface too.
CopyFits ==
  frame # "none" /\ "failed" \notin mishaps =>
    (CopyIsLegal <=> frame = "same" \/ (clipped /\ frameClipRegion[2] <= pool))

\* A frame finds the null pointer of a swap chain only after a call of the graphics
\* system failed: no order of resizing, minimizing, clipping, pausing and closing brings
\* a frame to a mirror that has none.
NullOnlyAfterFailure == crashed => "failed" \in mishaps

\* The mirror never draws another region than the one the view last told it of,
\* though it keeps a copy of it while it is paused and takes the copy when it resumes.
NeverAnotherRegion == Drawn /\ ~adjusted => gdiClipRegion = clip

\* "You can also adjust this area by setting the Left, Top, Right, and Bottom
\* coordinates of the clip area in the Views tab" (README.md:32): what is drawn of
\* the source is the area that was set.
AdjustedIsDrawn == Drawn => gdiClipRegion = clip

\* When a frame size stays, size and frame pool follow it, and from then on every frame
\* can be copied.
SizesSettle ==
  \A f \in FrameWidths :
    <>[](captured = f /\ capturing /\ "failed" \notin mishaps)
      => <>[](size = f /\ pool = f /\ (frame # "none" => CopyIsLegal))

\* The region c of the view is drawn, at its place in frames of a window of width w
DrawnRight(c, w) == Drawn /\ frameClipRegion = Scaled(c, w, FrameOf[w])

\* A clip region that had to be paused because the window was too small is drawn
\* again when the window has room for it, whatever sizes the window had meanwhile; not
\* when a call failed, the window was minimized or a region was chosen in haste, after
\* which it may stay off.
ClipComesBack ==
  \A c \in Clips, w \in Widths \ {0} :
    /\ Usable(Scaled(c, w, FrameOf[w]), FrameOf[w])
    /\ [](mishaps = {})
    /\ <>[](clip = c /\ ~adjusted /\ source = w /\ capturing /\ open)
    => []<>DrawnRight(c, w)
=============================================================================
