---------------------------- MODULE MirrorProofs ----------------------------
(***************************************************************************)
(* Proofs about the mirror, for all widths of windows and frames, all clip *)
(* regions and all failures.                                               *)
(*                                                                         *)
(* The invariants are proved together, because each needs the others'      *)
(* strengthening: a region that is drawn lies in the frame (then a frame   *)
(* that changes nothing keeps it), the sizes of pool and swap chain fit    *)
(* except while a frame of another size is between its two steps, and the  *)
(* mirror's copy of the region is the view's, or is empty and then is      *)
(* never drawn.                                                            *)
(***************************************************************************)
EXTENDS Mirror, TLAPS

-----------------------------------------------------------------------------
(* Arithmetic *)

\* A quotient of natural numbers is a natural number.
LEMMA QuotientNat ==
  ASSUME NEW n \in Nat, NEW d \in Nat \ {0}
  PROVE  n \div d \in Nat
OBVIOUS

\* Nothing divided is nothing.
LEMMA QuotientOfNothing ==
  ASSUME NEW d \in Nat \ {0}
  PROVE  0 \div d = 0
OBVIOUS

\* A scaled region is a region.
LEMMA ScaledRegion ==
  ASSUME NEW r \in Regions, NEW from \in Nat \ {0}, NEW to \in Nat
  PROVE  Scaled(r, from, to) \in Regions
<1>1. r[1] \in Nat /\ r[2] \in Nat
  BY DEF Regions
<1>2. to * r[1] \in Nat /\ to * r[2] \in Nat
  BY <1>1
<1>3. (to * r[1]) \div from \in Nat /\ (to * r[2]) \div from \in Nat
  BY <1>2, QuotientNat
<1> QED
  BY <1>3 DEF Scaled, Regions

\* The empty region is empty at every scale.
LEMMA ScaledEmpty ==
  ASSUME NEW from \in Nat \ {0}, NEW to \in Nat, NEW w
  PROVE  ~Usable(Scaled(Empty, from, to), w)
<1>1. to * 0 = 0
  OBVIOUS
<1>2. Empty[1] = 0 /\ Empty[2] = 0
  BY DEF Empty
<1>3. Scaled(Empty, from, to) = <<0, 0>>
  BY <1>1, <1>2, QuotientOfNothing DEF Scaled
<1> QED
  BY <1>3 DEF Usable

-----------------------------------------------------------------------------
(* The inductive invariant *)

\* A region that is drawn lies in the frames the mirror knows
DrawnInside == Drawn => Usable(frameClipRegion, size)

\* The mirror's copy of the region is the view's, unless a coordinate was typed since,
\* or it is empty and not drawn
CopyOrNone ==
  /\ ~adjusted => gdiClipRegion \in {clip, Empty}
  /\ Drawn => gdiClipRegion # Empty

\* Without a failure the pool has the size of the frames but for the one step of a
\* resized frame, and the swap chain has that of what is drawn, or a larger one
ChainFits ==
  capturing /\ "failed" \notin mishaps =>
    /\ pool = size <=> frame # "resized"
    /\ IF Drawn THEN frameClipRegion[2] - frameClipRegion[1] <= swapChain
                ELSE swapChain = size

\* A frame between its two steps is one of a capture, and its region was looked at
FrameLookedAt == frame # "none" => capturing /\ (clipped => ~frameClipRegionInvalid)

MirrorInv == TypeOK /\ ChainFits /\ FrameLookedAt /\ DrawnInside /\ CopyOrNone

\* Facts about the widths
LEMMA Frames ==
  ASSUME TypeOK
  PROVE  /\ captured \in Nat \ {0}
         /\ size \in Nat
         /\ pool \in Nat
         /\ gdiSourceSize \in Nat
         /\ source \in Nat
         /\ 0 \notin FrameWidths
BY MirrorAssumption DEF TypeOK, FrameWidths

\* What updateClip makes of the region of a frame of width w
LEMMA RegionUpdated ==
  ASSUME TypeOK, CopyOrNone, NEW w \in Nat, NEW b \in BOOLEAN,
         UpdateRegion(w, b), UNCHANGED <<clip, adjusted>>
  PROVE  /\ clipped' \in BOOLEAN
         /\ clipPaused' \in BOOLEAN
         /\ frameClipRegionInvalid' \in BOOLEAN
         /\ frameClipRegion' \in Regions
         /\ gdiClipRegion' = gdiClipRegion
         /\ gdiSourceSize' = gdiSourceSize
         /\ CopyOrNone'
         /\ clipped' => ~frameClipRegionInvalid' /\ Usable(frameClipRegion', w)
         /\ Drawn /\ ~b /\ Usable(frameClipRegion, w) => UNCHANGED region
         /\ Drawn' => clipped
<1> USE DEF TypeOK, CopyOrNone, Drawn
<1>1. CASE UNCHANGED region /\ ~clipped
  BY <1>1 DEF region
<1>2. CASE clipped /\ ~(b \/ frameClipRegionInvalid \/ ~Usable(frameClipRegion, w))
  <2>1. UNCHANGED region
    BY <1>2 DEF UpdateRegion, updateClip
  <2> QED
    BY <1>2, <2>1 DEF region
<1>3. CASE clipped /\ (b \/ frameClipRegionInvalid \/ ~Usable(frameClipRegion, w))
  <2>1. CASE gdiSourceSize > 0
    <3> DEFINE box == Scaled(gdiClipRegion, gdiSourceSize, w)
    <3>0. gdiSourceSize \in Nat \ {0}
      BY <2>1, MirrorAssumption
    <3>1. /\ frameClipRegion' = box
          /\ frameClipRegionInvalid' = ~Usable(box, w)
          /\ clipped' = Usable(box, w)
          /\ clipPaused' = TRUE
          /\ gdiClipRegion' = gdiClipRegion
          /\ gdiSourceSize' = gdiSourceSize
      BY <1>3, <2>1 DEF UpdateRegion, updateClip
    <3>2. box \in Regions
      BY <3>0, ScaledRegion
    <3>3. Usable(box, w) \in BOOLEAN
      BY DEF Usable
    <3>4. gdiClipRegion = Empty => ~Usable(box, w)
      BY <3>0, ScaledEmpty
    <3> HIDE DEF box
    <3>5. /\ clipped' \in BOOLEAN
          /\ frameClipRegionInvalid' \in BOOLEAN
      BY <3>1, <3>3
    <3>6. CopyOrNone'
      BY <3>1, <3>4
    <3>7. clipped' => ~frameClipRegionInvalid' /\ Usable(frameClipRegion', w)
      BY <3>1
    <3> QED
      BY <1>3, <3>1, <3>2, <3>5, <3>6, <3>7
  <2>2. CASE ~(gdiSourceSize > 0)
    <3>1. /\ clipped' = FALSE
          /\ UNCHANGED <<clipPaused, frameClipRegionInvalid, frameClipRegion,
                         gdiClipRegion, gdiSourceSize>>
      BY <1>3, <2>2 DEF UpdateRegion, updateClip
    <3> QED
      BY <1>3, <3>1
  <2> QED
    BY <2>1, <2>2
<1> QED
  BY <1>1, <1>2, <1>3 DEF UpdateRegion

\* A new capture: its widths, and that it fits until a region is drawn
LEMMA NewCapture ==
  ASSUME TypeOK, Created \/ NotCreated
  PROVE  /\ capturing' \in BOOLEAN
         /\ pool' \in FrameWidths \union {0}
         /\ size' \in FrameWidths \union {0}
         /\ swapChain' \in Nat
         /\ \/ pool' = size' /\ swapChain' = size'
            \/ NotCreated
<1>1. captured \in FrameWidths /\ captured \in Nat
  BY Frames DEF TypeOK
<1>2. CASE Created
  BY <1>1, <1>2 DEF Created
<1>3. CASE NotCreated
  <2>1. CASE resetChain
    BY <1>3, <2>1 DEF resetChain
  <2>2. CASE /\ capturing' = TRUE
             /\ pool' = captured
             /\ swapChain' \in {0, captured}
             /\ size' = captured
    <3>1. swapChain' \in Nat
      BY <1>1, <2>2
    <3> QED
      BY <1>1, <1>3, <2>2, <3>1
  <2> QED
    BY <1>3, <2>1, <2>2 DEF NotCreated
<1> QED
  BY <1>2, <1>3

\* Without a capture there is nothing to fit, after a failure nothing is promised
LEMMA NothingPromised ==
  ASSUME NotCreated, "failed" \in mishaps'
  PROVE  ChainFits'
BY DEF NotCreated, resetChain, ChainFits

-----------------------------------------------------------------------------
(* Every step keeps it *)

LEMMA InitKeeps == Init => MirrorInv
<1> SUFFICES ASSUME Init PROVE MirrorInv
  OBVIOUS
<1>1. TypeOK
  BY MirrorAssumption DEF Init, TypeOK, FrameWidths, Regions, Empty, Mishaps
<1> QED
  BY <1>1 DEF Init, MirrorInv, ChainFits, FrameLookedAt, DrawnInside, CopyOrNone, Drawn

\* createMirrorNoLock leaves a mirror without a region
LEMMA CreateKeeps ==
  ASSUME MirrorInv, createMirrorNoLock, clipPaused' \in BOOLEAN, Free, UNCHANGED course,
         open' \in BOOLEAN, source' \in Widths, captured' \in FrameWidths,
         clip' \in Regions \union {NoClip}, adjusted' \in BOOLEAN, seen' \in Widths
  PROVE  MirrorInv'
<1>1. TypeOK
  BY DEF MirrorInv
<1>2. clearClipNoLock /\ (Created \/ NotCreated) /\ gdiSourceSize' = gdiSourceSize
  BY DEF createMirrorNoLock
<1>3. TypeOK'
  <2>1. mishaps' \subseteq Mishaps
    BY <1>1 DEF createMirrorNoLock, Mishap, TypeOK, Mishaps
  <2> QED
    BY <1>1, <1>2, <2>1, NewCapture DEF TypeOK, clearClipNoLock, Regions, Empty, course
<1>4. ~Drawn' /\ gdiClipRegion' = Empty
  BY <1>2 DEF clearClipNoLock, Drawn
<1>5. ChainFits'
  <2>1. CASE Created
    BY <1>4, <2>1 DEF Created, ChainFits, Free, course
  <2>2. CASE NotCreated /\ Mishap({"failed"})
    BY <2>2, NothingPromised DEF Mishap
  <2> QED
    BY <2>1, <2>2 DEF createMirrorNoLock
<1> QED
  BY <1>3, <1>4, <1>5 DEF MirrorInv, FrameLookedAt, DrawnInside, CopyOrNone, Free, course

\* setClipNoLock leaves a mirror whose region waits for a frame, or has none
LEMMA SetClipKeeps ==
  ASSUME MirrorInv, NEW c \in Regions, NEW w \in Widths,
         NEW before \in Widths \union {0}, NEW others \in SUBSET Mishaps,
         setClipNoLock(c, w, before, others), clipPaused' \in BOOLEAN, Free, UNCHANGED course,
         ~adjusted' => c \in {clip', Empty},
         open' \in BOOLEAN, source' \in Widths, captured' \in FrameWidths,
         clip' \in Regions \union {NoClip}, adjusted' \in BOOLEAN, seen' \in Widths
  PROVE  MirrorInv'
<1>1. TypeOK
  BY DEF MirrorInv
<1>2. /\ Created \/ NotCreated
      /\ clipped' \in BOOLEAN
      /\ frameClipRegionInvalid' = TRUE
      /\ frameClipRegion' = Empty
      /\ gdiClipRegion' \in {c, Empty}
      /\ gdiSourceSize' \in {w, before}
      /\ mishaps' \subseteq Mishaps
  BY <1>1 DEF setClipNoLock, clearClipNoLock, Mishap, TypeOK, Mishaps
<1>3. TypeOK'
  BY <1>1, <1>2, NewCapture DEF TypeOK, Regions, Empty, course
<1>4. ~Drawn' /\ (~adjusted' => gdiClipRegion' \in {clip', Empty})
  BY <1>2 DEF Drawn
<1>5. ChainFits'
  <2>1. CASE Created
    BY <1>4, <2>1 DEF Created, ChainFits, Free, course
  <2>2. CASE NotCreated /\ Mishap({"failed"} \union others)
    BY <2>2, NothingPromised DEF Mishap
  <2> QED
    BY <2>1, <2>2 DEF setClipNoLock
<1> QED
  BY <1>3, <1>4, <1>5 DEF MirrorInv, FrameLookedAt, DrawnInside, CopyOrNone, Free, course

\* A frame of the width the mirror knows leaves what it made of the last one, unless
\* the region waits for it; then it takes a part of what was drawn whole
LEMMA SameSizeKeeps ==
  ASSUME MirrorInv, FrameOfSameSize
  PROVE  MirrorInv'
<1> USE DEF MirrorInv
<1>1. /\ capturing /\ capturing'
      /\ UNCHANGED <<window, view, pool, swapChain, size, mishaps, crashed>>
      /\ UpdateRegion(size, FALSE)
      /\ frame = "none" /\ frame' = "same"
  BY DEF FrameOfSameSize, FrameArrives, Free
<1>2. size \in Nat
  BY Frames
<1>3. /\ clipped' \in BOOLEAN
      /\ clipPaused' \in BOOLEAN
      /\ frameClipRegionInvalid' \in BOOLEAN
      /\ frameClipRegion' \in Regions
      /\ gdiClipRegion' = gdiClipRegion
      /\ gdiSourceSize' = gdiSourceSize
      /\ CopyOrNone'
      /\ clipped' => ~frameClipRegionInvalid' /\ Usable(frameClipRegion', size)
      /\ Drawn /\ Usable(frameClipRegion, size) => UNCHANGED region
  <2>1. UNCHANGED <<clip, adjusted>>
    BY <1>1 DEF view
  <2> HIDE DEF MirrorInv
  <2>2. TypeOK /\ CopyOrNone
    BY DEF MirrorInv
  <2> QED
    BY <1>1, <1>2, <2>1, <2>2, RegionUpdated
<1>4. TypeOK'
  BY <1>1, <1>3 DEF TypeOK, window, view
<1>5. DrawnInside' /\ FrameLookedAt'
  BY <1>1, <1>3 DEF DrawnInside, Drawn, FrameLookedAt
<1>6. ChainFits'
  <2> SUFFICES ASSUME "failed" \notin mishaps'
               PROVE  ChainFits'
    BY DEF ChainFits
  <2>1. "failed" \notin mishaps
    BY <1>1
  <2>2. pool = size
    BY <1>1, <2>1 DEF ChainFits
  <2>3. CASE Drawn
    <3>1. UNCHANGED region
      BY <1>3, <2>3 DEF DrawnInside
    <3>2. /\ Drawn'
          /\ frameClipRegion'[2] - frameClipRegion'[1] <= swapChain'
      BY <1>1, <2>1, <2>3, <3>1 DEF ChainFits, Drawn, region
    <3> QED
      BY <1>1, <2>2, <3>2 DEF ChainFits
  <2>4. CASE ~Drawn
    <3>1. swapChain = size
      BY <1>1, <2>1, <2>4 DEF ChainFits
    <3>2. CASE Drawn'
      <4>1. Usable(frameClipRegion', size)
        BY <1>5, <1>1, <3>2 DEF DrawnInside
      <4>2. frameClipRegion'[1] \in Nat /\ frameClipRegion'[2] \in Nat
        BY <1>3 DEF Regions
      <4>3. frameClipRegion'[2] - frameClipRegion'[1] <= size
        BY <4>1, <4>2, <1>2 DEF Usable
      <4> QED
        BY <1>1, <2>2, <3>1, <3>2, <4>3 DEF ChainFits
    <3>3. CASE ~Drawn'
      BY <1>1, <2>2, <3>1, <3>3 DEF ChainFits
    <3> QED
      BY <3>2, <3>3
  <2> QED
    BY <2>3, <2>4
<1> QED
  BY <1>3, <1>4, <1>5, <1>6

\* A frame of another width brings the region and the swap chain to it, and leaves the
\* pool to its second step
LEMMA NewSizeKeeps ==
  ASSUME MirrorInv, FrameOfNewSize
  PROVE  MirrorInv'
<1> USE DEF MirrorInv
<1>1. /\ UNCHANGED <<window, view, capturing, pool, crashed>>
      /\ capturing /\ frame = "none" /\ captured # size
      /\ size' = captured
      /\ UpdateRegion(captured, TRUE)
      /\ frame' \in {"none", "resized"}
      /\ mishaps' \subseteq Mishaps
  BY DEF FrameOfNewSize, FrameArrives, Free, Mishap, TypeOK, Mishaps
<1>2. captured \in Nat \ {0} /\ captured \in FrameWidths
  BY Frames DEF TypeOK
<1>3. /\ clipped' \in BOOLEAN
      /\ clipPaused' \in BOOLEAN
      /\ frameClipRegionInvalid' \in BOOLEAN
      /\ frameClipRegion' \in Regions
      /\ gdiClipRegion' = gdiClipRegion
      /\ gdiSourceSize' = gdiSourceSize
      /\ CopyOrNone'
      /\ clipped' => ~frameClipRegionInvalid' /\ Usable(frameClipRegion', captured)
  <2>1. UNCHANGED <<clip, adjusted>>
    BY <1>1 DEF view
  <2>2. captured \in Nat
    BY <1>2
  <2> HIDE DEF MirrorInv
  <2>3. TypeOK /\ CopyOrNone
    BY DEF MirrorInv
  <2> QED
    BY <1>1, <2>1, <2>2, <2>3, RegionUpdated
<1>4. /\ frameClipRegion'[1] \in Nat
      /\ frameClipRegion'[2] \in Nat
  BY <1>3 DEF Regions
<1>5. swapChain' \in Nat
  <2>1. CASE ResizeBuffers
    <3>1. CASE clipped'
      <4>1. swapChain' = frameClipRegion'[2] - frameClipRegion'[1]
        BY <2>1, <3>1 DEF ResizeBuffers
      <4>2. frameClipRegion'[1] < frameClipRegion'[2]
        BY <1>3, <3>1 DEF Usable
      <4> QED
        BY <1>4, <4>1, <4>2
    <3>2. CASE ~clipped'
      BY <1>1, <1>2, <2>1, <3>2 DEF ResizeBuffers
    <3> QED
      BY <3>1, <3>2
  <2>2. CASE UNCHANGED swapChain
    BY <2>2 DEF TypeOK
  <2> QED
    BY <2>1, <2>2 DEF FrameOfNewSize
<1>6. TypeOK'
  BY <1>1, <1>2, <1>3, <1>5 DEF TypeOK, window, view
<1>7. DrawnInside' /\ FrameLookedAt'
  BY <1>1, <1>3 DEF DrawnInside, Drawn, FrameLookedAt
<1>8. ChainFits'
  <2> SUFFICES ASSUME "failed" \notin mishaps'
               PROVE  ChainFits'
    BY DEF ChainFits
  <2>1. ResizeBuffers /\ frame' = "resized" /\ "failed" \notin mishaps
    BY DEF FrameOfNewSize, Mishap
  <2>2. pool' # size'
    BY <1>1, <2>1 DEF ChainFits
  <2>3. CASE clipped'
    <3>1. Drawn' /\ swapChain' = frameClipRegion'[2] - frameClipRegion'[1]
      BY <1>3, <2>1, <2>3 DEF Drawn, ResizeBuffers
    <3>2. frameClipRegion'[2] - frameClipRegion'[1] <= swapChain'
      BY <1>4, <3>1
    <3> QED
      BY <2>1, <2>2, <3>1, <3>2 DEF ChainFits
  <2>4. CASE ~clipped'
    <3>1. ~Drawn' /\ swapChain' = size'
      BY <2>1, <2>4 DEF Drawn, ResizeBuffers
    <3> QED
      BY <2>1, <2>2, <3>1 DEF ChainFits
  <2> QED
    BY <2>3, <2>4
<1> QED
  BY <1>3, <1>6, <1>7, <1>8

\* The second step brings the pool to the size, unless it fails
LEMMA RenderKeeps ==
  ASSUME MirrorInv, RenderFrame
  PROVE  MirrorInv'
<1> USE DEF MirrorInv
<1>1. /\ UNCHANGED <<window, view, capturing, swapChain, size, region, crashed>>
      /\ frame \in {"same", "resized"} /\ frame' = "none"
      /\ pool' \in {pool, size}
      /\ mishaps' \subseteq Mishaps
  BY DEF RenderFrame, Mishap, TypeOK, Mishaps
<1>2. TypeOK'
  BY <1>1 DEF TypeOK, window, view, region
<1>3. DrawnInside' /\ CopyOrNone' /\ FrameLookedAt'
  BY <1>1 DEF DrawnInside, CopyOrNone, Drawn, FrameLookedAt, view, region
<1>4. ChainFits'
  <2> SUFFICES ASSUME capturing', "failed" \notin mishaps'
               PROVE  ChainFits'
    BY DEF ChainFits
  <2>1. /\ "failed" \notin mishaps
        /\ pool' = IF frame = "resized" THEN size ELSE pool
    BY DEF RenderFrame, Mishap
  <2>2. pool' = size'
    BY <1>1, <2>1 DEF ChainFits
  <2>3. IF Drawn THEN frameClipRegion[2] - frameClipRegion[1] <= swapChain
                 ELSE swapChain = size
    BY <1>1, <2>1 DEF ChainFits
  <2> QED
    BY <1>1, <2>2, <2>3 DEF ChainFits, Drawn, region
<1> QED
  BY <1>2, <1>3, <1>4

\* A step of the window disturbs at most the types of its own variables
LEMMA OutsideKeeps ==
  ASSUME MirrorInv, UNCHANGED <<view, chain, region, course>>,
         open' \in BOOLEAN, source' \in Widths, captured' \in FrameWidths,
         mishaps \subseteq mishaps', mishaps' \subseteq Mishaps
  PROVE  MirrorInv'
<1> USE DEF view, chain, region, course, Drawn
<1>1. TypeOK /\ ChainFits /\ FrameLookedAt /\ DrawnInside /\ CopyOrNone
  BY DEF MirrorInv
<1>2. ChainFits'
  BY <1>1 DEF ChainFits
<1>3. FrameLookedAt' /\ DrawnInside'
  BY <1>1 DEF FrameLookedAt, DrawnInside
<1>4. CopyOrNone'
  BY <1>1 DEF CopyOrNone
<1>5. TypeOK'
  <2>1. /\ clip' \in Regions \union {NoClip}
        /\ adjusted' \in BOOLEAN
        /\ seen' \in Widths
        /\ capturing' \in BOOLEAN
        /\ pool' \in FrameWidths \union {0}
        /\ swapChain' \in Nat
        /\ size' \in FrameWidths \union {0}
    BY <1>1 DEF TypeOK
  <2>2. /\ clipped' \in BOOLEAN
        /\ clipPaused' \in BOOLEAN
        /\ frameClipRegionInvalid' \in BOOLEAN
        /\ frameClipRegion' \in Regions
        /\ gdiClipRegion' \in Regions
        /\ gdiSourceSize' \in Widths \union {0}
        /\ frame' \in {"none", "same", "resized"}
        /\ crashed' \in BOOLEAN
    BY <1>1 DEF TypeOK
  <2> QED
    BY <2>1, <2>2 DEF TypeOK
<1> QED
  BY <1>2, <1>3, <1>4, <1>5 DEF MirrorInv

LEMMA NextKeeps == MirrorInv /\ [Next]_vars => MirrorInv'
<1> SUFFICES ASSUME MirrorInv, [Next]_vars
             PROVE  MirrorInv'
  OBVIOUS
<1>0. TypeOK /\ ChainFits /\ FrameLookedAt /\ DrawnInside /\ CopyOrNone
  BY DEF MirrorInv
<1>1. ASSUME NEW w \in Widths, ResizeSource(w)
      PROVE  MirrorInv'
  <2>1. mishaps \subseteq mishaps' /\ mishaps' \subseteq Mishaps
    BY <1>0, <1>1 DEF ResizeSource, TypeOK, Mishaps
  <2>2. UNCHANGED <<open, captured, view, chain, region, course>> /\ source' = w
    BY <1>1 DEF ResizeSource
  <2>3. open' \in BOOLEAN /\ source' \in Widths /\ captured' \in FrameWidths
    BY <1>0, <2>2 DEF TypeOK
  <2> QED
    BY <2>1, <2>2, <2>3, OutsideKeeps
<1>2. CASE CloseSource
  <2>1. open' = FALSE /\ UNCHANGED <<source, captured, view, chain, region, mishaps, course>>
    BY <1>2 DEF CloseSource
  <2>2. /\ open' \in BOOLEAN /\ source' \in Widths /\ captured' \in FrameWidths
        /\ mishaps' \subseteq Mishaps
    BY <1>0, <2>1 DEF TypeOK
  <2> QED
    BY <2>1, <2>2, OutsideKeeps
<1>3. CASE Capture
  <2>1. captured' \in FrameWidths
    BY <1>0, <1>3 DEF Capture, TypeOK, FrameWidths
  <2>2. UNCHANGED <<open, source, view, chain, region, mishaps, course>>
    BY <1>3 DEF Capture
  <2>3. open' \in BOOLEAN /\ source' \in Widths /\ mishaps' \subseteq Mishaps
    BY <1>0, <2>2 DEF TypeOK
  <2> QED
    BY <2>1, <2>2, <2>3, OutsideKeeps
<1>4. ASSUME NEW c \in Regions, TellClip(c)
      PROVE  MirrorInv'
  <2>1. /\ UNCHANGED <<window, seen, clipPaused, course>>
        /\ clip' = c
        /\ adjusted' = FALSE
        /\ Free
    BY <1>4 DEF TellClip
  <2>2. PICK others \in SUBSET Mishaps : setClipNoLock(c, source, gdiSourceSize, others)
    BY <1>4 DEF TellClip, Mishaps
  <2>3. source \in Widths /\ gdiSourceSize \in Widths \union {0}
    BY <1>0 DEF TypeOK
  <2>4. /\ open' \in BOOLEAN /\ source' \in Widths /\ captured' \in FrameWidths
        /\ clip' \in Regions \union {NoClip} /\ adjusted' \in BOOLEAN
        /\ seen' \in Widths /\ clipPaused' \in BOOLEAN
    BY <1>0, <2>1 DEF TypeOK, window
  <2> QED
    BY <2>1, <2>2, <2>3, <2>4, SetClipKeeps
<1>12. CASE SetClip
  BY <1>4, <1>12, MirrorAssumption DEF SetClip, Regions
<1>13. CASE SizeFinished
  BY <1>0, <1>4, <1>13 DEF SizeFinished, TypeOK
<1>14. CASE AdjustClip
  <2>1. clip \in Regions /\ clip # NoClip
    BY <1>0, <1>14 DEF AdjustClip, TypeOK
  <2>2. PICK x \in Edges : clip' \in Moved(clip, IF x > source THEN source ELSE x)
    BY <1>14 DEF AdjustClip
  <2> DEFINE edge == IF x > source THEN source ELSE x
  <2>3. edge \in Nat
    BY Frames, <1>0, MirrorAssumption
  <2>4. clip[1] \in Nat /\ clip[2] \in Nat
    BY <2>1 DEF Regions
  <2> HIDE DEF edge
  <2>5. clip' \in {<<edge, clip[2]>>, <<clip[1], edge>>}
    BY <2>2 DEF Moved, edge
  <2>6. clip' \in Regions
    BY <2>3, <2>4, <2>5 DEF Regions
  <2>7. /\ UNCHANGED <<window, seen, chain, region, mishaps, course>>
        /\ adjusted' = (adjusted \/ clip' # clip)
    BY <1>14 DEF AdjustClip
  <2>8. adjusted' \in BOOLEAN
    BY <1>0, <2>7 DEF TypeOK
  <2>9. TypeOK'
    BY <1>0, <2>6, <2>7, <2>8 DEF TypeOK, window, chain, region, course
  <2>10. CopyOrNone'
    BY <1>0, <2>7 DEF CopyOrNone, Drawn, region
  <2>11. ChainFits' /\ FrameLookedAt' /\ DrawnInside'
    BY <1>0, <2>7 DEF ChainFits, FrameLookedAt, DrawnInside, Drawn, chain, region, course
  <2> QED
    BY <2>9, <2>10, <2>11 DEF MirrorInv
<1>5. CASE ClearClip
  <2>1. /\ open' \in BOOLEAN /\ source' \in Widths /\ captured' \in FrameWidths
        /\ clip' \in Regions \union {NoClip} /\ adjusted' \in BOOLEAN
        /\ seen' \in Widths /\ clipPaused' \in BOOLEAN
    BY <1>0, <1>5 DEF ClearClip, TypeOK, window
  <2>2. createMirrorNoLock /\ Free /\ UNCHANGED course
    BY <1>5 DEF ClearClip, createMirrorNoLock
  <2> QED
    BY <2>1, <2>2, CreateKeeps
<1>6. CASE ValidateProperties
  <2>1. /\ Free
        /\ UNCHANGED <<window, clip, adjusted, course>>
        /\ seen' = source
        /\ handleSourceSizeChange(source)
    BY <1>6 DEF ValidateProperties
  <2>2. /\ open' \in BOOLEAN /\ source' \in Widths /\ captured' \in FrameWidths
        /\ clip' \in Regions \union {NoClip} /\ adjusted' \in BOOLEAN
        /\ seen' \in Widths
        /\ source \in Widths
    BY <1>0, <2>1 DEF TypeOK, window
  <2>3. CASE clipped \/ clipPaused
    <3> DEFINE before == IF clipped THEN source ELSE gdiSourceSize
    <3>1. /\ setClipNoLock(gdiClipRegion, source, before, {})
          /\ clipPaused' \in BOOLEAN
          /\ before \in Widths \union {0}
      BY <1>0, <2>1, <2>3 DEF handleSourceSizeChange, TypeOK
    <3>2. gdiClipRegion \in Regions /\ (~adjusted' => gdiClipRegion \in {clip', Empty})
      BY <1>0, <2>1 DEF TypeOK, CopyOrNone
    <3>3. {} \in SUBSET Mishaps
      OBVIOUS
    <3> QED
      BY <2>1, <2>2, <3>1, <3>2, <3>3, SetClipKeeps
  <2>4. CASE ~(clipped \/ clipPaused)
    <3>1. createMirrorNoLock /\ clipPaused' \in BOOLEAN
      BY <1>0, <2>1, <2>4 DEF handleSourceSizeChange, TypeOK
    <3> QED
      BY <2>1, <2>2, <3>1, CreateKeeps
  <2> QED
    BY <2>3, <2>4
<1>7. CASE FrameMeetsNull
  BY <1>0, <1>7
  DEF FrameMeetsNull, FrameArrives, MirrorInv, TypeOK, ChainFits, FrameLookedAt,
      DrawnInside, CopyOrNone, Drawn, window, view, region
<1>8. CASE FrameOfSameSize
  BY <1>8, SameSizeKeeps
<1>9. CASE FrameOfNewSize
  BY <1>9, NewSizeKeeps
<1>15. CASE RenderFrame
  BY <1>15, RenderKeeps
<1>10. CASE SourceClosed
  BY <1>0, <1>10
  DEF SourceClosed, Free, resetChain, clearClipNoLock, MirrorInv, TypeOK, ChainFits,
      FrameLookedAt, DrawnInside, CopyOrNone, Drawn, window, view, course, Regions, Empty
<1>11. CASE UNCHANGED vars
  BY <1>0, <1>11
  DEF vars, window, view, chain, region, course, MirrorInv, TypeOK, ChainFits,
      FrameLookedAt, DrawnInside, CopyOrNone, Drawn
<1> QED
  BY <1>1, <1>2, <1>3, <1>4, <1>5, <1>6, <1>7, <1>8, <1>9, <1>10, <1>11,
     <1>12, <1>13, <1>14, <1>15 DEF Next

LEMMA AlwaysMirrorInv == Spec => []MirrorInv
BY InitKeeps, NextKeeps, PTL DEF Spec

-----------------------------------------------------------------------------
(* The theorems *)

\* Widths, regions and flags of the Mirror have their types, so no scaled region and
\* no size of a swap chain is negative.
THEOREM MirrorTypeCorrect == Spec => []TypeOK
<1>1. MirrorInv => TypeOK
  BY DEF MirrorInv
<1> QED
  BY <1>1, AlwaysMirrorInv, PTL

\* Unless a call failed, a frame whose size the mirror knew can be copied, and the first
\* of another size just when a region is drawn that lies in the surface of the old size:
\* for every size of window, frame and region.
THEOREM CopyAlwaysFits == Spec => []CopyFits
<1>1. ASSUME MirrorInv PROVE CopyFits
  <2> SUFFICES ASSUME frame # "none", "failed" \notin mishaps
               PROVE  CopyIsLegal <=> frame = "same" \/ (clipped /\ frameClipRegion[2] <= pool)
    BY DEF CopyFits
  <2>1. /\ capturing
        /\ frame \in {"same", "resized"}
        /\ clipped <=> Drawn
        /\ pool = size <=> frame # "resized"
    BY <1>1 DEF MirrorInv, TypeOK, FrameLookedAt, ChainFits, Drawn
  <2>2. frameClipRegion[1] \in Nat /\ frameClipRegion[2] \in Nat /\ size \in Nat
    BY <1>1, Frames DEF MirrorInv, TypeOK, Regions
  <2>3. CASE clipped
    <3>1. /\ frameClipRegion[1] < frameClipRegion[2]
          /\ frameClipRegion[2] < size
      BY <1>1, <2>1, <2>3 DEF MirrorInv, DrawnInside, Usable
    <3>2. frameClipRegion[2] - frameClipRegion[1] <= swapChain
      BY <1>1, <2>1, <2>3 DEF MirrorInv, ChainFits
    <3>3. CopyIsLegal <=> frameClipRegion[2] <= pool
      BY <2>3, <3>1, <3>2 DEF CopyIsLegal
    <3>4. frame = "same" => frameClipRegion[2] <= pool
      BY <2>1, <2>2, <3>1
    <3> QED
      BY <2>3, <3>3, <3>4
  <2>4. CASE ~clipped
    <3>1. swapChain = size
      BY <1>1, <2>1, <2>4 DEF MirrorInv, ChainFits
    <3> QED
      BY <2>1, <2>4, <3>1 DEF CopyIsLegal
  <2> QED
    BY <2>3, <2>4
<1> QED
  BY <1>1, AlwaysMirrorInv, PTL

\* The mirror never draws another region than the one told last, though after a failed
\* setClip it resumes with the empty region that was left.
THEOREM NeverDrawsAnother == Spec => []NeverAnotherRegion
<1>1. MirrorInv => NeverAnotherRegion
  BY DEF MirrorInv, CopyOrNone, NeverAnotherRegion
<1> QED
  BY <1>1, AlwaysMirrorInv, PTL

-----------------------------------------------------------------------------
(* The null pointer *)

\* A capture that runs has told the mirror the width of its frames.
SizeKnown == capturing => size # 0

LEMMA CaptureKnowsSize ==
  ASSUME TypeOK, createMirrorNoLock \/ \E c, w, before, others :
                                          setClipNoLock(c, w, before, others)
  PROVE  SizeKnown'
<1>1. captured # 0
  BY Frames
<1>2. Created \/ NotCreated
  BY DEF createMirrorNoLock, setClipNoLock
<1> QED
  BY <1>1, <1>2 DEF Created, NotCreated, resetChain, SizeKnown

LEMMA SizeStep == TypeOK /\ SizeKnown /\ [Next]_vars => SizeKnown'
<1> SUFFICES ASSUME TypeOK, SizeKnown, [Next]_vars PROVE SizeKnown'
  OBVIOUS
<1>1. CASE (\E w \in Widths : ResizeSource(w)) \/ CloseSource \/ Capture \/ AdjustClip
           \/ UNCHANGED vars
  BY <1>1 DEF ResizeSource, CloseSource, Capture, AdjustClip, vars, chain, SizeKnown
<1>2. CASE SetClip \/ SizeFinished
  BY <1>2, CaptureKnowsSize DEF SetClip, SizeFinished, TellClip
<1>3. CASE ClearClip
  BY <1>3, CaptureKnowsSize DEF ClearClip, createMirrorNoLock
<1>4. CASE ValidateProperties
  BY <1>4, CaptureKnowsSize DEF ValidateProperties, handleSourceSizeChange
<1>5. CASE FrameMeetsNull \/ FrameOfSameSize \/ RenderFrame
  BY <1>5 DEF FrameMeetsNull, FrameOfSameSize, FrameArrives, RenderFrame, SizeKnown
<1>6. CASE FrameOfNewSize
  BY <1>6, Frames DEF FrameOfNewSize, FrameArrives, SizeKnown
<1>7. CASE SourceClosed
  BY <1>7 DEF SourceClosed, resetChain, SizeKnown
<1> QED
  BY <1>1, <1>2, <1>3, <1>4, <1>5, <1>6, <1>7 DEF Next

\* A frame finds the null pointer of a swap chain only after a call of the graphics
\* system failed, for all sizes and regions, in whatever order windows are resized,
\* minimized and closed and regions set, paused and cleared.
THEOREM AlwaysNullOnlyAfterFailure == Spec => []NullOnlyAfterFailure
<1>1. Init => SizeKnown /\ NullOnlyAfterFailure
  BY MirrorAssumption DEF Init, SizeKnown, NullOnlyAfterFailure
<1>2. ASSUME MirrorInv, SizeKnown, NullOnlyAfterFailure, [Next]_vars
      PROVE  NullOnlyAfterFailure'
  <2>1. ASSUME capturing, "failed" \notin mishaps PROVE swapChain # 0
    <3>1. /\ size \in Nat \ {0} /\ swapChain \in Nat
          /\ frameClipRegion \in Nat \X Nat
      BY <1>2, <2>1, Frames DEF MirrorInv, TypeOK, SizeKnown, Regions
    <3>2. CASE Drawn
      <4>1. frameClipRegion[1] < frameClipRegion[2]
        BY <1>2, <3>2 DEF MirrorInv, DrawnInside, Usable
      <4>2. frameClipRegion[2] - frameClipRegion[1] <= swapChain
        BY <1>2, <2>1, <3>2 DEF MirrorInv, ChainFits
      <4> QED
        BY <3>1, <4>1, <4>2
    <3>3. CASE ~Drawn
      BY <1>2, <2>1, <3>1, <3>3 DEF MirrorInv, ChainFits
    <3> QED
      BY <3>2, <3>3
  <2>2. CASE FrameMeetsNull
    BY <2>1, <2>2 DEF FrameMeetsNull, FrameArrives, NullOnlyAfterFailure
  <2>3. CASE UNCHANGED vars
    BY <1>2, <2>3 DEF vars, course, NullOnlyAfterFailure
  <2>4. CASE RenderFrame
    BY <1>2, <2>4 DEF RenderFrame, Mishap, NullOnlyAfterFailure
  <2>5. CASE Next /\ ~FrameMeetsNull /\ ~RenderFrame
    <3>1. ~crashed /\ crashed' = crashed
      BY <2>5 DEF Next, ResizeSource, CloseSource, Capture, SetClip, SizeFinished, TellClip,
         AdjustClip, ClearClip, ValidateProperties, FrameOfSameSize, FrameOfNewSize,
         FrameArrives, SourceClosed, Free, course
    <3> QED
      BY <3>1 DEF NullOnlyAfterFailure
  <2> QED
    BY <1>2, <2>2, <2>3, <2>4, <2>5
<1>3. MirrorInv => TypeOK
  BY DEF MirrorInv
<1> QED
  BY <1>1, <1>2, <1>3, SizeStep, AlwaysMirrorInv, PTL DEF Spec
=============================================================================
