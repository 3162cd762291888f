--------------------------- MODULE GeometryProofs ---------------------------
(***************************************************************************)
(* Proofs about the size of a view, for all sizes of windows, regions and  *)
(* numbers a user may type, and any minimum.                               *)
(*                                                                         *)
(* That a step leaves what FixRatio remembers right has two reasons that   *)
(* meet: what FixRatio computes is right (the lemmas about rounded         *)
(* quotients), and an operation that sets the size without it forgets what *)
(* was remembered, or sets a size that has the proportion, or is one of    *)
(* those the property names.                                               *)
(***************************************************************************)
EXTENDS Geometry, TLAPS

Four == Nat \X Nat \X Nat \X Nat

-----------------------------------------------------------------------------
(* Rounded quotients *)

\* Division with a rest
LEMMA Division ==
  ASSUME NEW n \in Nat, NEW d \in Nat \ {0}
  PROVE  /\ n \div d \in Nat
         /\ (n \div d) * d <= n
         /\ n < (n \div d) * d + d
OBVIOUS

\* The product with a larger factor is not smaller
LEMMA ProductGrows ==
  ASSUME NEW a \in Nat, NEW b \in Nat, NEW d \in Nat, a <= b
  PROVE  a * d <= b * d
OBVIOUS

\* A rounded quotient is a number, whatever the signs
LEMMA RoundedInt ==
  ASSUME NEW n \in Int, NEW d \in Int
  PROVE  RoundedQuotient(n, d) \in Int
<1>1. CASE n = 0 \/ d = 0
  BY <1>1 DEF RoundedQuotient
<1>2. CASE n # 0 /\ d # 0
  <2>1. Abs(n) + (Abs(d) \div 2) \in Nat /\ Abs(d) \in Nat \ {0}
    BY <1>2 DEF Abs
  <2>2. (Abs(n) + (Abs(d) \div 2)) \div Abs(d) \in Nat
    BY <2>1, Division
  <2> QED
    BY <1>2, <2>2 DEF RoundedQuotient
<1> QED
  BY <1>1, <1>2

\* Of numbers that are not negative it is off by at most half the divisor, and it is
\* not above a whole number that the quotient is not above
LEMMA RoundedClose ==
  ASSUME NEW n \in Nat, NEW d \in Nat \ {0}
  PROVE  LET q == RoundedQuotient(n, d)
         IN  /\ q \in Nat
             /\ 2 * (q * d - n) <= d
             /\ 2 * (n - q * d) <= d
             /\ \A m \in Nat : n <= m * d => q <= m
<1> DEFINE q == RoundedQuotient(n, d)
<1>1. CASE n = 0
  <2>1. q = 0
    BY <1>1 DEF RoundedQuotient
  <2> QED
    BY <1>1, <2>1
<1>2. CASE n # 0
  <2> DEFINE half == d \div 2
  <2>1. half \in Nat /\ 2 * half <= d /\ d <= 2 * half + 1 /\ half < d
    OBVIOUS
  <2>2. q = (n + half) \div d
    BY <1>2 DEF RoundedQuotient, Abs
  <2> HIDE DEF half, q
  <2>3. q \in Nat /\ q * d <= n + half /\ n + half < q * d + d
    BY <2>1, <2>2, Division
  <2>4. q * d \in Nat
    BY <2>3
  <2>5. 2 * (q * d - n) <= d /\ 2 * (n - q * d) <= d
    BY <2>1, <2>3, <2>4
  <2>6. ASSUME NEW m \in Nat, n <= m * d
        PROVE  q <= m
    <3> SUFFICES ASSUME m + 1 <= q PROVE FALSE
      BY <2>3
    <3>1. (m + 1) * d <= q * d
      BY <2>3, ProductGrows
    <3>2. (m + 1) * d = m * d + d /\ m * d \in Nat
      OBVIOUS
    <3> QED
      BY <2>1, <2>3, <2>4, <2>6, <3>1, <3>2
  <2> QED
    BY <2>3, <2>5, <2>6 DEF q
<1> QED
  BY <1>1, <1>2

\* Half of a number, as the picture is put in the middle with it
LEMMA RoundedHalf ==
  ASSUME NEW n \in Nat
  PROVE  /\ RoundedQuotient(n, 2) \in Nat
         /\ RoundedQuotient(n, 2) <= n
         /\ 2 * RoundedQuotient(n, 2) - n \in {0, 1}
<1>1. CASE n = 0
  BY <1>1 DEF RoundedQuotient
<1>2. CASE n # 0
  <2>1. RoundedQuotient(n, 2) = (n + 1) \div 2
    BY <1>2 DEF RoundedQuotient, Abs
  <2> QED
    BY <1>2, <2>1
<1> QED
  BY <1>1, <1>2

-----------------------------------------------------------------------------
(* What is right for a proportion *)

Positive(s) == s[1] > 0 /\ s[2] > 0

NotNegative(g) == g[1] >= 0 /\ g[2] >= 0

\* The region c lies in a view of the size g, in its middle
Placed(c, g) ==
  /\ 0 <= c[1] /\ c[1] <= c[3] /\ c[3] <= g[1]
  /\ 0 <= c[2] /\ c[2] <= c[4] /\ c[4] <= g[2]
  /\ c[1] - (g[1] - c[3]) \in {0, 1}
  /\ c[2] - (g[2] - c[4]) \in {0, 1}

\* The internal clip c is right for a view of the size g and the proportion of s
RightFor(g, c, s) ==
  Positive(s) /\ NotNegative(g) =>
    /\ InProportion(IF c = NoRegion THEN g ELSE SizeOf(c), s)
    /\ c # NoRegion => Placed(c, g)

\* A length computed from the other has the proportion
LEMMA ByHeightRight ==
  ASSUME NEW h \in Int, NEW s \in Int \X Int
  PROVE  /\ ByHeight(h, s) \in Int \X Int
         /\ Positive(s) /\ h >= 0 => /\ ByHeight(h, s)[1] \in Nat
                                     /\ InProportion(ByHeight(h, s), s)
<1> DEFINE n == h * s[1]
           q == RoundedQuotient(n, s[2])
<1>1. n \in Int /\ s[1] \in Int /\ s[2] \in Int
  OBVIOUS
<1>2. q \in Int
  BY <1>1, RoundedInt
<1>3. ByHeight(h, s) = <<q, h>>
  BY DEF ByHeight
<1>4. ASSUME Positive(s), h >= 0
      PROVE  q \in Nat /\ InProportion(<<q, h>>, s)
  <2>1. s[1] \in Nat /\ s[2] \in Nat \ {0} /\ h \in Nat
    BY <1>1, <1>4 DEF Positive
  <2>2. n \in Nat
    BY <2>1
  <2> HIDE DEF n
  <2>3. q \in Nat /\ 2 * (q * s[2] - n) <= s[2] /\ 2 * (n - q * s[2]) <= s[2]
    BY <2>1, <2>2, RoundedClose
  <2> HIDE DEF q
  <2>4. q * s[2] \in Nat
    BY <2>1, <2>3
  <2>5. 2 * Abs(q * s[2] - n) <= s[2]
    BY <2>1, <2>2, <2>3, <2>4 DEF Abs
  <2>6. 2 * Abs(q * s[2] - h * s[1]) <= s[2]
    BY <2>5 DEF n
  <2> QED
    BY <2>3, <2>6 DEF InProportion
<1> HIDE DEF q
<1> QED
  BY <1>2, <1>3, <1>4

LEMMA ByWidthRight ==
  ASSUME NEW w \in Int, NEW s \in Int \X Int
  PROVE  /\ ByWidth(w, s) \in Int \X Int
         /\ Positive(s) /\ w >= 0 => /\ ByWidth(w, s)[2] \in Nat
                                     /\ InProportion(ByWidth(w, s), s)
<1> DEFINE n == w * s[2]
           q == RoundedQuotient(n, s[1])
<1>1. n \in Int /\ s[1] \in Int /\ s[2] \in Int
  OBVIOUS
<1>2. q \in Int
  BY <1>1, RoundedInt
<1>3. ByWidth(w, s) = <<w, q>>
  BY DEF ByWidth
<1>4. ASSUME Positive(s), w >= 0
      PROVE  q \in Nat /\ InProportion(<<w, q>>, s)
  <2>1. s[1] \in Nat \ {0} /\ s[2] \in Nat /\ w \in Nat
    BY <1>1, <1>4 DEF Positive
  <2>2. n \in Nat
    BY <2>1
  <2> HIDE DEF n
  <2>3. q \in Nat /\ 2 * (q * s[1] - n) <= s[1] /\ 2 * (n - q * s[1]) <= s[1]
    BY <2>1, <2>2, RoundedClose
  <2> HIDE DEF q
  <2>4. q * s[1] \in Nat
    BY <2>1, <2>3
  <2>5. 2 * Abs(n - q * s[1]) <= s[1]
    BY <2>1, <2>2, <2>3, <2>4 DEF Abs
  <2>6. 2 * Abs(w * s[2] - q * s[1]) <= s[1]
    BY <2>5 DEF n
  <2> QED
    BY <2>3, <2>6 DEF InProportion
<1> HIDE DEF q
<1> QED
  BY <1>2, <1>3, <1>4

\* The fitted size is in the guide size and touches two of its edges
LEMMA FittedRight ==
  ASSUME NEW g \in Int \X Int, NEW s \in Int \X Int, Positive(s), NotNegative(g)
  PROVE  LET f == Fitted(g, s)
         IN  /\ f \in Nat \X Nat
             /\ InProportion(f, s)
             /\ f[1] <= g[1] /\ f[2] <= g[2]
<1> DEFINE f == Fitted(g, s)
<1>1. /\ s[1] \in Nat \ {0} /\ s[2] \in Nat \ {0}
      /\ g[1] \in Nat /\ g[2] \in Nat
  BY DEF Positive, NotNegative
<1>2. CASE MatchHeight(g, s)
  <2>1. f = ByWidth(g[1], s)
    BY <1>2 DEF Fitted
  <2>2. /\ f \in Int \X Int /\ f[2] \in Nat
        /\ InProportion(f, s)
    BY <1>1, <2>1, ByWidthRight
  <2>3. f[1] = g[1] /\ f[2] = RoundedQuotient(g[1] * s[2], s[1])
    BY <2>1 DEF ByWidth
  <2>4. g[1] * s[2] \in Nat /\ g[2] * s[1] \in Nat
    BY <1>1
  <2>5. g[1] * s[2] <= g[2] * s[1]
    <3>1. CASE s[1] > g[1] /\ s[2] <= g[2]
      <4>1. g[1] * s[2] <= s[1] * s[2]
        BY <1>1, <3>1, ProductGrows
      <4>2. s[2] * s[1] <= g[2] * s[1]
        BY <1>1, <3>1, ProductGrows
      <4>3. s[1] * s[2] = s[2] * s[1] /\ s[1] * s[2] \in Nat
        BY <1>1
      <4> QED
        BY <2>4, <4>1, <4>2, <4>3
    <3>2. CASE s[1] * g[2] > s[2] * g[1]
      <4>1. s[1] * g[2] = g[2] * s[1] /\ s[2] * g[1] = g[1] * s[2]
        BY <1>1
      <4> QED
        BY <2>4, <3>2, <4>1
    <3> QED
      BY <1>2, <3>1, <3>2 DEF MatchHeight
  <2>6. f[2] <= g[2]
    <3> DEFINE n == g[1] * s[2]
    <3>1. n \in Nat /\ n <= g[2] * s[1] /\ f[2] = RoundedQuotient(n, s[1])
      BY <2>3, <2>4, <2>5
    <3> HIDE DEF n
    <3>2. \A m \in Nat : n <= m * s[1] => RoundedQuotient(n, s[1]) <= m
      BY <1>1, <3>1, RoundedClose
    <3>3. n <= g[2] * s[1] => RoundedQuotient(n, s[1]) <= g[2]
      BY <1>1, <3>2
    <3> QED
      BY <3>1, <3>3
  <2>7. f = <<f[1], f[2]>>
    BY <2>2
  <2> HIDE DEF f
  <2>8. f \in Nat \X Nat
    BY <1>1, <2>2, <2>3, <2>7
  <2> QED
    BY <1>1, <2>2, <2>3, <2>6, <2>8 DEF f
<1>3. CASE ~MatchHeight(g, s) /\ MatchWidth(g, s)
  <2>1. f = ByHeight(g[2], s)
    BY <1>3 DEF Fitted
  <2>2. /\ f \in Int \X Int /\ f[1] \in Nat
        /\ InProportion(f, s)
    BY <1>1, <2>1, ByHeightRight
  <2>3. f[1] = RoundedQuotient(g[2] * s[1], s[2]) /\ f[2] = g[2]
    BY <2>1 DEF ByHeight
  <2>4. g[1] * s[2] \in Nat /\ g[2] * s[1] \in Nat
    BY <1>1
  <2>5. g[2] * s[1] <= g[1] * s[2]
    <3>1. CASE s[1] <= g[1] /\ s[2] > g[2]
      <4>1. g[2] * s[1] <= s[2] * s[1]
        BY <1>1, <3>1, ProductGrows
      <4>2. s[1] * s[2] <= g[1] * s[2]
        BY <1>1, <3>1, ProductGrows
      <4>3. s[1] * s[2] = s[2] * s[1] /\ s[1] * s[2] \in Nat
        BY <1>1
      <4> QED
        BY <2>4, <4>1, <4>2, <4>3
    <3>2. CASE s[2] * g[1] > s[1] * g[2]
      <4>1. s[1] * g[2] = g[2] * s[1] /\ s[2] * g[1] = g[1] * s[2]
        BY <1>1
      <4> QED
        BY <2>4, <3>2, <4>1
    <3> QED
      BY <1>3, <3>1, <3>2 DEF MatchWidth
  <2>6. f[1] <= g[1]
    <3> DEFINE n == g[2] * s[1]
    <3>1. n \in Nat /\ n <= g[1] * s[2] /\ f[1] = RoundedQuotient(n, s[2])
      BY <2>3, <2>4, <2>5
    <3> HIDE DEF n
    <3>2. \A m \in Nat : n <= m * s[2] => RoundedQuotient(n, s[2]) <= m
      BY <1>1, <3>1, RoundedClose
    <3>3. n <= g[1] * s[2] => RoundedQuotient(n, s[2]) <= g[1]
      BY <1>1, <3>2
    <3> QED
      BY <3>1, <3>3
  <2>7. f = <<f[1], f[2]>>
    BY <2>2
  <2> HIDE DEF f
  <2>8. f \in Nat \X Nat
    BY <1>1, <2>2, <2>3, <2>7
  <2> QED
    BY <1>1, <2>2, <2>3, <2>6, <2>8 DEF f
<1>4. CASE ~MatchHeight(g, s) /\ ~MatchWidth(g, s)
  <2>1. f = g
    BY <1>4 DEF Fitted
  <2>2. /\ s[1] * g[2] \in Nat /\ s[2] * g[1] \in Nat
        /\ s[1] * g[2] <= s[2] * g[1] /\ s[2] * g[1] <= s[1] * g[2]
    BY <1>1, <1>4 DEF MatchHeight, MatchWidth
  <2>3. g[1] * s[2] - g[2] * s[1] = 0
    <3>1. s[1] * g[2] = g[2] * s[1] /\ s[2] * g[1] = g[1] * s[2]
      BY <1>1
    <3> QED
      BY <2>2, <3>1
  <2>4. InProportion(g, s)
    BY <1>1, <2>3 DEF InProportion, Abs
  <2>5. g = <<g[1], g[2]>>
    OBVIOUS
  <2>6. g \in Nat \X Nat
    BY <1>1, <2>5
  <2> QED
    BY <1>1, <2>1, <2>4, <2>6
<1> QED
  BY <1>2, <1>3, <1>4

\* The fitted size is a size, whatever was typed
LEMMA FittedInt ==
  ASSUME NEW g \in Int \X Int, NEW s \in Int \X Int
  PROVE  Fitted(g, s) \in Int \X Int
BY ByHeightRight, ByWidthRight DEF Fitted

\* What FixRatio computes is right
LEMMA InternalClipRight ==
  ASSUME NEW g \in Int \X Int, NEW s \in Int \X Int
  PROVE  /\ InternalClip(g, s) \in (Int \X Int \X Int \X Int) \union {NoRegion}
         /\ RightFor(g, InternalClip(g, s), s)
<1> DEFINE f == Fitted(g, s)
           x == Abs(g[1] - f[1])
           y == Abs(g[2] - f[2])
           left == RoundedQuotient(x, 2)
           top == RoundedQuotient(y, 2)
           r == <<left, top, left + f[1], top + f[2]>>
<1>1. f \in Int \X Int
  BY FittedInt
<1>2. f[1] \in Int /\ f[2] \in Int /\ g[1] \in Int /\ g[2] \in Int
  BY <1>1
<1> HIDE DEF f
<1>3. x \in Nat /\ y \in Nat
  BY <1>2 DEF Abs
<1> HIDE DEF x, y
<1>4. /\ left \in Nat /\ left <= x /\ 2 * left - x \in {0, 1}
      /\ top \in Nat /\ top <= y /\ 2 * top - y \in {0, 1}
  BY <1>3, RoundedHalf
<1>5. InternalClip(g, s) = IF f = g THEN NoRegion ELSE r
  BY DEF InternalClip, f, x, y
<1> HIDE DEF left, top
<1>6. r \in Int \X Int \X Int \X Int /\ r # NoRegion
  BY <1>2, <1>4, GeometryAssumption
<1>8. ASSUME Positive(s), NotNegative(g)
      PROVE  InProportion(f, s) /\ Placed(r, g)
  <2>1. /\ f \in Nat \X Nat /\ InProportion(f, s)
        /\ f[1] <= g[1] /\ f[2] <= g[2]
    BY <1>8, FittedRight DEF f
  <2>2. f[1] \in Nat /\ f[2] \in Nat
    BY <2>1
  <2>3. x = g[1] - f[1] /\ y = g[2] - f[2]
    BY <1>2, <2>1 DEF x, y, Abs
  <2>4. /\ r[1] = left /\ r[2] = top
        /\ r[3] = left + f[1] /\ r[4] = top + f[2]
    OBVIOUS
  <2>5. /\ 0 <= left /\ left <= left + f[1] /\ left + f[1] <= g[1]
        /\ 0 <= top /\ top <= top + f[2] /\ top + f[2] <= g[2]
    BY <1>2, <1>4, <2>2, <2>3
  <2>6. left - (g[1] - (left + f[1])) = 2 * left - x
    BY <1>2, <1>4, <2>2, <2>3
  <2>7. top - (g[2] - (top + f[2])) = 2 * top - y
    BY <1>2, <1>4, <2>2, <2>3
  <2> HIDE DEF r
  <2>8. Placed(r, g)
    BY <1>4, <2>4, <2>5, <2>6, <2>7 DEF Placed
  <2> QED
    BY <2>1, <2>8
<1>9. SizeOf(r) = f
  <2>1. r[3] - r[1] = f[1] /\ r[4] - r[2] = f[2]
    BY <1>2, <1>4
  <2>2. f = <<f[1], f[2]>>
    BY <1>1
  <2> QED
    BY <2>1, <2>2 DEF SizeOf
<1> HIDE DEF r
<1> QED
  BY <1>5, <1>6, <1>8, <1>9 DEF RightFor

\* A view without internal clip is right for a size that was computed, for the size
\* itself, and when nothing is remembered
LEMMA SimplyRight ==
  ASSUME NEW s \in Int \X Int
  PROVE  /\ \A h \in Int : RightFor(ByHeight(h, s), NoRegion, s)
         /\ \A w \in Int : RightFor(ByWidth(w, s), NoRegion, s)
         /\ RightFor(s, NoRegion, s)
         /\ \A g \in Int \X Int : RightFor(g, NoRegion, <<0, 0>>)
<1>1. ASSUME NEW h \in Int PROVE RightFor(ByHeight(h, s), NoRegion, s)
  <2>1. ByHeight(h, s)[2] = h
    BY DEF ByHeight
  <2> QED
    BY <2>1, ByHeightRight DEF RightFor, NotNegative
<1>2. ASSUME NEW w \in Int PROVE RightFor(ByWidth(w, s), NoRegion, s)
  <2>1. ByWidth(w, s)[1] = w
    BY DEF ByWidth
  <2> QED
    BY <2>1, ByWidthRight DEF RightFor, NotNegative
<1>3. RightFor(s, NoRegion, s)
  <2> SUFFICES ASSUME Positive(s) PROVE InProportion(s, s)
    BY DEF RightFor
  <2>1. s[1] \in Nat /\ s[2] \in Nat
    BY DEF Positive
  <2>2. s[1] * s[2] - s[2] * s[1] = 0
    BY <2>1
  <2> QED
    BY <2>1, <2>2 DEF InProportion, Abs
<1>4. ASSUME NEW g \in Int \X Int PROVE RightFor(g, NoRegion, <<0, 0>>)
  BY DEF RightFor, Positive
<1> QED
  BY <1>1, <1>2, <1>3, <1>4

-----------------------------------------------------------------------------
(* The inductive invariant *)

PlaceOK ==
  /\ settingWindow \in BOOLEAN
  /\ source \in Places
  /\ sourceSize \in Places
  /\ selecting \in Places \union {NoSize}
  /\ lockRatio \in BOOLEAN

\* The coordinate n on the side i is no further than a selection or a window reaches
Within(i, n) ==
  \/ \E r \in Regions : n <= r[i]
  \/ \E s \in Places : n <= Whole(s)[IF i \in {1, 3} THEN 3 ELSE 4]

ClipOK ==
  /\ clipped \in BOOLEAN
  /\ rcClip \in Four
  /\ \A i \in 1..4 : Within(i, rcClip[i])

\* The view has room for the size its user set
SizeOK ==
  /\ lastUserSet \in Int \X Int
  /\ client \in Nat \X Nat
  /\ lastUserSet[1] <= client[1]
  /\ lastUserSet[2] <= client[2]

\* What is remembered has its types, and a blank view draws all of itself
MemoryOK ==
  /\ lastFixedTo \in Int \X Int
  /\ rcInternalClip \in (Int \X Int \X Int \X Int) \union {NoRegion}
  /\ settingWindow => rcInternalClip = NoRegion

GeometryInv == PlaceOK /\ ClipOK /\ SizeOK /\ MemoryOK /\ acts \in 0..MaxActs

\* What is remembered is right
Right == RightFor(lastUserSet, rcInternalClip, lastFixedTo)

\* A step leaves it right or alone, or is one of those the properties name
RightStep ==
  \/ Right'
  \/ UNCHANGED <<lastUserSet, rcInternalClip, lastFixedTo>>
  \/ SizedUnremembered
  \/ TypedWhenLetterboxed

-----------------------------------------------------------------------------
(* What the operations are made of *)

LEMMA PlacesNat == Places \subseteq Nat \X Nat
BY GeometryAssumption DEF Places

LEMMA WholeInPlace ==
  ASSUME NEW s \in Places
  PROVE  Whole(s) \in Four /\ \A i \in 1..4 : Within(i, Whole(s)[i])
<1>1. s[1] \in Nat /\ s[2] \in Nat
  BY PlacesNat
<1>2. Whole(s) \in Four
  BY <1>1 DEF Whole, Four
<1>3. Within(1, Whole(s)[1]) /\ Within(3, Whole(s)[3])
  BY <1>1 DEF Within, Whole
<1>4. Within(2, Whole(s)[2]) /\ Within(4, Whole(s)[4])
  BY <1>1 DEF Within, Whole
<1> QED
  BY <1>2, <1>3, <1>4

LEMMA RegionInPlace ==
  ASSUME NEW r \in Regions
  PROVE  r \in Four /\ \A i \in 1..4 : Within(i, r[i])
<1>1. r \in Four
  BY GeometryAssumption DEF Four
<1>2. \A i \in 1..4 : r[i] \in Nat
  BY <1>1 DEF Four
<1> QED
  BY <1>1, <1>2 DEF Within

LEMMA SizeOfInt ==
  ASSUME NEW r \in Four
  PROVE  SizeOf(r) \in Int \X Int
BY DEF Four, SizeOf

LEMMA ShownInt ==
  ASSUME PlaceOK, ClipOK
  PROVE  Shown \in Int \X Int
BY SizeOfInt, PlacesNat DEF PlaceOK, ClipOK, Shown

LEMMA ShownIntNext ==
  ASSUME PlaceOK', ClipOK'
  PROVE  Shown' \in Int \X Int
<1>1. rcClip' \in Four /\ source' \in Places
  BY DEF PlaceOK, ClipOK
<1>2. SizeOf(rcClip') \in Int \X Int
  BY <1>1, SizeOfInt
<1>3. Shown' = IF clipped' THEN SizeOf(rcClip') ELSE source'
  BY DEF Shown, SizeOf
<1> QED
  BY <1>1, <1>2, <1>3, PlacesNat

\* Windows grants no less than what is asked for
LEMMA GrantedSize ==
  ASSUME NEW s \in Places, NEW size \in Int \X Int, NEW framed \in BOOLEAN
  PROVE  /\ Granted(size, framed, s) \in Nat \X Nat
         /\ size[1] <= Granted(size, framed, s)[1]
         /\ size[2] <= Granted(size, framed, s)[2]
<1>1. s[1] \in Nat /\ s[2] \in Nat /\ minimumDimension \in Nat
  BY PlacesNat, GeometryAssumption
<1>2. minimumDimension * s[1] \in Nat /\ minimumDimension * s[2] \in Nat
  BY <1>1
<1>3. /\ s[2] # 0 => (minimumDimension * s[1]) \div s[2] \in Nat
      /\ s[1] # 0 => (minimumDimension * s[2]) \div s[1] \in Nat
  <2>1. ASSUME NEW n \in Nat, NEW d \in Nat, d # 0 PROVE n \div d \in Nat
    BY <2>1, Division
  <2> QED
    BY <1>1, <1>2, <2>1
<1>4. MinTrackSize(s)[1] \in Nat /\ MinTrackSize(s)[2] \in Nat
  BY <1>1, <1>3 DEF MinTrackSize
<1> DEFINE least == IF framed THEN MinTrackSize(s) ELSE <<0, 0>>
<1>5. least[1] \in Nat /\ least[2] \in Nat
  BY <1>4
<1>6. Granted(size, framed, s) = <<Larger(size[1], least[1]), Larger(size[2], least[2])>>
  BY DEF Granted
<1> HIDE DEF least
<1>7. /\ Larger(size[1], least[1]) \in Nat /\ size[1] <= Larger(size[1], least[1])
      /\ Larger(size[2], least[2]) \in Nat /\ size[2] <= Larger(size[2], least[2])
  BY <1>5 DEF Larger
<1> QED
  BY <1>6, <1>7

\* FixRatio computes a memory that is right, or leaves what it finds
LEMMA FixRatioKeeps ==
  ASSUME PlaceOK', ClipOK', lastUserSet' \in Int \X Int, lastFixedTo \in Int \X Int,
         NEW r \in (Int \X Int \X Int \X Int) \union {NoRegion},
         settingWindow' => r = NoRegion,
         FixRatio(r)
  PROVE  /\ MemoryOK'
         /\ Right' \/ (rcInternalClip' = r /\ lastFixedTo' = lastFixedTo)
<1>1. Shown' \in Int \X Int
  BY ShownIntNext
<1>2. CASE lockRatio' /\ ~settingWindow' /\ Shown' # lastFixedTo
  <2>1. /\ rcInternalClip' = InternalClip(lastUserSet', Shown')
        /\ lastFixedTo' = Shown'
    BY <1>2 DEF FixRatio
  <2> DEFINE g == lastUserSet'
             s == Shown'
  <2>2. g \in Int \X Int /\ s \in Int \X Int
    BY <1>1
  <2>3. rcInternalClip' = InternalClip(g, s) /\ lastFixedTo' = s
    BY <2>1
  <2>4. g = lastUserSet'
    OBVIOUS
  <2> HIDE DEF g, s
  <2>5. /\ InternalClip(g, s) \in (Int \X Int \X Int \X Int) \union {NoRegion}
        /\ RightFor(g, InternalClip(g, s), s)
    BY <2>2, InternalClipRight
  <2>6. Right'
    BY <2>3, <2>4, <2>5 DEF Right
  <2> QED
    BY <1>2, <2>2, <2>3, <2>5, <2>6 DEF MemoryOK
<1>3. CASE ~(lockRatio' /\ ~settingWindow' /\ Shown' # lastFixedTo)
  <2>1. rcInternalClip' = r /\ lastFixedTo' = lastFixedTo
    BY <1>3 DEF FixRatio
  <2> QED
    BY <2>1 DEF MemoryOK
<1> QED
  BY <1>2, <1>3

\* FixRatio alone, for a view whose size stays
LEMMA FixRatioOnly ==
  ASSUME GeometryInv, PlaceOK', ClipOK', UNCHANGED <<lastUserSet, settingWindow>>,
         FixRatio(rcInternalClip)
  PROVE  MemoryOK' /\ RightStep
<1>1. /\ lastUserSet' \in Int \X Int
      /\ lastFixedTo \in Int \X Int
      /\ rcInternalClip \in (Int \X Int \X Int \X Int) \union {NoRegion}
      /\ settingWindow' => rcInternalClip = NoRegion
  BY DEF GeometryInv, SizeOK, MemoryOK
<1>2. /\ MemoryOK'
      /\ Right' \/ (rcInternalClip' = rcInternalClip /\ lastFixedTo' = lastFixedTo)
  BY <1>1, FixRatioKeeps
<1> QED
  BY <1>2 DEF RightStep

\* Only what changes has to be shown
LEMMA Unchanged ==
  ASSUME GeometryInv
  PROVE  /\ UNCHANGED <<place, lockRatio>> => PlaceOK'
         /\ UNCHANGED clip => ClipOK'
         /\ UNCHANGED <<lastUserSet, client>> => SizeOK'
         /\ UNCHANGED <<settingWindow, lastFixedTo, rcInternalClip>> => MemoryOK'
<1>1. UNCHANGED <<place, lockRatio>> => PlaceOK'
  BY DEF GeometryInv, PlaceOK, place
<1>2. UNCHANGED clip => ClipOK'
  BY DEF GeometryInv, ClipOK, clip
<1>3. UNCHANGED <<lastUserSet, client>> => SizeOK'
  BY DEF GeometryInv, SizeOK
<1>4. UNCHANGED <<settingWindow, lastFixedTo, rcInternalClip>> => MemoryOK'
  BY DEF GeometryInv, MemoryOK
<1> QED
  BY <1>1, <1>2, <1>3, <1>4

\* A size that Windows was asked for has room
LEMMA RoomGranted ==
  ASSUME NEW s \in Places, NEW size \in Int \X Int, NEW framed \in BOOLEAN,
         lastUserSet' = size, client' = Granted(size, framed, s)
  PROVE  SizeOK'
BY GrantedSize DEF SizeOK

\* The size of the view becomes the size shown, or more
LEMMA Matches ==
  ASSUME NEW s \in Places, NEW size \in Int \X Int, NEW framed \in BOOLEAN,
         Match(size, framed, s)
  PROVE  SizeOK' /\ lastUserSet' \in Int \X Int
BY GrantedSize DEF SizeOK, Match

-----------------------------------------------------------------------------
(* Every operation keeps the invariant and is a step of the properties *)

Kept == PlaceOK' /\ ClipOK' /\ SizeOK' /\ MemoryOK' /\ RightStep

LEMMA DropKeeps ==
  ASSUME GeometryInv, NEW s \in Sizes, NEW match \in BOOLEAN, Drop(s, match)
  PROVE  Kept
<1>1. s \in Places /\ s \in Int \X Int
  BY PlacesNat DEF Places
<1>2. PlaceOK'
  BY <1>1 DEF Drop, GeometryInv, PlaceOK
<1>3. ClipOK'
  BY <1>1, WholeInPlace DEF Drop, GeometryInv, ClipOK
<1>4. RightStep
  BY DEF RightStep, SizedUnremembered
<1>5. /\ MemoryOK
      /\ SizeOK
      /\ settingWindow /\ settingWindow' = FALSE
      /\ lastFixedTo' = lastFixedTo
  BY DEF Drop, GeometryInv
<1>6. CASE match
  <2>1. Match(s, TRUE, s) /\ rcInternalClip' = NoRegion
    BY <1>6 DEF Drop
  <2>2. SizeOK'
    BY <1>1, <2>1, Matches
  <2>3. MemoryOK'
    BY <1>5, <2>1 DEF MemoryOK
  <2> QED
    BY <1>2, <1>3, <1>4, <2>2, <2>3 DEF Kept
<1>7. CASE ~match
  <2>1. lastUserSet' = client /\ UNCHANGED <<client, rcInternalClip>>
    BY <1>7 DEF Drop
  <2>2. SizeOK'
    BY <1>5, <2>1 DEF SizeOK
  <2>3. MemoryOK'
    BY <1>5, <2>1 DEF MemoryOK
  <2> QED
    BY <1>2, <1>3, <1>4, <2>2, <2>3 DEF Kept
<1> QED
  BY <1>6, <1>7

LEMMA MatchSourceKeeps ==
  ASSUME GeometryInv, NEW framed \in BOOLEAN, MatchSource(framed)
  PROVE  Kept
<1>1. PlaceOK' /\ ClipOK'
  BY Unchanged DEF MatchSource
<1>2. Shown \in Int \X Int /\ source \in Places
  BY ShownInt DEF GeometryInv, PlaceOK
<1>3. /\ Match(Shown, framed, source) /\ rcInternalClip' = NoRegion
      /\ lastFixedTo' = lastFixedTo
  BY DEF MatchSource
<1>4. SizeOK'
  BY <1>2, <1>3, Matches
<1>5. MemoryOK'
  BY <1>3 DEF GeometryInv, MemoryOK
<1>6. RightStep
  BY DEF RightStep, SizedUnremembered
<1> QED
  BY <1>1, <1>4, <1>5, <1>6 DEF Kept

LEMMA ToggleKeeps ==
  ASSUME GeometryInv, ToggleLockRatio
  PROVE  Kept
<1>1. PlaceOK'
  BY DEF ToggleLockRatio, GeometryInv, PlaceOK, place
<1>2. ClipOK' /\ SizeOK'
  BY Unchanged DEF ToggleLockRatio
<1>3. FixRatio(rcInternalClip) /\ UNCHANGED <<lastUserSet, settingWindow>>
  BY DEF ToggleLockRatio, place
<1>4. MemoryOK' /\ RightStep
  BY <1>1, <1>2, <1>3, FixRatioOnly
<1> QED
  BY <1>1, <1>2, <1>4 DEF Kept

LEMMA SetClipRegionKeeps ==
  ASSUME GeometryInv, NEW framed \in BOOLEAN, SetClipRegion(framed)
  PROVE  Kept
<1>1. PlaceOK'
  BY DEF SetClipRegion, GeometryInv, PlaceOK
<1>2. ClipOK' /\ MemoryOK'
  BY Unchanged DEF SetClipRegion
<1>3. lastUserSet \in Int \X Int /\ source \in Places
  BY DEF GeometryInv, SizeOK, PlaceOK
<1>4. SizeOK'
  BY <1>3, RoomGranted DEF SetClipRegion
<1>5. RightStep
  BY DEF SetClipRegion, RightStep
<1> QED
  BY <1>1, <1>2, <1>4, <1>5 DEF Kept

LEMMA SetClipKeeps ==
  ASSUME GeometryInv, NEW r \in Regions, NEW match \in BOOLEAN, NEW framed \in BOOLEAN,
         SetClip(r, match, framed)
  PROVE  Kept
<1>1. PlaceOK'
  BY DEF SetClip, GeometryInv, PlaceOK
<1>2. ClipOK'
  BY RegionInPlace DEF SetClip, ClipOK
<1>3. SizeOf(r) \in Int \X Int /\ source \in Places
  BY RegionInPlace, SizeOfInt DEF GeometryInv, PlaceOK
<1>4. lastFixedTo \in Int \X Int
  BY DEF GeometryInv, MemoryOK
<1>5. CASE match
  <2>1. Match(SizeOf(r), framed, source) /\ FixRatio(NoRegion)
    BY <1>5 DEF SetClip
  <2>2. SizeOK' /\ lastUserSet' \in Int \X Int
    BY <1>3, <2>1, Matches
  <2>3. MemoryOK' /\ (Right' \/ lastFixedTo' = lastFixedTo)
    BY <1>1, <1>2, <1>4, <2>1, <2>2, FixRatioKeeps
  <2>4. RightStep
    <3>1. match = TRUE
      BY <1>5
    <3>2. CASE Right'
      BY <3>2 DEF RightStep
    <3>3. CASE lastFixedTo' = lastFixedTo
      BY <3>1, <3>3 DEF RightStep, SizedUnremembered
    <3> QED
      BY <2>3, <3>2, <3>3
  <2> QED
    BY <1>1, <1>2, <2>2, <2>3, <2>4 DEF Kept
<1>6. CASE ~match
  <2>1. /\ UNCHANGED <<client, lastUserSet, settingWindow>>
        /\ FixRatio(rcInternalClip)
    BY <1>6 DEF SetClip
  <2>2. SizeOK'
    BY <2>1, Unchanged
  <2>3. MemoryOK' /\ RightStep
    BY <1>1, <1>2, <2>1, FixRatioOnly
  <2> QED
    BY <1>1, <1>2, <2>2, <2>3 DEF Kept
<1> QED
  BY <1>5, <1>6

LEMMA ClearClipRegionKeeps ==
  ASSUME GeometryInv, NEW framed \in BOOLEAN, ClearClipRegion(framed)
  PROVE  Kept
<1>1. PlaceOK'
  BY Unchanged DEF ClearClipRegion
<1>2. ClipOK'
  BY WholeInPlace DEF ClearClipRegion, GeometryInv, PlaceOK, ClipOK
<1>3. lastUserSet \in Int \X Int /\ source \in Places
  BY DEF GeometryInv, SizeOK, PlaceOK
<1>4. SizeOK'
  BY <1>3, RoomGranted DEF ClearClipRegion
<1>5. FixRatio(rcInternalClip) /\ UNCHANGED <<lastUserSet, settingWindow>>
  BY DEF ClearClipRegion, place
<1>6. MemoryOK' /\ RightStep
  BY <1>1, <1>2, <1>5, FixRatioOnly
<1> QED
  BY <1>1, <1>2, <1>4, <1>6 DEF Kept

\* A typed coordinate is brought into the source, and what was remembered forgotten
LEMMA AdjustClipKeeps ==
  ASSUME GeometryInv, NEW side \in 1..4, NEW n \in Coordinates, AdjustClip(side, n)
  PROVE  Kept
<1>1. PlaceOK' /\ SizeOK'
  BY Unchanged DEF AdjustClip
<1>2. MemoryOK' /\ RightStep
  <2>1. lastUserSet' \in Int \X Int
    BY <1>1 DEF SizeOK
  <2> DEFINE none == <<0, 0>>
  <2>2. rcInternalClip' = NoRegion /\ lastFixedTo' = none
    BY DEF AdjustClip, ClearFixRatioCache
  <2>3. RightFor(lastUserSet', NoRegion, none)
    BY <2>1, SimplyRight
  <2>4. none \in Int \X Int
    OBVIOUS
  <2> HIDE DEF none
  <2> QED
    BY <2>2, <2>3, <2>4 DEF MemoryOK, RightStep, Right
<1>3. ClipOK'
  <2> DEFINE last == source[IF side \in {1, 3} THEN 1 ELSE 2]
             v == IF n < 0 THEN 0 ELSE IF n > last THEN last ELSE n
  <2>1. source \in Places /\ ClipOK /\ clipped' = clipped
    BY DEF AdjustClip, GeometryInv, PlaceOK
  <2>2. rcClip' = [rcClip EXCEPT ![side] = v]
    BY DEF AdjustClip
  <2>3. n \in Int /\ source[1] \in Nat /\ source[2] \in Nat
    BY <2>1, PlacesNat, GeometryAssumption
  <2>4. v \in Nat /\ v <= last
    BY <2>3
  <2>5. last = Whole(source)[IF side \in {1, 3} THEN 3 ELSE 4]
    BY DEF Whole
  <2>6. Within(side, v)
    BY <2>1, <2>4, <2>5 DEF Within
  <2> HIDE DEF v
  <2>7. rcClip \in Four /\ \A i \in 1..4 : Within(i, rcClip[i])
    BY <2>1 DEF ClipOK
  <2>8. rcClip' \in Four
    BY <2>2, <2>4, <2>7 DEF Four
  <2>9. ASSUME NEW i \in 1..4
        PROVE  Within(i, rcClip'[i])
    <3>1. rcClip'[i] = IF i = side THEN v ELSE rcClip[i]
      BY <2>2, <2>7 DEF Four
    <3> QED
      BY <2>6, <2>7, <3>1
  <2> QED
    BY <2>1, <2>8, <2>9 DEF ClipOK
<1> QED
  BY <1>1, <1>2, <1>3 DEF Kept

\* A typed width or height is right when it is computed and there is no internal clip
LEMMA AdjustCliKeeps ==
  ASSUME GeometryInv, NEW size \in Int \X Int, NEW framed \in BOOLEAN, Typed,
         AdjustCli(size, framed), lockRatio => RightFor(size, NoRegion, Shown)
  PROVE  Kept
<1>1. PlaceOK' /\ ClipOK'
  BY Unchanged DEF AdjustCli
<1>2. lastUserSet' = size /\ client' = Granted(size, framed, source)
  BY DEF AdjustCli
<1>3. SizeOK'
  BY <1>2, RoomGranted DEF GeometryInv, PlaceOK
<1>4. Shown \in Int \X Int
  BY ShownInt DEF GeometryInv
<1>5. /\ lastFixedTo' = IF lockRatio THEN Shown ELSE lastFixedTo
      /\ UNCHANGED <<rcInternalClip, settingWindow>>
  BY DEF AdjustCli, place
<1>6. MemoryOK'
  BY <1>4, <1>5 DEF GeometryInv, MemoryOK
<1>7. RightStep
  <2>1. CASE ~lockRatio
    BY <2>1 DEF RightStep, SizedUnremembered
  <2>2. CASE rcInternalClip # NoRegion
    BY <2>2 DEF RightStep, TypedWhenLetterboxed
  <2>3. CASE lockRatio /\ rcInternalClip = NoRegion
    BY <1>2, <1>5, <2>3 DEF RightStep, Right
  <2> QED
    BY <2>1, <2>2, <2>3
<1> QED
  BY <1>1, <1>3, <1>6, <1>7 DEF Kept

LEMMA AdjustLengthsKeeps ==
  ASSUME GeometryInv, NEW n \in Lengths, NEW framed \in BOOLEAN,
         AdjustCliWidth(n, framed) \/ AdjustCliHeight(n, framed)
  PROVE  Kept
<1>1. n \in Int
  BY GeometryAssumption
<1>2. Shown \in Int \X Int
  BY ShownInt DEF GeometryInv
<1>3. client[1] \in Int /\ client[2] \in Int
  BY DEF GeometryInv, SizeOK
<1>4. Typed
  BY DEF Typed
<1>5. CASE AdjustCliWidth(n, framed)
  <2> DEFINE size == IF lockRatio THEN ByWidth(n, Shown) ELSE <<n, client[2]>>
  <2>1. AdjustCli(size, framed)
    BY <1>5 DEF AdjustCliWidth
  <2>2. size \in Int \X Int
    BY <1>1, <1>2, <1>3, ByWidthRight
  <2>3. lockRatio => RightFor(size, NoRegion, Shown)
    BY <1>1, <1>2, SimplyRight
  <2> HIDE DEF size
  <2> QED
    BY <1>4, <2>1, <2>2, <2>3, AdjustCliKeeps
<1>6. CASE AdjustCliHeight(n, framed)
  <2> DEFINE size == IF lockRatio THEN ByHeight(n, Shown) ELSE <<client[1], n>>
  <2>1. AdjustCli(size, framed)
    BY <1>6 DEF AdjustCliHeight
  <2>2. size \in Int \X Int
    BY <1>1, <1>2, <1>3, ByHeightRight
  <2>3. lockRatio => RightFor(size, NoRegion, Shown)
    BY <1>1, <1>2, SimplyRight
  <2> HIDE DEF size
  <2> QED
    BY <1>4, <2>1, <2>2, <2>3, AdjustCliKeeps
<1> QED
  BY <1>5, <1>6

\* A dragged edge sets a size that has the proportion, or forgets it
LEMMA DoSizingKeeps ==
  ASSUME GeometryInv, NEW edge \in {"side", "top", "corner"},
         NEW w \in Lengths, NEW h \in Lengths, DoSizing(edge, <<w, h>>)
  PROVE  Kept
<1>1. PlaceOK' /\ ClipOK'
  BY Unchanged DEF DoSizing
<1>2. w \in Int /\ h \in Int
  BY GeometryAssumption
<1>3. Shown \in Int \X Int
  BY ShownInt DEF GeometryInv
<1> DEFINE size == <<w, h>>
<1>4. /\ Sized(edge, size) \in Int \X Int
      /\ RightFor(Sized(edge, size), NoRegion, Shown)
  <2>1. Sized(edge, size) \in {ByHeight(h, Shown), ByWidth(w, Shown)}
    BY DEF Sized
  <2> QED
    BY <1>2, <1>3, <2>1, ByHeightRight, ByWidthRight, SimplyRight
<1>5. lastUserSet' \in Int \X Int
  BY <1>2, <1>4 DEF DoSizing
<1>6. client' = Granted(lastUserSet', TRUE, source) /\ source \in Places
  BY DEF DoSizing, GeometryInv, PlaceOK
<1>7. SizeOK'
  <2> DEFINE g == lastUserSet'
  <2>1. g \in Int \X Int /\ lastUserSet' = g /\ client' = Granted(g, TRUE, source)
    BY <1>5, <1>6
  <2> HIDE DEF g
  <2> QED
    BY <1>6, <2>1, RoomGranted
<1>8. /\ rcInternalClip' = NoRegion
      /\ lastFixedTo' = IF lockRatio /\ ~settingWindow THEN Shown ELSE <<0, 0>>
      /\ lockRatio /\ ~settingWindow => lastUserSet' = Sized(edge, size)
  BY DEF DoSizing
<1>9. Right'
  <2>1. CASE lockRatio /\ ~settingWindow
    BY <1>4, <1>8, <2>1 DEF Right
  <2>2. CASE ~(lockRatio /\ ~settingWindow)
    <3>1. \A g \in Int \X Int : RightFor(g, NoRegion, <<0, 0>>)
      BY <1>3, SimplyRight
    <3> QED
      BY <1>5, <1>8, <2>2, <3>1 DEF Right
  <2> QED
    BY <2>1, <2>2
<1>10. lastFixedTo' \in Int \X Int
  BY <1>3, <1>8
<1>11. MemoryOK'
  BY <1>8, <1>10 DEF MemoryOK
<1> QED
  BY <1>1, <1>7, <1>9, <1>11 DEF Kept, RightStep

LEMMA ValidateKeeps ==
  ASSUME GeometryInv, ValidateProperties
  PROVE  Kept
<1>1. PlaceOK'
  BY DEF ValidateProperties, GeometryInv, PlaceOK
<1>2. ClipOK' /\ SizeOK'
  BY Unchanged DEF ValidateProperties
<1>3. FixRatio(rcInternalClip) /\ UNCHANGED <<lastUserSet, settingWindow>>
  BY DEF ValidateProperties
<1>4. MemoryOK' /\ RightStep
  BY <1>1, <1>2, <1>3, FixRatioOnly
<1> QED
  BY <1>1, <1>2, <1>4 DEF Kept

LEMMA ResizeKeeps ==
  ASSUME GeometryInv, NEW s \in Sizes, ResizeSource(s)
  PROVE  Kept
<1>1. PlaceOK'
  BY DEF ResizeSource, GeometryInv, PlaceOK, Places
<1>2. ClipOK' /\ SizeOK' /\ MemoryOK'
  BY Unchanged DEF ResizeSource
<1>3. RightStep
  BY DEF ResizeSource, RightStep
<1> QED
  BY <1>1, <1>2, <1>3 DEF Kept

LEMMA InitKeeps == Init => GeometryInv /\ Right
<1> SUFFICES ASSUME Init PROVE GeometryInv /\ Right
  OBVIOUS
<1>1. PlaceOK
  BY DEF Init, PlaceOK, Places
<1>2. ClipOK
  BY WholeInPlace DEF Init, ClipOK, Places
<1>3. Desktop[1] \in Nat /\ Desktop[2] \in Nat
  BY GeometryAssumption
<1>4. SizeOK
  BY <1>3 DEF Init, SizeOK
<1>5. MemoryOK /\ Right
  <2> DEFINE none == <<0, 0>>
  <2>1. none \in Int \X Int
    OBVIOUS
  <2>2. lastUserSet = none /\ lastFixedTo = none /\ rcInternalClip = NoRegion
    BY DEF Init
  <2> HIDE DEF none
  <2>3. RightFor(none, NoRegion, none)
    BY <2>1, SimplyRight
  <2> QED
    BY <2>1, <2>2, <2>3 DEF MemoryOK, Right
<1>6. acts \in 0..MaxActs
  BY GeometryAssumption DEF Init
<1> QED
  BY <1>1, <1>2, <1>4, <1>5, <1>6 DEF GeometryInv

LEMMA NextKeeps == GeometryInv /\ [Next]_vars => GeometryInv' /\ RightStep
<1> SUFFICES ASSUME GeometryInv, [Next]_vars
             PROVE  GeometryInv' /\ RightStep
  OBVIOUS
<1>0. acts \in 0..MaxActs /\ MaxActs \in Nat
  BY GeometryAssumption DEF GeometryInv
<1>1. ASSUME NEW s \in Sizes, ResizeSource(s)
      PROVE  GeometryInv' /\ RightStep
  BY <1>0, <1>1, ResizeKeeps DEF ResizeSource, GeometryInv, Kept
<1>2. CASE ValidateProperties
  BY <1>0, <1>2, ValidateKeeps DEF ValidateProperties, GeometryInv, Kept
<1>3. CASE UserActs
  <2>1. acts' \in 0..MaxActs
    BY <1>0, <1>3 DEF UserActs
  <2>2. ASSUME NEW s \in Sizes, NEW match \in BOOLEAN, Drop(s, match)
        PROVE  Kept
    BY <2>2, DropKeeps
  <2>3. ASSUME ToggleLockRatio
        PROVE  Kept
    BY <2>3, ToggleKeeps
  <2>4. ASSUME NEW framed \in BOOLEAN, MatchSource(framed)
        PROVE  Kept
    BY <2>4, MatchSourceKeeps
  <2>5. ASSUME NEW framed \in BOOLEAN, SetClipRegion(framed)
        PROVE  Kept
    BY <2>5, SetClipRegionKeeps
  <2>6. ASSUME NEW framed \in BOOLEAN, NEW r \in Regions, NEW match \in BOOLEAN,
               SetClip(r, match, framed)
        PROVE  Kept
    BY <2>6, SetClipKeeps
  <2>7. ASSUME NEW framed \in BOOLEAN, ClearClipRegion(framed)
        PROVE  Kept
    BY <2>7, ClearClipRegionKeeps
  <2>8. ASSUME NEW framed \in BOOLEAN, NEW n \in Lengths,
               AdjustCliWidth(n, framed) \/ AdjustCliHeight(n, framed)
        PROVE  Kept
    BY <2>8, AdjustLengthsKeeps
  <2>9. ASSUME NEW side \in 1..4, NEW n \in Coordinates, AdjustClip(side, n)
        PROVE  Kept
    BY <2>9, AdjustClipKeeps
  <2>10. ASSUME NEW edge \in {"side", "top", "corner"}, NEW w \in Lengths,
                NEW h \in Lengths, DoSizing(edge, <<w, h>>)
         PROVE  Kept
    BY <2>10, DoSizingKeeps
  <2>11. Kept
    BY <1>3, <2>2, <2>3, <2>4, <2>5, <2>6, <2>7, <2>8, <2>9, <2>10 DEF UserActs
  <2> QED
    BY <2>1, <2>11 DEF Kept, GeometryInv
<1>4. CASE UNCHANGED vars
  <2>1. PlaceOK' /\ ClipOK' /\ SizeOK' /\ MemoryOK'
    BY <1>4, Unchanged DEF vars, place
  <2>2. RightStep
    BY <1>4 DEF vars, RightStep
  <2> QED
    BY <1>0, <1>4, <2>1, <2>2 DEF vars, GeometryInv
<1> QED
  BY <1>1, <1>2, <1>3, <1>4 DEF Next

LEMMA AlwaysGeometryInv == Spec => []GeometryInv
BY InitKeeps, NextKeeps, PTL DEF Spec

\* A step that sets the size and leaves the memory leaves no internal clip either, but
\* for a typed size
LEMMA UnrememberedClip ==
  ASSUME GeometryInv, SizedUnremembered
  PROVE  rcInternalClip' = NoRegion \/ TypedWhenLetterboxed
<1>1. ASSUME NEW s \in Sizes, NEW match \in BOOLEAN, Drop(s, match)
      PROVE  rcInternalClip' = NoRegion
  BY <1>1 DEF Drop, GeometryInv, MemoryOK
<1>2. ASSUME NEW framed \in BOOLEAN, MatchSource(framed)
      PROVE  rcInternalClip' = NoRegion
  BY <1>2 DEF MatchSource
<1>3. ASSUME NEW r \in Regions, NEW framed \in BOOLEAN,
             SetClip(r, TRUE, framed), UNCHANGED lastFixedTo
      PROVE  rcInternalClip' = NoRegion
  <2>1. FixRatio(NoRegion)
    BY <1>3 DEF SetClip
  <2> QED
    BY <1>3, <2>1 DEF FixRatio
<1>4. ASSUME Typed, rcInternalClip = NoRegion
      PROVE  rcInternalClip' = NoRegion
  BY <1>4 DEF Typed, AdjustCliWidth, AdjustCliHeight, AdjustCli
<1> QED
  BY <1>1, <1>2, <1>3, <1>4 DEF SizedUnremembered, TypedWhenLetterboxed

-----------------------------------------------------------------------------
(* The theorems *)

\* Sizes and regions have their types, and no coordinate of a clip region is beyond
\* every window and every selection, whatever was typed.
THEOREM GeometryTypeCorrect == Spec => []TypeOK
<1>1. GeometryInv => TypeOK
  BY DEF GeometryInv, PlaceOK, ClipOK, SizeOK, MemoryOK, Within, Four, TypeOK
<1> QED
  BY <1>1, AlwaysGeometryInv, PTL

\* For all sizes, regions and numbers typed: a step that touches the size of the view,
\* the picture or what FixRatio remembers leaves them in agreement, unless it is one of
\* the steps RatioRemembered names; after one of those they may disagree.
THEOREM RatioAlwaysRemembered == Spec => RatioRemembered
<1> DEFINE Step == \/ RatioRight'
                   \/ UNCHANGED <<lastUserSet, rcInternalClip, lastFixedTo>>
                   \/ SizedUnremembered
                   \/ TypedWhenLetterboxed
<1>1. Right => RatioRight
  BY DEF Right, RightFor, Positive, NotNegative, Picture, RatioRight
<1>2. Right' => RatioRight'
  BY DEF Right, RightFor, Positive, NotNegative, Picture, RatioRight, SizeOf
<1>3. GeometryInv /\ [Next]_vars => [Step]_vars
  BY <1>2, NextKeeps DEF RightStep
<1>4. Init => RatioRight
  BY <1>1, InitKeeps
<1>5. Spec => [][Step]_vars
  BY <1>3, AlwaysGeometryInv, PTL DEF Spec
<1>6. Spec => RatioRight
  BY <1>4, PTL DEF Spec
<1> QED
  BY <1>5, <1>6 DEF RatioRemembered

\* For all sizes, regions and numbers typed: the picture gets out of the view or out of
\* its middle only by a size typed for a letterboxed view.
THEOREM PictureAlwaysStaysInside == Spec => PictureStaysInside
<1> DEFINE Step == Inside \/ rcInternalClip' # rcInternalClip
                     => Inside' \/ TypedWhenLetterboxed
<1>1. Init => Inside
  BY DEF Init, Inside
<1>2. ASSUME GeometryInv, [Next]_vars
      PROVE  Step
  <2>1. GeometryInv' /\ RightStep
    BY <1>2, NextKeeps
  <2>2. SizeOK'
    BY <2>1 DEF GeometryInv
  <2>3. CASE Right'
    BY <2>2, <2>3
    DEF Right, RightFor, Positive, NotNegative, Placed, SizeOK, Inside
  <2>4. CASE UNCHANGED <<lastUserSet, rcInternalClip, lastFixedTo>>
    BY <2>2, <2>4 DEF SizeOK, Inside
  <2>5. CASE SizedUnremembered
    <3>1. CASE rcInternalClip' = NoRegion
      BY <3>1 DEF Inside
    <3> QED
      BY <1>2, <2>5, <3>1, UnrememberedClip
  <2> QED
    BY <2>1, <2>3, <2>4, <2>5 DEF RightStep
<1>3. Spec => [][Step]_vars
  <2>1. GeometryInv /\ [Next]_vars => [Step]_vars
    BY <1>2
  <2> QED
    BY <2>1, AlwaysGeometryInv, PTL DEF Spec
<1>4. Spec => Inside
  BY <1>1, PTL DEF Spec
<1> QED
  BY <1>3, <1>4 DEF PictureStaysInside
=============================================================================
