----------------------------- MODULE BootProofs ----------------------------
(***************************************************************************)
(* Theorems about the blocks main computes, for every screen, every number *)
(* of LEDs and every large frame.  The arithmetic is done once, for a row  *)
(* and for a column of blocks; the shape of each kind of block follows,    *)
(* and the properties are proved from the shapes alone.  Then the inductive*)
(* invariant of Boot and the theorems that follow from it: the types, the  *)
(* geometry of the running program, the saved frame, and the frame         *)
(* calibrate finds in a picture that stands still.                         *)
(***************************************************************************)
EXTENDS Boot, FiniteSetTheorems, TLAPS

ConstantsOK ==
  /\ LEDSTOP \in Nat \ {0} /\ LEDSBOTTOM \in Nat \ {0}
  /\ LEDSLEFT \in Nat /\ LEDSLEFT > 1 /\ LEDSRIGHT \in Nat /\ LEDSRIGHT > 1
  /\ EDGEDEPTH \in Nat /\ EDGEDEPTH > 1
  /\ FRAMEWIDTH \in Nat \ {0} /\ FRAMEHEIGHT \in Nat \ {0}
  /\ Word \in Nat /\ Word > FRAMEWIDTH + FRAMEHEIGHT

LEMMA Constants == ConstantsOK
BY BootAssumption DEF ConstantsOK, EdgeBlocksAssumption

LEMMA Quotient ==
  ASSUME NEW w \in Nat, NEW n \in Nat \ {0}, NEW k \in Nat, w >= k * n
  PROVE  w \div n \in Nat /\ w \div n >= k /\ n * (w \div n) <= w
OBVIOUS

LEMMA Wrap ==
  ASSUME NEW x \in Nat, x < Word
  PROVE  U(x) = x
BY Constants DEF ConstantsOK, U

LEMMA Distribute ==
  ASSUME NEW q \in Nat, NEW n \in Nat, NEW i \in Nat, i < n
  PROVE  /\ q * i \in Nat /\ q * n \in Nat /\ q * n = n * q
         /\ q * (i + 1) = q * i + q
         /\ q * i + q <= q * n /\ (n + 2) * q = q * n + 2 * q
OBVIOUS

LEMMA Ordered ==
  ASSUME NEW q \in Nat, NEW i \in Nat, NEW k \in Nat, i < k
  PROVE  q * i + q <= q * k
OBVIOUS

(* The large frames the geometry is about. *)
LargeFrame(f) == f \in Frame /\ Large(f)

LEMMA LargeFrameFacts ==
  ASSUME NEW f, LargeFrame(f)
  PROVE  /\ f.X \in Nat /\ f.Y \in Nat /\ f.Width \in Nat /\ f.Height \in Nat
         /\ f.X + f.Width < Word /\ f.Y + f.Height < Word
         /\ f.Width >= 2 * (LEDSTOP + 2) /\ f.Width >= 2 * (LEDSBOTTOM + 2)
         /\ f.Width >= 2 * EDGEDEPTH
         /\ f.Height >= EDGEDEPTH * LEDSLEFT /\ f.Height >= EDGEDEPTH * LEDSRIGHT
         /\ f.Height >= 2 * EDGEDEPTH
<1>1. /\ f.X \in Nat /\ f.Y \in Nat /\ f.Width \in Nat /\ f.Height \in Nat
      /\ f.Height >= EDGEDEPTH * LEDSLEFT
  BY Constants DEF ConstantsOK, LargeFrame, Large, Frame, Unsigned
<1>2. EDGEDEPTH * LEDSLEFT >= 2 * EDGEDEPTH
  BY Constants DEF ConstantsOK
<1>3. QED
  BY <1>1, <1>2, Constants
  DEF ConstantsOK, LargeFrame, Large, OnScreen, Frame, Unsigned

(* A row of n blocks of width q in a frame of width w, centred between two *)
(* corners of which the left one is c wide.                                *)
LEMMA Row ==
  ASSUME NEW w \in Nat, NEW n \in Nat \ {0}, w >= 2 * (n + 2), w < Word,
         NEW q, q = w \div (n + 2), NEW c, c = U(w - q * n) \div 2
  PROVE  /\ q \in Nat /\ q >= 2 /\ q * n \in Nat /\ n * q = q * n /\ q * n >= 2
         /\ c \in Nat /\ c >= q
         /\ 2 * c <= w - q * n /\ w - q * n <= 2 * c + 1
         /\ w - c - q * n >= q
<1>1. q \in Nat /\ q >= 2 /\ (n + 2) * q <= w
  BY Quotient
<1>2. q * n \in Nat /\ n * q = q * n /\ (n + 2) * q = q * n + 2 * q
  BY <1>1, Distribute
<1>3. q * n >= 2
  BY <1>1
<1>4. U(w - q * n) = w - q * n
  BY <1>1, <1>2, Wrap, Constants DEF ConstantsOK
<1>5. QED
  BY <1>1, <1>2, <1>3, <1>4

(* A column of n blocks in a frame of height h: the first and the last are *)
(* corners, at least as high as the size of the others.                    *)
LEMMA Column ==
  ASSUME NEW h \in Nat, NEW n \in Nat, n > 1, h >= EDGEDEPTH * n, h < Word,
         NEW f, f.Height = h,
         NEW s, s = h \div n, NEW first, first = FirstHeight(f, s, n)
  PROVE  /\ s \in Nat /\ s >= EDGEDEPTH
         /\ s * (n - 2) \in Nat
         /\ first \in Nat /\ first >= s
         /\ LastHeight(f, s, n, first) = h - s * (n - 2) - first
         /\ h - s * (n - 2) - first >= s
<1>1. s \in Nat /\ s >= EDGEDEPTH /\ n * s <= h
  BY Quotient, Constants DEF ConstantsOK
<1>2. s * (n - 2) \in Nat /\ s * (n - 2) = n * s - 2 * s
  BY <1>1
<1>3. U(h - s * (n - 2)) = h - s * (n - 2)
  BY <1>1, <1>2, Wrap, Constants DEF ConstantsOK
<1>4. /\ first = (h - s * (n - 2)) \div 2
      /\ first \in Nat /\ first >= s /\ h - s * (n - 2) - first >= s
  <2>1. first = (h - s * (n - 2)) \div 2
    BY <1>3 DEF FirstHeight
  <2>2. h - s * (n - 2) \in Nat /\ h - s * (n - 2) >= 2 * s
    BY <1>1, <1>2
  <2>3. \A r \in Nat : r >= 2 * s => r \div 2 \in Nat /\ r \div 2 >= s /\ r - r \div 2 >= s
    BY <1>1
  <2>4. QED
    BY <2>1, <2>2, <2>3
<1>5. U(h - s * (n - 2) - first) = h - s * (n - 2) - first
  BY <1>1, <1>2, <1>4, Wrap, Constants DEF ConstantsOK
<1>6. QED
  BY <1>1, <1>2, <1>4, <1>5 DEF LastHeight

-----------------------------------------------------------------------------
(* What the shapes say of the rows and columns of one frame. *)
LEMMA TopRow ==
  ASSUME NEW f, LargeFrame(f), NEW q, q = topBlockSize(f), NEW c, c = TopCorner(f)
  PROVE  /\ q \in Nat /\ q >= 2 /\ q * LEDSTOP \in Nat /\ LEDSTOP * q = q * LEDSTOP
         /\ q * LEDSTOP >= 2 /\ c \in Nat /\ c >= q
         /\ 2 * c <= f.Width - q * LEDSTOP /\ f.Width - q * LEDSTOP <= 2 * c + 1
         /\ f.Width - c - q * LEDSTOP >= q
<1>1. /\ f.Width \in Nat /\ f.Width < Word /\ f.Width >= 2 * (LEDSTOP + 2)
      /\ LEDSTOP \in Nat \ {0}
  BY LargeFrameFacts, Constants DEF ConstantsOK
<1>2. q = f.Width \div (LEDSTOP + 2) /\ c = U(f.Width - q * LEDSTOP) \div 2
  BY DEF topBlockSize, TopCorner
<1>3. QED
  BY <1>1, <1>2, Row

LEMMA BottomRow ==
  ASSUME NEW f, LargeFrame(f), NEW q, q = bottomBlockSize(f), NEW c, c = BottomCorner(f)
  PROVE  /\ q \in Nat /\ q >= 2 /\ q * LEDSBOTTOM \in Nat
         /\ LEDSBOTTOM * q = q * LEDSBOTTOM
         /\ q * LEDSBOTTOM >= 2 /\ c \in Nat /\ c >= q
         /\ 2 * c <= f.Width - q * LEDSBOTTOM /\ f.Width - q * LEDSBOTTOM <= 2 * c + 1
         /\ f.Width - c - q * LEDSBOTTOM >= q
<1>1. /\ f.Width \in Nat /\ f.Width < Word /\ f.Width >= 2 * (LEDSBOTTOM + 2)
      /\ LEDSBOTTOM \in Nat \ {0}
  BY LargeFrameFacts, Constants DEF ConstantsOK
<1>2. q = f.Width \div (LEDSBOTTOM + 2) /\ c = U(f.Width - q * LEDSBOTTOM) \div 2
  BY DEF bottomBlockSize, BottomCorner
<1>3. QED
  BY <1>1, <1>2, Row

LEMMA TopShape ==
  ASSUME NEW f, LargeFrame(f), NEW i \in 0..LEDSTOP-1, NEW b, b = TopBlock(f, i)
  PROVE  /\ b.X = f.X + TopCorner(f) + topBlockSize(f) * i
         /\ topBlockSize(f) * i \in Nat
         /\ b.Y = f.Y /\ b.Width = topBlockSize(f) /\ b.Height = EDGEDEPTH
         /\ topBlockSize(f) * i + topBlockSize(f) <= topBlockSize(f) * LEDSTOP
<1> DEFINE q == topBlockSize(f)
<1>1. q * i \in Nat /\ q * i + q <= q * LEDSTOP
  BY TopRow, Distribute, Constants DEF ConstantsOK
<1>2. U(f.X + TopCorner(f) + q * i) = f.X + TopCorner(f) + q * i
  <2>1. f.X + TopCorner(f) + q * i \in Nat /\ f.X + TopCorner(f) + q * i < Word
    BY <1>1, TopRow, LargeFrameFacts, Constants DEF ConstantsOK
  <2>2. QED
    BY <2>1, Wrap
<1>3. QED
  BY <1>1, <1>2 DEF TopBlock

LEMMA BottomShape ==
  ASSUME NEW f, LargeFrame(f), NEW i \in 0..LEDSBOTTOM-1, NEW b, b = BottomBlock(f, i)
  PROVE  /\ b.X = f.X + BottomCorner(f) + bottomBlockSize(f) * i
         /\ bottomBlockSize(f) * i \in Nat
         /\ b.Y = f.Y + f.Height - EDGEDEPTH
         /\ b.Width = bottomBlockSize(f) /\ b.Height = EDGEDEPTH
         /\ bottomBlockSize(f) * i + bottomBlockSize(f) <= bottomBlockSize(f) * LEDSBOTTOM
<1> DEFINE q == bottomBlockSize(f)
<1>1. q * i \in Nat /\ q * i + q <= q * LEDSBOTTOM
  BY BottomRow, Distribute, Constants DEF ConstantsOK
<1>2. U(f.X + BottomCorner(f) + q * i) = f.X + BottomCorner(f) + q * i
  <2>1. f.X + BottomCorner(f) + q * i \in Nat /\ f.X + BottomCorner(f) + q * i < Word
    BY <1>1, BottomRow, LargeFrameFacts, Constants DEF ConstantsOK
  <2>2. QED
    BY <2>1, Wrap
<1>3. U(f.Y + f.Height - EDGEDEPTH) = f.Y + f.Height - EDGEDEPTH
  BY Wrap, LargeFrameFacts, Constants DEF ConstantsOK
<1>4. QED
  BY <1>1, <1>2, <1>3 DEF BottomBlock

LEMMA LeftColumn ==
  ASSUME NEW f, LargeFrame(f), NEW s, s = leftBlockSize(f),
         NEW first, first = FirstHeight(f, s, LEDSLEFT)
  PROVE  /\ s \in Nat /\ s >= EDGEDEPTH /\ s * (LEDSLEFT - 2) \in Nat
         /\ first \in Nat /\ first >= s
         /\ LastHeight(f, s, LEDSLEFT, first) = f.Height - s * (LEDSLEFT - 2) - first
         /\ f.Height - s * (LEDSLEFT - 2) - first >= s
<1>1. /\ f.Height \in Nat /\ f.Height < Word /\ f.Height >= EDGEDEPTH * LEDSLEFT
      /\ LEDSLEFT \in Nat /\ LEDSLEFT > 1
  BY LargeFrameFacts, Constants DEF ConstantsOK
<1>2. QED
  BY <1>1, Column DEF leftBlockSize

LEMMA RightColumn ==
  ASSUME NEW f, LargeFrame(f), NEW s, s = rightBlockSize(f),
         NEW first, first = FirstHeight(f, s, LEDSRIGHT)
  PROVE  /\ s \in Nat /\ s >= EDGEDEPTH /\ s * (LEDSRIGHT - 2) \in Nat
         /\ first \in Nat /\ first >= s
         /\ LastHeight(f, s, LEDSRIGHT, first) = f.Height - s * (LEDSRIGHT - 2) - first
         /\ f.Height - s * (LEDSRIGHT - 2) - first >= s
<1>1. /\ f.Height \in Nat /\ f.Height < Word /\ f.Height >= EDGEDEPTH * LEDSRIGHT
      /\ LEDSRIGHT \in Nat /\ LEDSRIGHT > 1
  BY LargeFrameFacts, Constants DEF ConstantsOK
<1>2. QED
  BY <1>1, Column DEF rightBlockSize

(* The vertical extent of block i of a side of n blocks: the first starts  *)
(* at the top, the last ends at the bottom, each starts where the one      *)
(* before ends, and every one but the first (last) leaves EDGEDEPTH rows   *)
(* above (below) it.                                                       *)
SideShape(f, n, i, y, height, s, first) ==
  /\ y \in Nat /\ height \in Nat /\ height >= EDGEDEPTH
  /\ i = 0 => y = f.Y /\ height = first
  /\ (i > 0 /\ i < n - 1) => y = f.Y + first + s * (i - 1) /\ height = s
  /\ i = n - 1 => y + height = f.Y + f.Height
  /\ i > 0 => y = f.Y + first + s * (i - 1) /\ y >= f.Y + EDGEDEPTH
  /\ i < n - 1 => y + height <= f.Y + f.Height - EDGEDEPTH

LEMMA Side ==
  ASSUME NEW f, LargeFrame(f), NEW n \in Nat, n > 1, NEW i \in 0..n-1,
         NEW s \in Nat, s >= EDGEDEPTH, s * (n - 2) \in Nat,
         NEW first \in Nat, first >= s,
         LastHeight(f, s, n, first) = f.Height - s * (n - 2) - first,
         f.Height - s * (n - 2) - first >= s
  PROVE  SideShape(f, n, i, SideY(f, s, first, i), SideHeight(f, s, n, first, i), s, first)
<1> USE LargeFrameFacts, Constants DEF ConstantsOK
<1>1. CASE i = 0
  BY <1>1 DEF SideShape, SideY, SideHeight
<1>2. CASE i > 0
  <2>1. i - 1 \in Nat /\ s * (i - 1) \in Nat /\ s * (i - 1) <= s * (n - 2)
    BY <1>2
  <2>2. i < n - 1 => s * (i - 1) + s <= s * (n - 2)
    BY <1>2, Ordered
  <2>3. U(f.Y + first + s * (i - 1)) = f.Y + first + s * (i - 1)
    <3>1. f.Y + first + s * (i - 1) \in Nat /\ f.Y + first + s * (i - 1) < Word
      BY <2>1
    <3>2. QED
      BY <3>1, Wrap
  <2>4. SideY(f, s, first, i) = f.Y + first + s * (i - 1)
    BY <1>2, <2>3 DEF SideY
  <2>5. CASE i = n - 1
    <3>1. i - 1 = n - 2
      BY <2>5
    <3>2. SideHeight(f, s, n, first, i) = f.Height - s * (n - 2) - first
      BY <1>2, <2>5 DEF SideHeight
    <3>3. QED
      BY <1>2, <2>1, <2>4, <2>5, <3>1, <3>2 DEF SideShape
  <2>6. CASE i < n - 1
    <3>1. SideHeight(f, s, n, first, i) = s
      BY <1>2, <2>6 DEF SideHeight
    <3>2. QED
      BY <1>2, <2>1, <2>2, <2>4, <2>6, <3>1 DEF SideShape
  <2>7. QED
    BY <2>5, <2>6
<1>3. QED
  BY <1>1, <1>2

LEMMA LeftShape ==
  ASSUME NEW f, LargeFrame(f), NEW i \in 0..LEDSLEFT-1, NEW b, b = LeftBlock(f, i)
  PROVE  /\ b.X = f.X
         /\ SideShape(f, LEDSLEFT, i, b.Y, b.Height, leftBlockSize(f),
                      FirstHeight(f, leftBlockSize(f), LEDSLEFT))
         /\ b.Width = IF i = 0 THEN TopCorner(f)
                      ELSE IF i = LEDSLEFT - 1 THEN BottomCorner(f) ELSE EDGEDEPTH
<1>1. LEDSLEFT \in Nat /\ LEDSLEFT > 1
  BY Constants DEF ConstantsOK
<1>2. QED
  BY <1>1, LeftColumn, Side DEF LeftBlock

(* The left edge main has calculated before the right one. *)
LeftEdgeOf(f) == [i \in 0..LEDSLEFT-1 |-> LeftBlock(f, i)]

LEMMA LeftCorners ==
  /\ \A f : LargeFrame(f) => LeftEdgeOf(f)[0].Width = TopCorner(f)
  /\ \A f : LargeFrame(f) => LeftEdgeOf(f)[LEDSLEFT-1].Width = BottomCorner(f)
<1>1. 0 \in 0..LEDSLEFT-1 /\ LEDSLEFT-1 \in 0..LEDSLEFT-1 /\ LEDSLEFT-1 # 0
  BY Constants DEF ConstantsOK
<1>2. QED
  BY <1>1 DEF LeftEdgeOf, LeftBlock

LEMMA RightShape ==
  ASSUME NEW f, LargeFrame(f), NEW i \in 0..LEDSRIGHT-1,
         NEW b, b = RightBlock(f, LeftEdgeOf(f), i)
  PROVE  /\ b.X = IF i = 0 THEN f.X + TopCorner(f) + topBlockSize(f) * LEDSTOP
                  ELSE IF i = LEDSRIGHT - 1
                    THEN f.X + BottomCorner(f) + bottomBlockSize(f) * LEDSBOTTOM
                  ELSE f.X + f.Width - EDGEDEPTH
         /\ SideShape(f, LEDSRIGHT, i, b.Y, b.Height, rightBlockSize(f),
                      FirstHeight(f, rightBlockSize(f), LEDSRIGHT))
         /\ b.X + b.Width = f.X + f.Width
         /\ b.Width \in Nat /\ b.Width >= 2
<1> DEFINE t == topBlockSize(f)
           u == bottomBlockSize(f)
           ct == TopCorner(f)
           cb == BottomCorner(f)
<1>0. LEDSRIGHT \in Nat /\ LEDSRIGHT > 1 /\ EDGEDEPTH \in Nat /\ EDGEDEPTH > 1
      /\ Word \in Nat
  BY Constants DEF ConstantsOK
<1>1. /\ b.X = RightX(f, LeftEdgeOf(f), i) /\ b.Width = RightWidth(f, LeftEdgeOf(f), i)
      /\ SideShape(f, LEDSRIGHT, i, b.Y, b.Height, rightBlockSize(f),
                   FirstHeight(f, rightBlockSize(f), LEDSRIGHT))
  BY <1>0, RightColumn, Side DEF RightBlock
<1>2. CASE i = 0
  <2>1. /\ t * LEDSTOP \in Nat /\ LEDSTOP * t = t * LEDSTOP /\ ct \in Nat
        /\ f.Width - ct - t * LEDSTOP >= 2
    BY TopRow, LargeFrameFacts
  <2>2. /\ f.X + ct + t * LEDSTOP \in Nat /\ f.X + ct + t * LEDSTOP < Word
        /\ f.Width - ct - t * LEDSTOP \in Nat /\ f.Width - ct - t * LEDSTOP < Word
    BY <1>0, <2>1, LargeFrameFacts
  <2>3. b.X = f.X + ct + t * LEDSTOP /\ b.Width = f.Width - ct - t * LEDSTOP
    BY <1>1, <1>2, <2>1, <2>2, Wrap, LeftCorners DEF RightX, RightWidth
  <2>4. QED
    BY <1>1, <1>2, <2>1, <2>2, <2>3, LargeFrameFacts
<1>3. CASE i # 0 /\ i = LEDSRIGHT - 1
  <2>1. /\ u * LEDSBOTTOM \in Nat /\ LEDSBOTTOM * u = u * LEDSBOTTOM /\ cb \in Nat
        /\ f.Width - cb - u * LEDSBOTTOM >= 2
    BY BottomRow, LargeFrameFacts
  <2>2. /\ f.X + cb + u * LEDSBOTTOM \in Nat /\ f.X + cb + u * LEDSBOTTOM < Word
        /\ f.Width - cb - u * LEDSBOTTOM \in Nat /\ f.Width - cb - u * LEDSBOTTOM < Word
    BY <1>0, <2>1, LargeFrameFacts
  <2>3. b.X = f.X + cb + u * LEDSBOTTOM /\ b.Width = f.Width - cb - u * LEDSBOTTOM
    BY <1>1, <1>3, <2>1, <2>2, Wrap, LeftCorners DEF RightX, RightWidth
  <2>4. QED
    BY <1>1, <1>3, <2>1, <2>2, <2>3, LargeFrameFacts
<1>4. CASE i # 0 /\ i # LEDSRIGHT - 1
  <2>1. /\ f.X + f.Width - EDGEDEPTH \in Nat /\ f.X + f.Width - EDGEDEPTH < Word
    BY <1>0, LargeFrameFacts
  <2>2. b.X = f.X + f.Width - EDGEDEPTH /\ b.Width = EDGEDEPTH
    BY <1>1, <1>4, <2>1, Wrap DEF RightX, RightWidth
  <2>3. QED
    BY <1>0, <1>1, <1>4, <2>2, LargeFrameFacts
<1>5. QED
  BY <1>2, <1>3, <1>4

-----------------------------------------------------------------------------
(* The conclusion of BlocksInFrame for one block. *)
Within(f, b) ==
  /\ b.Width > 0 /\ b.Height > 0
  /\ f.X <= b.X /\ b.X + b.Width <= f.X + f.Width
  /\ f.Y <= b.Y /\ b.Y + b.Height <= f.Y + f.Height
  /\ FilledPixels(b) \subseteq OwnPixels(b)

LEMMA FillInside ==
  ASSUME NEW b, b.X \in Nat, b.Y \in Nat, b.Width \in Nat, b.Height \in Nat,
         b.Width >= 2, b.Height >= 2, b.Width < Word, b.Height < Word
  PROVE  FilledPixels(b) \subseteq OwnPixels(b)
<1>1. U(b.Width - 2) = b.Width - 2 /\ U(b.Height - 2) = b.Height - 2
  BY Wrap, Constants DEF ConstantsOK
<1>2. QED
  BY <1>1 DEF FilledPixels, OwnPixels

LEMMA TopWithin ==
  ASSUME NEW f, LargeFrame(f), NEW i \in 0..LEDSTOP-1
  PROVE  Within(f, TopBlock(f, i))
<1> DEFINE b == TopBlock(f, i)
<1> HIDE DEF b
<1>1. /\ b.X \in Nat /\ b.Y \in Nat /\ b.Width \in Nat /\ b.Height \in Nat
      /\ b.Width >= 2 /\ b.Height >= 2
      /\ f.X <= b.X /\ b.X + b.Width <= f.X + f.Width
      /\ f.Y <= b.Y /\ b.Y + b.Height <= f.Y + f.Height
  <2>1. /\ b.X = f.X + TopCorner(f) + topBlockSize(f) * i /\ topBlockSize(f) * i \in Nat
        /\ b.Y = f.Y /\ b.Width = topBlockSize(f) /\ b.Height = EDGEDEPTH
        /\ topBlockSize(f) * i + topBlockSize(f) <= topBlockSize(f) * LEDSTOP
    BY TopShape DEF b
  <2>2. /\ topBlockSize(f) \in Nat /\ topBlockSize(f) >= 2 /\ topBlockSize(f) * LEDSTOP \in Nat
        /\ TopCorner(f) \in Nat /\ f.Width - TopCorner(f) - topBlockSize(f) * LEDSTOP >= topBlockSize(f)
    BY TopRow
  <2>3. QED
    BY <2>1, <2>2, LargeFrameFacts, Constants DEF ConstantsOK
<1>2. b.Width < Word /\ b.Height < Word
  BY <1>1, LargeFrameFacts, Constants DEF ConstantsOK
<1>3. QED
  BY <1>1, <1>2, FillInside DEF Within, b

LEMMA BottomWithin ==
  ASSUME NEW f, LargeFrame(f), NEW i \in 0..LEDSBOTTOM-1
  PROVE  Within(f, BottomBlock(f, i))
<1> DEFINE b == BottomBlock(f, i)
<1> HIDE DEF b
<1>1. /\ b.X \in Nat /\ b.Y \in Nat /\ b.Width \in Nat /\ b.Height \in Nat
      /\ b.Width >= 2 /\ b.Height >= 2
      /\ f.X <= b.X /\ b.X + b.Width <= f.X + f.Width
      /\ f.Y <= b.Y /\ b.Y + b.Height <= f.Y + f.Height
  <2>1. /\ b.X = f.X + BottomCorner(f) + bottomBlockSize(f) * i /\ bottomBlockSize(f) * i \in Nat
        /\ b.Y = f.Y + f.Height - EDGEDEPTH /\ b.Width = bottomBlockSize(f) /\ b.Height = EDGEDEPTH
        /\ bottomBlockSize(f) * i + bottomBlockSize(f) <= bottomBlockSize(f) * LEDSBOTTOM
    BY BottomShape DEF b
  <2>2. /\ bottomBlockSize(f) \in Nat /\ bottomBlockSize(f) >= 2 /\ bottomBlockSize(f) * LEDSBOTTOM \in Nat
        /\ BottomCorner(f) \in Nat /\ f.Width - BottomCorner(f) - bottomBlockSize(f) * LEDSBOTTOM >= bottomBlockSize(f)
    BY BottomRow
  <2>3. QED
    BY <2>1, <2>2, LargeFrameFacts, Constants DEF ConstantsOK
<1>2. b.Width < Word /\ b.Height < Word
  BY <1>1, LargeFrameFacts, Constants DEF ConstantsOK
<1>3. QED
  BY <1>1, <1>2, FillInside DEF Within, b

LEMMA SideWithin ==
  ASSUME NEW f, LargeFrame(f), NEW n \in Nat, n > 1, NEW i \in 0..n-1,
         NEW y, NEW h, NEW s, NEW first, SideShape(f, n, i, y, h, s, first)
  PROVE  y \in Nat /\ h \in Nat /\ f.Y <= y /\ y + h <= f.Y + f.Height /\ h >= 2
BY LargeFrameFacts, Constants DEF ConstantsOK, SideShape

LEMMA LeftWithin ==
  ASSUME NEW f, LargeFrame(f), NEW i \in 0..LEDSLEFT-1
  PROVE  Within(f, LeftBlock(f, i))
<1> DEFINE b == LeftBlock(f, i)
<1> HIDE DEF b
<1>1. /\ b.X = f.X /\ b.Width \in Nat /\ b.Width >= 2 /\ b.Width <= f.Width
  <2>1. /\ b.X = f.X
        /\ b.Width = IF i = 0 THEN TopCorner(f)
                     ELSE IF i = LEDSLEFT - 1 THEN BottomCorner(f) ELSE EDGEDEPTH
    BY LeftShape DEF b
  <2>2. TopCorner(f) \in Nat /\ TopCorner(f) >= 2 /\ TopCorner(f) <= f.Width
    BY TopRow, LargeFrameFacts
  <2>3. BottomCorner(f) \in Nat /\ BottomCorner(f) >= 2 /\ BottomCorner(f) <= f.Width
    BY BottomRow, LargeFrameFacts
  <2>4. QED
    BY <2>1, <2>2, <2>3, LargeFrameFacts, Constants DEF ConstantsOK
<1>2. /\ b.Y \in Nat /\ b.Height \in Nat /\ b.Height >= 2
      /\ f.Y <= b.Y /\ b.Y + b.Height <= f.Y + f.Height
  <2>1. SideShape(f, LEDSLEFT, i, b.Y, b.Height, leftBlockSize(f),
                  FirstHeight(f, leftBlockSize(f), LEDSLEFT))
    BY LeftShape DEF b
  <2>2. LEDSLEFT \in Nat /\ LEDSLEFT > 1
    BY Constants DEF ConstantsOK
  <2>3. QED
    BY <2>1, <2>2, SideWithin
<1>3. b.X \in Nat /\ b.X + b.Width <= f.X + f.Width
      /\ b.Width < Word /\ b.Height < Word
  BY <1>1, <1>2, LargeFrameFacts, Constants DEF ConstantsOK
<1>4. QED
  BY <1>1, <1>2, <1>3, FillInside, LargeFrameFacts DEF Within, b

LEMMA RightWithin ==
  ASSUME NEW f, LargeFrame(f), NEW i \in 0..LEDSRIGHT-1
  PROVE  Within(f, RightBlock(f, LeftEdgeOf(f), i))
<1> DEFINE b == RightBlock(f, LeftEdgeOf(f), i)
<1> HIDE DEF b
<1>1. /\ b.X \in Nat /\ f.X <= b.X /\ b.X + b.Width = f.X + f.Width
      /\ b.Width \in Nat /\ b.Width >= 2
  <2>1. /\ b.X = IF i = 0 THEN f.X + TopCorner(f) + topBlockSize(f) * LEDSTOP
                  ELSE IF i = LEDSRIGHT - 1
                    THEN f.X + BottomCorner(f) + bottomBlockSize(f) * LEDSBOTTOM
                  ELSE f.X + f.Width - EDGEDEPTH
        /\ b.X + b.Width = f.X + f.Width /\ b.Width \in Nat /\ b.Width >= 2
    BY RightShape DEF b
  <2>2. TopCorner(f) \in Nat /\ topBlockSize(f) * LEDSTOP \in Nat
    BY TopRow
  <2>3. BottomCorner(f) \in Nat /\ bottomBlockSize(f) * LEDSBOTTOM \in Nat
    BY BottomRow
  <2>4. QED
    BY <2>1, <2>2, <2>3, LargeFrameFacts, Constants DEF ConstantsOK
<1>2. /\ b.Y \in Nat /\ b.Height \in Nat /\ b.Height >= 2
      /\ f.Y <= b.Y /\ b.Y + b.Height <= f.Y + f.Height
  <2>1. SideShape(f, LEDSRIGHT, i, b.Y, b.Height, rightBlockSize(f),
                  FirstHeight(f, rightBlockSize(f), LEDSRIGHT))
    BY RightShape DEF b
  <2>2. LEDSRIGHT \in Nat /\ LEDSRIGHT > 1
    BY Constants DEF ConstantsOK
  <2>3. QED
    BY <2>1, <2>2, SideWithin
<1>3. b.Width < Word /\ b.Height < Word
  BY <1>1, <1>2, LargeFrameFacts, Constants DEF ConstantsOK
<1>4. QED
  BY <1>1, <1>2, <1>3, FillInside, LargeFrameFacts DEF Within, b

-----------------------------------------------------------------------------
(* Two blocks of one row, or of one column, do not overlap. *)
LEMMA TopsDisjoint ==
  ASSUME NEW f, LargeFrame(f), NEW i \in 0..LEDSTOP-1, NEW k \in 0..LEDSTOP-1, i # k
  PROVE  ~Overlap(TopBlock(f, i), TopBlock(f, k))
<1> DEFINE q == topBlockSize(f)
           b == TopBlock(f, i)
           c == TopBlock(f, k)
<1>1. /\ b.X = f.X + TopCorner(f) + q * i /\ b.Width = q /\ q * i \in Nat
      /\ c.X = f.X + TopCorner(f) + q * k /\ c.Width = q /\ q * k \in Nat
  BY TopShape
<1>2. f.X \in Nat /\ TopCorner(f) \in Nat /\ q \in Nat
  BY TopRow, LargeFrameFacts
<1>3. (i < k => q * i + q <= q * k) /\ (k < i => q * k + q <= q * i)
  BY <1>2, Ordered
<1>4. i < k \/ k < i
  OBVIOUS
<1> HIDE DEF b, c, q
<1>5. ~Overlap(b, c)
  BY <1>1, <1>2, <1>3, <1>4 DEF Overlap
<1>6. QED
  BY <1>5 DEF b, c

LEMMA BottomsDisjoint ==
  ASSUME NEW f, LargeFrame(f), NEW i \in 0..LEDSBOTTOM-1, NEW k \in 0..LEDSBOTTOM-1,
         i # k
  PROVE  ~Overlap(BottomBlock(f, i), BottomBlock(f, k))
<1> DEFINE q == bottomBlockSize(f)
           b == BottomBlock(f, i)
           c == BottomBlock(f, k)
<1>1. /\ b.X = f.X + BottomCorner(f) + q * i /\ b.Width = q /\ q * i \in Nat
      /\ c.X = f.X + BottomCorner(f) + q * k /\ c.Width = q /\ q * k \in Nat
  BY BottomShape
<1>2. f.X \in Nat /\ BottomCorner(f) \in Nat /\ q \in Nat
  BY BottomRow, LargeFrameFacts
<1>3. (i < k => q * i + q <= q * k) /\ (k < i => q * k + q <= q * i)
  BY <1>2, Ordered
<1>4. i < k \/ k < i
  OBVIOUS
<1> HIDE DEF b, c, q
<1>5. ~Overlap(b, c)
  BY <1>1, <1>2, <1>3, <1>4 DEF Overlap
<1>6. QED
  BY <1>5 DEF b, c

LEMMA SideOrdered ==
  ASSUME NEW f, LargeFrame(f), NEW n \in Nat, n > 1,
         NEW i \in 0..n-1, NEW k \in 0..n-1, i < k,
         NEW s \in Nat, NEW first \in Nat, NEW y, NEW h, NEW z, NEW g,
         SideShape(f, n, i, y, h, s, first), SideShape(f, n, k, z, g, s, first)
  PROVE  y + h <= z
<1>1. z = f.Y + first + s * (k - 1) /\ k - 1 \in Nat /\ s * (k - 1) \in Nat
  BY DEF SideShape
<1>2. f.Y \in Nat
  BY LargeFrameFacts
<1>3. CASE i = 0
  BY <1>1, <1>2, <1>3 DEF SideShape
<1>4. CASE i > 0
  <2>1. y = f.Y + first + s * (i - 1) /\ h = s /\ i - 1 \in Nat /\ s * (i - 1) \in Nat
    BY <1>4 DEF SideShape
  <2>2. s * (i - 1) + s <= s * (k - 1)
    BY <1>1, <2>1, Ordered
  <2>3. QED
    BY <1>1, <1>2, <2>1, <2>2
<1>5. QED
  BY <1>3, <1>4

LEMMA SidesDisjoint ==
  ASSUME NEW f, LargeFrame(f), NEW n \in Nat, n > 1,
         NEW i \in 0..n-1, NEW k \in 0..n-1, i # k,
         NEW s \in Nat, NEW first \in Nat, NEW b, NEW c,
         SideShape(f, n, i, b.Y, b.Height, s, first),
         SideShape(f, n, k, c.Y, c.Height, s, first)
  PROVE  ~Overlap(b, c)
<1>1. b.Y \in Nat /\ b.Height \in Nat /\ c.Y \in Nat /\ c.Height \in Nat
  BY DEF SideShape
<1>2. CASE i < k
  <2>1. b.Y + b.Height <= c.Y
    BY <1>2, SideOrdered
  <2>2. QED
    BY <1>1, <2>1 DEF Overlap
<1>3. CASE k < i
  <2>1. c.Y + c.Height <= b.Y
    BY <1>3, SideOrdered
  <2>2. QED
    BY <1>1, <2>1 DEF Overlap
<1>4. QED
  BY <1>2, <1>3

LEMMA LeftsDisjoint ==
  ASSUME NEW f, LargeFrame(f), NEW i \in 0..LEDSLEFT-1, NEW k \in 0..LEDSLEFT-1, i # k
  PROVE  ~Overlap(LeftBlock(f, i), LeftBlock(f, k))
<1> DEFINE s == leftBlockSize(f)
           first == FirstHeight(f, s, LEDSLEFT)
<1>1. s \in Nat /\ first \in Nat /\ LEDSLEFT \in Nat /\ LEDSLEFT > 1
  BY LeftColumn, Constants DEF ConstantsOK
<1>2. \A j \in 0..LEDSLEFT-1 :
        SideShape(f, LEDSLEFT, j, LeftBlock(f, j).Y, LeftBlock(f, j).Height, s, first)
  BY LeftShape
<1>3. QED
  BY <1>1, <1>2, SidesDisjoint

LEMMA RightsDisjoint ==
  ASSUME NEW f, LargeFrame(f), NEW i \in 0..LEDSRIGHT-1, NEW k \in 0..LEDSRIGHT-1, i # k
  PROVE  ~Overlap(RightBlock(f, LeftEdgeOf(f), i), RightBlock(f, LeftEdgeOf(f), k))
<1> DEFINE s == rightBlockSize(f)
           first == FirstHeight(f, s, LEDSRIGHT)
           R(j) == RightBlock(f, LeftEdgeOf(f), j)
<1>1. s \in Nat /\ first \in Nat /\ LEDSRIGHT \in Nat /\ LEDSRIGHT > 1
  BY RightColumn, Constants DEF ConstantsOK
<1>2. \A j \in 0..LEDSRIGHT-1 :
        SideShape(f, LEDSRIGHT, j, R(j).Y, R(j).Height, s, first)
  BY RightShape
<1>3. QED
  BY <1>1, <1>2, SidesDisjoint

(* Blocks of different edges. *)
LEMMA TopBottomDisjoint ==
  ASSUME NEW f, LargeFrame(f), NEW i \in 0..LEDSTOP-1, NEW k \in 0..LEDSBOTTOM-1
  PROVE  ~Overlap(TopBlock(f, i), BottomBlock(f, k))
<1> DEFINE b == TopBlock(f, i)
           c == BottomBlock(f, k)
<1>1. /\ b.Y = f.Y /\ b.Height = EDGEDEPTH
      /\ c.Y = f.Y + f.Height - EDGEDEPTH /\ c.Height = EDGEDEPTH
  BY TopShape, BottomShape
<1> HIDE DEF b, c
<1>2. ~Overlap(b, c)
  BY <1>1, LargeFrameFacts, Constants DEF ConstantsOK, Overlap
<1>3. QED
  BY <1>2 DEF b, c

(* A block of a side against one of a row: left or right of it for the     *)
(* corner they share, else below (above) it.                               *)
Beside(b, c) == b.X + b.Width <= c.X \/ c.X + c.Width <= b.X

LEMMA BesideDisjoint ==
  ASSUME NEW b, NEW c, b.X \in Nat, b.Width \in Nat, c.X \in Nat, c.Width \in Nat,
         Beside(b, c)
  PROVE  ~Overlap(b, c) /\ ~Overlap(c, b)
BY DEF Beside, Overlap

LEMMA SideTopDisjoint ==
  ASSUME NEW f, LargeFrame(f), NEW n \in Nat, n > 1, NEW i \in 0..n-1,
         NEW k \in 0..LEDSTOP-1, NEW b, NEW s, NEW first,
         b.X \in Nat, b.Width \in Nat,
         SideShape(f, n, i, b.Y, b.Height, s, first),
         i = 0 => Beside(b, TopBlock(f, k))
  PROVE  ~Overlap(b, TopBlock(f, k)) /\ ~Overlap(TopBlock(f, k), b)
<1> DEFINE c == TopBlock(f, k)
<1>1. /\ c.X \in Nat /\ c.Width \in Nat /\ c.Y = f.Y /\ c.Height = EDGEDEPTH
  BY TopShape, TopRow, LargeFrameFacts
<1>2. CASE i = 0
  BY <1>1, <1>2, BesideDisjoint
<1>3. CASE i > 0
  <2>1. b.Y \in Nat /\ b.Height \in Nat /\ b.Y >= f.Y + EDGEDEPTH
    BY <1>3 DEF SideShape
  <2> HIDE DEF c
  <2>2. ~Overlap(b, c) /\ ~Overlap(c, b)
    BY <1>1, <2>1, LargeFrameFacts, Constants DEF ConstantsOK, Overlap
  <2>3. QED
    BY <2>2 DEF c
<1>4. QED
  BY <1>2, <1>3

LEMMA SideBottomDisjoint ==
  ASSUME NEW f, LargeFrame(f), NEW n \in Nat, n > 1, NEW i \in 0..n-1,
         NEW k \in 0..LEDSBOTTOM-1, NEW b, NEW s, NEW first,
         b.X \in Nat, b.Width \in Nat,
         SideShape(f, n, i, b.Y, b.Height, s, first),
         i = n - 1 => Beside(b, BottomBlock(f, k))
  PROVE  ~Overlap(b, BottomBlock(f, k)) /\ ~Overlap(BottomBlock(f, k), b)
<1> DEFINE c == BottomBlock(f, k)
<1>1. /\ c.X \in Nat /\ c.Width \in Nat
      /\ c.Y = f.Y + f.Height - EDGEDEPTH /\ c.Height = EDGEDEPTH
  BY BottomShape, BottomRow, LargeFrameFacts
<1>2. CASE i = n - 1
  BY <1>1, <1>2, BesideDisjoint
<1>3. CASE i < n - 1
  <2>1. b.Y \in Nat /\ b.Height \in Nat /\ b.Y + b.Height <= f.Y + f.Height - EDGEDEPTH
    BY <1>3 DEF SideShape
  <2> HIDE DEF c
  <2>2. ~Overlap(b, c) /\ ~Overlap(c, b)
    BY <1>1, <2>1, LargeFrameFacts, Constants DEF ConstantsOK, Overlap
  <2>3. QED
    BY <2>2 DEF c
<1>4. QED
  BY <1>2, <1>3

LEMMA LeftRowsDisjoint ==
  ASSUME NEW f, LargeFrame(f), NEW i \in 0..LEDSLEFT-1
  PROVE  /\ \A k \in 0..LEDSTOP-1 : /\ ~Overlap(LeftBlock(f, i), TopBlock(f, k))
                                    /\ ~Overlap(TopBlock(f, k), LeftBlock(f, i))
         /\ \A k \in 0..LEDSBOTTOM-1 : /\ ~Overlap(LeftBlock(f, i), BottomBlock(f, k))
                                       /\ ~Overlap(BottomBlock(f, k), LeftBlock(f, i))
<1> DEFINE b == LeftBlock(f, i)
           s == leftBlockSize(f)
           first == FirstHeight(f, s, LEDSLEFT)
<1>0. LEDSLEFT \in Nat /\ LEDSLEFT > 1 /\ f.X \in Nat
      /\ TopCorner(f) \in Nat /\ BottomCorner(f) \in Nat /\ EDGEDEPTH \in Nat
  BY TopRow, BottomRow, LargeFrameFacts, Constants DEF ConstantsOK
<1>1. /\ b.X = f.X /\ SideShape(f, LEDSLEFT, i, b.Y, b.Height, s, first)
      /\ b.Width = IF i = 0 THEN TopCorner(f)
                   ELSE IF i = LEDSLEFT - 1 THEN BottomCorner(f) ELSE EDGEDEPTH
  BY LeftShape
<1>2. b.X \in Nat /\ b.Width \in Nat
  BY <1>0, <1>1
<1>3. ASSUME NEW k \in 0..LEDSTOP-1, i = 0 PROVE Beside(b, TopBlock(f, k))
  <2>1. /\ TopBlock(f, k).X = f.X + TopCorner(f) + topBlockSize(f) * k
        /\ topBlockSize(f) * k \in Nat
    BY TopShape
  <2>2. QED
    BY <1>0, <1>1, <1>3, <2>1 DEF Beside
<1>4. ASSUME NEW k \in 0..LEDSBOTTOM-1, i = LEDSLEFT - 1
      PROVE  Beside(b, BottomBlock(f, k))
  <2>1. /\ BottomBlock(f, k).X = f.X + BottomCorner(f) + bottomBlockSize(f) * k
        /\ bottomBlockSize(f) * k \in Nat
    BY BottomShape
  <2>2. QED
    BY <1>0, <1>1, <1>4, <2>1 DEF Beside
<1> HIDE DEF b, s, first
<1>5. \A k \in 0..LEDSTOP-1 : ~Overlap(b, TopBlock(f, k)) /\ ~Overlap(TopBlock(f, k), b)
  BY <1>0, <1>1, <1>2, <1>3, SideTopDisjoint
<1>6. \A k \in 0..LEDSBOTTOM-1 :
        ~Overlap(b, BottomBlock(f, k)) /\ ~Overlap(BottomBlock(f, k), b)
  BY <1>0, <1>1, <1>2, <1>4, SideBottomDisjoint
<1>7. QED
  BY <1>5, <1>6 DEF b

LEMMA RightRowsDisjoint ==
  ASSUME NEW f, LargeFrame(f), NEW i \in 0..LEDSRIGHT-1,
         NEW b, b = RightBlock(f, LeftEdgeOf(f), i)
  PROVE  /\ \A k \in 0..LEDSTOP-1 : /\ ~Overlap(b, TopBlock(f, k))
                                    /\ ~Overlap(TopBlock(f, k), b)
         /\ \A k \in 0..LEDSBOTTOM-1 : /\ ~Overlap(b, BottomBlock(f, k))
                                       /\ ~Overlap(BottomBlock(f, k), b)
<1> DEFINE s == rightBlockSize(f)
           first == FirstHeight(f, s, LEDSRIGHT)
           t == topBlockSize(f)
           u == bottomBlockSize(f)
<1>0. LEDSRIGHT \in Nat /\ LEDSRIGHT > 1 /\ f.X \in Nat /\ t \in Nat /\ u \in Nat
      /\ TopCorner(f) \in Nat /\ BottomCorner(f) \in Nat /\ EDGEDEPTH \in Nat
      /\ t * LEDSTOP \in Nat /\ u * LEDSBOTTOM \in Nat
      /\ f.X + f.Width - EDGEDEPTH \in Nat
  BY TopRow, BottomRow, LargeFrameFacts, Constants DEF ConstantsOK
<1>1. /\ b.X = IF i = 0 THEN f.X + TopCorner(f) + t * LEDSTOP
               ELSE IF i = LEDSRIGHT - 1 THEN f.X + BottomCorner(f) + u * LEDSBOTTOM
               ELSE f.X + f.Width - EDGEDEPTH
      /\ SideShape(f, LEDSRIGHT, i, b.Y, b.Height, s, first)
      /\ b.Width \in Nat
  BY RightShape
<1>2. b.X \in Nat
  BY <1>0, <1>1
<1>3. ASSUME NEW k \in 0..LEDSTOP-1, i = 0 PROVE Beside(b, TopBlock(f, k))
  <2>1. /\ TopBlock(f, k).X = f.X + TopCorner(f) + t * k /\ TopBlock(f, k).Width = t
        /\ t * k \in Nat /\ t * k + t <= t * LEDSTOP
    BY TopShape
  <2>2. QED
    BY <1>0, <1>1, <1>3, <2>1 DEF Beside
<1>4. ASSUME NEW k \in 0..LEDSBOTTOM-1, i = LEDSRIGHT - 1
      PROVE  Beside(b, BottomBlock(f, k))
  <2>1. /\ BottomBlock(f, k).X = f.X + BottomCorner(f) + u * k
        /\ BottomBlock(f, k).Width = u
        /\ u * k \in Nat /\ u * k + u <= u * LEDSBOTTOM
    BY BottomShape
  <2>2. b.X = f.X + BottomCorner(f) + u * LEDSBOTTOM
    BY <1>0, <1>1, <1>4
  <2>3. QED
    BY <1>0, <2>1, <2>2 DEF Beside
<1> HIDE DEF s, first, t, u
<1>5. \A k \in 0..LEDSTOP-1 : ~Overlap(b, TopBlock(f, k)) /\ ~Overlap(TopBlock(f, k), b)
  BY <1>0, <1>1, <1>2, <1>3, SideTopDisjoint
<1>6. \A k \in 0..LEDSBOTTOM-1 :
        ~Overlap(b, BottomBlock(f, k)) /\ ~Overlap(BottomBlock(f, k), b)
  BY <1>0, <1>1, <1>2, <1>4, SideBottomDisjoint
<1>7. QED
  BY <1>5, <1>6

(* The left blocks end in the left half of the frame, the right ones begin *)
(* in its right half.                                                      *)
LEMMA LeftRightDisjoint ==
  ASSUME NEW f, LargeFrame(f), NEW i \in 0..LEDSLEFT-1, NEW k \in 0..LEDSRIGHT-1
  PROVE  /\ ~Overlap(LeftBlock(f, i), RightBlock(f, LeftEdgeOf(f), k))
         /\ ~Overlap(RightBlock(f, LeftEdgeOf(f), k), LeftBlock(f, i))
<1> DEFINE b == LeftBlock(f, i)
           c == RightBlock(f, LeftEdgeOf(f), k)
<1>1. /\ b.X = f.X
      /\ b.Width = IF i = 0 THEN TopCorner(f)
                   ELSE IF i = LEDSLEFT - 1 THEN BottomCorner(f) ELSE EDGEDEPTH
  BY LeftShape
<1>2. /\ c.X = IF k = 0 THEN f.X + TopCorner(f) + topBlockSize(f) * LEDSTOP
               ELSE IF k = LEDSRIGHT - 1
                 THEN f.X + BottomCorner(f) + bottomBlockSize(f) * LEDSBOTTOM
               ELSE f.X + f.Width - EDGEDEPTH
      /\ c.Width \in Nat
  BY RightShape
<1>3. /\ TopCorner(f) \in Nat /\ topBlockSize(f) * LEDSTOP \in Nat
      /\ 2 * TopCorner(f) <= f.Width
      /\ f.Width <= 2 * (TopCorner(f) + topBlockSize(f) * LEDSTOP)
  BY TopRow, LargeFrameFacts
<1>4. /\ BottomCorner(f) \in Nat /\ bottomBlockSize(f) * LEDSBOTTOM \in Nat
      /\ 2 * BottomCorner(f) <= f.Width
      /\ f.Width <= 2 * (BottomCorner(f) + bottomBlockSize(f) * LEDSBOTTOM)
  BY BottomRow, LargeFrameFacts
<1> HIDE DEF b, c
<1>5. b.X \in Nat /\ b.Width \in Nat /\ 2 * b.Width <= f.Width
  BY <1>1, <1>3, <1>4, LargeFrameFacts, Constants DEF ConstantsOK
<1>6. c.X \in Nat /\ 2 * (c.X - f.X) >= f.Width
  BY <1>2, <1>3, <1>4, LargeFrameFacts, Constants DEF ConstantsOK
<1>7. Beside(b, c)
  BY <1>1, <1>5, <1>6, LargeFrameFacts DEF Beside
<1>8. ~Overlap(b, c) /\ ~Overlap(c, b)
  BY <1>2, <1>5, <1>6, <1>7, BesideDisjoint
<1>9. QED
  BY <1>8 DEF b, c

-----------------------------------------------------------------------------
(* The program as a whole.                                                 *)

CalculatedOK ==
  /\ pc \in {"left", "bottom", "right", "start", "running"} =>
       topEdge = [i \in 0..LEDSTOP-1 |-> TopBlock(inputframe, i)]
  /\ pc \in {"bottom", "right", "start", "running"} =>
       leftEdge = LeftEdgeOf(inputframe)
  /\ pc \in {"right", "start", "running"} =>
       bottomEdge = [i \in 0..LEDSBOTTOM-1 |-> BottomBlock(inputframe, i)]
  /\ pc \in {"start", "running"} =>
       rightEdge = [i \in 0..LEDSRIGHT-1 |->
                      RightBlock(inputframe, LeftEdgeOf(inputframe), i)]

(* The fields stored so far are those of the new frame, and after a whole  *)
(* save the program goes on with the frame that was saved.                 *)
SavedOK ==
  /\ pc = "save" => \A field \in Fields \ toSave : saved[field] = inputframe[field]
  /\ savedBy = "calibration" => saved = lastSaved
  /\ (savedBy = "calibration"
        /\ pc \in {"top", "left", "bottom", "right", "start", "running"})
       => inputframe = lastSaved

(* Where the loops of calibrate are in a picture that never changed: what  *)
(* they have passed is dark, and they stand on the lit points they found.  *)
LitPicture == changes = 0 /\ Lit(picture.column) # {} /\ Lit(picture.row) # {}

IsFirst(line, i) == i \in Lit(line) /\ \A k \in Lit(line) : i <= k
IsLast(line, i) == i \in Lit(line) /\ \A k \in Lit(line) : k <= i

ScanOK ==
  LitPicture =>
    /\ pc = "scanTop" => \A k \in Lit(picture.column) : atTop <= k
    /\ pc \in {"scanBottom", "scanLeft", "scanRight", "setFrame"}
         => IsFirst(picture.column, atTop)
    /\ pc \in {"scanTop", "scanBottom"}
         => atBottom \in Rows /\ \A k \in Lit(picture.column) : k <= atBottom
    /\ pc \in {"scanLeft", "scanRight", "setFrame"} => IsLast(picture.column, atBottom)
    /\ pc \in {"scanTop", "scanBottom", "scanLeft"}
         => \A k \in Lit(picture.row) : atLeft <= k
    /\ pc \in {"scanRight", "setFrame"} => IsFirst(picture.row, atLeft)
    /\ pc \in {"scanTop", "scanBottom", "scanLeft", "scanRight"}
         => atRight \in Columns /\ \A k \in Lit(picture.row) : k <= atRight
    /\ pc = "setFrame" => IsLast(picture.row, atRight)
    /\ pc = "save" =>
         \E t, b \in Rows, l, r \in Columns :
           /\ IsFirst(picture.column, t) /\ IsLast(picture.column, b)
           /\ IsFirst(picture.row, l) /\ IsLast(picture.row, r)
           /\ inputframe = [X |-> l, Y |-> t, Width |-> r - l + 1, Height |-> b - t + 1]

Inv == TypeOK /\ CalculatedOK /\ SavedOK /\ ScanOK

-----------------------------------------------------------------------------
LEMMA FieldNames == Fields = {"X", "Y", "Width", "Height"}
BY DEF Fields, NoFrame

LEMMA PictureTypes ==
  /\ MaxChanges \in Nat /\ MaxResets \in Nat
  /\ PowerUpFrames \subseteq Frame
  /\ \A p \in Pictures : DOMAIN p.column = Rows /\ DOMAIN p.row = Columns
BY BootAssumption DEF BootAssumption

LEMMA Unsigneds ==
  /\ 0 \in Unsigned /\ FRAMEHEIGHT-1 \in Unsigned /\ FRAMEWIDTH-1 \in Unsigned
  /\ \A x \in Int : U(x) \in Unsigned
  /\ \A x \in Unsigned : x \in Nat /\ U(x) = x
  /\ NoFrame \in Frame
BY Constants DEF ConstantsOK, Unsigned, U, NoFrame, Frame

LEMMA InitInv == Init => Inv
<1> SUFFICES ASSUME Init PROVE Inv
  OBVIOUS
<1> USE DEF Init
<1>1. TypeOK
  BY Unsigneds, PictureTypes DEF TypeOK
<1>2. CalculatedOK /\ SavedOK /\ ScanOK
  BY DEF CalculatedOK, SavedOK, ScanOK
<1>3. QED
  BY <1>1, <1>2 DEF Inv

(* Types. *)
LEMMA TypeStep == Inv /\ [Next]_vars => TypeOK'
<1> SUFFICES ASSUME Inv, [Next]_vars PROVE TypeOK'
  OBVIOUS
<1> USE Unsigneds, PictureTypes
    DEF Inv, TypeOK, scanVars, frameVars, edgeVars, screenVars, boundVars, historyVars
<1>1. CASE FillClear
  BY <1>1 DEF FillClear
<1>2. CASE Calibrate
  BY <1>2 DEF Calibrate
<1>3. CASE Restore
  BY <1>3 DEF Restore
<1>4. CASE CalibrateLoops
  <2>1. /\ U(atTop + 1) \in Unsigned /\ U(atBottom - 1) \in Unsigned
        /\ U(atLeft + 1) \in Unsigned /\ U(atRight - 1) \in Unsigned
    OBVIOUS
  <2>2. CASE ScanTop
    BY <2>1, <2>2 DEF ScanTop, Scan
  <2>3. CASE ScanBottom
    BY <2>1, <2>3 DEF ScanBottom, Scan
  <2>4. CASE ScanLeft
    BY <2>1, <2>4 DEF ScanLeft, Scan
  <2>5. CASE ScanRight
    BY <2>1, <2>5 DEF ScanRight, Scan
  <2>6. QED
    BY <1>4, <2>2, <2>3, <2>4, <2>5 DEF CalibrateLoops
<1>5. CASE SetFrame
  <2>1. U(atRight - atLeft + 1) \in Unsigned /\ U(atBottom - atTop + 1) \in Unsigned
    OBVIOUS
  <2>2. inputframe' \in Frame
    BY <1>5, <2>1 DEF SetFrame, Frame
  <2>3. QED
    BY <1>5, <2>2 DEF SetFrame, Fields
<1>6. CASE SaveField
  <2>1. saved' \in Frame /\ toSave' \subseteq Fields
    BY <1>6, FieldNames DEF SaveField, Frame
  <2>2. QED
    BY <1>6, <2>1 DEF SaveField
<1>7. CASE FinishSave
  BY <1>7 DEF FinishSave
<1>8. CASE CalculateEdgeBlocks
  BY <1>8
  DEF CalculateEdgeBlocks, CalculateTop, CalculateLeft, CalculateBottom, CalculateRight
<1>9. CASE Start
  BY <1>9 DEF Start
<1>10. CASE NewPicture
  BY <1>10 DEF NewPicture
<1>11. CASE Reset
  BY <1>11 DEF Reset
<1>12. CASE UNCHANGED vars
  BY <1>12 DEF vars
<1>13. QED
  BY <1>1, <1>2, <1>3, <1>4, <1>5, <1>6, <1>7, <1>8, <1>9, <1>10, <1>11, <1>12
  DEF Next, Main

(* The edges main has calculated are those of its frame. *)
LEMMA CalculatedStep == Inv /\ [Next]_vars => CalculatedOK'
<1> SUFFICES ASSUME Inv, [Next]_vars PROVE CalculatedOK'
  OBVIOUS
<1> USE DEF Inv, CalculatedOK, scanVars, frameVars, edgeVars, screenVars, boundVars,
            historyVars
<1>1. CASE FillClear \/ Calibrate \/ Restore
  BY <1>1 DEF FillClear, Calibrate, Restore
<1>2. CASE CalibrateLoops
  BY <1>2 DEF CalibrateLoops, ScanTop, ScanBottom, ScanLeft, ScanRight, Scan
<1>3. CASE SetFrame \/ SaveField \/ FinishSave
  BY <1>3 DEF SetFrame, SaveField, FinishSave
<1>4. CASE CalculateEdgeBlocks
  <2>1. CASE CalculateTop
    BY <1>4, <2>1 DEF CalculateEdgeBlocks, CalculateTop
  <2>2. CASE CalculateLeft
    BY <1>4, <2>2 DEF CalculateEdgeBlocks, CalculateLeft, LeftEdgeOf
  <2>3. CASE CalculateBottom
    BY <1>4, <2>3 DEF CalculateEdgeBlocks, CalculateBottom
  <2>4. CASE CalculateRight
    BY <1>4, <2>4 DEF CalculateEdgeBlocks, CalculateRight
  <2>5. QED
    BY <1>4, <2>1, <2>2, <2>3, <2>4 DEF CalculateEdgeBlocks
<1>5. CASE Start \/ NewPicture \/ Reset
  BY <1>5 DEF Start, NewPicture, Reset
<1>6. CASE UNCHANGED vars
  BY <1>6 DEF vars
<1>7. QED
  BY <1>1, <1>2, <1>3, <1>4, <1>5, <1>6 DEF Next, Main

(* The saved frame and its history. *)
LEMMA SavedStep == Inv /\ [Next]_vars => SavedOK'
<1> SUFFICES ASSUME Inv, [Next]_vars PROVE SavedOK'
  OBVIOUS
<1> USE DEF Inv, SavedOK, scanVars, frameVars, edgeVars, screenVars, boundVars,
            historyVars
<1>1. CASE FillClear \/ Calibrate \/ Restore
  BY <1>1 DEF FillClear, Calibrate, Restore
<1>2. CASE CalibrateLoops
  BY <1>2 DEF CalibrateLoops, ScanTop, ScanBottom, ScanLeft, ScanRight, Scan
<1>3. CASE SetFrame
  BY <1>3 DEF SetFrame, Fields
<1>4. CASE SaveField
  <2>1. PICK field \in toSave : /\ saved' = [saved EXCEPT ![field] = inputframe[field]]
                                /\ toSave' = toSave \ {field}
    BY <1>4 DEF SaveField
  <2>2. saved \in Frame /\ field \in Fields
    BY <2>1 DEF TypeOK
  <2>3. \A g \in Fields \ toSave' : saved'[g] = inputframe[g]
    BY <1>4, <2>1, <2>2, FieldNames DEF SaveField, Frame
  <2>4. QED
    BY <1>4, <2>3 DEF SaveField
<1>5. CASE FinishSave
  <2>1. \A g \in Fields : saved[g] = inputframe[g]
    BY <1>5 DEF FinishSave
  <2>2. saved = inputframe
    <3>1. saved \in Frame /\ inputframe \in Frame
      BY DEF TypeOK
    <3>2. QED
      BY <2>1, <3>1, FieldNames DEF Frame
  <2>3. QED
    BY <1>5, <2>2 DEF FinishSave
<1>6. CASE CalculateEdgeBlocks
  BY <1>6
  DEF CalculateEdgeBlocks, CalculateTop, CalculateLeft, CalculateBottom, CalculateRight
<1>7. CASE Start \/ NewPicture \/ Reset
  BY <1>7 DEF Start, NewPicture, Reset
<1>8. CASE UNCHANGED vars
  BY <1>8 DEF vars
<1>9. QED
  BY <1>1, <1>2, <1>3, <1>4, <1>5, <1>6, <1>7, <1>8 DEF Next, Main

(* One test of a loop of calibrate, on a line with a lit point: moving on  *)
(* from the front passes a dark point only, and so does moving back.       *)
LEMMA FrontMoves ==
  ASSUME NEW n \in Nat, n < Word, NEW line \in [0..n-1 -> BOOLEAN], Lit(line) # {},
         NEW i \in Nat, \A k \in Lit(line) : i <= k
  PROVE  /\ i \in 0..n-1 /\ Luminous(line, i) = {line[i]}
         /\ line[i] => IsFirst(line, i)
         /\ ~line[i] => U(i + 1) \in Nat /\ \A k \in Lit(line) : U(i + 1) <= k
<1>1. PICK m \in Lit(line) : TRUE
  OBVIOUS
<1>2. \A k \in Lit(line) : k \in 0..n-1 /\ line[k]
  BY DEF Lit
<1>3. i \in 0..n-1
  BY <1>1, <1>2
<1>4. Luminous(line, i) = {line[i]}
  BY <1>3 DEF Luminous
<1>5. line[i] => i \in Lit(line)
  BY <1>3 DEF Lit
<1>6. ASSUME ~line[i] PROVE U(i + 1) \in Nat /\ \A k \in Lit(line) : U(i + 1) <= k
  <2>1. \A k \in Lit(line) : i + 1 <= k
    BY <1>2, <1>3, <1>6
  <2>2. i + 1 \in Nat /\ i + 1 < Word
    BY <1>1, <1>2, <2>1, Constants DEF ConstantsOK
  <2>3. QED
    BY <2>1, <2>2, Wrap
<1>7. QED
  BY <1>3, <1>4, <1>5, <1>6 DEF IsFirst

LEMMA BackMoves ==
  ASSUME NEW n \in Nat, n < Word, NEW line \in [0..n-1 -> BOOLEAN], Lit(line) # {},
         NEW i \in 0..n-1, \A k \in Lit(line) : k <= i
  PROVE  /\ Luminous(line, i) = {line[i]}
         /\ line[i] => IsLast(line, i)
         /\ ~line[i] => U(i - 1) \in 0..n-1 /\ \A k \in Lit(line) : k <= U(i - 1)
<1>1. PICK m \in Lit(line) : TRUE
  OBVIOUS
<1>2. \A k \in Lit(line) : k \in 0..n-1 /\ line[k]
  BY DEF Lit
<1>3. Luminous(line, i) = {line[i]}
  BY DEF Luminous
<1>4. line[i] => i \in Lit(line)
  BY DEF Lit
<1>5. ASSUME ~line[i] PROVE U(i - 1) \in 0..n-1 /\ \A k \in Lit(line) : k <= U(i - 1)
  <2>1. \A k \in Lit(line) : k <= i - 1
    BY <1>2, <1>5
  <2>2. i - 1 \in Nat /\ i - 1 < Word
    BY <1>1, <1>2, <2>1, Constants DEF ConstantsOK
  <2>3. QED
    BY <2>1, <2>2, Wrap
<1>6. QED
  BY <1>3, <1>4, <1>5 DEF IsLast

LEMMA Lines ==
  ASSUME Inv
  PROVE  /\ FRAMEHEIGHT \in Nat /\ FRAMEHEIGHT < Word
         /\ FRAMEWIDTH \in Nat /\ FRAMEWIDTH < Word
         /\ picture.column \in [0..FRAMEHEIGHT-1 -> BOOLEAN]
         /\ picture.row \in [0..FRAMEWIDTH-1 -> BOOLEAN]
BY BootAssumption, Constants DEF ConstantsOK, Inv, TypeOK, Rows, Columns

LEMMA LoopStep == Inv /\ CalibrateLoops => ScanOK'
<1> SUFFICES ASSUME Inv, CalibrateLoops, LitPicture PROVE ScanOK'
  BY DEF CalibrateLoops, ScanTop, ScanBottom, ScanLeft, ScanRight, Scan, boundVars,
         ScanOK, LitPicture
<1>0. /\ picture' = picture /\ changes' = changes
      /\ Lit(picture.column) # {} /\ Lit(picture.row) # {}
      /\ atTop \in Nat /\ atLeft \in Nat
  BY Unsigneds
  DEF CalibrateLoops, ScanTop, ScanBottom, ScanLeft, ScanRight, Scan, boundVars,
      LitPicture, Inv, TypeOK
<1> USE DEF Inv, ScanOK, LitPicture
<1>1. CASE ScanTop
  <2>1. pc = "scanTop" /\ \A k \in Lit(picture.column) : atTop <= k
    BY <1>0, <1>1 DEF ScanTop, Scan
  <2>2. /\ Luminous(picture.column, atTop) = {picture.column[atTop]}
        /\ picture.column[atTop] => IsFirst(picture.column, atTop)
        /\ ~picture.column[atTop] => \A k \in Lit(picture.column) : U(atTop + 1) <= k
    BY <1>0, <2>1, Lines, FrontMoves
  <2>3. CASE picture.column[atTop]
    <3>1. pc' = "scanBottom" /\ UNCHANGED scanVars
      BY <1>1, <2>2, <2>3 DEF ScanTop, Scan
    <3>2. QED
      BY <1>0, <2>1, <2>2, <2>3, <3>1 DEF scanVars
  <2>4. CASE ~picture.column[atTop]
    <3>1. pc' = "scanTop" /\ atTop' = U(atTop + 1) /\ UNCHANGED <<atBottom, atLeft, atRight>>
      BY <1>1, <2>2, <2>4 DEF ScanTop, Scan
    <3>2. QED
      BY <1>0, <2>1, <2>2, <2>4, <3>1
  <2>5. QED
    BY <2>3, <2>4
<1>2. CASE ScanBottom
  <2>1. /\ pc = "scanBottom" /\ atBottom \in Rows
        /\ \A k \in Lit(picture.column) : k <= atBottom
    BY <1>0, <1>2 DEF ScanBottom, Scan
  <2>2. /\ Luminous(picture.column, atBottom) = {picture.column[atBottom]}
        /\ picture.column[atBottom] => IsLast(picture.column, atBottom)
        /\ ~picture.column[atBottom] =>
             /\ U(atBottom - 1) \in Rows
             /\ \A k \in Lit(picture.column) : k <= U(atBottom - 1)
    BY <1>0, <2>1, Lines, BackMoves DEF Rows
  <2>3. CASE picture.column[atBottom]
    <3>1. pc' = "scanLeft" /\ UNCHANGED scanVars
      BY <1>2, <2>2, <2>3 DEF ScanBottom, Scan
    <3>2. QED
      BY <1>0, <2>1, <2>2, <2>3, <3>1 DEF scanVars
  <2>4. CASE ~picture.column[atBottom]
    <3>1. /\ pc' = "scanBottom" /\ atBottom' = U(atBottom - 1)
          /\ UNCHANGED <<atTop, atLeft, atRight>>
      BY <1>2, <2>2, <2>4 DEF ScanBottom, Scan
    <3>2. QED
      BY <1>0, <2>1, <2>2, <2>4, <3>1
  <2>5. QED
    BY <2>3, <2>4
<1>3. CASE ScanLeft
  <2>1. pc = "scanLeft" /\ \A k \in Lit(picture.row) : atLeft <= k
    BY <1>0, <1>3 DEF ScanLeft, Scan
  <2>2. /\ Luminous(picture.row, atLeft) = {picture.row[atLeft]}
        /\ picture.row[atLeft] => IsFirst(picture.row, atLeft)
        /\ ~picture.row[atLeft] => \A k \in Lit(picture.row) : U(atLeft + 1) <= k
    BY <1>0, <2>1, Lines, FrontMoves
  <2>3. CASE picture.row[atLeft]
    <3>1. pc' = "scanRight" /\ UNCHANGED scanVars
      BY <1>3, <2>2, <2>3 DEF ScanLeft, Scan
    <3>2. QED
      BY <1>0, <2>1, <2>2, <2>3, <3>1 DEF scanVars
  <2>4. CASE ~picture.row[atLeft]
    <3>1. /\ pc' = "scanLeft" /\ atLeft' = U(atLeft + 1)
          /\ UNCHANGED <<atTop, atBottom, atRight>>
      BY <1>3, <2>2, <2>4 DEF ScanLeft, Scan
    <3>2. QED
      BY <1>0, <2>1, <2>2, <2>4, <3>1
  <2>5. QED
    BY <2>3, <2>4
<1>4. CASE ScanRight
  <2>1. /\ pc = "scanRight" /\ atRight \in Columns
        /\ \A k \in Lit(picture.row) : k <= atRight
    BY <1>0, <1>4 DEF ScanRight, Scan
  <2>2. /\ Luminous(picture.row, atRight) = {picture.row[atRight]}
        /\ picture.row[atRight] => IsLast(picture.row, atRight)
        /\ ~picture.row[atRight] =>
             /\ U(atRight - 1) \in Columns
             /\ \A k \in Lit(picture.row) : k <= U(atRight - 1)
    BY <1>0, <2>1, Lines, BackMoves DEF Columns
  <2>3. CASE picture.row[atRight]
    <3>1. pc' = "setFrame" /\ UNCHANGED scanVars
      BY <1>4, <2>2, <2>3 DEF ScanRight, Scan
    <3>2. QED
      BY <1>0, <2>1, <2>2, <2>3, <3>1 DEF scanVars
  <2>4. CASE ~picture.row[atRight]
    <3>1. /\ pc' = "scanRight" /\ atRight' = U(atRight - 1)
          /\ UNCHANGED <<atTop, atBottom, atLeft>>
      BY <1>4, <2>2, <2>4 DEF ScanRight, Scan
    <3>2. QED
      BY <1>0, <2>1, <2>2, <2>4, <3>1
  <2>5. QED
    BY <2>3, <2>4
<1>5. QED
  BY <1>1, <1>2, <1>3, <1>4 DEF CalibrateLoops

LEMMA LitPoints ==
  ASSUME Inv
  PROVE  /\ \A k \in Lit(picture.column) : k \in Rows
         /\ \A k \in Lit(picture.row) : k \in Columns
BY Lines DEF Lit, Rows, Columns

LEMMA ScanStep == Inv /\ [Next]_vars => ScanOK'
<1> SUFFICES ASSUME Inv, [Next]_vars PROVE ScanOK'
  OBVIOUS
<1>1. CASE CalibrateLoops
  BY <1>1, LoopStep
<1>2. CASE SetFrame
  <2> SUFFICES ASSUME LitPicture PROVE ScanOK'
    BY <1>2 DEF SetFrame, boundVars, ScanOK, LitPicture
  <2>1. /\ IsFirst(picture.column, atTop) /\ IsLast(picture.column, atBottom)
        /\ IsFirst(picture.row, atLeft) /\ IsLast(picture.row, atRight)
    BY <1>2 DEF SetFrame, Inv, ScanOK
  <2>2. atTop \in Rows /\ atBottom \in Rows /\ atLeft \in Columns /\ atRight \in Columns
    BY <2>1, LitPoints DEF IsFirst, IsLast
  <2>3. atTop <= atBottom /\ atLeft <= atRight
    BY <2>1 DEF IsFirst, IsLast
  <2>4. /\ U(atRight - atLeft + 1) = atRight - atLeft + 1
        /\ U(atBottom - atTop + 1) = atBottom - atTop + 1
    <3>1. /\ atRight - atLeft + 1 \in Nat /\ atRight - atLeft + 1 < Word
          /\ atBottom - atTop + 1 \in Nat /\ atBottom - atTop + 1 < Word
      BY <2>2, <2>3, Constants DEF ConstantsOK, Rows, Columns
    <3>2. QED
      BY <3>1, Wrap
  <2>5. /\ pc' = "save" /\ picture' = picture
        /\ inputframe' = [X |-> atLeft, Y |-> atTop, Width |-> atRight - atLeft + 1,
                          Height |-> atBottom - atTop + 1]
    BY <1>2, <2>4 DEF SetFrame
  <2>6. QED
    BY <2>1, <2>2, <2>5 DEF ScanOK
<1>3. CASE Calibrate
  <2>1. /\ pc' = "scanTop" /\ picture' = picture
        /\ atTop' = 0 /\ atBottom' = FRAMEHEIGHT - 1
        /\ atLeft' = 0 /\ atRight' = FRAMEWIDTH - 1
    BY <1>3 DEF Calibrate
  <2>2. atBottom' \in Rows /\ atRight' \in Columns
    BY <2>1, Constants DEF ConstantsOK, Rows, Columns
  <2>3. /\ \A k \in Lit(picture.column) : atTop' <= k /\ k <= atBottom'
        /\ \A k \in Lit(picture.row) : atLeft' <= k /\ k <= atRight'
    BY <2>1, LitPoints, Constants DEF ConstantsOK, Rows, Columns
  <2>4. QED
    BY <2>1, <2>2, <2>3 DEF ScanOK
<1>4. CASE NewPicture
  BY <1>4 DEF NewPicture, ScanOK, LitPicture, Inv, TypeOK
<1>5. CASE FillClear \/ Restore \/ SaveField \/ FinishSave \/ CalculateEdgeBlocks
             \/ Start \/ Reset
  BY <1>5
  DEF FillClear, Restore, SaveField, FinishSave, CalculateEdgeBlocks, CalculateTop,
      CalculateLeft, CalculateBottom, CalculateRight, Start, Reset, boundVars, frameVars,
      Inv, ScanOK, LitPicture
<1>6. CASE UNCHANGED vars
  BY <1>6 DEF vars, scanVars, frameVars, boundVars, Inv, ScanOK, LitPicture
<1>7. QED
  BY <1>1, <1>2, <1>3, <1>4, <1>5, <1>6 DEF Next, Main

(* Inv holds in every reachable state. *)
THEOREM Invariant == Spec => []Inv
<1>1. Inv /\ [Next]_vars => Inv'
  BY TypeStep, CalculatedStep, SavedStep, ScanStep DEF Inv
<1>2. QED
  BY InitInv, <1>1, PTL DEF Spec

(* Every variable of main keeps its type; unsigned arithmetic stays in it. *)
THEOREM TypeCorrect == Spec => []TypeOK
<1>1. Inv => TypeOK
  BY DEF Inv
<1>2. QED
  BY <1>1, Invariant, PTL

(* After a whole save every later start runs on the frame that was saved,  *)
(* until the next calibration, whatever the reset key interrupts.          *)
THEOREM FrameSurvives == Spec => []SavedFrameSurvives
<1>1. Inv => SavedFrameSurvives
  BY DEF Inv, SavedOK, SavedFrameSurvives
<1>2. QED
  BY <1>1, Invariant, PTL

(* In a picture that stands still calibrate finds exactly the rectangle of *)
(* the lit points on its two lines, and that lies on the screen.           *)
THEOREM CalibrationCorrect == Spec => []CalibratedFrame
<1>1. ASSUME NEW S, S \subseteq Int, NEW t \in S, \A k \in S : t <= k
      PROVE  FirstOf(S) = t
  <2>1. FirstOf(S) \in S /\ \A k \in S : FirstOf(S) <= k
    BY <1>1 DEF FirstOf
  <2>2. t \in Int /\ FirstOf(S) \in Int /\ t <= FirstOf(S) /\ FirstOf(S) <= t
    BY <1>1, <2>1
  <2>3. QED
    BY <2>2
<1>2. ASSUME NEW S, S \subseteq Int, NEW b \in S, \A k \in S : k <= b
      PROVE  LastOf(S) = b
  <2>1. LastOf(S) \in S /\ \A k \in S : k <= LastOf(S)
    BY <1>2 DEF LastOf
  <2>2. b \in Int /\ LastOf(S) \in Int /\ b <= LastOf(S) /\ LastOf(S) <= b
    BY <1>2, <2>1
  <2>3. QED
    BY <2>2
<1>3. Inv => CalibratedFrame
  <2> SUFFICES ASSUME Inv, pc = "save", LitPicture
               PROVE  /\ Spans(inputframe.Y, inputframe.Height, Lit(picture.column))
                      /\ Spans(inputframe.X, inputframe.Width, Lit(picture.row))
                      /\ OnScreen(inputframe)
    BY DEF CalibratedFrame, LitPicture
  <2>1. PICK t \in Rows, b \in Rows, l \in Columns, r \in Columns :
          /\ IsFirst(picture.column, t) /\ IsLast(picture.column, b)
          /\ IsFirst(picture.row, l) /\ IsLast(picture.row, r)
          /\ inputframe = [X |-> l, Y |-> t, Width |-> r - l + 1, Height |-> b - t + 1]
    BY DEF Inv, ScanOK
  <2>2. Lit(picture.column) \subseteq Int /\ Lit(picture.row) \subseteq Int
    BY LitPoints DEF Rows, Columns
  <2>3. /\ FirstOf(Lit(picture.column)) = t /\ LastOf(Lit(picture.column)) = b
        /\ FirstOf(Lit(picture.row)) = l /\ LastOf(Lit(picture.row)) = r
    BY <1>1, <1>2, <2>1, <2>2 DEF IsFirst, IsLast
  <2>4. Spans(inputframe.Y, inputframe.Height, Lit(picture.column))
    BY <2>1, <2>3 DEF Spans, LitPicture
  <2>5. Spans(inputframe.X, inputframe.Width, Lit(picture.row))
    BY <2>1, <2>3 DEF Spans, LitPicture
  <2>6. OnScreen(inputframe)
    BY <2>1, Constants DEF ConstantsOK, OnScreen, Rows, Columns
  <2>7. QED
    BY <2>4, <2>5, <2>6
<1>4. QED
  BY <1>3, Invariant, PTL

-----------------------------------------------------------------------------
(* The blocks of the running program, edge by edge. *)
TopAt(k, i) == k = <<"top", i>> /\ i \in 0..LEDSTOP-1 /\ BlockAt(k) = TopBlock(inputframe, i)
LeftAt(k, i) ==
  k = <<"left", i>> /\ i \in 0..LEDSLEFT-1 /\ BlockAt(k) = LeftBlock(inputframe, i)
BottomAt(k, i) ==
  k = <<"bottom", i>> /\ i \in 0..LEDSBOTTOM-1 /\ BlockAt(k) = BottomBlock(inputframe, i)
RightAt(k, i) ==
  /\ k = <<"right", i>> /\ i \in 0..LEDSRIGHT-1
  /\ BlockAt(k) = RightBlock(inputframe, LeftEdgeOf(inputframe), i)

LEMMA BlockKinds ==
  ASSUME Inv, pc = "running"
  PROVE  /\ \A k \in Blocks : \E i : TopAt(k, i) \/ LeftAt(k, i) \/ BottomAt(k, i)
                                     \/ RightAt(k, i)
         /\ \A i \in 0..LEDSTOP-1 : <<"top", i>> \in Blocks /\ TopAt(<<"top", i>>, i)
         /\ \A i \in 0..LEDSLEFT-1 : <<"left", i>> \in Blocks /\ LeftAt(<<"left", i>>, i)
         /\ \A i \in 0..LEDSBOTTOM-1 :
              <<"bottom", i>> \in Blocks /\ BottomAt(<<"bottom", i>>, i)
         /\ \A i \in 0..LEDSRIGHT-1 :
              <<"right", i>> \in Blocks /\ RightAt(<<"right", i>>, i)
<1>1. /\ topEdge = [i \in 0..LEDSTOP-1 |-> TopBlock(inputframe, i)]
      /\ leftEdge = [i \in 0..LEDSLEFT-1 |-> LeftBlock(inputframe, i)]
      /\ bottomEdge = [i \in 0..LEDSBOTTOM-1 |-> BottomBlock(inputframe, i)]
      /\ rightEdge = [i \in 0..LEDSRIGHT-1 |->
                        RightBlock(inputframe, LeftEdgeOf(inputframe), i)]
  BY DEF Inv, CalculatedOK, LeftEdgeOf
<1>2. /\ EdgeOf("top") = topEdge /\ EdgeOf("left") = leftEdge
      /\ EdgeOf("bottom") = bottomEdge /\ EdgeOf("right") = rightEdge
  BY DEF EdgeOf
<1>3. /\ \A i \in 0..LEDSTOP-1 : BlockAt(<<"top", i>>) = TopBlock(inputframe, i)
      /\ \A i \in 0..LEDSLEFT-1 : BlockAt(<<"left", i>>) = LeftBlock(inputframe, i)
      /\ \A i \in 0..LEDSBOTTOM-1 : BlockAt(<<"bottom", i>>) = BottomBlock(inputframe, i)
      /\ \A i \in 0..LEDSRIGHT-1 :
           BlockAt(<<"right", i>>) = RightBlock(inputframe, LeftEdgeOf(inputframe), i)
  <2>1. \A e, i : BlockAt(<<e, i>>) = EdgeOf(e)[i]
    BY DEF BlockAt
  <2>2. \A i : /\ BlockAt(<<"top", i>>) = topEdge[i] /\ BlockAt(<<"left", i>>) = leftEdge[i]
              /\ BlockAt(<<"bottom", i>>) = bottomEdge[i]
              /\ BlockAt(<<"right", i>>) = rightEdge[i]
    BY <1>2, <2>1
  <2>3. /\ \A i \in 0..LEDSTOP-1 : topEdge[i] = TopBlock(inputframe, i)
        /\ \A i \in 0..LEDSLEFT-1 : leftEdge[i] = LeftBlock(inputframe, i)
        /\ \A i \in 0..LEDSBOTTOM-1 : bottomEdge[i] = BottomBlock(inputframe, i)
        /\ \A i \in 0..LEDSRIGHT-1 :
             rightEdge[i] = RightBlock(inputframe, LeftEdgeOf(inputframe), i)
    BY <1>1
  <2>4. QED
    BY <2>2, <2>3
<1>4. \A k : k \in Blocks <=>
        \/ \E i \in 0..LEDSTOP-1 : k = <<"top", i>>
        \/ \E i \in 0..LEDSLEFT-1 : k = <<"left", i>>
        \/ \E i \in 0..LEDSBOTTOM-1 : k = <<"bottom", i>>
        \/ \E i \in 0..LEDSRIGHT-1 : k = <<"right", i>>
  BY <1>1 DEF Blocks
<1>5. QED
  BY <1>3, <1>4 DEF TopAt, LeftAt, BottomAt, RightAt

(* The blocks of a large frame are not empty, lie in the frame, and are    *)
(* filled inside their borders.                                            *)
THEOREM GeometryInFrame == Spec => []BlocksInFrame
<1>1. Inv => BlocksInFrame
  <2> SUFFICES ASSUME Inv, pc = "running", Large(inputframe), NEW k \in Blocks
               PROVE  Within(inputframe, BlockAt(k))
    BY DEF BlocksInFrame, Within
  <2>1. LargeFrame(inputframe)
    BY DEF LargeFrame, Inv, TypeOK
  <2>2. PICK i : TopAt(k, i) \/ LeftAt(k, i) \/ BottomAt(k, i) \/ RightAt(k, i)
    BY BlockKinds
  <2>3. CASE TopAt(k, i)
    BY <2>1, <2>3, TopWithin DEF TopAt
  <2>4. CASE LeftAt(k, i)
    BY <2>1, <2>4, LeftWithin DEF LeftAt
  <2>5. CASE BottomAt(k, i)
    BY <2>1, <2>5, BottomWithin DEF BottomAt
  <2>6. CASE RightAt(k, i)
    BY <2>1, <2>6, RightWithin DEF RightAt
  <2>7. QED
    BY <2>2, <2>3, <2>4, <2>5, <2>6
<1>2. QED
  BY <1>1, Invariant, PTL

(* No two blocks of a large frame share a pixel. *)
THEOREM GeometryDisjoint == Spec => []BlocksDisjoint
<1>1. Inv => BlocksDisjoint
  <2> SUFFICES ASSUME Inv, pc = "running", Large(inputframe),
                      NEW k \in Blocks, NEW l \in Blocks, k # l
               PROVE  ~Overlap(BlockAt(k), BlockAt(l))
    BY DEF BlocksDisjoint
  <2>0. LargeFrame(inputframe)
    BY DEF LargeFrame, Inv, TypeOK
  <2>1. PICK i : TopAt(k, i) \/ LeftAt(k, i) \/ BottomAt(k, i) \/ RightAt(k, i)
    BY BlockKinds
  <2>2. PICK j : TopAt(l, j) \/ LeftAt(l, j) \/ BottomAt(l, j) \/ RightAt(l, j)
    BY BlockKinds
  <2>3. CASE TopAt(k, i)
    <3>1. CASE TopAt(l, j)
      BY <2>0, <2>3, <3>1, TopsDisjoint DEF TopAt
    <3>2. CASE LeftAt(l, j)
      BY <2>0, <2>3, <3>2, LeftRowsDisjoint DEF TopAt, LeftAt
    <3>3. CASE BottomAt(l, j)
      BY <2>0, <2>3, <3>3, TopBottomDisjoint DEF TopAt, BottomAt
    <3>4. CASE RightAt(l, j)
      BY <2>0, <2>3, <3>4, RightRowsDisjoint DEF TopAt, RightAt
    <3>5. QED
      BY <2>2, <3>1, <3>2, <3>3, <3>4
  <2>4. CASE LeftAt(k, i)
    <3>1. CASE TopAt(l, j)
      BY <2>0, <2>4, <3>1, LeftRowsDisjoint DEF TopAt, LeftAt
    <3>2. CASE LeftAt(l, j)
      BY <2>0, <2>4, <3>2, LeftsDisjoint DEF LeftAt
    <3>3. CASE BottomAt(l, j)
      BY <2>0, <2>4, <3>3, LeftRowsDisjoint DEF LeftAt, BottomAt
    <3>4. CASE RightAt(l, j)
      BY <2>0, <2>4, <3>4, LeftRightDisjoint DEF LeftAt, RightAt
    <3>5. QED
      BY <2>2, <3>1, <3>2, <3>3, <3>4
  <2>5. CASE BottomAt(k, i)
    <3>1. CASE TopAt(l, j)
      <4>1. ~Overlap(TopBlock(inputframe, j), BottomBlock(inputframe, i))
        BY <2>0, <2>5, <3>1, TopBottomDisjoint DEF TopAt, BottomAt
      <4>2. QED
        BY <2>5, <3>1, <4>1 DEF TopAt, BottomAt, Overlap
    <3>2. CASE LeftAt(l, j)
      BY <2>0, <2>5, <3>2, LeftRowsDisjoint DEF BottomAt, LeftAt
    <3>3. CASE BottomAt(l, j)
      BY <2>0, <2>5, <3>3, BottomsDisjoint DEF BottomAt
    <3>4. CASE RightAt(l, j)
      BY <2>0, <2>5, <3>4, RightRowsDisjoint DEF BottomAt, RightAt
    <3>5. QED
      BY <2>2, <3>1, <3>2, <3>3, <3>4
  <2>6. CASE RightAt(k, i)
    <3>1. CASE TopAt(l, j)
      BY <2>0, <2>6, <3>1, RightRowsDisjoint DEF TopAt, RightAt
    <3>2. CASE LeftAt(l, j)
      BY <2>0, <2>6, <3>2, LeftRightDisjoint DEF LeftAt, RightAt
    <3>3. CASE BottomAt(l, j)
      BY <2>0, <2>6, <3>3, RightRowsDisjoint DEF BottomAt, RightAt
    <3>4. CASE RightAt(l, j)
      BY <2>0, <2>6, <3>4, RightsDisjoint DEF RightAt
    <3>5. QED
      BY <2>2, <3>1, <3>2, <3>3, <3>4
  <2>7. QED
    BY <2>1, <2>3, <2>4, <2>5, <2>6
<1>2. QED
  BY <1>1, Invariant, PTL

(* Each id from 0 to NumLeds-1 is that of one block, whatever the frame.   *)
THEOREM EveryLedOnce == Spec => []OneBlockPerLed
<1>1. Inv => OneBlockPerLed
  <2> SUFFICES ASSUME Inv, pc = "running", NEW led \in 0..NumLeds-1
               PROVE  Cardinality({k \in Blocks : BlockAt(k).id = led}) = 1
    BY DEF OneBlockPerLed
  <2> DEFINE S == {k \in Blocks : BlockAt(k).id = led}
  <2>0. ConstantsOK /\ led \in Nat
    BY Constants
  <2>1. \A k, i : /\ TopAt(k, i) => BlockAt(k).id = LEDSLEFT + i
                  /\ LeftAt(k, i) => BlockAt(k).id = LEDSLEFT - i - 1
                  /\ BottomAt(k, i) => BlockAt(k).id = NumLeds - i - 1
                  /\ RightAt(k, i) => BlockAt(k).id = LEDSLEFT + LEDSTOP + i
    BY DEF TopAt, LeftAt, BottomAt, RightAt, TopBlock, LeftBlock, BottomBlock,
           RightBlock, RightId
  <2>2. \A k, l \in S : k = l
    <3> SUFFICES ASSUME NEW k \in S, NEW l \in S PROVE k = l
      OBVIOUS
    <3>1. PICK i : TopAt(k, i) \/ LeftAt(k, i) \/ BottomAt(k, i) \/ RightAt(k, i)
      BY BlockKinds
    <3>2. PICK j : TopAt(l, j) \/ LeftAt(l, j) \/ BottomAt(l, j) \/ RightAt(l, j)
      BY BlockKinds
    <3>3. BlockAt(k).id = led /\ BlockAt(l).id = led
      OBVIOUS
    <3>4. QED
      BY <2>0, <2>1, <3>1, <3>2, <3>3
      DEF ConstantsOK, NumLeds, TopAt, LeftAt, BottomAt, RightAt
  <2>3. \E k : k \in S
    <3>1. CASE led < LEDSLEFT
      <4>1. LEDSLEFT - led - 1 \in 0..LEDSLEFT-1
        BY <2>0, <3>1 DEF ConstantsOK
      <4>2. LEDSLEFT - (LEDSLEFT - led - 1) - 1 = led
        BY <2>0 DEF ConstantsOK
      <4> DEFINE i == LEDSLEFT - led - 1
      <4>3. <<"left", i>> \in Blocks /\ LeftAt(<<"left", i>>, i)
        BY <4>1, BlockKinds
      <4>4. BlockAt(<<"left", i>>).id = led
        BY <2>1, <4>2, <4>3
      <4>5. QED
        BY <4>3, <4>4
    <3>2. CASE LEDSLEFT <= led /\ led < LEDSLEFT + LEDSTOP
      <4>1. PICK i \in 0..LEDSTOP-1 : LEDSLEFT + i = led
        <5>1. led - LEDSLEFT \in 0..LEDSTOP-1 /\ LEDSLEFT + (led - LEDSLEFT) = led
          BY <2>0, <3>2 DEF ConstantsOK
        <5>2. QED
          BY <5>1
      <4>2. <<"top", i>> \in Blocks /\ TopAt(<<"top", i>>, i)
        BY <4>1, BlockKinds
      <4>3. BlockAt(<<"top", i>>).id = led
        BY <2>1, <4>1, <4>2
      <4>4. QED
        BY <4>2, <4>3
    <3>3. CASE LEDSLEFT + LEDSTOP <= led /\ led < LEDSLEFT + LEDSTOP + LEDSRIGHT
      <4>1. PICK i \in 0..LEDSRIGHT-1 : LEDSLEFT + LEDSTOP + i = led
        <5>1. /\ led - LEDSLEFT - LEDSTOP \in 0..LEDSRIGHT-1
              /\ LEDSLEFT + LEDSTOP + (led - LEDSLEFT - LEDSTOP) = led
          BY <2>0, <3>3 DEF ConstantsOK
        <5>2. QED
          BY <5>1
      <4>2. <<"right", i>> \in Blocks /\ RightAt(<<"right", i>>, i)
        BY <4>1, BlockKinds
      <4>3. BlockAt(<<"right", i>>).id = led
        BY <2>1, <4>1, <4>2
      <4>4. QED
        BY <4>2, <4>3
    <3>4. CASE LEDSLEFT + LEDSTOP + LEDSRIGHT <= led
      <4>1. NumLeds - led - 1 \in 0..LEDSBOTTOM-1 /\ NumLeds - (NumLeds - led - 1) - 1 = led
        BY <2>0, <3>4 DEF ConstantsOK, NumLeds
      <4> DEFINE i == NumLeds - led - 1
      <4>2. <<"bottom", i>> \in Blocks /\ BottomAt(<<"bottom", i>>, i)
        BY <4>1, BlockKinds
      <4>3. BlockAt(<<"bottom", i>>).id = led
        BY <2>1, <4>1, <4>2
      <4>4. QED
        BY <4>2, <4>3
    <3>5. QED
      BY <2>0, <3>1, <3>2, <3>3, <3>4 DEF ConstantsOK
  <2>4. PICK k : S = {k}
    BY <2>2, <2>3
  <2>5. QED
    BY <2>4, FS_Singleton
<1>2. QED
  BY <1>1, Invariant, PTL
=============================================================================
