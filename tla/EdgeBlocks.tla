----------------------------- MODULE EdgeBlocks ----------------------------
(***************************************************************************)
(* The geometry of calculateEdgeBlocks (mblight.c): how a frame on the     *)
(* screen is cut into one block per LED along its four edges.  The corner  *)
(* blocks belong to the left and the right edge.  A frame and a block are  *)
(* records of unsigned ints, which wrap at Word.                           *)
(***************************************************************************)
EXTENDS Integers, FiniteSets

CONSTANTS
  LEDSTOP, LEDSBOTTOM, LEDSLEFT, LEDSRIGHT,   \* 31, 24, 20, 20
  EDGEDEPTH,                                  \* 3
  FRAMEWIDTH, FRAMEHEIGHT,                    \* 320, 240
  Word                                        \* 2^32 on the board

EdgeBlocksAssumption ==
  /\ LEDSTOP \in Nat \ {0} /\ LEDSBOTTOM \in Nat \ {0}
  /\ LEDSLEFT \in Nat /\ LEDSLEFT > 1 /\ LEDSRIGHT \in Nat /\ LEDSRIGHT > 1
  /\ EDGEDEPTH \in Nat /\ EDGEDEPTH > 1
  /\ FRAMEWIDTH \in Nat \ {0} /\ FRAMEHEIGHT \in Nat \ {0}
  /\ Word \in Nat /\ Word > FRAMEWIDTH + FRAMEHEIGHT

NumLeds == LEDSTOP + LEDSBOTTOM + LEDSLEFT + LEDSRIGHT

U(x) == x % Word

topBlockSize(f) == f.Width \div (LEDSTOP + 2)
bottomBlockSize(f) == f.Width \div (LEDSBOTTOM + 2)
leftBlockSize(f) == f.Height \div LEDSLEFT
rightBlockSize(f) == f.Height \div LEDSRIGHT

-----------------------------------------------------------------------------
(* The width the top (bottom) blocks leave for the left corner block.      *)
TopCorner(f) == U(f.Width - topBlockSize(f) * LEDSTOP) \div 2
BottomCorner(f) == U(f.Width - bottomBlockSize(f) * LEDSBOTTOM) \div 2

TopBlock(f, i) ==
  [id |-> LEDSLEFT + i,
   X |-> U(f.X + TopCorner(f) + topBlockSize(f) * i), Y |-> f.Y,
   Width |-> topBlockSize(f), Height |-> EDGEDEPTH]

BottomBlock(f, i) ==
  [id |-> NumLeds - i - 1,
   X |-> U(f.X + BottomCorner(f) + bottomBlockSize(f) * i),
   Y |-> U(f.Y + f.Height - EDGEDEPTH),
   Width |-> bottomBlockSize(f), Height |-> EDGEDEPTH]

(* The left and the right edge: n blocks, of which the first and the last  *)
(* are corners and the others size high.  first is the first one's height. *)
FirstHeight(f, size, n) == U(f.Height - size * (n - 2)) \div 2
LastHeight(f, size, n, first) == U(f.Height - size * (n - 2) - first)

(* Mutant: the blocks are stacked as if the corner were size high. *)
SideYNoCorner(f, size, first, i) == U(f.Y + size * i)

SideY(f, size, first, i) == IF i = 0 THEN f.Y ELSE U(f.Y + first + size * (i - 1))

SideHeight(f, size, n, first, i) ==
  IF i = 0 THEN first
  ELSE IF i = n - 1 THEN LastHeight(f, size, n, first) ELSE size

LeftBlock(f, i) ==
  LET size == leftBlockSize(f)
      first == FirstHeight(f, size, LEDSLEFT)
  IN [id |-> LEDSLEFT - i - 1,
      X |-> f.X, Y |-> SideY(f, size, first, i),
      Width |-> IF i = 0 THEN TopCorner(f)
                ELSE IF i = LEDSLEFT - 1 THEN BottomCorner(f) ELSE EDGEDEPTH,
      Height |-> SideHeight(f, size, LEDSLEFT, first, i)]

(* Mutant: the ids of the right edge start one too late. *)
RightIdLate(i) == LEDSLEFT + LEDSTOP + i + 1

RightId(i) == LEDSLEFT + LEDSTOP + i

(* The X and the width of right block i, which for the corners take what   *)
(* the edge's row leaves: left is the left edge calculated before.         *)
RightX(f, left, i) ==
  IF i = 0 THEN U(f.X + left[0].Width + LEDSTOP * topBlockSize(f))
  ELSE IF i = LEDSRIGHT - 1
    THEN U(f.X + left[LEDSLEFT-1].Width + LEDSBOTTOM * bottomBlockSize(f))
  ELSE U(f.X + f.Width - EDGEDEPTH)

RightWidth(f, left, i) ==
  IF i = 0 THEN U(f.Width - left[0].Width - LEDSTOP * topBlockSize(f))
  ELSE IF i = LEDSRIGHT - 1
    THEN U(f.Width - left[LEDSLEFT-1].Width - bottomBlockSize(f) * LEDSBOTTOM)
  ELSE EDGEDEPTH

RightBlock(f, left, i) ==
  LET size == rightBlockSize(f)
      first == FirstHeight(f, size, LEDSRIGHT)
  IN [id |-> RightId(i),
      X |-> RightX(f, left, i), Y |-> SideY(f, size, first, i),
      Width |-> RightWidth(f, left, i),
      Height |-> SideHeight(f, size, LEDSRIGHT, first, i)]

-----------------------------------------------------------------------------
(* The pixels of a block, and the points getAverages reads for it: j runs  *)
(* over the height but is added to X, and k over the width but to Y.       *)
OwnPixels(b) == (b.X .. b.X + b.Width - 1) \X (b.Y .. b.Y + b.Height - 1)
SampledPixels(b) == (b.X .. b.X + b.Height - 1) \X (b.Y .. b.Y + b.Width - 1)

(* Mutant: the whole block is filled, over its border. *)
FilledPixelsWhole(b) == (b.X + 1 .. b.X + b.Width) \X (b.Y + 1 .. b.Y + b.Height)

(* The pixels averageToBlocks hands to fillSquare, before setPixel clips.  *)
FilledPixels(b) ==
  (b.X + 1 .. b.X + U(b.Width - 2)) \X (b.Y + 1 .. b.Y + U(b.Height - 2))
=============================================================================
