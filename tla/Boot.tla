-------------------------------- MODULE Boot -------------------------------
(***************************************************************************)
(* main of mblight.c up to OSStart: clear the overlay, find the frame the  *)
(* picture occupies (calibrate) or take the one saved in SDRAM, and cut it *)
(* into blocks.  The saved frame outlives the reset key, which may be      *)
(* pressed at any point, also while the frame is being saved.              *)
(***************************************************************************)
EXTENDS EdgeBlocks

CONSTANTS
  Pictures,          \* what the decoder may show: a picture is the two lines
                     \* calibrate looks at, TRUE where luminance is over 50
  PowerUpFrames,     \* what the saved frame may be when the board powers up
  SwitchPositions,   \* positions of switch 0, a subset of BOOLEAN
  MaxChanges,        \* bound: changes of the picture
  MaxResets          \* bound: presses of the reset key

VARIABLES
  pc,                                  \* where main is
  picture,                             \* [column, row]
  atTop, atBottom, atLeft, atRight,    \* locals of calibrate
  inputframe, saved,                   \* saved is *callibrationframe
  toSave,                              \* fields of the frame not yet stored
  topEdge, leftEdge, bottomEdge, rightEdge,
  overlay, statusLed,
  changes, resets,                     \* bounded counters
  savedBy, lastSaved                   \* history of the saved frame

scanVars == <<atTop, atBottom, atLeft, atRight>>
frameVars == <<inputframe, saved, toSave>>
edgeVars == <<topEdge, leftEdge, bottomEdge, rightEdge>>
screenVars == <<overlay, statusLed>>
boundVars == <<changes, resets>>
historyVars == <<savedBy, lastSaved>>
vars == <<pc, picture, scanVars, frameVars, edgeVars, screenVars, boundVars, historyVars>>

Rows == 0..FRAMEHEIGHT-1
Columns == 0..FRAMEWIDTH-1
Unsigned == 0..Word-1
Frame == [X : Unsigned, Y : Unsigned, Width : Unsigned, Height : Unsigned]
NoFrame == [X |-> 0, Y |-> 0, Width |-> 0, Height |-> 0]

ASSUME BootAssumption ==
  /\ EdgeBlocksAssumption
  /\ Pictures \subseteq [column : [Rows -> BOOLEAN], row : [Columns -> BOOLEAN]]
  /\ PowerUpFrames \subseteq Frame
  /\ SwitchPositions \subseteq BOOLEAN
  /\ MaxChanges \in Nat /\ MaxResets \in Nat

NoBlocks == [i \in {} |-> 0]

(* The C program starts with its variables initialised. *)
Init ==
  /\ pc = "clear"
  /\ atTop = 0 /\ atBottom = 0 /\ atLeft = 0 /\ atRight = 0
  /\ inputframe = NoFrame /\ toSave = {}
  /\ topEdge = NoBlocks /\ leftEdge = NoBlocks
  /\ bottomEdge = NoBlocks /\ rightEdge = NoBlocks
  /\ picture \in Pictures
  /\ saved \in PowerUpFrames
  /\ overlay = "garbage" /\ statusLed = "garbage"
  /\ changes = 0 /\ resets = 0
  /\ savedBy = "powerUp" /\ lastSaved = NoFrame

-----------------------------------------------------------------------------
(* fillClear and the red status LED, the word behind the strip's pixels.   *)
FillClear ==
  /\ pc = "clear"
  /\ overlay' = "clear" /\ statusLed' = "red"
  /\ pc' = "switch"
  /\ UNCHANGED <<picture, scanVars, frameVars, edgeVars, boundVars, historyVars>>

(* Switch 0 is read once: up calibrates, down restores the saved frame.    *)
Calibrate ==
  /\ pc = "switch" /\ TRUE \in SwitchPositions
  /\ pc' = "scanTop"
  /\ atTop' = 0 /\ atBottom' = FRAMEHEIGHT - 1
  /\ atLeft' = 0 /\ atRight' = FRAMEWIDTH - 1
  /\ UNCHANGED <<picture, frameVars, edgeVars, screenVars, boundVars, historyVars>>

Restore ==
  /\ pc = "switch" /\ FALSE \in SwitchPositions
  /\ inputframe' = saved
  /\ pc' = "top"
  /\ UNCHANGED <<picture, scanVars, saved, toSave, edgeVars, screenVars, boundVars,
                 historyVars>>

(* Mutant: the line is taken for lit one point too early. *)
LuminousEarly(line, i) ==
  IF i + 1 \in DOMAIN line THEN {line[i] \/ line[i+1]} ELSE {TRUE}

(* The luminance test on one point of a line of the picture.  The loops do *)
(* not stop at the edge of the screen: behind it they read other memory.   *)
Luminous(line, i) == IF i \in DOMAIN line THEN {line[i]} ELSE BOOLEAN

(* One test of a while loop at point i of a line: a lit point ends the     *)
(* loop, another one moves its variable.                                   *)
Scan(here, next, line, i, move) ==
  /\ pc = here
  /\ \E lit \in Luminous(line, i) :
       IF lit THEN pc' = next /\ UNCHANGED scanVars ELSE pc' = here /\ move
  /\ UNCHANGED <<picture, frameVars, edgeVars, screenVars, boundVars, historyVars>>

(* Mutant: the loop does not move. *)
ScanTopStays ==
  Scan("scanTop", "scanBottom", picture.column, atTop, UNCHANGED scanVars)

ScanTop ==
  Scan("scanTop", "scanBottom", picture.column, atTop,
       atTop' = U(atTop + 1) /\ UNCHANGED <<atBottom, atLeft, atRight>>)

(* Mutant: a signed variable, which does not wrap. *)
ScanBottomSigned ==
  Scan("scanBottom", "scanLeft", picture.column, atBottom,
       atBottom' = atBottom - 1 /\ UNCHANGED <<atTop, atLeft, atRight>>)

ScanBottom ==
  Scan("scanBottom", "scanLeft", picture.column, atBottom,
       atBottom' = U(atBottom - 1) /\ UNCHANGED <<atTop, atLeft, atRight>>)

ScanLeft ==
  Scan("scanLeft", "scanRight", picture.row, atLeft,
       atLeft' = U(atLeft + 1) /\ UNCHANGED <<atTop, atBottom, atRight>>)

ScanRight ==
  Scan("scanRight", "setFrame", picture.row, atRight,
       atRight' = U(atRight - 1) /\ UNCHANGED <<atTop, atBottom, atLeft>>)

(* The end of calibrate and of its locals; *callibrationframe follows. *)
SetFrame ==
  /\ pc = "setFrame"
  /\ inputframe' = [X |-> atLeft, Y |-> atTop,
                    Width |-> U(atRight - atLeft + 1),
                    Height |-> U(atBottom - atTop + 1)]
  /\ toSave' = DOMAIN NoFrame
  /\ pc' = "save"
  /\ atTop' = 0 /\ atBottom' = 0 /\ atLeft' = 0 /\ atRight' = 0
  /\ UNCHANGED <<picture, saved, edgeVars, screenVars, boundVars, historyVars>>

(* Mutant: the fields are stored in the place of the one before. *)
SaveFieldWrongPlace ==
  /\ pc = "save" /\ toSave # {}
  /\ \E field \in toSave :
       /\ saved' = [saved EXCEPT !.Width = inputframe[field]]
       /\ toSave' = toSave \ {field}
  /\ savedBy' = "torn"
  /\ UNCHANGED <<pc, picture, scanVars, inputframe, edgeVars, screenVars, boundVars,
                 lastSaved>>

(* The structure is stored word by word, in the order the build chooses.   *)
SaveField ==
  /\ pc = "save" /\ toSave # {}
  /\ \E field \in toSave :
       /\ saved' = [saved EXCEPT ![field] = inputframe[field]]
       /\ toSave' = toSave \ {field}
  /\ savedBy' = "torn"
  /\ UNCHANGED <<pc, picture, scanVars, inputframe, edgeVars, screenVars, boundVars,
                 lastSaved>>

FinishSave ==
  /\ pc = "save" /\ toSave = {}
  /\ pc' = "top"
  /\ savedBy' = "calibration" /\ lastSaved' = inputframe
  /\ UNCHANGED <<picture, scanVars, frameVars, edgeVars, screenVars, boundVars>>

-----------------------------------------------------------------------------
(* calculateEdgeBlocks, one loop per edge; the right one reads the left.   *)
CalculateTop ==
  /\ pc = "top"
  /\ topEdge' = [i \in 0..LEDSTOP-1 |-> TopBlock(inputframe, i)]
  /\ pc' = "left"
  /\ UNCHANGED <<leftEdge, bottomEdge, rightEdge>>

CalculateLeft ==
  /\ pc = "left"
  /\ leftEdge' = [i \in 0..LEDSLEFT-1 |-> LeftBlock(inputframe, i)]
  /\ pc' = "bottom"
  /\ UNCHANGED <<topEdge, bottomEdge, rightEdge>>

CalculateBottom ==
  /\ pc = "bottom"
  /\ bottomEdge' = [i \in 0..LEDSBOTTOM-1 |-> BottomBlock(inputframe, i)]
  /\ pc' = "right"
  /\ UNCHANGED <<topEdge, leftEdge, rightEdge>>

CalculateRight ==
  /\ pc = "right"
  /\ rightEdge' = [i \in 0..LEDSRIGHT-1 |-> RightBlock(inputframe, leftEdge, i)]
  /\ pc' = "start"
  /\ UNCHANGED <<topEdge, leftEdge, bottomEdge>>

CalculateEdgeBlocks ==
  /\ CalculateTop \/ CalculateLeft \/ CalculateBottom \/ CalculateRight
  /\ UNCHANGED <<picture, scanVars, frameVars, screenVars, boundVars, historyVars>>

(* The green status LED and OSStart: the tasks run from here on, and draw. *)
Start ==
  /\ pc = "start"
  /\ statusLed' = "green" /\ overlay' = "inUse"
  /\ pc' = "running"
  /\ UNCHANGED <<picture, scanVars, frameVars, edgeVars, boundVars, historyVars>>

-----------------------------------------------------------------------------
(* The decoder writes the next picture whatever main does. *)
NewPicture ==
  /\ changes < MaxChanges /\ changes' = changes + 1
  /\ picture' \in Pictures
  /\ UNCHANGED <<pc, scanVars, frameVars, edgeVars, screenVars, resets, historyVars>>

(* The reset key restarts the program; the SDRAM keeps what it holds. *)
Reset ==
  /\ resets < MaxResets /\ resets' = resets + 1
  /\ pc' = "clear"
  /\ atTop' = 0 /\ atBottom' = 0 /\ atLeft' = 0 /\ atRight' = 0
  /\ inputframe' = NoFrame /\ toSave' = {}
  /\ topEdge' = NoBlocks /\ leftEdge' = NoBlocks
  /\ bottomEdge' = NoBlocks /\ rightEdge' = NoBlocks
  /\ UNCHANGED <<picture, saved, screenVars, changes, historyVars>>

CalibrateLoops == ScanTop \/ ScanBottom \/ ScanLeft \/ ScanRight

Main ==
  \/ FillClear \/ Calibrate \/ Restore \/ CalibrateLoops
  \/ SetFrame \/ SaveField \/ FinishSave \/ CalculateEdgeBlocks \/ Start

Next == Main \/ NewPicture \/ Reset

Spec == Init /\ [][Next]_vars

(* The processor keeps executing main. *)
FairSpec == Spec /\ WF_vars(Main)

-----------------------------------------------------------------------------
Fields == DOMAIN NoFrame

(* Types of what main keeps. *)
TypeOK ==
  /\ pc \in {"clear", "switch", "scanTop", "scanBottom", "scanLeft", "scanRight",
             "setFrame", "save", "top", "left", "bottom", "right", "start", "running"}
  /\ picture \in Pictures
  /\ atTop \in Unsigned /\ atBottom \in Unsigned
  /\ atLeft \in Unsigned /\ atRight \in Unsigned
  /\ inputframe \in Frame /\ saved \in Frame /\ toSave \subseteq Fields
  /\ overlay \in {"garbage", "clear", "inUse"}
  /\ statusLed \in {"garbage", "red", "green"}
  /\ changes \in 0..MaxChanges /\ resets \in 0..MaxResets
  /\ savedBy \in {"powerUp", "torn", "calibration"} /\ lastSaved \in Frame

OnScreen(f) == f.X + f.Width <= FRAMEWIDTH /\ f.Y + f.Height <= FRAMEHEIGHT

(* Reference: the lit points of the two lines, from the first to the last. *)
Lit(line) == {i \in DOMAIN line : line[i]}
FirstOf(S) == CHOOSE i \in S : \A k \in S : i <= k
LastOf(S) == CHOOSE i \in S : \A k \in S : k <= i
Spans(first, length, S) ==
  S # {} /\ first = FirstOf(S) /\ length = LastOf(S) - FirstOf(S) + 1

(* A picture that does not change while calibrate looks at it, with a lit  *)
(* point on both lines, gives the frame of its lit points; without one the *)
(* loops leave the screen and what they stop at is chance.                 *)
CalibratedFrame ==
  (pc = "save" /\ changes = 0 /\ Lit(picture.column) # {} /\ Lit(picture.row) # {})
    => /\ Spans(inputframe.Y, inputframe.Height, Lit(picture.column))
       /\ Spans(inputframe.X, inputframe.Width, Lit(picture.row))
       /\ OnScreen(inputframe)

(* The frame of a calibration survives resets: whatever the key interrupts *)
(* later, the tasks run on the last frame that was saved, unless a reset   *)
(* came while one was being stored.                                        *)
SavedFrameSurvives ==
  /\ savedBy = "calibration" => saved = lastSaved
  /\ (pc = "running" /\ savedBy = "calibration") => inputframe = lastSaved

(* While every picture has lit points on both lines, main reaches OSStart, *)
(* though the picture may change between two tests of a loop.              *)
Starts ==
  [](Lit(picture.column) # {} /\ Lit(picture.row) # {}) => <>(pc = "running")

-----------------------------------------------------------------------------
EdgeOf(e) == CASE e = "top" -> topEdge [] e = "left" -> leftEdge
               [] e = "bottom" -> bottomEdge [] e = "right" -> rightEdge
Blocks ==
  {<<"top", i>> : i \in DOMAIN topEdge} \cup {<<"left", i>> : i \in DOMAIN leftEdge}
  \cup {<<"bottom", i>> : i \in DOMAIN bottomEdge}
  \cup {<<"right", i>> : i \in DOMAIN rightEdge}
BlockAt(k) == EdgeOf(k[1])[k[2]]

(* A frame at least this large gives every block an interior, and corners  *)
(* as high as the other edges are deep.                                    *)
Large(f) ==
  /\ OnScreen(f)
  /\ f.Width >= 2 * (LEDSTOP + 2) /\ f.Width >= 2 * (LEDSBOTTOM + 2)
  /\ f.Width >= 2 * EDGEDEPTH
  /\ f.Height >= EDGEDEPTH * LEDSLEFT /\ f.Height >= EDGEDEPTH * LEDSRIGHT

(* Every LED of the strip belongs to exactly one block. *)
OneBlockPerLed ==
  pc = "running" =>
    \A led \in 0..NumLeds-1 : Cardinality({k \in Blocks : BlockAt(k).id = led}) = 1

(* The blocks stay in the frame and are not empty (getAverages divides by  *)
(* their area), and filling one stays inside it (averageToBlocks subtracts *)
(* from unsigned widths).                                                  *)
BlocksInFrame ==
  (pc = "running" /\ Large(inputframe)) =>
    \A k \in Blocks :
      LET b == BlockAt(k) IN
        /\ b.Width > 0 /\ b.Height > 0
        /\ inputframe.X <= b.X /\ b.X + b.Width <= inputframe.X + inputframe.Width
        /\ inputframe.Y <= b.Y /\ b.Y + b.Height <= inputframe.Y + inputframe.Height
        /\ FilledPixels(b) \subseteq OwnPixels(b)

Overlap(b, c) ==
  /\ b.X < c.X + c.Width /\ c.X < b.X + b.Width
  /\ b.Y < c.Y + c.Height /\ c.Y < b.Y + b.Height

(* No two blocks share a pixel, so erasing one leaves the others alone.    *)
BlocksDisjoint ==
  (pc = "running" /\ Large(inputframe)) =>
    \A k, l \in Blocks : k # l => ~Overlap(BlockAt(k), BlockAt(l))

(* getAverages of mblight.c:442-443 says "j = y value" and "k = x value":  *)
(* the points read for a block are the block's.                            *)
SamplesOwnBlock ==
  (pc = "running" /\ Large(inputframe)) =>
    \A k \in Blocks : SampledPixels(BlockAt(k)) = OwnPixels(BlockAt(k))
=============================================================================
