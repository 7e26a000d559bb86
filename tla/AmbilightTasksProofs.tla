------------------------ MODULE AmbilightTasksProofs -----------------------
(***************************************************************************)
(* The three tasks, for any number of blocks, channels and reads and any   *)
(* tick: every variable has its type, and no LED goes back to an older     *)
(* picture.  For the second, the places a colour passes through on its way *)
(* to an LED (totals, average, TaskWriteLed's copy, LED buffer) are        *)
(* ordered by age at every moment.  When a tick lasts for a turn of the    *)
(* tasks, LEDs at rest are fresh: the steps since the tick tell where the  *)
(* tasks are, and so what they have seen since it.                         *)
(***************************************************************************)
EXTENDS AmbilightTasks, TLAPS

(* T is what S is, or nothing in S is newer than anything in T. *)
Follows(S, T) == S = T \/ NotNewer(S, T)

(* The totals are on their way to this average. *)
Pending(b, c) ==
  /\ at["getColor"].block = b
  /\ \/ at["getColor"].step = "sample"
     \/ at["getColor"].step = "average" /\ at["getColor"].part <= c

(* This channel of the copy is on its way to the LED at hand. *)
Copied(c) ==
  \/ at["writeLed"].step \in {"scale", "store"}
  \/ at["writeLed"].step = "copy" /\ at["writeLed"].part > c

TotalOrder ==
  /\ NotNewer(total, {picture})
  /\ at["getColor"].step = "delay" => total = {}

AverageOrder ==
  \A b \in Block, c \in Channel :
    /\ NotNewer(average[b][c], {picture})
    /\ Pending(b, c) => NotNewer(average[b][c], total)

LedOrder ==
  \A b \in Block, c \in Channel :
    /\ NotNewer(ledBuffer[b][c].pictures, {picture})
    /\ Follows(ledBuffer[b][c].pictures, average[b][c])
    /\ Pending(b, c) => NotNewer(ledBuffer[b][c].pictures, total)

PixelOrder ==
  \A b \in Block, c \in Channel : b = at["writeLed"].block /\ Copied(c) =>
    /\ NotNewer(pixel[c].pictures, {picture})
    /\ Follows(ledBuffer[b][c].pictures, pixel[c].pictures)
    /\ Follows(pixel[c].pictures, average[b][c])
    /\ Pending(b, c) => NotNewer(pixel[c].pictures, total)

Order == TotalOrder /\ AverageOrder /\ LedOrder /\ PixelOrder

IInv == TypeOK /\ Order

-----------------------------------------------------------------------------
LEMMA DelayTicks ==
  /\ Ticks(Milliseconds["getColor"]) = 1
  /\ Ticks(Milliseconds["writeLed"]) = 1
  /\ Ticks(Milliseconds["setOverlay"]) = 2
BY DEF Ticks, OS_TICKS_PER_SEC, Milliseconds

LEMMA PlaceType == \A t \in Task : Place[t] \subseteq Step
<1>1. /\ Place["getColor"] \subseteq Step
      /\ Place["writeLed"] \subseteq Step
      /\ Place["setOverlay"] \subseteq Step
  BY DEF Place, Step
<1> QED BY <1>1 DEF Task

LEMMA InitType == ASSUME Init PROVE TypeOK
<1> USE TasksAssumption
<1>1. /\ {} \in PictureSets /\ {Garbage} \in PictureSets /\ {picture} \in PictureSets
      /\ 1 \in Block /\ 1 \in Channel
  BY DEF Init, PictureSets, Garbage, Block, Channel
<1>2. \A t \in Task : at[t] = [step |-> Start[t], block |-> 1, part |-> 1]
  BY DEF Init
<1>3. \A t \in Task : Start[t] \in Place[t]
  BY DEF Task, Start, Place
<1>4. /\ at \in [Task -> [step : Step, block : Block,
                          part : Nat \ {0}]]
      /\ \A t \in Task : at[t].step \in Place[t] /\ at[t].part = 1
  BY <1>1, <1>2, <1>3, PlaceType DEF Init
<1>5. delay \in [Task -> 0..2]
  BY DEF Init
<1>6. /\ average \in [Block -> [Channel -> PictureSets]]
      /\ pixel \in [Channel -> Colour]
      /\ ledBuffer \in [Block -> [Channel -> Colour]]
  BY <1>1 DEF Init, Colour
<1>7. /\ "getColor" \in Task /\ "writeLed" \in Task
  BY DEF Task
<1>8. /\ 1 <= NumParts /\ 1 <= NumChannels
  OBVIOUS
<1>9. /\ total \in PictureSets
      /\ switches \in [Switch -> BOOLEAN] /\ indicators \in [Switch -> BOOLEAN]
      /\ overlayStatus \in BOOLEAN /\ blockstatus \in BOOLEAN
      /\ border \subseteq Block /\ inner \subseteq Block
  BY <1>1 DEF Init
<1>10. /\ picture \in 1..MaxPictures /\ level \in Levels
       /\ tickSteps \in Paces /\ sinceTick \in 0..tickSteps
       /\ levels \in 0..MaxLevels /\ moves \in 0..MaxSwitches
       /\ seenPictures \in PictureSets /\ seenLevels \subseteq Levels
  BY <1>1 DEF Init
<1> QED
  BY <1>4, <1>5, <1>6, <1>7, <1>8, <1>9, <1>10 DEF TypeOK, KernelType

(* A task that goes somewhere it may be leaves at well typed. *)
LEMMA GotoType ==
  ASSUME TypeOK, NEW t \in Task, NEW step \in Place[t], NEW b \in Block,
         NEW p \in Nat \ {0}, Goto(t, step, b, p)
  PROVE  /\ at' \in [Task -> [step : Step, block : Block,
                              part : Nat \ {0}]]
         /\ \A u \in Task : at'[u].step \in Place[u]
         /\ at'[t] = [step |-> step, block |-> b, part |-> p]
         /\ \A u \in Task \ {t} : at'[u] = at[u]
         /\ delay' = delay
<1>1. at' = [at EXCEPT ![t] = [step |-> step, block |-> b, part |-> p]]
  BY DEF Goto
<1>2. [step |-> step, block |-> b, part |-> p]
        \in [step : Step, block : Block, part : Nat \ {0}]
  BY PlaceType
<1>3. at \in [Task -> [step : Step, block : Block,
                       part : Nat \ {0}]]
  BY DEF TypeOK, KernelType
<1>4. /\ at' \in [Task -> [step : Step, block : Block,
                           part : Nat \ {0}]]
      /\ at'[t] = [step |-> step, block |-> b, part |-> p]
      /\ \A u \in Task \ {t} : at'[u] = at[u]
  BY <1>1, <1>2, <1>3, Zenon
<1>5. ASSUME NEW u \in Task PROVE at'[u].step \in Place[u]
  <2>1. CASE u = t
    BY <1>4, <2>1
  <2>2. CASE u # t
    BY <1>4, <2>2 DEF TypeOK, KernelType
  <2> QED BY <2>1, <2>2
<1> QED
  BY <1>4, <1>5 DEF Goto

(* A step at a block goes to the next one or out of the loop. *)
LEMMA NextBlockGoes ==
  ASSUME TypeOK, NEW t \in Task, NEW step, NEW after, NextBlock(t, step, after)
  PROVE  \/ at[t].block + 1 \in Block /\ Goto(t, step, at[t].block + 1, 1)
         \/ 1 \in Block /\ Goto(t, after, 1, 1)
BY TasksAssumption DEF NextBlock, TypeOK, KernelType, Block

LEMMA GotoKernel ==
  ASSUME TypeOK, NEW t \in Task, NEW step \in Place[t], NEW b \in Block,
         NEW p \in Nat \ {0}, Goto(t, step, b, p),
         t = "getColor" /\ step = "sample" => p <= NumParts,
         t = "getColor" /\ step = "average" => p <= NumChannels,
         t = "writeLed" => p <= NumChannels
  PROVE  KernelType'
<1>1. /\ at' \in [Task -> [step : Step, block : Block, part : Nat \ {0}]]
      /\ \A u \in Task : at'[u].step \in Place[u]
      /\ at'[t] = [step |-> step, block |-> b, part |-> p]
      /\ \A u \in Task \ {t} : at'[u] = at[u]
      /\ delay' = delay
  BY GotoType
<1>2. /\ at'["getColor"].step = "sample" => at'["getColor"].part <= NumParts
      /\ at'["getColor"].step = "average" => at'["getColor"].part <= NumChannels
  <2>1. CASE t = "getColor"
    BY <1>1, <2>1
  <2>2. CASE t # "getColor"
    BY <1>1, <2>2 DEF Task, TypeOK, KernelType
  <2> QED BY <2>1, <2>2
<1>3. at'["writeLed"].part <= NumChannels
  <2>1. CASE t = "writeLed"
    BY <1>1, <2>1
  <2>2. CASE t # "writeLed"
    BY <1>1, <2>2 DEF Task, TypeOK, KernelType
  <2> QED BY <2>1, <2>2
<1> QED
  BY <1>1, <1>2, <1>3, Zenon DEF KernelType, TypeOK

LEMMA NextBlockKernel ==
  ASSUME TypeOK, NEW t \in Task, NEW step \in Place[t], NEW after \in Place[t],
         NextBlock(t, step, after)
  PROVE  KernelType'
<1>1. 1 \in Nat \ {0} /\ 1 <= NumParts /\ 1 <= NumChannels
  BY TasksAssumption
<1>2. CASE at[t].block + 1 \in Block /\ Goto(t, step, at[t].block + 1, 1)
  BY <1>1, <1>2, GotoKernel
<1>3. CASE 1 \in Block /\ Goto(t, after, 1, 1)
  BY <1>1, <1>3, GotoKernel
<1> QED
  BY <1>2, <1>3, NextBlockGoes

LEMMA SleepKernel ==
  ASSUME TypeOK, NEW t \in Task, Sleep(t)
  PROVE  KernelType'
<1> USE TasksAssumption
<1>1. /\ delay' = [delay EXCEPT ![t] = Ticks(Milliseconds[t])]
      /\ at' = [at EXCEPT ![t] = [step |-> Start[t], block |-> 1, part |-> 1]]
  BY DEF Sleep
<1>2. Ticks(Milliseconds[t]) \in 0..2
  BY DelayTicks DEF Task
<1>3. Start[t] \in Place[t]
  BY DEF Task, Start, Place
<1>4. 1 \in Block
  BY DEF Block
<1>5. delay' \in [Task -> 0..2]
  BY <1>1, <1>2 DEF TypeOK, KernelType
<1>7. [step |-> Start[t], block |-> 1, part |-> 1]
        \in [step : Step, block : Block, part : Nat \ {0}]
  BY <1>3, <1>4, PlaceType
<1>8. /\ at' \in [Task -> [step : Step, block : Block,
                           part : Nat \ {0}]]
      /\ at'[t] = [step |-> Start[t], block |-> 1, part |-> 1]
      /\ \A u \in Task \ {t} : at'[u] = at[u]
  BY <1>1, <1>7, Zenon DEF TypeOK, KernelType
<1>9. ASSUME NEW u \in Task PROVE at'[u].step \in Place[u]
  <2>1. CASE u = t
    BY <1>3, <1>8, <2>1
  <2>2. CASE u # t
    BY <1>8, <2>2 DEF TypeOK, KernelType
  <2> QED BY <2>1, <2>2
<1>10. /\ at'["getColor"].step = "sample" => at'["getColor"].part <= NumParts
       /\ at'["getColor"].step = "average" => at'["getColor"].part <= NumChannels
       /\ at'["writeLed"].part <= NumChannels
  BY <1>8 DEF TypeOK, KernelType, Task
<1> QED
  BY <1>5, <1>8, <1>9, <1>10, Zenon DEF KernelType

(* What a step of a task leaves of the rest of TypeOK. *)
LEMMA DoesType ==
  ASSUME TypeOK, NEW t \in Task, NEW step, Does(t, step)
  PROVE  /\ switches' \in [Switch -> BOOLEAN]
         /\ picture' \in 1..MaxPictures /\ level' \in Levels
         /\ tickSteps' \in Paces /\ sinceTick' \in 0..tickSteps'
         /\ levels' \in 0..MaxLevels /\ moves' \in 0..MaxSwitches
         /\ seenPictures' \in PictureSets /\ seenLevels' \subseteq Levels
         /\ picture' = picture
         /\ at[t].step = step
BY TasksAssumption DEF Does, TypeOK, worldVars, seenVars

LEMMA TickType == ASSUME TypeOK, Tick PROVE TypeOK'
<1> USE TasksAssumption DEF kernelVars, overlayVars, worldVars, seenVars
<1>1. delay' \in [Task -> 0..2]
  BY DEF Tick, CountDown, TypeOK, KernelType
<1>2. KernelType'
  BY <1>1, Zenon DEF Tick, TypeOK, KernelType
<1>3. seenPictures' \in PictureSets /\ seenLevels' \subseteq Levels
  <2>1. {picture} \in PictureSets /\ {level} \subseteq Levels
    BY DEF TypeOK, PictureSets
  <2> QED BY <2>1 DEF Tick, TypeOK
<1>4. tickSteps' \in Paces /\ sinceTick' \in 0..tickSteps'
  BY DEF Tick, TypeOK
<1> QED
  BY <1>2, <1>3, <1>4 DEF Tick, TypeOK

LEMMA WorldType == ASSUME TypeOK, World PROVE TypeOK'
<1> USE TasksAssumption DEF Tasks, kernelVars, averagesVars, overlayVars, seenVars
<1>1. KernelType'
  BY Zenon DEF World, NewPicture, NewLevel, MoveSwitch, TypeOK, KernelType
<1>2. CASE NewPicture
  <2>1. picture' \in 1..MaxPictures
    BY <1>2 DEF NewPicture, TypeOK
  <2>2. seenPictures' \in PictureSets
    BY <1>2, <2>1 DEF NewPicture, TypeOK, PictureSets
  <2> QED BY <1>1, <1>2, <2>1, <2>2 DEF NewPicture, TypeOK
<1>3. CASE NewLevel
  BY <1>1, <1>3 DEF NewLevel, TypeOK
<1>4. CASE MoveSwitch
  <2>1. switches' \in [Switch -> BOOLEAN]
    BY <1>4 DEF MoveSwitch, TypeOK, Switch
  <2> QED BY <1>1, <1>4, <2>1 DEF MoveSwitch, TypeOK
<1> QED BY <1>2, <1>3, <1>4 DEF World

LEMMA GetColorType == ASSUME TypeOK, GetColor PROVE TypeOK'
<1> DEFINE t == "getColor"  b == at[t].block  p == at[t].part
<1> USE TasksAssumption
<1>1. t \in Task /\ b \in Block /\ p \in Nat \ {0} /\ total \in PictureSets
      /\ {} \in PictureSets /\ {picture} \in PictureSets
  BY DEF Task, TypeOK, KernelType, PictureSets
<1>2. /\ "sample" \in Place[t] /\ "average" \in Place[t] /\ "delay" \in Place[t]
  BY DEF Place
<1> HIDE DEF t, b, p
<1>3. CASE Sample
  <2>1. Does(t, "sample") /\ total' = total \cup {picture}
    BY <1>3 DEF Sample, t
  <2>4. KernelType'
    <3>1. CASE p < NumParts
      <4>1. p + 1 \in Nat \ {0} /\ p + 1 <= NumParts
        BY <1>1, <3>1
      <4>2. Goto(t, "sample", b, p + 1)
        BY <1>3, <3>1 DEF Sample, t, b, p
      <4> QED BY <1>1, <1>2, <4>1, <4>2, GotoKernel DEF t
    <3>2. CASE ~(p < NumParts)
      <4>1. Goto(t, "average", b, 1)
        BY <1>3, <3>2 DEF Sample, t, b, p
      <4> QED BY <1>1, <1>2, <4>1, GotoKernel DEF t
    <3> QED BY <3>1, <3>2
  <2>5. total' \in PictureSets
    BY <1>1, <2>1 DEF PictureSets
  <2> QED
    BY <1>1, <1>3, <2>1, <2>4, <2>5, DoesType DEF Sample, TypeOK, overlayVars
<1>4. CASE Average
  <2>1. Does(t, "average") /\ average' = [average EXCEPT ![b][p] = total]
    BY <1>4 DEF Average, t, b, p
  <2>2. p <= NumChannels /\ p \in Channel
    BY <1>1, <2>1, DoesType DEF TypeOK, KernelType, t, p, Channel
  <2>5. KernelType'
    <3>1. CASE p < NumChannels
      <4>1. Goto(t, "average", b, p + 1)
        BY <1>4, <3>1 DEF Average, t, b, p
      <4>2. p + 1 \in Nat \ {0} /\ p + 1 <= NumChannels
        BY <1>1, <3>1
      <4> QED BY <1>1, <1>2, <4>1, <4>2, GotoKernel DEF t
    <3>2. CASE ~(p < NumChannels)
      <4>1. NextBlock(t, "sample", "delay")
        BY <1>4, <3>2 DEF Average, t, b, p
      <4> QED BY <1>1, <1>2, <4>1, NextBlockKernel
    <3> QED BY <3>1, <3>2
  <2>6. total' \in PictureSets
    BY <1>1, <1>4 DEF Average, NextTotal
  <2>7. average' \in [Block -> [Channel -> PictureSets]]
    BY <1>1, <2>1, <2>2 DEF TypeOK
  <2> QED
    BY <1>1, <1>4, <2>1, <2>5, <2>6, <2>7, DoesType DEF Average, TypeOK, overlayVars
<1>5. CASE GetColorDelay
  <2>1. Sleep(t) /\ Does(t, "delay")
    BY <1>5 DEF GetColorDelay, Sleep, t
  <2>2. KernelType'
    BY <1>1, <2>1, SleepKernel
  <2>3. total' \in PictureSets
    BY <1>1, <1>5 DEF GetColorDelay, PictureSets, Garbage
  <2> QED
    BY <1>1, <1>5, <2>1, <2>2, <2>3, DoesType DEF GetColorDelay, TypeOK, overlayVars
<1> QED BY <1>3, <1>4, <1>5 DEF GetColor

LEMMA WriteLedType == ASSUME TypeOK, WriteLed PROVE TypeOK'
<1> DEFINE t == "writeLed"  b == at[t].block  c == at[t].part
<1> USE TasksAssumption
<1>1. /\ t \in Task /\ b \in Block /\ c \in Nat \ {0} /\ c <= NumChannels /\ c \in Channel
      /\ pixel[c] \in Colour /\ average[b][c] \in PictureSets /\ level \in Levels
  BY DEF Task, TypeOK, KernelType, Channel
<1>2. \A step \in {"copy", "scale", "store", "delay"} : step \in Place[t]
  BY DEF Place
<1> HIDE DEF t, b, c
<1>3. ASSUME NEW step \in {"copy", "scale", "store"}, NEW next \in {"scale", "store"},
             WriteLedGoto(step, c, next)
      PROVE  KernelType'
  <2>1. CASE c < NumChannels
    <3>1. c + 1 \in Nat \ {0} /\ c + 1 <= NumChannels
      BY <1>1, <2>1
    <3>2. Goto(t, step, b, c + 1)
      BY <1>3, <2>1 DEF WriteLedGoto, t, b
    <3> QED BY <1>1, <1>2, <3>1, <3>2, GotoKernel DEF t
  <2>2. CASE ~(c < NumChannels)
    <3>1. Goto(t, next, b, 1)
      BY <1>3, <2>2 DEF WriteLedGoto, t, b
    <3> QED BY <1>1, <1>2, <3>1, GotoKernel DEF t
  <2> QED BY <2>1, <2>2
<1>4. CASE Copy
  <2>1. Does(t, "copy") /\ pixel' = [pixel EXCEPT ![c].pictures = average[b][c]]
    BY <1>4 DEF Copy, t, b, c
  <2>2. KernelType'
    BY <1>3, <1>4 DEF Copy, t, c
  <2>3. pixel' \in [Channel -> Colour]
    BY <1>1, <2>1 DEF TypeOK, Colour
  <2> QED
    BY <1>1, <1>4, <2>1, <2>2, <2>3, DoesType DEF Copy, TypeOK, overlayVars
<1>5. CASE Scale
  <2>1. Does(t, "scale") /\ pixel' = [pixel EXCEPT ![c].level = level]
    BY <1>5 DEF Scale, ScaleWith, t, c
  <2>2. KernelType'
    BY <1>3, <1>5 DEF Scale, t, c
  <2>3. pixel' \in [Channel -> Colour]
    BY <1>1, <2>1 DEF TypeOK, Colour
  <2> QED
    BY <1>1, <1>5, <2>1, <2>2, <2>3, DoesType DEF Scale, TypeOK, overlayVars
<1>6. CASE Store
  <2>1. Does(t, "store") /\ ledBuffer' = [ledBuffer EXCEPT ![b][c] = pixel[c]]
    BY <1>6 DEF Store, t, b, c
  <2>2. KernelType'
    <3>1. CASE c < NumChannels
      <4>1. c + 1 \in Nat \ {0} /\ c + 1 <= NumChannels
        BY <1>1, <3>1
      <4>2. Goto(t, "store", b, c + 1)
        BY <1>6, <3>1 DEF Store, t, b, c
      <4> QED BY <1>1, <1>2, <4>1, <4>2, GotoKernel DEF t
    <3>2. CASE ~(c < NumChannels)
      <4>1. NextBlock(t, "copy", "delay")
        BY <1>6, <3>2 DEF Store, t, c
      <4> QED BY <1>1, <1>2, <4>1, NextBlockKernel
    <3> QED BY <3>1, <3>2
  <2>3. ledBuffer' \in [Block -> [Channel -> Colour]]
    BY <1>1, <2>1 DEF TypeOK
  <2> QED
    BY <1>1, <1>6, <2>1, <2>2, <2>3, DoesType DEF Store, TypeOK, overlayVars
<1>7. CASE WriteLedDelay
  <2>1. Sleep(t) /\ Does(t, "delay")
    BY <1>7 DEF WriteLedDelay, Sleep, t
  <2>2. KernelType'
    BY <1>1, <2>1, SleepKernel
  <2> QED
    BY <1>1, <1>7, <2>1, <2>2, DoesType DEF WriteLedDelay, TypeOK, overlayVars
<1> QED BY <1>4, <1>5, <1>6, <1>7 DEF WriteLed

LEMMA SetOverlayType == ASSUME TypeOK, SetOverlay PROVE TypeOK'
<1> DEFINE t == "setOverlay"  b == at[t].block
<1> USE TasksAssumption
<1>1. t \in Task /\ b \in Block /\ 1 \in Block /\ 1 \in Nat \ {0}
  BY DEF Task, TypeOK, KernelType, Block
<1>2. \A step \in {"switch0", "draw", "erase", "switch1", "fill", "clear", "delay"} :
        step \in Place[t]
  BY DEF Place
<1>3. t # "getColor" /\ t # "writeLed"
  OBVIOUS
<1> HIDE DEF t, b
<1>4. CASE ReadSwitch0
  <2>1. Does(t, "switch0")
    BY <1>4 DEF ReadSwitch0, t
  <2>2. \E step \in {"draw", "erase", "switch1"} : Goto(t, step, 1, 1)
    BY <1>4 DEF ReadSwitch0, t
  <2>3. KernelType'
    BY <1>1, <1>2, <1>3, <2>2, GotoKernel
  <2>4. indicators' \in [Switch -> BOOLEAN]
    BY <1>4 DEF ReadSwitch0, TypeOK, Switch
  <2> QED
    BY <1>1, <1>4, <2>1, <2>3, <2>4, DoesType DEF ReadSwitch0, TypeOK, averagesVars
<1>5. CASE DrawBorder
  <2> PICK step \in {"draw", "erase"} :
        /\ Does(t, step)
        /\ border' = IF step = "draw" THEN border \cup {b} ELSE border \ {b}
        /\ NextBlock(t, step, "switch1")
        /\ overlayStatus' = IF b = NumBlocks THEN step = "draw" ELSE overlayStatus
        /\ UNCHANGED <<averagesVars, indicators, blockstatus, inner>>
    BY <1>5 DEF DrawBorder, t, b
  <2>1. KernelType'
    BY <1>1, <1>2, NextBlockKernel
  <2>2. border' \subseteq Block
    BY <1>1 DEF TypeOK
  <2>3. overlayStatus' \in BOOLEAN
    <3>1. overlayStatus \in BOOLEAN
      BY DEF TypeOK
    <3> QED BY <3>1
  <2> QED
    BY <1>1, <2>1, <2>2, <2>3, DoesType DEF TypeOK, averagesVars
<1>6. CASE ReadSwitch1
  <2>1. Does(t, "switch1")
    BY <1>6 DEF ReadSwitch1, t
  <2>2. \E step \in {"fill", "clear", "delay"} : Goto(t, step, 1, 1)
    BY <1>6 DEF ReadSwitch1, t
  <2>3. KernelType'
    BY <1>1, <1>2, <1>3, <2>2, GotoKernel
  <2>4. indicators' \in [Switch -> BOOLEAN]
    BY <1>6 DEF ReadSwitch1, TypeOK, Switch
  <2> QED
    BY <1>1, <1>6, <2>1, <2>3, <2>4, DoesType DEF ReadSwitch1, TypeOK, averagesVars
<1>7. CASE FillBlock
  <2> PICK step \in {"fill", "clear"} :
        /\ Does(t, step)
        /\ inner' = IF step = "fill" THEN inner \cup {b} ELSE inner \ {b}
        /\ NextBlock(t, step, "delay")
        /\ blockstatus' = IF b = NumBlocks THEN StatusAfter(step) ELSE blockstatus
        /\ UNCHANGED <<averagesVars, indicators, overlayStatus, border>>
    BY <1>7 DEF FillBlock, t, b
  <2>1. KernelType'
    BY <1>1, <1>2, NextBlockKernel
  <2>2. inner' \subseteq Block
    BY <1>1 DEF TypeOK
  <2>3. blockstatus' \in BOOLEAN
    <3>1. blockstatus \in BOOLEAN
      BY DEF TypeOK
    <3> QED BY <3>1 DEF StatusAfter
  <2> QED
    BY <1>1, <2>1, <2>2, <2>3, DoesType DEF TypeOK, averagesVars
<1>8. CASE SetOverlayDelay
  <2>1. Sleep(t) /\ Does(t, "delay")
    BY <1>8 DEF SetOverlayDelay, Sleep, t
  <2>2. KernelType'
    BY <1>1, <2>1, SleepKernel
  <2> QED
    BY <1>1, <1>8, <2>1, <2>2, DoesType DEF SetOverlayDelay, TypeOK, overlayVars, averagesVars
<1> QED BY <1>4, <1>5, <1>6, <1>7, <1>8 DEF SetOverlay

LEMMA StepType == ASSUME TypeOK, [Next]_vars PROVE TypeOK'
<1>1. CASE UNCHANGED vars
  <2>1. KernelType'
    BY <1>1, Zenon DEF vars, kernelVars, TypeOK, KernelType
  <2> QED BY <1>1, <2>1 DEF vars, overlayVars, worldVars, seenVars, TypeOK
<1> QED
  BY <1>1, TickType, GetColorType, WriteLedType, SetOverlayType, WorldType DEF Next

(* The tasks, the kernel and the overlay keep every variable of the model  *)
(* in its type: a delay is at most two ticks, a loop never leaves the      *)
(* blocks and channels there are.                                          *)
THEOREM TypeCorrect == Spec => []TypeOK
<1>1. Init => TypeOK
  BY InitType
<1>2. TypeOK /\ [Next]_vars => TypeOK'
  BY StepType
<1> QED BY <1>1, <1>2, PTL DEF Spec

-----------------------------------------------------------------------------
(* The order by age.                                                       *)
LEMMA Ages ==
  /\ \A S : NotNewer(S, {}) /\ NotNewer({}, S) /\ NotNewer({Garbage}, S)
  /\ \A S, T, U : NotNewer(S, T) /\ NotNewer(S, U) => NotNewer(S, T \cup U)
  /\ \A S, T, U : NotNewer(S, U) /\ NotNewer(T, U) => NotNewer(S \cup T, U)
  /\ \A n \in Nat : NotNewer({n}, {n})
  /\ \A S \in PictureSets, n \in Nat \ {0} : NotNewer(S, {n}) => NotNewer(S, {n + 1})
<1>1. \A S : NotNewer(S, {}) /\ NotNewer({}, S) /\ NotNewer({Garbage}, S)
  BY DEF NotNewer
<1>2. \A S, T, U : NotNewer(S, T) /\ NotNewer(S, U) => NotNewer(S, T \cup U)
  BY DEF NotNewer
<1>3. \A S, T, U : NotNewer(S, U) /\ NotNewer(T, U) => NotNewer(S \cup T, U)
  BY DEF NotNewer
<1>4. \A n \in Nat : NotNewer({n}, {n})
  BY DEF NotNewer
<1>5. ASSUME NEW S \in PictureSets, NEW n \in Nat \ {0}, NotNewer(S, {n})
      PROVE  NotNewer(S, {n + 1})
  <2>1. \A p \in S : p \in Int
    BY TasksAssumption DEF PictureSets
  <2>2. ASSUME NEW p \in S \ {Garbage}, NEW q \in {n + 1} \ {Garbage} PROVE p <= q
    <3>1. p <= n
      BY <1>5 DEF NotNewer, Garbage
    <3> QED BY <2>1, <3>1
  <2> QED BY <2>2 DEF NotNewer
<1> QED BY <1>1, <1>2, <1>3, <1>4, <1>5

(* Steps that leave the averages, what is on its way to them and what      *)
(* comes from them as they are.                                            *)
Untouched ==
  /\ UNCHANGED <<total, average, pixel, ledBuffer, picture>>
  /\ at'["getColor"] = at["getColor"] /\ at'["writeLed"] = at["writeLed"]

LEMMA UntouchedOrder == ASSUME Order, Untouched PROVE Order'
<1>1. TotalOrder'
  BY DEF Order, Untouched, TotalOrder
<1>2. \A b, c : (Pending(b, c) <=> Pending(b, c)') /\ (Copied(c) <=> Copied(c)')
  BY DEF Untouched, Pending, Copied
<1>3. AverageOrder'
  BY <1>2 DEF Order, Untouched, AverageOrder
<1>4. LedOrder'
  BY <1>2 DEF Order, Untouched, LedOrder
<1>5. PixelOrder'
  BY <1>2 DEF Order, Untouched, PixelOrder
<1> QED BY <1>1, <1>3, <1>4, <1>5 DEF Order

LEMMA InitOrder == ASSUME Init PROVE Order
<1>1. /\ \A b \in Block, c \in Channel : average[b][c] = {}
      /\ \A c \in Channel : pixel[c].pictures = {}
      /\ \A b \in Block, c \in Channel : ledBuffer[b][c].pictures = {Garbage}
      /\ total \in {{}, {Garbage}}
  BY DEF Init
<1>2. at["getColor"].step = "sample" /\ at["writeLed"].step = "copy"
  BY DEF Init, Task, Start
<1>3. \A T : Follows({Garbage}, T) /\ Follows({}, T)
  BY Ages DEF Follows
<1>4. TotalOrder
  <2>1. NotNewer({}, {picture}) /\ NotNewer({Garbage}, {picture})
    BY Ages
  <2> QED BY <1>1, <1>2, <2>1 DEF TotalOrder
<1>5. AverageOrder
  <2>1. \A S : NotNewer({}, S)
    BY Ages
  <2>2. ASSUME NEW b \in Block, NEW c \in Channel
        PROVE  NotNewer(average[b][c], {picture}) /\ NotNewer(average[b][c], total)
    <3>1. average[b][c] = {}
      BY <1>1
    <3> QED BY <2>1, <3>1
  <2> QED BY <2>2 DEF AverageOrder
<1>6. LedOrder
  <2>1. ASSUME NEW b \in Block, NEW c \in Channel
        PROVE  ledBuffer[b][c].pictures = {Garbage}
    BY <1>1
  <2>2. \A S : NotNewer({Garbage}, S)
    BY Ages
  <2> QED BY <1>3, <2>1, <2>2 DEF LedOrder
<1>7. PixelOrder
  <2>1. \A c \in Channel : pixel[c].pictures = {}
    BY <1>1
  <2>2. \A S : NotNewer({}, S)
    BY Ages
  <2> QED BY <1>1, <1>3, <2>1, <2>2 DEF PixelOrder
<1> QED BY <1>4, <1>5, <1>6, <1>7 DEF Order

(* Does leaves the other tasks where they are. *)
LEMMA OtherTask ==
  ASSUME TypeOK, NEW t \in Task, NEW u \in Task \ {t}, NEW step, NEW b, NEW p,
         Goto(t, step, b, p)
  PROVE  at'[u] = at[u] /\ at'[t] = [step |-> step, block |-> b, part |-> p]
BY DEF Goto, TypeOK, KernelType

LEMMA SampleOrder == ASSUME IInv, Sample PROVE Order'
<1> DEFINE b == at["getColor"].block  p == at["getColor"].part
<1>1. /\ total' = total \cup {picture} /\ picture' = picture
      /\ UNCHANGED <<average, pixel, ledBuffer>>
      /\ at["getColor"].step = "sample"
  BY DEF Sample, Does, worldVars
<1>2. Goto("getColor", "sample", b, p + 1) \/ Goto("getColor", "average", b, 1)
  BY DEF Sample
<1>3. /\ at'["getColor"].step \in {"sample", "average"}
      /\ at'["getColor"].block = b
      /\ at'["writeLed"] = at["writeLed"]
  <2>1. "getColor" \in Task /\ "writeLed" \in Task \ {"getColor"}
    BY DEF Task
  <2>2. CASE Goto("getColor", "sample", b, p + 1)
    <3>1. /\ at'["getColor"] = [step |-> "sample", block |-> b, part |-> p + 1]
          /\ \A u \in Task \ {"getColor"} : at'[u] = at[u]
      BY <2>1, <2>2, OtherTask DEF IInv
    <3> QED BY <2>1, <2>2, <3>1
  <2>3. CASE Goto("getColor", "average", b, 1)
    <3>1. /\ at'["getColor"] = [step |-> "average", block |-> b, part |-> 1]
          /\ \A u \in Task \ {"getColor"} : at'[u] = at[u]
      BY <2>1, <2>3, OtherTask DEF IInv
    <3> QED BY <2>1, <2>3, <3>1
  <2> QED BY <1>2, <2>2, <2>3
<1>4. \A x, c : Pending(x, c)' => Pending(x, c)
  BY <1>1, <1>3 DEF Pending
<1>5. \A c : Copied(c) <=> Copied(c)'
  BY <1>3 DEF Copied
<1>6. picture \in Nat
  BY DEF IInv, TypeOK
<1>7. TotalOrder'
  BY <1>1, <1>3, <1>6, Ages DEF IInv, Order, TotalOrder
<1>8. AverageOrder'
  BY <1>1, <1>4, Ages DEF IInv, Order, AverageOrder
<1>9. LedOrder'
  BY <1>1, <1>4, Ages DEF IInv, Order, LedOrder
<1>10. PixelOrder'
  BY <1>1, <1>3, <1>4, <1>5, Ages DEF IInv, Order, PixelOrder
<1> QED BY <1>7, <1>8, <1>9, <1>10 DEF Order

LEMMA AverageStepOrder == ASSUME IInv, Average PROVE Order'
<1> DEFINE b == at["getColor"].block  d == at["getColor"].part
<1>1. /\ average' = [average EXCEPT ![b][d] = total] /\ picture' = picture
      /\ UNCHANGED <<pixel, ledBuffer>>
      /\ at["getColor"].step = "average"
  BY DEF Average, Does, worldVars
<1>2. b \in Block /\ d \in Channel
  BY <1>1 DEF IInv, TypeOK, KernelType, Task, Channel
<1>3. \A x \in Block, c \in Channel :
        average'[x][c] = IF x = b /\ c = d THEN total ELSE average[x][c]
  BY <1>1, <1>2 DEF IInv, TypeOK
<1>4. Pending(b, d)
  BY <1>1, <1>2 DEF Pending, Channel
<1>5. /\ at'["writeLed"] = at["writeLed"]
      /\ \/ /\ total' = total
            /\ at'["getColor"] = [step |-> "average", block |-> b, part |-> d + 1]
         \/ /\ total' = {}
            /\ at'["getColor"].step \in {"sample", "delay"}
  <2>1. "getColor" \in Task /\ "writeLed" \in Task \ {"getColor"}
    BY DEF Task
  <2>2. CASE d < NumChannels
    BY <2>1, <2>2, OtherTask DEF Average, IInv
  <2>3. CASE ~(d < NumChannels)
    <3>1. total' = {} /\ NextBlock("getColor", "sample", "delay")
      BY <2>3 DEF Average, NextTotal
    <3>2. \/ Goto("getColor", "sample", b + 1, 1)
          \/ Goto("getColor", "delay", 1, 1)
      BY <2>1, <3>1, NextBlockGoes DEF IInv
    <3>3. CASE Goto("getColor", "sample", b + 1, 1)
      <4>1. /\ at'["getColor"] = [step |-> "sample", block |-> b + 1, part |-> 1]
            /\ \A u \in Task \ {"getColor"} : at'[u] = at[u]
        BY <2>1, <3>1, <3>3, OtherTask DEF IInv
      <4> QED BY <2>1, <3>1, <3>3, <4>1
    <3>4. CASE Goto("getColor", "delay", 1, 1)
      <4>1. /\ at'["getColor"] = [step |-> "delay", block |-> 1, part |-> 1]
            /\ \A u \in Task \ {"getColor"} : at'[u] = at[u]
        BY <2>1, <3>1, <3>4, OtherTask DEF IInv
      <4> QED BY <2>1, <3>1, <3>4, <4>1
    <3> QED BY <3>2, <3>3, <3>4
  <2> QED BY <2>2, <2>3
<1>6. \A x \in Block, c \in Channel :
        Pending(x, c)' => \/ total' = {}
                          \/ total' = total /\ Pending(x, c) /\ ~(x = b /\ c = d)
  BY <1>1, <1>2, <1>5 DEF Pending, Channel
<1>7. \A c : Copied(c) <=> Copied(c)'
  BY <1>5 DEF Copied
<1>8. TotalOrder'
  <2>1. NotNewer({}, {picture})
    BY Ages
  <2> QED BY <1>1, <1>5, <2>1 DEF IInv, Order, TotalOrder
<1>9. ASSUME NEW x \in Block, NEW c \in Channel
      PROVE  /\ NotNewer(average'[x][c], {picture})
             /\ Pending(x, c)' => NotNewer(average'[x][c], total')
  <2>1. NotNewer(total, {picture}) /\ NotNewer(average[x][c], {picture})
    BY DEF IInv, Order, TotalOrder, AverageOrder
  <2>2. Pending(x, c) => NotNewer(average[x][c], total)
    BY DEF IInv, Order, AverageOrder
  <2>3. NotNewer(average'[x][c], {})
    BY Ages
  <2> QED BY <1>3, <1>6, <2>1, <2>2, <2>3
<1>10. ASSUME NEW x \in Block, NEW c \in Channel, NEW S,
              Follows(S, average[x][c]), Pending(x, c) => NotNewer(S, total)
       PROVE  Follows(S, average'[x][c]) /\ (Pending(x, c)' => NotNewer(S, total'))
  <2>1. NotNewer(S, {})
    BY Ages
  <2>2. Pending(x, c)' => NotNewer(S, total')
    BY <1>6, <1>10, <2>1
  <2>3. Follows(S, average'[x][c])
    <3>1. CASE x = b /\ c = d
      <4>1. NotNewer(S, total)
        BY <1>4, <1>10, <3>1
      <4> QED BY <1>2, <1>3, <3>1, <4>1 DEF Follows
    <3>2. CASE ~(x = b /\ c = d)
      BY <1>3, <1>10, <3>2
    <3> QED BY <3>1, <3>2
  <2> QED BY <2>2, <2>3
<1>11. AverageOrder'
  BY <1>1, <1>9 DEF AverageOrder
<1>12. LedOrder'
  BY <1>1, <1>10 DEF IInv, Order, LedOrder
<1>13. PixelOrder'
  BY <1>1, <1>5, <1>7, <1>10 DEF IInv, Order, PixelOrder
<1> QED BY <1>8, <1>11, <1>12, <1>13 DEF Order

LEMMA GetColorDelayOrder == ASSUME IInv, GetColorDelay PROVE Order'
<1>1. /\ picture' = picture /\ UNCHANGED <<average, pixel, ledBuffer>>
      /\ at["getColor"].step = "delay" /\ total' \in {total, {Garbage}}
      /\ at' = [at EXCEPT !["getColor"] =
                  [step |-> Start["getColor"], block |-> 1, part |-> 1]]
  BY DEF GetColorDelay, Sleep, Does, worldVars
<1>2. at'["writeLed"] = at["writeLed"] /\ at'["getColor"].step = "sample"
  BY <1>1 DEF IInv, TypeOK, KernelType, Task, Start
<1>3. \A c : Copied(c) <=> Copied(c)'
  BY <1>2 DEF Copied
<1>4. total' \in {{}, {Garbage}}
  BY <1>1 DEF IInv, Order, TotalOrder
<1>5. \A S : NotNewer(S, total') /\ NotNewer(total', S)
  BY <1>4 DEF NotNewer
<1>6. TotalOrder'
  BY <1>2, <1>5 DEF TotalOrder
<1>7. AverageOrder'
  BY <1>1, <1>5 DEF IInv, Order, AverageOrder
<1>8. LedOrder'
  BY <1>1, <1>5 DEF IInv, Order, LedOrder
<1>9. PixelOrder'
  BY <1>1, <1>2, <1>3, <1>5 DEF IInv, Order, PixelOrder
<1> QED BY <1>6, <1>7, <1>8, <1>9 DEF Order

LEMMA CopyOrder == ASSUME IInv, Copy PROVE Order'
<1> DEFINE b == at["writeLed"].block  d == at["writeLed"].part
<1>1. /\ pixel' = [pixel EXCEPT ![d].pictures = average[b][d]] /\ picture' = picture
      /\ UNCHANGED <<total, average, ledBuffer>>
      /\ at["writeLed"].step = "copy"
  BY DEF Copy, Does, worldVars
<1>2. b \in Block /\ d \in Channel
  BY DEF IInv, TypeOK, KernelType, Task, Channel
<1>3. \A c \in Channel :
        pixel'[c].pictures = IF c = d THEN average[b][d] ELSE pixel[c].pictures
  BY <1>1, <1>2 DEF IInv, TypeOK, Colour
<1>4. /\ at'["getColor"] = at["getColor"]
      /\ \/ at'["writeLed"] = [step |-> "copy", block |-> b, part |-> d + 1]
         \/ d = NumChannels /\ at'["writeLed"] = [step |-> "scale", block |-> b, part |-> 1]
  <2>1. "writeLed" \in Task /\ "getColor" \in Task \ {"writeLed"}
    BY DEF Task
  <2>2. CASE d < NumChannels
    BY <2>1, <2>2, OtherTask DEF Copy, WriteLedGoto, IInv
  <2>3. CASE ~(d < NumChannels)
    BY <1>2, <2>1, <2>3, OtherTask, TasksAssumption DEF Copy, WriteLedGoto, IInv, Channel
  <2> QED BY <2>2, <2>3
<1>5. \A x, c : Pending(x, c) <=> Pending(x, c)'
  BY <1>4 DEF Pending
<1>6. \A c \in Channel : Copied(c)' => c = d \/ Copied(c)
  BY <1>1, <1>2, <1>4, TasksAssumption DEF Copied, Channel
<1>7. at'["writeLed"].block = b
  BY <1>4
<1>8. TotalOrder' /\ AverageOrder' /\ LedOrder'
  BY <1>1, <1>4, <1>5 DEF IInv, Order, TotalOrder, AverageOrder, LedOrder
<1>9. PixelOrder'
  <2> SUFFICES ASSUME NEW c \in Channel, Copied(c)'
               PROVE  /\ NotNewer(pixel'[c].pictures, {picture})
                      /\ Follows(ledBuffer[b][c].pictures, pixel'[c].pictures)
                      /\ Follows(pixel'[c].pictures, average[b][c])
                      /\ Pending(b, c) => NotNewer(pixel'[c].pictures, total)
    BY <1>1, <1>5, <1>7 DEF PixelOrder
  <2>1. CASE c = d
    BY <1>2, <1>3, <2>1 DEF IInv, Order, AverageOrder, LedOrder, Follows
  <2>2. CASE c # d
    BY <1>2, <1>3, <1>6, <2>2 DEF IInv, Order, PixelOrder
  <2> QED BY <2>1, <2>2
<1> QED BY <1>8, <1>9 DEF Order

LEMMA ScaleOrder == ASSUME IInv, Scale PROVE Order'
<1> DEFINE b == at["writeLed"].block  d == at["writeLed"].part
<1>1. /\ pixel' = [pixel EXCEPT ![d].level = level] /\ picture' = picture
      /\ UNCHANGED <<total, average, ledBuffer>>
      /\ at["writeLed"].step = "scale"
  BY DEF Scale, ScaleWith, Does, worldVars
<1>2. \A c \in Channel : pixel'[c].pictures = pixel[c].pictures
  BY <1>1 DEF IInv, TypeOK, Colour
<1>3. /\ at'["getColor"] = at["getColor"]
      /\ at'["writeLed"].step \in {"scale", "store"} /\ at'["writeLed"].block = b
  <2>1. "writeLed" \in Task /\ "getColor" \in Task \ {"writeLed"}
    BY DEF Task
  <2>2. Goto("writeLed", "scale", b, d + 1) \/ Goto("writeLed", "store", b, 1)
    BY DEF Scale, WriteLedGoto
  <2>3. CASE Goto("writeLed", "scale", b, d + 1)
    <3>1. /\ at'["writeLed"] = [step |-> "scale", block |-> b, part |-> d + 1]
          /\ \A u \in Task \ {"writeLed"} : at'[u] = at[u]
      BY <2>1, <2>3, OtherTask DEF IInv
    <3> QED BY <2>1, <2>3, <3>1
  <2>4. CASE Goto("writeLed", "store", b, 1)
    <3>1. /\ at'["writeLed"] = [step |-> "store", block |-> b, part |-> 1]
          /\ \A u \in Task \ {"writeLed"} : at'[u] = at[u]
      BY <2>1, <2>4, OtherTask DEF IInv
    <3> QED BY <2>1, <2>4, <3>1
  <2> QED BY <2>2, <2>3, <2>4
<1>4. /\ \A x, c : Pending(x, c) <=> Pending(x, c)'
      /\ \A c : Copied(c) /\ Copied(c)'
  BY <1>1, <1>3 DEF Pending, Copied
<1>5. TotalOrder' /\ AverageOrder' /\ LedOrder'
  BY <1>1, <1>3, <1>4 DEF IInv, Order, TotalOrder, AverageOrder, LedOrder
<1>6. PixelOrder'
  BY <1>1, <1>2, <1>3, <1>4 DEF IInv, Order, PixelOrder
<1> QED BY <1>5, <1>6 DEF Order

LEMMA StoreOrder == ASSUME IInv, Store PROVE Order'
<1> DEFINE b == at["writeLed"].block  d == at["writeLed"].part
<1>1. /\ ledBuffer' = [ledBuffer EXCEPT ![b][d] = pixel[d]] /\ picture' = picture
      /\ UNCHANGED <<total, average, pixel>>
      /\ at["writeLed"].step = "store"
  BY DEF Store, Does, worldVars
<1>2. b \in Block /\ d \in Channel
  BY DEF IInv, TypeOK, KernelType, Task, Channel
<1>3. \A x \in Block, c \in Channel :
        ledBuffer'[x][c] = IF x = b /\ c = d THEN pixel[d] ELSE ledBuffer[x][c]
  BY <1>1, <1>2 DEF IInv, TypeOK
<1>4. /\ at'["getColor"] = at["getColor"]
      /\ \/ at'["writeLed"].step = "store" /\ at'["writeLed"].block = b
         \/ at'["writeLed"].step = "copy" /\ at'["writeLed"].part = 1
         \/ at'["writeLed"].step = "delay"
  <2>1. "writeLed" \in Task /\ "getColor" \in Task \ {"writeLed"}
    BY DEF Task
  <2>2. \/ Goto("writeLed", "store", b, d + 1)
        \/ Goto("writeLed", "copy", b + 1, 1)
        \/ Goto("writeLed", "delay", 1, 1)
    BY DEF Store, NextBlock
  <2>3. CASE Goto("writeLed", "store", b, d + 1)
    <3>1. /\ at'["writeLed"] = [step |-> "store", block |-> b, part |-> d + 1]
          /\ \A u \in Task \ {"writeLed"} : at'[u] = at[u]
      BY <2>1, <2>3, OtherTask DEF IInv
    <3> QED BY <2>1, <2>3, <3>1
  <2>4. CASE Goto("writeLed", "copy", b + 1, 1)
    <3>1. /\ at'["writeLed"] = [step |-> "copy", block |-> b + 1, part |-> 1]
          /\ \A u \in Task \ {"writeLed"} : at'[u] = at[u]
      BY <2>1, <2>4, OtherTask DEF IInv
    <3> QED BY <2>1, <2>4, <3>1
  <2>5. CASE Goto("writeLed", "delay", 1, 1)
    <3>1. /\ at'["writeLed"] = [step |-> "delay", block |-> 1, part |-> 1]
          /\ \A u \in Task \ {"writeLed"} : at'[u] = at[u]
      BY <2>1, <2>5, OtherTask DEF IInv
    <3> QED BY <2>1, <2>5, <3>1
  <2> QED BY <2>2, <2>3, <2>4, <2>5
<1>5. \A x, c : Pending(x, c) <=> Pending(x, c)'
  BY <1>4 DEF Pending
<1>6. TotalOrder' /\ AverageOrder'
  BY <1>1, <1>4, <1>5 DEF IInv, Order, TotalOrder, AverageOrder
<1>7. Copied(d)
  BY <1>1 DEF Copied
<1>8. LedOrder'
  <2> SUFFICES ASSUME NEW x \in Block, NEW c \in Channel
               PROVE  /\ NotNewer(ledBuffer'[x][c].pictures, {picture})
                      /\ Follows(ledBuffer'[x][c].pictures, average[x][c])
                      /\ Pending(x, c) => NotNewer(ledBuffer'[x][c].pictures, total)
    BY <1>1, <1>5 DEF LedOrder
  <2>1. CASE x = b /\ c = d
    BY <1>2, <1>3, <1>7, <2>1 DEF IInv, Order, PixelOrder
  <2>2. CASE ~(x = b /\ c = d)
    BY <1>3, <2>2 DEF IInv, Order, LedOrder
  <2> QED BY <2>1, <2>2
<1>9. PixelOrder'
  <2>1. CASE at'["writeLed"].step = "store" /\ at'["writeLed"].block = b
    <3> SUFFICES ASSUME NEW c \in Channel
                 PROVE  /\ NotNewer(pixel[c].pictures, {picture})
                        /\ Follows(ledBuffer'[b][c].pictures, pixel[c].pictures)
                        /\ Follows(pixel[c].pictures, average[b][c])
                        /\ Pending(b, c) => NotNewer(pixel[c].pictures, total)
      BY <1>1, <1>5, <2>1 DEF PixelOrder
    <3>1. /\ NotNewer(pixel[c].pictures, {picture})
          /\ Follows(ledBuffer[b][c].pictures, pixel[c].pictures)
          /\ Follows(pixel[c].pictures, average[b][c])
          /\ Pending(b, c) => NotNewer(pixel[c].pictures, total)
      BY <1>1, <1>2 DEF IInv, Order, PixelOrder, Copied
    <3>2. Follows(ledBuffer'[b][c].pictures, pixel[c].pictures)
      BY <1>2, <1>3, <3>1 DEF Follows
    <3> QED BY <3>1, <3>2
  <2>2. CASE ~(at'["writeLed"].step = "store")
    <3>1. \A c \in Channel : ~Copied(c)'
      BY <1>4, <2>2 DEF Copied, Channel
    <3> QED BY <3>1 DEF PixelOrder
  <2> QED BY <1>4, <2>1, <2>2
<1> QED BY <1>6, <1>8, <1>9 DEF Order

LEMMA WriteLedDelayOrder == ASSUME IInv, WriteLedDelay PROVE Order'
<1>1. /\ picture' = picture /\ UNCHANGED <<total, average, pixel, ledBuffer>>
      /\ at' = [at EXCEPT !["writeLed"] =
                  [step |-> Start["writeLed"], block |-> 1, part |-> 1]]
  BY DEF WriteLedDelay, Sleep, Does, worldVars
<1>2. /\ at'["getColor"] = at["getColor"]
      /\ at'["writeLed"].step = "copy" /\ at'["writeLed"].part = 1
  BY <1>1 DEF IInv, TypeOK, KernelType, Task, Start
<1>3. /\ \A x, c : Pending(x, c) <=> Pending(x, c)'
      /\ \A c \in Channel : ~Copied(c)'
  BY <1>2 DEF Pending, Copied, Channel
<1>4. TotalOrder' /\ AverageOrder' /\ LedOrder'
  BY <1>1, <1>2, <1>3 DEF IInv, Order, TotalOrder, AverageOrder, LedOrder
<1>5. PixelOrder'
  BY <1>3 DEF PixelOrder
<1> QED BY <1>4, <1>5 DEF Order

LEMMA NewPictureOrder == ASSUME IInv, NewPicture PROVE Order'
<1>1. /\ picture' = picture + 1 /\ picture \in Nat \ {0}
      /\ UNCHANGED <<at, total, average, pixel, ledBuffer>>
  BY DEF NewPicture, Tasks, kernelVars, averagesVars, IInv, TypeOK
<1>2. /\ \A x, c : Pending(x, c) <=> Pending(x, c)'
      /\ \A c : Copied(c) <=> Copied(c)'
  BY <1>1 DEF Pending, Copied
<1>3. /\ total \in PictureSets
      /\ \A b \in Block, c \in Channel : /\ average[b][c] \in PictureSets
                                         /\ pixel[c].pictures \in PictureSets
                                         /\ ledBuffer[b][c].pictures \in PictureSets
  BY DEF IInv, TypeOK, Colour
<1>4. \A S \in PictureSets : NotNewer(S, {picture}) => NotNewer(S, {picture'})
  BY <1>1, Ages
<1>5. TotalOrder'
  BY <1>1, <1>3, <1>4 DEF IInv, Order, TotalOrder
<1>6. AverageOrder'
  BY <1>1, <1>2, <1>3, <1>4 DEF IInv, Order, AverageOrder
<1>7. LedOrder'
  BY <1>1, <1>2, <1>3, <1>4 DEF IInv, Order, LedOrder
<1>8. PixelOrder'
  BY <1>1, <1>2, <1>3, <1>4 DEF IInv, Order, PixelOrder
<1> QED BY <1>5, <1>6, <1>7, <1>8 DEF Order

(* The overlay task's place is not one the order depends on. *)
LEMMA OverlayUntouched == ASSUME TypeOK, SetOverlay PROVE Untouched
<1>1. "setOverlay" \in Task /\ "getColor" \in Task \ {"setOverlay"}
      /\ "writeLed" \in Task \ {"setOverlay"}
  BY DEF Task
<1>2. UNCHANGED <<total, average, pixel, ledBuffer, picture>>
  BY DEF SetOverlay, ReadSwitch0, DrawBorder, ReadSwitch1, FillBlock, SetOverlayDelay,
         Sleep, Does, averagesVars, worldVars
<1>3. \/ \E step, b : Goto("setOverlay", step, b, 1)
      \/ Sleep("setOverlay")
  BY DEF SetOverlay, ReadSwitch0, DrawBorder, ReadSwitch1, FillBlock, SetOverlayDelay,
         NextBlock
<1>4. CASE \E step, b : Goto("setOverlay", step, b, 1)
  BY <1>1, <1>2, <1>4, OtherTask DEF Untouched
<1>5. CASE Sleep("setOverlay")
  BY <1>2, <1>5 DEF Sleep, Untouched, TypeOK, KernelType
<1> QED BY <1>3, <1>4, <1>5

LEMMA StepOrder == ASSUME IInv, [Next]_vars PROVE Order'
<1>1. CASE UNCHANGED vars \/ Tick \/ NewLevel \/ MoveSwitch
  <2>1. Untouched
    BY <1>1 DEF vars, Tick, NewLevel, MoveSwitch, Tasks, kernelVars, averagesVars,
                worldVars, Untouched
  <2> QED BY <2>1, UntouchedOrder DEF IInv
<1>2. CASE GetColor
  BY <1>2, SampleOrder, AverageStepOrder, GetColorDelayOrder DEF GetColor
<1>3. CASE WriteLed
  BY <1>3, CopyOrder, ScaleOrder, StoreOrder, WriteLedDelayOrder DEF WriteLed
<1>4. CASE SetOverlay
  BY <1>4, OverlayUntouched, UntouchedOrder DEF IInv
<1>5. CASE NewPicture
  BY <1>5, NewPictureOrder
<1> QED BY <1>1, <1>2, <1>3, <1>4, <1>5 DEF Next, World

(* At every moment the totals, the averages, TaskWriteLed's copy and the   *)
(* LEDs are ordered by the age of the pictures they come from.             *)
THEOREM Invariant == Spec => []IInv
<1>1. Init => IInv
  BY InitType, InitOrder DEF IInv
<1>2. IInv /\ [Next]_vars => IInv'
  BY StepType, StepOrder DEF IInv
<1> QED BY <1>1, <1>2, PTL DEF Spec

(* Whatever the tick does, an LED never goes back to an older picture.     *)
THEOREM LedsNeverGoBack == Spec => NeverBack
<1> DEFINE Forward ==
      \A b \in Block, c \in Channel :
        LET old == ledBuffer[b][c].pictures  new == ledBuffer'[b][c].pictures IN
        old = new \/ NotNewer(old, new)
<1>1. ASSUME IInv, [Next]_vars PROVE [Forward]_vars
  <2>1. CASE UNCHANGED ledBuffer
    BY <2>1
  <2>2. CASE Store
    <3> DEFINE w == at["writeLed"].block  d == at["writeLed"].part
    <3>1. /\ ledBuffer' = [ledBuffer EXCEPT ![w][d] = pixel[d]]
          /\ at["writeLed"].step = "store"
      BY <2>2 DEF Store, Does
    <3>2. w \in Block /\ d \in Channel
      BY <1>1 DEF IInv, TypeOK, KernelType, Task, Channel
    <3>3. \A b \in Block, c \in Channel :
            ledBuffer'[b][c] = IF b = w /\ c = d THEN pixel[d] ELSE ledBuffer[b][c]
      BY <1>1, <3>1, <3>2 DEF IInv, TypeOK
    <3>4. Follows(ledBuffer[w][d].pictures, pixel[d].pictures)
      BY <1>1, <3>1, <3>2 DEF IInv, Order, PixelOrder, Copied
    <3> QED BY <3>3, <3>4 DEF Follows
  <2>3. UNCHANGED ledBuffer \/ Store
    BY <1>1 DEF Next, Tick, GetColor, Sample, Average, GetColorDelay, WriteLed, Copy,
                Scale, WriteLedDelay, SetOverlay, ReadSwitch0, DrawBorder, ReadSwitch1,
                FillBlock, SetOverlayDelay, World, NewPicture, NewLevel, MoveSwitch,
                Tasks, averagesVars, vars
  <2> QED BY <2>1, <2>2, <2>3
<1>2. Spec => []IInv
  BY Invariant
<1>3. []IInv /\ [][Next]_vars => [][Forward]_vars
  BY <1>1, PTL
<1> QED BY <1>2, <1>3, PTL DEF Spec, NeverBack
-----------------------------------------------------------------------------
(* A turn within one tick.  How many steps of its turn a task at this      *)
(* place has done; TaskWriteLed's turn comes after TaskGetColor's.         *)
PerBlock == NumParts + NumChannels
PerLed == 3 * NumChannels

GetColorDone(place) ==
  IF place.step = "delay" THEN NumBlocks * PerBlock
  ELSE (place.block - 1) * PerBlock
         + (IF place.step = "sample" THEN 0 ELSE NumParts) + place.part - 1

WriteLedDone(place) ==
  IF place.step = "delay" THEN NumBlocks * PerLed
  ELSE (place.block - 1) * PerLed
         + (CASE place.step = "copy" -> 0
              [] place.step = "scale" -> NumChannels
              [] OTHER -> 2 * NumChannels)
         + place.part - 1

StartOf(t) == [step |-> Start[t], block |-> 1, part |-> 1]

(* The steps since the last tick tell where the two tasks are: both wake   *)
(* with a tick, TaskWriteLed waits for TaskGetColor, and both sleep when   *)
(* the next tick comes.                                                    *)
Clock ==
  /\ Ready("getColor") =>
       /\ Ready("writeLed") /\ at["writeLed"] = StartOf("writeLed")
       /\ sinceTick = GetColorDone(at["getColor"])
  /\ ~Ready("getColor") =>
       delay["getColor"] = 1 /\ at["getColor"] = StartOf("getColor")
  /\ ~Ready("getColor") /\ Ready("writeLed") =>
       sinceTick = NumBlocks * PerBlock + 1 + WriteLedDone(at["writeLed"])
  /\ ~Ready("writeLed") =>
       /\ ~Ready("getColor")
       /\ delay["writeLed"] = 1 /\ at["writeLed"] = StartOf("writeLed")

(* What TaskGetColor has averaged, and TaskWriteLed scaled and stored, in  *)
(* this turn.                                                              *)
Averaged(b, c) ==
  \/ ~Ready("getColor") \/ at["getColor"].step = "delay"
  \/ b < at["getColor"].block
  \/ b = at["getColor"].block /\ at["getColor"].step = "average" /\ c < at["getColor"].part

Scaled(c) ==
  \/ at["writeLed"].step = "store"
  \/ at["writeLed"].step = "scale" /\ c < at["writeLed"].part

Stored(b, c) ==
  \/ ~Ready("writeLed") \/ at["writeLed"].step = "delay"
  \/ b < at["writeLed"].block
  \/ b = at["writeLed"].block /\ at["writeLed"].step = "store" /\ c < at["writeLed"].part

Seen(S) == S \ {Garbage} \subseteq seenPictures

TotalSeen ==
  /\ Seen(total)
  /\ ~Ready("getColor") => total \subseteq {Garbage}

AverageSeen == \A b \in Block, c \in Channel : Averaged(b, c) => Seen(average[b][c])

PixelSeen ==
  \A c \in Channel : /\ Copied(c) => Seen(pixel[c].pictures)
                     /\ Scaled(c) => pixel[c].level \in seenLevels

LedSeen ==
  \A b \in Block, c \in Channel : Stored(b, c) =>
    Seen(ledBuffer[b][c].pictures) /\ ledBuffer[b][c].level \in seenLevels

Now == picture \in seenPictures /\ level \in seenLevels

Turn == Clock /\ Now /\ TotalSeen /\ AverageSeen /\ PixelSeen /\ LedSeen

TInv == tickSteps >= TurnSteps => Turn

LEMMA Multiples ==
  ASSUME NEW k \in Nat, NEW m \in Nat, NEW n \in Nat, k < m
  PROVE  /\ k * n \in Nat /\ (k + 1) * n = k * n + n
         /\ k * n + n <= m * n
         /\ m = k + 1 => k * n + n = m * n
         /\ 0 * n = 0 /\ m * n \in Nat
OBVIOUS

LEMMA Products ==
  ASSUME NEW b \in Block, NEW n \in Nat
  PROVE  /\ (b - 1) * n \in Nat
         /\ ((b + 1) - 1) * n = (b - 1) * n + n
         /\ (b - 1) * n + n <= NumBlocks * n
         /\ b = NumBlocks => (b - 1) * n + n = NumBlocks * n
         /\ (1 - 1) * n = 0 /\ NumBlocks * n \in Nat
<1> DEFINE k == b - 1
<1>1. /\ k \in Nat /\ NumBlocks \in Nat /\ k < NumBlocks
      /\ (b + 1) - 1 = k + 1 /\ 1 - 1 = 0
      /\ b = NumBlocks => NumBlocks = k + 1
  BY TasksAssumption DEF Block
<1> HIDE DEF k
<1>2. /\ k * n \in Nat /\ (k + 1) * n = k * n + n
      /\ k * n + n <= NumBlocks * n
      /\ NumBlocks = k + 1 => k * n + n = NumBlocks * n
      /\ 0 * n = 0 /\ NumBlocks * n \in Nat
  BY <1>1, Multiples
<1>3. /\ k * n \in Nat
      /\ ((b + 1) - 1) * n = k * n + n
      /\ k * n + n <= NumBlocks * n
      /\ b = NumBlocks => k * n + n = NumBlocks * n
      /\ (1 - 1) * n = 0 /\ NumBlocks * n \in Nat
  BY <1>1, <1>2
<1> QED BY <1>3 DEF k

(* Both turns fit between two ticks. *)
LEMMA TurnFits ==
  /\ PerBlock \in Nat /\ PerLed \in Nat
  /\ TurnSteps = NumBlocks * PerBlock + NumBlocks * PerLed + 2
<1>1. PerBlock \in Nat /\ PerLed \in Nat /\ NumBlocks \in Nat
  BY TasksAssumption DEF PerBlock, PerLed
<1>2. TurnSteps = NumBlocks * (PerBlock + PerLed) + 2
  BY TasksAssumption DEF TurnSteps, PerBlock, PerLed
<1> QED BY <1>1, <1>2

LEMMA DoneBounds ==
  ASSUME TypeOK
  PROVE  /\ GetColorDone(at["getColor"]) \in 0..(NumBlocks * PerBlock)
         /\ at["writeLed"].step # "delay" =>
              WriteLedDone(at["writeLed"]) \in 0..(NumBlocks * PerLed - 1)
         /\ at["writeLed"].step = "delay" =>
              WriteLedDone(at["writeLed"]) = NumBlocks * PerLed
<1> DEFINE g == at["getColor"]  w == at["writeLed"]
<1>1. /\ g.block \in Block /\ g.part \in Nat \ {0} /\ g.step \in Place["getColor"]
      /\ w.block \in Block /\ w.part \in Nat \ {0} /\ w.step \in Place["writeLed"]
      /\ g.step = "sample" => g.part <= NumParts
      /\ g.step = "average" => g.part <= NumChannels
      /\ w.part <= NumChannels
  BY DEF TypeOK, KernelType, Task
<1>2. /\ (g.block - 1) * PerBlock \in Nat /\ NumBlocks * PerBlock \in Nat
      /\ (g.block - 1) * PerBlock + PerBlock <= NumBlocks * PerBlock
  BY <1>1, Products, TurnFits
<1>3. /\ (w.block - 1) * PerLed \in Nat /\ NumBlocks * PerLed \in Nat
      /\ (w.block - 1) * PerLed + PerLed <= NumBlocks * PerLed
  BY <1>1, Products, TurnFits
<1> DEFINE x == (g.block - 1) * PerBlock  X == NumBlocks * PerBlock
           y == (w.block - 1) * PerLed    Y == NumBlocks * PerLed
<1>4. /\ x \in Nat /\ X \in Nat /\ x + PerBlock <= X
      /\ y \in Nat /\ Y \in Nat /\ y + PerLed <= Y
  BY <1>2, <1>3
<1>5. GetColorDone(g) =
        IF g.step = "delay" THEN X
        ELSE x + (IF g.step = "sample" THEN 0 ELSE NumParts) + g.part - 1
  BY DEF GetColorDone
<1>6. WriteLedDone(w) =
        IF w.step = "delay" THEN Y
        ELSE y + (CASE w.step = "copy" -> 0
                    [] w.step = "scale" -> NumChannels
                    [] OTHER -> 2 * NumChannels) + w.part - 1
  BY DEF WriteLedDone
<1> HIDE DEF x, X, y, Y
<1>7. GetColorDone(g) \in 0..X
  <2>1. g.step \in {"sample", "average", "delay"}
    BY <1>1 DEF Place
  <2> QED BY <1>1, <1>4, <1>5, <2>1, TasksAssumption DEF PerBlock
<1>8. /\ w.step # "delay" => WriteLedDone(w) \in 0..(Y - 1)
      /\ w.step = "delay" => WriteLedDone(w) = Y
  <2>1. w.step \in {"copy", "scale", "store", "delay"}
    BY <1>1 DEF Place
  <2> QED BY <1>1, <1>4, <1>6, <2>1, TasksAssumption DEF PerLed
<1> QED BY <1>7, <1>8 DEF X, Y

(* A step of a task is counted: no turn lasts until the next tick. *)
LEMMA Counted ==
  ASSUME TypeOK, tickSteps >= TurnSteps, Clock, NEW t \in {"getColor", "writeLed"},
         NEW step, Does(t, step)
  PROVE  /\ sinceTick' = sinceTick + 1
         /\ at[t].step = step /\ Ready(t)
         /\ t = "writeLed" => ~Ready("getColor")
         /\ picture' = picture /\ level' = level
         /\ UNCHANGED <<seenPictures, seenLevels>>
<1>1. Ready(t) /\ at[t].step = step
  BY DEF Does, Running
<1>2. t = "writeLed" => ~Ready("getColor")
  BY DEF Does, Running, Priority, Task
<1>3. NumBlocks * PerBlock \in Nat /\ NumBlocks * PerLed \in Nat
  BY TurnFits, TasksAssumption
<1>4. sinceTick < tickSteps
  <2>1. tickSteps \in Nat
    BY TasksAssumption DEF TypeOK
  <2>2. CASE t = "getColor"
    BY <1>1, <1>3, <2>1, <2>2, TurnFits, DoneBounds DEF Clock
  <2>3. CASE t = "writeLed"
    BY <1>1, <1>2, <1>3, <2>1, <2>3, TurnFits, DoneBounds DEF Clock
  <2> QED BY <2>2, <2>3
<1> QED BY <1>1, <1>2, <1>4 DEF Does, worldVars, seenVars

LEMMA Goes ==
  ASSUME TypeOK, NEW t \in Task, NEW u \in Task \ {t}, NEW step, NEW b, NEW p,
         Goto(t, step, b, p)
  PROVE  /\ at'[t] = [step |-> step, block |-> b, part |-> p]
         /\ at'[u] = at[u]
         /\ delay' = delay
<1>1. at'[u] = at[u] /\ at'[t] = [step |-> step, block |-> b, part |-> p]
  BY OtherTask
<1> QED BY <1>1 DEF Goto

LEMMA SampleTurn ==
  ASSUME IInv, tickSteps >= TurnSteps, Turn, Sample
  PROVE  Turn'
<1> DEFINE g == "getColor"  b == at[g].block  p == at[g].part
<1>1. /\ Does(g, "sample") /\ total' = total \cup {picture}
      /\ UNCHANGED <<average, pixel, ledBuffer>>
  BY DEF Sample
<1>2. /\ sinceTick' = sinceTick + 1 /\ at[g].step = "sample" /\ Ready(g)
      /\ picture' = picture /\ level' = level
      /\ UNCHANGED <<seenPictures, seenLevels>>
  BY <1>1, Counted DEF IInv, Turn
<1>3. b \in Block /\ p \in Nat \ {0} /\ p <= NumParts /\ g \in Task /\ "writeLed" \in Task \ {g}
  BY <1>2 DEF IInv, TypeOK, KernelType, Task
<1>4. /\ at'["writeLed"] = at["writeLed"] /\ delay' = delay
      /\ \/ p < NumParts /\ at'[g] = [step |-> "sample", block |-> b, part |-> p + 1]
         \/ p = NumParts /\ at'[g] = [step |-> "average", block |-> b, part |-> 1]
  <2>1. CASE p < NumParts
    BY <1>3, <2>1, Goes DEF Sample, IInv
  <2>2. CASE ~(p < NumParts)
    <3>1. Goto(g, "average", b, 1)
      BY <2>2 DEF Sample
    <3>2. p = NumParts
      BY <1>3, <2>2, TasksAssumption
    <3> QED BY <1>3, <3>1, <3>2, Goes DEF IInv
  <2> QED BY <2>1, <2>2
<1> HIDE DEF b, p
<1>5. at[g].block = b /\ at[g].part = p
  BY DEF b, p
<1>6. GetColorDone(at'[g]) = GetColorDone(at[g]) + 1
  <2> DEFINE x == (b - 1) * PerBlock
  <2>1. x \in Nat
    BY <1>3, Products, TurnFits
  <2>2. /\ GetColorDone(at[g]) = x + p - 1
        /\ p < NumParts => GetColorDone(at'[g]) = x + p
        /\ p = NumParts => GetColorDone(at'[g]) = x + NumParts
    <3> HIDE DEF x
    <3>1. GetColorDone(at[g]) = x + 0 + p - 1
      BY <1>2, <1>5 DEF GetColorDone, x
    <3>2. CASE p < NumParts
      <4>1. GetColorDone(at'[g]) = x + 0 + (p + 1) - 1
        BY <1>3, <1>4, <3>2, TasksAssumption DEF GetColorDone, x
      <4> QED BY <1>3, <2>1, <3>1, <3>2, <4>1, TasksAssumption
    <3>3. CASE p = NumParts
      <4>1. GetColorDone(at'[g]) = x + NumParts + 1 - 1
        BY <1>3, <1>4, <3>3, TasksAssumption DEF GetColorDone, x
      <4> QED BY <1>3, <2>1, <3>1, <3>3, <4>1, TasksAssumption
    <3> QED BY <1>4, <3>2, <3>3
  <2> HIDE DEF x
  <2> QED BY <1>3, <1>4, <2>1, <2>2, TasksAssumption
<1>7. Clock'
  <2>1. Ready(g)' /\ (Ready("writeLed")' <=> Ready("writeLed"))
    BY <1>2, <1>4 DEF Ready
  <2> QED BY <1>2, <1>4, <1>6, <2>1 DEF Turn, Clock
<1>8. \A x, c : c \in Channel /\ Averaged(x, c)' => Averaged(x, c)
  BY <1>2, <1>4, <1>5 DEF Averaged, Ready, Channel
<1>9. /\ \A c : (Copied(c)' <=> Copied(c)) /\ (Scaled(c)' <=> Scaled(c))
      /\ \A x, c : Stored(x, c)' <=> Stored(x, c)
  BY <1>4 DEF Copied, Scaled, Stored, Ready
<1>10. Now' /\ TotalSeen'
  <2>1. Ready(g)'
    BY <1>2, <1>4 DEF Ready
  <2> QED BY <1>1, <1>2, <2>1 DEF Turn, Now, TotalSeen, Seen
<1>11. AverageSeen' /\ PixelSeen' /\ LedSeen'
  BY <1>1, <1>2, <1>8, <1>9 DEF Turn, AverageSeen, PixelSeen, LedSeen, Seen
<1> QED BY <1>7, <1>10, <1>11 DEF Turn

LEMMA AverageTurn ==
  ASSUME IInv, tickSteps >= TurnSteps, Turn, Average
  PROVE  Turn'
<1> DEFINE g == "getColor"  b == at[g].block  p == at[g].part
<1>1. /\ Does(g, "average") /\ average' = [average EXCEPT ![b][p] = total]
      /\ UNCHANGED <<pixel, ledBuffer>>
      /\ total' \in {total, {}}
  BY DEF Average, NextTotal
<1>2. /\ sinceTick' = sinceTick + 1 /\ at[g].step = "average" /\ Ready(g)
      /\ picture' = picture /\ level' = level
      /\ UNCHANGED <<seenPictures, seenLevels>>
  BY <1>1, Counted DEF IInv, Turn
<1>3. /\ b \in Block /\ p \in Nat \ {0} /\ p <= NumChannels
      /\ g \in Task /\ "writeLed" \in Task \ {g}
  BY <1>2 DEF IInv, TypeOK, KernelType, Task
<1>4. /\ at'["writeLed"] = at["writeLed"] /\ delay' = delay
      /\ \/ p < NumChannels /\ at'[g] = [step |-> "average", block |-> b, part |-> p + 1]
         \/ /\ p = NumChannels /\ b < NumBlocks
            /\ at'[g] = [step |-> "sample", block |-> b + 1, part |-> 1]
         \/ /\ p = NumChannels /\ b = NumBlocks
            /\ at'[g] = [step |-> "delay", block |-> 1, part |-> 1]
  <2>1. CASE p < NumChannels
    BY <1>3, <2>1, Goes DEF Average, IInv
  <2>2. CASE ~(p < NumChannels)
    <3>1. p = NumChannels /\ NextBlock(g, "sample", "delay")
      BY <1>3, <2>2, TasksAssumption DEF Average
    <3>2. CASE b < NumBlocks
      BY <1>3, <3>1, <3>2, Goes DEF NextBlock, IInv
    <3>3. CASE ~(b < NumBlocks)
      <4>1. b = NumBlocks /\ Goto(g, "delay", 1, 1)
        BY <1>3, <3>1, <3>3, TasksAssumption DEF NextBlock, Block
      <4> QED BY <1>3, <3>1, <4>1, Goes DEF IInv
    <3> QED BY <3>2, <3>3
  <2> QED BY <2>1, <2>2
<1> HIDE DEF b, p
<1>5. at[g].block = b /\ at[g].part = p
  BY DEF b, p
<1>6. GetColorDone(at'[g]) = GetColorDone(at[g]) + 1
  <2> DEFINE x == (b - 1) * PerBlock  X == NumBlocks * PerBlock  z == ((b + 1) - 1) * PerBlock
  <2>1. /\ x \in Nat /\ X \in Nat /\ z = x + PerBlock
        /\ b = NumBlocks => x + PerBlock = X
    BY <1>3, Products, TurnFits
  <2> HIDE DEF x, X, z
  <2>2. GetColorDone(at[g]) = x + NumParts + p - 1
    BY <1>2, <1>5 DEF GetColorDone, x
  <2>3. CASE p < NumChannels /\ at'[g] = [step |-> "average", block |-> b, part |-> p + 1]
    <3>1. GetColorDone(at'[g]) = x + NumParts + (p + 1) - 1
      BY <2>3 DEF GetColorDone, x
    <3> QED BY <1>3, <2>1, <2>2, <3>1, TasksAssumption
  <2>4. CASE /\ p = NumChannels /\ b < NumBlocks
             /\ at'[g] = [step |-> "sample", block |-> b + 1, part |-> 1]
    <3>1. GetColorDone(at'[g]) = z + 0 + 1 - 1
      BY <2>4, TurnFits DEF GetColorDone, z
    <3> QED BY <1>3, <2>1, <2>2, <2>4, <3>1, TasksAssumption DEF PerBlock
  <2>5. CASE /\ p = NumChannels /\ b = NumBlocks
             /\ at'[g] = [step |-> "delay", block |-> 1, part |-> 1]
    <3>1. GetColorDone(at'[g]) = X
      BY <2>5 DEF GetColorDone, X
    <3> QED BY <1>3, <2>1, <2>2, <2>5, <3>1, TasksAssumption DEF PerBlock
  <2> QED BY <1>4, <2>3, <2>4, <2>5
<1>7. Clock'
  <2>1. Ready(g)' /\ (Ready("writeLed")' <=> Ready("writeLed"))
    BY <1>2, <1>4 DEF Ready
  <2> QED BY <1>2, <1>4, <1>6, <2>1 DEF Turn, Clock
<1>8. ASSUME NEW x \in Block, NEW c \in Channel, Averaged(x, c)'
      PROVE  Averaged(x, c) \/ (x = b /\ c = p)
  <2>1. x \in Int /\ c \in Int /\ b \in Int /\ c <= NumChannels /\ x <= NumBlocks
    BY <1>3, TasksAssumption DEF Block, Channel
  <2>2. Ready(g)'
    BY <1>2, <1>4 DEF Ready
  <2> QED BY <1>2, <1>3, <1>4, <1>5, <1>8, <2>1, <2>2, TasksAssumption DEF Averaged
<1>9. /\ \A c : (Copied(c)' <=> Copied(c)) /\ (Scaled(c)' <=> Scaled(c))
      /\ \A x, c : Stored(x, c)' <=> Stored(x, c)
  BY <1>4 DEF Copied, Scaled, Stored, Ready
<1>10. Now' /\ TotalSeen'
  <2>1. Ready(g)'
    BY <1>2, <1>4 DEF Ready
  <2> QED BY <1>1, <1>2, <2>1 DEF Turn, Now, TotalSeen, Seen
<1>11. AverageSeen'
  <2> SUFFICES ASSUME NEW x \in Block, NEW c \in Channel, Averaged(x, c)'
               PROVE  average'[x][c] \ {Garbage} \subseteq seenPictures'
    BY DEF AverageSeen, Seen
  <2>1. average'[x][c] = IF x = b /\ c = p THEN total ELSE average[x][c]
    BY <1>1, <1>3, <1>5 DEF IInv, TypeOK
  <2> QED BY <1>2, <1>8, <2>1 DEF Turn, TotalSeen, AverageSeen, Seen
<1>12. PixelSeen' /\ LedSeen'
  BY <1>1, <1>2, <1>9 DEF Turn, PixelSeen, LedSeen, Seen
<1> QED BY <1>7, <1>10, <1>11, <1>12 DEF Turn

(* TaskGetColor falls asleep, and TaskWriteLed's turn begins. *)
LEMMA GetColorDelayTurn ==
  ASSUME IInv, tickSteps >= TurnSteps, Turn, GetColorDelay
  PROVE  Turn'
<1> DEFINE g == "getColor"  w == "writeLed"
<1>1. /\ Does(g, "delay") /\ total' \in {total, {Garbage}}
      /\ UNCHANGED <<average, pixel, ledBuffer>>
      /\ delay' = [delay EXCEPT ![g] = Ticks(Milliseconds[g])]
      /\ at' = [at EXCEPT ![g] = [step |-> Start[g], block |-> 1, part |-> 1]]
  BY DEF GetColorDelay, Sleep
<1>2. /\ sinceTick' = sinceTick + 1 /\ at[g].step = "delay" /\ Ready(g)
      /\ picture' = picture /\ level' = level
      /\ UNCHANGED <<seenPictures, seenLevels>>
  BY <1>1, Counted DEF IInv, Turn
<1>3. /\ at'[w] = at[w] /\ delay'[w] = delay[w]
      /\ at'[g] = StartOf(g) /\ delay'[g] = 1
  BY <1>1, DelayTicks DEF IInv, TypeOK, KernelType, Task, StartOf
<1>4. ~Ready(g)' /\ Ready(w)' /\ Ready(w) /\ at[w] = StartOf(w)
  BY <1>2, <1>3 DEF Ready, Turn, Clock
<1>5. at[w].step = "copy" /\ at[w].block = 1 /\ at[w].part = 1
  BY <1>4 DEF StartOf, Start
<1>6. Clock'
  <2> DEFINE X == NumBlocks * PerBlock
  <2>1. X \in Nat
    BY TurnFits, TasksAssumption
  <2>2. sinceTick = X
    BY <1>2 DEF Turn, Clock, GetColorDone
  <2> HIDE DEF X
  <2>3. WriteLedDone(at'[w]) = 0
    <3>1. (1 - 1) * PerLed = 0
      BY Products, TurnFits, TasksAssumption DEF Block
    <3>2. WriteLedDone(at[w]) = (1 - 1) * PerLed + 0 + 1 - 1
      BY <1>5 DEF WriteLedDone
    <3> QED BY <1>3, <3>1, <3>2
  <2>4. sinceTick' = X + 1 + WriteLedDone(at'[w])
    BY <1>2, <2>1, <2>2, <2>3
  <2> QED BY <1>3, <1>4, <2>4 DEF Clock, X
<1>7. \A x, c : Averaged(x, c)
  BY <1>2 DEF Averaged
<1>8. /\ \A c : (Copied(c)' <=> Copied(c)) /\ (Scaled(c)' <=> Scaled(c))
      /\ \A x, c : Stored(x, c)' <=> Stored(x, c)
  BY <1>3 DEF Copied, Scaled, Stored, Ready
<1>9. Now' /\ TotalSeen'
  <2>1. total = {}
    BY <1>2 DEF IInv, Order, TotalOrder
  <2> QED BY <1>1, <1>2, <2>1 DEF Turn, Now, TotalSeen, Seen
<1>10. AverageSeen' /\ PixelSeen' /\ LedSeen'
  BY <1>1, <1>2, <1>7, <1>8 DEF Turn, AverageSeen, PixelSeen, LedSeen, Seen
<1> QED BY <1>6, <1>9, <1>10 DEF Turn

(* TaskWriteLed copies what TaskGetColor wrote before it fell asleep. *)
LEMMA CopyTurn ==
  ASSUME IInv, tickSteps >= TurnSteps, Turn, Copy
  PROVE  Turn'
<1> DEFINE w == "writeLed"  b == at[w].block  d == at[w].part
<1>1. /\ Does(w, "copy") /\ pixel' = [pixel EXCEPT ![d].pictures = average[b][d]]
      /\ UNCHANGED <<total, average, ledBuffer>>
  BY DEF Copy
<1>2. /\ sinceTick' = sinceTick + 1 /\ at[w].step = "copy" /\ Ready(w)
      /\ ~Ready("getColor")
      /\ picture' = picture /\ level' = level
      /\ UNCHANGED <<seenPictures, seenLevels>>
  BY <1>1, Counted DEF IInv, Turn
<1>3. /\ b \in Block /\ d \in Nat \ {0} /\ d <= NumChannels /\ d \in Channel
      /\ w \in Task /\ "getColor" \in Task \ {w}
  BY <1>2 DEF IInv, TypeOK, KernelType, Task, Channel
<1>4. /\ at'["getColor"] = at["getColor"] /\ delay' = delay
      /\ \/ d < NumChannels /\ at'[w] = [step |-> "copy", block |-> b, part |-> d + 1]
         \/ d = NumChannels /\ at'[w] = [step |-> "scale", block |-> b, part |-> 1]
  <2>1. CASE d < NumChannels
    BY <1>3, <2>1, Goes DEF Copy, WriteLedGoto, IInv
  <2>2. CASE ~(d < NumChannels)
    <3>1. d = NumChannels /\ Goto(w, "scale", b, 1)
      BY <1>3, <2>2, TasksAssumption DEF Copy, WriteLedGoto
    <3> QED BY <1>3, <3>1, Goes DEF IInv
  <2> QED BY <2>1, <2>2
<1> HIDE DEF b, d
<1>5. at[w].block = b /\ at[w].part = d
  BY DEF b, d
<1>6. WriteLedDone(at'[w]) = WriteLedDone(at[w]) + 1
  <2> DEFINE y == (b - 1) * PerLed
  <2>1. y \in Nat
    BY <1>3, Products, TurnFits
  <2> HIDE DEF y
  <2>2. WriteLedDone(at[w]) = y + 0 + d - 1
    BY <1>2, <1>5 DEF WriteLedDone, y
  <2>3. CASE d < NumChannels /\ at'[w] = [step |-> "copy", block |-> b, part |-> d + 1]
    <3>1. WriteLedDone(at'[w]) = y + 0 + (d + 1) - 1
      BY <2>3 DEF WriteLedDone, y
    <3> QED BY <1>3, <2>1, <2>2, <3>1, TasksAssumption
  <2>4. CASE d = NumChannels /\ at'[w] = [step |-> "scale", block |-> b, part |-> 1]
    <3>1. WriteLedDone(at'[w]) = y + NumChannels + 1 - 1
      BY <2>4 DEF WriteLedDone, y
    <3> QED BY <1>3, <2>1, <2>2, <2>4, <3>1, TasksAssumption
  <2> QED BY <1>4, <2>3, <2>4
<1>7. Clock'
  <2>1. Ready(w)' /\ ~Ready("getColor")'
    BY <1>2, <1>4 DEF Ready
  <2>2. NumBlocks * PerBlock \in Nat /\ WriteLedDone(at[w]) \in Int
    BY DoneBounds, TurnFits, TasksAssumption, Products DEF IInv
  <2>3. sinceTick' = NumBlocks * PerBlock + 1 + WriteLedDone(at'[w])
    BY <1>2, <1>6, <2>2 DEF Turn, Clock
  <2> QED BY <1>2, <1>4, <2>1, <2>3 DEF Turn, Clock
<1>8. \A x, c : Averaged(x, c) /\ Averaged(x, c)'
  BY <1>2, <1>4 DEF Averaged, Ready
<1>9. /\ \A c \in Channel : Copied(c)' => c = d \/ Copied(c)
      /\ \A c \in Channel : ~Scaled(c)'
      /\ \A x, c : Stored(x, c)' => Stored(x, c)
  BY <1>2, <1>3, <1>4, <1>5, TasksAssumption DEF Copied, Scaled, Stored, Ready, Channel
<1>10. Now' /\ TotalSeen' /\ AverageSeen' /\ LedSeen'
  <2>1. ~Ready("getColor")'
    BY <1>2, <1>4 DEF Ready
  <2> QED BY <1>1, <1>2, <1>8, <1>9, <2>1 DEF Turn, Now, TotalSeen, AverageSeen, LedSeen, Seen
<1>11. PixelSeen'
  <2> SUFFICES ASSUME NEW c \in Channel, Copied(c)'
               PROVE  pixel'[c].pictures \ {Garbage} \subseteq seenPictures'
    BY <1>9 DEF PixelSeen, Seen
  <2>1. pixel'[c].pictures = IF c = d THEN average[b][d] ELSE pixel[c].pictures
    BY <1>1, <1>3, <1>5 DEF IInv, TypeOK, Colour
  <2> QED BY <1>2, <1>3, <1>8, <1>9, <2>1 DEF Turn, AverageSeen, PixelSeen, Seen
<1> QED BY <1>7, <1>10, <1>11 DEF Turn

LEMMA ScaleTurn ==
  ASSUME IInv, tickSteps >= TurnSteps, Turn, Scale
  PROVE  Turn'
<1> DEFINE w == "writeLed"  b == at[w].block  d == at[w].part
<1>1. /\ Does(w, "scale") /\ pixel' = [pixel EXCEPT ![d].level = level]
      /\ UNCHANGED <<total, average, ledBuffer>>
  BY DEF Scale, ScaleWith
<1>2. /\ sinceTick' = sinceTick + 1 /\ at[w].step = "scale" /\ Ready(w)
      /\ ~Ready("getColor")
      /\ picture' = picture /\ level' = level
      /\ UNCHANGED <<seenPictures, seenLevels>>
  BY <1>1, Counted DEF IInv, Turn
<1>3. /\ b \in Block /\ d \in Nat \ {0} /\ d <= NumChannels /\ d \in Channel
      /\ w \in Task /\ "getColor" \in Task \ {w}
  BY <1>2 DEF IInv, TypeOK, KernelType, Task, Channel
<1>4. /\ at'["getColor"] = at["getColor"] /\ delay' = delay
      /\ \/ d < NumChannels /\ at'[w] = [step |-> "scale", block |-> b, part |-> d + 1]
         \/ d = NumChannels /\ at'[w] = [step |-> "store", block |-> b, part |-> 1]
  <2>1. CASE d < NumChannels
    BY <1>3, <2>1, Goes DEF Scale, WriteLedGoto, IInv
  <2>2. CASE ~(d < NumChannels)
    <3>1. d = NumChannels /\ Goto(w, "store", b, 1)
      BY <1>3, <2>2, TasksAssumption DEF Scale, WriteLedGoto
    <3> QED BY <1>3, <3>1, Goes DEF IInv
  <2> QED BY <2>1, <2>2
<1> HIDE DEF b, d
<1>5. at[w].block = b /\ at[w].part = d
  BY DEF b, d
<1>6. WriteLedDone(at'[w]) = WriteLedDone(at[w]) + 1
  <2> DEFINE y == (b - 1) * PerLed
  <2>1. y \in Nat
    BY <1>3, Products, TurnFits
  <2> HIDE DEF y
  <2>2. WriteLedDone(at[w]) = y + NumChannels + d - 1
    BY <1>2, <1>5 DEF WriteLedDone, y
  <2>3. CASE d < NumChannels /\ at'[w] = [step |-> "scale", block |-> b, part |-> d + 1]
    <3>1. WriteLedDone(at'[w]) = y + NumChannels + (d + 1) - 1
      BY <2>3 DEF WriteLedDone, y
    <3> QED BY <1>3, <2>1, <2>2, <3>1, TasksAssumption
  <2>4. CASE d = NumChannels /\ at'[w] = [step |-> "store", block |-> b, part |-> 1]
    <3>1. WriteLedDone(at'[w]) = y + 2 * NumChannels + 1 - 1
      BY <2>4 DEF WriteLedDone, y
    <3> QED BY <1>3, <2>1, <2>2, <2>4, <3>1, TasksAssumption
  <2> QED BY <1>4, <2>3, <2>4
<1>7. Clock'
  <2>1. Ready(w)' /\ ~Ready("getColor")'
    BY <1>2, <1>4 DEF Ready
  <2>2. NumBlocks * PerBlock \in Nat /\ WriteLedDone(at[w]) \in Int
    BY DoneBounds, TurnFits, TasksAssumption, Products DEF IInv
  <2>3. sinceTick' = NumBlocks * PerBlock + 1 + WriteLedDone(at'[w])
    BY <1>2, <1>6, <2>2 DEF Turn, Clock
  <2> QED BY <1>2, <1>4, <2>1, <2>3 DEF Turn, Clock
<1>8. \A x, c : Averaged(x, c) /\ Averaged(x, c)'
  BY <1>2, <1>4 DEF Averaged, Ready
<1>9. /\ \A c : Copied(c)
      /\ \A c \in Channel : Scaled(c)' => c = d \/ Scaled(c)
      /\ \A x, c : c \in Channel /\ Stored(x, c)' => Stored(x, c)
  BY <1>2, <1>3, <1>4, <1>5, TasksAssumption DEF Copied, Scaled, Stored, Ready, Channel
<1>10. Now' /\ TotalSeen' /\ AverageSeen' /\ LedSeen'
  <2>1. ~Ready("getColor")'
    BY <1>2, <1>4 DEF Ready
  <2> QED BY <1>1, <1>2, <1>8, <1>9, <2>1 DEF Turn, Now, TotalSeen, AverageSeen, LedSeen, Seen
<1>11. PixelSeen'
  <2> SUFFICES ASSUME NEW c \in Channel
               PROVE  /\ pixel'[c].pictures \ {Garbage} \subseteq seenPictures'
                      /\ Scaled(c)' => pixel'[c].level \in seenLevels'
    BY DEF PixelSeen, Seen
  <2>1. /\ pixel'[c].pictures = pixel[c].pictures
        /\ pixel'[c].level = IF c = d THEN level ELSE pixel[c].level
    BY <1>1, <1>3, <1>5 DEF IInv, TypeOK, Colour
  <2> QED BY <1>2, <1>3, <1>9, <2>1 DEF Turn, Now, PixelSeen, Seen
<1> QED BY <1>7, <1>10, <1>11 DEF Turn

LEMMA StoreTurn ==
  ASSUME IInv, tickSteps >= TurnSteps, Turn, Store
  PROVE  Turn'
<1> DEFINE w == "writeLed"  b == at[w].block  d == at[w].part
<1>1. /\ Does(w, "store") /\ ledBuffer' = [ledBuffer EXCEPT ![b][d] = pixel[d]]
      /\ UNCHANGED <<total, average, pixel>>
  BY DEF Store
<1>2. /\ sinceTick' = sinceTick + 1 /\ at[w].step = "store" /\ Ready(w)
      /\ ~Ready("getColor")
      /\ picture' = picture /\ level' = level
      /\ UNCHANGED <<seenPictures, seenLevels>>
  BY <1>1, Counted DEF IInv, Turn
<1>3. /\ b \in Block /\ d \in Nat \ {0} /\ d <= NumChannels /\ d \in Channel
      /\ w \in Task /\ "getColor" \in Task \ {w}
  BY <1>2 DEF IInv, TypeOK, KernelType, Task, Channel
<1>4. /\ at'["getColor"] = at["getColor"] /\ delay' = delay
      /\ \/ d < NumChannels /\ at'[w] = [step |-> "store", block |-> b, part |-> d + 1]
         \/ /\ d = NumChannels /\ b < NumBlocks
            /\ at'[w] = [step |-> "copy", block |-> b + 1, part |-> 1]
         \/ /\ d = NumChannels /\ b = NumBlocks
            /\ at'[w] = [step |-> "delay", block |-> 1, part |-> 1]
  <2>1. CASE d < NumChannels
    BY <1>3, <2>1, Goes DEF Store, IInv
  <2>2. CASE ~(d < NumChannels)
    <3>1. d = NumChannels /\ NextBlock(w, "copy", "delay")
      BY <1>3, <2>2, TasksAssumption DEF Store
    <3>2. CASE b < NumBlocks
      BY <1>3, <3>1, <3>2, Goes DEF NextBlock, IInv
    <3>3. CASE ~(b < NumBlocks)
      <4>1. b = NumBlocks /\ Goto(w, "delay", 1, 1)
        BY <1>3, <3>1, <3>3, TasksAssumption DEF NextBlock, Block
      <4> QED BY <1>3, <3>1, <4>1, Goes DEF IInv
    <3> QED BY <3>2, <3>3
  <2> QED BY <2>1, <2>2
<1> HIDE DEF b, d
<1>5. at[w].block = b /\ at[w].part = d
  BY DEF b, d
<1>6. WriteLedDone(at'[w]) = WriteLedDone(at[w]) + 1
  <2> DEFINE y == (b - 1) * PerLed  Y == NumBlocks * PerLed  z == ((b + 1) - 1) * PerLed
  <2>1. /\ y \in Nat /\ Y \in Nat /\ z = y + PerLed
        /\ b = NumBlocks => y + PerLed = Y
    BY <1>3, Products, TurnFits
  <2> HIDE DEF y, Y, z
  <2>2. WriteLedDone(at[w]) = y + 2 * NumChannels + d - 1
    BY <1>2, <1>5 DEF WriteLedDone, y
  <2>3. CASE d < NumChannels /\ at'[w] = [step |-> "store", block |-> b, part |-> d + 1]
    <3>1. WriteLedDone(at'[w]) = y + 2 * NumChannels + (d + 1) - 1
      BY <2>3 DEF WriteLedDone, y
    <3> QED BY <1>3, <2>1, <2>2, <3>1, TasksAssumption
  <2>4. CASE /\ d = NumChannels /\ b < NumBlocks
             /\ at'[w] = [step |-> "copy", block |-> b + 1, part |-> 1]
    <3>1. WriteLedDone(at'[w]) = z + 0 + 1 - 1
      BY <2>4, TurnFits DEF WriteLedDone, z
    <3> QED BY <1>3, <2>1, <2>2, <2>4, <3>1, TasksAssumption DEF PerLed
  <2>5. CASE /\ d = NumChannels /\ b = NumBlocks
             /\ at'[w] = [step |-> "delay", block |-> 1, part |-> 1]
    <3>1. WriteLedDone(at'[w]) = Y
      BY <2>5 DEF WriteLedDone, Y
    <3> QED BY <1>3, <2>1, <2>2, <2>5, <3>1, TasksAssumption DEF PerLed
  <2> QED BY <1>4, <2>3, <2>4, <2>5
<1>7. Clock'
  <2>1. Ready(w)' /\ ~Ready("getColor")'
    BY <1>2, <1>4 DEF Ready
  <2>2. NumBlocks * PerBlock \in Nat /\ WriteLedDone(at[w]) \in Int
    BY DoneBounds, TurnFits, TasksAssumption, Products DEF IInv
  <2>3. sinceTick' = NumBlocks * PerBlock + 1 + WriteLedDone(at'[w])
    BY <1>2, <1>6, <2>2 DEF Turn, Clock
  <2> QED BY <1>2, <1>4, <2>1, <2>3 DEF Turn, Clock
<1>8. \A x, c : Averaged(x, c) /\ Averaged(x, c)'
  BY <1>2, <1>4 DEF Averaged, Ready
<1>9. /\ \A c : Copied(c) /\ Scaled(c)
      /\ \A x \in Block, c \in Channel : Stored(x, c)' => Stored(x, c) \/ (x = b /\ c = d)
  <2>1. \A c : Copied(c) /\ Scaled(c)
    BY <1>2 DEF Copied, Scaled
  <2>2. ASSUME NEW x \in Block, NEW c \in Channel, Stored(x, c)'
        PROVE  Stored(x, c) \/ (x = b /\ c = d)
    <3>1. x \in Int /\ c \in Int /\ b \in Int /\ c <= NumChannels /\ x <= NumBlocks
      BY <1>3, TasksAssumption DEF Block, Channel
    <3>2. Ready(w)'
      BY <1>2, <1>4 DEF Ready
    <3> QED BY <1>2, <1>3, <1>4, <1>5, <2>2, <3>1, <3>2, TasksAssumption DEF Stored
  <2> QED BY <2>1, <2>2
<1>10. Now' /\ TotalSeen' /\ AverageSeen' /\ PixelSeen'
  <2>1. ~Ready("getColor")'
    BY <1>2, <1>4 DEF Ready
  <2> QED BY <1>1, <1>2, <1>8, <1>9, <2>1 DEF Turn, Now, TotalSeen, AverageSeen, PixelSeen, Seen
<1>11. LedSeen'
  <2> SUFFICES ASSUME NEW x \in Block, NEW c \in Channel, Stored(x, c)'
               PROVE  /\ ledBuffer'[x][c].pictures \ {Garbage} \subseteq seenPictures'
                      /\ ledBuffer'[x][c].level \in seenLevels'
    BY DEF LedSeen, Seen
  <2>1. ledBuffer'[x][c] = IF x = b /\ c = d THEN pixel[d] ELSE ledBuffer[x][c]
    BY <1>1, <1>3, <1>5 DEF IInv, TypeOK
  <2> QED BY <1>2, <1>3, <1>9, <2>1 DEF Turn, PixelSeen, LedSeen, Seen
<1> QED BY <1>7, <1>10, <1>11 DEF Turn

LEMMA WriteLedDelayTurn ==
  ASSUME IInv, tickSteps >= TurnSteps, Turn, WriteLedDelay
  PROVE  Turn'
<1> DEFINE g == "getColor"  w == "writeLed"
<1>1. /\ Does(w, "delay") /\ UNCHANGED <<total, average, pixel, ledBuffer>>
      /\ delay' = [delay EXCEPT ![w] = Ticks(Milliseconds[w])]
      /\ at' = [at EXCEPT ![w] = [step |-> Start[w], block |-> 1, part |-> 1]]
  BY DEF WriteLedDelay, Sleep
<1>2. /\ at[w].step = "delay" /\ ~Ready(g)
      /\ picture' = picture /\ level' = level
      /\ UNCHANGED <<seenPictures, seenLevels>>
  BY <1>1, Counted DEF IInv, Turn
<1>3. /\ at'[g] = at[g] /\ delay'[g] = delay[g]
      /\ at'[w] = StartOf(w) /\ delay'[w] = 1
  BY <1>1, DelayTicks DEF IInv, TypeOK, KernelType, Task, StartOf
<1>4. ~Ready(g)' /\ ~Ready(w)'
  BY <1>2, <1>3 DEF Ready
<1>5. Clock'
  BY <1>2, <1>3, <1>4 DEF Turn, Clock
<1>6. /\ \A x, c : Averaged(x, c) /\ Stored(x, c)
      /\ \A c \in Channel : ~Copied(c)' /\ ~Scaled(c)'
  BY <1>2, <1>3 DEF Averaged, Stored, Copied, Scaled, StartOf, Start, Channel
<1>7. Now' /\ TotalSeen' /\ AverageSeen' /\ PixelSeen' /\ LedSeen'
  BY <1>1, <1>2, <1>6 DEF Turn, Now, TotalSeen, AverageSeen, PixelSeen, LedSeen, Seen
<1> QED BY <1>5, <1>7 DEF Turn

(* A tick finds both asleep and wakes both. *)
LEMMA TickTurn ==
  ASSUME IInv, tickSteps >= TurnSteps, Turn, Tick
  PROVE  Turn'
<1> DEFINE g == "getColor"  w == "writeLed"  X == NumBlocks * PerBlock  Y == NumBlocks * PerLed
<1>1. /\ X \in Nat /\ Y \in Nat /\ tickSteps \in Nat /\ TurnSteps = X + Y + 2
      /\ g \in Task /\ w \in Task
  BY TurnFits, TasksAssumption DEF Task, IInv, TypeOK
<1>2. GetColorDone(at[g]) \in 0..X /\ WriteLedDone(at[w]) \in 0..Y
  <2>1. /\ at[w].step # "delay" => WriteLedDone(at[w]) \in 0..(Y - 1)
        /\ at[w].step = "delay" => WriteLedDone(at[w]) = Y
    BY DoneBounds DEF IInv
  <2>2. GetColorDone(at[g]) \in 0..X
    BY DoneBounds DEF IInv
  <2> HIDE DEF X, Y
  <2> QED BY <1>1, <2>1, <2>2
<1> HIDE DEF Y
<1>3. ~Ready(g) /\ ~Ready(w)
  <2>1. CASE Idle
    BY <1>1, <2>1 DEF Idle
  <2>2. CASE sinceTick = tickSteps
    <3>1. ~Ready(g)
      <4>1. Ready(g) => sinceTick = GetColorDone(at[g])
        BY DEF Turn, Clock
      <4> HIDE DEF X
      <4> QED BY <1>1, <1>2, <2>2, <4>1
    <3>2. Ready(w) => sinceTick = X + 1 + WriteLedDone(at[w])
      BY <3>1 DEF Turn, Clock
    <3> HIDE DEF X
    <3> QED BY <1>1, <1>2, <2>2, <3>1, <3>2
  <2> QED BY <2>1, <2>2 DEF Tick
<1>4. /\ delay[g] = 1 /\ delay[w] = 1
      /\ at[g] = StartOf(g) /\ at[w] = StartOf(w)
  BY <1>3 DEF Turn, Clock
<1>5. /\ delay' = CountDown /\ sinceTick' = 0
      /\ seenPictures' = {picture} /\ seenLevels' = {level}
      /\ UNCHANGED <<at, total, average, pixel, ledBuffer, picture, level>>
  BY <1>4 DEF Tick, worldVars
<1>6. Ready(g)' /\ Ready(w)'
  BY <1>1, <1>4, <1>5 DEF Ready, CountDown
<1>7. GetColorDone(at'[g]) = 0
  <2>1. (1 - 1) * PerBlock = 0
    BY Products, TurnFits, TasksAssumption DEF Block
  <2>2. GetColorDone(at'[g]) = (1 - 1) * PerBlock + 0 + 1 - 1
    BY <1>4, <1>5 DEF GetColorDone, StartOf, Start
  <2> QED BY <2>1, <2>2
<1>8. Clock'
  BY <1>4, <1>5, <1>6, <1>7 DEF Clock
<1>9. /\ \A x \in Block, c \in Channel : ~Averaged(x, c)' /\ ~Stored(x, c)'
      /\ \A c \in Channel : ~Copied(c)' /\ ~Scaled(c)'
  <2>1. /\ at'[g].step = "sample" /\ at'[g].block = 1
        /\ at'[w].step = "copy" /\ at'[w].block = 1 /\ at'[w].part = 1
    BY <1>4, <1>5 DEF StartOf, Start
  <2>2. \A x \in Block : ~(x < 1)
    BY DEF Block
  <2> QED BY <1>6, <2>1, <2>2 DEF Averaged, Stored, Copied, Scaled, Channel
<1>10. total \subseteq {Garbage}
  BY <1>3 DEF Turn, TotalSeen
<1>11. Now' /\ TotalSeen' /\ AverageSeen' /\ PixelSeen' /\ LedSeen'
  BY <1>5, <1>6, <1>9, <1>10 DEF Now, TotalSeen, AverageSeen, PixelSeen, LedSeen, Seen
<1> QED BY <1>8, <1>11 DEF Turn

(* What does not concern the two tasks may only add to what they see. *)
Aside ==
  /\ UNCHANGED <<total, average, pixel, ledBuffer>>
  /\ \A t \in {"getColor", "writeLed"} : at'[t] = at[t] /\ delay'[t] = delay[t]
  /\ Ready("getColor") \/ Ready("writeLed") => sinceTick' = sinceTick
  /\ seenPictures \subseteq seenPictures' /\ seenLevels \subseteq seenLevels'
  /\ Now => Now'

LEMMA AsideTurn == ASSUME Turn, Aside PROVE Turn'
<1>1. /\ (Ready("getColor")' <=> Ready("getColor"))
      /\ (Ready("writeLed")' <=> Ready("writeLed"))
      /\ at'["getColor"] = at["getColor"] /\ at'["writeLed"] = at["writeLed"]
  BY DEF Aside, Ready
<1>2. Clock'
  BY <1>1 DEF Turn, Clock, Aside
<1>3. /\ \A x, c : (Averaged(x, c)' <=> Averaged(x, c)) /\ (Stored(x, c)' <=> Stored(x, c))
      /\ \A c : (Copied(c)' <=> Copied(c)) /\ (Scaled(c)' <=> Scaled(c))
  BY <1>1 DEF Averaged, Stored, Copied, Scaled
<1>4. \A S : Seen(S) => S \ {Garbage} \subseteq seenPictures'
  BY DEF Seen, Aside
<1>5. Now' /\ TotalSeen'
  BY <1>1, <1>4 DEF Turn, TotalSeen, Seen, Aside
<1>6. AverageSeen'
  BY <1>3, <1>4 DEF Turn, AverageSeen, Seen, Aside
<1>7. PixelSeen' /\ LedSeen'
  BY <1>3, <1>4 DEF Turn, PixelSeen, LedSeen, Seen, Aside
<1> QED BY <1>2, <1>5, <1>6, <1>7 DEF Turn

LEMMA OverlayAside == ASSUME TypeOK, SetOverlay PROVE Aside
<1> DEFINE o == "setOverlay"
<1>1. /\ UNCHANGED <<total, average, pixel, ledBuffer, picture, level, seenPictures, seenLevels>>
      /\ \E step : Does(o, step)
  BY DEF SetOverlay, ReadSwitch0, DrawBorder, ReadSwitch1, FillBlock, SetOverlayDelay,
         Sleep, Does, averagesVars, worldVars, seenVars
<1>2. ~Ready("getColor") /\ ~Ready("writeLed")
  BY <1>1 DEF Does, Running, Task, Priority
<1>3. at'["getColor"] = at["getColor"] /\ at'["writeLed"] = at["writeLed"]
  BY OverlayUntouched DEF Untouched
<1>4. delay'["getColor"] = delay["getColor"] /\ delay'["writeLed"] = delay["writeLed"]
  <2>1. UNCHANGED delay \/ Sleep(o)
    BY DEF SetOverlay, ReadSwitch0, DrawBorder, ReadSwitch1, FillBlock, SetOverlayDelay,
           NextBlock, Goto
  <2>2. CASE Sleep(o)
    BY <2>2 DEF Sleep, TypeOK, KernelType, Task
  <2> QED BY <2>1, <2>2
<1> QED BY <1>1, <1>2, <1>3, <1>4 DEF Aside, Now

LEMMA WorldAside == ASSUME World PROVE Aside
<1> USE DEF Aside, Now, Tasks, kernelVars, averagesVars, seenVars
<1>1. CASE NewPicture
  BY <1>1 DEF NewPicture
<1>2. CASE NewLevel
  BY <1>2 DEF NewLevel
<1>3. CASE MoveSwitch
  BY <1>3 DEF MoveSwitch
<1> QED BY <1>1, <1>2, <1>3 DEF World

LEMMA InitTurn == ASSUME Init PROVE Turn
<1> DEFINE g == "getColor"  w == "writeLed"
<1>1. /\ Ready(g) /\ Ready(w) /\ at[g] = StartOf(g) /\ at[w] = StartOf(w)
      /\ sinceTick = 0 /\ total \subseteq {Garbage} /\ Now
  BY DEF Init, Ready, StartOf, Task, Now
<1>2. /\ at[g].step = "sample" /\ at[g].block = 1 /\ at[g].part = 1
      /\ at[w].step = "copy" /\ at[w].block = 1 /\ at[w].part = 1
  BY <1>1 DEF StartOf, Start
<1>3. GetColorDone(at[g]) = 0
  <2>1. (1 - 1) * PerBlock = 0
    BY Products, TurnFits, TasksAssumption DEF Block
  <2>2. GetColorDone(at[g]) = (1 - 1) * PerBlock + 0 + 1 - 1
    BY <1>2 DEF GetColorDone
  <2> QED BY <2>1, <2>2
<1>4. Clock
  BY <1>1, <1>3 DEF Clock
<1>5. /\ \A x \in Block, c \in Channel : ~Averaged(x, c) /\ ~Stored(x, c)
      /\ \A c \in Channel : ~Copied(c) /\ ~Scaled(c)
  <2>1. \A x \in Block : ~(x < 1)
    BY DEF Block
  <2> QED BY <1>1, <1>2, <2>1 DEF Averaged, Stored, Copied, Scaled, Channel
<1> QED
  BY <1>1, <1>4, <1>5 DEF Turn, TotalSeen, AverageSeen, PixelSeen, LedSeen, Seen

LEMMA StepTurn ==
  ASSUME IInv, tickSteps >= TurnSteps, Turn, [Next]_vars
  PROVE  Turn'
<1>1. CASE UNCHANGED vars
  <2>1. Aside
    BY <1>1 DEF vars, Aside, Now, kernelVars, worldVars, seenVars
  <2> QED BY <2>1, AsideTurn
<1>2. CASE Tick
  BY <1>2, TickTurn
<1>3. CASE GetColor
  BY <1>3, SampleTurn, AverageTurn, GetColorDelayTurn DEF GetColor
<1>4. CASE WriteLed
  BY <1>4, CopyTurn, ScaleTurn, StoreTurn, WriteLedDelayTurn DEF WriteLed
<1>5. CASE SetOverlay
  BY <1>5, OverlayAside, AsideTurn DEF IInv
<1>6. CASE World
  BY <1>6, WorldAside, AsideTurn
<1> QED BY <1>1, <1>2, <1>3, <1>4, <1>5, <1>6 DEF Next

LEMMA PaceStays == ASSUME [Next]_vars PROVE tickSteps' = tickSteps
<1>1. ASSUME NEW t, NEW step, Does(t, step) PROVE tickSteps' = tickSteps
  BY <1>1 DEF Does, worldVars
<1>2. CASE UNCHANGED vars
  BY <1>2 DEF vars, worldVars
<1>3. CASE Tick
  BY <1>3 DEF Tick, worldVars
<1>4. CASE GetColor
  BY <1>1, <1>4 DEF GetColor, Sample, Average, GetColorDelay, Sleep
<1>5. CASE WriteLed
  BY <1>1, <1>5 DEF WriteLed, Copy, Scale, Store, WriteLedDelay, Sleep
<1>6. CASE SetOverlay
  BY <1>1, <1>6 DEF SetOverlay, ReadSwitch0, DrawBorder, ReadSwitch1, FillBlock,
                    SetOverlayDelay, Sleep
<1>7. CASE World
  BY <1>7 DEF World, NewPicture, NewLevel, MoveSwitch, Tasks
<1> QED BY <1>2, <1>3, <1>4, <1>5, <1>6, <1>7 DEF Next

(* When a tick lasts long enough for a turn of both tasks, what an LED at  *)
(* rest shows was in the decoder's buffer and in the brightness register   *)
(* since the tick that started the turn.                                   *)
THEOREM LedsAreFresh == Spec => []Fresh
<1>1. Init => TInv
  BY InitTurn DEF TInv
<1>2. IInv /\ TInv /\ [Next]_vars => TInv'
  BY StepTurn, PaceStays DEF TInv
<1>3. TInv => Fresh
  <2> SUFFICES ASSUME Turn, ~Ready("writeLed")
               PROVE  \A b \in Block, c \in Channel :
                        /\ ledBuffer[b][c].pictures \ {Garbage} \subseteq seenPictures
                        /\ ledBuffer[b][c].level \in seenLevels
    BY DEF TInv, Fresh
  <2>1. \A b, c : Stored(b, c)
    BY DEF Stored
  <2> QED BY <2>1 DEF Turn, LedSeen, Seen
<1>4. Spec => []IInv
  BY Invariant
<1>5. Init /\ []IInv /\ [][Next]_vars => []TInv
  BY <1>1, <1>2, PTL
<1> QED BY <1>3, <1>4, <1>5, PTL DEF Spec
=============================================================================
