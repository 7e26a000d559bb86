--------------------------- MODULE AmbilightTasks --------------------------
(***************************************************************************)
(* The three tasks mblight.c runs under uC/OS-II: TaskGetColor averages    *)
(* the picture in each block, TaskWriteLed writes the averages, scaled by  *)
(* the brightness level, to the LED buffer, TaskSetOverlay draws what the  *)
(* switches ask for.  They share the averages without a lock; a tick may   *)
(* preempt a task between any two accesses to shared memory.               *)
(*                                                                         *)
(* A colour is modelled by where it comes from: the set of pictures whose  *)
(* pixels were summed, and the level one of its channels was scaled with.  *)
(* One step of a task is one access to a variable another task, a register *)
(* or the decoder also touches.                                            *)
(***************************************************************************)
EXTENDS Integers

CONSTANTS
  NumBlocks,     \* blocks, and LEDs, round the picture
  NumChannels,   \* the channels of a colour
  NumParts,      \* the reads a block is sampled with
  Levels,        \* what the brightness register can hold
  Paces,         \* how many steps may fit between two ticks, at least
  MaxPictures,   \* bound: pictures the decoder delivers
  MaxLevels,     \* bound: changes of the brightness register
  MaxSwitches    \* bound: moves of a switch

VARIABLES
  delay,         \* OSTCBDly of each task
  at,            \* where each task is
  total,         \* pictures summed in totalR, totalG and totalB
  average,       \* frameBlock[..].average, by block and channel
  pixel,         \* TaskWriteLed's copy of an average, by channel
  ledBuffer,     \* by LED and channel
  switches, indicators,
  overlayStatus, blockstatus,
  border, inner, \* the blocks whose border, whose inside, is drawn
  picture,       \* the latest picture in decoderBuffer
  level,         \* *brightnessBuffer
  tickSteps,     \* steps the processor does between two ticks, at least
  sinceTick,     \* steps done since the last tick, up to tickSteps
  levels, moves, \* bounded counters
  seenPictures, seenLevels  \* history: since TaskGetColor last woke up

kernelVars == <<delay, at>>
overlayVars == <<indicators, overlayStatus, blockstatus, border, inner>>
worldVars == <<switches, picture, level, levels, moves, tickSteps>>
seenVars == <<seenPictures, seenLevels>>
vars == <<kernelVars, total, average, pixel, ledBuffer, overlayVars, worldVars,
          sinceTick, seenVars>>

Block == 1..NumBlocks
Channel == 1..NumChannels
Switch == {0, 1}
Task == {"getColor", "writeLed", "setOverlay"}

(* What is in a variable nobody initialised, in place of a picture. *)
Garbage == 0
PictureSets == SUBSET (0..MaxPictures)

ASSUME TasksAssumption ==
  /\ NumBlocks \in Nat \ {0} /\ NumChannels \in Nat \ {0} /\ NumParts \in Nat \ {0}
  /\ Levels # {} /\ Paces \subseteq Nat
  /\ MaxPictures \in Nat \ {0} /\ MaxLevels \in Nat /\ MaxSwitches \in Nat

(* Mutant: TaskWriteLed goes before TaskGetColor. *)
PrioritySwapped == [getColor |-> 2, writeLed |-> 1, setOverlay |-> 3]

Priority == [getColor |-> 1, writeLed |-> 2, setOverlay |-> 3]

(* Ticks of OSTimeDlyHMSM(0, 0, 0, ms) at four ticks a second. *)
OS_TICKS_PER_SEC == 4
Ticks(ms) == (OS_TICKS_PER_SEC * (ms + 500 \div OS_TICKS_PER_SEC)) \div 1000

Milliseconds == [getColor |-> 150, writeLed |-> 150, setOverlay |-> 500]

Start == [getColor |-> "sample", writeLed |-> "copy", setOverlay |-> "switch0"]

(* OSStart: the three tasks are ready.  Globals are zero; the LED buffer   *)
(* holds what the memory held.                                             *)
Init ==
  /\ delay = [t \in Task |-> 0]
  /\ at = [t \in Task |-> [step |-> Start[t], block |-> 1, part |-> 1]]
  /\ total \in {{}, {Garbage}}
  /\ average = [b \in Block |-> [c \in Channel |-> {}]]
  /\ level \in Levels
  /\ pixel = [c \in Channel |-> [pictures |-> {}, level |-> level]]
  /\ ledBuffer = [b \in Block |->
                    [c \in Channel |-> [pictures |-> {Garbage}, level |-> level]]]
  /\ switches \in [Switch -> BOOLEAN]
  /\ indicators = [s \in Switch |-> FALSE]
  /\ overlayStatus = FALSE /\ blockstatus = FALSE
  /\ border = {} /\ inner = {}
  /\ picture = 1
  /\ tickSteps \in Paces /\ sinceTick = 0
  /\ levels = 0 /\ moves = 0
  /\ seenPictures = {picture} /\ seenLevels = {level}

-----------------------------------------------------------------------------
(* The kernel, as far as these tasks use it.                               *)
Ready(t) == delay[t] = 0

Running(t) == Ready(t) /\ \A u \in Task : Ready(u) => Priority[t] <= Priority[u]

Idle == \A t \in Task : ~Ready(t)

(* The running task t does the step it is at. *)
Does(t, step) ==
  /\ Running(t) /\ at[t].step = step
  /\ sinceTick' = IF sinceTick < tickSteps THEN sinceTick + 1 ELSE sinceTick
  /\ UNCHANGED <<worldVars, seenVars>>

Goto(t, step, block, part) ==
  /\ at' = [at EXCEPT ![t] = [step |-> step, block |-> block, part |-> part]]
  /\ UNCHANGED delay

(* To the next block of a loop over the edges, or out of the loop. *)
NextBlock(t, step, after) ==
  LET b == at[t].block IN
  IF b < NumBlocks THEN Goto(t, step, b + 1, 1) ELSE Goto(t, after, 1, 1)

(* OSTimeDlyHMSM at the bottom of the task's loop. *)
Sleep(t) ==
  /\ Does(t, "delay")
  /\ delay' = [delay EXCEPT ![t] = Ticks(Milliseconds[t])]
  /\ at' = [at EXCEPT ![t] = [step |-> Start[t], block |-> 1, part |-> 1]]

(* Mutant: OSTimeTick counts down a delay that is over. *)
CountDownAll == [t \in Task |-> delay[t] - 1]

CountDown == [t \in Task |-> IF delay[t] # 0 THEN delay[t] - 1 ELSE 0]

(* The timer interrupt: OSTimeTick.  While no task is ready the idle task  *)
(* waits for it.                                                           *)
Tick ==
  /\ Idle \/ sinceTick = tickSteps
  /\ delay' = CountDown
  /\ sinceTick' = 0
  /\ IF delay["getColor"] = 1
       THEN seenPictures' = {picture} /\ seenLevels' = {level}
       ELSE UNCHANGED seenVars
  /\ UNCHANGED <<at, total, average, pixel, ledBuffer, overlayVars, worldVars>>

-----------------------------------------------------------------------------
(* TaskGetColor: getAverages.                                              *)
Sample ==
  LET b == at["getColor"].block  p == at["getColor"].part IN
  /\ Does("getColor", "sample")
  /\ total' = total \cup {picture}
  /\ IF p < NumParts THEN Goto("getColor", "sample", b, p + 1)
                     ELSE Goto("getColor", "average", b, 1)
  /\ UNCHANGED <<average, pixel, ledBuffer, overlayVars>>

(* Mutant: the totals are not reset after a block. *)
NextTotalKept == total

(* The totals after a block's last division. *)
NextTotal == {}

Average ==
  LET b == at["getColor"].block  c == at["getColor"].part IN
  /\ Does("getColor", "average")
  /\ average' = [average EXCEPT ![b][c] = total]
  /\ IF c < NumChannels
       THEN Goto("getColor", "average", b, c + 1) /\ UNCHANGED total
       ELSE NextBlock("getColor", "sample", "delay") /\ total' = NextTotal
  /\ UNCHANGED <<pixel, ledBuffer, overlayVars>>

(* The next call does not initialise its totals: they are what the last    *)
(* call left in their place, or what something else did.                   *)
GetColorDelay ==
  /\ Sleep("getColor")
  /\ total' \in {total, {Garbage}}
  /\ UNCHANGED <<average, pixel, ledBuffer, overlayVars>>

-----------------------------------------------------------------------------
(* TaskWriteLed: averageToLeds, addColorBrightness and setLed.             *)
WriteLedGoto(step, c, next) ==
  LET b == at["writeLed"].block IN
  IF c < NumChannels THEN Goto("writeLed", step, b, c + 1)
                     ELSE Goto("writeLed", next, b, 1)

Copy ==
  LET b == at["writeLed"].block  c == at["writeLed"].part IN
  /\ Does("writeLed", "copy")
  /\ pixel' = [pixel EXCEPT ![c].pictures = average[b][c]]
  /\ WriteLedGoto("copy", c, "scale")
  /\ UNCHANGED <<total, average, ledBuffer, overlayVars>>

(* Mutant: the register is not volatile, its first value is kept. *)
ScaleWithCached(c) == pixel[c].level

(* Every channel reads the register again. *)
ScaleWith(c) == level

Scale ==
  LET c == at["writeLed"].part IN
  /\ Does("writeLed", "scale")
  /\ pixel' = [pixel EXCEPT ![c].level = ScaleWith(c)]
  /\ WriteLedGoto("scale", c, "store")
  /\ UNCHANGED <<total, average, ledBuffer, overlayVars>>

Store ==
  LET b == at["writeLed"].block  c == at["writeLed"].part IN
  /\ Does("writeLed", "store")
  /\ ledBuffer' = [ledBuffer EXCEPT ![b][c] = pixel[c]]
  /\ IF c < NumChannels THEN Goto("writeLed", "store", b, c + 1)
                        ELSE NextBlock("writeLed", "copy", "delay")
  /\ UNCHANGED <<total, average, pixel, overlayVars>>

WriteLedDelay ==
  /\ Sleep("writeLed")
  /\ UNCHANGED <<total, average, pixel, ledBuffer, overlayVars>>

-----------------------------------------------------------------------------
(* TaskSetOverlay.  Switch 0: draw or erase the borders when its position  *)
(* is not the one drawn.                                                   *)
averagesVars == <<total, average, pixel, ledBuffer>>

ReadSwitch0 ==
  /\ Does("setOverlay", "switch0")
  /\ IF switches[0] # overlayStatus
       THEN /\ indicators' = [indicators EXCEPT ![0] = switches[0]]
            /\ Goto("setOverlay", IF switches[0] THEN "draw" ELSE "erase", 1, 1)
       ELSE Goto("setOverlay", "switch1", 1, 1) /\ UNCHANGED indicators
  /\ UNCHANGED <<averagesVars, overlayStatus, blockstatus, border, inner>>

DrawBorder ==
  \E step \in {"draw", "erase"} :
    LET b == at["setOverlay"].block IN
    /\ Does("setOverlay", step)
    /\ border' = IF step = "draw" THEN border \cup {b} ELSE border \ {b}
    /\ NextBlock("setOverlay", step, "switch1")
    /\ overlayStatus' = IF b = NumBlocks THEN step = "draw" ELSE overlayStatus
    /\ UNCHANGED <<averagesVars, indicators, blockstatus, inner>>

(* Switch 1: up fills the blocks every time, down clears them once. *)
ReadSwitch1 ==
  /\ Does("setOverlay", "switch1")
  /\ IF switches[1] \/ blockstatus
       THEN /\ indicators' = [indicators EXCEPT ![1] = switches[1]]
            /\ Goto("setOverlay", IF switches[1] THEN "fill" ELSE "clear", 1, 1)
       ELSE Goto("setOverlay", "delay", 1, 1) /\ UNCHANGED indicators
  /\ UNCHANGED <<averagesVars, overlayStatus, blockstatus, border, inner>>

(* Mutant: blockstatus is not set. *)
StatusAfterLost(step) == FALSE

StatusAfter(step) == step = "fill"

FillBlock ==
  \E step \in {"fill", "clear"} :
    LET b == at["setOverlay"].block IN
    /\ Does("setOverlay", step)
    /\ inner' = IF step = "fill" THEN inner \cup {b} ELSE inner \ {b}
    /\ NextBlock("setOverlay", step, "delay")
    /\ blockstatus' = IF b = NumBlocks THEN StatusAfter(step) ELSE blockstatus
    /\ UNCHANGED <<averagesVars, indicators, overlayStatus, border>>

SetOverlayDelay ==
  /\ Sleep("setOverlay")
  /\ UNCHANGED <<averagesVars, overlayVars>>

-----------------------------------------------------------------------------
(* The world: the decoder, the brightness slave and the switches.          *)
Tasks == <<kernelVars, averagesVars, overlayVars, tickSteps, sinceTick>>

NewPicture ==
  /\ picture < MaxPictures
  /\ picture' = picture + 1
  /\ seenPictures' = seenPictures \cup {picture'}
  /\ UNCHANGED <<Tasks, switches, level, levels, moves, seenLevels>>

NewLevel ==
  /\ levels < MaxLevels
  /\ level' \in Levels \ {level}
  /\ levels' = levels + 1
  /\ seenLevels' = seenLevels \cup {level'}
  /\ UNCHANGED <<Tasks, switches, picture, moves, seenPictures>>

MoveSwitch ==
  /\ moves < MaxSwitches
  /\ \E s \in Switch : switches' = [switches EXCEPT ![s] = ~@]
  /\ moves' = moves + 1
  /\ UNCHANGED <<Tasks, picture, level, levels, seenVars>>

GetColor == Sample \/ Average \/ GetColorDelay
WriteLed == Copy \/ Scale \/ Store \/ WriteLedDelay
SetOverlay ==
  ReadSwitch0 \/ DrawBorder \/ ReadSwitch1 \/ FillBlock \/ SetOverlayDelay
World == NewPicture \/ NewLevel \/ MoveSwitch

Next == Tick \/ GetColor \/ WriteLed \/ SetOverlay \/ World

Spec == Init /\ [][Next]_vars

(* The processor runs and the timer interrupts.  Nothing makes the world   *)
(* change.                                                                 *)
Fairness ==
  /\ WF_vars(Tick) /\ WF_vars(GetColor) /\ WF_vars(WriteLed) /\ WF_vars(SetOverlay)

FairSpec == Spec /\ Fairness

-----------------------------------------------------------------------------
(* The values of the variables, and the places a task can be at.           *)
Place ==
  [getColor |-> {"sample", "average", "delay"},
   writeLed |-> {"copy", "scale", "store", "delay"},
   setOverlay |-> {"switch0", "draw", "erase", "switch1", "fill", "clear", "delay"}]

Step ==
  {"sample", "average", "copy", "scale", "store", "switch0", "draw", "erase",
   "switch1", "fill", "clear", "delay"}

Colour == [pictures : PictureSets, level : Levels]

KernelType ==
  /\ delay \in [Task -> 0..2]
  /\ at \in [Task -> [step : Step, block : Block, part : Nat \ {0}]]
  /\ \A t \in Task : at[t].step \in Place[t]
  /\ at["getColor"].step = "sample" => at["getColor"].part <= NumParts
  /\ at["getColor"].step = "average" => at["getColor"].part <= NumChannels
  /\ at["writeLed"].part <= NumChannels

TypeOK ==
  /\ KernelType
  /\ total \in PictureSets
  /\ average \in [Block -> [Channel -> PictureSets]]
  /\ pixel \in [Channel -> Colour]
  /\ ledBuffer \in [Block -> [Channel -> Colour]]
  /\ switches \in [Switch -> BOOLEAN] /\ indicators \in [Switch -> BOOLEAN]
  /\ overlayStatus \in BOOLEAN /\ blockstatus \in BOOLEAN
  /\ border \subseteq Block /\ inner \subseteq Block
  /\ picture \in 1..MaxPictures
  /\ level \in Levels
  /\ tickSteps \in Paces /\ sinceTick \in 0..tickSteps
  /\ levels \in 0..MaxLevels /\ moves \in 0..MaxSwitches
  /\ seenPictures \in PictureSets /\ seenLevels \subseteq Levels

(* No picture of S is newer than one of T. *)
NotNewer(S, T) == \A p \in S \ {Garbage}, q \in T \ {Garbage} : p <= q

(* However the tasks preempt each other, no channel of an LED goes back to *)
(* an older picture: TaskWriteLed's copy may be out of date when it is     *)
(* stored (mblight.c:532-541), but never older than what it replaces.      *)
NeverBack ==
  [][\A b \in Block, c \in Channel :
       LET old == ledBuffer[b][c].pictures  new == ledBuffer'[b][c].pictures IN
       old = new \/ NotNewer(old, new)]_vars

(* The steps of TaskGetColor and TaskWriteLed in one turn of their loops.  *)
TurnSteps == NumBlocks * (NumParts + NumChannels + 3 * NumChannels) + 2

(* When a tick lasts long enough for a turn of both, an LED at rest is     *)
(* made of what the decoder and the brightness register held since the     *)
(* tick that started the turn: TaskGetColor wakes with TaskWriteLed and    *)
(* goes first.                                                             *)
Fresh ==
  tickSteps >= TurnSteps /\ ~Ready("getColor") /\ ~Ready("writeLed") =>
    \A b \in Block, c \in Channel :
      /\ ledBuffer[b][c].pictures \ {Garbage} \subseteq seenPictures
      /\ ledBuffer[b][c].level \in seenLevels

(* When picture and brightness stay as they are, every LED but the first   *)
(* comes to show that picture, at that level in all of its channels, and   *)
(* nothing else, while a tick lasts for more than a turn of both tasks.    *)
Converges ==
  tickSteps > TurnSteps =>
    <>[](\A b \in Block \ {1}, c \in Channel :
           ledBuffer[b][c] = [pictures |-> {picture}, level |-> level])

(* When the switches are left alone, the overlay and the indicator LEDs    *)
(* come to show their positions, also when a switch was moved while the    *)
(* task was drawing, if a tick leaves that task a step.                    *)
OverlayFollows ==
  tickSteps > TurnSteps =>
    <>[](/\ indicators = switches
         /\ border = IF switches[0] THEN Block ELSE {}
         /\ inner = IF switches[1] THEN Block ELSE {})

(* The comment over getAverages: "Calculate the avarage colors from each   *)
(* frame block", so an average is made of pixels only (mblight.c:433).     *)
AveragesAreOfPixels ==
  \A b \in Block, c \in Channel : Garbage \notin average[b][c]
=============================================================================
