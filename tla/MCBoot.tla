------------------------------- MODULE MCBoot ------------------------------
(***************************************************************************)
(* Boot and the video drivers for TLC: main comes up, and when it has      *)
(* restored the whole screen the application draws.                        *)
(***************************************************************************)
EXTENDS Boot, VideoBuffer

(* The two lines of calibrate, lit from lo to hi but for the points dark. *)
LitFrom(D, lo, hi, dark) == [i \in D |-> i \in lo..hi /\ i \notin dark]

(* Two letterboxed pictures with dark points inside, neither lit where the *)
(* other is, so that a change in mid-scan sends each of the loops round    *)
(* the whole unsigned range; and one that is dark on calibrate's column.   *)
MCHigh == [column |-> LitFrom(Rows, 1, 4, {3}), row |-> LitFrom(Columns, 2, 6, {4})]
MCLow == [column |-> LitFrom(Rows, 6, 9, {}), row |-> LitFrom(Columns, 9, 15, {10, 14})]
MCDark == [column |-> LitFrom(Rows, 1, 0, {}), row |-> LitFrom(Columns, 5, 5, {})]
MCPictures == {MCHigh, MCLow, MCDark}
IsDark(p) == Lit(p.column) = {}

(* Every frame of the screen that is large; when the board powers up with  *)
(* one of them main restores it.                                           *)
MCFrames ==
  {f \in [X : Columns, Y : Rows, Width : 0..FRAMEWIDTH, Height : 0..FRAMEHEIGHT] : Large(f)}

(* Two frames nobody calibrated, from which everything may happen.         *)
MCSmallFrame == [X |-> 1, Y |-> 1, Width |-> 3, Height |-> 2]
MCPowerUpFrames == {NoFrame, MCSmallFrame} \cup MCFrames

MCWholeScreen == [X |-> 0, Y |-> 0, Width |-> FRAMEWIDTH, Height |-> FRAMEHEIGHT]
MCWholeScreens == {MCWholeScreen}
MCBooleans == BOOLEAN
MCDown == {FALSE}

(* Both drivers in both addressing modes, with 16 and 32 bits of colour.   *)
MCDevices == [driver : {"pixel_buffer", "dma"}, xy : BOOLEAN, bytes : {2, 4}]
MCDmaDevices == {d \in MCDevices : d.driver = "dma"}

-----------------------------------------------------------------------------
(* An application draws when main has started it, on the whole screen.     *)
Given == savedBy = "powerUp" /\ Large(saved)

MCInit ==
  /\ Init /\ VideoInit
  /\ Given => picture = MCHigh
  /\ saved # MCWholeScreen =>
       /\ device = [driver |-> "dma", xy |-> FALSE, bytes |-> 4]
       /\ driver = [front |-> "A", back |-> "B"]

(* A frame that is given is restored at once; and a dark screen, on which  *)
(* the loops may stop anywhere, stays dark, and the key is not pressed.    *)
BootStep ==
  /\ Next /\ UNCHANGED videoVars
  /\ Given => pc' # "scanTop" /\ UNCHANGED boundVars
  /\ IsDark(picture) \/ IsDark(picture') => UNCHANGED boundVars

VideoStep ==
  /\ pc = "running" /\ saved = MCWholeScreen
  /\ VideoNext /\ UNCHANGED vars

MCVars == << vars, videoVars >>
MCSpec == MCInit /\ [][BootStep \/ VideoStep]_MCVars
MCFairSpec == MCSpec /\ WF_vars(Main)
=============================================================================
