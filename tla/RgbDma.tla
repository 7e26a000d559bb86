------------------------------- MODULE RgbDma -------------------------------
(***************************************************************************)
(* The pixel fetcher, src/Qsys/RGBDMA.vhd: an Avalon master clocked by clk *)
(* (50 MHz) that reads the next word of the LED buffer each time getnext   *)
(* rises, and goes back to the first one while ledreturn is high.  As in   *)
(* LedDriver, current_s and next_s are one register, here dmaState.        *)
(***************************************************************************)
EXTENDS Integers

CONSTANTS
  BaseAddress,  \* generic baseAdress (0x04050000 on the board)
  NumPixels

RgbDmaAssumption == BaseAddress \in Nat /\ NumPixels \in Nat \ {0}

VARIABLES
  dmaState,
  atAddress,    \* the variable atAdress: where the next read goes
  address, read,  \* output signals, on the bus
  rgb,          \* output signals red, green, blue
  getnext, ledreturn  \* input ports, driven by the LED driver

dmaVars == <<dmaState, atAddress, address, read, rgb>>

DmaStates == {"idle", "setmaster", "reading", "finishread"}

WordBytes == 4

(* The address of word k of the LED buffer.  The last one, NumPixels, is   *)
(* the word behind the words of the strip.                                 *)
WordAddress(k) == BaseAddress + WordBytes * k
BufferAddresses == {WordAddress(k) : k \in 0..NumPixels}

DmaInit(black) ==
  /\ dmaState = "idle"
  /\ atAddress = BaseAddress
  /\ address = 0 /\ read = 0
  /\ rgb = black

(* Mutant: the reset leaves the address as well. *)
DmaResetNothing == UNCHANGED dmaVars

(* The asynchronous reset moves the address back and leaves the rest. *)
DmaReset ==
  /\ atAddress' = BaseAddress
  /\ UNCHANGED <<dmaState, address, read, rgb>>

-----------------------------------------------------------------------------
(* On every edge the address of the edge before appears on the bus. *)
ShowAddress == address' = atAddress

Rewind ==
  /\ dmaState = "idle"
  /\ ledreturn = 1
  /\ atAddress' = BaseAddress
  /\ ShowAddress
  /\ UNCHANGED <<dmaState, read, rgb>>

Request ==
  /\ dmaState = "idle"
  /\ ledreturn # 1
  /\ dmaState' = IF getnext = 1 THEN "setmaster" ELSE "idle"
  /\ ShowAddress
  /\ UNCHANGED <<atAddress, read, rgb>>

SetMaster ==
  /\ dmaState = "setmaster"
  /\ read' = 1
  /\ dmaState' = "reading"
  /\ ShowAddress
  /\ UNCHANGED <<atAddress, rgb>>

(* Mutant: the address moves on with the answer. *)
ReadingMovesOn(waitrequest, readdata) ==
  /\ dmaState = "reading"
  /\ IF waitrequest = 1
       THEN UNCHANGED <<dmaState, rgb>> /\ address' = atAddress
       ELSE /\ dmaState' = "finishread" /\ rgb' = readdata
            /\ address' = atAddress + WordBytes
  /\ UNCHANGED <<atAddress, read>>

(* waitrequest and readdata are the bus as it is sampled on this edge. *)
Reading(waitrequest, readdata) ==
  /\ dmaState = "reading"
  /\ IF waitrequest = 1
       THEN UNCHANGED <<dmaState, rgb>>
       ELSE dmaState' = "finishread" /\ rgb' = readdata
  /\ ShowAddress
  /\ UNCHANGED <<atAddress, read>>

(* Mutant: getnext is not awaited, the next read follows at once. *)
FinishReadAtOnce ==
  /\ dmaState = "finishread"
  /\ read' = 0
  /\ atAddress' = atAddress + WordBytes /\ dmaState' = "idle"
  /\ ShowAddress
  /\ UNCHANGED rgb

(* Mutant: the address does not move on. *)
FinishReadStays ==
  /\ dmaState = "finishread"
  /\ read' = 0
  /\ IF getnext = 0 THEN dmaState' = "idle" ELSE UNCHANGED dmaState
  /\ ShowAddress
  /\ UNCHANGED <<atAddress, rgb>>

FinishRead ==
  /\ dmaState = "finishread"
  /\ read' = 0
  /\ IF getnext = 0
       THEN atAddress' = atAddress + WordBytes /\ dmaState' = "idle"
       ELSE UNCHANGED <<atAddress, dmaState>>
  /\ ShowAddress
  /\ UNCHANGED rgb

(* A rising edge of clk. *)
DmaEdge(waitrequest, readdata) ==
  \/ Rewind
  \/ Request
  \/ SetMaster
  \/ Reading(waitrequest, readdata)
  \/ FinishRead
=============================================================================
