----------------------------- MODULE AvalonRead -----------------------------
(***************************************************************************)
(* The read path between the pixel fetcher and the SDRAM: the Merlin       *)
(* master translator of the Qsys interconnect                              *)
(* (altera_merlin_master_translator.sv with USE_READDATAVALID = 0), and    *)
(* behind it an external memory that stalls a command and delays its       *)
(* answer, each for a time the fetcher cannot see.                         *)
(*                                                                         *)
(* MaxWait bounds the edges of clk between the appearance of a read and    *)
(* its answer.  It stands for the arbitration of the interconnect and the  *)
(* SDRAM controller.                                                       *)
(***************************************************************************)
EXTENDS Integers

CONSTANTS MaxWait

AvalonReadAssumption == MaxWait \in Nat /\ MaxWait >= 2

VARIABLES
  readAccepted,   \* read_accepted: a command is behind the translator
  cmdAddress,     \* the address it was accepted with
  waited,         \* edges since its read appeared, at most MaxWait
  mem,            \* the LED buffer in SDRAM: address -> pixel
  address, read   \* driven by the fetcher

busVars == <<readAccepted, cmdAddress, waited>>

BusInit ==
  /\ readAccepted = 0
  /\ cmdAddress = 0
  /\ waited = 0

BusReset ==
  /\ readAccepted' = 0
  /\ waited' = 0
  /\ UNCHANGED cmdAddress

(* What the far side may put on its waitrequest (stall) and readdatavalid  *)
(* (valid) on an edge: it answers only what it accepted, and it accepts    *)
(* and answers within MaxWait edges.                                       *)
FarSide(stall, valid) ==
  /\ valid = 1 => readAccepted = 1
  /\ waited = MaxWait => valid = 1
  /\ (waited = MaxWait - 1 /\ readAccepted = 0) => stall = 0

(* av_waitrequest, the fetcher's waitrequest. *)
WaitRequest(stall, valid) == IF read = 1 THEN 1 - valid ELSE stall

(* The register read_accepted, and the command that passes: a read is      *)
(* passed on while none is accepted, whether or not the master has its     *)
(* answer already.                                                         *)
PassOn(stall) == read = 1 /\ readAccepted = 0 /\ stall = 0

Accept(stall, valid) ==
  readAccepted' = IF readAccepted = 1 THEN 1 - valid
                  ELSE IF PassOn(stall) THEN 1 ELSE 0

BusEdge(stall, valid) ==
  /\ FarSide(stall, valid)
  /\ Accept(stall, valid)
  /\ cmdAddress' = IF PassOn(stall) THEN address ELSE cmdAddress
  /\ waited' = IF valid = 1 \/ (read = 0 /\ readAccepted = 0)
                 THEN 0 ELSE waited + 1
=============================================================================
