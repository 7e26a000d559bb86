------------------------------ MODULE JtagUart ------------------------------
(***************************************************************************)
(* The driver of the JTAG UART: the two rings that the calls read and      *)
(* write share with the interrupt handler, irq_enable, and the count of    *)
(* seconds without a sign of the host.  u is the driver's state together   *)
(* with the device's: rxFifo and txFifo are the device's FIFOs and active  *)
(* its AC bit.  What the host does with them is external.                  *)
(***************************************************************************)
EXTENDS Integers, Sequences

CONSTANTS BufLen,                \* ALTERA_AVALON_JTAG_UART_BUF_LEN
          FifoLen,               \* depth of either FIFO of the device
          HostTimeout,           \* default time-out, in seconds
          RxMod                  \* the host numbers what it sends modulo RxMod

ASSUME UartAssumption ==
    BufLen \in Nat \ {0} /\ FifoLen \in Nat /\ HostTimeout \in Nat /\ RxMod \in Nat \ {0}

NoChar == [by |-> 0, i |-> 0]

UartInit ==
    [rx |-> [i \in 0 .. BufLen - 1 |-> 0], rxIn |-> 0, rxOut |-> 0,
     tx |-> [i \in 0 .. BufLen - 1 |-> NoChar], txIn |-> 0, txOut |-> 0,
     irq |-> {"RE"}, inactive |-> 0, timeout |-> HostTimeout,
     rxFifo |-> << >>, txFifo |-> << >>, active |-> FALSE,
     typed |-> 0, shown |-> NoChar]

Later(i, n) == (i + n) % BufLen

(* The characters of a ring from offset out up to offset in.               *)
Ring(buf, out, in) ==
    [i \in 1 .. (in - out) % BufLen |-> buf[Later(out, i - 1)]]

Received(u) == Ring(u.rx, u.rxOut, u.rxIn)
Unsent(u) == Ring(u.tx, u.txOut, u.txIn)

(* How many characters read may copy at once, and write, for the offsets   *)
(* in and out it has read: never past the end of the array.                *)
Readable(in, out) == IF in >= out THEN in - out ELSE BufLen - out

(* Mutant: with out at the array's start the last slot is filled too.      *)
WritableFull(in, out) == IF in < out THEN out - 1 - in ELSE BufLen - in

Writable(in, out) ==
    CASE in < out -> out - 1 - in
      [] in >= out /\ out > 0 -> BufLen - in
      [] in >= out /\ out = 0 -> BufLen - 1 - in

AtMost(n, left) == IF n > left THEN left ELSE n

CopyOut(u, out, n) == [u EXCEPT !.rxOut = Later(out, n)]

CopyIn(u, in, chars) ==
    [u EXCEPT !.tx = [i \in 0 .. BufLen - 1 |->
                        IF i \in in .. in + Len(chars) - 1
                        THEN chars[i - in + 1] ELSE @[i]],
              !.txIn = Later(in, Len(chars))]

EnableRead(u) == [u EXCEPT !.irq = @ \cup {"RE"}]
EnableWrite(u) == [u EXCEPT !.irq = @ \cup {"WE"}]

-----------------------------------------------------------------------------

(* RI and WI of the control register.                                      *)
ReadPending(u) == "RE" \in u.irq /\ u.rxFifo # << >>
WritePending(u) == "WE" \in u.irq /\ Len(u.txFifo) < FifoLen

(* The handler moves what fits into the ring; with data left in the device *)
(* it disables the read interrupt.                                         *)
IrqRead(u) ==
    LET n == AtMost(Len(u.rxFifo), BufLen - 1 - Len(Received(u)))
        left == SubSeq(u.rxFifo, n + 1, Len(u.rxFifo))
    IN [u EXCEPT !.rx = [i \in 0 .. BufLen - 1 |->
                           IF (i - u.rxIn) % BufLen < n
                           THEN u.rxFifo[((i - u.rxIn) % BufLen) + 1] ELSE @[i]],
                 !.rxIn = Later(@, n),
                 !.rxFifo = left,
                 !.irq = IF left # << >> THEN @ \ {"RE"} ELSE @]

(* It moves what the device has space for; with space left it disables the *)
(* write interrupt.                                                        *)
IrqWrite(u) ==
    LET n == AtMost(Len(Unsent(u)), FifoLen - Len(u.txFifo))
    IN [u EXCEPT !.txFifo = @ \o SubSeq(Unsent(u), 1, n),
                 !.txOut = Later(@, n),
                 !.irq = IF n < FifoLen - Len(u.txFifo) THEN @ \ {"WE"} ELSE @]

(* One pass serves both directions, after which neither bit is set.        *)
Irq(u) ==
    LET u1 == IF ReadPending(u) THEN IrqRead(u) ELSE u
    IN IF WritePending(u1) THEN IrqWrite(u1) ELSE u1

(* Mutant: a writer that waits for room is not told of it.                 *)
IrqFlagsRead(u) == IF Irq(u).rxIn # u.rxIn THEN {"READ_RDY"} ELSE {}

(* The flags that the handler posts for the characters it has moved.       *)
IrqFlags(u) ==
    (IF Irq(u).rxIn # u.rxIn THEN {"READ_RDY"} ELSE {})
    \cup (IF Irq(u).txOut # u.txOut THEN {"WRITE_RDY"} ELSE {})

(* The alarm of each second: a host that showed itself clears the count,   *)
(* which is cut off at HostTimeout, the longest time-out a program sets    *)
(* but Never.                                                              *)
Timeout(u) ==
    IF u.active THEN [u EXCEPT !.active = FALSE, !.inactive = 0]
    ELSE [u EXCEPT !.inactive = IF @ < HostTimeout THEN @ + 1 ELSE @]

TimeoutFlags(u) ==
    IF ~u.active /\ Timeout(u).inactive >= u.timeout THEN {"TIMEOUT"} ELSE {}

(* ioctl TIOCSTIMEOUT: less than two seconds stands for no time-out at all,*)
(* INT_MAX - 1, which the count never reaches.                             *)
Never == HostTimeout + 1
SetTimeout(u, seconds) ==
    [u EXCEPT !.timeout = IF seconds >= 2 THEN seconds ELSE Never]

(* What close waits for.                                                   *)
Drained(u) == u.txIn = u.txOut \/ u.inactive >= u.timeout

-----------------------------------------------------------------------------

(* The host types a character or takes one, and shows itself by it.        *)
HostSends(u) ==
    [u EXCEPT !.rxFifo = Append(@, u.typed), !.typed = (@ + 1) % RxMod,
              !.active = TRUE]

HostTakes(u) ==
    [u EXCEPT !.shown = Head(u.txFifo), !.txFifo = Tail(@), !.active = TRUE]
=============================================================================
