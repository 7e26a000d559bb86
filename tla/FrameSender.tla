---------------------------- MODULE FrameSender ----------------------------
(***************************************************************************)
(* What the LED pipeline promises, without clocks, bits or bus: the strip  *)
(* is sent frame after frame of NumPixels words; while a word is sent the  *)
(* next word of the buffer is fetched, each word once per frame and in     *)
(* order; a frame is shown as a whole.  The word sent first is the one     *)
(* fetched last, in the frame before: the picture is shifted by one LED.   *)
(***************************************************************************)
EXTENDS Integers, Sequences

CONSTANTS NumPixels, Words, Black

VARIABLES
  buffer,   \* the LED buffer: 0..NumPixels-1 -> word
  cursor,   \* words fetched in this frame
  held,     \* the word fetched last
  sent,     \* the words sent since the strip latched
  shown     \* what the strip shows

vars == <<buffer, cursor, held, sent, shown>>

Init ==
  /\ buffer \in [0..NumPixels-1 -> Words]
  /\ cursor = 0
  /\ held = Black
  /\ sent = <<>>
  /\ shown = [k \in 0..NumPixels-1 |-> Black]

Store ==
  /\ \E k \in 0..NumPixels-1, w \in Words : buffer' = [buffer EXCEPT ![k] = w]
  /\ UNCHANGED <<cursor, held, sent, shown>>

Send ==
  /\ Len(sent) < NumPixels
  /\ cursor = Len(sent)
  /\ sent' = Append(sent, held)
  /\ UNCHANGED <<buffer, cursor, held, shown>>

Fetch ==
  /\ cursor < NumPixels
  /\ Len(sent) = cursor + 1
  /\ held' = buffer[cursor]
  /\ cursor' = cursor + 1
  /\ UNCHANGED <<buffer, sent, shown>>

Latch ==
  /\ cursor = NumPixels
  /\ Len(sent) = NumPixels
  /\ shown' = [k \in 0..NumPixels-1 |-> sent[k+1]]
  /\ sent' = <<>>
  /\ cursor' = 0
  /\ UNCHANGED <<buffer, held>>

Next == Store \/ Send \/ Fetch \/ Latch

Spec == Init /\ [][Next]_vars
=============================================================================
