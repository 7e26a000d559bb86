------------------------------ MODULE OsQueue ------------------------------
(***************************************************************************)
(* The ring of message pointers behind a message queue (OS_Q).  The        *)
(* pointers OSQIn and OSQOut are offsets from OSQStart; OSQEnd is the      *)
(* offset size.  A slot keeps its old message after it has been read.      *)
(***************************************************************************)
EXTENDS Integers, Sequences

NewRing(size, null) ==
    [buf |-> [i \in 0 .. size - 1 |-> null], in |-> 0, out |-> 0,
     entries |-> 0, size |-> size]

Full(q) == q.entries >= q.size

Front(q) == q.buf[q.out]

After(size, i) == IF i + 1 = size THEN 0 ELSE i + 1
Before(size, i) == IF i = 0 THEN size - 1 ELSE i - 1

PutBack(q, m) ==
    [q EXCEPT !.buf[q.in] = m, !.in = After(q.size, @), !.entries = @ + 1]

PutFront(q, m) ==
    LET slot == Before(q.size, q.out) IN
    [q EXCEPT !.buf[slot] = m, !.out = slot, !.entries = @ + 1]

TakeFront(q) ==
    [q EXCEPT !.out = After(q.size, @), !.entries = @ - 1]

FlushRing(q) == [q EXCEPT !.in = 0, !.out = 0, !.entries = 0]

(* The slot i places after an offset, and the messages in the order in     *)
(* which they will be taken.                                               *)
Slot(size, off, i) == IF off + i >= size THEN off + i - size ELSE off + i

Contents(q) == [i \in 1 .. q.entries |-> q.buf[Slot(q.size, q.out, i - 1)]]
=============================================================================
