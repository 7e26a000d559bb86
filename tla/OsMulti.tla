------------------------------ MODULE OsMulti ------------------------------
(***************************************************************************)
(* OSEventPendMulti (os_core.c): waiting for any of several semaphores,    *)
(* mailboxes and queues.  The list of events is the set S; its order       *)
(* decides only the order of the results.  The types are checked before    *)
(* the critical section, in Firmware; the second check inside it could     *)
(* fail only after a deletion in between and is left out.                  *)
(***************************************************************************)
EXTENDS OsSem, OsMbox, OsQ

Offers(k, e) ==
    CASE k.event[e].type = "SEM" -> k.event[e].cnt > 0
      [] k.event[e].type = "MBOX" -> k.event[e].ptr # Null
      [] k.event[e].type = "Q" -> TheRing(k, e).entries > 0

(* One unit is taken of everything that offers one.                        *)
TakeAll(k, Avail) ==
    LET Rings == {k.event[e].ptr : e \in {f \in Avail : k.event[f].type = "Q"}} IN
    [k EXCEPT
       !.event = [e \in Ecb |->
           CASE e \in Avail /\ k.event[e].type = "SEM" -> [k.event[e] EXCEPT !.cnt = @ - 1]
             [] e \in Avail /\ k.event[e].type = "MBOX" -> [k.event[e] EXCEPT !.ptr = Null]
             [] OTHER -> k.event[e]],
       !.queue = [q \in Qcb |-> IF q \in Rings THEN TakeFront(k.queue[q]) ELSE k.queue[q]]]

Messages(k, Avail) ==
    {k.event[e].ptr : e \in {f \in Avail : k.event[f].type = "MBOX"}}
    \cup {Front(TheRing(k, e)) : e \in {f \in Avail : k.event[f].type = "Q"}}

OSEventPendMulti(k, S, timeout) ==
    LET Avail == {e \in S : Offers(k, e)}
        stat == {k.event[e].type : e \in S} \cup {"MULTI"}
    IN IF Avail # {} THEN Gives(TakeAll(k, Avail), Messages(k, Avail))
       ELSE Blocks(OS_EventTaskWaitMulti(StartsToWait(k, stat, timeout), S),
                   "MultiPended")

(* The event that ended the wait is the one in the control block; after a  *)
(* timeout the task takes its bits out of every list.  When the event has  *)
(* been deleted the call returns an error and leaves the control block.    *)
MultiPended(k, S) ==
    LET t == k.cur
        c == k.tcb[t]
        ended == c.pend \in {"OK", "ABORT"} /\ c.event # Null
        gone == ended /\ c.pend = "OK" /\ k.event[c.event].type \notin {"SEM", "MBOX", "Q"}
        k1 == IF ended THEN k ELSE OS_EventTaskRemoveMulti(k, t, S)
        k2 == [EndsWait(k1, t) EXCEPT !.tcb[t].msg = Null]
    IN CASE gone -> Fails(k)
         [] ~gone /\ ended /\ c.pend = "OK" -> Gives(k2, {c.msg} \ {Null})
         [] OTHER -> Fails(k2)
=============================================================================
