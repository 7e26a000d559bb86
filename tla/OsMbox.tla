------------------------------- MODULE OsMbox -------------------------------
(***************************************************************************)
(* Mailboxes (os_mbox.c): one message pointer, OSEventPtr, Null when the   *)
(* mailbox is empty.                                                       *)
(***************************************************************************)
EXTENDS OsCore

OSMboxCreate(k, msg) ==
    IF k.freeEvent = << >> THEN Fails(k)
    ELSE Returns(TakeEvent(k, "MBOX", 0, 0, msg), Head(k.freeEvent))

OSMboxAccept(k, e) ==
    Gives([k EXCEPT !.event[e].ptr = Null], {k.event[e].ptr} \ {Null})

OSMboxDel(k, e, opt) == DeleteEvent(k, e, opt, "MBOX")

OSMboxPend(k, e, timeout) ==
    IF k.event[e].ptr # Null
    THEN OSMboxAccept(k, e)
    ELSE Blocks(OS_EventTaskWait(StartsToWait(k, {"MBOX"}, timeout), e),
                "MboxPended")

(* The message is the one the post left in the control block.              *)
MboxPended(k, e) ==
    LET c == k.tcb[k.cur] IN
    [Gives([AfterWait(k, e) EXCEPT !.tcb[k.cur].msg = Null],
           IF c.pend = "OK" THEN {c.msg} \ {Null} ELSE {})
       EXCEPT !.ok = (c.pend = "OK")]

OSMboxPendAbort(k, e, opt) == AbortPend(k, e, opt, "MBOX")

(* Mutant: a full mailbox is overwritten.                                  *)
FillMboxAlways(k, e, msg) == Done([k EXCEPT !.event[e].ptr = msg])

FillMbox(k, e, msg) ==
    IF k.event[e].ptr # Null THEN Fails(k)              \* OS_ERR_MBOX_FULL
    ELSE Done([k EXCEPT !.event[e].ptr = msg])

OSMboxPost(k, e, msg) ==
    IF Waiting(k, e)
    THEN Reschedules(OS_EventTaskRdy(k, e, msg, "MBOX", "OK"))
    ELSE FillMbox(k, e, msg)

(* opt is the set of the options BROADCAST and NO_SCHED.                   *)
OSMboxPostOpt(k, e, msg, opt) ==
    LET k1 == IF "BROADCAST" \in opt THEN RdyAll(k, e, msg, "MBOX", "OK")
              ELSE OS_EventTaskRdy(k, e, msg, "MBOX", "OK")
    IN CASE ~Waiting(k, e) -> FillMbox(k, e, msg)
         [] Waiting(k, e) /\ "NO_SCHED" \in opt -> Done(k1)
         [] Waiting(k, e) /\ "NO_SCHED" \notin opt -> Reschedules(k1)
=============================================================================
