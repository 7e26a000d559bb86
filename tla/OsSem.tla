------------------------------- MODULE OsSem -------------------------------
(***************************************************************************)
(* Semaphores (os_sem.c).  OSEventCnt is a 16-bit count.  Each operator is *)
(* a call from its critical section on; the checks before it are made by   *)
(* the caller's step in Firmware.                                          *)
(***************************************************************************)
EXTENDS OsCore

OSSemCreate(k, cnt) ==
    IF k.freeEvent = << >> THEN Fails(k)
    ELSE Returns(TakeEvent(k, "SEM", cnt, 0, Null), Head(k.freeEvent))

OSSemAccept(k, e) ==
    IF k.event[e].cnt > 0
    THEN Done([k EXCEPT !.event[e].cnt = @ - 1])
    ELSE Fails(k)

OSSemDel(k, e, opt) == DeleteEvent(k, e, opt, "SEM")

(* Mutant: who finds the token leaves it there.                            *)
OSSemPendLeaves(k, e, timeout) ==
    IF k.event[e].cnt > 0 THEN Done(k)
    ELSE Blocks(OS_EventTaskWait(StartsToWait(k, {"SEM"}, timeout), e),
                "SemPended")

OSSemPend(k, e, timeout) ==
    IF k.event[e].cnt > 0
    THEN Done([k EXCEPT !.event[e].cnt = @ - 1])
    ELSE Blocks(OS_EventTaskWait(StartsToWait(k, {"SEM"}, timeout), e),
                "SemPended")

(* Mutant: a wait that timed out or was aborted counts as answered.        *)
SemPendedAlways(k, e) == Done(AfterWait(k, e))

SemPended(k, e) ==
    [Done(AfterWait(k, e)) EXCEPT !.ok = (k.tcb[k.cur].pend = "OK")]

OSSemPendAbort(k, e, opt) == AbortPend(k, e, opt, "SEM")

(* Mutant: the task that is readied is not switched to.                    *)
OSSemPostNoSched(k, e) ==
    CASE Waiting(k, e) -> Done(OS_EventTaskRdy(k, e, Null, "SEM", "OK"))
      [] ~Waiting(k, e) /\ k.event[e].cnt < SemMax ->
           Done([k EXCEPT !.event[e].cnt = @ + 1])
      [] OTHER -> Fails(k)

(* Mutant: the token that is given to a waiter is counted, too.            *)
OSSemPostCounts(k, e) ==
    CASE Waiting(k, e) ->
           Reschedules(OS_EventTaskRdy([k EXCEPT !.event[e].cnt = @ + 1],
                                       e, Null, "SEM", "OK"))
      [] ~Waiting(k, e) /\ k.event[e].cnt < SemMax ->
           Done([k EXCEPT !.event[e].cnt = @ + 1])
      [] OTHER -> Fails(k)

OSSemPost(k, e) ==
    CASE Waiting(k, e) -> Reschedules(OS_EventTaskRdy(k, e, Null, "SEM", "OK"))
      [] ~Waiting(k, e) /\ k.event[e].cnt < SemMax ->
           Done([k EXCEPT !.event[e].cnt = @ + 1])
      [] OTHER -> Fails(k)                              \* OS_ERR_SEM_OVF

(* Mutant: the count is set whoever waits.                                 *)
OSSemSetAlways(k, e, cnt) == Done([k EXCEPT !.event[e].cnt = cnt])

(* A count that is zero can be set only while no task waits for it.        *)
OSSemSet(k, e, cnt) ==
    IF k.event[e].cnt > 0 \/ ~Waiting(k, e)
    THEN Done([k EXCEPT !.event[e].cnt = cnt])
    ELSE Fails(k)

(* The snapshot: the count and whether a task waits (OSEventGrp).          *)
OSSemQuery(k, e) == [cnt |-> k.event[e].cnt, grp |-> k.event[e].wait.grp]
=============================================================================
