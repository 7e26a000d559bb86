------------------------------ MODULE OsMutex ------------------------------
(***************************************************************************)
(* Mutual exclusion semaphores with a priority inheritance priority, pip   *)
(* (os_mutex.c).  The upper byte of OSEventCnt is the field pip, the lower *)
(* byte, the owner's own priority or OS_MUTEX_AVAILABLE, the field cnt,    *)
(* and OSEventPtr, the owner, the field ptr.                               *)
(***************************************************************************)
EXTENDS OsCore

OSMutexCreate(k, pip) ==
    IF k.prioTbl[pip] # Null \/ k.freeEvent = << >> THEN Fails(k)
    ELSE Returns([TakeEvent(k, "MUTEX", Available, pip, Null)
                    EXCEPT !.prioTbl[pip] = Reserved], Head(k.freeEvent))

(* The mutex becomes the caller's, even when OS_ERR_PIP_LOWER is returned. *)
TakeMutex(k, e) ==
    Done([k EXCEPT !.event[e].cnt = k.tcb[k.cur].prio, !.event[e].ptr = k.cur])

OSMutexAccept(k, e) ==
    IF k.event[e].cnt = Available THEN TakeMutex(k, e) ELSE Fails(k)

(* Mutant: only an owner that is ready is raised.                          *)
RaiseReadyOwner(k, e) ==
    LET t == k.event[e].ptr
        old == k.tcb[t].prio
        pip == k.event[e].pip
    IN IF TestBit(k.rdy, old)
       THEN [k EXCEPT !.tcb[t].prio = pip, !.prioTbl[pip] = t,
                      !.rdy = SetBit(ClearBit(@, old), pip)]
       ELSE k

(* The owner runs at pip: its bit moves in the ready list, or in the wait  *)
(* list of the event it waits for.                                         *)
RaiseOwner(k, e) ==
    LET t == k.event[e].ptr
        old == k.tcb[t].prio
        pip == k.event[e].pip
        on == k.tcb[t].event
        k1 == [k EXCEPT !.tcb[t].prio = pip, !.prioTbl[pip] = t]
    IN CASE TestBit(k.rdy, old) ->
              [k1 EXCEPT !.rdy = SetBit(ClearBit(@, old), pip)]
         [] ~TestBit(k.rdy, old) /\ on # Null ->
              [k1 EXCEPT !.event[on].wait = SetBit(ClearBit(@, old), pip)]
         [] ~TestBit(k.rdy, old) /\ on = Null -> k1

(* OSMutex_RdyAtPrio: the task is made ready at its own priority again.    *)
OSMutex_RdyAtPrio(k, t, prio) ==
    [k EXCEPT !.rdy = SetBit(ClearBit(@, k.tcb[t].prio), prio),
              !.tcb[t].prio = prio,
              !.prioTbl[prio] = t]

OSMutexPend(k, e, timeout) ==
    LET owner == k.event[e].ptr
        raise == /\ k.tcb[owner].prio > k.event[e].pip
                 /\ k.event[e].cnt > k.tcb[k.cur].prio
        k1 == IF raise THEN RaiseOwner(k, e) ELSE k
    IN IF k.event[e].cnt = Available THEN TakeMutex(k, e)
       ELSE Blocks(OS_EventTaskWait(StartsToWait(k1, {"MUTEX"}, timeout), e),
                   "MutexPended")

MutexPended(k, e) ==
    [Done(AfterWait(k, e)) EXCEPT !.ok = (k.tcb[k.cur].pend = "OK")]

(* The owner drops to its own priority and the mutex goes to the waiting   *)
(* task of highest priority.  Without one there is no call of OS_Sched.    *)
OSMutexPost(k, e) ==
    LET ev == k.event[e]
        k1 == IF k.tcb[k.cur].prio = ev.pip
              THEN OSMutex_RdyAtPrio(k, k.cur, ev.cnt) ELSE k
        k2 == [k1 EXCEPT !.prioTbl[ev.pip] = Reserved]
        prio == HighestPrio(ev.wait)
    IN CASE k.cur # ev.ptr -> Fails(k)                  \* OS_ERR_NOT_MUTEX_OWNER
         [] k.cur = ev.ptr /\ Waiting(k, e) ->
              Reschedules([OS_EventTaskRdy(k2, e, Null, "MUTEX", "OK") EXCEPT
                             !.event[e].cnt = prio,
                             !.event[e].ptr = k2.prioTbl[prio]])
         [] k.cur = ev.ptr /\ ~Waiting(k, e) ->
              Done([k2 EXCEPT !.event[e].cnt = Available, !.event[e].ptr = Null])

(* Deleting with OS_DEL_ALWAYS gives an owner that runs at pip its own     *)
(* priority back; the pip is free for another task afterwards.             *)
OSMutexDel(k, e, opt) ==
    LET ev == k.event[e]
        k1 == IF opt = "ALWAYS" /\ ev.ptr # Null /\ k.tcb[ev.ptr].prio = ev.pip
              THEN OSMutex_RdyAtPrio(k, ev.ptr, ev.cnt) ELSE k
        r == DeleteEvent(k1, e, opt, "MUTEX")
    IN IF r.ok THEN [r EXCEPT !.k.prioTbl[ev.pip] = Null] ELSE r
=============================================================================
