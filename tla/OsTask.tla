------------------------------- MODULE OsTask -------------------------------
(***************************************************************************)
(* Task management and delays (os_task.c, os_time.c).  A call names a task *)
(* by its priority; Self is OS_PRIO_SELF.                                  *)
(***************************************************************************)
EXTENDS OsFlag

Self == 255

TheTask(k, prio) == IF prio = Self THEN k.cur ELSE k.prioTbl[prio]

ItsPrio(k, t, prio) == IF prio = Self THEN k.tcb[t].prio ELSE prio

Exists(k, prio) == prio = Self \/ k.prioTbl[prio] \notin {Null, Reserved}

(* The priority is reserved in one critical section; OS_TCBInit takes a    *)
(* control block in another and links it in a third.  Without one the      *)
(* reservation is undone.                                                  *)
OSTaskCreate(k, prio) ==
    IF k.prioTbl[prio] # Null THEN Fails(k)
    ELSE [Done([k EXCEPT !.prioTbl[prio] = Reserved])
            EXCEPT !.cont = << "TCBInitTake" >>]

TCBInitTake(k) ==
    IF k.freeTcb = << >>
    THEN [Fails(k) EXCEPT !.cont = << "TaskUnreserve" >>]
    ELSE [Returns(OS_TCBInitTake(k), Head(k.freeTcb))
            EXCEPT !.cont = << "TCBInitLink" >>]

TCBInitLink(k, t, prio) == [Reschedules(OS_TCBInitLink(k, t, prio)) EXCEPT !.loc = t]

TaskUnreserve(k, prio) == Fails([k EXCEPT !.prioTbl[prio] = Null])

(* Before OSStart nobody is in between its critical sections.              *)
CanCreate(k, prio) == k.prioTbl[prio] = Null /\ k.freeTcb # << >>
OSTaskCreateExt(k, prio) == IF CanCreate(k, prio) THEN NewTask(k, prio) ELSE k

(* The task leaves every list it is in; the scheduler is locked while      *)
(* interrupts are let in between the two critical sections.                *)
OSTaskDel(k, prio) ==
    LET t == TheTask(k, prio)
        c == k.tcb[t]
        k1 == Unready(k, t)
        k2 == IF c.event # Null THEN OS_EventTaskRemove(k1, t, c.event) ELSE k1
        k3 == OS_EventTaskRemoveMulti(k2, t, c.multi)
        k4 == IF c.node # NoNode THEN OS_FlagUnlink(k3, t) ELSE k3
    IN IF ~Exists(k, prio) THEN Fails(k)
       ELSE [Returns([k4 EXCEPT !.tcb[t] = [@ EXCEPT !.dly = 0, !.stat = {},
                                                     !.pend = "OK"],
                                !.lock = IF @ < 255 THEN @ + 1 ELSE @], t)
               EXCEPT !.cont = << "TaskDelEnd" >>]

TaskDelEnd(k, t, prio) ==
    Reschedules([k EXCEPT !.lock = IF @ > 0 THEN @ - 1 ELSE @,
                          !.prioTbl[ItsPrio(k, t, prio)] = Null,
                          !.list = @ \ {t},
                          !.freeTcb = << t >> \o @])

OSTaskDelReq(k, prio) ==
    IF ~Exists(k, prio) THEN Fails(k)
    ELSE Done([k EXCEPT !.tcb[TheTask(k, prio)].delReq = TRUE])

DelRequested(k) == k.tcb[k.cur].delReq

(* The task's bit moves in the ready list when it is there, and in the     *)
(* wait list of every event its control block points to.                   *)
OSTaskChangePrio(k, oldprio, prio) ==
    LET t == TheTask(k, oldprio)
        c == k.tcb[t]
        Move(b) == SetBit(ClearBit(b, c.prio), prio)
    IN IF k.prioTbl[prio] # Null \/ ~Exists(k, oldprio) THEN Fails(k)
       ELSE Reschedules([k EXCEPT
              !.prioTbl[ItsPrio(k, t, oldprio)] = Null,
              !.prioTbl[prio] = t,
              !.rdy = IF TestBit(@, c.prio) THEN Move(@) ELSE @,
              !.event = [e \in Ecb |->
                  IF e = c.event \/ e \in c.multi
                  THEN [@[e] EXCEPT !.wait = Move(@)] ELSE @[e]],
              !.tcb[t].prio = prio])

OSTaskSuspend(k, prio) ==
    LET t == TheTask(k, prio)
        k1 == [Unready(k, t) EXCEPT !.tcb[t].stat = @ \cup {"SUSPEND"}]
    IN CASE ~Exists(k, prio) -> Fails(k)
         [] Exists(k, prio) /\ t = k.cur -> Reschedules(k1)
         [] Exists(k, prio) /\ t # k.cur -> Done(k1)

(* Mutant: a delayed task is made ready when its suspension ends.          *)
OSTaskResumeDelayed(k, prio) ==
    LET t == TheTask(k, prio)
        k1 == [k EXCEPT !.tcb[t].stat = @ \ {"SUSPEND"}]
    IN CASE ~Exists(k, prio) \/ "SUSPEND" \notin k.tcb[t].stat -> Fails(k)
         [] OTHER -> IF k1.tcb[t].stat = {} THEN Reschedules(Ready(k1, t)) ELSE Done(k1)

(* Only the task's suspension ends: it stays where it is while it waits or *)
(* delays.                                                                 *)
OSTaskResume(k, prio) ==
    LET t == TheTask(k, prio)
        k1 == [k EXCEPT !.tcb[t].stat = @ \ {"SUSPEND"}]
    IN CASE ~Exists(k, prio) \/ "SUSPEND" \notin k.tcb[t].stat -> Fails(k)
         [] OTHER -> IF k1.tcb[t].stat = {} /\ k1.tcb[t].dly = 0
                     THEN Reschedules(Ready(k1, t)) ELSE Done(k1)

OSTimeDly(k, ticks) ==
    IF ticks = 0 THEN Done(k)
    ELSE Reschedules(Unready([k EXCEPT !.tcb[k.cur].dly = ticks], k.cur))

OSTimeDlyResume(k, prio) ==
    LET t == TheTask(k, prio)
        k1 == [k EXCEPT !.tcb[t] = DelayOver(@)]
    IN CASE ~Exists(k, prio) \/ k.tcb[t].dly = 0 -> Fails(k)
         [] OTHER -> IF "SUSPEND" \in k1.tcb[t].stat THEN Done(k1)
                     ELSE Reschedules(Ready(k1, t))
=============================================================================
