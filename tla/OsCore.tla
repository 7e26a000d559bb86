------------------------------- MODULE OsCore -------------------------------
(***************************************************************************)
(* The core of uC/OS-II as this project configures it: task control        *)
(* blocks, the ready list, event wait lists, the scheduler and the tick.   *)
(* An operator takes the kernel's state k (a record with one field per     *)
(* global of the kernel) and returns the state after one critical section. *)
(* Pointers are indices, Null is the null pointer, and a linked free list  *)
(* is the sequence of its elements.                                        *)
(***************************************************************************)
EXTENDS OsBitmap, OsQueue, FiniteSets

CONSTANTS MaxTasks,              \* OS_MAX_TASKS
          MaxEvents,             \* OS_MAX_EVENTS
          MaxQs,                 \* OS_MAX_QS
          MaxFlags,              \* OS_MAX_FLAGS
          SemMax                 \* the greatest count of a semaphore, 65535

ASSUME CoreAssumption ==
    /\ LowestPrio > 0
    /\ {MaxTasks, MaxEvents, MaxQs, MaxFlags, SemMax} \subseteq Nat

Null == 0
Reserved == -1                   \* OS_TCB_RESERVED
Available == 255                 \* OS_MUTEX_AVAILABLE

IdlePrio == LowestPrio           \* OS_TASK_IDLE_PRIO
StatPrio == LowestPrio - 1       \* OS_TASK_STAT_PRIO

Tcb == 1 .. MaxTasks + 2         \* OSTCBTbl, with the idle and statistics tasks
Ecb == 1 .. MaxEvents            \* OSEventTbl
Qcb == 1 .. MaxQs                \* OSQTbl
Fgp == 1 .. MaxFlags             \* OSFlagTbl

PendAny == {"SEM", "MBOX", "Q", "MUTEX", "FLAG"}   \* OS_STAT_PEND_ANY
NoNode == [grp |-> Null, flags |-> {}, type |-> "NONE"]

(* What a call that has left its critical section does next: cont is what  *)
(* remains of the call, got the messages or blocks it returned, loc the    *)
(* handle it holds in a local variable, ok whether it succeeded.           *)
Done(k) == [k |-> k, cont |-> << >>, got |-> {}, loc |-> Null, ok |-> TRUE]
Fails(k) == [Done(k) EXCEPT !.ok = FALSE]
Gives(k, S) == [Done(k) EXCEPT !.got = S]
Returns(k, handle) == [Done(k) EXCEPT !.loc = handle]
Reschedules(k) == [Done(k) EXCEPT !.cont = << "OS_Sched" >>]
Blocks(k, resume) == [Done(k) EXCEPT !.cont = << "OS_Sched", resume >>]

-----------------------------------------------------------------------------

Ready(k, t) == [k EXCEPT !.rdy = SetBit(@, k.tcb[t].prio)]
Unready(k, t) == [k EXCEPT !.rdy = ClearBit(@, k.tcb[t].prio)]

OS_EventTaskRemove(k, t, e) ==
    [k EXCEPT !.event[e].wait = ClearBit(@, k.tcb[t].prio)]

(* The event control blocks with one bit more, or less, in those of S.     *)
Enlisted(event, S, p) ==
    [e \in Ecb |-> IF e \in S THEN [event[e] EXCEPT !.wait = SetBit(@, p)] ELSE event[e]]

Delisted(event, S, p) ==
    [e \in Ecb |-> IF e \in S THEN [event[e] EXCEPT !.wait = ClearBit(@, p)] ELSE event[e]]

OS_EventTaskRemoveMulti(k, t, S) ==
    [k EXCEPT !.event = Delisted(@, S, k.tcb[t].prio)]

Answered(c, e, msg, msk, pend) ==
    [c EXCEPT !.dly = 0, !.msg = msg, !.stat = @ \ {msk}, !.pend = pend,
              !.event = IF c.multi = {} THEN @ ELSE e]

(* Tasks T that wait for e get the message and leave every list they are   *)
(* in; they become ready unless they are suspended.                        *)
TasksRdy(k, e, T, msg, msk, pend) ==
    LET tcb == [t \in Tcb |-> IF t \in T THEN Answered(k.tcb[t], e, msg, msk, pend)
                                         ELSE k.tcb[t]]
        Leaving(x) == {u \in T : x = e \/ x \in k.tcb[u].multi}
    IN [k EXCEPT
          !.tcb = tcb,
          !.rdy = SetBits(@, {k.tcb[t].prio :
                                t \in {u \in T : "SUSPEND" \notin tcb[u].stat}}),
          !.event = [x \in Ecb |-> [k.event[x] EXCEPT !.wait =
                       ClearBits(@, {k.tcb[t].prio : t \in Leaving(x)})]]]

(* The waiting task of highest priority.                                   *)
OS_EventTaskRdy(k, e, msg, msk, pend) ==
    TasksRdy(k, e, {k.prioTbl[HighestPrio(k.event[e].wait)]}, msg, msk, pend)

Waiting(k, e) == k.event[e].wait.grp # {}

(* while (pevent->OSEventGrp != 0) OS_EventTaskRdy(...)                    *)
RdyAll(k, e, msg, msk, pend) ==
    TasksRdy(k, e, {k.prioTbl[p] : p \in Bits(k.event[e].wait)}, msg, msk, pend)

OS_EventTaskWait(k, e) ==
    LET t == k.cur IN
    Unready([k EXCEPT !.tcb[t].event = e,
                      !.event[e].wait = SetBit(@, k.tcb[t].prio)], t)

OS_EventTaskWaitMulti(k, S) ==
    LET t == k.cur IN
    Unready([k EXCEPT
        !.tcb[t].event = Null,
        !.tcb[t].multi = S,
        !.event = Enlisted(@, S, k.tcb[t].prio)], t)

(* A control block whose task is about to wait for what stat says, and one *)
(* whose task has done waiting.                                            *)
Begun(c, stat, timeout) ==
    [c EXCEPT !.stat = @ \cup stat, !.pend = "OK", !.dly = timeout]

Ended(c) == [c EXCEPT !.stat = {}, !.pend = "OK", !.event = Null, !.multi = {}]

StartsToWait(k, stat, timeout) == [k EXCEPT !.tcb[k.cur] = Begun(@, stat, timeout)]

EndsWait(k, t) == [k EXCEPT !.tcb[t] = Ended(@)]

-----------------------------------------------------------------------------

OS_SchedNew(k) == HighestPrio(k.rdy)

OS_Sched(k) ==
    IF k.lock = 0 /\ OS_SchedNew(k) # k.prioCur
    THEN [k EXCEPT !.prioCur = OS_SchedNew(k), !.cur = k.prioTbl[OS_SchedNew(k)]]
    ELSE k

(* Interrupts do not nest, so the switch is made at the end of each one.   *)
OSIntExit(k) ==
    IF k.lock = 0 /\ OS_SchedNew(k) # k.prioCur
    THEN [k EXCEPT !.prioCur = OS_SchedNew(k), !.cur = k.prioTbl[OS_SchedNew(k)]]
    ELSE k

OSSchedLock(k) == Done([k EXCEPT !.lock = IF @ < 255 THEN @ + 1 ELSE @])

OSSchedUnlock(k) ==
    IF k.lock = 0 THEN Done(k)
    ELSE LET k1 == [k EXCEPT !.lock = @ - 1] IN
         IF k1.lock = 0 THEN Reschedules(k1) ELSE Done(k1)

(* A delay or a timeout ends: what the task waited for is over, but its    *)
(* bit stays in the wait lists until it runs.                              *)
DelayOver(c) ==
    [c EXCEPT !.dly = 0, !.stat = @ \ PendAny,
              !.pend = IF c.stat \cap PendAny # {} THEN "TO" ELSE "OK"]

ReadyAll(k, S) == [k EXCEPT !.rdy = SetBits(@, {k.tcb[t].prio : t \in S})]

OSTimeTick(k) ==
    LET Counting == {t \in k.list : k.tcb[t].prio # IdlePrio /\ k.tcb[t].dly # 0}
        Over == {t \in Counting : k.tcb[t].dly = 1}
        k1 == [k EXCEPT !.tcb = [t \in Tcb |->
                 CASE t \in Over -> DelayOver(k.tcb[t])
                   [] t \in Counting \ Over -> [k.tcb[t] EXCEPT !.dly = @ - 1]
                   [] OTHER -> k.tcb[t]]]
    IN ReadyAll(k1, {t \in Over : "SUSPEND" \notin k1.tcb[t].stat})

-----------------------------------------------------------------------------

(* An event control block leaves the free list and is given its contents;  *)
(* nobody else knows it before the call that took it returns.              *)
TakeEvent(k, type, cnt, pip, ptr) ==
    [k EXCEPT !.freeEvent = Tail(@),
              !.event[Head(k.freeEvent)] =
                 [type |-> type, cnt |-> cnt, pip |-> pip, ptr |-> ptr,
                  wait |-> NoBits]]

(* Mutant: the control block keeps its type on the free list.              *)
FreeEventTyped(k, e) ==
    [k EXCEPT !.event[e] = [@ EXCEPT !.cnt = 0, !.pip = 0, !.ptr = Null],
              !.freeEvent = << e >> \o @]

(* It goes back to the front of the free list.                             *)
FreeEvent(k, e) ==
    [k EXCEPT !.event[e] = [@ EXCEPT !.type = "UNUSED", !.cnt = 0, !.pip = 0,
                                     !.ptr = Null],
              !.freeEvent = << e >> \o @]

(* OS_DEL_NO_PEND refuses while a task waits; OS_DEL_ALWAYS readies every  *)
(* waiting task, with OS_STAT_PEND_OK and no message.                      *)
DeleteEvent(k, e, opt, msk) ==
    CASE ~Waiting(k, e) -> Done(FreeEvent(k, e))
      [] Waiting(k, e) /\ opt = "NO_PEND" -> Fails(k)
      [] Waiting(k, e) /\ opt = "ALWAYS" ->
           Reschedules(FreeEvent(RdyAll(k, e, Null, msk, "OK"), e))

AbortPend(k, e, opt, msk) ==
    CASE ~Waiting(k, e) -> Done(k)
      [] Waiting(k, e) /\ opt = "BROADCAST" ->
           Reschedules(RdyAll(k, e, Null, msk, "ABORT"))
      [] Waiting(k, e) /\ opt = "NONE" ->
           Reschedules(OS_EventTaskRdy(k, e, Null, msk, "ABORT"))

(* Mutant: a task that timed out leaves its bit in the wait list.          *)
AfterWaitNoRemove(k, e) == EndsWait(k, k.cur)

(* The second critical section of a pend call: a task that timed out takes *)
(* its own bit out of the wait list.                                       *)
AfterWait(k, e) ==
    LET t == k.cur IN
    EndsWait(IF k.tcb[t].pend = "TO" THEN OS_EventTaskRemove(k, t, e) ELSE k, t)

-----------------------------------------------------------------------------

NewTcb == [prio |-> 0, stat |-> {}, pend |-> "OK", dly |-> 0, event |-> Null,
           multi |-> {}, node |-> NoNode, msg |-> Null, delReq |-> FALSE,
           flagsRdy |-> {}]

(* OS_TCBInit takes a control block (first section) and links it (second). *)
OS_TCBInitTake(k) == [k EXCEPT !.freeTcb = Tail(@)]

OS_TCBInitLink(k, t, prio) ==
    [k EXCEPT !.tcb[t] = [NewTcb EXCEPT !.prio = prio, !.flagsRdy = k.tcb[t].flagsRdy],
              !.prioTbl[prio] = t,
              !.list = @ \cup {t},
              !.rdy = SetBit(@, prio)]

NewTask(k, prio) ==
    OS_TCBInitLink(OS_TCBInitTake(k), Head(k.freeTcb), prio)

OS_InitMisc == [lock |-> 0]

OS_InitRdyList == [rdy |-> NoBits, cur |-> Null, prioCur |-> 0]

OS_InitTCBList == [tcb |-> [t \in Tcb |-> NewTcb], prioTbl |-> [p \in Prio |-> Null],
                   list |-> {}, freeTcb |-> [t \in Tcb |-> t]]

OS_InitEventList ==
    [event |-> [e \in Ecb |-> [type |-> "UNUSED", cnt |-> 0, pip |-> 0,
                               ptr |-> Null, wait |-> NoBits]],
     freeEvent |-> [e \in Ecb |-> e]]

OS_InitTaskIdle(k) == NewTask(k, IdlePrio)
OS_InitTaskStat(k) == NewTask(k, StatPrio)

OSStart(k) ==
    [k EXCEPT !.prioCur = OS_SchedNew(k), !.cur = k.prioTbl[OS_SchedNew(k)]]
=============================================================================
