--------------------------- MODULE FirmwareSafety ---------------------------
(***************************************************************************)
(* What the kernel and the drivers promise, whatever the interleaving of   *)
(* tasks, interrupts and ticks.                                            *)
(***************************************************************************)
EXTENDS Firmware

Live == {e \in Ecb : os.event[e].type # "UNUSED"}

ReadyTask(t) == TestBit(os.rdy, os.tcb[t].prio)

(* The events that a control block says its task waits for.                *)
WaitsOn(t) == ({os.tcb[t].event} \cup os.tcb[t].multi) \ {Null}

InList(t, e) == TestBit(os.event[e].wait, os.tcb[t].prio)

(* Whether task t is at one of the labels, or has one still to come.       *)
AtOne(t, labels) == run[t].pc # << >> /\ Head(run[t].pc) \in labels
Ahead(t, label) == \E i \in DOMAIN run[t].pc : run[t].pc[i] = label

BeingDeleted(t) == \E u \in Tcb : AtOne(u, {"TaskDelEnd"}) /\ run[u].loc = t

Statuses == PendAny \cup {"SUSPEND", "MULTI"}

(* Every part of the kernel has its type: bitmaps agree with their group   *)
(* bytes, rings stay inside their arrays, and free lists hold no element   *)
(* twice and nothing that is in use.                                       *)
TypeOK ==
    /\ Consistent(os.rdy)
    /\ \A e \in Ecb : Consistent(os.event[e].wait)
    /\ \A t \in Tcb : /\ os.tcb[t].stat \subseteq Statuses
                      /\ os.tcb[t].pend \in {"OK", "TO", "ABORT"}
                      /\ os.tcb[t].dly \in Nat /\ os.tcb[t].prio \in Prio
    /\ os.cur \in Tcb \cup {Null} /\ os.prioCur \in Prio /\ os.lock \in 0 .. 255
    /\ \A q \in Qcb : /\ os.queue[q].in \in 0 .. QSize - 1
                      /\ os.queue[q].out \in 0 .. QSize - 1
                      /\ os.queue[q].entries \in 0 .. QSize
    /\ \A i, j \in DOMAIN os.freeEvent :
         /\ os.freeEvent[i] \notin Live
         /\ i # j => os.freeEvent[i] # os.freeEvent[j]
    /\ \A i, j \in DOMAIN os.freeTcb :
         /\ os.freeTcb[i] \notin os.list
         /\ i # j => os.freeTcb[i] # os.freeTcb[j]
    /\ \A i \in DOMAIN os.freeFlag : os.flag[os.freeFlag[i]].type = "UNUSED"
    /\ {uart.rxIn, uart.rxOut, uart.txIn, uart.txOut} \subseteq 0 .. BufLen - 1
    /\ Len(uart.rxFifo) <= FifoLen /\ Len(uart.txFifo) <= FifoLen

(* A wait list holds only tasks that wait: behind every bit of OSEventTbl  *)
(* is a task of that priority whose control block points to the event and  *)
(* that waits for it, or has timed out and has not run since.              *)
WaitListTrue ==
    \A e \in Ecb : \A p \in Bits(os.event[e].wait) :
      LET t == os.prioTbl[p] IN
      /\ e \in Live
      /\ t \in os.list
      /\ os.tcb[t].prio = p
      /\ e \in WaitsOn(t)
      /\ os.event[e].type \in os.tcb[t].stat \/ os.tcb[t].pend = "TO"

(* No task is lost.  A ready task waits for nothing; a task that is not    *)
(* ready is delayed, suspended, being deleted, or is found in the wait     *)
(* list of everything its status says it waits for.                        *)
Reachable(t) ==
    LET c == os.tcb[t] IN
    /\ c.stat \cap (PendAny \ {"FLAG"}) # {} =>
         WaitsOn(t) # {} /\ \A e \in WaitsOn(t) : InList(t, e)
    /\ "FLAG" \in c.stat => c.node # NoNode /\ t \in os.flag[c.node.grp].wait
    /\ \/ c.dly # 0
       \/ c.stat # {}
       \/ BeingDeleted(t)

NoTaskLost ==
    \A t \in os.list :
      IF ReadyTask(t)
      THEN /\ os.tcb[t].dly = 0
           /\ "SUSPEND" \notin os.tcb[t].stat
           /\ os.tcb[t].stat \cap PendAny = {} \/ "MULTI" \in os.tcb[t].stat
      ELSE Reachable(t)

(* No task of group g waits for flags to be set that are set.              *)
FlagsServed(g) ==
    \A t \in os.flag[g].wait :
      LET n == os.tcb[t].node IN
      "FLAG" \in os.tcb[t].stat /\ n.type \in ForSet =>
        ~Satisfied(os.flag[g].flags, n.flags, n.type)

(* Nothing that a task waits for lies idle: while a task is in a wait list *)
(* the semaphore is zero, the mutex owned, the mailbox or queue empty, and *)
(* no task waits for flags to be set that are set: a post finds everyone   *)
(* whom it satisfies, and nobody queues behind it.                         *)
NothingIdle ==
    /\ \A g \in Fgp : FlagsServed(g)
    /\ \A e \in Live : Waiting(os, e) =>
         CASE os.event[e].type = "SEM" -> os.event[e].cnt = 0
           [] os.event[e].type = "MUTEX" -> os.event[e].ptr # Null
           [] os.event[e].type = "MBOX" -> os.event[e].ptr = Null
           [] os.event[e].type = "Q" -> TheRing(os, e).entries = 0

(* The highest ready task runs whenever the scheduler is not locked and no *)
(* switch is about to be made.  Two calls leave the switch to the next     *)
(* scheduling point: a post with OS_POST_OPT_NO_SCHED, and the release of  *)
(* a mutex nobody waits for by an owner that was raised, after which       *)
(* OSPrioCur is still the raised priority.                                 *)
Deferred == \E t \in os.list : \E c \in run[t].menu :
              c.op \in {"MboxPostOpt", "QPostOpt"} /\ "NO_SCHED" \in c.arg

HighestRuns ==
    \/ ~Running \/ os.lock > 0 \/ At("OS_Sched") \/ Deferred
    \/ os.prioCur # os.tcb[Cur].prio
    \/ os.prioTbl[HighestPrio(os.rdy)] = Cur

Mutexes == {e \in Live : os.event[e].type = "MUTEX"}

(* Priority inheritance: the owner of a mutex runs at its own priority or  *)
(* at the mutex's, and at the mutex's while a more urgent task waits; and  *)
(* nobody keeps an inherited priority without owning the mutex.            *)
InheritedPriority ==
    \A e \in Mutexes :
      LET m == os.event[e] IN
      /\ m.ptr # Null =>
           /\ os.tcb[m.ptr].prio \in {m.cnt, m.pip}
           /\ (\E p \in Bits(m.wait) : p < m.cnt) => os.tcb[m.ptr].prio = m.pip
      /\ \A t \in os.list : os.tcb[t].prio = m.pip => m.ptr = t

(* Every entry of OSTCBPrioTbl is accounted for: a reserved priority is    *)
(* that of a mutex whose owner does not use it or of a task that is being  *)
(* created, an occupied one is its task's, or the one the task returns to  *)
(* when it gives its mutex up.                                             *)
Unused(e) ==
    \/ os.event[e].ptr = Null
    \/ os.tcb[os.event[e].ptr].prio # os.event[e].pip

Creating(t) == AtOne(t, {"TCBInitTake", "TCBInitLink", "TaskUnreserve"})

PrioritiesAccounted ==
    /\ {p \in Prio : os.prioTbl[p] = Reserved} =
         {os.event[e].pip : e \in {m \in Mutexes : Unused(m)}}
           \cup {run[t].arg.prio : t \in {u \in Tcb : Creating(u)}}
    /\ \A p \in Prio : os.prioTbl[p] \in Tcb =>
         /\ os.prioTbl[p] \in os.list
         /\ \/ os.tcb[os.prioTbl[p]].prio = p
            \/ \E e \in Mutexes : /\ os.event[e].ptr = os.prioTbl[p]
                                  /\ os.event[e].cnt = p
    /\ \A t \in os.list : os.prioTbl[os.tcb[t].prio] = t

(* Priorities and tasks belong together, inherited ones included: the table*)
(* names every task at the priority it runs at and nobody else, so that the*)
(* highest bit of the ready list is the task to run, and no reservation    *)
(* outlives its mutex or a creation that failed (os_mutex.c:454-602,       *)
(* os_task.c:51-171 and 215-251).                                          *)
PrioritiesTrue == InheritedPriority /\ PrioritiesAccounted

(* Where a block of memory is: in the partition's free list, in a task's   *)
(* hands, a mailbox, a queue, or on its way to a task in OSTCBMsg.         *)
Places(b) ==
    {<< "free", i >> : i \in {j \in DOMAIN os.mem : os.mem[j] = b}}
    \cup {<< "hand", t >> : t \in {u \in Tcb : b \in run[u].hand}}
    \cup {<< "msg", t >> : t \in {u \in os.list : os.tcb[u].msg = b}}
    \cup {<< "mbox", e >> : e \in {f \in Live : /\ os.event[f].type = "MBOX"
                                                /\ os.event[f].ptr = b}}
    \cup UNION {{<< "queue", e, i >> :
                   i \in {j \in DOMAIN Contents(TheRing(os, e)) :
                            Contents(TheRing(os, e))[j] = b}} :
                e \in {f \in Live : os.event[f].type = "Q"}}

(* A block of memory is in exactly one place, whoever takes, posts, flushes*)
(* or gives it back and whoever times out meanwhile, so that none is given *)
(* to two tasks (os_mbox.c:455-489, os_q.c:571-608, os_core.c:983-1037).   *)
BlocksConserved ==
    os.nblks > 0 => \A b \in Block : Cardinality(Places(b)) = 1

OnItsWay(t, n) ==
    /\ Ahead(t, "SemPended") /\ run[t].obj = n
    /\ os.tcb[t].pend = "OK" /\ "SEM" \notin os.tcb[t].stat

(* A semaphore that guards a resource never gains or loses its token: it   *)
(* is in the count, with one task that acquired it, or on its way to one,  *)
(* so that the locks of newlib, of the console and of the file descriptors *)
(* exclude (os_sem.c:281-347 and 453-484, os_core.c:983-1037).             *)
TokensConserved ==
    \A n \in prog.owned :
      obj[n] # Null /\ os.event[obj[n]].type = "SEM" =>
        os.event[obj[n]].cnt + Cardinality({t \in Tcb : n \in run[t].owns})
          + Cardinality({t \in os.list : OnItsWay(t, n)}) = 1

(* Descriptors keep their owner and their device.  One that is in use is   *)
(* held by one task or on its way to or from one, the mark alt_max_fd is   *)
(* not below it, the first three stay on the console, and of the           *)
(* descriptors of a device at most one has the lock, whoever opens, locks  *)
(* and closes meanwhile (alt_open.c:65-171, alt_close.c,                   *)
(* alt_fd_lock.c:54-74).                                                   *)
FileLabels == {"MaxFd", "OpenFlags", "FileLocked", "ClearFd", "FreeFd"}
OnTheWay(t) ==
    IF \E i \in DOMAIN run[t].pc : run[t].pc[i] \in FileLabels
    THEN {run[t].io.fd} ELSE {}

Held(t) == run[t].fds \cup OnTheWay(t)

LockedFds == {i \in Fd : "EXCL" \in Files.fd[i].flags}
Others(i) == {j \in UNION {run[t].fds : t \in Tcb} : SameDevice(Files, j, i)}

DescriptorsTrue ==
    LET holders == {t \in Tcb : Held(t) # {}}
        taken == UNION {Held(t) : t \in holders}
    IN
    /\ \A t, u \in holders : t # u => Held(t) \cap Held(u) = {}
    /\ \A i \in Fd \ StdIn .. StdErr :
         /\ Files.fd[i].dev # NoDev <=> i \in taken
         /\ Files.fd[i].dev # NoDev =>
              i <= Files.max \/ \E t \in Tcb : AtOne(t, {"MaxFd"}) /\ run[t].io.fd = i
         /\ i \in LockedFds => Others(i) \cap LockedFds = {}
    /\ \A i \in StdIn .. StdErr :
         Files.fd[i].dev = "console" /\ "EXCL" \notin Files.fd[i].flags

(* The console keeps order.  A written message comes out whole and in      *)
(* order, not mixed with another's; what waits to be read are the last     *)
(* characters that were typed; and the ring's end that a call has looked   *)
(* at has not moved when it copies.                                        *)
Follows(c, d) == d.i = 1 \/ (d.by = c.by /\ d.i = c.i + 1)

ConsoleOrdered ==
    LET out == << uart.shown >> \o uart.txFifo \o Unsent(uart)
        in == Received(uart) \o uart.rxFifo
    IN /\ \A i \in 1 .. Len(out) - 1 : Follows(out[i], out[i + 1])
       /\ \A i \in 1 .. Len(in) :
            in[i] = (uart.typed - 1 - Len(in) + i) % RxMod
       /\ \A t \in Tcb : AtOne(t, {"ReadCopy"}) => run[t].io.out = uart.rxOut
       /\ \A t \in Tcb : AtOne(t, {"WriteCopy"}) => run[t].io.in = uart.txIn

(* Nobody sleeps through on the console: while a task waits for room, the  *)
(* ring holds characters and the write interrupt is enabled, and while one *)
(* waits for input the ring is empty and the read interrupt is enabled or  *)
(* is about to be by the task that emptied the ring.                       *)
Sleeps(t, label) == "FLAG" \in os.tcb[t].stat /\ Ahead(t, label)

WakeUpComes ==
    \A t \in os.list :
      /\ Sleeps(t, "WriteWoken") => Unsent(uart) # << >> /\ "WE" \in uart.irq
      /\ Sleeps(t, "ReadWoken") =>
           /\ Received(uart) = << >>
           /\ "RE" \in uart.irq \/ \E u \in Tcb : Ahead(u, "ReadEnable")

-----------------------------------------------------------------------------

(* The field comment of OSEventTbl, taken at its word: every task in the   *)
(* list waits for the event to occur.                                      *)
ListOfWaiters ==
    \A e \in Live : \A p \in Bits(os.event[e].wait) :
      os.prioTbl[p] \in Tcb /\ e \in WaitsOn(os.prioTbl[p])

(* The comment over alt_fd_lock, taken at its word: a lock is granted only *)
(* while no other descriptor of the device is open, and open fails until   *)
(* it is released (alt_fd_lock.c:43-45).                                   *)
LockIsAlone == \A i \in LockedFds : Others(i) = {}
=============================================================================
