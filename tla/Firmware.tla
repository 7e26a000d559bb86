------------------------------ MODULE Firmware ------------------------------
(***************************************************************************)
(* The firmware's kernel and drivers at work: tasks that call the services *)
(* of uC/OS-II and the HAL, interrupt handlers that post, and the tick.    *)
(* A program says which tasks and objects there are and which calls each   *)
(* task and interrupt may make.                                            *)
(*                                                                         *)
(* os is the kernel, uart the JTAG UART with its driver, lib the newlib    *)
(* locks and the file descriptors, obj the application's handles by name,  *)
(* and run[t] what task t is in the middle of: pc is the stack of the steps*)
(* it still has to take, empty when it runs the application's own code.    *)
(* boot says which object and which task is created next.                  *)
(* Only the task that OSTCBCur points to takes steps.  A step is what runs *)
(* with interrupts off, or one access to data that an interrupt shares.    *)
(***************************************************************************)
EXTENDS OsMutex, OsMulti, OsMem, OsTask, JtagUart, HalAlarm, HalFile

CONSTANTS Programs,              \* what the tasks and interrupts may do
          TicksPerSec            \* OS_TICKS_PER_SEC

VARIABLES os, uart, lib, clock, obj, run, prog, boot

vars == << os, uart, lib, clock, obj, run, prog, boot >>

NoName == "none"
Notice == -2                     \* a message that is no block
Consoles == {"read_lock", "write_lock"}
Libraries == {"heap", "env"}
Own == -2                        \* any descriptor that the task has opened

Call(op, name, arg) == [op |-> op, obj |-> name, arg |-> arg]

NoIo == [in |-> 0, out |-> 0, next |-> 0, left |-> 0, id |-> 0, cnt |-> 0,
         grp |-> FALSE, nonblock |-> FALSE, fd |-> NoFd, want |-> {}]

NewRun(menu) ==
    [menu |-> menu, pc |-> << >>, obj |-> NoName, ev |-> Null, arg |-> Null,
     loc |-> Null, io |-> NoIo, owns |-> {}, hand |-> {}, fds |-> {}]

-----------------------------------------------------------------------------
(* Start: OSInit, the objects of the HAL and of the application, the tasks,*)
(* and OSStart.                                                            *)

OSInit ==
    OS_InitTaskStat(OS_InitTaskIdle(
      [lock |-> OS_InitMisc.lock, rdy |-> OS_InitRdyList.rdy,
       cur |-> OS_InitRdyList.cur, prioCur |-> OS_InitRdyList.prioCur,
       tcb |-> OS_InitTCBList.tcb, prioTbl |-> OS_InitTCBList.prioTbl,
       list |-> OS_InitTCBList.list, freeTcb |-> OS_InitTCBList.freeTcb,
       event |-> OS_InitEventList.event, freeEvent |-> OS_InitEventList.freeEvent,
       flag |-> OS_FlagInit.flag, freeFlag |-> OS_FlagInit.freeFlag,
       mem |-> OS_MemInit.mem, nblks |-> OS_MemInit.nblks,
       queue |-> OS_QInit.queue, freeQ |-> OS_QInit.freeQ]))

Names(p) == {NoName} \cup {p.objects[i].name : i \in DOMAIN p.objects}

Init ==
    \E p \in Programs :
      /\ prog = p
      /\ os = OSInit
      /\ run = [t \in Tcb |-> NewRun({})]
      /\ obj = [n \in Names(p) |-> Null]
      /\ uart = UartInit
      /\ lib = [heap |-> [lockid |-> -1, locks |-> 0],
                env |-> [lockid |-> -1, locks |-> 0], files |-> alt_io_redirect]
      /\ clock = [now |-> 0, alarm |-> alt_alarm_start(TicksPerSec, 0)]
      /\ boot = [object |-> 1, task |-> 1]

Running == os.cur # Null         \* OSRunning

QMade(r) == IF r.ok THEN QCreateRing(r.k, r.loc) ELSE r

Made(k, o) ==
    CASE o.type = "SEM" -> OSSemCreate(k, o.arg)
      [] o.type = "MUTEX" -> OSMutexCreate(k, o.arg)
      [] o.type = "MBOX" -> OSMboxCreate(k, o.arg)
      [] o.type = "Q" -> QMade(OSQCreate(k))
      [] o.type = "FLAG" -> OSFlagCreate(k, o.arg)
      [] o.type = "MEM" -> Done(OSMemCreate(k))
      [] o.type = "NONE" -> Done(k)

ObjectsMade == boot.object > Len(prog.objects)
TasksMade == boot.task > Len(prog.tasks)

MakeObject ==
    LET o == prog.objects[boot.object]
        r == Made(os, o) IN
    /\ ~ObjectsMade
    /\ os' = r.k
    /\ obj' = [obj EXCEPT ![o.name] = r.loc]
    /\ boot' = [boot EXCEPT !.object = @ + 1]
    /\ UNCHANGED << uart, lib, clock, run, prog >>

LaunchTask ==
    LET c == prog.tasks[boot.task] IN
    /\ ObjectsMade /\ ~TasksMade
    /\ os' = OSTaskCreateExt(os, c.prio)
    /\ run' = IF CanCreate(os, c.prio)
              THEN [run EXCEPT ![Head(os.freeTcb)] = NewRun(c.menu)] ELSE run
    /\ boot' = [boot EXCEPT !.task = @ + 1]
    /\ UNCHANGED << uart, lib, clock, obj, prog >>

Start ==
    /\ ObjectsMade /\ TasksMade
    /\ os' = OSStart(os)
    /\ UNCHANGED << uart, lib, clock, obj, run, prog, boot >>

Boot == ~Running /\ (MakeObject \/ LaunchTask \/ Start)

-----------------------------------------------------------------------------
(* One step of the running task.                                           *)

Cur == os.cur
Me == run[Cur]
At(label) == Me.pc # << >> /\ Head(Me.pc) = label

(* A task that is back in the application's code has no locals left.       *)
Settle(me) ==
    IF me.pc # << >> THEN me
    ELSE [me EXCEPT !.obj = NoName, !.ev = Null, !.arg = Null, !.loc = Null,
                    !.io = NoIo]

(* The step leaves the kernel as r says; me is the task as it otherwise    *)
(* becomes.                                                                *)
Left(r, me) ==
    Settle([me EXCEPT !.pc = r.cont \o Tail(@),
                      !.loc = IF r.loc # Null THEN r.loc ELSE @,
                      !.hand = @ \cup (r.got \cap Block)])

Leave(r, me) ==
    /\ os' = r.k
    /\ run' = [run EXCEPT ![Cur] = Left(r, me)]
    /\ UNCHANGED << uart, lib, clock, prog >>

Quietly(r, me) == Leave(r, me) /\ UNCHANGED obj

(* What the application knows after a call: a lock or a token it now has,  *)
(* one it has given up, a block it has sent.                               *)
Acquires(r) ==
    IF r.ok /\ r.cont = << >> /\ Me.obj \in prog.owned /\ obj[Me.obj] # Null
    THEN [Me EXCEPT !.owns = @ \cup {Me.obj}] ELSE Me
Releases(r) == IF r.ok THEN [Me EXCEPT !.owns = @ \ {Me.obj}] ELSE Me
Sends(r, msg) == IF r.ok THEN [Me EXCEPT !.hand = @ \ {msg}] ELSE Me

(* The step is not the kernel's: the task goes on at the labels next.      *)
Goto(next, me) ==
    run' = [run EXCEPT ![Cur] = Settle([me EXCEPT !.pc = next \o Tail(@)])]

(* It calls a service of the kernel and goes on at next afterwards.        *)
Calls(op, name, arg, next, me) ==
    Goto(<< op >> \o next, [me EXCEPT !.obj = name, !.ev = obj[name], !.arg = arg])

-----------------------------------------------------------------------------
(* The application calls.  Its checks are made before the critical section:*)
(* a handle, its type, and for a call that may wait the scheduler's lock.  *)

TypeFor(op) ==
    CASE op \in {"SemAccept", "SemPend", "SemPost", "SemPendAbort", "SemDel",
                 "SemSet"} -> "SEM"
      [] op \in {"MutexAccept", "MutexPend", "MutexPost", "MutexDel"} -> "MUTEX"
      [] op \in {"MboxAccept", "MboxPend", "MboxPost", "MboxPostOpt",
                 "MboxPendAbort", "MboxDel"} -> "MBOX"
      [] op \in {"QAccept", "QPend", "QPost", "QPostFront", "QPostOpt",
                 "QFlush", "QPendAbort", "QDel"} -> "Q"
      [] op \in {"FlagAccept", "FlagPend", "FlagPost", "FlagDel"} -> "FLAG"
      [] OTHER -> NoName

MayWait == {"SemPend", "MutexPend", "MboxPend", "QPend", "FlagPend", "PendMulti"}

TypeOfObject(type, h) == IF type = "FLAG" THEN os.flag[h].type ELSE os.event[h].type

Passes(c) ==
    /\ TypeFor(c.op) # NoName =>
         obj[c.obj] # Null /\ TypeOfObject(TypeFor(c.op), obj[c.obj]) = TypeFor(c.op)
    /\ c.op = "PendMulti" =>
         \A n \in c.arg.objs : obj[n] # Null
                             /\ os.event[obj[n]].type \in {"SEM", "MBOX", "Q"}
    /\ c.op \in MayWait => os.lock = 0
    /\ c.op \in {"TaskDel", "TaskDelReq", "TaskChangePrio", "TaskSuspend"} =>
         c.arg.prio # IdlePrio
    /\ c.op \in {"TaskResume", "TimeDlyResume"} => c.arg.prio < IdlePrio

(* What a correct application does not call: see the README.               *)
Owns(t, type) == {n \in run[t].owns : obj[n] # Null /\ os.event[obj[n]].type = type}

Waits(c) == c.op \in MayWait \cup {"TimeDly", "TaskSuspend"}
TimeoutOf(c) ==
    CASE c.op \in {"FlagPend", "PendMulti"} -> c.arg.timeout
      [] c.op \in MayWait \ {"FlagPend", "PendMulti"} -> c.arg
      [] OTHER -> 0

Bare(t) == run[t].owns = {} /\ run[t].hand = {}

Sensible(c) ==
    /\ c.op \in {"SemPend", "SemAccept", "MutexPend", "MutexAccept"} =>
         c.obj \notin Me.owns
    /\ c.op \in {"SemPost", "MutexPost"} /\ c.obj \in prog.owned => c.obj \in Me.owns
    /\ c.op \in {"MutexPend", "MutexAccept"} => Owns(Cur, "MUTEX") = {}
    /\ prog.strict /\ Owns(Cur, "MUTEX") # {} => TimeoutOf(c) = 0
    /\ Waits(c) => os.lock = 0
    /\ c.op = "SchedLock" => os.lock < 2
    /\ c.op = "SchedUnlock" => os.lock > 0
    /\ c.op = "MemGet" => Me.hand = {}
    /\ c.op = "MemPut" => Me.hand # {}
    /\ c.op \in {"MboxPost", "QPost", "QPostFront"} /\ c.arg # Notice => Me.hand # {}
    /\ c.op \in {"SemCreate", "MboxCreate", "QCreate", "FlagCreate", "MutexCreate"} =>
         obj[c.obj] = Null
    /\ c.op \in {"TaskDel", "TaskSuspend", "TaskChangePrio"} =>
         (Exists(os, c.arg.prio) => Bare(TheTask(os, c.arg.prio)))
    /\ c.op = "MutexDel" /\ obj[c.obj] # Null =>
         os.lock > 0 /\ os.event[obj[c.obj]].ptr \in {Null, Cur}
    /\ c.op = "TaskChangePrio" /\ Exists(os, c.arg.prio) =>
         LET u == os.tcb[TheTask(os, c.arg.prio)] IN
         (u.event # Null \/ u.multi # {} => u.pend = "TO" \/ ~TestBit(os.rdy, u.prio))
    /\ c.op = "LibLock" => lib[c.obj].locks < 2
    /\ c.op = "LibLock" /\ c.obj = "env" => "env" \notin Me.owns
    /\ c.op = "LibUnlock" => c.obj \in Me.owns
    /\ c.op = "Open" => Cardinality(Me.fds) < c.arg.most

Message(c) ==
    IF c.op \in {"MboxPost", "QPost", "QPostFront"} /\ c.arg # Notice
    THEN CHOOSE b \in Me.hand : TRUE ELSE c.arg

Handle(c) ==
    IF c.op = "PendMulti" THEN {obj[n] : n \in c.arg.objs} ELSE obj[c.obj]

Descriptors(c) ==
    CASE c.op \notin {"Read", "Write", "Close", "Ioctl", "Fcntl"} -> {NoFd}
      [] c.arg.fd = Own -> Me.fds
      [] OTHER -> {c.arg.fd}

Apply ==
    /\ Me.pc = << >>
    /\ \E c \in Me.menu : \E fd \in Descriptors(c) :
         /\ Sensible(c)
         /\ Passes(c)
         /\ run' = [run EXCEPT ![Cur] =
              [@ EXCEPT !.pc = << c.op >>, !.obj = c.obj, !.ev = Handle(c),
                        !.arg = Message(c), !.io.fd = fd]]
    /\ UNCHANGED << os, uart, lib, clock, obj, prog >>

(* An object has been deleted: the application forgets its handle when the *)
(* call has returned.                                                      *)
Forget ==
    /\ At("Forget")
    /\ obj' = [obj EXCEPT ![Me.obj] = Null]
    /\ Goto(<< >>, Me)
    /\ UNCHANGED << os, uart, lib, clock, prog >>

Deletes(r) == [r EXCEPT !.cont = IF r.ok THEN @ \o << "Forget" >> ELSE @]

(* An object has been created: the application keeps its handle.           *)
Creates(r) ==
    /\ Leave(r, Me)
    /\ obj' = [obj EXCEPT ![Me.obj] = IF r.ok THEN r.loc ELSE Null]

Sched == At("OS_Sched") /\ Quietly(Done(OS_Sched(os)), Me)

-----------------------------------------------------------------------------
(* Semaphores and mutexes.                                                 *)

SemCreate == At("SemCreate") /\ Creates(OSSemCreate(os, Me.arg))
SemAccept ==
    LET r == OSSemAccept(os, Me.ev) IN At("SemAccept") /\ Quietly(r, Acquires(r))
SemPend ==
    LET r == OSSemPend(os, Me.ev, Me.arg) IN At("SemPend") /\ Quietly(r, Acquires(r))
SemReturn ==
    LET r == SemPended(os, Me.ev) IN At("SemPended") /\ Quietly(r, Acquires(r))
SemPost ==
    LET r == OSSemPost(os, Me.ev) IN At("SemPost") /\ Quietly(r, Releases(r))
SemAbort == At("SemPendAbort") /\ Quietly(OSSemPendAbort(os, Me.ev, Me.arg), Me)
SemSet == At("SemSet") /\ Quietly(OSSemSet(os, Me.ev, Me.arg), Me)
SemDel == At("SemDel") /\ Quietly(Deletes(OSSemDel(os, Me.ev, Me.arg)), Me)

MutexCreate == At("MutexCreate") /\ Creates(OSMutexCreate(os, Me.arg))
MutexAccept ==
    LET r == OSMutexAccept(os, Me.ev) IN At("MutexAccept") /\ Quietly(r, Acquires(r))
MutexPend ==
    LET r == OSMutexPend(os, Me.ev, Me.arg)
    IN At("MutexPend") /\ Quietly(r, Acquires(r))
MutexReturn ==
    LET r == MutexPended(os, Me.ev) IN At("MutexPended") /\ Quietly(r, Acquires(r))
MutexPost ==
    LET r == OSMutexPost(os, Me.ev) IN At("MutexPost") /\ Quietly(r, Releases(r))
MutexDel ==
    LET r == Deletes(OSMutexDel(os, Me.ev, Me.arg))
    IN At("MutexDel") /\ Quietly(r, Releases(r))

Locks ==
    \/ SemCreate \/ SemAccept \/ SemPend \/ SemReturn \/ SemPost \/ SemAbort
    \/ SemSet \/ SemDel
    \/ MutexCreate \/ MutexAccept \/ MutexPend \/ MutexReturn \/ MutexPost
    \/ MutexDel

-----------------------------------------------------------------------------
(* Mailboxes, queues, blocks of memory, and waiting for several events.    *)

MboxCreate == At("MboxCreate") /\ Creates(OSMboxCreate(os, Me.arg))
MboxAccept == At("MboxAccept") /\ Quietly(OSMboxAccept(os, Me.ev), Me)
MboxPend == At("MboxPend") /\ Quietly(OSMboxPend(os, Me.ev, Me.arg), Me)
MboxReturn == At("MboxPended") /\ Quietly(MboxPended(os, Me.ev), Me)
MboxPost ==
    LET r == OSMboxPost(os, Me.ev, Me.arg) IN At("MboxPost") /\ Quietly(r, Sends(r, Me.arg))
MboxPostOpt ==
    At("MboxPostOpt") /\ Quietly(OSMboxPostOpt(os, Me.ev, Notice, Me.arg), Me)
MboxAbort == At("MboxPendAbort") /\ Quietly(OSMboxPendAbort(os, Me.ev, Me.arg), Me)
MboxDel == At("MboxDel") /\ Quietly(Deletes(OSMboxDel(os, Me.ev, Me.arg)), Me)

QCreate == At("QCreate") /\ Quietly(OSQCreate(os), Me)
QCreated == At("QCreateRing") /\ Creates(QCreateRing(os, Me.loc))
QAccept == At("QAccept") /\ Quietly(OSQAccept(os, Me.ev), Me)
QPend == At("QPend") /\ Quietly(OSQPend(os, Me.ev, Me.arg), Me)
QReturn == At("QPended") /\ Quietly(QPended(os, Me.ev), Me)
QPost ==
    LET r == OSQPost(os, Me.ev, Me.arg) IN At("QPost") /\ Quietly(r, Sends(r, Me.arg))
QPostFront ==
    LET r == OSQPostFront(os, Me.ev, Me.arg)
    IN At("QPostFront") /\ Quietly(r, Sends(r, Me.arg))
QPostOpt == At("QPostOpt") /\ Quietly(OSQPostOpt(os, Me.ev, Notice, Me.arg), Me)
QAbort == At("QPendAbort") /\ Quietly(OSQPendAbort(os, Me.ev, Me.arg), Me)
QDel == At("QDel") /\ Quietly(Deletes(OSQDel(os, Me.ev, Me.arg)), Me)

QFlush == At("QFlush") /\ Quietly(OSQFlush(os, Me.ev), Me)

MemGet == At("MemGet") /\ Quietly(OSMemGet(os), Me)
MemPut ==
    LET blk == CHOOSE b \in Me.hand : TRUE
        r == OSMemPut(os, blk)
    IN At("MemPut") /\ Quietly(r, Sends(r, blk))

PendMulti ==
    At("PendMulti") /\ Quietly(OSEventPendMulti(os, Me.ev, Me.arg.timeout), Me)
MultiReturn == At("MultiPended") /\ Quietly(MultiPended(os, Me.ev), Me)

Messaging ==
    \/ MboxCreate \/ MboxAccept \/ MboxPend \/ MboxReturn \/ MboxPost
    \/ MboxPostOpt \/ MboxAbort \/ MboxDel
    \/ QCreate \/ QCreated \/ QAccept \/ QPend \/ QReturn \/ QPost \/ QPostFront
    \/ QPostOpt \/ QAbort \/ QDel \/ QFlush
    \/ MemGet \/ MemPut \/ PendMulti \/ MultiReturn

-----------------------------------------------------------------------------
(* Event flags.                                                            *)

FlagCreate == At("FlagCreate") /\ Creates(OSFlagCreate(os, Me.arg))
FlagAccept == At("FlagAccept") /\ Quietly(OSFlagAccept(os, Me.ev, Me.arg), Me)
FlagPend == At("FlagPend") /\ Quietly(OSFlagPend(os, Me.ev, Me.arg), Me)
FlagReturn == At("FlagPended") /\ Quietly(FlagPended(os, Me.ev, Me.arg), Me)
FlagPost ==
    At("FlagPost") /\ Quietly(OSFlagPost(os, Me.ev, Me.arg.flags, Me.arg.opt), Me)
FlagDel == At("FlagDel") /\ Quietly(Deletes(OSFlagDel(os, Me.ev, Me.arg)), Me)

Flags == FlagCreate \/ FlagAccept \/ FlagPend \/ FlagReturn \/ FlagPost \/ FlagDel

-----------------------------------------------------------------------------
(* Tasks, delays and the scheduler's lock.  A control block that is linked *)
(* starts its task at the top of its function.                             *)

TaskCreate == At("TaskCreate") /\ Quietly(OSTaskCreate(os, Me.arg.prio), Me)
TaskTake == At("TCBInitTake") /\ Quietly(TCBInitTake(os), Me)
TaskUndo == At("TaskUnreserve") /\ Quietly(TaskUnreserve(os, Me.arg.prio), Me)

TaskLink ==
    LET r == TCBInitLink(os, Me.loc, Me.arg.prio) IN
    /\ At("TCBInitLink")
    /\ os' = r.k
    /\ run' = [run EXCEPT ![Cur] = Left(r, Me), ![Me.loc] = NewRun(Me.arg.menu)]
    /\ UNCHANGED << uart, lib, clock, obj, prog >>

TaskDel == At("TaskDel") /\ Quietly(OSTaskDel(os, Me.arg.prio), Me)
TaskDeleted == At("TaskDelEnd") /\ Quietly(TaskDelEnd(os, Me.loc, Me.arg.prio), Me)
TaskDelReq == At("TaskDelReq") /\ Quietly(OSTaskDelReq(os, Me.arg.prio), Me)

(* A task that finds that it is to delete itself does so.                  *)
TaskObeys ==
    /\ At("TaskObeys")
    /\ Goto(IF DelRequested(os) THEN << "TaskDel" >> ELSE << >>, Me)
    /\ UNCHANGED << os, uart, lib, clock, obj, prog >>

TaskChangePrio ==
    At("TaskChangePrio") /\ Quietly(OSTaskChangePrio(os, Me.arg.prio, Me.arg.new), Me)
TaskSuspend == At("TaskSuspend") /\ Quietly(OSTaskSuspend(os, Me.arg.prio), Me)
TaskResume == At("TaskResume") /\ Quietly(OSTaskResume(os, Me.arg.prio), Me)
TimeDly == At("TimeDly") /\ Quietly(OSTimeDly(os, Me.arg), Me)
TimeDlyResume == At("TimeDlyResume") /\ Quietly(OSTimeDlyResume(os, Me.arg.prio), Me)
SchedLock == At("SchedLock") /\ Quietly(OSSchedLock(os), Me)
SchedUnlock == At("SchedUnlock") /\ Quietly(OSSchedUnlock(os), Me)

Tasks ==
    \/ TaskCreate \/ TaskTake \/ TaskUndo \/ TaskLink
    \/ TaskDel \/ TaskDeleted \/ TaskDelReq \/ TaskObeys
    \/ TaskChangePrio \/ TaskSuspend \/ TaskResume
    \/ TimeDly \/ TimeDlyResume \/ SchedLock \/ SchedUnlock

-----------------------------------------------------------------------------
(* The locks of newlib, __malloc_lock and __env_lock: the caller's priority*)
(* and the state of the semaphore are read first and compared later.       *)

LibLock ==
    /\ At("LibLock")
    /\ Goto(<< "LibQuery" >>, [Me EXCEPT !.io.id = os.tcb[Cur].prio])
    /\ UNCHANGED << os, uart, lib, clock, obj, prog >>

LibQuery ==
    LET q == OSSemQuery(os, Me.ev) IN
    /\ At("LibQuery")
    /\ Goto(<< "LibTest" >>,
            [Me EXCEPT !.io.cnt = q.cnt, !.io.grp = (q.grp # {})])
    /\ UNCHANGED << os, uart, lib, clock, obj, prog >>

Nested ==
    /\ Me.io.id = lib[Me.obj].lockid
    /\ IF Me.obj = "heap" THEN Me.io.cnt = 0 ELSE Me.io.grp

LibNests ==
    /\ At("LibTest") /\ Nested
    /\ lib' = [lib EXCEPT ![Me.obj].locks = @ + 1]
    /\ Goto(<< >>, Me)
    /\ UNCHANGED << os, uart, clock, obj, prog >>

LibWaits ==
    /\ At("LibTest") /\ ~Nested
    /\ Calls("SemPend", Me.obj, 0, << "LibGot" >>, Me)
    /\ UNCHANGED << os, uart, lib, clock, obj, prog >>

LibGot ==
    /\ At("LibGot")
    /\ lib' = [lib EXCEPT ![Me.obj] = [lockid |-> Me.io.id, locks |-> 1]]
    /\ Goto(<< >>, Me)
    /\ UNCHANGED << os, uart, clock, obj, prog >>

LibUnlock ==
    LET last == lib[Me.obj].locks = 1 IN
    /\ At("LibUnlock")
    /\ lib' = [lib EXCEPT ![Me.obj] =
                 [lockid |-> IF last THEN -1 ELSE @.lockid, locks |-> @.locks - 1]]
    /\ IF last THEN Calls("SemPost", Me.obj, Null, << >>, Me) ELSE Goto(<< >>, Me)
    /\ UNCHANGED << os, uart, clock, obj, prog >>

Library == LibLock \/ LibQuery \/ LibNests \/ LibWaits \/ LibGot \/ LibUnlock

-----------------------------------------------------------------------------
(* File descriptors.  open takes a free descriptor under the lock of the   *)
(* table and then, without it, looks for one that locks the device; one    *)
(* that finds one gives its own back.  One look at descriptor 2 stands for *)
(* the first three, which stay on the console.                             *)

Files == lib.files
Becomes(files) == lib' = [lib EXCEPT !.files = files]

Open ==
    /\ At("Open")
    /\ IF alt_find_dev(Me.arg.dev) = NoDev THEN Goto(<< >>, Me)
       ELSE Calls("SemPend", "fd_lock", 0, << "GetFd" >>,
                  [Me EXCEPT !.io.fd = StdErr + 1, !.io.want = Me.arg])
    /\ UNCHANGED << os, uart, lib, clock, obj, prog >>

GetFd ==
    LET i == Me.io.fd IN
    /\ At("GetFd")
    /\ CASE i = MaxFd -> Calls("SemPost", "fd_lock", Null, << >>, Me) /\ UNCHANGED lib
         [] i < MaxFd /\ Files.fd[i].dev # NoDev ->
              Goto(<< "GetFd" >>, [Me EXCEPT !.io.fd = i + 1]) /\ UNCHANGED lib
         [] OTHER ->
              Becomes(TakeFd(Files, i, Me.io.want.dev)) /\ Goto(<< "MaxFd" >>, Me)
    /\ UNCHANGED << os, uart, clock, obj, prog >>

GotFd ==
    /\ At("MaxFd")
    /\ Becomes(RaiseMax(Files, Me.io.fd))
    /\ Calls("SemPost", "fd_lock", Null, << "OpenFlags" >>, Me)
    /\ UNCHANGED << os, uart, clock, obj, prog >>

OpenFd ==
    /\ At("OpenFlags")
    /\ Becomes(OpenFlags(Files, Me.io.fd, Me.io.want.flags))
    /\ Goto(<< "FileLocked" >>, [Me EXCEPT !.io.next = StdErr])
    /\ UNCHANGED << os, uart, clock, obj, prog >>

FileLocked ==
    LET i == Me.io.next IN
    /\ At("FileLocked")
    /\ CASE i > LastLooked(Files) ->
              Goto(<< >>, [Me EXCEPT !.fds = @ \cup {Me.io.fd}])
         [] i <= LastLooked(Files) /\ LockedBy(Files, i, Me.io.fd) ->
              Goto(<< "ClearFd", "FreeFd" >>, Me)
         [] OTHER -> Goto(<< "FileLocked" >>, [Me EXCEPT !.io.next = i + 1])
    /\ UNCHANGED << os, uart, lib, clock, obj, prog >>

(* The console's close busy-waits until its ring is empty or the host gone;*)
(* whatever it says, the descriptor is released.                           *)
Close ==
    LET d == Files.fd[Me.io.fd] IN
    /\ At("Close")
    /\ d.dev = "console" => Drained(uart) \/ "NONBLOCK" \in d.flags
    /\ Goto(<< "ClearFd", "FreeFd" >>, [Me EXCEPT !.fds = @ \ {Me.io.fd}])
    /\ UNCHANGED << os, uart, lib, clock, obj, prog >>

ReleaseFd ==
    /\ \/ At("ClearFd") /\ Becomes(ClearFd(Files, Me.io.fd))
       \/ At("FreeFd") /\ Becomes(FreeFd(Files, Me.io.fd))
    /\ Goto(<< >>, Me)
    /\ UNCHANGED << os, uart, clock, obj, prog >>

(* TIOCEXCL and TIOCNXCL are the table's, the others the device's.         *)
Ioctl ==
    /\ At("Ioctl")
    /\ \/ /\ Me.arg.req = "EXCL"
          /\ Calls("SemPend", "fd_lock", 0, << "FdLock" >>,
                   [Me EXCEPT !.io.next = StdErr])
          /\ UNCHANGED << uart, lib >>
       \/ /\ Me.arg.req = "NXCL"
          /\ Becomes(alt_fd_unlock(Files, Me.io.fd)) /\ Goto(<< >>, Me)
          /\ UNCHANGED uart
       \/ /\ Me.arg.req = "TIMEOUT" /\ Files.fd[Me.io.fd].dev = "console"
          /\ uart' = SetTimeout(uart, Me.arg.timeout) /\ Goto(<< >>, Me)
          /\ UNCHANGED lib
    /\ UNCHANGED << os, clock, obj, prog >>

(* The loop ends before the highest descriptor: see the README.            *)
FdLock ==
    LET i == Me.io.next
        done == Calls("SemPost", "fd_lock", Null, << >>, Me) IN
    /\ At("FdLock")
    /\ CASE i >= Files.max ->
              Becomes([Files EXCEPT !.fd[Me.io.fd].flags = @ \cup {"EXCL"}]) /\ done
         [] i < Files.max /\ SameDevice(Files, i, Me.io.fd) -> done /\ UNCHANGED lib
         [] OTHER ->
              Goto(<< "FdLock" >>, [Me EXCEPT !.io.next = i + 1]) /\ UNCHANGED lib
    /\ UNCHANGED << os, uart, clock, obj, prog >>

Fcntl ==
    /\ At("Fcntl")
    /\ Becomes(alt_fcntl(Files, Me.io.fd, Me.arg.flags))
    /\ Goto(<< >>, Me)
    /\ UNCHANGED << os, uart, clock, obj, prog >>

FileCalls ==
    \/ Open \/ GetFd \/ GotFd \/ OpenFd \/ FileLocked
    \/ Close \/ ReleaseFd \/ Ioctl \/ FdLock \/ Fcntl

-----------------------------------------------------------------------------
(* The console: read and write of the JTAG UART.                           *)

UartFlags(ready) == [flags |-> {ready, "TIMEOUT"}, type |-> "SET_ANY",
                     consume |-> TRUE, timeout |-> 0]

(* The offsets a call has read are forgotten once they serve no more.      *)
Looked(in, out) == [Me EXCEPT !.io.in = in, !.io.out = out]
Copied(n) == [Looked(0, 0) EXCEPT !.io.next = @ + n, !.io.left = @ - n]

(* The flags are those that the descriptor has when the call begins.       *)
Begins ==
    [Me EXCEPT !.io.left = Me.arg.n, !.io.fd = NoFd,
               !.io.nonblock = "NONBLOCK" \in Files.fd[Me.io.fd].flags]

WriteBegin ==
    /\ At("Write")
    /\ IF MayWrite(Files, Me.io.fd)
       THEN Calls("SemPend", "write_lock", 0, << "WriteLook" >>, Begins)
       ELSE Goto(<< >>, Me)
    /\ UNCHANGED << os, uart, lib, clock, obj, prog >>

WriteLook ==
    /\ At("WriteLook")
    /\ IF Me.io.left > 0 /\ Writable(uart.txIn, uart.txOut) > 0
       THEN Goto(<< "WriteCopy" >>, Looked(uart.txIn, uart.txOut))
       ELSE Goto(<< "WriteStart" >>, Me)
    /\ UNCHANGED << os, uart, lib, clock, obj, prog >>

WriteCopy ==
    LET n == AtMost(Writable(Me.io.in, Me.io.out), Me.io.left)
        chars == [i \in 1 .. n |-> [by |-> Cur, i |-> Me.io.next + i]]
    IN /\ At("WriteCopy")
       /\ uart' = CopyIn(uart, Me.io.in, chars)
       /\ Goto(<< "WriteLook" >>, Copied(n))
       /\ UNCHANGED << os, lib, clock, obj, prog >>

WriteUnlock == Calls("SemPost", "write_lock", Null, << >>, Me)

(* Transmission is started; with characters left the task waits for room.  *)
WriteStart ==
    /\ At("WriteStart")
    /\ uart' = EnableWrite(uart)
    /\ IF Me.io.left > 0 /\ ~Me.io.nonblock
       THEN Calls("FlagPend", "uart", UartFlags("WRITE_RDY"), << "WriteWoken" >>, Me)
       ELSE WriteUnlock
    /\ UNCHANGED << os, lib, clock, obj, prog >>

(* A host that has been silent for a second makes the write give up.       *)
WriteWoken ==
    /\ At("WriteWoken")
    /\ IF uart.inactive # 0 THEN WriteUnlock ELSE Goto(<< "WriteLook" >>, Me)
    /\ UNCHANGED << os, uart, lib, clock, obj, prog >>

ReadBegin ==
    /\ At("Read")
    /\ IF MayRead(Files, Me.io.fd)
       THEN Calls("SemPend", "read_lock", 0, << "ReadLook" >>, Begins)
       ELSE Goto(<< >>, Me)
    /\ UNCHANGED << os, uart, lib, clock, obj, prog >>

ReadLook ==
    /\ At("ReadLook")
    /\ IF Readable(uart.rxIn, uart.rxOut) > 0
       THEN Goto(<< "ReadCopy" >>, Looked(uart.rxIn, uart.rxOut))
       ELSE Goto(<< "ReadDone" >>, Looked(uart.rxIn, 0))
    /\ UNCHANGED << os, uart, lib, clock, obj, prog >>

ReadCopy ==
    LET n == AtMost(Readable(Me.io.in, Me.io.out), Me.io.left) IN
    /\ At("ReadCopy")
    /\ uart' = CopyOut(uart, Me.io.out, n)
    /\ Goto(IF Me.io.left > n THEN << "ReadLook" >> ELSE << "ReadDone" >>,
            Copied(n))
    /\ UNCHANGED << os, lib, clock, obj, prog >>

ReadUnlock ==
    Calls("SemPost", "read_lock", Null,
          IF Me.io.next > 0 THEN << "ReadEnable" >> ELSE << >>, Me)

(* With nothing read the task waits for the interrupt, unless it must not. *)
ReadDone ==
    /\ At("ReadDone")
    /\ IF Me.io.next > 0 \/ Me.io.nonblock THEN ReadUnlock
       ELSE Calls("FlagPend", "uart", UartFlags("READ_RDY"), << "ReadWoken" >>, Me)
    /\ UNCHANGED << os, uart, lib, clock, obj, prog >>

(* Nothing new in the ring: the call fails with EIO.                       *)
ReadWoken ==
    /\ At("ReadWoken")
    /\ IF Me.io.in = uart.rxIn THEN ReadUnlock ELSE Goto(<< "ReadLook" >>, Me)
    /\ UNCHANGED << os, uart, lib, clock, obj, prog >>

ReadEnable ==
    /\ At("ReadEnable")
    /\ uart' = EnableRead(uart)
    /\ Goto(<< >>, Me)
    /\ UNCHANGED << os, lib, clock, obj, prog >>

Console ==
    \/ WriteBegin \/ WriteLook \/ WriteCopy \/ WriteStart \/ WriteWoken
    \/ ReadBegin \/ ReadLook \/ ReadCopy \/ ReadDone \/ ReadWoken \/ ReadEnable

-----------------------------------------------------------------------------
(* Interrupts: their handlers run to the end and leave through OSIntExit.  *)

PostFlags(k, flags) ==
    IF flags = {} THEN k ELSE OSFlagPost(k, obj["uart"], flags, "SET").k

HandlerPosts(c) ==
    CASE c.op = "SemPost" -> OSSemPost(os, obj[c.obj])
      [] c.op = "MboxPost" -> OSMboxPost(os, obj[c.obj], Notice)
      [] c.op = "QPost" -> OSQPost(os, obj[c.obj], Notice)
      [] c.op = "FlagPost" -> OSFlagPost(os, obj[c.obj], c.arg.flags, c.arg.opt)

Interrupt ==
    /\ \E c \in prog.isr : Passes(c) /\ os' = OSIntExit(HandlerPosts(c).k)
    /\ UNCHANGED << uart, lib, clock, obj, run, prog >>

UartPending == prog.host # {} /\ (ReadPending(uart) \/ WritePending(uart))

(* The timer's handler: the alarms, of which the driver has one, and then  *)
(* the kernel's tick.  The alarm can be left alone in a program whose host *)
(* shows itself every second.                                              *)
TimerIrq(k, u) ==
    LET now == NextTick(clock.now)
        silent == "silent" \in prog.host
        rings == silent /\ Fires(clock.alarm, now)
    IN [k |-> OSTimeTick(IF rings THEN PostFlags(k, TimeoutFlags(u)) ELSE k),
        u |-> IF rings THEN Timeout(u) ELSE u,
        clock |-> IF silent
                  THEN [now |-> now,
                        alarm |-> alt_tick(clock.alarm, now, TicksPerSec)]
                  ELSE clock]

(* The processor's handler goes round until nothing is pending, the UART   *)
(* before the timer, and leaves through OSIntExit once.                    *)
IrqHandler ==
    \E timer \in BOOLEAN :
      LET k1 == IF UartPending THEN PostFlags(os, IrqFlags(uart)) ELSE os
          u1 == IF UartPending THEN Irq(uart) ELSE uart
          after == IF timer THEN TimerIrq(k1, u1)
                   ELSE [k |-> k1, u |-> u1, clock |-> clock]
      IN /\ timer \/ UartPending
         /\ os' = OSIntExit(after.k)
         /\ uart' = after.u
         /\ clock' = after.clock
         /\ UNCHANGED << lib, obj, run, prog >>

Host ==
    /\ \/ /\ "types" \in prog.host /\ Len(uart.rxFifo) < FifoLen
          /\ uart' = HostSends(uart)
       \/ /\ "takes" \in prog.host /\ uart.txFifo # << >>
          /\ uart' = HostTakes(uart)
    /\ UNCHANGED << os, lib, clock, obj, run, prog >>

-----------------------------------------------------------------------------

Step == Apply \/ Forget \/ Sched \/ Locks \/ Messaging \/ Flags \/ Tasks
        \/ Library \/ FileCalls \/ Console

Works == Running /\ (Step \/ Interrupt \/ IrqHandler \/ Host) /\ UNCHANGED boot

Next == Boot \/ Works

Spec == Init /\ [][Next]_vars
=============================================================================
