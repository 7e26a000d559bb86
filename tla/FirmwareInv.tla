---------------------------- MODULE FirmwareInv ----------------------------
(***************************************************************************)
(* Why the kernel's wait lists and its ready list are right: where a task  *)
(* stands in a call decides what its control block, the wait lists and the *)
(* ready list say of it.  The invariant is inductive for plain programs,   *)
(* those that neither delete objects or tasks nor use mutexes nor create   *)
(* tasks or change priorities while they run, like the application this    *)
(* repository builds on the kernel and the HAL.                            *)
(***************************************************************************)
EXTENDS FirmwareSafety

-----------------------------------------------------------------------------
(* Plain programs.                                                         *)

EventTypes == {"SEM", "MBOX", "Q"}
FlagTypes == {"SET_ALL", "SET_ANY", "CLR_ALL", "CLR_ANY"}

CreateOps == {"SemCreate", "MboxCreate", "QCreate", "FlagCreate"}
EventOps == {"SemAccept", "SemPend", "SemPost", "SemPendAbort", "SemSet",
             "MboxAccept", "MboxPend", "MboxPost", "MboxPostOpt", "MboxPendAbort",
             "QAccept", "QPend", "QPost", "QPostFront", "QPostOpt", "QPendAbort",
             "QFlush"}
FlagOps == {"FlagAccept", "FlagPend", "FlagPost"}
LibOps == {"LibLock", "LibUnlock"}
IoOps == {"Open", "Close", "Read", "Write", "Ioctl", "Fcntl"}
PlainOps == CreateOps \cup EventOps \cup FlagOps \cup LibOps \cup IoOps
              \cup {"MemGet", "MemPut", "PendMulti", "TaskDelReq", "TaskSuspend",
                    "TaskResume", "TimeDly", "TimeDlyResume", "SchedLock",
                    "SchedUnlock"}
HandlerOps == {"SemPost", "MboxPost", "QPost", "FlagPost"}

(* The calls that end in a wait while the scheduler is not locked.         *)
Waiters == {"SemPend", "MboxPend", "QPend", "FlagPend", "PendMulti", "TimeDly",
            "TaskSuspend"}
(* Those that wait for the HAL's semaphores and flags on the caller's behalf.*)
Indirect == {"LibLock", "Open", "Read", "Write", "Ioctl"}

(* The names of event flags: the UART driver's and any an application has. *)
UartNames == {"READ_RDY", "WRITE_RDY", "TIMEOUT"}
FlagNames == UartNames \cup STRING

Wanted == [flags : SUBSET FlagNames, type : FlagTypes, consume : BOOLEAN, timeout : Nat]

(* The arguments of a call.  Flags that are consumed are waited for to be  *)
(* set.                                                                    *)
ArgOK(op, arg) ==
    /\ op \in {"SemPend", "MboxPend", "QPend", "TimeDly", "SemSet", "SemCreate"} =>
         arg \in Nat
    /\ op \in {"MboxPost", "QPost", "QPostFront", "MboxCreate"} => arg \in Int
    /\ op \in {"SemPendAbort", "MboxPendAbort", "QPendAbort"} =>
         arg \in {"NONE", "BROADCAST"}
    /\ op \in {"FlagPend", "FlagAccept"} =>
         arg \in Wanted /\ (arg.consume => arg.type \in ForSet)
    /\ op = "FlagPost" => arg \in [flags : SUBSET FlagNames, opt : {"SET", "CLR"}]
    /\ op = "FlagCreate" => arg \in SUBSET FlagNames
    /\ op = "PendMulti" => arg.timeout \in Nat
    /\ op \in {"TaskDelReq", "TaskSuspend", "TaskResume", "TimeDlyResume"} =>
         arg.prio \in Prio \cup {Self}
    /\ op \in {"Read", "Write"} => arg.n \in Nat
    /\ op = "Ioctl" => arg.timeout \in Nat

CallsOf(p) == UNION {p.tasks[i].menu : i \in DOMAIN p.tasks}
Uses(p, ops) == \E c \in CallsOf(p) : c.op \in ops

Declares(p, name, type) ==
    \E i \in DOMAIN p.objects : p.objects[i].name = name /\ p.objects[i].type = type

(* The names of flag groups: the types of C keep them apart from events.   *)
GroupCalls == {"FlagCreate", "FlagAccept", "FlagPend", "FlagPost"}
EventCalls == (CreateOps \ {"FlagCreate"}) \cup EventOps
GroupNames(p) ==
    {p.objects[i].name : i \in {n \in DOMAIN p.objects : p.objects[n].type = "FLAG"}}
      \cup {c.obj : c \in {d \in CallsOf(p) : d.op \in GroupCalls}}

Needing(p, first, types) ==
    {i \in DOMAIN p.objects : i >= first /\ p.objects[i].type \in types}

ObjectsPlain(p) ==
    /\ p.objects \in Seq({p.objects[i] : i \in DOMAIN p.objects})
    /\ \A i, j \in DOMAIN p.objects :
         p.objects[i].name = p.objects[j].name => i = j
    /\ \A i \in DOMAIN p.objects :
         LET o == p.objects[i] IN
         /\ o.type \in EventTypes \cup {"FLAG", "MEM", "NONE"}
         /\ o.type \in EventTypes => o.name \notin GroupNames(p)
         /\ o.type = "SEM" => o.arg \in Nat
         /\ o.type = "MBOX" => o.arg \in Int
         /\ o.type = "FLAG" => o.arg \in SUBSET FlagNames
    /\ Cardinality(Needing(p, 1, EventTypes)) <= MaxEvents
    /\ Cardinality(Needing(p, 1, {"FLAG"})) <= MaxFlags

(* A call names what the program declares: an object it creates is not one *)
(* that the start creates.                                                 *)
CallPlain(p, c) ==
    /\ c.op \in PlainOps
    /\ c.obj \in Names(p)
    /\ ArgOK(c.op, c.arg)
    /\ c.op \in EventCalls => c.obj \notin GroupNames(p)
    /\ c.op = "PendMulti" =>
         c.arg.objs \subseteq Names(p) \ GroupNames(p) /\ c.arg.objs # {}
    /\ c.op \in CreateOps => Declares(p, c.obj, "NONE")
    /\ c.op \in LibOps => c.obj \in Libraries /\ Declares(p, c.obj, "SEM")
    /\ c.op \in {"Open", "Ioctl"} => Declares(p, "fd_lock", "SEM")
    /\ c.op \in {"Read", "Write"} =>
         /\ Declares(p, "read_lock", "SEM") /\ Declares(p, "write_lock", "SEM")
         /\ Declares(p, "uart", "FLAG")

(* A task that waits for several events is not suspended, and the scheduler*)
(* is not locked round the calls of the library and the HAL.               *)
Plain(p) ==
    /\ ObjectsPlain(p)
    /\ p.tasks \in Seq([prio : Prio, menu : SUBSET CallsOf(p)])
    /\ \A c \in CallsOf(p) : CallPlain(p, c)
    /\ \A c \in p.isr : /\ c.op \in HandlerOps /\ c.obj \in Names(p)
                        /\ ArgOK(c.op, c.arg)
                        /\ c.obj \in GroupNames(p) <=> c.op = "FlagPost"
    /\ ~(Uses(p, {"PendMulti"}) /\ Uses(p, {"TaskSuspend"}))
    /\ ~(Uses(p, {"SchedLock"}) /\ Uses(p, Indirect))
    /\ p.host # {} => Declares(p, "uart", "FLAG")

PlainPrograms == {p \in Programs : Plain(p)}

-----------------------------------------------------------------------------
(* The kernel's types.                                                     *)

NodeType == [grp : Fgp \cup {Null}, flags : SUBSET FlagNames, type : FlagTypes \cup {"NONE"}]

TcbType == [prio : Prio, stat : SUBSET Statuses, pend : {"OK", "TO", "ABORT"},
            dly : Nat, event : Ecb \cup {Null}, multi : SUBSET Ecb, node : NodeType,
            msg : Int, delReq : BOOLEAN, flagsRdy : SUBSET FlagNames]

EventType == [type : EventTypes \cup {"UNUSED"}, cnt : Nat, pip : Int, ptr : Int,
              wait : Bitmap]

GroupType == [type : {"UNUSED", "FLAG"}, flags : SUBSET FlagNames, wait : SUBSET Tcb]

RingType == [buf : [0 .. QSize - 1 -> Int], in : 0 .. QSize - 1,
             out : 0 .. QSize - 1, entries : 0 .. QSize, size : {QSize}]

Kernel == [lock : 0 .. 255, rdy : Bitmap, cur : Tcb \cup {Null}, prioCur : Prio,
           tcb : [Tcb -> TcbType], prioTbl : [Prio -> Tcb \cup {Null}],
           list : SUBSET Tcb, freeTcb : Seq(Tcb),
           event : [Ecb -> EventType], freeEvent : Seq(Ecb),
           flag : [Fgp -> GroupType], freeFlag : Seq(Fgp),
           mem : Seq(Block), nblks : Nat,
           queue : [Qcb -> RingType], freeQ : Seq(Qcb)]

-----------------------------------------------------------------------------
(* The kernel k while task t waits as l says: l is the label of the second *)
(* critical section of the call the task is in, or none, and ev the event, *)
(* the group or the set of events it was called for.                       *)

Once(s) == \A i, j \in DOMAIN s : s[i] = s[j] => i = j

(* Every priority is one task's, and bits stand for tasks.                 *)
PriosOK(k) ==
    /\ \A t \in k.list : k.prioTbl[k.tcb[t].prio] = t
    /\ \A p \in Prio : k.prioTbl[p] # Null =>
         k.prioTbl[p] \in k.list /\ k.tcb[k.prioTbl[p]].prio = p
    /\ \A t \in DOMAIN k.freeTcb : k.freeTcb[t] \notin k.list
    /\ Once(k.freeTcb)

BitsOK(k) ==
    /\ Consistent(k.rdy)
    /\ \A p \in Bits(k.rdy) : k.prioTbl[p] # Null
    /\ k.prioTbl[IdlePrio] # Null /\ IdlePrio \in Bits(k.rdy)
    /\ \A e \in Ecb : Consistent(k.event[e].wait)
    /\ \A e \in Ecb : \A p \in Bits(k.event[e].wait) : k.prioTbl[p] # Null
    /\ \A g \in Fgp : k.flag[g].wait \subseteq k.list

(* The control blocks that are not in use.                                 *)
PoolsOK(k) ==
    /\ Once(k.freeEvent) /\ Once(k.freeQ) /\ Once(k.freeFlag)
    /\ \A i \in DOMAIN k.freeEvent : k.event[k.freeEvent[i]].type = "UNUSED"
    /\ \A i \in DOMAIN k.freeFlag : k.flag[k.freeFlag[i]].type = "UNUSED"
    /\ \A e \in Ecb : k.event[e].type = "Q" =>
         /\ k.event[e].ptr \in Qcb
         /\ \A i \in DOMAIN k.freeQ : k.freeQ[i] # k.event[e].ptr
         /\ \A f \in Ecb : k.event[f].type = "Q" /\ k.event[f].ptr = k.event[e].ptr =>
              e = f
    /\ \A e \in Ecb : k.event[e].type = "UNUSED" => Bits(k.event[e].wait) = {}
    /\ \A g \in Fgp : k.flag[g].type = "UNUSED" => k.flag[g].wait = {}

WaitLabels == {"SemPended", "MboxPended", "QPended", "FlagPended", "MultiPended"}

KindOf(l) == CASE l = "SemPended" -> "SEM" [] l = "MboxPended" -> "MBOX"
               [] l = "QPended" -> "Q"

IsReady(k, t) == k.tcb[t].prio \in Bits(k.rdy)
Lists(k, t) == {e \in Ecb : k.tcb[t].prio \in Bits(k.event[e].wait)}
Groups(k, t) == {g \in Fgp : t \in k.flag[g].wait}

WaitsForNothing(k, t) ==
    LET c == k.tcb[t] IN
    /\ c.stat \subseteq {"SUSPEND"} /\ c.pend = "OK"
    /\ c.event = Null /\ c.multi = {} /\ c.node = NoNode
    /\ Lists(k, t) = {} /\ Groups(k, t) = {}
    /\ IsReady(k, t) <=> c.stat = {} /\ c.dly = 0

WaitsForOne(k, t, type, e) ==
    LET c == k.tcb[t] IN
    /\ e \in Ecb /\ k.event[e].type = type
    /\ c.stat \subseteq {type, "SUSPEND"}
    /\ type \in c.stat => c.pend = "OK"
    /\ type \notin c.stat => c.dly = 0
    /\ c.event = e /\ c.multi = {} /\ c.node = NoNode
    /\ Lists(k, t) = IF type \in c.stat \/ c.pend = "TO" THEN {e} ELSE {}
    /\ Groups(k, t) = {}
    /\ IsReady(k, t) <=> c.stat = {}

WaitsForFlags(k, t, g) ==
    LET c == k.tcb[t] IN
    /\ g \in Fgp /\ k.flag[g].type = "FLAG"
    /\ c.stat \subseteq {"FLAG", "SUSPEND"} /\ c.pend # "ABORT"
    /\ "FLAG" \in c.stat => c.pend = "OK"
    /\ "FLAG" \notin c.stat => c.dly = 0
    /\ c.event = Null /\ c.multi = {} /\ Lists(k, t) = {}
    /\ IF "FLAG" \in c.stat \/ c.pend = "TO"
       THEN c.node.grp = g /\ Groups(k, t) = {g}
       ELSE c.node = NoNode /\ Groups(k, t) = {}
    /\ IsReady(k, t) <=> c.stat = {}

(* It waits, has timed out, or has been answered by one of the events.     *)
WaitsForAny(k, t, S) ==
    LET c == k.tcb[t] IN
    /\ S \subseteq Ecb /\ S # {} /\ \A e \in S : k.event[e].type \in EventTypes
    /\ "MULTI" \in c.stat /\ c.stat \cap {"SUSPEND", "FLAG"} = {}
    /\ c.multi = S /\ c.node = NoNode /\ Groups(k, t) = {}
    /\ IF c.event = Null THEN Lists(k, t) = S /\ c.pend # "ABORT"
                         ELSE c.event \in S /\ Lists(k, t) = {} /\ c.pend # "TO"
    /\ c.event = Null /\ c.pend = "OK" => {k.event[e].type : e \in S} \subseteq c.stat
    /\ IF c.event = Null /\ c.pend = "OK" THEN ~IsReady(k, t)
                                          ELSE IsReady(k, t) /\ c.dly = 0
    /\ c.pend = "TO" => c.stat \cap PendAny = {}

TaskOK(k, t, l, ev) ==
    /\ l = "none" => WaitsForNothing(k, t)
    /\ l \in {"SemPended", "MboxPended", "QPended"} => WaitsForOne(k, t, KindOf(l), ev)
    /\ l = "FlagPended" => WaitsForFlags(k, t, ev)
    /\ l = "MultiPended" => WaitsForAny(k, t, ev)

(* Nothing that somebody waits for lies idle.                              *)
Exhausted(k, e) ==
    /\ k.event[e].type = "SEM" => k.event[e].cnt = 0
    /\ k.event[e].type = "MBOX" => k.event[e].ptr = Null
    /\ k.event[e].type = "Q" => TheRing(k, e).entries = 0

EventServed(k, e) == Bits(k.event[e].wait) # {} => Exhausted(k, e)

GroupServed(k, g) ==
    \A t \in k.flag[g].wait :
      LET n == k.tcb[t].node IN
      "FLAG" \in k.tcb[t].stat /\ n.type \in ForSet =>
        ~Satisfied(k.flag[g].flags, n.flags, n.type)

ServedOK(k) ==
    /\ \A e \in Ecb : EventServed(k, e)
    /\ \A g \in Fgp : GroupServed(k, g)

-----------------------------------------------------------------------------
(* What tasks are in the middle of.                                        *)

WaitOf(me) ==
    CASE me.pc # << >> /\ Head(me.pc) \in WaitLabels -> Head(me.pc)
      [] Len(me.pc) > 1 /\ Head(me.pc) = "OS_Sched" /\ me.pc[2] \in WaitLabels -> me.pc[2]
      [] OTHER -> "none"

(* The labels at which a call goes on after a call of its own.             *)
Conts == {"LibGot", "GetFd", "OpenFlags", "FdLock", "FreeFd", "WriteLook",
          "WriteWoken", "ReadLook", "ReadWoken", "ReadEnable"}
Labels == PlainOps \cup WaitLabels \cup Conts
            \cup {"OS_Sched", "QCreateRing", "LibQuery", "LibTest", "MaxFd",
                  "FileLocked", "ClearFd", "WriteCopy", "WriteStart", "ReadCopy",
                  "ReadDone"}

StackOK(pc) ==
    /\ pc \in Seq(Labels)
    /\ \A i \in 2 .. Len(pc) :
         pc[i] \in Conts \/ (i = 2 /\ pc[1] = "OS_Sched" /\ pc[2] \in WaitLabels)

(* What a label needs of the program: the locks and flags that the rest of *)
(* its call uses, and, where it may wait, that the scheduler is not locked.*)
FdLabels == {"Open", "Ioctl", "GetFd", "MaxFd", "FdLock"}
ConsoleLabels == {"Read", "Write", "WriteLook", "WriteCopy", "WriteStart", "WriteWoken",
                  "ReadLook", "ReadCopy", "ReadDone", "ReadWoken"}
LibLabels == {"LibLock", "LibQuery", "LibTest", "LibGot"}
Backed(p, l) ==
    /\ l \in FdLabels => Declares(p, "fd_lock", "SEM")
    /\ l \in ConsoleLabels =>
         /\ Declares(p, "read_lock", "SEM") /\ Declares(p, "write_lock", "SEM")
         /\ Declares(p, "uart", "FLAG")
    /\ l \in FdLabels \cup ConsoleLabels \cup LibLabels => Uses(p, Indirect)

(* An event control block that a queue is being made of.                   *)
Limbo(k, e) ==
    /\ e \in Ecb /\ k.event[e].type = "UNUSED"
    /\ \A i \in DOMAIN k.freeEvent : k.freeEvent[i] # e

(* The call at the head of the stack has the arguments it was checked for. *)
HeadOK(p, k, me, l) ==
    /\ l \in CreateOps \cup {"QCreateRing"} =>
         /\ Declares(p, me.obj, "NONE")
         /\ me.obj \in GroupNames(p) <=> l = "FlagCreate"
    /\ ArgOK(l, me.arg)
    /\ l \in EventOps => me.ev \in Ecb /\ k.event[me.ev].type = TypeFor(l)
    /\ l \in FlagOps => me.ev \in Fgp /\ k.flag[me.ev].type = "FLAG"
    /\ l = "PendMulti" => /\ Uses(p, {l}) /\ me.ev \subseteq Ecb /\ me.ev # {}
                          /\ \A e \in me.ev : k.event[e].type \in EventTypes
    /\ l = "TaskSuspend" => Uses(p, {l}) /\ me.arg.prio # IdlePrio
    /\ l = "SchedLock" => Uses(p, {l})
    /\ l \in {"LibLock", "LibQuery", "LibTest", "LibUnlock"} =>
         me.obj \in Libraries /\ Declares(p, me.obj, "SEM")
    /\ l = "MemPut" => me.hand # {}
    /\ l = "QCreateRing" => Limbo(k, me.loc)
    /\ l \in {"MboxPostOpt", "QPostOpt"} => \E c \in me.menu : c.op = l /\ c.arg = me.arg

RunFields == {"menu", "pc", "obj", "ev", "arg", "loc", "io", "owns", "hand", "fds"}

ThreadOK(p, k, me) ==
    /\ DOMAIN me = RunFields
    /\ me.menu \subseteq CallsOf(p)
    /\ me.hand \subseteq Block
    /\ StackOK(me.pc)
    /\ me.pc # << >> => HeadOK(p, k, me, Head(me.pc))
    /\ WaitOf(me) = "FlagPended" =>
         me.arg \in Wanted /\ (me.arg.consume => me.arg.type \in ForSet)
    /\ WaitOf(me) = "MultiPended" => Uses(p, {"PendMulti"})
    /\ \A i \in DOMAIN me.pc : Backed(p, me.pc[i])

-----------------------------------------------------------------------------

KernelOK ==
    /\ os \in Kernel
    /\ PriosOK(os) /\ BitsOK(os) /\ PoolsOK(os) /\ ServedOK(os)
    /\ \A t \in os.list : TaskOK(os, t, WaitOf(run[t]), run[t].ev)

HandlesOK ==
    /\ DOMAIN obj = Names(prog)
    /\ LET groups == GroupNames(prog) IN
       \A n \in Names(prog) :
         obj[n] \in {Null} \cup (IF n \in groups THEN Fgp ELSE Ecb)
    /\ \A i \in DOMAIN prog.objects : i < boot.object =>
         LET o == prog.objects[i] IN
         /\ o.type = "SEM" => obj[o.name] \in Ecb /\ os.event[obj[o.name]].type = "SEM"
         /\ o.type = "FLAG" => obj[o.name] \in Fgp /\ os.flag[obj[o.name]].type = "FLAG"

BootOK ==
    /\ boot \in [object : Nat \ {0}, task : Nat \ {0}]
    /\ Running => ObjectsMade
    /\ ~Running => /\ \A t \in Tcb : run[t].pc = << >>
                   /\ os.lock = 0
                   /\ Cardinality(Needing(prog, boot.object, EventTypes)) <= Len(os.freeEvent)
                   /\ Cardinality(Needing(prog, boot.object, {"FLAG"})) <= Len(os.freeFlag)

ThreadsOK ==
    /\ DOMAIN run = Tcb
    /\ \A t \in Tcb : ThreadOK(prog, os, run[t])
    /\ \A t \in Tcb : AtOne(t, {"QCreateRing"}) =>
         \A u \in Tcb : AtOne(u, {"QCreateRing"}) /\ run[t].loc = run[u].loc => t = u
    /\ \A t \in Tcb \ os.list : run[t].pc = << >>
    /\ \A t \in os.list : os.tcb[t].prio = IdlePrio => run[t].menu = {} /\ run[t].pc = << >>

(* The task that runs is ready, or about to let another run; and while the *)
(* scheduler is locked it does not begin to wait.                          *)
SchedOK ==
    Running =>
      /\ os.cur \in os.list /\ os.prioCur = os.tcb[os.cur].prio
      /\ IsReady(os, os.cur) \/ (At("OS_Sched") /\ os.lock = 0)
      /\ os.lock > 0 => /\ ~AtOne(os.cur, Waiters)
                        /\ Uses(prog, {"SchedLock"})

(* The UART's rings, in the arrays and in the device.                      *)
Offset == 0 .. BufLen - 1
Char == [by : Tcb \cup {0}, i : Int]

UartType == [rx : [Offset -> Int], rxIn : Offset, rxOut : Offset,
             tx : [Offset -> Char], txIn : Offset, txOut : Offset,
             irq : SUBSET {"RE", "WE"}, inactive : Int, timeout : Int,
             rxFifo : Seq(Int), txFifo : Seq(Char), active : BOOLEAN,
             typed : Int, shown : Char]

(* The offsets that a call has read are offsets of the arrays, too.        *)
IoOK(io) ==
    /\ DOMAIN io = DOMAIN NoIo
    /\ io.in \in Offset /\ io.out \in Offset
    /\ io.next \in Int /\ io.left \in Int

UartOK ==
    /\ uart \in UartType
    /\ Len(uart.rxFifo) <= FifoLen /\ Len(uart.txFifo) <= FifoLen
    /\ \A t \in Tcb : IoOK(run[t].io)

(* The kernel, the handles and the tasks agree with each other.            *)
PlainInv ==
    /\ prog \in PlainPrograms
    /\ KernelOK /\ HandlesOK /\ BootOK /\ ThreadsOK /\ SchedOK /\ HighestRuns

(* The inductive invariant: the control block of every task, the wait      *)
(* lists, the ready list and the pools are what the label at which the task*)
(* stands in its call (OSSemPend, os_sem.c:281-347, and its like) says, and*)
(* nothing that is waited for is there; the offsets that read and write    *)
(* hold across an interrupt are still offsets of the rings.                *)
IInv == PlainInv /\ UartOK

PlainInOrder == prog \in PlainPrograms => IInv
=============================================================================
