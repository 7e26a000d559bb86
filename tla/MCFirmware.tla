----------------------------- MODULE MCFirmware -----------------------------
(***************************************************************************)
(* The programs that TLC explores: for each group of services a few tasks  *)
(* that call them in any order, the interrupts that post to them, and the  *)
(* objects they use.  Priorities 3 and 7 share a row of the bitmaps, 8 is  *)
(* in the next.                                                            *)
(***************************************************************************)
EXTENDS FirmwareSafety

On(op, name) == Call(op, name, Null)
Tsk(prio, menu) == [prio |-> prio, menu |-> menu]
Obj(name, type, arg) == [name |-> name, type |-> type, arg |-> arg]
Program(tasks, objects, isr, owned) ==
    [tasks |-> tasks, objects |-> objects, isr |-> isr, owned |-> owned,
     host |-> {}, strict |-> TRUE]

Delay(n) == Call("TimeDly", NoName, n)
Prioritied(op, p) == Call(op, NoName, [prio |-> p])

Semaphores == Program(
    << Tsk(3, {Call("SemPend", "s", 0), Call("SemPend", "s", 1),
               On("SemPost", "s"), Delay(1)}),
       Tsk(7, {Call("SemPend", "s", 1), On("SemPost", "s"), Delay(2)}),
       Tsk(8, {On("SemAccept", "s"), On("SemPost", "s"),
               Call("SemPendAbort", "s", "NONE"),
               Call("SemPendAbort", "s", "BROADCAST")}) >>,
    << Obj("s", "SEM", 1) >>, {}, {"s"})

Signals == Program(
    << Tsk(3, {Call("SemPend", "s", 0), Call("SemPend", "s", 1), Delay(2)}),
       Tsk(7, {Call("SemPend", "s", 0), Delay(1)}),
       Tsk(8, {Call("SemSet", "s", 0), Call("SemSet", "s", 1),
               Call("SemDel", "s", "ALWAYS"), Call("SemDel", "s", "NO_PEND"),
               Call("SemCreate", "s", 0), On("SchedLock", NoName),
               On("SchedUnlock", NoName)}) >>,
    << Obj("s", "SEM", 0) >>, {On("SemPost", "s")}, {})

MutexProgram == Program(
    << Tsk(3, {Call("MutexPend", "m", 0), Call("MutexPend", "m", 1),
               On("MutexPost", "m"), Delay(1)}),
       Tsk(7, {Call("MutexPend", "m", 0), On("MutexPost", "m"), Delay(2)}),
       Tsk(8, {On("MutexAccept", "m"), Call("MutexPend", "m", 0),
               On("MutexPost", "m")}) >>,
    << Obj("m", "MUTEX", 2) >>, {}, {"m"})

MutexDeletion == Program(
    << Tsk(3, {Call("MutexPend", "m", 0), On("MutexPost", "m"), Delay(1)}),
       Tsk(8, {On("MutexAccept", "m"), On("MutexPost", "m"),
               Call("MutexDel", "m", "ALWAYS"), Call("MutexCreate", "m", 2),
               On("SchedLock", NoName), On("SchedUnlock", NoName)}) >>,
    << Obj("m", "MUTEX", 2) >>, {}, {"m"})

Mailboxes == Program(
    << Tsk(3, {Call("MboxPend", "b", 1), On("MemPut", NoName), Delay(1)}),
       Tsk(7, {Call("MboxPend", "b", 0), On("MemPut", NoName), Delay(1)}),
       Tsk(8, {On("MemGet", NoName), On("MemPut", NoName), On("MboxPost", "b"),
               On("MboxAccept", "b"), Call("MboxPendAbort", "b", "NONE")}) >>,
    << Obj("b", "MBOX", Null), Obj("pool", "MEM", Null) >>,
    {Call("MboxPost", "b", Notice)}, {})

Notices == Program(
    << Tsk(3, {Call("MboxPend", "b", 1), Delay(2)}),
       Tsk(7, {Call("MboxPend", "b", 0), Delay(1)}),
       Tsk(8, {Call("MboxPostOpt", "b", {"BROADCAST"}),
               Call("MboxPostOpt", "b", {"NO_SCHED"}),
               Call("MboxDel", "b", "ALWAYS"), Call("MboxDel", "b", "NO_PEND"),
               Call("MboxCreate", "b", Null)}) >>,
    << Obj("b", "MBOX", Null) >>, {}, {})

Queues == Program(
    << Tsk(3, {Call("QPend", "q", 1), On("MemPut", NoName)}),
       Tsk(7, {On("MemGet", NoName), On("QPost", "q"), Delay(1)}),
       Tsk(8, {On("MemGet", NoName), On("MemPut", NoName), On("QPostFront", "q"),
               On("QAccept", "q")}) >>,
    << Obj("q", "Q", Null), Obj("pool", "MEM", Null) >>,
    {Call("QPost", "q", Notice)}, {})

QueueNotices == Program(
    << Tsk(3, {Call("QPend", "q", 1), Delay(2)}),
       Tsk(7, {Call("QPend", "q", 0), Delay(1)}),
       Tsk(8, {Call("QPostOpt", "q", {"FRONT"}), Call("QPostOpt", "q", {"BROADCAST"}),
               Call("QPostOpt", "q", {"NO_SCHED"}), On("QFlush", "q"),
               Call("QDel", "q", "ALWAYS"), Call("QPendAbort", "q", "BROADCAST"),
               On("QCreate", "q"), On("QCreate", "q2")}) >>,
    << Obj("q", "Q", Null), Obj("q2", "NONE", Null) >>, {}, {})

Want(flags, type, consume, timeout) ==
    [flags |-> flags, type |-> type, consume |-> consume, timeout |-> timeout]
Flag(name, flags, opt) == Call("FlagPost", name, [flags |-> flags, opt |-> opt])

EventFlags == Program(
    << Tsk(3, {Call("FlagPend", "g", Want({"a"}, "SET_ANY", TRUE, 1)),
               Delay(2)}),
       Tsk(7, {Call("FlagPend", "g", Want({"a", "b"}, "SET_ALL", TRUE, 0)),
               Call("FlagPend", "g", Want({"b"}, "CLR_ANY", FALSE, 0)), Delay(1)}),
       Tsk(8, {Flag("g", {"b"}, "SET"), Flag("g", {"a", "b"}, "CLR"),
               Call("FlagAccept", "g", Want({"b"}, "SET_ALL", TRUE, 0)),
               Call("FlagDel", "g", "ALWAYS"), Call("FlagDel", "g", "NO_PEND"),
               Call("FlagCreate", "g", {})}) >>,
    << Obj("g", "FLAG", {}) >>, {Flag("g", {"a"}, "SET")}, {})

Several(timeout) ==
    Call("PendMulti", NoName, [objs |-> {"s", "b", "q"}, timeout |-> timeout])

MultiProgram == Program(
    << Tsk(3, {Several(0), Several(1)}),
       Tsk(7, {Call("SemPend", "s", 1), Call("QPend", "q", 0), Delay(1)}),
       Tsk(8, {On("SemPost", "s"), Call("MboxPendAbort", "b", "NONE")}) >>,
    << Obj("s", "SEM", 0), Obj("b", "MBOX", Null), Obj("q", "Q", Null) >>,
    {Call("MboxPost", "b", Notice), Call("QPost", "q", Notice)}, {})

Reprioritise(old, new) == Call("TaskChangePrio", NoName, [prio |-> old, new |-> new])

(* Whoever changes the priority of another task is also the only one that  *)
(* posts to it: see Reprioritised below.                                   *)
Priorities == Program(
    << Tsk(3, {Several(0), Several(1), Call("SemPend", "s", 1), Delay(1)}),
       Tsk(7, {Call("SemPend", "s", 0), Reprioritise(Self, 6), Reprioritise(Self, 7)}),
       Tsk(8, {On("SemPost", "s"), Call("QPostFront", "q", Notice),
               Reprioritise(3, 9), Reprioritise(9, 3)}) >>,
    << Obj("s", "SEM", 0), Obj("b", "MBOX", Null), Obj("q", "Q", Null) >>, {}, {})

Worker == {Delay(2), Call("FlagPend", "g", Want({"a"}, "SET_ANY", FALSE, 0)),
           Prioritied("TaskObeys", Self)}

TaskProgram == Program(
    << Tsk(3, {Call("SemPend", "s", 1)}),
       Tsk(7, {Call("SemPend", "s", 0)}),
       Tsk(8, {Call("TaskCreate", NoName, [prio |-> 5, menu |-> Worker]),
               Call("TaskCreate", NoName, [prio |-> 6, menu |-> {}]),
               Prioritied("TaskDel", 5), Prioritied("TaskDelReq", 5)}) >>,
    << Obj("s", "SEM", 0), Obj("g", "FLAG", {}) >>, {On("SemPost", "s")}, {})

Suspensions == Program(
    << Tsk(3, {Call("SemPend", "s", 0), Call("SemPend", "s", 2), Delay(2)}),
       Tsk(7, {Prioritied("TaskSuspend", Self)}),
       Tsk(8, {Prioritied("TaskSuspend", 3), Prioritied("TaskResume", 3),
               Prioritied("TaskSuspend", 9), Prioritied("TaskResume", 9),
               Prioritied("TaskResume", 7), Prioritied("TimeDlyResume", 3)}) >>,
    << Obj("s", "SEM", 0) >>, {On("SemPost", "s")}, {})

LibraryCalls ==
    {On("LibLock", "heap"), On("LibUnlock", "heap"), On("LibLock", "env"),
     On("LibUnlock", "env")}

LibraryProgram == Program(
    << Tsk(3, LibraryCalls \cup {Delay(1)}), Tsk(8, LibraryCalls) >>,
    << Obj("env", "SEM", 1), Obj("heap", "SEM", 1) >>, {}, Libraries)

Chars(op, n, fd) == Call(op, NoName, [n |-> n, fd |-> fd])
SetFlags(fd, flags) == Call("Fcntl", NoName, [fd |-> fd, flags |-> flags])
OpenAt(dev, flags, most) ==
    Call("Open", NoName, [dev |-> dev, flags |-> flags, most |-> most])
Control(req) == Call("Ioctl", NoName, [fd |-> Own, req |-> req, timeout |-> 0])
Shut == Call("Close", NoName, [fd |-> Own])

ConsoleObjects ==
    << Obj("read_lock", "SEM", 1), Obj("write_lock", "SEM", 1), Obj("uart", "FLAG", {}) >>

ConsoleProgram(tasks, host) ==
    [Program(tasks, ConsoleObjects, {}, Consoles) EXCEPT !.host = host]

Writer == ConsoleProgram(
    << Tsk(3, {Chars("Write", 1, StdOut)}) >>, {"takes", "silent"})

Writers == ConsoleProgram(
    << Tsk(3, {Chars("Write", 2, StdOut)}), Tsk(8, {Chars("Write", 3, StdErr)}) >>,
    {"takes"})

Readers == ConsoleProgram(
    << Tsk(3, {Chars("Read", 2, StdIn)}), Tsk(8, {Chars("Read", 1, StdIn)}) >>,
    {"types"})

(* A task that does not wait while its descriptor says so.                 *)
AtOnce(op, fd, host) == ConsoleProgram(
    << Tsk(3, {Chars(op, 2, fd), SetFlags(fd, {"NONBLOCK"}), SetFlags(fd, {})}) >>, host)

Session(host) == [Program(
    << Tsk(3, {OpenAt("console", {"WRONLY"}, 1), Chars("Write", 1, Own),
               Chars("Read", 1, Own), Control("TIMEOUT"), Control("EXCL"), Shut}) >>,
    ConsoleObjects \o << Obj("fd_lock", "SEM", 1) >>, {}, Consoles \cup {"fd_lock"})
  EXCEPT !.host = host]

FileProgram == Program(
    << Tsk(3, {OpenAt("video", {}, 2), Control("EXCL"), Shut, Delay(1)}),
       Tsk(8, {OpenAt("video", {}, 2), OpenAt("missing", {}, 1), Control("EXCL"),
               Control("NXCL"), Shut}) >>,
    << Obj("fd_lock", "SEM", 1) >>, {}, {"fd_lock"})

-----------------------------------------------------------------------------
(* Two programs that no rule of the application forbids until they go      *)
(* wrong.  A task changes the priority of one that waits while an          *)
(* interrupt posts to it; and the owner of a mutex waits for a semaphore   *)
(* with a timeout.                                                         *)

Reprioritised == Program(
    << Tsk(7, {Reprioritise(8, 3), Delay(1)}), Tsk(8, {Call("SemPend", "s", 0)}) >>,
    << Obj("s", "SEM", 0) >>, {On("SemPost", "s")}, {})

RaisedOwner == [Program(
    << Tsk(3, {Delay(1), Call("MutexPend", "m", 0)}),
       Tsk(8, {Call("MutexPend", "m", 0), Call("SemPend", "s", 1)}) >>,
    << Obj("m", "MUTEX", 2), Obj("s", "SEM", 0) >>, {}, {"m"})
  EXCEPT !.strict = FALSE]

MCUndisciplined == {Reprioritised, RaisedOwner}

MCFilePrograms == {FileProgram}

-----------------------------------------------------------------------------

MCPrograms ==
    {Semaphores, Signals, MutexProgram, MutexDeletion, Mailboxes, Notices,
     Queues, QueueNotices, EventFlags, MultiProgram, Priorities, TaskProgram, Suspensions,
     LibraryProgram, Writer, Writers, Readers,
     AtOnce("Write", StdOut, {"takes"}), AtOnce("Read", StdIn, {"types"}),
     Session({"takes"}), Session({"silent"}), FileProgram}
=============================================================================
