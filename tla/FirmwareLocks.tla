---------------------------- MODULE FirmwareLocks ----------------------------
(***************************************************************************)
(* Why the locks exclude: a semaphore that guards a resource has one token,*)
(* which is in its count, with the task that took it, or on its way to the *)
(* task that a post has readied.  The HAL takes its locks without looking  *)
(* at the result of OSSemPend and gives them back at the end of the call,  *)
(* so that the token is kept only because nobody aborts those waits and    *)
(* they have no timeout.  And what the locks of the console give: the      *)
(* characters in its rings are in order, and a call copies what it found.  *)
(***************************************************************************)
EXTENDS FirmwareInv

SemCalls == {"SemAccept", "SemPend", "SemPost", "SemPendAbort", "SemSet"}

(* The locks of the HAL that an application does not know.                 *)
HalLocks == Consoles \cup {"fd_lock"}

(* The owned semaphores begin with one token, are posted only by those that*)
(* took them and are neither set nor among several that are waited for;    *)
(* the locks that the HAL uses are owned and the HAL's alone.              *)
Guarded(p) ==
    /\ NoName \notin p.owned
    /\ \A n \in p.owned : \E i \in DOMAIN p.objects :
         p.objects[i].name = n /\ p.objects[i].type = "SEM" /\ p.objects[i].arg = 1
    /\ \A c \in CallsOf(p) :
         /\ c.obj \in p.owned =>
              c.op \in {"SemAccept", "SemPend", "SemPost", "SemPendAbort"} \cup LibOps
         /\ c.op \in EventOps => c.obj \notin HalLocks
         /\ c.op = "PendMulti" => c.arg.objs \cap p.owned = {}
         /\ c.op \in {"Open", "Ioctl"} => "fd_lock" \in p.owned
         /\ c.op \in {"Read", "Write"} => Consoles \subseteq p.owned
    /\ \A c \in p.isr : c.obj \notin p.owned

GuardedPrograms == {p \in PlainPrograms : Guarded(p)}

-----------------------------------------------------------------------------

(* The task waits, or has waited, for a semaphore, or calls it.            *)
SemAt(me) == (me.pc # << >> /\ Head(me.pc) \in SemCalls) \/ WaitOf(me) = "SemPended"
ManyAt(me) ==
    (me.pc # << >> /\ Head(me.pc) = "PendMulti") \/ WaitOf(me) = "MultiPended"

Got(k, t) == k.tcb[t].pend = "OK" /\ "SEM" \notin k.tcb[t].stat

(* The tasks that a post has given the token of n and that have not run.   *)
Heir(k, me, t, n) == WaitOf(me) = "SemPended" /\ me.obj = n /\ Got(k, t)
Holder(me, n) == n \in me.owns

(* One place has the token: the count or, when that is zero, one task.     *)
TokenOK(n) ==
    LET Has(t) == Holder(run[t], n)
        Gets(t) == Heir(os, run[t], t, n)
        cnt == os.event[obj[n]].cnt IN
    \/ cnt = 1 /\ \A t \in Tcb : ~Has(t) /\ ~Gets(t)
    \/ cnt = 0 /\ \E t \in Tcb : /\ Has(t) <=> ~Gets(t)
                                 /\ \A u \in Tcb \ {t} : ~Has(u) /\ ~Gets(u)

(* The lock that a task must have when it gets to a label.                 *)
LockFor(l) ==
    CASE l \in {"GetFd", "MaxFd", "FdLock"} -> "fd_lock"
      [] l \in {"WriteLook", "WriteCopy", "WriteStart", "WriteWoken"} -> "write_lock"
      [] l \in {"ReadLook", "ReadCopy", "ReadDone", "ReadWoken"} -> "read_lock"
      [] OTHER -> NoName

(* The task is to be given lock n, whatever happens.                       *)
Obtains(k, me, t, n) ==
    /\ me.obj = n
    /\ \/ me.pc # << >> /\ Head(me.pc) = "SemPend" /\ me.arg = 0
       \/ WaitOf(me) = "SemPended" /\ k.tcb[t].pend = "OK" /\ k.tcb[t].dly = 0

Entitled(owned, k, me, t) ==
    \A i \in DOMAIN me.pc :
      LET n == LockFor(me.pc[i]) IN
      n # NoName => n \in owned /\ (n \in me.owns \/ Obtains(k, me, t, n))

(* The steps of the library and the HAL, which call nothing but the kernel *)
(* and so are the last of a stack.                                         *)
HalSteps == LibLabels \cup LibOps \cup IoOps \cup (Conts \ {"FreeFd"})
              \cup {"MaxFd", "FileLocked", "WriteCopy", "WriteStart", "ReadCopy",
                    "ReadDone"}

Shallow(me) == \A i \in DOMAIN me.pc : me.pc[i] \in HalSteps => i = Len(me.pc)

(* Who posts an owned semaphore has it and needs it no more, and what a    *)
(* call addresses through the handles h is the semaphore of that name.     *)
Rightful(owned, h, me) ==
    /\ me.pc # << >> =>
         /\ Head(me.pc) \in {"SemPost", "LibUnlock"} /\ me.obj \in owned =>
              /\ me.obj \in me.owns
              /\ \A i \in DOMAIN me.pc : LockFor(me.pc[i]) # me.obj
         /\ Head(me.pc) = "SemSet" => me.obj \notin owned
         /\ Head(me.pc) = "SemPendAbort" => me.obj \notin HalLocks
         /\ Head(me.pc) \in {"Open", "Ioctl"} => "fd_lock" \in owned
         /\ Head(me.pc) \in {"Read", "Write"} => Consoles \subseteq owned
    /\ SemAt(me) => \A n \in owned : me.obj = n <=> me.ev = h[n]
    /\ ManyAt(me) => \A n \in owned : h[n] \notin me.ev

(* No other handle is the semaphore's.                                     *)
OneHandle(n) ==
    /\ obj[n] \in Ecb /\ os.event[obj[n]].type = "SEM"
    /\ \A m \in Names(prog) \ GroupNames(prog) : obj[m] = obj[n] => m = n

(* The inductive invariant of the locks, beside IInv.                      *)
LocksOK ==
    /\ \A n \in prog.owned : obj[n] # Null => OneHandle(n) /\ TokenOK(n)
    /\ \A t \in Tcb : /\ Entitled(prog.owned, os, run[t], t)
                      /\ Rightful(prog.owned, obj, run[t])
                      /\ Shallow(run[t])
    /\ ~Running => /\ \A t \in Tcb : run[t].owns = {}
                   /\ \A m \in Names(prog) \ GroupNames(prog) :
                        obj[m] # Null => os.event[obj[m]].type # "UNUSED"

-----------------------------------------------------------------------------
(* What the locks of the console give: the rings in order, and what a call *)
(* has looked at still true when it copies.                                *)

(* The written characters from the last one the host took, and the typed   *)
(* ones that nobody has read.                                              *)
Sent(u) == << u.shown >> \o u.txFifo \o Unsent(u)
Unread(u) == Received(u) \o u.rxFifo
Newest(u) == Sent(u)[Len(Sent(u))]

InOrder(u) ==
    /\ \A i \in 1 .. Len(Sent(u)) - 1 : Follows(Sent(u)[i], Sent(u)[i + 1])
    /\ u.typed \in 0 .. RxMod - 1
    /\ \A i \in 1 .. Len(Unread(u)) :
         Unread(u)[i] = (u.typed - 1 - Len(Unread(u)) + i) % RxMod

Under(me, lock) == \E i \in DOMAIN me.pc : LockFor(me.pc[i]) = lock

(* How many characters a call found in its ring.                           *)
Found(io) == (io.in - io.out) % BufLen

(* A call that has written something has the lock and wrote the newest     *)
(* character; what it found in its ring may only have become less when it  *)
(* writes, and more when it reads.                                         *)
CallInOrder(u, me, t) ==
    /\ me.pc = << >> \/ Head(me.pc) \in {"Read", "Write"} => me.io.next = 0
    /\ Under(me, "read_lock") => me.io.left >= 0
    /\ Under(me, "write_lock") /\ me.io.next # 0 =>
         "write_lock" \in me.owns /\ Newest(u) = [by |-> t, i |-> me.io.next]
    /\ me.pc # << >> /\ Head(me.pc) = "WriteCopy" =>
         me.io.in = u.txIn /\ me.io.left > 0 /\ Len(Unsent(u)) <= Found(me.io)
    /\ me.pc # << >> /\ Head(me.pc) = "ReadCopy" =>
         me.io.out = u.rxOut /\ Found(me.io) <= Len(Received(u))

RingsOK == InOrder(uart) /\ \A t \in Tcb : CallInOrder(uart, run[t], t)

(* What a lock guards one task at a time is in the middle of: a write or a *)
(* read of the console, and a change of the table of descriptors           *)
(* (altera_avalon_jtag_uart_write.c:98-197 and _read.c:113-186,            *)
(* alt_get_fd.c:64-98, alt_fd_lock.c:59-73).                               *)
LocksExclude ==
    \A t, u \in Tcb :
      /\ run[t].pc # << >> /\ run[u].pc # << >>
      /\ LockFor(Head(run[t].pc)) = LockFor(Head(run[u].pc))
      /\ LockFor(Head(run[t].pc)) # NoName
      => t = u

(* In every program whose locks are guarded the invariant holds: a post, an*)
(* abort, a time-out, an interrupt or a creation, whatever comes between   *)
(* two steps of a call (os_sem.c:281-484), leaves each token in one place  *)
(* and nobody past a lock without it; and the handler of the UART, whatever*)
(* it moves meanwhile, leaves the rings so that a call copies what it      *)
(* looked at (altera_avalon_jtag_uart_write.c:98-197, _read.c:113-186).    *)
GuardedInOrder == prog \in GuardedPrograms => LocksOK /\ RingsOK
=============================================================================
