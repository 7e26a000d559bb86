------------------------------- MODULE OsFlag -------------------------------
(***************************************************************************)
(* Event flag groups (os_flag.c).  A task that waits has a node in the     *)
(* group's list; the node is on the task's stack and the task's control    *)
(* block points to it, so a node is the field node of its task, and the    *)
(* list, whose order decides nothing, is the set of the tasks in it.       *)
(***************************************************************************)
EXTENDS OsCore

OS_FlagInit ==
    [flag |-> [g \in Fgp |-> [type |-> "UNUSED", flags |-> {}, wait |-> {}]],
     freeFlag |-> [g \in Fgp |-> g]]

ForSet == {"SET_ALL", "SET_ANY"}
ForAll == {"SET_ALL", "CLR_ALL"}

FlagsRdy(flags, want, type) ==
    IF type \in ForSet THEN flags \cap want ELSE want \ flags

Satisfied(flags, want, type) ==
    IF type \in ForAll THEN FlagsRdy(flags, want, type) = want
                       ELSE FlagsRdy(flags, want, type) # {}

Consumed(flags, rdy, type) ==
    IF type \in ForSet THEN flags \ rdy ELSE flags \cup rdy

OSFlagCreate(k, flags) ==
    IF k.freeFlag = << >> THEN Fails(k)
    ELSE Returns([k EXCEPT
                    !.freeFlag = Tail(@),
                    !.flag[Head(k.freeFlag)] =
                       [type |-> "FLAG", flags |-> flags, wait |-> {}]],
                 Head(k.freeFlag))

(* c is the call: the flags wanted, the wait type and OS_FLAG_CONSUME.     *)
TakeFlags(k, g, c) ==
    LET rdy == FlagsRdy(k.flag[g].flags, c.flags, c.type) IN
    IF c.consume THEN [k EXCEPT !.flag[g].flags = Consumed(@, rdy, c.type)] ELSE k

OSFlagAccept(k, g, c) ==
    IF Satisfied(k.flag[g].flags, c.flags, c.type) THEN Done(TakeFlags(k, g, c))
                                                   ELSE Fails(k)

OS_FlagBlock(k, g, c) ==
    LET t == k.cur IN
    Unready([StartsToWait(k, {"FLAG"}, c.timeout) EXCEPT
               !.tcb[t].node = [grp |-> g, flags |-> c.flags, type |-> c.type],
               !.flag[g].wait = @ \cup {t}], t)

OS_FlagUnlink(k, t) ==
    [k EXCEPT !.flag[k.tcb[t].node.grp].wait = @ \ {t}, !.tcb[t].node = NoNode]

OSFlagPend(k, g, c) ==
    IF Satisfied(k.flag[g].flags, c.flags, c.type)
    THEN Done([TakeFlags(k, g, c) EXCEPT !.tcb[k.cur].flagsRdy =
                 FlagsRdy(k.flag[g].flags, c.flags, c.type)])
    ELSE Blocks(OS_FlagBlock(k, g, c), "FlagPended")

(* The flags that ended the wait are consumed only now, when the task runs.*)
FlagPended(k, g, c) ==
    LET t == k.cur
        k1 == [OS_FlagUnlink(k, t) EXCEPT !.tcb[t].pend = "OK", !.tcb[t].stat = {}]
        k2 == [k EXCEPT !.flag[g].flags = Consumed(@, k.tcb[t].flagsRdy, c.type)]
    IN CASE k.tcb[t].pend # "OK" -> Fails(k1)
         [] k.tcb[t].pend = "OK" /\ c.consume -> Done(k2)
         [] k.tcb[t].pend = "OK" /\ ~c.consume -> Done(k)

(* OS_FlagTaskRdy for every task of S, with the flags rdy[t]: a task that  *)
(* is suspended too does not become ready.                                 *)
OS_FlagTaskRdy(k, g, S, rdy) ==
    LET k1 == [k EXCEPT
            !.flag[g].wait = @ \ S,
            !.tcb = [t \in Tcb |->
                IF t \in S THEN [k.tcb[t] EXCEPT !.dly = 0, !.flagsRdy = rdy[t],
                                                 !.stat = @ \ {"FLAG"}, !.pend = "OK",
                                                 !.node = NoNode]
                           ELSE k.tcb[t]]]
    IN ReadyAll(k1, {t \in S : k1.tcb[t].stat = {}})

OSFlagPost(k, g, flags, opt) ==
    LET now == IF opt = "SET" THEN k.flag[g].flags \cup flags
                              ELSE k.flag[g].flags \ flags
        Met == {t \in k.flag[g].wait :
                  Satisfied(now, k.tcb[t].node.flags, k.tcb[t].node.type)}
        rdy == [t \in Met |-> FlagsRdy(now, k.tcb[t].node.flags, k.tcb[t].node.type)]
        k1 == OS_FlagTaskRdy([k EXCEPT !.flag[g].flags = now], g, Met, rdy)
    IN IF \E t \in Met : k1.tcb[t].stat = {} THEN Reschedules(k1) ELSE Done(k1)

OSFlagDel(k, g, opt) ==
    LET Waiters == k.flag[g].wait
        k1 == [OS_FlagTaskRdy(k, g, Waiters, [t \in Waiters |-> {}])
                 EXCEPT !.flag[g] = [@ EXCEPT !.type = "UNUSED", !.flags = {}],
                        !.freeFlag = << g >> \o @]
    IN CASE Waiters = {} -> Done(k1)
         [] Waiters # {} /\ opt = "NO_PEND" -> Fails(k)
         [] Waiters # {} /\ opt = "ALWAYS" -> Reschedules(k1)
=============================================================================
