-------------------------------- MODULE OsQ --------------------------------
(***************************************************************************)
(* Message queues (os_q.c): an event control block whose OSEventPtr is an  *)
(* OS_Q, a ring of message pointers in an array of the application's.      *)
(***************************************************************************)
EXTENDS OsCore

CONSTANT QSize                   \* entries of the array given to OSQCreate

ASSUME QAssumption == QSize \in Nat \ {0}

OS_QInit == [queue |-> [q \in Qcb |-> NewRing(QSize, Null)],
             freeQ |-> [q \in Qcb |-> q]]

(* OSQCreate takes an event control block in its first critical section    *)
(* and an OS_Q in its second, and puts the first back when there is none.  *)
OSQCreate(k) ==
    IF k.freeEvent = << >> THEN Fails(k)
    ELSE [Returns([k EXCEPT !.freeEvent = Tail(@)], Head(k.freeEvent))
            EXCEPT !.cont = << "QCreateRing" >>]

QCreateRing(k, e) ==
    IF k.freeQ = << >>
    THEN Fails([k EXCEPT !.freeEvent = << e >> \o @])
    ELSE Returns([k EXCEPT
                    !.freeQ = Tail(@),
                    !.queue[Head(k.freeQ)] = NewRing(QSize, Null),
                    !.event[e] = [type |-> "Q", cnt |-> 0, pip |-> 0,
                                  ptr |-> Head(k.freeQ), wait |-> NoBits]], e)

TheRing(k, e) == k.queue[k.event[e].ptr]

Take(k, e) ==
    Gives([k EXCEPT !.queue[k.event[e].ptr] = TakeFront(@)], {Front(TheRing(k, e))})

OSQAccept(k, e) == IF TheRing(k, e).entries > 0 THEN Take(k, e) ELSE Fails(k)

OSQDel(k, e, opt) ==
    LET q == k.event[e].ptr
        r == DeleteEvent(k, e, opt, "Q")
    IN IF r.ok THEN [r EXCEPT !.k.freeQ = << q >> \o @] ELSE r

OSQFlush(k, e) == Done([k EXCEPT !.queue[k.event[e].ptr] = FlushRing(@)])

OSQPend(k, e, timeout) ==
    IF TheRing(k, e).entries > 0
    THEN Take(k, e)
    ELSE Blocks(OS_EventTaskWait(StartsToWait(k, {"Q"}, timeout), e), "QPended")

QPended(k, e) ==
    LET c == k.tcb[k.cur] IN
    [Gives([AfterWait(k, e) EXCEPT !.tcb[k.cur].msg = Null],
           IF c.pend = "OK" THEN {c.msg} \ {Null} ELSE {})
       EXCEPT !.ok = (c.pend = "OK")]

OSQPendAbort(k, e, opt) == AbortPend(k, e, opt, "Q")

(* A message for a queue nobody waits for, at the back or at the front.    *)
Enqueue(k, e, msg, front) ==
    IF Full(TheRing(k, e)) THEN Fails(k)                \* OS_ERR_Q_FULL
    ELSE Done([k EXCEPT !.queue[k.event[e].ptr] =
                 IF front THEN PutFront(@, msg) ELSE PutBack(@, msg)])

OSQPost(k, e, msg) ==
    IF Waiting(k, e)
    THEN Reschedules(OS_EventTaskRdy(k, e, msg, "Q", "OK"))
    ELSE Enqueue(k, e, msg, FALSE)

OSQPostFront(k, e, msg) ==
    IF Waiting(k, e)
    THEN Reschedules(OS_EventTaskRdy(k, e, msg, "Q", "OK"))
    ELSE Enqueue(k, e, msg, TRUE)

(* opt is the set of the options BROADCAST, FRONT and NO_SCHED.            *)
OSQPostOpt(k, e, msg, opt) ==
    LET k1 == IF "BROADCAST" \in opt THEN RdyAll(k, e, msg, "Q", "OK")
              ELSE OS_EventTaskRdy(k, e, msg, "Q", "OK")
    IN CASE ~Waiting(k, e) -> Enqueue(k, e, msg, "FRONT" \in opt)
         [] Waiting(k, e) /\ "NO_SCHED" \in opt -> Done(k1)
         [] Waiting(k, e) /\ "NO_SCHED" \notin opt -> Reschedules(k1)
=============================================================================
