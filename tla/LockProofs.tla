------------------------------ MODULE LockProofs ------------------------------
(***************************************************************************)
(* The locks exclude: in a program whose locks are guarded no step of a    *)
(* task, an interrupt or the tick makes a token or loses one, and nobody   *)
(* gets past a lock without its token.  So a task writes or reads the      *)
(* console with nobody but the interrupt handler and the alarm beside it,  *)
(* and what is in its rings stays in order.                                *)
(***************************************************************************)
EXTENDS FirmwareProofs, FirmwareLocks

-----------------------------------------------------------------------------
(* What a critical section does to those that wait for semaphores.  It     *)
(* answers tasks of U only where they wait for one of the events S, or for *)
(* flags, and changes the counts of none but S.                            *)

SameWait(c, d) ==
    d.pend = c.pend /\ d.dly = c.dly /\ ("SEM" \in d.stat <=> "SEM" \in c.stat)

Touches(k, j, U, S) ==
    /\ \A u \in U : \/ SameWait(k.tcb[u], j.tcb[u])
                    \/ Lists(k, u) \cap S # {} \/ Groups(k, u) # {}
    /\ \A e \in Ecb \ S : k.event[e].type = "SEM" => j.event[e].cnt = k.event[e].cnt

(* Who has been answered, and who will have been answered for certain.     *)
Sure(k, t) == k.tcb[t].pend = "OK" /\ k.tcb[t].dly = 0
StillGot(k, j, u) == (Got(j, u) <=> Got(k, u)) /\ (Sure(k, u) => Sure(j, u))

SemsKept(k, j, U, S) ==
    \A e \in Ecb \ S :
      /\ k.event[e].type = "SEM" => j.event[e].cnt = k.event[e].cnt
      /\ \A u \in U : WaitsForOne(k, u, "SEM", e) => StillGot(k, j, u)

LEMMA TouchesKeeps ==
  ASSUME NEW k, NEW j, NEW U, NEW S, Touches(k, j, U, S)
  PROVE  SemsKept(k, j, U, S)
<1>1. ASSUME NEW e \in Ecb \ S, NEW u \in U, WaitsForOne(k, u, "SEM", e)
      PROVE  StillGot(k, j, u)
  <2>1. Lists(k, u) \cap S = {} /\ Groups(k, u) = {}
    BY <1>1 DEF WaitsForOne
  <2>2. SameWait(k.tcb[u], j.tcb[u])
    BY <2>1 DEF Touches
  <2> QED
    BY <2>2 DEF SameWait, StillGot, Got, Sure
<1> QED
  BY <1>1 DEF SemsKept, Touches

(* One section after another.                                              *)
LEMMA KeptThen ==
  ASSUME NEW k, NEW i, NEW j, NEW U, NEW S, SemsKept(k, i, U, S), SemsKept(i, j, U, S),
         KeepsTypes(k, i), Undisturbed(k, i, U)
  PROVE  SemsKept(k, j, U, S)
<1>1. ASSUME NEW e \in Ecb \ S, NEW u \in U, WaitsForOne(k, u, "SEM", e)
      PROVE  StillGot(k, j, u)
  <2>1. TaskOK(k, u, "SemPended", e)
    BY <1>1 DEF TaskOK, KindOf
  <2>2. WaitsForOne(i, u, "SEM", e)
    BY <2>1 DEF Undisturbed, TaskOK, KindOf
  <2> QED
    BY <1>1, <2>2 DEF SemsKept, StillGot
<1>2. ASSUME NEW e \in Ecb \ S, k.event[e].type = "SEM"
      PROVE  j.event[e].cnt = k.event[e].cnt
  BY <1>2 DEF SemsKept, KeepsTypes
<1> QED
  BY <1>1, <1>2 DEF SemsKept

LEMMA SameTouches ==
  ASSUME NEW k, NEW j, NEW U, NEW S, j.tcb = k.tcb,
         \A e \in Ecb \ S : k.event[e].type = "SEM" => j.event[e].cnt = k.event[e].cnt
  PROVE  Touches(k, j, U, S)
  BY DEF Touches, SameWait

LEMMA AnswersTouches ==
  ASSUME NEW k, NEW j, NEW e \in Ecb, NEW T, \A u \in T : e \in Lists(k, u),
         NEW msk, NEW pend, Answers(k, j, e, T, msk, pend), NEW U \in SUBSET Tcb
  PROVE  Touches(k, j, U, {e})
<1>1. ASSUME NEW u \in U
      PROVE  SameWait(k.tcb[u], j.tcb[u]) \/ Lists(k, u) \cap {e} # {}
  BY DEF Answers, SameWait
<1> QED
  BY <1>1 DEF Answers, Touches

LEMMA RdyOneAnswers ==
  ASSUME NEW k, Sound(k), NEW e \in Ecb, Waiting(k, e), NEW msg \in Int,
         NEW msk, NEW pend \in {"OK", "ABORT"}
  PROVE  \E u \in k.list : /\ e \in Lists(k, u)
                           /\ Answers(k, OS_EventTaskRdy(k, e, msg, msk, pend), e, {u}, msk, pend)
<1> DEFINE u == k.prioTbl[HighestPrio(k.event[e].wait)]
           T == {u}
           j == TasksRdy(k, e, T, msg, msk, pend)
<1>1. k \in Kernel /\ BitsOK(k) /\ Consistent(k.event[e].wait)
  BY DEF Sound, BitsOK
<1>2. HighestPrio(k.event[e].wait) \in Bits(k.event[e].wait)
  BY <1>1, GroupTells, HighestIsLeast DEF Waiting
<1>3. u \in k.list /\ e \in Lists(k, u)
  BY <1>2, Waiters0
<1> HIDE DEF u
<1>4. T \in SUBSET Tcb
  BY <1>1, <1>3, Fields
<1> HIDE DEF T
<1>5. Answers(k, j, e, T, msk, pend)
  BY <1>1, <1>4, TasksRdyAnswers
<1>6. j = OS_EventTaskRdy(k, e, msg, msk, pend)
  BY DEF OS_EventTaskRdy, T, u
<1> QED
  BY <1>3, <1>5, <1>6 DEF T

LEMMA RdyAllAnswers ==
  ASSUME NEW k, Sound(k), NEW e \in Ecb, NEW msg \in Int, NEW msk, NEW pend \in {"OK", "ABORT"}
  PROVE  \E T \in SUBSET k.list :
           /\ \A u \in T : e \in Lists(k, u)
           /\ Answers(k, RdyAll(k, e, msg, msk, pend), e, T, msk, pend)
<1> DEFINE T == {k.prioTbl[p] : p \in Bits(k.event[e].wait)}
           j == TasksRdy(k, e, T, msg, msk, pend)
<1>1. k \in Kernel /\ BitsOK(k)
  BY DEF Sound
<1>2. T \in SUBSET k.list /\ \A u \in T : e \in Lists(k, u)
  BY Waiters0
<1>3. T \in SUBSET Tcb
  BY <1>1, <1>2, Fields
<1> HIDE DEF T
<1>4. Answers(k, j, e, T, msk, pend)
  BY <1>1, <1>3, TasksRdyAnswers
<1>5. j = RdyAll(k, e, msg, msk, pend)
  BY DEF RdyAll, T
<1> QED
  BY <1>2, <1>4, <1>5

LEMMA RdyTouches ==
  ASSUME NEW k, Sound(k), NEW e \in Ecb, NEW msg \in Int, NEW msk, NEW pend \in {"OK", "ABORT"}
  PROVE  /\ Waiting(k, e) =>
              Touches(k, OS_EventTaskRdy(k, e, msg, msk, pend), k.list, {e})
         /\ Touches(k, RdyAll(k, e, msg, msk, pend), k.list, {e})
<1>1. k.list \in SUBSET Tcb
  BY Fields DEF Sound
<1>2. ASSUME Waiting(k, e)
      PROVE  Touches(k, OS_EventTaskRdy(k, e, msg, msk, pend), k.list, {e})
  <2> DEFINE j == OS_EventTaskRdy(k, e, msg, msk, pend)
  <2>1. PICK u \in k.list : e \in Lists(k, u) /\ Answers(k, j, e, {u}, msk, pend)
    BY <1>2, RdyOneAnswers
  <2> HIDE DEF j
  <2>2. Touches(k, j, k.list, {e})
    BY <1>1, <2>1, AnswersTouches
  <2> QED
    BY <2>2 DEF j
<1>3. Touches(k, RdyAll(k, e, msg, msk, pend), k.list, {e})
  <2> DEFINE j == RdyAll(k, e, msg, msk, pend)
  <2>1. PICK T \in SUBSET k.list : /\ \A u \in T : e \in Lists(k, u)
                                   /\ Answers(k, j, e, T, msk, pend)
    BY RdyAllAnswers
  <2> HIDE DEF j
  <2>2. Touches(k, j, k.list, {e})
    BY <1>1, <2>1, AnswersTouches
  <2> QED
    BY <2>2 DEF j
<1> QED
  BY <1>2, <1>3

(* Only the caller is touched.                                             *)
LEMMA CurTouches ==
  ASSUME NEW k \in Kernel, NEW j, \A u \in Tcb : u # k.cur => j.tcb[u] = k.tcb[u], NEW S,
         \A e \in Ecb \ S : k.event[e].type = "SEM" => j.event[e].cnt = k.event[e].cnt
  PROVE  Touches(k, j, k.list \ {k.cur}, S)
  BY Fields DEF Touches, SameWait

LEMMA FewerTouched ==
  ASSUME NEW k, NEW j, NEW U, NEW V, V \subseteq U, NEW S, NEW R, S \subseteq R,
         Touches(k, j, U, S)
  PROVE  Touches(k, j, V, R)
  BY DEF Touches

LEMMA WaitTouches ==
  ASSUME NEW k, Idle(k), NEW stat \in SUBSET Statuses, NEW e \in Ecb, NEW timeout \in Nat
  PROVE  LET j == OS_EventTaskWait(StartsToWait(k, stat, timeout), e) IN
         /\ Touches(k, j, k.list \ {k.cur}, {})
<1> DEFINE i == StartsToWait(k, stat, timeout)
           j == OS_EventTaskWait(i, e)
<1>1. k \in Kernel /\ k.cur \in Tcb /\ k.event \in [Ecb -> EventType]
      /\ Consistent(k.rdy) /\ \A f \in Ecb : Consistent(k.event[f].wait)
  BY IdleFields, Sets
<1>2. /\ i \in Kernel /\ i.cur = k.cur /\ i.rdy = k.rdy /\ i.event = k.event
      /\ \A u \in Tcb : u # k.cur => i.tcb[u] = k.tcb[u]
  BY <1>1, StartsToWaitFields DEF SameRest
<1> HIDE DEF i
<1>3. /\ \A u \in Tcb : u # i.cur => j.tcb[u] = i.tcb[u]
      /\ \A f \in Ecb : f # e => j.event[f] = i.event[f]
      /\ j.event[e] = [i.event[e] EXCEPT !.wait = SetBit(@, i.tcb[i.cur].prio)]
  BY <1>1, <1>2, EventTaskWaitFields
<1> HIDE DEF j
<1>4. \A f \in Ecb : j.event[f].cnt = k.event[f].cnt
  BY <1>1, <1>2, <1>3 DEF EventType
<1>5. Touches(k, j, k.list \ {k.cur}, {})
  BY <1>1, <1>2, <1>3, <1>4, CurTouches
<1> QED
  BY <1>5 DEF j, i

(* Who comes back from a wait takes at most his own bits out.              *)
LEMMA AfterWaitTouches ==
  ASSUME NEW k, Sound(k), k.cur \in k.list, NEW e \in Ecb, NEW d,
         NEW j, j = [AfterWait(k, e) EXCEPT !.tcb = [k.tcb EXCEPT ![k.cur] = d]]
  PROVE  Touches(k, j, k.list \ {k.cur}, {})
<1>1. k \in Kernel /\ k.cur \in Tcb
  BY Fields DEF Sound
<1>2. \A u \in Tcb : u # k.cur => j.tcb[u] = k.tcb[u]
  BY <1>1, Sets DEF Kernel, AfterWait, EndsWait, OS_EventTaskRemove
<1>3. \A f \in Ecb : j.event[f].cnt = k.event[f].cnt
  <2>1. CASE k.tcb[k.cur].pend = "TO"
    <3>1. j.event = [k.event EXCEPT ![e].wait = ClearBit(@, k.tcb[k.cur].prio)]
      BY <1>1, <2>1 DEF Kernel, AfterWait, EndsWait, OS_EventTaskRemove
    <3> QED
      BY <1>1, <3>1, Sets DEF EventType
  <2>2. CASE k.tcb[k.cur].pend # "TO"
    BY <1>1, <2>2 DEF Kernel, AfterWait, EndsWait
  <2> QED
    BY <2>1, <2>2
<1> QED
  BY <1>1, <1>2, <1>3, CurTouches

-----------------------------------------------------------------------------
(* Mailboxes.                                                              *)

LEMMA PtrTouches ==
  ASSUME NEW k \in Kernel, NEW e \in Ecb, NEW m, NEW U, NEW S
  PROVE  Touches(k, [k EXCEPT !.event[e].ptr = m], U, S)
<1> DEFINE j == [k EXCEPT !.event[e].ptr = m]
<1>1. j.tcb = k.tcb
  BY DEF Kernel
<1>2. j.event = [k.event EXCEPT ![e].ptr = m]
  BY DEF Kernel
<1> HIDE DEF j
<1>3. \A f \in Ecb : j.event[f].cnt = k.event[f].cnt
  BY <1>2, Sets DEF EventType
<1>4. Touches(k, j, U, S)
  BY <1>1, <1>3, SameTouches
<1> QED
  BY <1>4 DEF j

LEMMA FillTouches ==
  ASSUME NEW k \in Kernel, NEW e \in Ecb, NEW m, NEW U, NEW S
  PROVE  /\ Touches(k, FillMbox(k, e, m).k, U, S)
         /\ Touches(k, OSMboxAccept(k, e).k, U, S)
<1>1. Touches(k, k, U, S)
  BY SameTouches
<1>2. Touches(k, [k EXCEPT !.event[e].ptr = m], U, S)
  BY PtrTouches
<1>3. Touches(k, [k EXCEPT !.event[e].ptr = Null], U, S)
  BY PtrTouches
<1> QED
  BY <1>1, <1>2, <1>3 DEF FillMbox, OSMboxAccept, Gives, Done, Fails

LEMMA MboxTouches ==
  ASSUME NEW k, Sound(k), NEW e \in Ecb, NEW m \in Int, NEW opt
  PROVE  /\ Touches(k, OSMboxPost(k, e, m).k, k.list, {e})
         /\ Touches(k, OSMboxPostOpt(k, e, m, opt).k, k.list, {e})
<1>1. Touches(k, FillMbox(k, e, m).k, k.list, {e})
  BY FillTouches DEF Sound
<1> DEFINE one == OS_EventTaskRdy(k, e, m, "MBOX", "OK")
           all == RdyAll(k, e, m, "MBOX", "OK")
<1>2. (Waiting(k, e) => Touches(k, one, k.list, {e})) /\ Touches(k, all, k.list, {e})
  BY RdyTouches
<1> HIDE DEF one, all
<1>3. Touches(k, OSMboxPost(k, e, m).k, k.list, {e})
  BY <1>1, <1>2 DEF OSMboxPost, Reschedules, Done, one
<1>4. Touches(k, OSMboxPostOpt(k, e, m, opt).k, k.list, {e})
  BY <1>1, <1>2 DEF OSMboxPostOpt, Reschedules, Done, one, all
<1> QED
  BY <1>3, <1>4

LEMMA AbortTouches ==
  ASSUME NEW k, Sound(k), NEW e \in Ecb, NEW opt \in {"NONE", "BROADCAST"}, NEW msk
  PROVE  Touches(k, AbortPend(k, e, opt, msk).k, k.list, {e})
<1> DEFINE one == OS_EventTaskRdy(k, e, Null, msk, "ABORT")
           all == RdyAll(k, e, Null, msk, "ABORT")
<1>0. Null \in Int
  BY DEF Null
<1>1. (Waiting(k, e) => Touches(k, one, k.list, {e})) /\ Touches(k, all, k.list, {e})
  BY <1>0, RdyTouches
<1>2. Touches(k, k, k.list, {e})
  BY SameTouches
<1> HIDE DEF one, all
<1> QED
  BY <1>1, <1>2 DEF AbortPend, Reschedules, Done, one, all

LEMMA MboxWaitTouches ==
  ASSUME NEW k, Idle(k), NEW e \in Ecb, NEW timeout \in Nat
  PROVE  Touches(k, OSMboxPend(k, e, timeout).k, k.list \ {k.cur}, {})
<1> DEFINE j == OS_EventTaskWait(StartsToWait(k, {"MBOX"}, timeout), e)
<1>1. {"MBOX"} \in SUBSET Statuses
  BY DEF Statuses, PendAny
<1>2. Touches(k, j, k.list \ {k.cur}, {})
  BY <1>1, WaitTouches
<1>3. Touches(k, OSMboxAccept(k, e).k, k.list \ {k.cur}, {})
  BY FillTouches DEF Idle, Sound
<1> HIDE DEF j
<1> QED
  BY <1>2, <1>3 DEF OSMboxPend, Blocks, Done, j

LEMMA AfterWaitFields ==
  ASSUME NEW k \in Kernel, k.cur \in Tcb, NEW e \in Ecb
  PROVE  LET i == AfterWait(k, e) IN
         /\ i.tcb = [k.tcb EXCEPT ![k.cur] = Ended(k.tcb[k.cur])]
         /\ \A f \in Ecb : i.event[f].cnt = k.event[f].cnt
         /\ LET j == [i EXCEPT !.tcb[k.cur].msg = Null] IN
            j.event = i.event /\ \A u \in Tcb : u # k.cur => j.tcb[u] = k.tcb[u]
<1> DEFINE i == AfterWait(k, e)
           h == OS_EventTaskRemove(k, k.cur, e)
<1>1. /\ i.tcb = [k.tcb EXCEPT ![k.cur] = Ended(k.tcb[k.cur])]
      /\ i.event = IF k.tcb[k.cur].pend = "TO" THEN h.event ELSE k.event
      /\ "tcb" \in DOMAIN i /\ "event" \in DOMAIN i
  BY Sets DEF Kernel, AfterWait, EndsWait, OS_EventTaskRemove
<1>2. h.event = [k.event EXCEPT ![e].wait = ClearBit(@, k.tcb[k.cur].prio)]
  BY DEF Kernel, OS_EventTaskRemove
<1> HIDE DEF i, h
<1>3. \A f \in Ecb : i.event[f].cnt = k.event[f].cnt
  BY <1>1, <1>2, Sets DEF EventType
<1>4. LET j == [i EXCEPT !.tcb[k.cur].msg = Null] IN
      j.event = i.event /\ \A u \in Tcb : u # k.cur => j.tcb[u] = k.tcb[u]
  <2> DEFINE j == [i EXCEPT !.tcb[k.cur].msg = Null]
  <2>1. j.event = i.event /\ j.tcb = [i.tcb EXCEPT ![k.cur].msg = Null]
    BY <1>1
  <2> QED
    BY <1>1, <2>1, Sets
<1> QED
  BY <1>1, <1>3, <1>4 DEF i

LEMMA MessageTouches ==
  ASSUME NEW k, Sound(k), k.cur \in k.list, NEW e \in Ecb
  PROVE  /\ Touches(k, SemPended(k, e).k, k.list \ {k.cur}, {})
         /\ Touches(k, MboxPended(k, e).k, k.list \ {k.cur}, {})
         /\ Touches(k, QPended(k, e).k, k.list \ {k.cur}, {})
<1>1. k \in Kernel /\ k.cur \in Tcb
  BY Fields DEF Sound
<1> DEFINE i == AfterWait(k, e)
           j == [i EXCEPT !.tcb[k.cur].msg = Null]
<1>2. /\ i.tcb = [k.tcb EXCEPT ![k.cur] = Ended(k.tcb[k.cur])]
      /\ \A u \in Tcb : u # k.cur => j.tcb[u] = k.tcb[u]
      /\ \A f \in Ecb : i.event[f].cnt = k.event[f].cnt
      /\ j.event = i.event
  BY <1>1, AfterWaitFields
<1>3. SemPended(k, e).k = i
  BY DEF SemPended, Done, i
<1>4. MboxPended(k, e).k = j /\ QPended(k, e).k = j
  BY DEF MboxPended, QPended, Gives, Done, j
<1> HIDE DEF i, j
<1>5. Touches(k, i, k.list \ {k.cur}, {}) /\ Touches(k, j, k.list \ {k.cur}, {})
  BY <1>1, <1>2, CurTouches, Sets
<1> QED
  BY <1>3, <1>4, <1>5

-----------------------------------------------------------------------------
(* Queues and memory.                                                      *)

LEMMA RingTouches ==
  ASSUME NEW k \in Kernel, NEW e \in Ecb, NEW ring, NEW U, NEW S
  PROVE  Touches(k, [k EXCEPT !.queue[k.event[e].ptr] = ring], U, S)
  BY SameTouches DEF Kernel

LEMMA EnqueueTouches ==
  ASSUME NEW k \in Kernel, NEW e \in Ecb, NEW m, NEW front, NEW U, NEW S
  PROVE  /\ Touches(k, Enqueue(k, e, m, front).k, U, S)
         /\ Touches(k, Take(k, e).k, U, S)
         /\ Touches(k, OSQFlush(k, e).k, U, S)
         /\ Touches(k, OSQAccept(k, e).k, U, S)
<1>1. Touches(k, k, U, S)
  BY SameTouches
<1>2. /\ Enqueue(k, e, m, front).k.tcb = k.tcb /\ Enqueue(k, e, m, front).k.event = k.event
      /\ Take(k, e).k.tcb = k.tcb /\ Take(k, e).k.event = k.event
      /\ OSQFlush(k, e).k.tcb = k.tcb /\ OSQFlush(k, e).k.event = k.event
  BY DEF Kernel, Enqueue, Take, OSQFlush, Gives, Done, Fails
<1>3. /\ Touches(k, Enqueue(k, e, m, front).k, U, S)
      /\ Touches(k, Take(k, e).k, U, S)
      /\ Touches(k, OSQFlush(k, e).k, U, S)
  BY <1>2, SameTouches
<1> QED
  BY <1>1, <1>3 DEF OSQAccept, Done, Fails

LEMMA QTouches ==
  ASSUME NEW k, Sound(k), NEW e \in Ecb, NEW m \in Int, NEW opt
  PROVE  /\ Touches(k, OSQPost(k, e, m).k, k.list, {e})
         /\ Touches(k, OSQPostFront(k, e, m).k, k.list, {e})
         /\ Touches(k, OSQPostOpt(k, e, m, opt).k, k.list, {e})
<1>1. \A front : Touches(k, Enqueue(k, e, m, front).k, k.list, {e})
  BY EnqueueTouches DEF Sound
<1> DEFINE one == OS_EventTaskRdy(k, e, m, "Q", "OK")
           all == RdyAll(k, e, m, "Q", "OK")
<1>2. (Waiting(k, e) => Touches(k, one, k.list, {e})) /\ Touches(k, all, k.list, {e})
  BY RdyTouches
<1> HIDE DEF one, all
<1>3. Touches(k, OSQPost(k, e, m).k, k.list, {e})
  BY <1>1, <1>2 DEF OSQPost, Reschedules, Done, one
<1>4. Touches(k, OSQPostFront(k, e, m).k, k.list, {e})
  BY <1>1, <1>2 DEF OSQPostFront, Reschedules, Done, one
<1>5. Touches(k, OSQPostOpt(k, e, m, opt).k, k.list, {e})
  BY <1>1, <1>2 DEF OSQPostOpt, Reschedules, Done, one, all
<1> QED
  BY <1>3, <1>4, <1>5

LEMMA QWaitTouches ==
  ASSUME NEW k, Idle(k), NEW e \in Ecb, NEW timeout \in Nat
  PROVE  Touches(k, OSQPend(k, e, timeout).k, k.list \ {k.cur}, {})
<1> DEFINE j == OS_EventTaskWait(StartsToWait(k, {"Q"}, timeout), e)
<1>1. {"Q"} \in SUBSET Statuses
  BY DEF Statuses, PendAny
<1>2. Touches(k, j, k.list \ {k.cur}, {})
  BY <1>1, WaitTouches
<1>3. Touches(k, Take(k, e).k, k.list \ {k.cur}, {})
  BY EnqueueTouches DEF Idle, Sound
<1> HIDE DEF j
<1> QED
  BY <1>2, <1>3 DEF OSQPend, Blocks, Done, j

LEMMA MemTouches ==
  ASSUME NEW k, Sound(k), NEW blk, NEW U, NEW S
  PROVE  Touches(k, OSMemGet(k).k, U, S) /\ Touches(k, OSMemPut(k, blk).k, U, S)
<1>1. /\ OSMemGet(k).k.tcb = k.tcb /\ OSMemGet(k).k.event = k.event
      /\ OSMemPut(k, blk).k.tcb = k.tcb /\ OSMemPut(k, blk).k.event = k.event
  BY DEF Sound, Kernel, OSMemGet, OSMemPut, Gives, Fails, Done
<1> QED
  BY <1>1, SameTouches

-----------------------------------------------------------------------------
(* Semaphores, and waiting for several events.                             *)

LEMMA CountTouches ==
  ASSUME NEW k \in Kernel, NEW e \in Ecb, NEW n, NEW U
  PROVE  Touches(k, [k EXCEPT !.event[e].cnt = n], U, {e})
<1> DEFINE j == [k EXCEPT !.event[e].cnt = n]
<1>1. j.tcb = k.tcb
  BY DEF Kernel
<1>2. j.event = [k.event EXCEPT ![e].cnt = n]
  BY DEF Kernel
<1> HIDE DEF j
<1>3. \A f \in Ecb \ {e} : j.event[f].cnt = k.event[f].cnt
  BY <1>2, Sets
<1>4. Touches(k, j, U, {e})
  BY <1>1, <1>3, SameTouches
<1> QED
  BY <1>4 DEF j

LEMMA SemTouches ==
  ASSUME NEW k, Sound(k), NEW e \in Ecb, NEW cnt
  PROVE  /\ Touches(k, OSSemAccept(k, e).k, k.list, {e})
         /\ Touches(k, OSSemPost(k, e).k, k.list, {e})
         /\ Touches(k, OSSemSet(k, e, cnt).k, k.list, {e})
<1>1. k \in Kernel /\ Null \in Int
  BY DEF Sound, Null
<1>2. Touches(k, k, k.list, {e})
  BY SameTouches
<1> DEFINE one == OS_EventTaskRdy(k, e, Null, "SEM", "OK")
           less == [k EXCEPT !.event[e].cnt = @ - 1]
           more == [k EXCEPT !.event[e].cnt = @ + 1]
           other == [k EXCEPT !.event[e].cnt = cnt]
<1>3. Waiting(k, e) => Touches(k, one, k.list, {e})
  BY <1>1, RdyTouches
<1>4. /\ Touches(k, less, k.list, {e}) /\ Touches(k, more, k.list, {e})
      /\ Touches(k, other, k.list, {e})
  BY <1>1, CountTouches
<1> HIDE DEF one, less, more, other
<1>5. Touches(k, OSSemAccept(k, e).k, k.list, {e})
  BY <1>2, <1>4 DEF OSSemAccept, Done, Fails, less
<1>6. Touches(k, OSSemPost(k, e).k, k.list, {e})
  BY <1>2, <1>3, <1>4 DEF OSSemPost, Reschedules, Done, Fails, one, more
<1>7. Touches(k, OSSemSet(k, e, cnt).k, k.list, {e})
  BY <1>2, <1>4 DEF OSSemSet, Done, Fails, other
<1> QED
  BY <1>5, <1>6, <1>7

LEMMA SemWaitTouches ==
  ASSUME NEW k, Idle(k), NEW e \in Ecb, NEW timeout \in Nat
  PROVE  Touches(k, OSSemPend(k, e, timeout).k, k.list \ {k.cur}, {e})
<1> DEFINE j == OS_EventTaskWait(StartsToWait(k, {"SEM"}, timeout), e)
           less == [k EXCEPT !.event[e].cnt = @ - 1]
<1>1. {"SEM"} \in SUBSET Statuses
  BY DEF Statuses, PendAny
<1>2. Touches(k, j, k.list \ {k.cur}, {})
  BY <1>1, WaitTouches
<1>3. Touches(k, less, k.list \ {k.cur}, {e})
  BY CountTouches DEF Idle, Sound
<1> HIDE DEF j, less
<1>4. Touches(k, j, k.list \ {k.cur}, {e})
  BY <1>2, FewerTouched
<1> QED
  BY <1>3, <1>4 DEF OSSemPend, Blocks, Done, j, less

LEMMA MultiTouches ==
  ASSUME NEW k, Idle(k), NEW S \in SUBSET Ecb, S # {},
         \A e \in S : k.event[e].type \in EventTypes, NEW timeout \in Nat
  PROVE  Touches(k, OSEventPendMulti(k, S, timeout).k, k.list \ {k.cur}, S)
<1> DEFINE Avail == {e \in S : Offers(k, e)}
           stat == {k.event[e].type : e \in S} \cup {"MULTI"}
           i == StartsToWait(k, stat, timeout)
           j == OS_EventTaskWaitMulti(i, S)
           h == TakeAll(k, Avail)
<1>1. /\ k \in Kernel /\ k.cur \in Tcb /\ k.tcb[k.cur].prio # IdlePrio
      /\ Consistent(k.rdy) /\ \A f \in Ecb : Consistent(k.event[f].wait)
      /\ k.tcb \in [Tcb -> TcbType] /\ k.event \in [Ecb -> EventType]
  BY IdleFields, Sets DEF Idle
<1>2. stat \in SUBSET Statuses
  BY DEF Statuses, PendAny, EventTypes
<1>3. Touches(k, h, k.list \ {k.cur}, S)
  <2>1. h.tcb = k.tcb
    BY <1>1 DEF TakeAll, Kernel
  <2>2. \A f \in Ecb \ S : h.event[f] = k.event[f]
    BY <1>1 DEF TakeAll, Kernel
  <2> HIDE DEF h
  <2> QED
    BY <2>1, <2>2, SameTouches
<1>4. Touches(k, j, k.list \ {k.cur}, S)
  <2> HIDE DEF stat
  <2>1. /\ i \in Kernel /\ i.cur = k.cur /\ i.rdy = k.rdy /\ i.event = k.event
        /\ \A u \in Tcb : u # k.cur => i.tcb[u] = k.tcb[u]
        /\ i.tcb[k.cur] = Begun(k.tcb[k.cur], stat, timeout)
    BY <1>1, <1>2, StartsToWaitFields DEF SameRest
  <2> HIDE DEF i
  <2>2. i.tcb[i.cur].prio # IdlePrio
    <3>1. k.tcb[k.cur] \in TcbType
      BY <1>1
    <3>2. Began(k.tcb[k.cur], stat, timeout, Begun(k.tcb[k.cur], stat, timeout))
      BY <1>2, <3>1, BegunType
    <3> QED
      BY <1>1, <2>1, <3>2 DEF Began
  <2>3. Enters(i, j, S)
    BY <1>1, <2>1, <2>2, EventTaskWaitMultiFields
  <2> HIDE DEF j
  <2> QED
    BY <1>1, <2>1, <2>3, CurTouches DEF Enters
<1> HIDE DEF h, j, Avail
<1> QED
  BY <1>3, <1>4 DEF OSEventPendMulti, Gives, Blocks, Done, h, i, j, Avail, stat

LEMMA MultiBackTouches ==
  ASSUME NEW k, Sound(k), k.cur \in k.list, NEW S
  PROVE  Touches(k, MultiPended(k, S).k, k.list \ {k.cur}, {})
<1>1. k \in Kernel /\ k.cur \in Tcb /\ k.event \in [Ecb -> EventType]
  BY Fields, Sets DEF Sound
<1> DEFINE h == OS_EventTaskRemoveMulti(k, k.cur, S)
           i == [EndsWait(k, k.cur) EXCEPT !.tcb[k.cur].msg = Null]
           j == [EndsWait(h, k.cur) EXCEPT !.tcb[k.cur].msg = Null]
<1>2. h.tcb = k.tcb /\ h.event = Delisted(k.event, S, k.tcb[k.cur].prio)
  BY DEF OS_EventTaskRemoveMulti, Sound, Kernel
<1>3. \A f \in Ecb : h.event[f].cnt = k.event[f].cnt
  BY <1>1, <1>2 DEF Delisted, EventType
<1>4. /\ i.event = k.event /\ \A u \in Tcb : u # k.cur => i.tcb[u] = k.tcb[u]
      /\ j.event = h.event /\ \A u \in Tcb : u # k.cur => j.tcb[u] = k.tcb[u]
  BY <1>1, <1>2, Sets DEF OS_EventTaskRemoveMulti, EndsWait, Kernel
<1> HIDE DEF h, i, j
<1>5. Touches(k, i, k.list \ {k.cur}, {}) /\ Touches(k, j, k.list \ {k.cur}, {})
  BY <1>1, <1>3, <1>4, CurTouches
<1>6. Touches(k, k, k.list \ {k.cur}, {})
  BY SameTouches
<1> QED
  BY <1>5, <1>6 DEF MultiPended, Gives, Fails, Done, h, i, j

-----------------------------------------------------------------------------
(* Flags.                                                                  *)

LEMMA FlagTouches ==
  ASSUME NEW k, Sound(k), k.cur \in k.list, NEW g \in Fgp, NEW c
  PROVE  /\ Touches(k, OSFlagAccept(k, g, c).k, k.list \ {k.cur}, {})
         /\ Touches(k, OSFlagPend(k, g, c).k, k.list \ {k.cur}, {})
         /\ Touches(k, FlagPended(k, g, c).k, k.list \ {k.cur}, {})
<1>1. k \in Kernel /\ k.cur \in Tcb /\ k.tcb \in [Tcb -> TcbType]
  BY Fields, Sets DEF Sound
<1> DEFINE Mine(j) == j.event = k.event /\ \A u \in Tcb : u # k.cur => j.tcb[u] = k.tcb[u]
<1>2. Mine(OSFlagAccept(k, g, c).k)
  BY <1>1 DEF OSFlagAccept, TakeFlags, Done, Fails, Kernel
<1>3. Mine(OSFlagPend(k, g, c).k)
  BY <1>1 DEF OSFlagPend, OS_FlagBlock, StartsToWait, Unready, TakeFlags, Blocks, Done,
              Fails, Kernel
<1>4. Mine(FlagPended(k, g, c).k)
  BY <1>1 DEF FlagPended, OS_FlagUnlink, Done, Fails, Kernel
<1> QED
  BY <1>1, <1>2, <1>3, <1>4, CurTouches

LEMMA FlagPostTouches ==
  ASSUME NEW k, Sound(k), NEW g \in Fgp, NEW flags, NEW opt
  PROVE  Touches(k, OSFlagPost(k, g, flags, opt).k, k.list, {})
<1>1. k \in Kernel /\ k.list \subseteq Tcb
  BY Fields DEF Sound
<1> DEFINE j == OSFlagPost(k, g, flags, opt).k
<1>2. j.event = k.event /\ \A u \in Tcb : u \notin k.flag[g].wait => j.tcb[u] = k.tcb[u]
  BY <1>1 DEF OSFlagPost, OS_FlagTaskRdy, ReadyAll, Reschedules, Done, Kernel
<1> HIDE DEF j
<1>3. \A u \in k.list : u \in k.flag[g].wait => Groups(k, u) # {}
  BY DEF Groups
<1> QED
  BY <1>1, <1>2, <1>3 DEF Touches, SameWait, j

-----------------------------------------------------------------------------
(* Tasks and delays.                                                       *)

LEMMA SuspendTouches ==
  ASSUME NEW k, Sound(k), k.cur \in k.list, NEW prio \in Prio \cup {Self}
  PROVE  /\ Touches(k, OSTaskDelReq(k, prio).k, k.list, {})
         /\ Touches(k, OSTaskSuspend(k, prio).k, k.list, {})
         /\ Touches(k, OSTaskResume(k, prio).k, k.list, {})
<1>1. k \in Kernel /\ k.list \subseteq Tcb /\ k.tcb \in [Tcb -> TcbType]
  BY Fields, Sets DEF Sound
<1> DEFINE Alters(j) == j.event = k.event /\ \A u \in Tcb : SameWait(k.tcb[u], j.tcb[u])
<1>2. Alters(k)
  BY DEF SameWait
<1>3. ASSUME Exists(k, prio)
      PROVE  /\ Alters(OSTaskDelReq(k, prio).k) /\ Alters(OSTaskSuspend(k, prio).k)
             /\ Alters(OSTaskResume(k, prio).k)
  <2> DEFINE t == TheTask(k, prio)
  <2>1. t \in Tcb
    BY <1>1, <1>3, TheTaskIs
  <2> HIDE DEF t
  <2> DEFINE a == [k EXCEPT !.tcb[t].delReq = TRUE]
             b == [Unready(k, t) EXCEPT !.tcb[t].stat = @ \cup {"SUSPEND"}]
             c == [k EXCEPT !.tcb[t].stat = @ \ {"SUSPEND"}]
             d == Ready(c, t)
  <2>2. /\ a.event = k.event /\ a.tcb = [k.tcb EXCEPT ![t].delReq = TRUE]
        /\ b.event = k.event /\ b.tcb = [k.tcb EXCEPT ![t].stat = @ \cup {"SUSPEND"}]
        /\ c.event = k.event /\ c.tcb = [k.tcb EXCEPT ![t].stat = @ \ {"SUSPEND"}]
    BY <1>1 DEF Unready, Kernel
  <2>3. d.event = c.event /\ d.tcb = c.tcb
    BY <1>1 DEF Ready, Kernel
  <2>4. /\ OSTaskDelReq(k, prio).k = a
        /\ OSTaskSuspend(k, prio).k = b
        /\ OSTaskResume(k, prio).k \in {k, c, d}
    BY <1>3 DEF OSTaskDelReq, OSTaskSuspend, OSTaskResume, Reschedules, Done, Fails, t
  <2> HIDE DEF a, b, c, d
  <2>5. Alters(a)
    BY <1>1, <2>1, <2>2 DEF SameWait, TcbType
  <2>6. Alters(b)
    BY <1>1, <2>1, <2>2 DEF SameWait, TcbType
  <2>7. Alters(c) /\ Alters(d)
    BY <1>1, <2>1, <2>2, <2>3 DEF SameWait, TcbType
  <2> QED
    BY <1>2, <2>4, <2>5, <2>6, <2>7
<1>4. ASSUME ~Exists(k, prio)
      PROVE  /\ OSTaskDelReq(k, prio).k = k /\ OSTaskSuspend(k, prio).k = k
             /\ OSTaskResume(k, prio).k = k
  BY <1>4 DEF OSTaskDelReq, OSTaskSuspend, OSTaskResume, Done, Fails
<1> QED
  BY <1>1, <1>2, <1>3, <1>4 DEF Touches

LEMMA TimeDlyTouches ==
  ASSUME NEW k, Sound(k), k.cur \in k.list, NEW ticks
  PROVE  Touches(k, OSTimeDly(k, ticks).k, k.list \ {k.cur}, {})
<1>1. k \in Kernel /\ k.cur \in Tcb /\ k.tcb \in [Tcb -> TcbType]
  BY Fields, Sets DEF Sound
<1> DEFINE j == OSTimeDly(k, ticks).k
<1>2. j.event = k.event /\ \A u \in Tcb : u # k.cur => j.tcb[u] = k.tcb[u]
  BY <1>1 DEF OSTimeDly, Unready, Reschedules, Done, Kernel
<1> HIDE DEF j
<1>3. Touches(k, j, k.list \ {k.cur}, {})
  BY <1>1, <1>2, CurTouches
<1> QED
  BY <1>3 DEF j

(* Who delays has not been answered.                                       *)
LEMMA DelaysKeep ==
  ASSUME NEW k, Sound(k), NEW j, j.event = k.event, NEW U \in SUBSET Tcb, NEW S,
         \A u \in U : \/ j.tcb[u] = k.tcb[u]
                      \/ /\ k.tcb[u].dly # 0
                         /\ \/ j.tcb[u] = DelayOver(k.tcb[u])
                            \/ j.tcb[u] = [k.tcb[u] EXCEPT !.dly = @ - 1]
  PROVE  SemsKept(k, j, U, S)
<1>1. ASSUME NEW e \in Ecb, NEW u \in U, WaitsForOne(k, u, "SEM", e)
      PROVE  StillGot(k, j, u)
  <2>0. k.tcb[u] \in TcbType
    BY Fields DEF Sound
  <2>1. CASE j.tcb[u] = k.tcb[u]
    BY <2>1 DEF StillGot, Got, Sure
  <2>2. CASE k.tcb[u].dly # 0
    <3>1. "SEM" \in k.tcb[u].stat /\ k.tcb[u].pend = "OK"
      BY <1>1, <2>2 DEF WaitsForOne
    <3>2. ~Got(k, u) /\ ~Sure(k, u)
      BY <2>2, <3>1 DEF Got, Sure
    <3>3. CASE j.tcb[u] = DelayOver(k.tcb[u])
      <4>1. j.tcb[u].pend = "TO"
        BY <2>0, <3>1, <3>3 DEF DelayOver, TcbType, PendAny
      <4> QED
        BY <3>2, <4>1 DEF StillGot, Got
    <3>4. CASE j.tcb[u] = [k.tcb[u] EXCEPT !.dly = @ - 1]
      BY <2>0, <3>1, <3>2, <3>4 DEF StillGot, Got, TcbType
    <3> QED
      BY <2>1, <2>2, <3>3, <3>4
  <2> QED
    BY <2>1, <2>2
<1> QED
  BY <1>1 DEF SemsKept

LEMMA DlyResumeKeeps ==
  ASSUME NEW k, Sound(k), k.cur \in k.list, NEW prio \in Prio \cup {Self}
  PROVE  SemsKept(k, OSTimeDlyResume(k, prio).k, k.list, {})
<1>1. k \in Kernel /\ k.list \in SUBSET Tcb /\ k.tcb \in [Tcb -> TcbType]
  BY Fields, Sets DEF Sound
<1> DEFINE t == TheTask(k, prio)
           i == [k EXCEPT !.tcb[t] = DelayOver(@)]
           h == Ready(i, t)
           j == OSTimeDlyResume(k, prio).k
<1>2. /\ i.event = k.event /\ i.tcb = [k.tcb EXCEPT ![t] = DelayOver(@)]
      /\ h.event = k.event /\ h.tcb = i.tcb
  BY <1>1 DEF Ready, Kernel
<1>3. j = k \/ (k.tcb[t].dly # 0 /\ j \in {i, h})
  BY DEF OSTimeDlyResume, Reschedules, Done, Fails
<1> HIDE DEF i, h, j, t
<1>4. /\ j.event = k.event
      /\ \A u \in k.list : \/ j.tcb[u] = k.tcb[u]
                           \/ k.tcb[u].dly # 0 /\ j.tcb[u] = DelayOver(k.tcb[u])
  BY <1>1, <1>2, <1>3
<1>5. SemsKept(k, j, k.list, {})
  BY <1>1, <1>4, DelaysKeep
<1> QED
  BY <1>5 DEF j

LEMMA TickKeeps ==
  ASSUME NEW k, Sound(k)
  PROVE  SemsKept(k, OSTimeTick(k), k.list, {})
<1>1. k \in Kernel /\ k.list \in SUBSET Tcb /\ k.tcb \in [Tcb -> TcbType]
  BY Fields, Sets DEF Sound
<1> DEFINE Counting == {t \in k.list : k.tcb[t].prio # IdlePrio /\ k.tcb[t].dly # 0}
           Over == {t \in Counting : k.tcb[t].dly = 1}
           tcb == [t \in Tcb |->
                     CASE t \in Over -> DelayOver(k.tcb[t])
                       [] t \in Counting \ Over -> [k.tcb[t] EXCEPT !.dly = @ - 1]
                       [] OTHER -> k.tcb[t]]
           j == OSTimeTick(k)
<1>2. j.event = k.event /\ j.tcb = tcb
  BY <1>1 DEF OSTimeTick, ReadyAll, Kernel
<1> HIDE DEF j
<1>3. \A u \in k.list : \/ j.tcb[u] = k.tcb[u]
                        \/ /\ k.tcb[u].dly # 0
                           /\ \/ j.tcb[u] = DelayOver(k.tcb[u])
                              \/ j.tcb[u] = [k.tcb[u] EXCEPT !.dly = @ - 1]
  BY <1>1, <1>2
<1>4. SemsKept(k, j, k.list, {})
  BY <1>1, <1>2, <1>3, DelaysKeep
<1> QED
  BY <1>4 DEF j

-----------------------------------------------------------------------------
(* Objects that are created.                                               *)

LEMMA AddsTouch ==
  ASSUME NEW k, Sound(k), NEW j, j.tcb = k.tcb,
         \A e \in Ecb : k.event[e].type # "UNUSED" => j.event[e] = k.event[e],
         NEW U, NEW S
  PROVE  Touches(k, j, U, S)
<1>1. \A e \in Ecb : k.event[e].type = "SEM" => j.event[e].cnt = k.event[e].cnt
  OBVIOUS
<1> QED
  BY <1>1, SameTouches

LEMMA EventTouches ==
  ASSUME NEW k, Sound(k), NEW type, NEW cnt, NEW ptr, NEW U, NEW S
  PROVE  k.freeEvent # << >> => Touches(k, TakeEvent(k, type, cnt, 0, ptr), U, S)
<1> SUFFICES ASSUME k.freeEvent # << >> PROVE Touches(k, TakeEvent(k, type, cnt, 0, ptr), U, S)
  OBVIOUS
<1> DEFINE f == Head(k.freeEvent)
           j == TakeEvent(k, type, cnt, 0, ptr)
<1>1. f \in Ecb /\ k.event[f].type = "UNUSED"
  BY Pools, TailOnce
<1>2. j.tcb = k.tcb /\ \A e \in Ecb : e # f => j.event[e] = k.event[e]
  BY DEF TakeEvent, Sound, Kernel
<1> HIDE DEF f, j
<1>3. Touches(k, j, U, S)
  BY <1>1, <1>2, AddsTouch
<1> QED
  BY <1>3 DEF j

LEMMA CreateTouches ==
  ASSUME NEW k, Sound(k), NEW arg, NEW U, NEW S
  PROVE  /\ Touches(k, OSSemCreate(k, arg).k, U, S)
         /\ Touches(k, OSMboxCreate(k, arg).k, U, S)
         /\ Touches(k, OSQCreate(k).k, U, S)
         /\ Touches(k, OSFlagCreate(k, arg).k, U, S)
         /\ Touches(k, OSMemCreate(k), U, S)
<1>1. Touches(k, k, U, S)
  BY SameTouches
<1>2. Touches(k, OSSemCreate(k, arg).k, U, S)
  BY <1>1, EventTouches DEF OSSemCreate, Returns, Done, Fails
<1>3. Touches(k, OSMboxCreate(k, arg).k, U, S)
  BY <1>1, EventTouches DEF OSMboxCreate, Returns, Done, Fails
<1>4. /\ OSQCreate(k).k.tcb = k.tcb /\ OSQCreate(k).k.event = k.event
      /\ OSFlagCreate(k, arg).k.tcb = k.tcb /\ OSFlagCreate(k, arg).k.event = k.event
      /\ OSMemCreate(k).tcb = k.tcb /\ OSMemCreate(k).event = k.event
  BY DEF OSQCreate, OSFlagCreate, OSMemCreate, Returns, Done, Fails, Sound, Kernel
<1> QED
  BY <1>2, <1>3, <1>4, SameTouches

LEMMA QueueTouches ==
  ASSUME NEW k, Sound(k), NEW e, Limbo(k, e), NEW U, NEW S
  PROVE  Touches(k, QCreateRing(k, e).k, U, S)
<1> DEFINE j == QCreateRing(k, e).k
<1>1. j.tcb = k.tcb /\ \A f \in Ecb : f # e => j.event[f] = k.event[f]
  BY DEF QCreateRing, Returns, Done, Fails, Sound, Kernel
<1>2. k.event[e].type = "UNUSED"
  BY DEF Limbo
<1> HIDE DEF j
<1>3. Touches(k, j, U, S)
  BY <1>1, <1>2, AddsTouch
<1> QED
  BY <1>3 DEF j

-----------------------------------------------------------------------------
(* The tasks.  What a step does to the tokens is decided by what it does to*)
(* the task that takes it and by what its critical section touches.        *)

LEMMA GuardedIs ==
  ASSUME PlainInv, Guarded(prog), NEW n \in prog.owned
  PROVE  Declares(prog, n, "SEM") /\ n \in Names(prog) \ GroupNames(prog)
<1>1. PICK i \in DOMAIN prog.objects : prog.objects[i].name = n /\ prog.objects[i].type = "SEM"
  BY DEF Guarded
<1>2. ObjectsPlain(prog)
  BY DEF PlainInv, PlainPrograms, Plain
<1>3. n \notin GroupNames(prog)
  BY <1>1, <1>2 DEF ObjectsPlain, EventTypes
<1> QED
  BY <1>1, <1>3 DEF Declares, Names

LEMMA WaiterIs ==
  ASSUME PlainInv, NEW t \in Tcb, Rightful(prog.owned, obj, run[t]), NEW n \in prog.owned,
         run[t].obj = n, WaitOf(run[t]) = "SemPended"
  PROVE  t \in os.list /\ WaitsForOne(os, t, "SEM", obj[n])
<1>1. run[t].ev = obj[n]
  BY DEF Rightful, SemAt
<1>2. StackOK(run[t].pc)
  BY DEF PlainInv, ThreadsOK, ThreadOK
<1>3. t \in os.list
  BY <1>2, WaitOfIs DEF PlainInv, ThreadsOK
<1>4. TaskOK(os, t, "SemPended", obj[n])
  BY <1>1, <1>3 DEF PlainInv, KernelOK
<1> QED
  BY <1>3, <1>4 DEF TaskOK, KindOf

LEMMA OtherKept ==
  ASSUME PlainInv, NEW u \in Tcb, Rightful(prog.owned, obj, run[u]),
         NEW j, NEW U, u \in os.list => u \in U, NEW S, SemsKept(os, j, U, S),
         NEW n \in prog.owned, obj[n] \notin S
  PROVE  /\ Heir(j, run[u], u, n) <=> Heir(os, run[u], u, n)
         /\ Obtains(os, run[u], u, n) => Obtains(j, run[u], u, n)
<1>1. CASE run[u].obj = n /\ WaitOf(run[u]) = "SemPended"
  <2>1. u \in U /\ obj[n] \in Ecb \ S /\ WaitsForOne(os, u, "SEM", obj[n])
    BY <1>1, WaiterIs DEF WaitsForOne
  <2>2. StillGot(os, j, u)
    BY <2>1 DEF SemsKept
  <2> QED
    BY <2>2 DEF StillGot, Sure, Heir, Obtains
<1>2. CASE ~(run[u].obj = n /\ WaitOf(run[u]) = "SemPended")
  BY <1>2 DEF Heir, Obtains
<1> QED
  BY <1>1, <1>2

LEMMA TokenKept ==
  ASSUME NEW n, TokenOK(n), obj'[n] = obj[n],
         os'.event[obj[n]].cnt = os.event[obj[n]].cnt,
         \A t \in Tcb : /\ Holder(run'[t], n) <=> Holder(run[t], n)
                        /\ Heir(os', run'[t], t, n) <=> Heir(os, run[t], t, n)
  PROVE  TokenOK(n)'
  BY DEF TokenOK

LEMMA EntitledKept ==
  ASSUME NEW owned, NEW k, NEW j, NEW me, NEW t, Entitled(owned, k, me, t),
         \A n \in owned \cap HalLocks : Obtains(k, me, t, n) => Obtains(j, me, t, n)
  PROVE  Entitled(owned, j, me, t)
<1>1. \A l : LockFor(l) \in HalLocks \cup {NoName}
  BY DEF LockFor, HalLocks, Consoles
<1> QED
  BY <1>1 DEF Entitled

LEMMA OneHandleKept ==
  ASSUME KeepsTypes(os, os'), UNCHANGED prog, NEW n, OneHandle(n), obj'[n] = obj[n],
         \A a \in Names(prog) \ GroupNames(prog) :
            obj'[a] \in {obj[a], Null} \/ os.event[obj'[a]].type # "SEM"
  PROVE  OneHandle(n)'
<1>1. Null \notin Ecb
  BY DEF Null, Ecb
<1> QED
  BY <1>1 DEF OneHandle, KeepsTypes

Untouched(S) == \A n \in prog.owned : obj[n] \notin S

(* A step of a task.                                                       *)
LEMMA RunnerKeeps ==
  ASSUME Stepping, LocksOK, NEW m, run' = [run EXCEPT ![Cur] = m], os'.cur # Null,
         KeepsTypes(os, os'), NEW S, SemsKept(os, os', os.list \ {Cur}, S),
         \A n \in prog.owned : obj'[n] = obj[n],
         \A a \in Names(prog) \ GroupNames(prog) :
            obj'[a] \in {obj[a], Null} \/ os.event[obj'[a]].type # "SEM",
         Entitled(prog.owned, os', m, Cur), Rightful(prog.owned, obj', m), Shallow(m),
         \A n \in prog.owned : obj[n] \notin S =>
            /\ Holder(m, n) <=> Holder(Me, n)
            /\ Heir(os', m, Cur, n) <=> Heir(os, Me, Cur, n),
         \A n \in prog.owned : obj[n] # Null /\ obj[n] \in S => TokenOK(n)',
         \A n \in prog.owned \cap HalLocks : obj[n] \in S =>
            \A u \in Tcb \ {Cur} : Obtains(os, run[u], u, n) => Obtains(os', run[u], u, n)
  PROVE  LocksOK'
<1>1. PlainInv /\ Running /\ prog' = prog /\ Cur \in os.list /\ Cur \in Tcb
  BY StepperIs DEF Stepping
<1>2. /\ DOMAIN run = Tcb /\ run'[Cur] = m /\ \A u \in Tcb \ {Cur} : run'[u] = run[u]
  BY <1>1 DEF PlainInv, ThreadsOK
<1>3. Running' /\ \A u \in os.list : u # Cur => u \in os.list \ {Cur}
  BY DEF Running
<1>4. ASSUME NEW u \in Tcb \ {Cur}, NEW n \in prog.owned, obj[n] \notin S
      PROVE  /\ Heir(os', run[u], u, n) <=> Heir(os, run[u], u, n)
             /\ Obtains(os, run[u], u, n) => Obtains(os', run[u], u, n)
  <2>1. Rightful(prog.owned, obj, run[u])
    BY DEF LocksOK
  <2>2. u \in os.list => u \in os.list \ {Cur}
    OBVIOUS
  <2> QED
    BY <1>1, <1>4, <2>1, <2>2, OtherKept
<1>5. ASSUME NEW n \in prog.owned, obj[n] # Null
      PROVE  OneHandle(n)' /\ TokenOK(n)'
  <2>1. OneHandle(n) /\ TokenOK(n)
    BY <1>5 DEF LocksOK
  <2>2. OneHandle(n)'
    BY <1>1, <2>1, OneHandleKept
  <2>3. CASE obj[n] \in S
    BY <1>5, <2>2, <2>3
  <2>4. CASE obj[n] \notin S
    <3>1. os'.event[obj[n]].cnt = os.event[obj[n]].cnt
      BY <2>1, <2>4 DEF SemsKept, OneHandle
    <3>2. ASSUME NEW t \in Tcb
          PROVE  /\ Holder(run'[t], n) <=> Holder(run[t], n)
                 /\ Heir(os', run'[t], t, n) <=> Heir(os, run[t], t, n)
      <4>1. CASE t = Cur
        BY <1>2, <2>4, <4>1 DEF Me
      <4>2. CASE t # Cur
        BY <1>2, <1>4, <2>4, <4>2
      <4> QED
        BY <4>1, <4>2
    <3> QED
      BY <2>1, <2>2, <3>1, <3>2, TokenKept
  <2> QED
    BY <2>3, <2>4
<1>6. ASSUME NEW t \in Tcb
      PROVE  /\ Entitled(prog.owned, os', run'[t], t)
             /\ Rightful(prog.owned, obj', run'[t]) /\ Shallow(run'[t])
  <2>1. CASE t = Cur
    BY <1>2, <2>1
  <2>2. CASE t # Cur
    <3>1. /\ Entitled(prog.owned, os, run[t], t)
          /\ Rightful(prog.owned, obj, run[t]) /\ Shallow(run[t])
      BY DEF LocksOK
    <3>2. \A n \in prog.owned \cap HalLocks :
             Obtains(os, run[t], t, n) => Obtains(os', run[t], t, n)
      BY <1>4, <2>2
    <3>3. Entitled(prog.owned, os', run[t], t)
      BY <3>1, <3>2, EntitledKept
    <3>4. Rightful(prog.owned, obj', run[t])
      BY <3>1 DEF Rightful
    <3> QED
      BY <1>2, <2>2, <3>1, <3>3, <3>4
  <2> QED
    BY <2>1, <2>2
<1>7. \A n \in prog.owned : obj'[n] # Null => OneHandle(n)' /\ TokenOK(n)'
  BY <1>5
<1> QED
  BY <1>1, <1>3, <1>6, <1>7 DEF LocksOK

(* A step of the hardware.                                                 *)
LEMMA SystemKeeps ==
  ASSUME PlainInv, LocksOK, UNCHANGED << run, obj, prog >>, os'.cur # Null,
         KeepsTypes(os, os'), NEW S, SemsKept(os, os', os.list, S), Untouched(S)
  PROVE  LocksOK'
<1>1. ASSUME NEW u \in Tcb, NEW n \in prog.owned
      PROVE  /\ Heir(os', run[u], u, n) <=> Heir(os, run[u], u, n)
             /\ Obtains(os, run[u], u, n) => Obtains(os', run[u], u, n)
  <2>1. Rightful(prog.owned, obj, run[u]) /\ obj[n] \notin S
    BY DEF LocksOK, Untouched
  <2> QED
    BY <2>1, OtherKept
<1>2. ASSUME NEW n \in prog.owned, obj[n] # Null
      PROVE  OneHandle(n)' /\ TokenOK(n)'
  <2>1. OneHandle(n) /\ TokenOK(n) /\ obj[n] \notin S
    BY <1>2 DEF LocksOK, Untouched
  <2>2. OneHandle(n)'
    BY <2>1, OneHandleKept
  <2>3. os'.event[obj[n]].cnt = os.event[obj[n]].cnt
    BY <2>1 DEF SemsKept, OneHandle
  <2> QED
    BY <1>1, <2>1, <2>2, <2>3, TokenKept
<1>3. \A t \in Tcb : Entitled(prog.owned, os', run[t], t)
  BY <1>1, EntitledKept DEF LocksOK
<1>4. Running'
  BY DEF Running
<1> QED
  BY <1>2, <1>3, <1>4 DEF LocksOK

-----------------------------------------------------------------------------
(* Calls of the kernel.                                                    *)

LEMMA Behind ==
  ASSUME NEW X, NEW pc \in Seq(X), pc # << >>, NEW Y, NEW next \in Seq(Y)
  PROVE  LET new == next \o Tail(pc) IN
         /\ Len(new) = Len(next) + Len(pc) - 1 /\ DOMAIN new = 1 .. Len(new)
         /\ Len(pc) \in Nat \ {0} /\ Len(next) \in Nat
         /\ \A i \in DOMAIN new :
              \/ i \in DOMAIN next /\ new[i] = next[i]
              \/ \E m \in 2 .. Len(pc) : new[i] = pc[m] /\ i = Len(next) + m - 1
<1> DEFINE new == next \o Tail(pc)
<1>1. Len(pc) \in Nat \ {0} /\ Tail(pc) \in Seq(X) /\ Len(Tail(pc)) = Len(pc) - 1
  BY NotEmpty
<1>2. /\ Len(next) \in Nat /\ DOMAIN next = 1 .. Len(next)
      /\ DOMAIN Tail(pc) = 1 .. Len(pc) - 1
      /\ \A m \in 1 .. Len(pc) - 1 : Tail(pc)[m] = pc[m + 1]
  BY <1>1, NotEmpty
<1>3. /\ Len(new) = Len(next) + Len(pc) - 1 /\ DOMAIN new = 1 .. Len(new)
      /\ \A i \in 1 .. Len(new) :
           new[i] = IF i <= Len(next) THEN next[i] ELSE Tail(pc)[i - Len(next)]
  BY <1>1, <1>2
<1> HIDE DEF new
<1>4. ASSUME NEW i \in DOMAIN new
      PROVE  \/ i \in DOMAIN next /\ new[i] = next[i]
             \/ \E m \in 2 .. Len(pc) : new[i] = pc[m] /\ i = Len(next) + m - 1
  <2>1. CASE i <= Len(next)
    BY <1>2, <1>3, <2>1
  <2>2. CASE i > Len(next)
    <3> DEFINE m == i - Len(next) + 1
    <3>1. m \in 2 .. Len(pc) /\ i = Len(next) + m - 1 /\ m - 1 \in 1 .. Len(pc) - 1
          /\ i - Len(next) = m - 1 /\ ~(i <= Len(next)) /\ (m - 1) + 1 = m
      BY <1>1, <1>2, <1>3, <2>2
    <3> HIDE DEF m
    <3>2. new[i] = Tail(pc)[m - 1]
      BY <1>3, <3>1
    <3>3. new[i] = pc[m]
      BY <1>2, <3>1, <3>2
    <3> QED
      BY <3>1, <3>3
  <2> QED
    BY <1>2, <1>3, <2>1, <2>2
<1> QED
  BY <1>1, <1>2, <1>3, <1>4 DEF new

(* The labels below the one at the head need no other locks than H.        *)
Below(me, H) ==
    \A i \in 2 .. Len(me.pc) :
      LET n == LockFor(me.pc[i]) IN n # NoName => n \in prog.owned /\ n \in H

Owed(k, me, t) == {n \in prog.owned : n \in me.owns \/ Obtains(k, me, t, n)}

LEMMA BelowIs ==
  ASSUME NEW k, NEW t, NEW me, StackOK(me.pc), me.pc # << >>,
         Entitled(prog.owned, k, me, t)
  PROVE  Below(me, Owed(k, me, t))
<1>1. Len(me.pc) \in Nat /\ DOMAIN me.pc = 1 .. Len(me.pc)
  BY NotEmpty DEF StackOK
<1> QED
  BY <1>1 DEF Entitled, Below, Owed

KernelConts == CallConts \cup {<< "QCreateRing" >>}
KernelLabels == {"OS_Sched", "QCreateRing"} \cup WaitLabels

LEMMA NoHalConts ==
  ASSUME NEW l \in KernelLabels
  PROVE  l \notin HalSteps /\ LockFor(l) = NoName
  BY DEF KernelLabels, WaitLabels, HalSteps, LibLabels, LibOps, IoOps, Conts, LockFor

LEMMA CallContSeq ==
  ASSUME NEW cont \in KernelConts
  PROVE  cont \in Seq(KernelLabels) /\ \A i \in DOMAIN cont : cont[i] \in KernelLabels
<1>1. CASE cont = << >>
  BY <1>1
<1>2. CASE cont = << "OS_Sched" >>
  BY <1>2 DEF KernelLabels
<1>3. ASSUME NEW w \in WaitLabels, cont = << "OS_Sched", w >>
      PROVE  cont \in Seq(KernelLabels) /\ \A i \in DOMAIN cont : cont[i] \in KernelLabels
  BY <1>3 DEF KernelLabels
<1>4. CASE cont = << "QCreateRing" >>
  BY <1>4 DEF KernelLabels
<1> QED
  BY <1>1, <1>2, <1>3, <1>4 DEF CallConts, KernelConts

LEMMA Positive ==
  ASSUME NEW n \in Nat, n # 0
  PROVE  n = 1 \/ n > 1
  OBVIOUS

(* Where the task stands after the call.                                   *)
LEMMA AfterCall ==
  ASSUME NEW me, StackOK(me.pc), me.pc # << >>, Head(me.pc) # "OS_Sched",
         NEW cont \in CallConts, NEW n, n.pc = cont \o Tail(me.pc)
  PROVE  /\ WaitOf(n) = NextWait(cont)
         /\ n.pc # << >> => Head(n.pc) \in {"OS_Sched"} \cup Conts
         /\ StackOK(n.pc)
<1>1. StackOK(cont) /\ (cont # << >> => Head(cont) = "OS_Sched")
  BY CallContsAre
<1>2. /\ StackOK(n.pc)
      /\ cont # << >> => n.pc # << >> /\ n.pc[1] = cont[1]
      /\ cont = << >> /\ n.pc # << >> => n.pc[1] \in Conts
      /\ Len(cont) = 1 /\ Len(n.pc) > 1 => n.pc[2] \in Conts
      /\ Len(cont) > 1 => Len(n.pc) > 1 /\ n.pc[2] = cont[2]
  BY <1>1, StackMoves
<1>3. cont # << >> => cont[1] = "OS_Sched"
  BY <1>1, CallContSeq, NotEmpty DEF KernelConts
<1>4. /\ n.pc = << >> => WaitOf(n) = "none"
      /\ n.pc # << >> => /\ Head(n.pc) = n.pc[1] /\ Len(n.pc) > 0
                         /\ n.pc[1] \notin WaitLabels => WaitOf(n) = NextWait(n.pc)
  BY <1>2, WaitOfIs
<1>5. "OS_Sched" \notin Conts /\ "OS_Sched" \notin WaitLabels /\ Conts \cap WaitLabels = {}
  BY DEF Conts, WaitLabels
<1>6. Len(cont) \in Nat /\ (cont = << >> <=> Len(cont) = 0)
  BY CallContSeq, NotEmpty DEF KernelConts
<1>7. CASE cont = << >>
  BY <1>2, <1>4, <1>5, <1>6, <1>7 DEF NextWait
<1>8. CASE cont # << >>
  <2>1. /\ n.pc # << >> /\ n.pc[1] = "OS_Sched" /\ Head(n.pc) = "OS_Sched"
        /\ WaitOf(n) = NextWait(n.pc)
    BY <1>2, <1>3, <1>4, <1>5, <1>8
  <2>2. NextWait(n.pc) = NextWait(cont)
    <3>0. Len(cont) = 1 \/ Len(cont) > 1
      <4>1. Len(cont) # 0 /\ Len(cont) \in Nat
        BY <1>6, <1>8, Zenon
      <4> QED
        BY <4>1, Positive, Zenon
    <3>1. CASE Len(cont) > 1
      BY <1>2, <1>3, <1>8, <2>1, <3>1 DEF NextWait
    <3>2. CASE Len(cont) = 1
      <4>1. NextWait(cont) = "none"
        BY <3>2 DEF NextWait
      <4>2. ~(Len(n.pc) > 1 /\ n.pc[2] \in WaitLabels)
        BY <1>2, <1>5, <3>2
      <4> QED
        BY <4>1, <4>2 DEF NextWait
    <3> QED
      BY <3>0, <3>1, <3>2
  <2> QED
    BY <1>2, <2>1, <2>2
<1> QED
  BY <1>7, <1>8

LEMMA AfterTake ==
  ASSUME NEW me, StackOK(me.pc), me.pc # << >>, NEW n, n.pc = << "QCreateRing" >> \o Tail(me.pc)
  PROVE  WaitOf(n) = "none" /\ n.pc # << >> /\ Head(n.pc) = "QCreateRing"
<1>1. Tail(me.pc) \in Seq(Labels)
  BY NotEmpty DEF StackOK
<1>2. n.pc # << >> /\ Head(n.pc) = "QCreateRing"
  BY <1>1
<1> QED
  BY <1>2 DEF WaitOf, WaitLabels

(* What the call makes of the stack.                                       *)
Stacked(me, cont, n) ==
    /\ Len(n.pc) = Len(cont) + Len(me.pc) - 1 /\ DOMAIN n.pc = 1 .. Len(n.pc)
    /\ Len(me.pc) \in Nat \ {0} /\ Len(cont) \in Nat /\ DOMAIN me.pc = 1 .. Len(me.pc)
    /\ \A i \in DOMAIN n.pc :
         \/ n.pc[i] \notin HalSteps /\ LockFor(n.pc[i]) = NoName
         \/ \E m \in 2 .. Len(me.pc) : n.pc[i] = me.pc[m] /\ i = Len(cont) + m - 1

Headed(cont, n) ==
    /\ n.pc # << >> => Head(n.pc) \in {"OS_Sched", "QCreateRing"} \cup Conts
    /\ WaitOf(n) = NextWait(cont)
    /\ WaitOf(n) # "none" => n.pc # << >> /\ cont = << "OS_Sched", WaitOf(n) >>
    /\ cont # << >> => n.pc # << >>

LEMMA CallStack ==
  ASSUME NEW me, StackOK(me.pc), me.pc # << >>, Head(me.pc) # "OS_Sched",
         NEW cont \in KernelConts, NEW n, n.pc = cont \o Tail(me.pc)
  PROVE  Stacked(me, cont, n) /\ Headed(cont, n)
<1>1. /\ Len(n.pc) = Len(cont) + Len(me.pc) - 1 /\ DOMAIN n.pc = 1 .. Len(n.pc)
      /\ Len(me.pc) \in Nat \ {0} /\ Len(cont) \in Nat /\ DOMAIN me.pc = 1 .. Len(me.pc)
      /\ \A i \in DOMAIN n.pc :
           \/ i \in DOMAIN cont /\ n.pc[i] = cont[i]
           \/ \E m \in 2 .. Len(me.pc) : n.pc[i] = me.pc[m] /\ i = Len(cont) + m - 1
  BY CallContSeq, Behind, NotEmpty DEF StackOK
<1>2. \A i \in DOMAIN cont : cont[i] \notin HalSteps /\ LockFor(cont[i]) = NoName
  BY CallContSeq, NoHalConts
<1>3. Stacked(me, cont, n)
  BY <1>1, <1>2 DEF Stacked
<1>4. CASE cont \in CallConts
  <2>1. /\ WaitOf(n) = NextWait(cont)
        /\ n.pc # << >> => Head(n.pc) \in {"OS_Sched"} \cup Conts
    BY <1>4, AfterCall
  <2>2. /\ NextWait(cont) \in WaitLabels \cup {"none"}
        /\ NextWait(cont) # "none" => cont = << "OS_Sched", NextWait(cont) >>
        /\ NextWait(cont) # "none" => cont # << >>
    BY <1>4, CallContsAre DEF NextWait
  <2>3. cont # << >> => n.pc # << >>
    BY <1>4, CallContsAre, StackMoves
  <2>4. Headed(cont, n)
    BY <2>1, <2>2, <2>3 DEF Headed
  <2> QED
    BY <1>3, <2>4
<1>5. CASE cont = << "QCreateRing" >>
  <2>1. WaitOf(n) = "none" /\ n.pc # << >> /\ Head(n.pc) = "QCreateRing"
    BY <1>5, AfterTake
  <2>2. NextWait(cont) = "none"
    BY <1>5 DEF NextWait
  <2> QED
    BY <1>3, <2>1, <2>2 DEF Headed
<1> QED
  BY <1>4, <1>5 DEF KernelConts

LEMMA CallFits ==
  ASSUME NEW me, StackOK(me.pc), me.pc # << >>, Head(me.pc) # "OS_Sched", Shallow(me),
         NEW cont \in KernelConts, NEW n, n.pc = cont \o Tail(me.pc), NEW h,
         cont = << "OS_Sched", "SemPended" >> =>
            \A name \in prog.owned : n.obj = name <=> n.ev = h[name],
         cont = << "OS_Sched", "MultiPended" >> =>
            \A name \in prog.owned : h[name] \notin n.ev
  PROVE  /\ \A k, t : Below(me, Owed(k, n, t)) => Entitled(prog.owned, k, n, t)
         /\ Rightful(prog.owned, h, n) /\ Shallow(n)
<1>1. Stacked(me, cont, n) /\ Headed(cont, n)
  BY CallStack
<1>2. /\ n.pc # << >> => Head(n.pc) \in {"OS_Sched", "QCreateRing"} \cup Conts
      /\ WaitOf(n) # "none" => n.pc # << >> /\ cont = << "OS_Sched", WaitOf(n) >>
  BY <1>1 DEF Headed
<1>3. ASSUME NEW k, NEW t, Below(me, Owed(k, n, t))
      PROVE  Entitled(prog.owned, k, n, t)
  <2>1. ASSUME NEW i \in DOMAIN n.pc, LockFor(n.pc[i]) # NoName
        PROVE  LockFor(n.pc[i]) \in Owed(k, n, t)
    BY <1>1, <1>3, <2>1 DEF Below, Stacked
  <2> QED
    BY <2>1 DEF Entitled, Owed
<1>4. ASSUME NEW i \in DOMAIN n.pc, n.pc[i] \in HalSteps
      PROVE  i = Len(n.pc)
  <2>1. PICK m \in 2 .. Len(me.pc) : n.pc[i] = me.pc[m] /\ i = Len(cont) + m - 1
    BY <1>1, <1>4 DEF Stacked
  <2>2. m \in DOMAIN me.pc /\ me.pc[m] \in HalSteps
    BY <1>1, <1>4, <2>1 DEF Stacked
  <2>3. m = Len(me.pc)
    BY <2>2 DEF Shallow
  <2> QED
    BY <1>1, <2>1, <2>3 DEF Stacked
<1>5. n.pc # << >> => Head(n.pc) \notin SemCalls \cup {"PendMulti", "LibUnlock"} \cup IoOps
  BY <1>2 DEF Conts, SemCalls, IoOps
<1>6. Rightful(prog.owned, h, n)
  <2>1. SemAt(n) => \A name \in prog.owned : n.obj = name <=> n.ev = h[name]
    BY <1>2, <1>5 DEF SemAt
  <2>2. ManyAt(n) => \A name \in prog.owned : h[name] \notin n.ev
    BY <1>2, <1>5 DEF ManyAt
  <2> QED
    BY <1>5, <2>1, <2>2 DEF Rightful, SemCalls, IoOps
<1> QED
  BY <1>3, <1>4, <1>6 DEF Shallow

LEMMA LeftOwns ==
  ASSUME NEW m, DOMAIN m = RunFields, NEW r
  PROVE  Left(r, m).owns = m.owns
  BY DEF Left, Settle, RunFields

(* What a call of the kernel returns.                                      *)
Fits(r) == KeepsTypes(os, r.k) /\ r.k.cur = Cur /\ r.cont \in KernelConts

LEMMA FitsIf ==
  ASSUME NEW r, \/ Serves(os, r) \/ PutsOff(os, r) \/ Suspends(os, r) \/ ComesBack(os, r)
                \/ GoesToSleep(os, r)
                \/ \E w \in WaitLabels : GoesToWait(os, r, w, Me.ev)
                \/ TakesBlock(os, r)
                \/ Adds(os, r.k) /\ r.cont = << >>
                \/ Relocks(os, r) /\ r.cont \in {<< >>, << "OS_Sched" >>}
  PROVE  Fits(r)
<1>1. {<< >>, << "OS_Sched" >>, << "QCreateRing" >>} \subseteq KernelConts
  BY DEF KernelConts, CallConts
<1>2. \A w \in WaitLabels : << "OS_Sched", w >> \in KernelConts
  BY DEF KernelConts, CallConts
<1>3. CASE Serves(os, r) \/ PutsOff(os, r)
  BY <1>1, <1>3, RousesCommon DEF Serves, PutsOff, Fits, Cur, Common
<1>4. CASE Suspends(os, r)
  BY <1>1, <1>4, SuspendsCommon DEF Suspends, Fits, Cur, Common
<1>5. CASE ComesBack(os, r) \/ GoesToSleep(os, r)
  BY <1>1, <1>5, OrderlyCommon DEF ComesBack, GoesToSleep, Fits, Cur, Common
<1>6. ASSUME NEW w \in WaitLabels, GoesToWait(os, r, w, Me.ev)
      PROVE  Fits(r)
  BY <1>2, <1>6, OrderlyCommon DEF GoesToWait, Fits, Cur, Common
<1>7. CASE TakesBlock(os, r) \/ (Adds(os, r.k) /\ r.cont = << >>)
  BY <1>1, <1>7, AddsCommon DEF TakesBlock, Fits, Cur, Common
<1>8. CASE Relocks(os, r) /\ r.cont \in {<< >>, << "OS_Sched" >>}
  BY <1>1, <1>8, SwitchesCommon DEF Relocks, Fits, Cur, Common
<1> QED
  BY <1>3, <1>4, <1>5, <1>6, <1>7, <1>8

(* The caller of a service, and what it becomes.                           *)
Called(r, m, n) ==
    /\ Stepping /\ PlainInv /\ UNCHANGED prog /\ os' = r.k
    /\ run' = [run EXCEPT ![Cur] = n]
    /\ os'.cur # Null /\ Cur \in os.list /\ Cur \in Tcb
    /\ StackOK(Me.pc) /\ Me.pc # << >> /\ Head(Me.pc) # "OS_Sched"
    /\ Entitled(prog.owned, os, Me, Cur) /\ Rightful(prog.owned, obj, Me) /\ Shallow(Me)
    /\ Below(Me, Owed(os, Me, Cur))
    /\ n.pc = r.cont \o Tail(Me.pc) /\ n.owns = m.owns
    /\ n.pc # << >> => n.obj = Me.obj /\ n.ev = Me.ev
    /\ Headed(r.cont, n)
    /\ WaitOf(Me) = "SemPended" => Head(Me.pc) = "SemPended"

LEMMA CallIs ==
  ASSUME NEW r, NEW m, Calling(r, m), LocksOK, Fits(r), NEW n, n = Left(r, m)
  PROVE  Called(r, m, n)
<1>1. Stepping /\ Me.pc # << >> /\ Head(Me.pc) # "OS_Sched" /\ Alike(Me, m) /\ Leave(r, m)
  BY DEF Calling
<1>2. os' = r.k /\ run' = [run EXCEPT ![Cur] = n] /\ os'.cur # Null /\ UNCHANGED prog
  BY <1>1 DEF Leave, Fits, Stepping, Running, Cur
<1>3. PlainInv /\ Cur \in os.list /\ Cur \in Tcb /\ ThreadOK(prog, os, Me)
  BY <1>1, StepperIs DEF Stepping
<1>4. StackOK(Me.pc) /\ Me.hand \subseteq Block
  BY <1>3 DEF ThreadOK
<1>5. Entitled(prog.owned, os, Me, Cur) /\ Rightful(prog.owned, obj, Me) /\ Shallow(Me)
  BY <1>3 DEF LocksOK, Me
<1>6. GoesOn(Me, r.cont, r.loc, n) /\ n.owns = m.owns
  <2>1. DOMAIN m = RunFields
    BY <1>1 DEF Alike
  <2> HIDE DEF Me
  <2> QED
    BY <1>1, <1>4, <2>1, LeftIs, LeftOwns
<1>7. /\ n.pc = r.cont \o Tail(Me.pc)
      /\ n.pc # << >> => n.obj = Me.obj /\ n.ev = Me.ev
  BY <1>6 DEF GoesOn
<1>8. Headed(r.cont, n) /\ Below(Me, Owed(os, Me, Cur))
  <2> HIDE DEF Me
  <2> QED
    BY <1>1, <1>4, <1>5, <1>7, CallStack, BelowIs DEF Fits
<1>9. WaitOf(Me) = "SemPended" => Head(Me.pc) = "SemPended"
  BY <1>1 DEF WaitOf
<1> QED
  BY <1>1, <1>2, <1>3, <1>4, <1>5, <1>6, <1>7, <1>8, <1>9 DEF Called

(* A call that concerns no semaphore that is owned.                        *)
LEMMA CallKeeps ==
  ASSUME NEW r, NEW m, Calling(r, m), LocksOK, Fits(r),
         r.cont = << "OS_Sched", "SemPended" >> => Head(Me.pc) = "SemPend",
         r.cont = << "OS_Sched", "MultiPended" >> => Head(Me.pc) = "PendMulti",
         SemAt(Me) => Me.obj \notin prog.owned,
         \A n \in prog.owned : n \in m.owns <=> n \in Me.owns,
         \A n \in prog.owned : obj'[n] = obj[n],
         \A a \in Names(prog) \ GroupNames(prog) :
            obj'[a] \in {obj[a], Null} \/ os.event[obj'[a]].type # "SEM",
         NEW S, SemsKept(os, r.k, os.list \ {Cur}, S), Untouched(S)
  PROVE  LocksOK'
<1>1. PICK n : n = Left(r, m)
  OBVIOUS
<1>0. Called(r, m, n)
  BY <1>1, CallIs
<1>2. /\ Stepping /\ PlainInv /\ UNCHANGED prog /\ os' = r.k
      /\ run' = [run EXCEPT ![Cur] = n]
      /\ os'.cur # Null /\ Cur \in os.list /\ Cur \in Tcb
      /\ StackOK(Me.pc) /\ Me.pc # << >> /\ Head(Me.pc) # "OS_Sched"
      /\ Entitled(prog.owned, os, Me, Cur) /\ Rightful(prog.owned, obj, Me) /\ Shallow(Me)
      /\ Below(Me, Owed(os, Me, Cur))
      /\ n.pc = r.cont \o Tail(Me.pc) /\ n.owns = m.owns
      /\ n.pc # << >> => n.obj = Me.obj /\ n.ev = Me.ev
      /\ Headed(r.cont, n)
      /\ WaitOf(Me) = "SemPended" => Head(Me.pc) = "SemPended"
  BY <1>0 DEF Called
<1>3. r.cont = << "OS_Sched", "SemPended" >> \/ r.cont = << "OS_Sched", "MultiPended" >> =>
        n.obj = Me.obj /\ n.ev = Me.ev
  <2>1. << "OS_Sched", "SemPended" >> # << >> /\ << "OS_Sched", "MultiPended" >> # << >>
    OBVIOUS
  <2> QED
    BY <1>2, <2>1 DEF Headed
<1>4. r.cont = << "OS_Sched", "SemPended" >> =>
        /\ Me.obj \notin prog.owned
        /\ \A name \in prog.owned : n.obj = name <=> n.ev = obj'[name]
  BY <1>2, <1>3 DEF Rightful, SemAt, SemCalls
<1>5. r.cont = << "OS_Sched", "MultiPended" >> =>
        \A name \in prog.owned : obj'[name] \notin n.ev
  BY <1>2, <1>3 DEF Rightful, ManyAt
<1>6. \A name \in prog.owned : ~Obtains(os, Me, Cur, name)
  BY DEF Obtains, SemAt, SemCalls
<1>7. Below(Me, Owed(r.k, n, Cur))
  BY <1>2, <1>6 DEF Below, Owed
<1>8. r.cont \in KernelConts
  BY DEF Fits
<1>9. /\ Entitled(prog.owned, os', n, Cur)
      /\ Rightful(prog.owned, obj', n) /\ Shallow(n)
  <2>1. PICK h : h = obj'
    OBVIOUS
  <2>2. /\ r.cont = << "OS_Sched", "SemPended" >> =>
             \A name \in prog.owned : n.obj = name <=> n.ev = h[name]
        /\ r.cont = << "OS_Sched", "MultiPended" >> =>
             \A name \in prog.owned : h[name] \notin n.ev
    BY <1>4, <1>5, <2>1
  <2> HIDE DEF Me
  <2>3. /\ \A k, t : Below(Me, Owed(k, n, t)) => Entitled(prog.owned, k, n, t)
        /\ Rightful(prog.owned, h, n) /\ Shallow(n)
    BY <1>2, <1>8, <2>2, CallFits
  <2> QED
    BY <1>2, <1>7, <2>1, <2>3
<1>10. ASSUME NEW x \in prog.owned
       PROVE  /\ Holder(n, x) <=> Holder(Me, x)
              /\ ~Heir(os', n, Cur, x) /\ ~Heir(os, Me, Cur, x)
  <2>1. Holder(n, x) <=> Holder(Me, x)
    BY <1>2 DEF Holder
  <2>2. ~Heir(os, Me, Cur, x)
    BY DEF Heir, SemAt
  <2>3. ~Heir(os', n, Cur, x)
    BY <1>2, <1>3, <1>4 DEF Heir, Headed
  <2> QED
    BY <2>1, <2>2, <2>3
<1>11. /\ \A x \in prog.owned : obj[x] \notin S
       /\ KeepsTypes(os, os') /\ SemsKept(os, os', os.list \ {Cur}, S)
  BY <1>2 DEF Untouched, Fits
<1> QED
  BY <1>2, <1>9, <1>10, <1>11, RunnerKeeps

-----------------------------------------------------------------------------
(* The calls that concern no semaphore.                                    *)

Elsewhere(r, l) ==
    \/ Serves(os, r) \/ PutsOff(os, r) \/ Suspends(os, r) \/ ComesBack(os, r)
    \/ GoesToSleep(os, r)
    \/ \E w \in WaitLabels :
         /\ GoesToWait(os, r, w, Me.ev) /\ w # "SemPended"
         /\ w = "MultiPended" => l = "PendMulti"
    \/ TakesBlock(os, r)
    \/ Relocks(os, r) /\ r.cont \in {<< >>, << "OS_Sched" >>}

LEMMA ElsewhereIs ==
  ASSUME NEW l, NEW r, Elsewhere(r, l)
  PROVE  /\ Fits(r) /\ r.cont # << "OS_Sched", "SemPended" >>
         /\ r.cont = << "OS_Sched", "MultiPended" >> => l = "PendMulti"
<1>1. Fits(r)
  BY FitsIf DEF Elsewhere
<1>2. CASE \E w \in WaitLabels :
              /\ GoesToWait(os, r, w, Me.ev) /\ w # "SemPended"
              /\ w = "MultiPended" => l = "PendMulti"
  <2>1. PICK w \in WaitLabels : /\ GoesToWait(os, r, w, Me.ev) /\ w # "SemPended"
                                /\ w = "MultiPended" => l = "PendMulti"
    BY <1>2
  <2>2. r.cont = << "OS_Sched", w >>
    BY <2>1 DEF GoesToWait
  <2> QED
    BY <1>1, <2>1, <2>2
<1>3. CASE r.cont \in {<< >>, << "OS_Sched" >>, << "QCreateRing" >>}
  <2>1. /\ r.cont # << "OS_Sched", "SemPended" >>
        /\ r.cont # << "OS_Sched", "MultiPended" >>
    BY <1>3
  <2> QED
    BY <1>1, <2>1
<1>4. Suspends(os, r) => r.cont \in {<< >>, << "OS_Sched" >>}
  BY DEF Suspends
<1>5. Serves(os, r) \/ PutsOff(os, r) \/ ComesBack(os, r) \/ GoesToSleep(os, r)
        \/ TakesBlock(os, r) => r.cont \in {<< >>, << "OS_Sched" >>, << "QCreateRing" >>}
  BY DEF Serves, PutsOff, ComesBack, GoesToSleep, TakesBlock
<1> QED
  BY <1>2, <1>3, <1>4, <1>5 DEF Elsewhere

LEMMA Harmless ==
  ASSUME Stepping, LocksOK, NEW l, At(l), l \notin SemCalls \cup {"SemPended", "OS_Sched"},
         NEW r, NEW m, Quietly(r, m), Alike(Me, m), m.owns = Me.owns, Elsewhere(r, l),
         NEW S, SemsKept(os, r.k, os.list \ {Cur}, S), Untouched(S)
  PROVE  LocksOK'
<1>1. /\ Fits(r) /\ r.cont # << "OS_Sched", "SemPended" >>
      /\ r.cont = << "OS_Sched", "MultiPended" >> => l = "PendMulti"
  BY ElsewhereIs
<1>2. Calling(r, m) /\ UNCHANGED obj /\ Head(Me.pc) = l
  BY DEF Calling, At, Quietly
<1>3. ~SemAt(Me)
  BY <1>2 DEF SemAt, At, WaitOf
<1> QED
  BY <1>1, <1>2, <1>3, CallKeeps

LEMMA NoSemaphore ==
  ASSUME PlainInv, LocksOK, NEW e \in Ecb, os.event[e].type # "SEM"
  PROVE  Untouched({e})
<1>1. Null \notin Ecb
  BY NullIsNone
<1> QED
  BY <1>1 DEF LocksOK, OneHandle, Untouched

LEMMA NobodyTouched == Untouched({})
  BY DEF Untouched

(* The kernel without the caller.                                          *)
LEMMA OthersTouched ==
  ASSUME NEW j, NEW S, Touches(os, j, os.list, S) \/ Touches(os, j, os.list \ {Cur}, S)
  PROVE  SemsKept(os, j, os.list \ {Cur}, S)
<1>1. Touches(os, j, os.list \ {Cur}, S)
  BY FewerTouched
<1> QED
  BY <1>1, TouchesKeeps

(* A call to a mailbox or a queue.                                         *)
LEMMA MailKeeps ==
  ASSUME Stepping, LocksOK, NEW l \in EventOps, At(l), TypeFor(l) # "SEM",
         NEW r, NEW m, Quietly(r, m), m \in {Me, Sends(r, Me.arg)}, Elsewhere(r, l),
         \/ Touches(os, r.k, os.list, {Me.ev}) \/ Touches(os, r.k, os.list \ {Cur}, {Me.ev})
         \/ Touches(os, r.k, os.list \ {Cur}, {})
  PROVE  LocksOK'
<1>1. /\ DOMAIN Me = RunFields /\ Me.ev \in Ecb /\ os.event[Me.ev].type # "SEM"
      /\ l \notin {"SemPended", "OS_Sched"}
  BY EventCaller DEF EventOps
<1>2. l \notin SemCalls
  BY DEF SemCalls, TypeFor
<1>3. Alike(Me, m) /\ m.owns = Me.owns
  <2>1. Alike(Me, m)
    BY <1>1, AlikeIs
  <2>2. Sends(r, Me.arg).owns = Me.owns
    <3> HIDE DEF Me
    <3> QED
      BY <1>1 DEF Sends, RunFields
  <2> QED
    BY <2>1, <2>2
<1>4. Untouched({Me.ev})
  BY <1>1, NoSemaphore DEF Stepping
<1>5. Touches(os, r.k, os.list, {Me.ev}) \/ Touches(os, r.k, os.list \ {Cur}, {Me.ev})
  BY FewerTouched
<1>6. SemsKept(os, r.k, os.list \ {Cur}, {Me.ev})
  BY <1>5, OthersTouched
<1> QED
  BY <1>1, <1>2, <1>3, <1>4, <1>6, Harmless

(* A task that returns from a wait for anything but a semaphore.           *)
LEMMA ReturnKeeps ==
  ASSUME Stepping, LocksOK, NEW l \in WaitLabels \ {"SemPended"}, At(l), NEW r,
         Quietly(r, Me), ComesBack(os, r), Touches(os, r.k, os.list \ {Cur}, {})
  PROVE  LocksOK'
<1>1. l \notin SemCalls \cup {"SemPended", "OS_Sched"}
  BY DEF WaitLabels, SemCalls
<1>2. Alike(Me, Me) /\ Me.owns = Me.owns
  BY <1>1, CallerIs, AlikeIs
<1>3. SemsKept(os, r.k, os.list \ {Cur}, {}) /\ Untouched({}) /\ Elsewhere(r, l)
  BY OthersTouched, NobodyTouched DEF Elsewhere
<1> QED
  BY <1>1, <1>2, <1>3, Harmless

LEMMA MboxKeeps ==
  ASSUME Stepping, LocksOK,
         \/ MboxAccept \/ MboxPend \/ MboxReturn \/ MboxPost \/ MboxPostOpt
         \/ MboxAbort
  PROVE  LocksOK'
<1> DEFINE Ops == {"MboxAccept", "MboxPend", "MboxPost", "MboxPostOpt", "MboxPendAbort"}
<1>0. \A op \in Ops : op \in EventOps /\ TypeFor(op) = "MBOX"
  BY DEF EventOps, TypeFor
<1> DEFINE Given(op) == /\ Sound(os) /\ Idle(os) /\ os \in Kernel
                        /\ Me.ev \in Ecb /\ os.event[Me.ev].type = "MBOX"
                        /\ ArgOK(op, Me.arg)
<1>01. ASSUME NEW op \in Ops, At(op)
       PROVE  Given(op)
  BY <1>0, <1>01, EventCaller DEF Sound
<1> HIDE DEF Given
<1>1. CASE MboxAccept
  <2> DEFINE r == OSMboxAccept(os, Me.ev)
  <2>1. At("MboxAccept") /\ Quietly(r, Me)
    BY <1>1 DEF MboxAccept
  <2>2. Given("MboxAccept")
    BY <1>01, <2>1
  <2>3. Serves(os, r) /\ Touches(os, r.k, os.list, {Me.ev})
    BY <2>2, MboxAcceptServes, FillTouches DEF Given
  <2> HIDE DEF r
  <2> QED
    BY <1>0, <2>1, <2>3, MailKeeps DEF Elsewhere
<1>2. CASE MboxPend
  <2> DEFINE r == OSMboxPend(os, Me.ev, Me.arg)
  <2>1. At("MboxPend") /\ Quietly(r, Me)
    BY <1>2 DEF MboxPend
  <2>2. Given("MboxPend") /\ "MboxPend" \in Waiters /\ "MboxPended" \in WaitLabels
    BY <1>01, <2>1 DEF Waiters, WaitLabels
  <2>3. Idle(os) /\ Me.ev \in Ecb /\ Me.arg \in Nat /\ os.event[Me.ev].type = "MBOX"
    BY <2>2 DEF Given, ArgOK
  <2>4. /\ Serves(os, r) \/ GoesToWait(os, r, "MboxPended", Me.ev)
        /\ Touches(os, r.k, os.list \ {Cur}, {})
    BY <2>3, MboxPendServes, MboxWaitTouches DEF Cur
  <2> HIDE DEF r
  <2>5. Elsewhere(r, "MboxPend")
    BY <2>2, <2>4 DEF Elsewhere
  <2> QED
    BY <1>0, <2>1, <2>4, <2>5, MailKeeps
<1>3. CASE MboxReturn
  <2> DEFINE r == MboxPended(os, Me.ev)
  <2>1. At("MboxPended") /\ Quietly(r, Me) /\ "MboxPended" \in WaitLabels
    BY <1>3 DEF MboxReturn, WaitLabels
  <2>2. WaitsForOne(os, Cur, "MBOX", Me.ev) /\ Sound(os) /\ os.cur \in os.list
    BY <2>1, CallerIs DEF TaskOK, KindOf
  <2>3. ComesBack(os, r) /\ Touches(os, r.k, os.list \ {Cur}, {})
    BY <2>1, <2>2, CallerIs, MboxPendedBack, MessageTouches DEF WaitsForOne, Cur
  <2> HIDE DEF r
  <2> QED
    BY <2>1, <2>3, ReturnKeeps
<1>4. CASE MboxPost
  <2> DEFINE r == OSMboxPost(os, Me.ev, Me.arg)
  <2>1. At("MboxPost") /\ Quietly(r, Sends(r, Me.arg))
    BY <1>4 DEF MboxPost
  <2>2. Given("MboxPost") /\ Me.arg \in Int
    BY <1>01, <2>1 DEF Given, ArgOK
  <2>3. Serves(os, r) /\ Touches(os, r.k, os.list, {Me.ev})
    BY <2>2, MboxPostServes, MboxTouches DEF Given
  <2> HIDE DEF r
  <2> QED
    BY <1>0, <2>1, <2>3, MailKeeps DEF Elsewhere
<1>5. CASE MboxPostOpt
  <2> DEFINE r == OSMboxPostOpt(os, Me.ev, Notice, Me.arg)
  <2>1. At("MboxPostOpt") /\ Quietly(r, Me)
    BY <1>5 DEF MboxPostOpt
  <2>2. Given("MboxPostOpt") /\ Notice \in Int
    BY <1>01, <2>1 DEF Notice
  <2>3. /\ Serves(os, r) \/ PutsOff(os, r)
        /\ Touches(os, r.k, os.list, {Me.ev})
    BY <2>2, MboxPostOptServes, MboxTouches DEF Given
  <2> HIDE DEF r
  <2>4. Elsewhere(r, "MboxPostOpt")
    BY <2>3 DEF Elsewhere
  <2> QED
    BY <1>0, <2>1, <2>3, <2>4, MailKeeps
<1>6. CASE MboxAbort
  <2> DEFINE r == OSMboxPendAbort(os, Me.ev, Me.arg)
  <2>1. At("MboxPendAbort") /\ Quietly(r, Me)
    BY <1>6 DEF MboxAbort
  <2>2. Given("MboxPendAbort") /\ Me.arg \in {"NONE", "BROADCAST"}
    BY <1>01, <2>1 DEF Given, ArgOK
  <2>3. Serves(os, r) /\ Touches(os, r.k, os.list, {Me.ev})
    BY <2>2, AbortServes, AbortTouches DEF Given, OSMboxPendAbort, EventTypes
  <2> HIDE DEF r
  <2> QED
    BY <1>0, <2>1, <2>3, MailKeeps DEF Elsewhere
<1> QED
  BY <1>1, <1>2, <1>3, <1>4, <1>5, <1>6

LEMMA QKeeps ==
  ASSUME Stepping, LocksOK,
         \/ QAccept \/ QPend \/ QReturn \/ QPost \/ QPostFront \/ QPostOpt
         \/ QAbort \/ QFlush
  PROVE  LocksOK'
<1> DEFINE Ops == {"QAccept", "QPend", "QPost", "QPostFront", "QPostOpt", "QPendAbort",
                 "QFlush"}
<1>0. \A op \in Ops : op \in EventOps /\ TypeFor(op) = "Q"
  BY DEF EventOps, TypeFor
<1> DEFINE Given(op) == /\ Sound(os) /\ Idle(os) /\ os \in Kernel
                        /\ Me.ev \in Ecb /\ os.event[Me.ev].type = "Q"
                        /\ ArgOK(op, Me.arg)
<1>01. ASSUME NEW op \in Ops, At(op)
       PROVE  Given(op)
  BY <1>0, <1>01, EventCaller DEF Sound
<1> HIDE DEF Given
<1>1. CASE QAccept
  <2> DEFINE r == OSQAccept(os, Me.ev)
  <2>1. At("QAccept") /\ Quietly(r, Me)
    BY <1>1 DEF QAccept
  <2>2. Given("QAccept")
    BY <1>01, <2>1
  <2>3. Serves(os, r) /\ Touches(os, r.k, os.list, {Me.ev})
    BY <2>2, QAcceptServes, EnqueueTouches DEF Given
  <2> HIDE DEF r
  <2> QED
    BY <1>0, <2>1, <2>3, MailKeeps DEF Elsewhere
<1>2. CASE QPend
  <2> DEFINE r == OSQPend(os, Me.ev, Me.arg)
  <2>1. At("QPend") /\ Quietly(r, Me)
    BY <1>2 DEF QPend
  <2>2. Given("QPend") /\ "QPend" \in Waiters /\ "QPended" \in WaitLabels
    BY <1>01, <2>1 DEF Waiters, WaitLabels
  <2>3. Idle(os) /\ Me.ev \in Ecb /\ Me.arg \in Nat /\ os.event[Me.ev].type = "Q"
    BY <2>2 DEF Given, ArgOK
  <2>4. /\ Serves(os, r) \/ GoesToWait(os, r, "QPended", Me.ev)
        /\ Touches(os, r.k, os.list \ {Cur}, {})
    BY <2>3, QPendServes, QWaitTouches DEF Cur
  <2> HIDE DEF r
  <2>5. Elsewhere(r, "QPend")
    BY <2>2, <2>4 DEF Elsewhere
  <2> QED
    BY <1>0, <2>1, <2>4, <2>5, MailKeeps
<1>3. CASE QReturn
  <2> DEFINE r == QPended(os, Me.ev)
  <2>1. At("QPended") /\ Quietly(r, Me) /\ "QPended" \in WaitLabels
    BY <1>3 DEF QReturn, WaitLabels
  <2>2. WaitsForOne(os, Cur, "Q", Me.ev) /\ Sound(os) /\ os.cur \in os.list
    BY <2>1, CallerIs DEF TaskOK, KindOf
  <2>3. ComesBack(os, r) /\ Touches(os, r.k, os.list \ {Cur}, {})
    BY <2>1, <2>2, CallerIs, QPendedBack, MessageTouches DEF WaitsForOne, Cur
  <2> HIDE DEF r
  <2> QED
    BY <2>1, <2>3, ReturnKeeps
<1>4. CASE QPost
  <2> DEFINE r == OSQPost(os, Me.ev, Me.arg)
  <2>1. At("QPost") /\ Quietly(r, Sends(r, Me.arg))
    BY <1>4 DEF QPost
  <2>2. Given("QPost") /\ Me.arg \in Int
    BY <1>01, <2>1 DEF Given, ArgOK
  <2>3. Serves(os, r) /\ Touches(os, r.k, os.list, {Me.ev})
    BY <2>2, QPostServes, QTouches DEF Given
  <2> HIDE DEF r
  <2> QED
    BY <1>0, <2>1, <2>3, MailKeeps DEF Elsewhere
<1>5. CASE QPostOpt
  <2> DEFINE r == OSQPostOpt(os, Me.ev, Notice, Me.arg)
  <2>1. At("QPostOpt") /\ Quietly(r, Me)
    BY <1>5 DEF QPostOpt
  <2>2. Given("QPostOpt") /\ Notice \in Int
    BY <1>01, <2>1 DEF Notice
  <2>3. /\ Serves(os, r) \/ PutsOff(os, r)
        /\ Touches(os, r.k, os.list, {Me.ev})
    BY <2>2, QPostOptServes, QTouches DEF Given
  <2> HIDE DEF r
  <2>4. Elsewhere(r, "QPostOpt")
    BY <2>3 DEF Elsewhere
  <2> QED
    BY <1>0, <2>1, <2>3, <2>4, MailKeeps
<1>6. CASE QAbort
  <2> DEFINE r == OSQPendAbort(os, Me.ev, Me.arg)
  <2>1. At("QPendAbort") /\ Quietly(r, Me)
    BY <1>6 DEF QAbort
  <2>2. Given("QPendAbort") /\ Me.arg \in {"NONE", "BROADCAST"}
    BY <1>01, <2>1 DEF Given, ArgOK
  <2>3. Serves(os, r) /\ Touches(os, r.k, os.list, {Me.ev})
    BY <2>2, AbortServes, AbortTouches DEF Given, OSQPendAbort, EventTypes
  <2> HIDE DEF r
  <2> QED
    BY <1>0, <2>1, <2>3, MailKeeps DEF Elsewhere
<1>7. CASE QPostFront
  <2> DEFINE r == OSQPostFront(os, Me.ev, Me.arg)
  <2>1. At("QPostFront") /\ Quietly(r, Sends(r, Me.arg))
    BY <1>7 DEF QPostFront
  <2>2. Given("QPostFront") /\ Me.arg \in Int
    BY <1>01, <2>1 DEF Given, ArgOK
  <2>3. Serves(os, r) /\ Touches(os, r.k, os.list, {Me.ev})
    BY <2>2, QPostServes, QTouches DEF Given
  <2> HIDE DEF r
  <2> QED
    BY <1>0, <2>1, <2>3, MailKeeps DEF Elsewhere
<1>8. CASE QFlush
  <2> DEFINE r == OSQFlush(os, Me.ev)
  <2>1. At("QFlush") /\ Quietly(r, Me)
    BY <1>8 DEF QFlush
  <2>2. Given("QFlush")
    BY <1>01, <2>1
  <2>3. Serves(os, r) /\ Touches(os, r.k, os.list, {Me.ev})
    BY <2>2, QFlushServes, EnqueueTouches DEF Given
  <2> HIDE DEF r
  <2> QED
    BY <1>0, <2>1, <2>3, MailKeeps DEF Elsewhere
<1> QED
  BY <1>1, <1>2, <1>3, <1>4, <1>5, <1>6, <1>7, <1>8

LEMMA MemKeeps ==
  ASSUME Stepping, LocksOK, MemGet \/ MemPut
  PROVE  LocksOK'
<1>1. CASE MemGet
  <2> DEFINE r == OSMemGet(os)
  <2>1. At("MemGet") /\ Quietly(r, Me)
    BY <1>1 DEF MemGet
  <2>2. "MemGet" \notin SemCalls \cup {"SemPended", "OS_Sched"}
    BY DEF SemCalls
  <2>3. Serves(os, r) /\ Alike(Me, Me) /\ Touches(os, r.k, os.list, {})
    BY <2>1, <2>2, CallerIs, MemGetServes, AlikeIs, MemTouches
  <2> HIDE DEF r
  <2>4. Elsewhere(r, "MemGet") /\ SemsKept(os, r.k, os.list \ {Cur}, {}) /\ Untouched({})
    BY <2>3, OthersTouched, NobodyTouched DEF Elsewhere
  <2> QED
    BY <2>1, <2>2, <2>3, <2>4, Harmless
<1>2. CASE MemPut
  <2> DEFINE blk == CHOOSE b \in Me.hand : TRUE
             r == OSMemPut(os, blk)
  <2>1. At("MemPut") /\ Quietly(r, Sends(r, blk))
    BY <1>2 DEF MemPut
  <2>2. "MemPut" \notin SemCalls \cup {"SemPended", "OS_Sched"}
    BY DEF SemCalls
  <2>3. HeadOK(prog, os, Me, "MemPut") /\ Me.hand \subseteq Block /\ DOMAIN Me = RunFields
    BY <2>1, <2>2, CallerIs
  <2>4. blk \in Block
    BY <2>3 DEF HeadOK
  <2> HIDE DEF blk
  <2>5. Serves(os, r) /\ Alike(Me, Sends(r, blk)) /\ Touches(os, r.k, os.list, {})
    BY <2>1, <2>2, <2>4, CallerIs, MemPutServes, AlikeIs, MemTouches
  <2> HIDE DEF r
  <2>6. Elsewhere(r, "MemPut") /\ SemsKept(os, r.k, os.list \ {Cur}, {}) /\ Untouched({})
    BY <2>5, OthersTouched, NobodyTouched DEF Elsewhere
  <2>7. Sends(r, blk).owns = Me.owns
    <3> HIDE DEF Me
    <3> QED
      BY <2>3 DEF Sends, RunFields
  <2> QED
    BY <2>1, <2>2, <2>5, <2>6, <2>7, Harmless
<1> QED
  BY <1>1, <1>2

LEMMA MultiKeeps ==
  ASSUME Stepping, LocksOK, PendMulti \/ MultiReturn
  PROVE  LocksOK'
<1>1. CASE PendMulti
  <2> DEFINE r == OSEventPendMulti(os, Me.ev, Me.arg.timeout)
  <2>1. At("PendMulti") /\ Quietly(r, Me)
    BY <1>1 DEF PendMulti
  <2>2. "PendMulti" \notin SemCalls \cup {"SemPended", "OS_Sched"} \cup WaitLabels
        /\ "MultiPended" \in WaitLabels
    BY DEF SemCalls, WaitLabels
  <2>3. /\ Me.ev \in SUBSET Ecb /\ Me.ev # {} /\ Me.arg.timeout \in Nat
        /\ \A e \in Me.ev : os.event[e].type \in EventTypes
        /\ Idle(os) /\ Alike(Me, Me)
    BY <2>1, <2>2, CallerIs, AlikeIs DEF HeadOK, ArgOK
  <2>4. /\ Serves(os, r) \/ GoesToWait(os, r, "MultiPended", Me.ev)
        /\ Touches(os, r.k, os.list \ {Cur}, Me.ev)
    BY <2>3, PendMultiServes, MultiTouches DEF Cur
  <2>5. Untouched(Me.ev)
    <3>1. Rightful(prog.owned, obj, Me)
      BY StepperIs DEF LocksOK, Me
    <3> QED
      BY <2>1, <3>1 DEF Rightful, ManyAt, At, Untouched
  <2> HIDE DEF r
  <2>6. Elsewhere(r, "PendMulti") /\ SemsKept(os, r.k, os.list \ {Cur}, Me.ev)
    BY <2>2, <2>4, OthersTouched DEF Elsewhere
  <2> QED
    BY <2>1, <2>2, <2>3, <2>5, <2>6, Harmless
<1>2. CASE MultiReturn
  <2> DEFINE r == MultiPended(os, Me.ev)
  <2>1. At("MultiPended") /\ Quietly(r, Me) /\ "MultiPended" \in WaitLabels
    BY <1>2 DEF MultiReturn, WaitLabels
  <2>2. WaitsForAny(os, Cur, Me.ev) /\ Sound(os) /\ os.cur \in os.list
    BY <2>1, CallerIs DEF TaskOK
  <2>3. ComesBack(os, r) /\ Touches(os, r.k, os.list \ {Cur}, {})
    BY <2>1, <2>2, CallerIs, MultiPendedBack, MultiBackTouches DEF Cur
  <2> HIDE DEF r
  <2> QED
    BY <2>1, <2>3, ReturnKeeps
<1> QED
  BY <1>1, <1>2

LEMMA FlagKeeps ==
  ASSUME Stepping, LocksOK, FlagAccept \/ FlagPend \/ FlagReturn \/ FlagPost
  PROVE  LocksOK'
<1>1. ASSUME NEW l \in FlagOps, At(l), NEW r, Quietly(r, Me), Elsewhere(r, l),
             Touches(os, r.k, os.list, {}) \/ Touches(os, r.k, os.list \ {Cur}, {})
      PROVE  LocksOK'
  <2>1. l \notin SemCalls \cup {"SemPended", "OS_Sched"}
    BY DEF FlagOps, SemCalls
  <2>2. Alike(Me, Me) /\ SemsKept(os, r.k, os.list \ {Cur}, {}) /\ Untouched({})
    BY <1>1, FlagCaller, AlikeIs, OthersTouched, NobodyTouched
  <2> QED
    BY <1>1, <2>1, <2>2, Harmless
<1>2. CASE FlagAccept
  <2> DEFINE r == OSFlagAccept(os, Me.ev, Me.arg)
  <2>1. At("FlagAccept") /\ Quietly(r, Me) /\ "FlagAccept" \in FlagOps
    BY <1>2 DEF FlagAccept, FlagOps
  <2>2. Serves(os, r) /\ Touches(os, r.k, os.list \ {Cur}, {})
    BY <2>1, FlagCaller, FlagAcceptServes, FlagTouches DEF ArgOK, Idle, Cur
  <2> HIDE DEF r
  <2> QED
    BY <1>1, <2>1, <2>2 DEF Elsewhere
<1>3. CASE FlagPend
  <2> DEFINE r == OSFlagPend(os, Me.ev, Me.arg)
  <2>1. At("FlagPend") /\ Quietly(r, Me) /\ "FlagPend" \in FlagOps
        /\ "FlagPended" \in WaitLabels
    BY <1>3 DEF FlagPend, FlagOps, WaitLabels
  <2>2. /\ Serves(os, r) \/ GoesToWait(os, r, "FlagPended", Me.ev)
        /\ Touches(os, r.k, os.list \ {Cur}, {})
    BY <2>1, FlagCaller, FlagPendServes, FlagTouches DEF ArgOK, Idle, Cur
  <2> HIDE DEF r
  <2>3. Elsewhere(r, "FlagPend")
    BY <2>1, <2>2 DEF Elsewhere
  <2> QED
    BY <1>1, <2>1, <2>2, <2>3
<1>4. CASE FlagReturn
  <2> DEFINE r == FlagPended(os, Me.ev, Me.arg)
  <2>1. At("FlagPended") /\ Quietly(r, Me) /\ "FlagPended" \in WaitLabels
    BY <1>4 DEF FlagReturn, WaitLabels
  <2>2. WaitsForFlags(os, Cur, Me.ev) /\ Sound(os) /\ os.cur \in os.list
    BY <2>1, CallerIs DEF TaskOK
  <2>3. ComesBack(os, r) /\ Touches(os, r.k, os.list \ {Cur}, {})
    BY <2>1, <2>2, CallerIs, FlagPendedBack, FlagTouches DEF WaitsForFlags, Cur
  <2> HIDE DEF r
  <2> QED
    BY <2>1, <2>3, ReturnKeeps
<1>5. CASE FlagPost
  <2> DEFINE r == OSFlagPost(os, Me.ev, Me.arg.flags, Me.arg.opt)
  <2>1. At("FlagPost") /\ Quietly(r, Me) /\ "FlagPost" \in FlagOps
    BY <1>5 DEF FlagPost, FlagOps
  <2>2. Me.arg.flags \in SUBSET FlagNames
    BY <2>1, FlagCaller DEF ArgOK
  <2>3. Serves(os, r) /\ Touches(os, r.k, os.list, {})
    BY <2>1, <2>2, FlagCaller, FlagPostServes, FlagPostTouches
  <2> HIDE DEF r
  <2> QED
    BY <1>1, <2>1, <2>3 DEF Elsewhere
<1> QED
  BY <1>2, <1>3, <1>4, <1>5

LEMMA TaskKeeps ==
  ASSUME Stepping, LocksOK,
         TaskDelReq \/ TaskSuspend \/ TaskResume \/ TimeDly \/ TimeDlyResume
  PROVE  LocksOK'
<1> DEFINE Ops == {"TaskDelReq", "TaskSuspend", "TaskResume", "TimeDlyResume"}
<1>1. \A op \in Ops \cup {"TimeDly"} : op \notin SemCalls \cup {"SemPended", "OS_Sched"} \cup WaitLabels
  BY DEF WaitLabels, SemCalls
<1>2. ASSUME NEW op \in Ops, At(op)
      PROVE  /\ Sound(os) /\ os.cur \in os.list /\ os.tcb[os.cur].prio # IdlePrio
             /\ Me.arg.prio \in Prio \cup {Self} /\ HeadOK(prog, os, Me, op)
  <2>1. op # "OS_Sched"
    BY <1>1
  <2>2. /\ Sound(os) /\ os.cur \in os.list /\ os.tcb[os.cur].prio # IdlePrio
        /\ HeadOK(prog, os, Me, op)
    BY <1>2, <2>1, CallerIs
  <2>3. ArgOK(op, Me.arg)
    BY <2>2 DEF HeadOK
  <2> QED
    BY <2>2, <2>3 DEF ArgOK
<1>3. ASSUME NEW op \in Ops \cup {"TimeDly"}, At(op), NEW r, Quietly(r, Me), Elsewhere(r, op),
             SemsKept(os, r.k, os.list \ {Cur}, {})
      PROVE  LocksOK'
  <2>1. Alike(Me, Me) /\ Untouched({}) /\ Me.owns = Me.owns
    BY <1>1, <1>3, CallerIs, AlikeIs, NobodyTouched
  <2>2. op \notin SemCalls \cup {"SemPended", "OS_Sched"}
    BY <1>1
  <2> HIDE DEF Ops
  <2> QED
    BY <1>3, <2>1, <2>2, Harmless
<1>4. CASE TaskDelReq
  <2> DEFINE r == OSTaskDelReq(os, Me.arg.prio)
  <2>1. At("TaskDelReq") /\ Quietly(r, Me)
    BY <1>4 DEF TaskDelReq
  <2>2. Serves(os, r) /\ Touches(os, r.k, os.list, {})
    BY <1>2, <2>1, DelReqServes, SuspendTouches
  <2> HIDE DEF r
  <2> QED
    BY <1>3, <2>1, <2>2, OthersTouched DEF Elsewhere
<1>5. CASE TaskResume
  <2> DEFINE r == OSTaskResume(os, Me.arg.prio)
  <2>1. At("TaskResume") /\ Quietly(r, Me)
    BY <1>5 DEF TaskResume
  <2>2. Serves(os, r) /\ Touches(os, r.k, os.list, {})
    BY <1>2, <2>1, ResumeServes, SuspendTouches
  <2> HIDE DEF r
  <2> QED
    BY <1>3, <2>1, <2>2, OthersTouched DEF Elsewhere
<1>6. CASE TimeDlyResume
  <2> DEFINE r == OSTimeDlyResume(os, Me.arg.prio)
  <2>1. At("TimeDlyResume") /\ Quietly(r, Me)
    BY <1>6 DEF TimeDlyResume
  <2>2. Serves(os, r) /\ SemsKept(os, r.k, os.list, {})
    BY <1>2, <2>1, DlyResumeServes, DlyResumeKeeps
  <2> HIDE DEF r
  <2>3. SemsKept(os, r.k, os.list \ {Cur}, {})
    BY <2>2 DEF SemsKept
  <2> QED
    BY <1>3, <2>1, <2>2, <2>3 DEF Elsewhere
<1>7. CASE TaskSuspend
  <2> DEFINE r == OSTaskSuspend(os, Me.arg.prio)
  <2>1. At("TaskSuspend") /\ Quietly(r, Me)
    BY <1>7 DEF TaskSuspend
  <2>2. Me.arg.prio # IdlePrio
    BY <1>2, <2>1 DEF HeadOK
  <2>3. (Serves(os, r) \/ Suspends(os, r)) /\ Touches(os, r.k, os.list, {})
    BY <1>2, <2>1, <2>2, SuspendServes, SuspendTouches
  <2> HIDE DEF r
  <2> QED
    BY <1>3, <2>1, <2>3, OthersTouched DEF Elsewhere
<1>8. CASE TimeDly
  <2> DEFINE r == OSTimeDly(os, Me.arg)
  <2>1. At("TimeDly") /\ Quietly(r, Me)
    BY <1>8 DEF TimeDly
  <2>2. Idle(os) /\ Me.arg \in Nat /\ Sound(os) /\ os.cur \in os.list
    BY <1>1, <2>1, CallerIs DEF HeadOK, ArgOK
  <2>3. Serves(os, r) \/ GoesToSleep(os, r)
    BY <2>2, TimeDlyServes
  <2>4. Touches(os, r.k, os.list \ {Cur}, {})
    BY <2>2, TimeDlyTouches DEF Cur
  <2> HIDE DEF r
  <2> QED
    BY <1>3, <2>1, <2>3, <2>4, OthersTouched DEF Elsewhere
<1> QED
  BY <1>4, <1>5, <1>6, <1>7, <1>8

LEMMA LockKeeps ==
  ASSUME Stepping, LocksOK, SchedLock \/ SchedUnlock
  PROVE  LocksOK'
<1>1. ASSUME NEW op \in {"SchedLock", "SchedUnlock"}, At(op), NEW r, Quietly(r, Me),
             Relocks(os, r), r.cont \in {<< >>, << "OS_Sched" >>}
      PROVE  LocksOK'
  <2>1. op \notin SemCalls \cup {"SemPended", "OS_Sched"}
    BY DEF SemCalls
  <2>2. Alike(Me, Me)
    BY <1>1, <2>1, CallerIs, AlikeIs
  <2>3. Touches(os, r.k, os.list, {})
    BY <1>1, SameTouches DEF Relocks, Switches, AllSame
  <2>4. SemsKept(os, r.k, os.list \ {Cur}, {}) /\ Untouched({}) /\ Elsewhere(r, op)
    BY <1>1, <2>3, OthersTouched, NobodyTouched DEF Elsewhere
  <2> QED
    BY <1>1, <2>1, <2>2, <2>4, Harmless
<1>2. CASE SchedLock
  <2> DEFINE r == OSSchedLock(os)
  <2>1. At("SchedLock") /\ Quietly(r, Me) /\ "SchedLock" # "OS_Sched"
    BY <1>2 DEF SchedLock
  <2>2. Relocks(os, r) /\ r.cont = << >>
    BY <2>1, CallerIs, SchedLockRelocks
  <2> HIDE DEF r
  <2> QED
    BY <1>1, <2>1, <2>2
<1>3. CASE SchedUnlock
  <2> DEFINE r == OSSchedUnlock(os)
  <2>1. At("SchedUnlock") /\ Quietly(r, Me) /\ "SchedUnlock" # "OS_Sched"
    BY <1>3 DEF SchedUnlock
  <2>2. Relocks(os, r) /\ r.cont \in {<< >>, << "OS_Sched" >>}
    BY <2>1, CallerIs, SchedUnlockRelocks
  <2> HIDE DEF r
  <2> QED
    BY <1>1, <2>1, <2>2
<1> QED
  BY <1>2, <1>3

-----------------------------------------------------------------------------
(* The semaphores.                                                         *)

(* A call to one that is not owned.                                        *)
LEMMA FreeKeeps ==
  ASSUME Stepping, LocksOK, NEW l \in SemCalls \cup {"SemPended"}, At(l), NEW r,
         NEW m \in {Me, Acquires(r), Releases(r)}, Quietly(r, m), Me.obj \notin prog.owned,
         \/ Serves(os, r) \/ ComesBack(os, r)
         \/ l = "SemPend" /\ GoesToWait(os, r, "SemPended", Me.ev),
         \/ Touches(os, r.k, os.list, {Me.ev}) \/ Touches(os, r.k, os.list \ {Cur}, {Me.ev})
         \/ Touches(os, r.k, os.list \ {Cur}, {})
  PROVE  LocksOK'
<1>1. l # "OS_Sched" /\ "SemPended" \in WaitLabels
  BY DEF SemCalls, WaitLabels
<1>2. DOMAIN Me = RunFields /\ Me.pc # << >> /\ Head(Me.pc) = l
  BY <1>1, CallerIs
<1>3. SemAt(Me)
  BY <1>2 DEF SemAt, WaitOf, WaitLabels
<1>4. Rightful(prog.owned, obj, Me)
  BY StepperIs DEF LocksOK, Me
<1>5. Untouched({Me.ev})
  BY <1>3, <1>4 DEF Rightful, Untouched
<1>6. Touches(os, r.k, os.list, {Me.ev}) \/ Touches(os, r.k, os.list \ {Cur}, {Me.ev})
  BY FewerTouched
<1>7. SemsKept(os, r.k, os.list \ {Cur}, {Me.ev})
  BY <1>6, OthersTouched
<1>8. Alike(Me, m)
  BY <1>2, AlikeIs
<1>9. \A n \in prog.owned : n \in m.owns <=> n \in Me.owns
  <2>1. Acquires(r) = Me
    BY DEF Acquires
  <2>2. \A n \in prog.owned : n \in Releases(r).owns <=> n \in Me.owns
    <3> HIDE DEF Me
    <3> QED
      BY <1>2 DEF Releases, RunFields
  <2> QED
    BY <2>1, <2>2
<1>10. /\ Fits(r)
       /\ r.cont = << "OS_Sched", "SemPended" >> => Head(Me.pc) = "SemPend"
       /\ r.cont # << "OS_Sched", "MultiPended" >>
  <2>1. Fits(r)
    BY <1>1, FitsIf
  <2>2. Serves(os, r) \/ ComesBack(os, r) => r.cont \in {<< >>, << "OS_Sched" >>}
    BY DEF Serves, ComesBack
  <2>3. GoesToWait(os, r, "SemPended", Me.ev) => r.cont = << "OS_Sched", "SemPended" >>
    BY DEF GoesToWait
  <2>4. << >> # << "OS_Sched", "SemPended" >> /\ << "OS_Sched" >> # << "OS_Sched", "SemPended" >>
        /\ << >> # << "OS_Sched", "MultiPended" >> /\ << "OS_Sched" >> # << "OS_Sched", "MultiPended" >>
        /\ << "OS_Sched", "SemPended" >> # << "OS_Sched", "MultiPended" >>
    OBVIOUS
  <2> QED
    BY <1>2, <2>1, <2>2, <2>3, <2>4
<1>11. Calling(r, m) /\ UNCHANGED obj
  BY <1>1, <1>2, <1>8 DEF Calling, Quietly
<1> QED
  BY <1>5, <1>7, <1>9, <1>10, <1>11, CallKeeps

(* A call to one that is owned: x is what becomes of the task.             *)
Claims(r, m, x) ==
    /\ Called(r, m, x) /\ LocksOK /\ Fits(r) /\ UNCHANGED obj
    /\ SemAt(Me) /\ Me.obj \in prog.owned
    /\ obj[Me.obj] = Me.ev /\ Me.ev \in Ecb /\ os.event[Me.ev].type = "SEM"
    /\ TokenOK(Me.obj)
    /\ \A n \in prog.owned : obj[n] = Me.ev <=> n = Me.obj

LEMMA ClaimIs ==
  ASSUME Stepping, LocksOK, NEW l \in SemCalls \cup {"SemPended"}, At(l), NEW r, NEW m,
         Alike(Me, m), Quietly(r, m), Me.obj \in prog.owned, Fits(r),
         Me.ev \in Ecb
  PROVE  \E x : Claims(r, m, x)
<1>1. l # "OS_Sched" /\ "SemPended" \in WaitLabels
  BY DEF SemCalls, WaitLabels
<1>2. Me.pc # << >> /\ Head(Me.pc) = l
  BY <1>1, CallerIs
<1>3. SemAt(Me)
  BY <1>2 DEF SemAt, WaitOf, WaitLabels
<1>4. Rightful(prog.owned, obj, Me)
  BY StepperIs DEF LocksOK, Me
<1>5. \A n \in prog.owned : obj[n] = Me.ev <=> n = Me.obj
  BY <1>3, <1>4 DEF Rightful
<1>6. obj[Me.obj] = Me.ev /\ Me.ev # Null
  BY <1>5, NullIsNone
<1>7. OneHandle(Me.obj) /\ TokenOK(Me.obj)
  BY <1>6 DEF LocksOK
<1>8. Calling(r, m) /\ UNCHANGED obj
  BY <1>1, <1>2 DEF Calling, Quietly
<1>9. PICK x : x = Left(r, m)
  OBVIOUS
<1>10. Called(r, m, x)
  BY <1>8, <1>9, CallIs
<1> QED
  BY <1>3, <1>5, <1>6, <1>7, <1>8, <1>10 DEF Claims, OneHandle

LEMMA OwnedKeeps ==
  ASSUME NEW r, NEW m, NEW x, Claims(r, m, x), r.cont # << "OS_Sched", "MultiPended" >>,
         \A n \in prog.owned \ {Me.obj} : n \in m.owns <=> n \in Me.owns,
         SemsKept(os, r.k, os.list \ {Cur}, {Me.ev}),
         Below(Me, Owed(r.k, x, Cur)), \A n \in prog.owned : n = Me.obj => TokenOK(n)',
         Me.obj \in HalLocks => \A u \in Tcb \ {Cur} :
            Obtains(os, run[u], u, Me.obj) => Obtains(r.k, run[u], u, Me.obj)
  PROVE  LocksOK'
<1>1. /\ LocksOK /\ Fits(r) /\ UNCHANGED obj /\ SemAt(Me) /\ Me.obj \in prog.owned
      /\ obj[Me.obj] = Me.ev /\ \A n \in prog.owned : obj[n] = Me.ev <=> n = Me.obj
  BY DEF Claims
<1>2. /\ Stepping /\ UNCHANGED prog /\ os' = r.k /\ run' = [run EXCEPT ![Cur] = x]
      /\ os'.cur # Null
      /\ StackOK(Me.pc) /\ Me.pc # << >> /\ Head(Me.pc) # "OS_Sched" /\ Shallow(Me)
      /\ x.pc = r.cont \o Tail(Me.pc) /\ x.owns = m.owns
      /\ x.pc # << >> => x.obj = Me.obj /\ x.ev = Me.ev
      /\ Headed(r.cont, x)
  BY DEF Claims, Called
<1>3. WaitOf(x) = "SemPended" => x.obj = Me.obj /\ x.ev = Me.ev
  BY <1>2 DEF Headed
<1>4. PICK h : h = obj
  OBVIOUS
<1>5. r.cont = << "OS_Sched", "SemPended" >> =>
         \A name \in prog.owned : x.obj = name <=> x.ev = h[name]
  <2>1. << "OS_Sched", "SemPended" >> # << >>
    OBVIOUS
  <2>2. r.cont = << "OS_Sched", "SemPended" >> => x.obj = Me.obj /\ x.ev = Me.ev
    BY <1>2, <2>1 DEF Headed
  <2> QED
    BY <1>1, <1>4, <2>2
<1>6. r.cont \in KernelConts
  BY <1>1 DEF Fits
<1>7. /\ \A k, t : Below(Me, Owed(k, x, t)) => Entitled(prog.owned, k, x, t)
      /\ Rightful(prog.owned, h, x) /\ Shallow(x)
  <2> HIDE DEF Me
  <2> QED
    BY <1>2, <1>5, <1>6, CallFits
<1>8. Entitled(prog.owned, os', x, Cur) /\ Rightful(prog.owned, obj', x) /\ Shallow(x)
  BY <1>1, <1>2, <1>4, <1>7
<1>9. ASSUME NEW n \in prog.owned, obj[n] # Me.ev
      PROVE  /\ Holder(x, n) <=> Holder(Me, n)
             /\ Heir(os', x, Cur, n) <=> Heir(os, Me, Cur, n)
  <2>1. n # Me.obj
    BY <1>1, <1>9
  <2>2. Holder(x, n) <=> Holder(Me, n)
    BY <1>2, <2>1 DEF Holder
  <2>3. ~Heir(os', x, Cur, n) /\ ~Heir(os, Me, Cur, n)
    BY <1>3, <2>1 DEF Heir
  <2> QED
    BY <2>2, <2>3
<1>10. PICK S : S = {Me.ev}
  OBVIOUS
<1>11. /\ \A n \in prog.owned : obj[n] \in S => n = Me.obj
       /\ SemsKept(os, os', os.list \ {Cur}, S) /\ KeepsTypes(os, os')
  BY <1>1, <1>2, <1>10 DEF Fits
<1>12. \A n \in prog.owned : obj[n] \notin S =>
          /\ Holder(x, n) <=> Holder(Me, n)
          /\ Heir(os', x, Cur, n) <=> Heir(os, Me, Cur, n)
  BY <1>9, <1>10
<1>13. \A n \in prog.owned : obj[n] # Null /\ obj[n] \in S => TokenOK(n)'
  BY <1>11
<1>14. \A n \in prog.owned \cap HalLocks : obj[n] \in S =>
          \A u \in Tcb \ {Cur} : Obtains(os, run[u], u, n) => Obtains(os', run[u], u, n)
  BY <1>2, <1>11
<1>15. /\ \A n \in prog.owned : obj'[n] = obj[n]
       /\ \A a \in Names(prog) \ GroupNames(prog) :
            obj'[a] \in {obj[a], Null} \/ os.event[obj'[a]].type # "SEM"
  BY <1>1
<1> QED
  BY <1>1, <1>2, <1>8, <1>11, <1>12, <1>13, <1>14, <1>15, RunnerKeeps

(* What the claim says before and after the call.                          *)
LEMMA ClaimFields ==
  ASSUME NEW r, NEW m, NEW x, Claims(r, m, x), NEW n, n = Me.obj
  PROVE  /\ n \in prog.owned /\ TokenOK(n) /\ obj[n] = Me.ev /\ obj'[n] = Me.ev
         /\ Me.ev \in Ecb /\ obj[n] # Null
         /\ os' = r.k /\ Cur \in Tcb /\ Cur \in os.list /\ run[Cur] = Me /\ run'[Cur] = x
         /\ \A u \in Tcb \ {Cur} : run'[u] = run[u]
         /\ DOMAIN Me = RunFields /\ os \in Kernel /\ Sound(os)
         /\ WaitOf(x) = NextWait(r.cont) /\ x.owns = m.owns
         /\ WaitOf(Me) = "SemPended" => Head(Me.pc) = "SemPended"
         /\ Me.pc # << >>
         /\ r.cont # << >> => x.obj = n
         /\ Below(Me, Owed(os, Me, Cur))
<1>1. /\ UNCHANGED obj /\ Me.obj \in prog.owned /\ obj[Me.obj] = Me.ev /\ Me.ev \in Ecb
      /\ TokenOK(Me.obj) /\ Called(r, m, x)
  BY DEF Claims
<1>2. /\ Stepping /\ os' = r.k /\ run' = [run EXCEPT ![Cur] = x] /\ Cur \in Tcb
      /\ x.owns = m.owns /\ Headed(r.cont, x) /\ Below(Me, Owed(os, Me, Cur))
      /\ Me.pc # << >> /\ Cur \in os.list
      /\ x.pc # << >> => x.obj = Me.obj
      /\ WaitOf(Me) = "SemPended" => Head(Me.pc) = "SemPended"
  BY <1>1 DEF Called
<1>3. /\ DOMAIN run = Tcb /\ Sound(os) /\ os \in Kernel /\ DOMAIN Me = RunFields
  BY <1>2, StepperIs DEF Stepping, PlainInv, ThreadsOK, Sound, ThreadOK
<1>4. /\ run'[Cur] = x /\ \A u \in Tcb \ {Cur} : run'[u] = run[u]
  BY <1>2, <1>3
<1>5. WaitOf(x) = NextWait(r.cont) /\ (r.cont # << >> => x.obj = n)
  BY <1>2 DEF Headed
<1>6. run[Cur] = Me /\ Me.ev # Null
  BY <1>1, NullIsNone DEF Me
<1> QED
  BY <1>1, <1>2, <1>3, <1>4, <1>5, <1>6

LEMMA NoWaitFor ==
  ASSUME NEW x, NEW cont \in {<< >>, << "OS_Sched" >>}, WaitOf(x) = NextWait(cont), NEW k, NEW n
  PROVE  ~Heir(k, x, Cur, n)
<1>1. NextWait(cont) = "none"
  BY NoWait
<1> QED
  BY <1>1 DEF Heir

(* The token is taken out of the count.                                    *)
LEMMA TakeKeeps ==
  ASSUME NEW r, NEW x, Claims(r, Acquires(r), x), Head(Me.pc) \in {"SemAccept", "SemPend"},
         os.event[Me.ev].cnt > 0, r = Done([os EXCEPT !.event[Me.ev].cnt = @ - 1])
  PROVE  LocksOK'
<1>1. PICK n : n = Me.obj
  OBVIOUS
<1>2. PICK m : m = Acquires(r)
  OBVIOUS
<1>3. /\ n \in prog.owned /\ TokenOK(n) /\ obj[n] = Me.ev /\ obj'[n] = Me.ev
      /\ Me.ev \in Ecb /\ obj[n] # Null
      /\ os' = r.k /\ Cur \in Tcb /\ run[Cur] = Me /\ run'[Cur] = x
      /\ \A u \in Tcb \ {Cur} : run'[u] = run[u]
      /\ DOMAIN Me = RunFields /\ os \in Kernel /\ Sound(os)
      /\ WaitOf(x) = NextWait(r.cont) /\ x.owns = m.owns
      /\ WaitOf(Me) = "SemPended" => Head(Me.pc) = "SemPended"
      /\ Below(Me, Owed(os, Me, Cur))
  BY <1>1, <1>2, ClaimFields
<1>4. r.ok /\ r.cont = << >>
  BY DEF Done
<1>5. m.owns = Me.owns \cup {n}
  <2>1. m = [Me EXCEPT !.owns = @ \cup {n}]
    BY <1>1, <1>2, <1>3, <1>4 DEF Acquires
  <2> HIDE DEF Me
  <2> QED
    BY <1>3, <2>1 DEF RunFields
<1>6. /\ r.k.tcb = os.tcb /\ os.event[Me.ev].cnt \in Nat
      /\ r.k.event[Me.ev].cnt = os.event[Me.ev].cnt - 1
  <2>1. os.event \in [Ecb -> EventType] /\ DOMAIN os.event = Ecb
    BY <1>3 DEF Kernel
  <2>2. DOMAIN os.event[Me.ev] = {"type", "cnt", "pip", "ptr", "wait"}
        /\ os.event[Me.ev].cnt \in Nat
    BY <1>3, <2>1 DEF EventType
  <2>3. r.k = [os EXCEPT !.event[Me.ev].cnt = @ - 1]
    BY DEF Done
  <2>4. r.k.tcb = os.tcb /\ r.k.event = [os.event EXCEPT ![Me.ev].cnt = @ - 1]
    BY <1>3, <2>3 DEF Kernel
  <2> QED
    BY <1>3, <2>1, <2>2, <2>4
<1>7. os.event[obj[n]].cnt # 0
  BY <1>3, <1>6
<1>8. os.event[obj[n]].cnt = 1 /\ \A t \in Tcb : ~Holder(run[t], n) /\ ~Heir(os, run[t], t, n)
  BY <1>3, <1>7 DEF TokenOK
<1>9. os'.event[obj'[n]].cnt = 0
  BY <1>3, <1>6, <1>8
<1>10. Holder(run'[Cur], n) /\ ~Heir(os', run'[Cur], Cur, n)
  BY <1>3, <1>4, <1>5, NoWaitFor DEF Holder
<1>11. \A u \in Tcb \ {Cur} : ~Holder(run'[u], n) /\ ~Heir(os', run'[u], u, n)
  BY <1>3, <1>6, <1>8 DEF Heir, Got
<1>12. TokenOK(n)'
  BY <1>3, <1>9, <1>10, <1>11 DEF TokenOK
<1>13. Below(Me, Owed(r.k, x, Cur))
  <2>1. Owed(os, Me, Cur) \subseteq Owed(r.k, x, Cur)
    BY <1>1, <1>3, <1>5 DEF Owed, Obtains
  <2> QED
    BY <1>3, <2>1 DEF Below
<1>14. SemsKept(os, r.k, os.list \ {Cur}, {Me.ev})
  <2>1. Touches(os, r.k, os.list, {Me.ev})
    BY <1>3, CountTouches DEF Done
  <2> QED
    BY <2>1, OthersTouched
<1>15. \A u \in Tcb : Obtains(os, run[u], u, n) => Obtains(r.k, run[u], u, n)
  BY <1>6 DEF Obtains
<1>16. \A i \in prog.owned \ {Me.obj} : i \in m.owns <=> i \in Me.owns
  BY <1>1, <1>5
<1>17. \A i \in prog.owned : i = Me.obj => TokenOK(i)'
  BY <1>1, <1>12
<1>18. r.cont # << "OS_Sched", "MultiPended" >>
  BY <1>4
<1>19. Claims(r, m, x)
  BY <1>2
<1> QED
  BY <1>1, <1>13, <1>14, <1>15, <1>16, <1>17, <1>18, <1>19, OwnedKeeps

(* The token stays where it is.                                            *)
LEMMA LeaveKeeps ==
  ASSUME NEW r, NEW m, NEW x, Claims(r, m, x), m.owns = Me.owns,
         r.cont \in {<< >>, << "OS_Sched" >>}, Head(Me.pc) \notin {"SemPend", "SemPended"},
         r.k.event[Me.ev].cnt = os.event[Me.ev].cnt,
         \A u \in Tcb \ {Cur} :
            /\ Heir(r.k, run[u], u, Me.obj) <=> Heir(os, run[u], u, Me.obj)
            /\ Me.obj \in HalLocks =>
                 (Obtains(os, run[u], u, Me.obj) => Obtains(r.k, run[u], u, Me.obj)),
         SemsKept(os, r.k, os.list \ {Cur}, {Me.ev})
  PROVE  LocksOK'
<1>1. PICK n : n = Me.obj
  OBVIOUS
<1>3. /\ n \in prog.owned /\ TokenOK(n) /\ obj[n] = Me.ev /\ obj'[n] = Me.ev
      /\ os' = r.k /\ Cur \in Tcb /\ run[Cur] = Me /\ run'[Cur] = x
      /\ \A u \in Tcb \ {Cur} : run'[u] = run[u]
      /\ WaitOf(x) = NextWait(r.cont) /\ x.owns = m.owns
      /\ WaitOf(Me) = "SemPended" => Head(Me.pc) = "SemPended"
      /\ Below(Me, Owed(os, Me, Cur))
  BY <1>1, ClaimFields
<1>4. WaitOf(Me) # "SemPended" /\ ~Heir(os, Me, Cur, n) /\ ~Heir(os', x, Cur, n)
  BY <1>3, NoWaitFor DEF Heir
<1>5. ASSUME NEW t \in Tcb
      PROVE  /\ Holder(run'[t], n) <=> Holder(run[t], n)
             /\ Heir(os', run'[t], t, n) <=> Heir(os, run[t], t, n)
  <2>1. CASE t = Cur
    BY <1>3, <1>4, <2>1 DEF Holder
  <2>2. CASE t # Cur
    BY <1>1, <1>3, <2>2
  <2> QED
    BY <2>1, <2>2
<1>6. os'.event[obj[n]].cnt = os.event[obj[n]].cnt /\ obj'[n] = obj[n]
  BY <1>3
<1>7. TokenOK(n)'
  BY <1>3, <1>5, <1>6, TokenKept
<1>8. Below(Me, Owed(r.k, x, Cur))
  <2>1. Owed(os, Me, Cur) \subseteq Owed(r.k, x, Cur)
    BY <1>3, <1>4 DEF Owed, Obtains
  <2> QED
    BY <1>3, <2>1 DEF Below
<1>9. \A i \in prog.owned : i = Me.obj => TokenOK(i)'
  BY <1>1, <1>7
<1>10. r.cont # << "OS_Sched", "MultiPended" >>
  <2>1. /\ << >> # << "OS_Sched", "MultiPended" >>
        /\ << "OS_Sched" >> # << "OS_Sched", "MultiPended" >>
    OBVIOUS
  <2> QED
    BY <2>1
<1> QED
  BY <1>8, <1>9, <1>10, OwnedKeeps

LEMMA BeginsWait ==
  ASSUME NEW k, Idle(k), NEW e \in Ecb, NEW timeout \in Nat
  PROVE  LET j == OS_EventTaskWait(StartsToWait(k, {"SEM"}, timeout), e) IN
         /\ \A u \in Tcb : u # k.cur => j.tcb[u] = k.tcb[u]
         /\ j.tcb[k.cur].pend = "OK" /\ j.tcb[k.cur].dly = timeout
         /\ "SEM" \in j.tcb[k.cur].stat
         /\ \A f \in Ecb : j.event[f].cnt = k.event[f].cnt
<1> DEFINE i == StartsToWait(k, {"SEM"}, timeout)
           j == OS_EventTaskWait(i, e)
           c == k.tcb[k.cur]
<1>1. k \in Kernel /\ k.cur \in Tcb /\ k.event \in [Ecb -> EventType]
      /\ Consistent(k.rdy) /\ \A f \in Ecb : Consistent(k.event[f].wait)
  BY IdleFields, Sets
<1>2. {"SEM"} \in SUBSET Statuses
  BY DEF Statuses, PendAny
<1>3. /\ i \in Kernel /\ i.cur = k.cur /\ i.rdy = k.rdy /\ i.event = k.event
      /\ \A u \in Tcb : u # k.cur => i.tcb[u] = k.tcb[u]
      /\ i.tcb[k.cur] = Begun(c, {"SEM"}, timeout)
  BY <1>1, <1>2, StartsToWaitFields DEF SameRest
<1>4. Begun(c, {"SEM"}, timeout).pend = "OK" /\ Begun(c, {"SEM"}, timeout).dly = timeout
      /\ "SEM" \in Begun(c, {"SEM"}, timeout).stat
  <2>1. k.tcb \in [Tcb -> TcbType]
    BY <1>1 DEF Kernel
  <2>2. c \in TcbType
    BY <1>1, <2>1
  <2> HIDE DEF c
  <2> QED
    BY <2>2 DEF Begun, TcbType
<1> HIDE DEF i
<1>5. /\ \A u \in Tcb : u # i.cur => j.tcb[u] = i.tcb[u]
      /\ j.tcb[i.cur] = [i.tcb[i.cur] EXCEPT !.event = e]
      /\ \A f \in Ecb : f # e => j.event[f] = i.event[f]
      /\ j.event[e] = [i.event[e] EXCEPT !.wait = SetBit(@, i.tcb[i.cur].prio)]
  BY <1>1, <1>3, EventTaskWaitFields
<1> HIDE DEF j
<1>6. i.tcb[k.cur] \in TcbType
  <2>1. i.tcb \in [Tcb -> TcbType]
    BY <1>3 DEF Kernel
  <2> QED
    BY <1>1, <2>1
<1>7. /\ j.tcb[k.cur].pend = i.tcb[k.cur].pend /\ j.tcb[k.cur].dly = i.tcb[k.cur].dly
      /\ j.tcb[k.cur].stat = i.tcb[k.cur].stat
  BY <1>3, <1>5, <1>6 DEF TcbType
<1>8. \A f \in Ecb : j.event[f].cnt = k.event[f].cnt
  BY <1>1, <1>3, <1>5 DEF EventType
<1>9. \A u \in Tcb : u # k.cur => j.tcb[u] = k.tcb[u]
  BY <1>3, <1>5
<1> QED
  BY <1>3, <1>4, <1>7, <1>8, <1>9 DEF j, i

(* The task waits for the token.                                           *)
LEMMA WaitKeeps ==
  ASSUME NEW r, NEW x, Claims(r, Acquires(r), x), Head(Me.pc) = "SemPend", Idle(os),
         Me.arg \in Nat,
         r = Blocks(OS_EventTaskWait(StartsToWait(os, {"SEM"}, Me.arg), Me.ev), "SemPended")
  PROVE  LocksOK'
<1>1. PICK n : n = Me.obj
  OBVIOUS
<1>2. PICK m : m = Acquires(r)
  OBVIOUS
<1>3. /\ n \in prog.owned /\ TokenOK(n) /\ obj[n] = Me.ev /\ obj'[n] = Me.ev
      /\ Me.ev \in Ecb
      /\ os' = r.k /\ Cur \in Tcb /\ run[Cur] = Me /\ run'[Cur] = x
      /\ \A u \in Tcb \ {Cur} : run'[u] = run[u]
      /\ WaitOf(x) = NextWait(r.cont) /\ x.owns = m.owns
      /\ WaitOf(Me) = "SemPended" => Head(Me.pc) = "SemPended"
      /\ r.cont # << >> => x.obj = n
      /\ Below(Me, Owed(os, Me, Cur))
  BY <1>1, <1>2, ClaimFields
<1>4. r.cont = << "OS_Sched", "SemPended" >> /\ "SemPended" \in WaitLabels
  BY DEF Blocks, WaitLabels
<1>5. r.cont # << >> /\ WaitOf(x) = "SemPended" /\ x.obj = n
  <2>1. NextWait(<< "OS_Sched", "SemPended" >>) = "SemPended"
    BY <1>4 DEF NextWait
  <2>2. r.cont # << >>
    <3>1. << "OS_Sched", "SemPended" >> # << >>
      OBVIOUS
    <3> QED
      BY <1>4, <3>1
  <2> QED
    BY <1>3, <1>4, <2>1, <2>2
<1>6. m = Me
  BY <1>2, <1>5 DEF Acquires
<1>7. /\ \A u \in Tcb : u # Cur => r.k.tcb[u] = os.tcb[u]
      /\ r.k.tcb[Cur].pend = "OK" /\ r.k.tcb[Cur].dly = Me.arg
      /\ "SEM" \in r.k.tcb[Cur].stat
      /\ \A f \in Ecb : r.k.event[f].cnt = os.event[f].cnt
  <2> DEFINE j == OS_EventTaskWait(StartsToWait(os, {"SEM"}, Me.arg), Me.ev)
  <2>1. r.k = j
    BY DEF Blocks, Done
  <2>2. /\ \A u \in Tcb : u # os.cur => j.tcb[u] = os.tcb[u]
        /\ j.tcb[os.cur].pend = "OK" /\ j.tcb[os.cur].dly = Me.arg
        /\ "SEM" \in j.tcb[os.cur].stat
        /\ \A f \in Ecb : j.event[f].cnt = os.event[f].cnt
    BY <1>3, BeginsWait
  <2> HIDE DEF j
  <2> QED
    BY <2>1, <2>2 DEF Cur
<1>8. ASSUME NEW t \in Tcb
      PROVE  /\ Holder(run'[t], n) <=> Holder(run[t], n)
             /\ Heir(os', run'[t], t, n) <=> Heir(os, run[t], t, n)
  <2>1. CASE t = Cur
    <3>1. Holder(run'[t], n) <=> Holder(run[t], n)
      BY <1>3, <1>6, <2>1 DEF Holder
    <3>2. ~Heir(os', run'[t], t, n)
      BY <1>3, <1>7, <2>1 DEF Heir, Got
    <3>3. ~Heir(os, run[t], t, n)
      BY <1>3, <2>1 DEF Heir
    <3> QED
      BY <3>1, <3>2, <3>3
  <2>2. CASE t # Cur
    BY <1>3, <1>7, <2>2 DEF Heir, Got
  <2> QED
    BY <2>1, <2>2
<1>9. os'.event[obj[n]].cnt = os.event[obj[n]].cnt /\ obj'[n] = obj[n]
  BY <1>3, <1>7
<1>10. TokenOK(n)'
  BY <1>3, <1>8, <1>9, TokenKept
<1>11. Below(Me, Owed(r.k, x, Cur))
  <2>1. Obtains(os, Me, Cur, n) => Obtains(r.k, x, Cur, n)
    BY <1>3, <1>5, <1>7 DEF Obtains
  <2>2. \A i : Obtains(os, Me, Cur, i) => i = n
    BY <1>1 DEF Obtains
  <2>3. Owed(os, Me, Cur) \subseteq Owed(r.k, x, Cur)
    BY <1>3, <1>6, <2>1, <2>2 DEF Owed
  <2> QED
    BY <1>3, <2>3 DEF Below
<1>12. SemsKept(os, r.k, os.list \ {Cur}, {Me.ev})
  <2>1. Touches(os, r.k, os.list \ {Cur}, {Me.ev})
    BY <1>3, <1>7, CurTouches DEF Cur, Idle, Sound
  <2> QED
    BY <2>1, OthersTouched
<1>13. \A u \in Tcb \ {Cur} : Obtains(os, run[u], u, n) => Obtains(r.k, run[u], u, n)
  BY <1>7 DEF Obtains
<1>14. \A i \in prog.owned : i = Me.obj => TokenOK(i)'
  BY <1>1, <1>10
<1>15. r.cont # << "OS_Sched", "MultiPended" >>
  BY <1>4
<1>16. Claims(r, m, x)
  BY <1>2
<1> QED
  BY <1>1, <1>6, <1>11, <1>12, <1>13, <1>14, <1>15, <1>16, OwnedKeeps

(* The task that waited returns, with the token or without.                *)
LEMMA ReturnsWith ==
  ASSUME NEW r, NEW x, Claims(r, Acquires(r), x), Head(Me.pc) = "SemPended",
         IsReady(os, Cur), WaitsForOne(os, Cur, "SEM", Me.ev), r = SemPended(os, Me.ev)
  PROVE  LocksOK'
<1>1. PICK n : n = Me.obj
  OBVIOUS
<1>2. PICK m : m = Acquires(r)
  OBVIOUS
<1>3. /\ n \in prog.owned /\ TokenOK(n) /\ obj[n] = Me.ev /\ obj'[n] = Me.ev
      /\ Me.ev \in Ecb /\ obj[n] # Null
      /\ os' = r.k /\ Cur \in Tcb /\ Cur \in os.list /\ run[Cur] = Me /\ run'[Cur] = x
      /\ \A u \in Tcb \ {Cur} : run'[u] = run[u]
      /\ DOMAIN Me = RunFields /\ os \in Kernel /\ Sound(os)
      /\ WaitOf(x) = NextWait(r.cont) /\ x.owns = m.owns /\ Me.pc # << >>
      /\ Below(Me, Owed(os, Me, Cur))
  BY <1>1, <1>2, ClaimFields
<1>4. r.cont = << >> /\ r.k = AfterWait(os, Me.ev) /\ (r.ok <=> os.tcb[Cur].pend = "OK")
  BY DEF SemPended, Done, Cur
<1>5. r.ok <=> Heir(os, Me, Cur, n)
  <2>1. os.tcb[Cur].stat = {}
    BY DEF WaitsForOne
  <2>2. WaitOf(Me) = "SemPended"
    BY <1>3 DEF WaitOf, WaitLabels
  <2> QED
    BY <1>1, <1>4, <2>1, <2>2 DEF Heir, Got
<1>6. /\ r.ok => m.owns = Me.owns \cup {n}
      /\ ~r.ok => m.owns = Me.owns
  <2>1. /\ r.ok => m = [Me EXCEPT !.owns = @ \cup {n}]
        /\ ~r.ok => m = Me
    BY <1>1, <1>2, <1>3, <1>4 DEF Acquires
  <2> HIDE DEF Me
  <2> QED
    BY <1>3, <2>1 DEF RunFields
<1>7. /\ \A u \in Tcb \ {Cur} : r.k.tcb[u] = os.tcb[u]
      /\ r.k.event[Me.ev].cnt = os.event[Me.ev].cnt
  <2> DEFINE i == AfterWait(os, Me.ev)
  <2>1. /\ i.tcb = [os.tcb EXCEPT ![os.cur] = Ended(os.tcb[os.cur])]
        /\ \A f \in Ecb : i.event[f].cnt = os.event[f].cnt
    BY <1>3, AfterWaitFields DEF Cur
  <2>2. DOMAIN os.tcb = Tcb
    BY <1>3 DEF Kernel
  <2> HIDE DEF i
  <2>3. \A u \in Tcb \ {Cur} : i.tcb[u] = os.tcb[u]
    BY <2>1, <2>2 DEF Cur
  <2> QED
    BY <1>3, <1>4, <2>1, <2>3 DEF i
<1>8. /\ Holder(run'[Cur], n) <=> Holder(run[Cur], n) \/ Heir(os, run[Cur], Cur, n)
      /\ ~Heir(os', run'[Cur], Cur, n)
  BY <1>3, <1>4, <1>5, <1>6, NoWaitFor DEF Holder
<1>9. \A u \in Tcb \ {Cur} : /\ Holder(run'[u], n) <=> Holder(run[u], n)
                             /\ Heir(os', run'[u], u, n) <=> Heir(os, run[u], u, n)
  BY <1>3, <1>7 DEF Heir, Got
<1>10. TokenOK(n)'
  <2>1. os'.event[obj'[n]].cnt = os.event[obj[n]].cnt
    BY <1>3, <1>7
  <2>2. CASE os.event[obj[n]].cnt = 1 /\ \A t \in Tcb : ~Holder(run[t], n) /\ ~Heir(os, run[t], t, n)
    <3>1. \A t \in Tcb : ~Holder(run'[t], n) /\ ~Heir(os', run'[t], t, n)
      BY <1>3, <1>8, <1>9, <2>2
    <3> QED
      BY <2>1, <2>2, <3>1 DEF TokenOK
  <2>3. ASSUME os.event[obj[n]].cnt = 0, NEW t \in Tcb,
               Holder(run[t], n) <=> ~Heir(os, run[t], t, n),
               \A u \in Tcb \ {t} : ~Holder(run[u], n) /\ ~Heir(os, run[u], u, n)
        PROVE  TokenOK(n)'
    <3>1. Holder(run'[t], n) <=> ~Heir(os', run'[t], t, n)
      BY <1>3, <1>8, <1>9, <2>3
    <3>2. \A u \in Tcb \ {t} : ~Holder(run'[u], n) /\ ~Heir(os', run'[u], u, n)
      BY <1>3, <1>8, <1>9, <2>3
    <3> QED
      BY <2>1, <2>3, <3>1, <3>2 DEF TokenOK
  <2> QED
    BY <1>3, <2>2, <2>3 DEF TokenOK
<1>11. Below(Me, Owed(r.k, x, Cur))
  <2>1. \A i : Obtains(os, Me, Cur, i) => i = n /\ r.ok
    BY <1>1, <1>4 DEF Obtains
  <2>2. Owed(os, Me, Cur) \subseteq Owed(r.k, x, Cur)
    BY <1>3, <1>6, <2>1 DEF Owed
  <2> QED
    BY <1>3, <2>2 DEF Below
<1>12. SemsKept(os, r.k, os.list \ {Cur}, {Me.ev})
  <2>1. Touches(os, r.k, os.list \ {Cur}, {})
    BY <1>3, MessageTouches DEF Cur
  <2>2. Touches(os, r.k, os.list \ {Cur}, {Me.ev})
    BY <2>1, FewerTouched
  <2> QED
    BY <2>2, OthersTouched
<1>13. \A u \in Tcb \ {Cur} : Obtains(os, run[u], u, n) => Obtains(r.k, run[u], u, n)
  BY <1>7 DEF Obtains
<1>14. \A i \in prog.owned : i = Me.obj => TokenOK(i)'
  BY <1>1, <1>10
<1>15. r.cont # << "OS_Sched", "MultiPended" >>
  BY <1>4
<1>16. Claims(r, m, x) /\ \A i \in prog.owned \ {Me.obj} : i \in m.owns <=> i \in Me.owns
  BY <1>1, <1>2, <1>6
<1> QED
  BY <1>1, <1>11, <1>12, <1>13, <1>14, <1>15, <1>16, OwnedKeeps

(* Who is in the wait list of a semaphore that is owned.                   *)
LEMMA ListedWaits ==
  ASSUME PlainInv, LocksOK, NEW n \in prog.owned, NEW e \in Ecb, obj[n] = e,
         os.event[e].type = "SEM", NEW u \in os.list, e \in Lists(os, u)
  PROVE  /\ u \in Tcb /\ WaitOf(run[u]) = "SemPended" /\ run[u].obj = n
         /\ ~Got(os, u) /\ ~Heir(os, run[u], u, n)
<1>1. u \in Tcb /\ StackOK(run[u].pc)
  <2>1. u \in Tcb
    BY Fields DEF PlainInv, KernelOK
  <2> QED
    BY <2>1 DEF PlainInv, ThreadsOK, ThreadOK
<1>2. TaskOK(os, u, WaitOf(run[u]), run[u].ev) /\ Rightful(prog.owned, obj, run[u])
  BY <1>1 DEF PlainInv, KernelOK, LocksOK
<1>3. WaitOf(run[u]) \in WaitLabels \cup {"none"}
  BY <1>1, WaitOfRange
<1>4. CASE WaitOf(run[u]) = "none" \/ WaitOf(run[u]) = "FlagPended"
  BY <1>2, <1>4 DEF TaskOK, WaitsForNothing, WaitsForFlags
<1>5. ASSUME NEW l \in {"MboxPended", "QPended"}, WaitOf(run[u]) = l
      PROVE  FALSE
  <2>1. WaitsForOne(os, u, KindOf(l), run[u].ev) /\ KindOf(l) # "SEM"
    BY <1>2, <1>5 DEF TaskOK, KindOf
  <2> QED
    BY <2>1 DEF WaitsForOne
<1>6. WaitOf(run[u]) # "MultiPended"
  <2>1. ASSUME WaitOf(run[u]) = "MultiPended"
        PROVE  FALSE
    <3>1. WaitsForAny(os, u, run[u].ev) /\ e \notin run[u].ev
      BY <1>2, <2>1 DEF TaskOK, Rightful, ManyAt
    <3> QED
      BY <3>1 DEF WaitsForAny
  <2> QED
    BY <2>1
<1>7. WaitOf(run[u]) = "SemPended"
  BY <1>3, <1>4, <1>5, <1>6 DEF WaitLabels
<1>8. WaitsForOne(os, u, "SEM", run[u].ev)
  BY <1>2, <1>7 DEF TaskOK, KindOf
<1>9. run[u].ev = e /\ ~Got(os, u)
  BY <1>8 DEF WaitsForOne, Got
<1>10. run[u].obj = n
  BY <1>2, <1>7, <1>9 DEF Rightful, SemAt
<1> QED
  BY <1>1, <1>7, <1>9, <1>10 DEF Heir

(* The token is given back: to the task that waits for it with the highest *)
(* priority, or to the count.                                              *)
LEMMA GiveKeeps ==
  ASSUME NEW r, NEW x, Claims(r, Releases(r), x), Head(Me.pc) = "SemPost",
         r = OSSemPost(os, Me.ev)
  PROVE  LocksOK'
<1>1. PICK n : n = Me.obj
  OBVIOUS
<1>2. PICK m : m = Releases(r)
  OBVIOUS
<1>3. /\ n \in prog.owned /\ TokenOK(n) /\ obj[n] = Me.ev /\ obj'[n] = Me.ev
      /\ Me.ev \in Ecb /\ obj[n] # Null
      /\ os' = r.k /\ Cur \in Tcb /\ Cur \in os.list /\ run[Cur] = Me /\ run'[Cur] = x
      /\ \A u \in Tcb \ {Cur} : run'[u] = run[u]
      /\ DOMAIN Me = RunFields /\ os \in Kernel /\ Sound(os)
      /\ WaitOf(x) = NextWait(r.cont) /\ x.owns = m.owns /\ Me.pc # << >>
      /\ WaitOf(Me) = "SemPended" => Head(Me.pc) = "SemPended"
      /\ Below(Me, Owed(os, Me, Cur))
  BY <1>1, <1>2, ClaimFields
<1>4. /\ PlainInv /\ LocksOK /\ Stepping /\ os.event[Me.ev].type = "SEM"
      /\ Rightful(prog.owned, obj, Me) /\ StackOK(Me.pc)
  BY DEF Claims, Called
<1>5. n \in Me.owns /\ \A i \in DOMAIN Me.pc : LockFor(Me.pc[i]) # n
  BY <1>1, <1>3, <1>4 DEF Rightful
<1>6. /\ os.event[obj[n]].cnt = 0
      /\ \A u \in Tcb : ~Heir(os, run[u], u, n)
      /\ \A u \in Tcb \ {Cur} : ~Holder(run[u], n)
  BY <1>3, <1>5 DEF TokenOK, Holder
<1>7. /\ r.ok => m.owns = Me.owns \ {n}
      /\ ~r.ok => m.owns = Me.owns
  <2> HIDE DEF Me
  <2> QED
    BY <1>1, <1>2, <1>3 DEF Releases, RunFields
<1>8. SemsKept(os, r.k, os.list \ {Cur}, {Me.ev})
  <2>1. Touches(os, r.k, os.list, {Me.ev})
    BY <1>3, SemTouches
  <2> QED
    BY <2>1, OthersTouched
<1>9. Below(Me, Owed(r.k, x, Cur))
  <2>1. Owed(os, Me, Cur) \ {n} \subseteq Owed(r.k, x, Cur)
    BY <1>3, <1>7 DEF Owed, Obtains
  <2>2. Len(Me.pc) \in Nat /\ DOMAIN Me.pc = 1 .. Len(Me.pc)
    BY <1>4, NotEmpty DEF StackOK
  <2>3. \A i \in 2 .. Len(Me.pc) : i \in DOMAIN Me.pc
    BY <2>2
  <2> QED
    BY <1>3, <1>5, <2>1, <2>3 DEF Below
<1>10. /\ r.cont \in {<< >>, << "OS_Sched" >>}
       /\ \A i \in prog.owned \ {Me.obj} : i \in m.owns <=> i \in Me.owns
  BY <1>1, <1>7 DEF OSSemPost, Reschedules, Done, Fails
<1>11. r.cont # << "OS_Sched", "MultiPended" >> /\ ~Heir(os', x, Cur, n)
  <2>1. /\ << >> # << "OS_Sched", "MultiPended" >>
        /\ << "OS_Sched" >> # << "OS_Sched", "MultiPended" >>
    OBVIOUS
  <2> QED
    BY <1>3, <1>10, <2>1, NoWaitFor
<1>12. CASE Waiting(os, Me.ev)
  <2> DEFINE j == OS_EventTaskRdy(os, Me.ev, Null, "SEM", "OK")
  <2>1. r.k = j /\ r.ok
    BY <1>12 DEF OSSemPost, Reschedules, Done
  <2>2. Null \in Int
    BY DEF Null
  <2>3. PICK u \in os.list : Me.ev \in Lists(os, u) /\ Answers(os, j, Me.ev, {u}, "SEM", "OK")
    BY <1>3, <1>12, <2>2, RdyOneAnswers
  <2> HIDE DEF j
  <2>4. /\ u \in Tcb /\ WaitOf(run[u]) = "SemPended" /\ run[u].obj = n
    BY <1>3, <1>4, <2>3, ListedWaits
  <2>5. u # Cur
    BY <1>3, <2>4
  <2>6. /\ j.tcb[u].pend = "OK" /\ j.tcb[u].dly = 0 /\ "SEM" \notin j.tcb[u].stat
        /\ \A t \in Tcb \ {u} : j.tcb[t] = os.tcb[t]
        /\ j.event[Me.ev].cnt = os.event[Me.ev].cnt
    BY <1>3, <2>3 DEF Answers, WasAnswered
  <2>7. Heir(os', run'[u], u, n) /\ ~Holder(run'[u], n)
    BY <1>3, <1>6, <2>1, <2>4, <2>5, <2>6 DEF Heir, Got
  <2>8. \A t \in Tcb \ {u} : ~Heir(os', run'[t], t, n) /\ ~Holder(run'[t], n)
    <3>1. ASSUME NEW t \in Tcb \ {u}
          PROVE  ~Heir(os', run'[t], t, n) /\ ~Holder(run'[t], n)
      <4>1. CASE t = Cur
        BY <1>3, <1>7, <1>11, <2>1, <4>1 DEF Holder
      <4>2. CASE t # Cur
        BY <1>3, <1>6, <2>1, <2>6, <4>2 DEF Heir, Got
      <4> QED
        BY <4>1, <4>2
    <3> QED
      BY <3>1
  <2>9. os'.event[obj'[n]].cnt = 0
    BY <1>3, <1>6, <2>1, <2>6
  <2>10. TokenOK(n)'
    BY <2>4, <2>7, <2>8, <2>9 DEF TokenOK
  <2>11. \A t \in Tcb \ {Cur} : Obtains(os, run[t], t, n) => Obtains(r.k, run[t], t, n)
    BY <2>1, <2>6 DEF Obtains
  <2>12. \A i \in prog.owned : i = Me.obj => TokenOK(i)'
    BY <1>1, <2>10
  <2>13. Claims(r, m, x)
    BY <1>2
  <2> QED
    BY <1>1, <1>8, <1>9, <1>10, <1>11, <2>11, <2>12, <2>13, OwnedKeeps
<1>13. CASE ~Waiting(os, Me.ev) /\ os.event[Me.ev].cnt < SemMax
  <2>1. r = Done([os EXCEPT !.event[Me.ev].cnt = @ + 1])
    BY <1>13 DEF OSSemPost
  <2>2. r.k.tcb = os.tcb /\ r.k.event[Me.ev].cnt = 1 /\ r.ok
    <3>1. os.event \in [Ecb -> EventType] /\ DOMAIN os.event = Ecb
      BY <1>3 DEF Kernel
    <3>2. DOMAIN os.event[Me.ev] = {"type", "cnt", "pip", "ptr", "wait"}
      BY <1>3, <3>1 DEF EventType
    <3>3. r.k = [os EXCEPT !.event[Me.ev].cnt = @ + 1] /\ r.ok
      BY <2>1 DEF Done
    <3>4. r.k.tcb = os.tcb /\ r.k.event = [os.event EXCEPT ![Me.ev].cnt = @ + 1]
      BY <1>3, <3>3 DEF Kernel
    <3> QED
      BY <1>3, <1>6, <3>1, <3>2, <3>3, <3>4
  <2>3. ASSUME NEW t \in Tcb
        PROVE  ~Heir(os', run'[t], t, n) /\ ~Holder(run'[t], n)
    <3>1. CASE t = Cur
      BY <1>3, <1>7, <1>11, <2>2, <3>1 DEF Holder
    <3>2. CASE t # Cur
      BY <1>3, <1>6, <2>2, <3>2 DEF Heir, Got
    <3> QED
      BY <3>1, <3>2
  <2>4. os'.event[obj'[n]].cnt = 1
    BY <1>3, <2>2
  <2>5. TokenOK(n)'
    BY <2>3, <2>4 DEF TokenOK
  <2>6. \A t \in Tcb \ {Cur} : Obtains(os, run[t], t, n) => Obtains(r.k, run[t], t, n)
    BY <2>2 DEF Obtains
  <2>7. \A i \in prog.owned : i = Me.obj => TokenOK(i)'
    BY <1>1, <2>5
  <2>8. Claims(r, m, x)
    BY <1>2
  <2> QED
    BY <1>1, <1>8, <1>9, <1>10, <1>11, <2>6, <2>7, <2>8, OwnedKeeps
<1>14. CASE ~Waiting(os, Me.ev) /\ ~(os.event[Me.ev].cnt < SemMax)
  <2>1. r = Fails(os)
    BY <1>14 DEF OSSemPost
  <2>2. r.k = os /\ ~r.ok
    BY <2>1 DEF Fails, Done
  <2>3. m.owns = Me.owns /\ Claims(r, m, x)
    BY <1>2, <1>7, <2>2
  <2> QED
    BY <1>8, <1>10, <2>2, <2>3, LeaveKeeps
<1> QED
  BY <1>12, <1>13, <1>14

(* Those that wait are sent back without the token.                        *)
LEMMA SendBackKeeps ==
  ASSUME NEW r, NEW x, Claims(r, Me, x), Head(Me.pc) = "SemPendAbort",
         NEW opt \in {"NONE", "BROADCAST"}, r = OSSemPendAbort(os, Me.ev, opt)
  PROVE  LocksOK'
<1>1. PICK n : n = Me.obj
  OBVIOUS
<1>3. /\ n \in prog.owned /\ obj[n] = Me.ev /\ Me.ev \in Ecb /\ os \in Kernel /\ Sound(os)
      /\ Me.pc # << >>
  BY <1>1, ClaimFields
<1>4. /\ PlainInv /\ LocksOK /\ os.event[Me.ev].type = "SEM" /\ Rightful(prog.owned, obj, Me)
  BY DEF Claims, Called, Stepping
<1>5. Me.obj \notin HalLocks
  BY <1>3, <1>4 DEF Rightful
<1>6. SemsKept(os, r.k, os.list \ {Cur}, {Me.ev})
  <2>1. Touches(os, r.k, os.list, {Me.ev})
    BY <1>3, AbortTouches DEF OSSemPendAbort
  <2> QED
    BY <2>1, OthersTouched
<1>7. r.cont \in {<< >>, << "OS_Sched" >>}
  BY DEF OSSemPendAbort, AbortPend, Reschedules, Done
<1>8. ASSUME NEW T \in SUBSET os.list, \A u \in T : Me.ev \in Lists(os, u),
             Answers(os, r.k, Me.ev, T, "SEM", "ABORT")
      PROVE  LocksOK'
  <2>1. r.k.event[Me.ev].cnt = os.event[Me.ev].cnt
    BY <1>3, <1>8 DEF Answers
  <2>2. ASSUME NEW u \in Tcb
        PROVE  Heir(r.k, run[u], u, n) <=> Heir(os, run[u], u, n)
    <3>1. CASE u \in T
      <4>1. ~Heir(os, run[u], u, n)
        BY <1>3, <1>4, <1>8, <3>1, ListedWaits
      <4>2. ~Heir(r.k, run[u], u, n)
        BY <1>8, <3>1 DEF Answers, WasAnswered, Heir, Got
      <4> QED
        BY <4>1, <4>2
    <3>2. CASE u \notin T
      BY <1>8, <3>2 DEF Answers, Heir, Got
    <3> QED
      BY <3>1, <3>2
  <2>3. \A u \in Tcb \ {Cur} :
           /\ Heir(r.k, run[u], u, Me.obj) <=> Heir(os, run[u], u, Me.obj)
           /\ Me.obj \in HalLocks =>
                (Obtains(os, run[u], u, Me.obj) => Obtains(r.k, run[u], u, Me.obj))
    BY <1>1, <1>5, <2>2
  <2>4. PICK m : m = Me
    OBVIOUS
  <2>5. Claims(r, m, x) /\ m.owns = Me.owns
    BY <2>4
  <2>6. Head(Me.pc) \notin {"SemPend", "SemPended"}
    OBVIOUS
  <2> QED
    BY <1>6, <1>7, <2>1, <2>3, <2>5, <2>6, LeaveKeeps
<1>9. Null \in Int
  BY DEF Null
<1>10. CASE ~Waiting(os, Me.ev)
  <2>1. r.k = os
    BY <1>10 DEF OSSemPendAbort, AbortPend, Done
  <2>2. PICK m : m = Me
    OBVIOUS
  <2>3. Claims(r, m, x) /\ m.owns = Me.owns
    BY <2>2
  <2>4. Head(Me.pc) \notin {"SemPend", "SemPended"}
    OBVIOUS
  <2> QED
    BY <1>6, <1>7, <2>1, <2>3, <2>4, LeaveKeeps
<1>11. CASE Waiting(os, Me.ev) /\ opt = "BROADCAST"
  <2>1. r.k = RdyAll(os, Me.ev, Null, "SEM", "ABORT")
    BY <1>11 DEF OSSemPendAbort, AbortPend, Reschedules, Done
  <2>2. PICK T \in SUBSET os.list :
           /\ \A u \in T : Me.ev \in Lists(os, u)
           /\ Answers(os, r.k, Me.ev, T, "SEM", "ABORT")
    BY <1>3, <1>9, <2>1, RdyAllAnswers
  <2> QED
    BY <1>8, <2>2
<1>12. CASE Waiting(os, Me.ev) /\ opt = "NONE"
  <2> DEFINE j == OS_EventTaskRdy(os, Me.ev, Null, "SEM", "ABORT")
  <2>1. r.k = j
    BY <1>12 DEF OSSemPendAbort, AbortPend, Reschedules, Done
  <2>2. PICK u \in os.list :
           Me.ev \in Lists(os, u) /\ Answers(os, j, Me.ev, {u}, "SEM", "ABORT")
    BY <1>3, <1>9, <1>12, RdyOneAnswers
  <2> HIDE DEF j
  <2>3. PICK T : T = {u}
    OBVIOUS
  <2> QED
    BY <1>8, <2>1, <2>2, <2>3
<1> QED
  BY <1>10, <1>11, <1>12

LEMMA SemKeeps ==
  ASSUME Stepping, LocksOK,
         SemAccept \/ SemPend \/ SemReturn \/ SemPost \/ SemAbort \/ SemSet
  PROVE  LocksOK'
<1>0. \A op \in SemCalls : op \in EventOps /\ TypeFor(op) = "SEM"
  BY DEF SemCalls, EventOps, TypeFor
<1> DEFINE Given(op) == /\ Sound(os) /\ Idle(os) /\ os \in Kernel
                        /\ Me.ev \in Ecb /\ os.event[Me.ev].type = "SEM"
                        /\ ArgOK(op, Me.arg) /\ DOMAIN Me = RunFields
                        /\ Head(Me.pc) = op
<1>1. ASSUME NEW op \in SemCalls, At(op)
      PROVE  Given(op)
  BY <1>0, <1>1, EventCaller DEF Sound, At
<1> HIDE DEF Given
<1>2. CASE SemAccept
  <2> DEFINE r == OSSemAccept(os, Me.ev)
  <2>1. At("SemAccept") /\ Quietly(r, Acquires(r)) /\ "SemAccept" \in SemCalls
    BY <1>2 DEF SemAccept, SemCalls
  <2>2. Given("SemAccept")
    BY <1>1, <2>1
  <2>3. Serves(os, r) /\ Touches(os, r.k, os.list, {Me.ev}) /\ Alike(Me, Acquires(r))
    BY <2>2, SemAcceptServes, SemTouches, AlikeIs DEF Given
  <2>4. IF os.event[Me.ev].cnt > 0 THEN r = Done([os EXCEPT !.event[Me.ev].cnt = @ - 1])
                                   ELSE r.k = os /\ ~r.ok /\ r.cont = << >>
    BY DEF OSSemAccept, Fails, Done
  <2> HIDE DEF r
  <2>5. CASE Me.obj \notin prog.owned
    BY <2>1, <2>3, <2>5, FreeKeeps
  <2>6. CASE Me.obj \in prog.owned
    <3>1. Fits(r)
      BY <2>3, FitsIf
    <3>2. PICK x : Claims(r, Acquires(r), x)
      BY <2>1, <2>2, <2>3, <2>6, <3>1, ClaimIs DEF Given
    <3>3. CASE os.event[Me.ev].cnt > 0
      BY <2>2, <2>4, <3>2, <3>3, TakeKeeps DEF Given
    <3>4. CASE ~(os.event[Me.ev].cnt > 0)
      <4>1. Acquires(r) = Me
        BY <2>4, <3>4 DEF Acquires
      <4>2. PICK m : m = Me
        OBVIOUS
      <4>3. Claims(r, m, x) /\ m.owns = Me.owns /\ Head(Me.pc) \notin {"SemPend", "SemPended"}
        BY <2>2, <3>2, <4>1, <4>2 DEF Given
      <4>4. SemsKept(os, r.k, os.list \ {Cur}, {Me.ev})
        BY <2>3, OthersTouched
      <4> QED
        BY <2>4, <3>4, <4>3, <4>4, LeaveKeeps
    <3> QED
      BY <3>3, <3>4
  <2> QED
    BY <2>5, <2>6
<1>3. CASE SemPend
  <2> DEFINE r == OSSemPend(os, Me.ev, Me.arg)
  <2>1. At("SemPend") /\ Quietly(r, Acquires(r)) /\ "SemPend" \in SemCalls
        /\ "SemPended" \in WaitLabels
    BY <1>3 DEF SemPend, SemCalls, WaitLabels
  <2>2. Given("SemPend")
    BY <1>1, <2>1
  <2>3. Me.arg \in Nat
    BY <2>2 DEF Given, ArgOK
  <2>4. /\ Serves(os, r) \/ GoesToWait(os, r, "SemPended", Me.ev)
        /\ Touches(os, r.k, os.list \ {Cur}, {Me.ev}) /\ Alike(Me, Acquires(r))
    BY <2>2, <2>3, SemPendServes, SemWaitTouches, AlikeIs DEF Given, Cur
  <2>5. IF os.event[Me.ev].cnt > 0
        THEN r = Done([os EXCEPT !.event[Me.ev].cnt = @ - 1])
        ELSE r = Blocks(OS_EventTaskWait(StartsToWait(os, {"SEM"}, Me.arg), Me.ev),
                        "SemPended")
    BY DEF OSSemPend
  <2> HIDE DEF r
  <2>6. CASE Me.obj \notin prog.owned
    BY <2>1, <2>4, <2>6, FreeKeeps
  <2>7. CASE Me.obj \in prog.owned
    <3>1. Fits(r)
      BY <2>1, <2>4, FitsIf
    <3>2. PICK x : Claims(r, Acquires(r), x)
      BY <2>1, <2>2, <2>4, <2>7, <3>1, ClaimIs DEF Given
    <3>3. CASE os.event[Me.ev].cnt > 0
      BY <2>2, <2>5, <3>2, <3>3, TakeKeeps DEF Given
    <3>4. CASE ~(os.event[Me.ev].cnt > 0)
      BY <2>2, <2>3, <2>5, <3>2, <3>4, WaitKeeps DEF Given
    <3> QED
      BY <3>3, <3>4
  <2> QED
    BY <2>6, <2>7
<1>4. CASE SemReturn
  <2> DEFINE r == SemPended(os, Me.ev)
  <2>1. At("SemPended") /\ Quietly(r, Acquires(r)) /\ "SemPended" \in WaitLabels
    BY <1>4 DEF SemReturn, WaitLabels
  <2>2. /\ WaitsForOne(os, Cur, "SEM", Me.ev) /\ Sound(os) /\ os.cur \in os.list
        /\ IsReady(os, Cur) /\ DOMAIN Me = RunFields /\ Head(Me.pc) = "SemPended"
    BY <2>1, CallerIs DEF TaskOK, KindOf
  <2>3. /\ ComesBack(os, r) /\ Touches(os, r.k, os.list \ {Cur}, {}) /\ Alike(Me, Acquires(r))
        /\ Me.ev \in Ecb
    BY <2>1, <2>2, CallerIs, SemPendedBack, AlikeIs, MessageTouches DEF WaitsForOne, Cur
  <2>4. PICK s : s = r
    OBVIOUS
  <2>5. CASE Me.obj \notin prog.owned
    <3> HIDE DEF r
    <3> QED
      BY <2>1, <2>3, <2>5, FreeKeeps
  <2>6. CASE Me.obj \in prog.owned
    <3>1. Fits(s) /\ Alike(Me, Acquires(s)) /\ Quietly(s, Acquires(s))
      BY <2>1, <2>3, <2>4, FitsIf
    <3>2. PICK x : Claims(s, Acquires(s), x)
      BY <2>1, <2>3, <2>6, <3>1, ClaimIs
    <3> QED
      BY <2>2, <2>4, <3>2, ReturnsWith
  <2> QED
    BY <2>5, <2>6
<1>5. CASE SemPost
  <2> DEFINE r == OSSemPost(os, Me.ev)
  <2>1. At("SemPost") /\ Quietly(r, Releases(r)) /\ "SemPost" \in SemCalls
    BY <1>5 DEF SemPost, SemCalls
  <2>2. Given("SemPost")
    BY <1>1, <2>1
  <2>3. Serves(os, r) /\ Touches(os, r.k, os.list, {Me.ev}) /\ Alike(Me, Releases(r))
    BY <2>2, SemPostServes, SemTouches, AlikeIs DEF Given
  <2>4. PICK s : s = r
    OBVIOUS
  <2>5. CASE Me.obj \notin prog.owned
    <3> HIDE DEF r
    <3> QED
      BY <2>1, <2>3, <2>5, FreeKeeps
  <2>6. CASE Me.obj \in prog.owned
    <3>1. Fits(s) /\ Alike(Me, Releases(s)) /\ Quietly(s, Releases(s))
      BY <2>1, <2>3, <2>4, FitsIf
    <3>2. PICK x : Claims(s, Releases(s), x)
      BY <2>1, <2>2, <2>6, <3>1, ClaimIs DEF Given
    <3> QED
      BY <2>2, <2>4, <3>2, GiveKeeps DEF Given
  <2> QED
    BY <2>5, <2>6
<1>6. CASE SemAbort
  <2> DEFINE r == OSSemPendAbort(os, Me.ev, Me.arg)
  <2>1. At("SemPendAbort") /\ Quietly(r, Me) /\ "SemPendAbort" \in SemCalls
    BY <1>6 DEF SemAbort, SemCalls
  <2>2. Given("SemPendAbort") /\ Me.arg \in {"NONE", "BROADCAST"}
    BY <1>1, <2>1 DEF Given, ArgOK
  <2>3. Serves(os, r) /\ Touches(os, r.k, os.list, {Me.ev}) /\ Alike(Me, Me)
    BY <2>2, AbortServes, AbortTouches, AlikeIs DEF Given, OSSemPendAbort, EventTypes
  <2>4. PICK s : s = r
    OBVIOUS
  <2>5. CASE Me.obj \notin prog.owned
    <3> HIDE DEF r
    <3> QED
      BY <2>1, <2>3, <2>5, FreeKeeps
  <2>6. CASE Me.obj \in prog.owned
    <3>1. Fits(s) /\ Quietly(s, Me)
      BY <2>1, <2>3, <2>4, FitsIf
    <3>2. PICK x : Claims(s, Me, x)
      BY <2>1, <2>2, <2>3, <2>6, <3>1, ClaimIs DEF Given
    <3> QED
      BY <2>2, <2>4, <3>2, SendBackKeeps DEF Given
  <2> QED
    BY <2>5, <2>6
<1>7. CASE SemSet
  <2> DEFINE r == OSSemSet(os, Me.ev, Me.arg)
  <2>1. At("SemSet") /\ Quietly(r, Me) /\ "SemSet" \in SemCalls
    BY <1>7 DEF SemSet, SemCalls
  <2>2. Given("SemSet") /\ Me.arg \in Nat
    BY <1>1, <2>1 DEF Given, ArgOK
  <2>3. Serves(os, r) /\ Touches(os, r.k, os.list, {Me.ev})
    BY <2>2, SemSetServes, SemTouches DEF Given
  <2>4. Me.obj \notin prog.owned
    <3>1. Rightful(prog.owned, obj, Me)
      BY StepperIs DEF LocksOK, Me
    <3> QED
      BY <2>1, <3>1 DEF Rightful, At
  <2> HIDE DEF r
  <2> QED
    BY <2>1, <2>3, <2>4, FreeKeeps
<1> QED
  BY <1>2, <1>3, <1>4, <1>5, <1>6, <1>7

-----------------------------------------------------------------------------
(* Creations.  An object that a task creates is not one of the owned.      *)

LEMMA FreshEvents ==
  ASSUME NEW k, Sound(k), NEW arg
  PROVE  /\ OSSemCreate(k, arg).loc = Null \/ k.event[OSSemCreate(k, arg).loc].type = "UNUSED"
         /\ OSMboxCreate(k, arg).loc = Null \/ k.event[OSMboxCreate(k, arg).loc].type = "UNUSED"
<1>1. k.freeEvent # << >> => k.event[Head(k.freeEvent)].type = "UNUSED"
  BY Pools, TailOnce
<1> QED
  BY <1>1 DEF OSSemCreate, OSMboxCreate, Returns, Done, Fails

LEMMA CreatedKeeps ==
  ASSUME Stepping, LocksOK, Guarded(prog), NEW op \in CreateOps \cup {"QCreateRing"}, At(op),
         NEW r, Creates(r), Adds(os, r.k), r.cont = << >>,
         \/ Me.obj \in GroupNames(prog) \/ r.loc = Null \/ os.event[r.loc].type # "SEM",
         Touches(os, r.k, os.list, {})
  PROVE  LocksOK'
<1>1. op \notin {"OS_Sched", "SemPended"} \cup SemCalls \cup WaitLabels
  BY DEF CreateOps, SemCalls, WaitLabels
<1>2. HeadOK(prog, os, Me, op) /\ Alike(Me, Me) /\ PlainInv
  BY <1>1, CallerIs DEF Alike, Stepping
<1>3. Calling(r, Me) /\ Head(Me.pc) = op
  BY <1>1, <1>2 DEF Calling, At, Creates
<1>4. PICK h : h = IF r.ok THEN r.loc ELSE Null
  OBVIOUS
<1>5. obj' = [obj EXCEPT ![Me.obj] = h]
  BY <1>4 DEF Creates
<1>6. Declares(prog, Me.obj, "NONE")
  BY <1>2 DEF HeadOK
<1>7. \A n \in prog.owned : n # Me.obj /\ n \in Names(prog)
  <2>1. \A i, j \in DOMAIN prog.objects :
          prog.objects[i].name = prog.objects[j].name => i = j
    BY <1>2 DEF PlainInv, PlainPrograms, Plain, ObjectsPlain
  <2> QED
    BY <1>2, <1>6, <2>1, GuardedIs DEF Declares
<1>8. DOMAIN obj = Names(prog)
  BY <1>2 DEF PlainInv, HandlesOK
<1>9. \A n \in prog.owned : obj'[n] = obj[n]
  BY <1>5, <1>7, <1>8
<1>10. \A a \in Names(prog) \ GroupNames(prog) :
          obj'[a] \in {obj[a], Null} \/ os.event[obj'[a]].type # "SEM"
  <2> HIDE DEF Me
  <2> QED
    BY <1>4, <1>5, <1>8
<1>11. Fits(r)
  BY FitsIf
<1>12. ~SemAt(Me)
  BY <1>1, <1>3 DEF SemAt, WaitOf
<1>13. << >> # << "OS_Sched", "SemPended" >> /\ << >> # << "OS_Sched", "MultiPended" >>
  OBVIOUS
<1>14. SemsKept(os, r.k, os.list \ {Cur}, {})
  BY OthersTouched
<1>15. r.cont # << "OS_Sched", "SemPended" >> /\ r.cont # << "OS_Sched", "MultiPended" >>
  BY <1>13
<1>16. PICK m : m = Me
  OBVIOUS
<1>17. Calling(r, m) /\ \A n \in prog.owned : n \in m.owns <=> n \in Me.owns
  BY <1>3, <1>16
<1> HIDE DEF Me
<1> QED
  BY <1>9, <1>10, <1>11, <1>12, <1>14, <1>15, <1>17, NobodyTouched, CallKeeps

LEMMA CreateKeeps ==
  ASSUME Stepping, LocksOK, Guarded(prog),
         SemCreate \/ MboxCreate \/ FlagCreate \/ QCreate \/ QCreated
  PROVE  LocksOK'
<1>1. ASSUME NEW op \in CreateOps \cup {"QCreateRing"}, At(op)
      PROVE  /\ Sound(os) /\ ArgOK(op, Me.arg) /\ DOMAIN Me = RunFields
             /\ Me.obj \in GroupNames(prog) <=> op = "FlagCreate"
             /\ op = "QCreateRing" => Limbo(os, Me.loc)
  <2>1. op # "OS_Sched"
    BY DEF CreateOps
  <2>2. Sound(os) /\ HeadOK(prog, os, Me, op) /\ DOMAIN Me = RunFields
    BY <1>1, <2>1, CallerIs
  <2> QED
    BY <2>2 DEF HeadOK
<1>3. CASE SemCreate
  <2> DEFINE r == OSSemCreate(os, Me.arg)
  <2>1. At("SemCreate") /\ Creates(r) /\ "SemCreate" \in CreateOps
    BY <1>3 DEF SemCreate, CreateOps
  <2>2. /\ MakesEvent(os, r, "SEM") /\ Touches(os, r.k, os.list, {})
        /\ r.loc = Null \/ os.event[r.loc].type = "UNUSED"
    BY <1>1, <2>1, SemCreateMakes, CreateTouches, FreshEvents DEF ArgOK
  <2> HIDE DEF r
  <2> QED
    BY <2>1, <2>2, CreatedKeeps DEF MakesEvent
<1>4. CASE MboxCreate
  <2> DEFINE r == OSMboxCreate(os, Me.arg)
  <2>1. At("MboxCreate") /\ Creates(r) /\ "MboxCreate" \in CreateOps
    BY <1>4 DEF MboxCreate, CreateOps
  <2>2. /\ MakesEvent(os, r, "MBOX") /\ Touches(os, r.k, os.list, {})
        /\ r.loc = Null \/ os.event[r.loc].type = "UNUSED"
    BY <1>1, <2>1, MboxCreateMakes, CreateTouches, FreshEvents DEF ArgOK
  <2> HIDE DEF r
  <2> QED
    BY <2>1, <2>2, CreatedKeeps DEF MakesEvent
<1>5. CASE FlagCreate
  <2> DEFINE r == OSFlagCreate(os, Me.arg)
  <2>1. At("FlagCreate") /\ Creates(r) /\ "FlagCreate" \in CreateOps
    BY <1>5 DEF FlagCreate, CreateOps
  <2>2. MakesGroup(os, r) /\ Me.obj \in GroupNames(prog) /\ Touches(os, r.k, os.list, {})
    BY <1>1, <2>1, FlagCreateMakes, CreateTouches DEF ArgOK
  <2> HIDE DEF r
  <2> QED
    BY <2>1, <2>2, CreatedKeeps DEF MakesGroup
<1>6. CASE QCreate
  <2> DEFINE r == OSQCreate(os)
  <2>1. At("QCreate") /\ Quietly(r, Me) /\ "QCreate" \in CreateOps
        /\ "QCreate" \notin SemCalls \cup {"SemPended", "OS_Sched"}
    BY <1>6 DEF QCreate, CreateOps, SemCalls
  <2>2. Sound(os) /\ Alike(Me, Me)
    BY <1>1, <2>1, AlikeIs
  <2>3. Elsewhere(r, "QCreate")
    <3>1. CASE os.freeEvent = << >>
      BY <2>2, <3>1, SameServes DEF OSQCreate, Elsewhere
    <3>2. CASE os.freeEvent # << >>
      BY <2>2, <3>2, QCreateTakes DEF Elsewhere
    <3> QED
      BY <3>1, <3>2
  <2>4. Touches(os, r.k, os.list, {})
    BY <2>2, CreateTouches
  <2> HIDE DEF r
  <2>5. SemsKept(os, r.k, os.list \ {Cur}, {})
    BY <2>4, OthersTouched
  <2>6. PICK m : m = Me
    OBVIOUS
  <2>7. Quietly(r, m) /\ Alike(Me, m) /\ m.owns = Me.owns
    BY <2>1, <2>2, <2>6
  <2> QED
    BY <2>1, <2>3, <2>5, <2>7, NobodyTouched, Harmless
<1>7. CASE QCreated
  <2> DEFINE r == QCreateRing(os, Me.loc)
  <2>1. At("QCreateRing") /\ Creates(r)
    BY <1>7 DEF QCreated
  <2>2. Sound(os) /\ Limbo(os, Me.loc)
    BY <1>1, <2>1
  <2>3. /\ MakesRing(os, r, Me.loc) /\ Touches(os, r.k, os.list, {})
        /\ r.loc = Null \/ r.loc = Me.loc
    BY <2>2, QCreateRingMakes, QueueTouches DEF QCreateRing, Returns, Done, Fails
  <2> HIDE DEF r
  <2>4. r.loc = Null \/ os.event[r.loc].type # "SEM"
    BY <2>2, <2>3 DEF Limbo
  <2> QED
    BY <2>1, <2>3, <2>4, CreatedKeeps DEF MakesRing
<1> QED
  BY <1>3, <1>4, <1>5, <1>6, <1>7

-----------------------------------------------------------------------------
(* The scheduler, when a call comes to it.                                 *)

LEMMA Resumed ==
  ASSUME NEW me, StackOK(me.pc), me.pc # << >>, Head(me.pc) = "OS_Sched", Shallow(me),
         NEW n, n.pc = << >> \o Tail(me.pc)
  PROVE  /\ Shallow(n)
         /\ \A i \in DOMAIN n.pc : \E m \in DOMAIN me.pc : n.pc[i] = me.pc[m]
<1>1. me.pc \in Seq(Labels) /\ << >> \in Seq(Labels) /\ Len(<< >>) = 0
  BY DEF StackOK
<1>2. /\ Len(n.pc) = Len(<< >>) + Len(me.pc) - 1 /\ DOMAIN n.pc = 1 .. Len(n.pc)
      /\ Len(me.pc) \in Nat \ {0}
      /\ \A i \in DOMAIN n.pc :
           \/ i \in DOMAIN << >>
           \/ \E m \in 2 .. Len(me.pc) : n.pc[i] = me.pc[m] /\ i = Len(<< >>) + m - 1
  BY <1>1, Behind
<1>3. \A i \in DOMAIN n.pc :
         \E m \in 2 .. Len(me.pc) : n.pc[i] = me.pc[m] /\ i = m - 1
  BY <1>1, <1>2
<1>4. DOMAIN me.pc = 1 .. Len(me.pc)
  BY <1>1
<1>5. \A m \in 2 .. Len(me.pc) : m \in DOMAIN me.pc
  BY <1>2, <1>4
<1>6. \A i \in DOMAIN n.pc : \E m \in DOMAIN me.pc : n.pc[i] = me.pc[m]
  BY <1>3, <1>5
<1>7. Shallow(n)
  BY <1>1, <1>2, <1>3, <1>5 DEF Shallow
<1> QED
  BY <1>6, <1>7

LEMMA SchedKeeps ==
  ASSUME Stepping, LocksOK, Sched
  PROVE  LocksOK'
<1> DEFINE r == Done(OS_Sched(os))
<1>1. PICK n : n = Left(r, Me)
  OBVIOUS
<1>2. /\ Sound(os) /\ Cur \in os.list /\ Cur \in Tcb /\ os.prioCur = os.tcb[Cur].prio
      /\ ThreadOK(prog, os, Me) /\ PlainInv
  BY StepperIs DEF Stepping
<1>3. /\ r.cont = << >> /\ r.loc = Null
      /\ Me.pc # << >> /\ Head(Me.pc) = "OS_Sched" /\ os' = OS_Sched(os)
      /\ run' = [run EXCEPT ![Cur] = n] /\ UNCHANGED << prog, boot, obj >>
  BY <1>1 DEF Sched, At, Quietly, Leave, Done, Stepping
<1>4. Me.hand \subseteq Block /\ Alike(Me, Me) /\ DOMAIN Me = RunFields /\ StackOK(Me.pc)
  BY <1>2 DEF ThreadOK, Alike
<1>5. /\ Entitled(prog.owned, os, Me, Cur) /\ Rightful(prog.owned, obj, Me) /\ Shallow(Me)
  BY <1>2 DEF LocksOK, Me
<1>6. GoesOn(Me, << >>, Null, n) /\ n.owns = Me.owns
  <2> HIDE DEF Me, r
  <2> QED
    BY <1>1, <1>3, <1>4, LeftIs, LeftOwns
<1>7. /\ Switches(os, os')
      /\ os.lock = 0 => RunsHighest(os')
      /\ os.lock # 0 => os' = os
  <2>1. os.cur \in os.list /\ os.prioCur = os.tcb[os.cur].prio
    BY <1>2 DEF Cur
  <2> QED
    BY <1>2, <1>3, <2>1, SchedSwitches
<1>8. /\ KeepsTypes(os, os') /\ os'.tcb = os.tcb
      /\ \A e \in Ecb : os'.event[e].cnt = os.event[e].cnt
  BY <1>7, SwitchesCommon DEF Switches, AllSame, Common
<1>9. os'.cur # Null
  <2>1. CASE os.lock = 0
    <3>1. os'.cur \in Tcb
      BY <1>2, <1>7, <2>1, Fields DEF Sound, Switches, RunsHighest, AllSame
    <3> QED
      BY <3>1, CoreAssumption DEF Tcb, Null
  <2>2. CASE os.lock # 0
    BY <1>7, <2>2 DEF Stepping, Running
  <2> QED
    BY <2>1, <2>2
<1> HIDE DEF r
<1>10. SemsKept(os, os', os.list \ {Cur}, {})
  <2>1. Touches(os, os', os.list \ {Cur}, {})
    BY <1>8, SameTouches
  <2> QED
    BY <2>1, TouchesKeeps
<1>11. /\ WaitOf(n) = WaitOf(Me)
       /\ n.pc # << >> => Head(n.pc) \in Conts \cup WaitLabels
       /\ n.pc = << >> => WaitOf(n) = "none"
       /\ Shallow(n) /\ \A i \in DOMAIN n.pc : \E m \in DOMAIN Me.pc : n.pc[i] = Me.pc[m]
  <2> HIDE DEF Me
  <2>1. n.pc = << >> \o Tail(Me.pc)
    BY <1>6 DEF GoesOn
  <2>2. Me.pc # << >> /\ Head(Me.pc) = "OS_Sched" /\ StackOK(Me.pc) /\ Shallow(Me)
    BY <1>3, <1>4, <1>5
  <2>3. /\ WaitOf(n) = WaitOf(Me)
        /\ n.pc # << >> => Head(n.pc) \in Conts \cup WaitLabels
        /\ n.pc = << >> => WaitOf(n) = "none"
    BY <2>1, <2>2, SchedReturns
  <2>4. Shallow(n) /\ \A i \in DOMAIN n.pc : \E m \in DOMAIN Me.pc : n.pc[i] = Me.pc[m]
    <3>1. PICK me : me = Me
      OBVIOUS
    <3>2. /\ me.pc # << >> /\ Head(me.pc) = "OS_Sched" /\ StackOK(me.pc) /\ Shallow(me)
          /\ n.pc = << >> \o Tail(me.pc)
      BY <2>1, <2>2, <3>1
    <3>3. Shallow(n) /\ \A i \in DOMAIN n.pc : \E m \in DOMAIN me.pc : n.pc[i] = me.pc[m]
      BY <3>2, Resumed
    <3> QED
      BY <3>1, <3>3
  <2> QED
    BY <2>3, <2>4
<1>12. WaitOf(n) # "none" => n.obj = Me.obj /\ n.ev = Me.ev
  BY <1>6, <1>11 DEF GoesOn
<1>13. Head(Me.pc) \notin SemCalls \cup {"SemPend", "PendMulti"}
  BY <1>3 DEF SemCalls
<1>14. Entitled(prog.owned, os', n, Cur)
  <2>1. \A x : Obtains(os, Me, Cur, x) => Obtains(os', n, Cur, x)
    BY <1>8, <1>11, <1>12, <1>13 DEF Obtains
  <2> HIDE DEF Me
  <2> QED
    BY <1>5, <1>6, <1>11, <2>1 DEF Entitled
<1>15. Rightful(prog.owned, obj', n)
  <2>1. n.pc # << >> => Head(n.pc) \notin SemCalls \cup {"PendMulti", "LibUnlock", "Open",
                                                        "Ioctl", "Read", "Write"}
    BY <1>11 DEF Conts, WaitLabels, SemCalls
  <2>2. (SemAt(n) => SemAt(Me)) /\ (ManyAt(n) => ManyAt(Me))
    BY <1>11, <2>1 DEF SemAt, ManyAt
  <2>3. SemAt(n) \/ ManyAt(n) => n.obj = Me.obj /\ n.ev = Me.ev
    BY <1>12, <2>1 DEF SemAt, ManyAt
  <2> HIDE DEF Me
  <2> QED
    BY <1>3, <1>5, <2>1, <2>2, <2>3 DEF Rightful, SemCalls
<1>16. \A x : Heir(os', n, Cur, x) <=> Heir(os, Me, Cur, x)
  BY <1>8, <1>11, <1>12 DEF Heir, Got
<1>17. \A x : Holder(n, x) <=> Holder(Me, x)
  BY <1>6 DEF Holder
<1>18. \A x \in prog.owned : obj'[x] = obj[x]
  BY <1>3
<1>19. \A a \in Names(prog) \ GroupNames(prog) : obj'[a] \in {obj[a], Null}
  BY <1>3
<1>20. PICK S : S = {}
  OBVIOUS
<1>21. SemsKept(os, os', os.list \ {Cur}, S) /\ \A x : x \notin S
  BY <1>10, <1>20
<1> HIDE DEF Me
<1> QED
  BY <1>3, <1>8, <1>9, <1>11, <1>14, <1>15, <1>16, <1>17, <1>18, <1>19, <1>21, RunnerKeeps

-----------------------------------------------------------------------------
(* The steps of the library and the HAL.  They are the last of their stack *)
(* and have the lock that their label needs.                               *)

HalStep(l, m) ==
    /\ Stepped(l, m) /\ LocksOK /\ l \in HalSteps /\ m.owns = Me.owns

LEMMA GotoOwns ==
  ASSUME NEW next, NEW m, DOMAIN m = RunFields
  PROVE  Settle([m EXCEPT !.pc = next \o Tail(@)]).owns = m.owns
<1> DEFINE i == [m EXCEPT !.pc = next \o Tail(@)]
<1>1. DOMAIN i = RunFields /\ i.owns = m.owns
  BY DEF RunFields
<1> HIDE DEF i
<1>2. Settle(i).owns = i.owns
  BY <1>1 DEF Settle, RunFields
<1> QED
  BY <1>1, <1>2 DEF i

LEMMA LastOfStack ==
  ASSUME NEW me, StackOK(me.pc), me.pc # << >>, Head(me.pc) \in HalSteps, Shallow(me)
  PROVE  Len(me.pc) = 1 /\ Tail(me.pc) = << >>
<1>1. me.pc \in Seq(Labels)
  BY DEF StackOK
<1>2. Len(me.pc) \in Nat /\ DOMAIN me.pc = 1 .. Len(me.pc) /\ Len(me.pc) > 0
      /\ Head(me.pc) = me.pc[1]
  BY <1>1, NotEmpty
<1>3. 1 \in DOMAIN me.pc
  BY <1>2
<1>4. Len(me.pc) = 1
  BY <1>2, <1>3 DEF Shallow
<1>5. PICK s : s = Tail(me.pc)
  OBVIOUS
<1>6. s \in Seq(Labels) /\ Len(s) = 0
  BY <1>1, <1>4, <1>5
<1>7. s = << >>
  BY <1>6, NotEmpty
<1> QED
  BY <1>4, <1>5, <1>7

LEMMA HalAt ==
  ASSUME NEW l, NEW m, HalStep(l, m)
  PROVE  /\ Tail(Me.pc) = << >> /\ Me.pc # << >> /\ Head(Me.pc) = l
         /\ Cur \in Tcb /\ Cur \in os.list /\ PlainInv /\ Running /\ os.cur # Null
         /\ LockFor(l) # NoName => LockFor(l) \in prog.owned /\ LockFor(l) \in Me.owns
         /\ Rightful(prog.owned, obj, Me)
         /\ WaitOf(Me) # "SemPended"
         /\ HeadOK(prog, os, Me, l) /\ Backed(prog, l) /\ DOMAIN Me = RunFields
         /\ UNCHANGED << os, obj, prog >>
<1>1. /\ Stepping /\ At(l) /\ UNCHANGED << os, obj >> /\ LocksOK /\ l \in HalSteps
      /\ l \notin WaitLabels \cup {"OS_Sched"}
  BY DEF HalStep, Stepped
<1>2. /\ Cur \in Tcb /\ Cur \in os.list /\ ThreadOK(prog, os, Me) /\ PlainInv /\ Running
      /\ UNCHANGED prog /\ os.cur # Null
  BY <1>1, StepperIs DEF Stepping, Running
<1>3. /\ Entitled(prog.owned, os, Me, Cur) /\ Rightful(prog.owned, obj, Me) /\ Shallow(Me)
  BY <1>1, <1>2 DEF LocksOK, Me
<1>4. Me.pc # << >> /\ Head(Me.pc) = l /\ StackOK(Me.pc)
  BY <1>1, <1>2 DEF At, ThreadOK
<1>5. HeadOK(prog, os, Me, l) /\ Backed(prog, l) /\ DOMAIN Me = RunFields
  BY <1>1, CallerIs
<1> HIDE DEF Me
<1>6. PICK me : me = Me
  OBVIOUS
<1>7. Len(me.pc) = 1 /\ Tail(me.pc) = << >>
  BY <1>1, <1>3, <1>4, <1>6, LastOfStack
<1>8. WaitOf(me) # "SemPended"
  BY <1>1, <1>4, <1>6 DEF WaitOf, WaitLabels
<1>9. "SemPend" \notin HalSteps
  BY DEF HalSteps, LibLabels, LibOps, IoOps, Conts
<1>10. me.pc \in Seq(Labels)
  BY <1>4, <1>6 DEF StackOK
<1>11. 1 \in DOMAIN me.pc /\ me.pc[1] = l
  BY <1>4, <1>6, <1>7, <1>10
<1>12. LockFor(l) # NoName => LockFor(l) \in prog.owned /\ LockFor(l) \in me.owns
  BY <1>1, <1>3, <1>4, <1>6, <1>8, <1>9, <1>11 DEF Entitled, Obtains
<1> QED
  BY <1>1, <1>2, <1>3, <1>4, <1>5, <1>6, <1>7, <1>8, <1>12

LEMMA HalKeeps ==
  ASSUME NEW l, NEW m, HalStep(l, m), NEW n, run' = [run EXCEPT ![Cur] = n],
         n.owns = Me.owns, WaitOf(n) # "SemPended",
         Entitled(prog.owned, os, n, Cur), Rightful(prog.owned, obj, n), Shallow(n)
  PROVE  LocksOK'
<1>1. /\ WaitOf(Me) # "SemPended" /\ UNCHANGED << os, obj >> /\ os.cur # Null
      /\ PlainInv /\ Cur \in os.list
  BY HalAt
<1>2. Stepping /\ LocksOK
  BY DEF HalStep, Stepped
<1>3. PICK S : S = {}
  OBVIOUS
<1>4. SemsKept(os, os', os.list \ {Cur}, S) /\ KeepsTypes(os, os') /\ os'.cur # Null
  BY <1>1 DEF SemsKept, StillGot, KeepsTypes
<1>5. \A x : (Heir(os', n, Cur, x) <=> Heir(os, Me, Cur, x)) /\ (Holder(n, x) <=> Holder(Me, x))
  BY <1>1 DEF Heir, Holder
<1>6. Entitled(prog.owned, os', n, Cur) /\ Rightful(prog.owned, obj', n)
  BY <1>1
<1>7. /\ \A x \in prog.owned : obj'[x] = obj[x]
      /\ \A a \in Names(prog) \ GroupNames(prog) : obj'[a] \in {obj[a], Null}
      /\ \A x : x \notin S
  BY <1>1, <1>3
<1> HIDE DEF Me
<1> QED
  BY <1>2, <1>4, <1>5, <1>6, <1>7, RunnerKeeps

LEMMA HalNext ==
  ASSUME NEW l, NEW m, HalStep(l, m), NEW next \in Seq(Labels), Goto(next, m)
  PROVE  \E n : /\ run' = [run EXCEPT ![Cur] = n] /\ n.pc = next /\ n.owns = Me.owns
                /\ n.pc # << >> => n.obj = m.obj /\ n.ev = m.ev /\ n.arg = m.arg
<1> DEFINE n == Settle([m EXCEPT !.pc = next \o Tail(@)])
<1>1. DOMAIN m = RunFields /\ m.pc = Me.pc /\ m.owns = Me.owns /\ Tail(Me.pc) = << >>
  BY HalAt DEF HalStep, Stepped, SameTask
<1>2. run' = [run EXCEPT ![Cur] = n]
  BY DEF Goto
<1>3. Advanced(m, next, n) /\ n.owns = m.owns
  BY <1>1, GotoIs, GotoOwns
<1> HIDE DEF n
<1>4. next \o << >> = next
  OBVIOUS
<1>5. n.pc = next
  BY <1>1, <1>3, <1>4 DEF Advanced
<1> QED
  BY <1>1, <1>2, <1>3, <1>5 DEF Advanced

HalNexts == Resting \cup {"LibQuery", "LibTest"}

LEMMA OneLabel ==
  ASSUME NEW X, NEW c \in X, NEW s, s = << c >>
  PROVE  /\ s \in Seq(X) /\ Len(s) = 1 /\ s # << >> /\ Head(s) = c /\ s[1] = c
         /\ 1 \in DOMAIN s /\ \A i \in DOMAIN s : i = 1 /\ s[i] = c
  OBVIOUS

LEMMA NoLabel ==
  ASSUME NEW X, NEW s, s = << >>
  PROVE  s \in Seq(X) /\ Len(s) = 0 /\ \A i : i \notin DOMAIN s
  OBVIOUS

LEMMA HalGoes ==
  ASSUME NEW l, NEW m, HalStep(l, m),
         NEW next \in {<< >>, << "ClearFd", "FreeFd" >>} \cup {<< c >> : c \in HalNexts},
         Goto(next, m), \A i \in DOMAIN next : LockFor(next[i]) \in {NoName, LockFor(l)}
  PROVE  LocksOK'
<1>1. \A c \in HalNexts : c \in Labels
  BY DEF HalNexts, Resting, Labels, Conts
<1>2. "ClearFd" \in Labels /\ "FreeFd" \in Labels
  BY DEF Labels, Conts
<1>3. next \in Seq(Labels)
  <2>1. CASE next = << "ClearFd", "FreeFd" >>
    BY <1>2, <2>1
  <2>2. CASE next = << >>
    BY <2>2, NoLabel
  <2>3. ASSUME NEW c \in HalNexts, next = << c >> PROVE next \in Seq(Labels)
    BY <1>1, <2>3, OneLabel
  <2> QED
    BY <2>1, <2>2, <2>3
<1>4. PICK n : /\ run' = [run EXCEPT ![Cur] = n] /\ n.pc = next /\ n.owns = Me.owns
               /\ n.pc # << >> => n.obj = m.obj /\ n.ev = m.ev /\ n.arg = m.arg
  BY <1>3, HalNext
<1>5. n.pc # << >> => Head(n.pc) \in HalNexts \cup {"ClearFd"}
  BY <1>4
<1>6. \A c \in HalNexts \cup {"ClearFd"} :
        /\ c \notin SemCalls \cup WaitLabels
        /\ c \notin {"OS_Sched", "PendMulti", "SemPost", "LibUnlock", "SemSet", "SemPendAbort",
                     "Open", "Ioctl", "Read", "Write"}
  BY DEF HalNexts, Resting, Conts, SemCalls, WaitLabels
<1>7. WaitOf(n) = "none" /\ ~SemAt(n) /\ ~ManyAt(n)
  BY <1>5, <1>6 DEF WaitOf, SemAt, ManyAt
<1>8. Rightful(prog.owned, obj, n)
  BY <1>5, <1>6, <1>7 DEF Rightful
<1>9. Entitled(prog.owned, os, n, Cur)
  BY <1>4, HalAt DEF Entitled
<1>10. Shallow(n)
  <2>1. "ClearFd" \notin HalSteps /\ "FreeFd" \notin HalSteps
    BY DEF HalSteps, LibLabels, LibOps, IoOps, Conts
  <2>2. CASE next = << "ClearFd", "FreeFd" >>
    <3>1. \A i \in DOMAIN next : next[i] \in {"ClearFd", "FreeFd"}
      BY <2>2
    <3> QED
      BY <1>4, <2>1, <3>1 DEF Shallow
  <2>3. CASE next # << "ClearFd", "FreeFd" >>
    <3>1. ASSUME NEW c \in HalNexts, next = << c >>
          PROVE  \A i \in DOMAIN next : i = Len(next)
      BY <1>1, <3>1, OneLabel
    <3>2. next = << >> => \A i \in DOMAIN next : i = Len(next)
      OBVIOUS
    <3>3. \A i \in DOMAIN next : i = Len(next)
      BY <2>3, <3>1, <3>2
    <3> QED
      BY <1>4, <3>3 DEF Shallow
  <2> QED
    BY <2>2, <2>3
<1> QED
  BY <1>4, <1>7, <1>8, <1>9, <1>10, HalKeeps

LEMMA OwnedHandles ==
  ASSUME PlainInv, LocksOK, Running, NEW name, Declares(prog, name, "SEM"),
         NEW x \in prog.owned
  PROVE  name = x <=> obj[name] = obj[x]
<1>1. obj[name] \in Ecb /\ Null \notin Ecb
  BY DeclaredHandle, NullIsNone
<1>2. name \in Names(prog) \ GroupNames(prog)
  <2>1. PICK i \in DOMAIN prog.objects :
          prog.objects[i].name = name /\ prog.objects[i].type = "SEM"
    BY DEF Declares
  <2>2. ObjectsPlain(prog)
    BY DEF PlainInv, PlainPrograms, Plain
  <2>3. name \notin GroupNames(prog)
    BY <2>1, <2>2 DEF ObjectsPlain, EventTypes
  <2> QED
    BY <2>1, <2>3 DEF Names
<1>3. obj[x] # Null => OneHandle(x)
  BY DEF LocksOK
<1> QED
  BY <1>1, <1>2, <1>3 DEF OneHandle

LEMMA HalCalls ==
  ASSUME NEW l, NEW m, HalStep(l, m), NEW op \in Asks, NEW name, NEW arg,
         NEW after \in {<< >>} \cup {<< c >> : c \in Conts \ {"FreeFd"}},
         Calls(op, name, arg, after, m), name # NoName,
         Declares(prog, name, IF op = "FlagPend" THEN "FLAG" ELSE "SEM"),
         op = "SemPend" => arg = 0,
         op = "SemPost" => (name \in prog.owned => name \in Me.owns),
         \A i \in DOMAIN after : LockFor(after[i]) # NoName =>
            \/ op = "SemPend" /\ LockFor(after[i]) = name /\ name \in prog.owned
            \/ op = "FlagPend" /\ LockFor(after[i]) = LockFor(l)
  PROVE  LocksOK'
<1> DEFINE next == << op >> \o after
           p == [m EXCEPT !.obj = name, !.ev = obj[name], !.arg = arg]
<1>1. /\ DOMAIN m = RunFields /\ m.pc = Me.pc /\ m.owns = Me.owns /\ Stepping /\ LocksOK
      /\ PlainInv /\ Running /\ prog' = prog
      /\ LockFor(l) # NoName => LockFor(l) \in prog.owned /\ LockFor(l) \in Me.owns
  BY HalAt DEF HalStep, Stepped, SameTask
<1>2. HalStep(l, p) /\ p.obj = name /\ p.ev = obj[name] /\ p.arg = arg
  BY DEF HalStep, Stepped, SameTask, RunFields
<1>3. Goto(next, p)
  BY DEF Calls
<1> HIDE DEF p
<1>4. /\ op \in Labels /\ op \notin HalSteps /\ op \in {"SemPend", "SemPost", "FlagPend"}
      /\ LockFor(op) = NoName
  BY DEF Asks, Labels, PlainOps, EventOps, FlagOps, HalSteps, LibLabels, LibOps, IoOps, Conts,
         LockFor
<1> HIDE DEF next
<1>5. /\ next \in Seq(Labels) /\ Len(next) = 1 + Len(after) /\ next[1] = op /\ next # << >>
      /\ Len(after) \in {0, 1} /\ Head(next) = op
      /\ Len(after) = 1 => 1 \in DOMAIN after /\ next[2] = after[1]
  <2>1. CASE after = << >>
    <3>1. next = << op >>
      BY <2>1 DEF next
    <3>2. /\ next \in Seq(Labels) /\ Len(next) = 1 /\ next[1] = op /\ next # << >>
          /\ Head(next) = op
      BY <1>4, <3>1, OneLabel
    <3>3. Len(after) = 0
      BY <2>1
    <3> QED
      BY <3>2, <3>3
  <2>2. CASE after # << >>
    <3>1. PICK c \in Conts : after = << c >>
      BY <2>2
    <3>2. << op >> \in Seq(Labels) /\ c \in Labels
      BY <1>4 DEF Labels
    <3>3. after \in Seq(Labels) /\ Len(after) = 1 /\ after[1] = c /\ 1 \in DOMAIN after
      BY <3>1, <3>2, OneLabel
    <3>4. next \in Seq(Labels) /\ Len(next) = 2 /\ next[1] = op /\ next[2] = c
      BY ONLY <1>4, <3>3, Pushed DEF next
    <3>5. Head(next) = next[1]
      BY <3>4
    <3>6. next # << >>
      BY <3>4
    <3> QED
      BY <3>3, <3>4, <3>5, <3>6
  <2> QED
    BY <2>1, <2>2
<1>6. PICK n : /\ run' = [run EXCEPT ![Cur] = n] /\ n.pc = next /\ n.owns = Me.owns
               /\ n.pc # << >> => n.obj = p.obj /\ n.ev = p.ev /\ n.arg = p.arg
  BY <1>2, <1>3, <1>5, HalNext
<1>7. /\ n.pc # << >> /\ Head(n.pc) = op
      /\ n.obj = name /\ n.ev = obj[name] /\ n.arg = arg /\ n.owns = Me.owns
      /\ DOMAIN n.pc = 1 .. Len(n.pc) /\ Len(n.pc) \in {1, 2}
      /\ n.pc[1] = op
      /\ Len(n.pc) = 2 => 1 \in DOMAIN after /\ n.pc[2] = after[1]
  <2>1. /\ n.pc # << >> /\ Head(n.pc) = op
        /\ n.obj = name /\ n.ev = obj[name] /\ n.arg = arg /\ n.owns = Me.owns
    BY <1>2, <1>5, <1>6
  <2>2. DOMAIN next = 1 .. Len(next) /\ Len(next) \in {1, 2}
    BY <1>5
  <2>3. Len(next) = 2 => Len(after) = 1
    BY <1>5
  <2> QED
    BY <1>5, <1>6, <2>1, <2>2, <2>3
<1>8. WaitOf(n) = "none" /\ ~ManyAt(n)
  BY <1>4, <1>7 DEF WaitOf, WaitLabels, ManyAt
<1>9. \A i \in DOMAIN n.pc : LockFor(n.pc[i]) # NoName =>
        /\ i = 2 /\ Len(n.pc) = 2
        /\ \/ op = "SemPend" /\ LockFor(n.pc[i]) = name /\ name \in prog.owned
           \/ op = "FlagPend" /\ LockFor(n.pc[i]) = LockFor(l)
  BY <1>4, <1>7
<1>10. Entitled(prog.owned, os, n, Cur)
  BY <1>1, <1>7, <1>9 DEF Entitled, Obtains
<1>11. Shallow(n)
  <2>1. \A i \in 1 .. Len(n.pc) : i = 1 \/ i = Len(n.pc)
    <3>1. PICK k : k = Len(n.pc)
      OBVIOUS
    <3>2. k \in {1, 2}
      BY <1>7, <3>1
    <3>3. \A i \in 1 .. k : i = 1 \/ i = k
      BY ONLY <3>2
    <3> QED
      BY <3>1, <3>3
  <2>2. \A i \in DOMAIN n.pc : i = 1 \/ i = Len(n.pc)
    BY <1>7, <2>1
  <2> QED
    BY <1>4, <1>7, <2>2 DEF Shallow
<1>12. Rightful(prog.owned, obj, n)
  <2>1. op = "SemPost" /\ n.obj \in prog.owned =>
           n.obj \in n.owns /\ \A i \in DOMAIN n.pc : LockFor(n.pc[i]) # n.obj
    BY <1>7, <1>9
  <2>2. SemAt(n) => \A x \in prog.owned : n.obj = x <=> n.ev = obj[x]
    <3>1. SemAt(n) => op # "FlagPend"
      BY <1>7, <1>8 DEF SemAt, SemCalls
    <3> QED
      BY <1>1, <1>7, <3>1, OwnedHandles
  <2> QED
    BY <1>4, <1>7, <1>8, <2>1, <2>2 DEF Rightful
<1> QED
  BY <1>6, <1>8, <1>10, <1>11, <1>12, HalKeeps

(* A descriptor that is released: two writes, and the call is over.        *)
LEMMA FreesKeep ==
  ASSUME Stepping, LocksOK, At("ClearFd") \/ At("FreeFd"), UNCHANGED << os, obj >>,
         Goto(<< >>, Me)
  PROVE  LocksOK'
<1>7. PICK cont : cont = << >>
  OBVIOUS
<1> DEFINE n == Settle([Me EXCEPT !.pc = cont \o Tail(@)])
<1>1. /\ Cur \in Tcb /\ Cur \in os.list /\ ThreadOK(prog, os, Me) /\ PlainInv /\ Running
      /\ UNCHANGED prog /\ os.cur # Null
  BY StepperIs DEF Stepping, Running
<1>2. /\ Entitled(prog.owned, os, Me, Cur) /\ Rightful(prog.owned, obj, Me) /\ Shallow(Me)
  BY <1>1 DEF LocksOK, Me
<1>3. Me.pc # << >> /\ Head(Me.pc) \in {"ClearFd", "FreeFd"} /\ StackOK(Me.pc)
      /\ DOMAIN Me = RunFields
  BY <1>1 DEF At, ThreadOK
<1>4. run' = [run EXCEPT ![Cur] = n]
  BY <1>7 DEF Goto
<1>5. Advanced(Me, cont, n) /\ n.owns = Me.owns
  <2> HIDE DEF Me
  <2> QED
    BY <1>3, GotoIs, GotoOwns
<1> HIDE DEF n
<1>6. PICK me : me = Me
  OBVIOUS
<1>8. /\ cont \in KernelConts /\ cont # << "OS_Sched", "SemPended" >>
      /\ cont # << "OS_Sched", "MultiPended" >> /\ NextWait(cont) = "none"
  BY <1>7 DEF KernelConts, CallConts, NextWait
<1>9. /\ StackOK(me.pc) /\ me.pc # << >> /\ Head(me.pc) # "OS_Sched" /\ Shallow(me)
      /\ n.pc = cont \o Tail(me.pc) /\ Entitled(prog.owned, os, me, Cur)
      /\ Head(me.pc) \in {"ClearFd", "FreeFd"} /\ n.owns = me.owns
  BY <1>2, <1>3, <1>5, <1>6 DEF Advanced
<1>10. Headed(cont, n)
  BY <1>8, <1>9, CallStack
<1>11. /\ \A k, t : Below(me, Owed(k, n, t)) => Entitled(prog.owned, k, n, t)
       /\ Rightful(prog.owned, obj, n) /\ Shallow(n)
  BY <1>8, <1>9, CallFits
<1>12. Below(me, Owed(os, me, Cur))
  BY <1>9, BelowIs
<1>13. WaitOf(me) = "none"
  BY <1>9 DEF WaitOf, WaitLabels
<1>14. Below(me, Owed(os, n, Cur))
  BY <1>9, <1>12, <1>13 DEF Below, Owed, Obtains
<1>15. WaitOf(n) = "none"
  BY <1>8, <1>10 DEF Headed
<1>16. PICK S : S = {}
  OBVIOUS
<1>17. SemsKept(os, os', os.list \ {Cur}, S) /\ KeepsTypes(os, os') /\ os'.cur # Null
  BY <1>1 DEF SemsKept, StillGot, KeepsTypes
<1>18. \A x : (Heir(os', n, Cur, x) <=> Heir(os, me, Cur, x)) /\ (Holder(n, x) <=> Holder(me, x))
  BY <1>9, <1>13, <1>15 DEF Heir, Holder
<1>19. Entitled(prog.owned, os', n, Cur) /\ Rightful(prog.owned, obj', n) /\ Shallow(n)
  BY <1>11, <1>14
<1>20. /\ \A x \in prog.owned : obj'[x] = obj[x]
       /\ \A a \in Names(prog) \ GroupNames(prog) : obj'[a] \in {obj[a], Null}
       /\ \A x : x \notin S
  BY <1>16
<1>21. \A x : (Heir(os', n, Cur, x) <=> Heir(os, Me, Cur, x)) /\ (Holder(n, x) <=> Holder(Me, x))
  BY <1>6, <1>18
<1> HIDE DEF Me
<1> QED
  BY <1>4, <1>17, <1>19, <1>20, <1>21, RunnerKeeps

(* The step at l leaves the task's locks as they are.                      *)
LEMMA HalStepIs ==
  ASSUME NEW l, Aside(l), LocksOK, l \in HalSteps, NEW m, SameTask(Me, m), m.owns = Me.owns
  PROVE  HalStep(l, m)
  BY DEF HalStep, Stepped, Aside

LEMMA HalOnward ==
  ASSUME NEW l, NEW m, HalStep(l, m), NEW c \in HalNexts, Goto(<< c >>, m),
         LockFor(c) \in {NoName, LockFor(l)}
  PROVE  LocksOK'
<1>1. << c >> \in {<< d >> : d \in HalNexts}
  OBVIOUS
<1>2. PICK next : next = << c >>
  OBVIOUS
<1>3. \A i \in DOMAIN next : LockFor(next[i]) \in {NoName, LockFor(l)}
  BY <1>2
<1>4. Goto(next, m) /\ next \in {<< d >> : d \in HalNexts}
  BY <1>1, <1>2
<1> QED
  BY <1>3, <1>4, HalGoes

LEMMA HalEnds ==
  ASSUME NEW l, NEW m, HalStep(l, m), Goto(<< >>, m)
  PROVE  LocksOK'
<1>1. PICK next : next = << >>
  OBVIOUS
<1>2. Goto(next, m) /\ \A i \in DOMAIN next : LockFor(next[i]) \in {NoName, LockFor(l)}
  BY <1>1
<1> QED
  BY <1>1, <1>2, HalGoes

LEMMA HalReleases ==
  ASSUME NEW l, NEW m, HalStep(l, m), Goto(<< "ClearFd", "FreeFd" >>, m)
  PROVE  LocksOK'
<1>1. PICK next : next = << "ClearFd", "FreeFd" >>
  OBVIOUS
<1>2. LockFor("ClearFd") = NoName /\ LockFor("FreeFd") = NoName
  BY DEF LockFor
<1>3. Goto(next, m) /\ \A i \in DOMAIN next : LockFor(next[i]) \in {NoName, LockFor(l)}
  BY <1>1, <1>2
<1> QED
  BY <1>1, <1>3, HalGoes

LEMMA LibraryKeeps ==
  ASSUME Stepping, LocksOK, Guarded(prog), Library, UNCHANGED boot
  PROVE  LocksOK'
<1>0. /\ \A l \in LibLabels \cup LibOps : l \in HalSteps /\ LockFor(l) = NoName
      /\ {"LibQuery", "LibTest"} \subseteq HalNexts
  BY DEF HalSteps, HalNexts, LockFor, LibLabels, LibOps
<1>1. CASE LibLock
  <2>1. Aside("LibLock")
    BY <1>1 DEF LibLock, Aside, WaitLabels
  <2> DEFINE m == [Me EXCEPT !.io.id = os.tcb[Cur].prio]
  <2>2. SameTask(Me, m) /\ m.owns = Me.owns
    BY <2>1, AsideIs DEF SameTask, RunFields
  <2>3. Goto(<< "LibQuery" >>, m)
    BY <1>1 DEF LibLock
  <2>4. "LibLock" \in LibOps /\ "LibQuery" \in LibLabels
    BY DEF LibOps, LibLabels
  <2> HIDE DEF m, Me
  <2> QED
    BY <1>0, <2>1, <2>2, <2>3, <2>4, HalStepIs, HalOnward
<1>2. CASE LibQuery
  <2>1. Aside("LibQuery")
    BY <1>2 DEF LibQuery, Aside, WaitLabels
  <2> DEFINE q == OSSemQuery(os, Me.ev)
             m == [Me EXCEPT !.io.cnt = q.cnt, !.io.grp = (q.grp # {})]
  <2>2. Goto(<< "LibTest" >>, m)
    BY <1>2 DEF LibQuery
  <2> HIDE DEF q
  <2>3. SameTask(Me, m) /\ m.owns = Me.owns
    BY <2>1, AsideIs DEF SameTask, RunFields
  <2>4. "LibQuery" \in LibLabels /\ "LibTest" \in LibLabels
    BY DEF LibLabels
  <2> HIDE DEF m, Me
  <2> QED
    BY <1>0, <2>1, <2>2, <2>3, <2>4, HalStepIs, HalOnward
<1>3. ASSUME NEW l \in LibLabels \cup LibOps, Aside(l)
      PROVE  HalStep(l, Me)
  <2>1. SameTask(Me, Me)
    BY <1>3, AsideIs DEF Stepped
  <2> HIDE DEF Me
  <2> QED
    BY <1>0, <1>3, <2>1, HalStepIs
<1>4. CASE LibNests
  <2>1. Aside("LibTest") /\ Goto(<< >>, Me) /\ "LibTest" \in LibLabels
    BY <1>4 DEF LibNests, Aside, WaitLabels, LibLabels
  <2> HIDE DEF Me
  <2> QED
    BY <1>3, <2>1, HalEnds
<1>5. CASE LibWaits
  <2>1. Aside("LibTest") /\ Calls("SemPend", Me.obj, 0, << "LibGot" >>, Me)
        /\ "LibTest" \in LibLabels
    BY <1>5 DEF LibWaits, Aside, WaitLabels, LibLabels
  <2>2. Declares(prog, Me.obj, "SEM") /\ Me.obj \in Libraries
    BY <2>1, CallerIs DEF HeadOK, Aside
  <2>3. "LibGot" \in Conts \ {"FreeFd"} /\ LockFor("LibGot") = NoName /\ Me.obj # NoName
    BY <2>2 DEF Conts, LockFor, Libraries, NoName
  <2>4. PICK name : name = Me.obj
    OBVIOUS
  <2>5. PICK after : after = << "LibGot" >>
    OBVIOUS
  <2>6. /\ after \in {<< c >> : c \in Conts \ {"FreeFd"}}
        /\ \A i \in DOMAIN after : LockFor(after[i]) = NoName
    BY <2>3, <2>5
  <2>7. Calls("SemPend", name, 0, after, Me) /\ "SemPend" \in Asks
    BY <2>1, <2>4, <2>5 DEF Asks
  <2> HIDE DEF Me
  <2> QED
    BY <1>3, <2>1, <2>2, <2>3, <2>4, <2>6, <2>7, HalCalls
<1>6. CASE LibGot
  <2>1. Aside("LibGot") /\ Goto(<< >>, Me) /\ "LibGot" \in LibLabels
    BY <1>6 DEF LibGot, Aside, WaitLabels, LibLabels
  <2> HIDE DEF Me
  <2> QED
    BY <1>3, <2>1, HalEnds
<1>7. CASE LibUnlock
  <2>1. /\ Aside("LibUnlock") /\ "LibUnlock" \in LibOps
        /\ Goto(<< >>, Me) \/ Calls("SemPost", Me.obj, Null, << >>, Me)
    BY <1>7 DEF LibUnlock, Aside, WaitLabels, LibOps
  <2>2. Declares(prog, Me.obj, "SEM") /\ Me.obj \in Libraries
    BY <2>1, CallerIs DEF HeadOK, Aside
  <2>3. HalStep("LibUnlock", Me)
    BY <1>3, <2>1
  <2>4. Me.obj \in prog.owned => Me.obj \in Me.owns
    <3> HIDE DEF Me
    <3>1. Rightful(prog.owned, obj, Me) /\ Me.pc # << >> /\ Head(Me.pc) = "LibUnlock"
      BY <2>3, HalAt
    <3> QED
      BY <3>1 DEF Rightful
  <2>5. PICK name : name = Me.obj
    OBVIOUS
  <2>6. PICK after : after = << >>
    OBVIOUS
  <2>7. after \in {<< >>} /\ \A i \in DOMAIN after : LockFor(after[i]) = NoName
    BY <2>6
  <2>8. Me.obj # NoName /\ "SemPost" \in Asks
    BY <2>2 DEF Libraries, NoName, Asks
  <2>9. Calls("SemPost", Me.obj, Null, << >>, Me) => Calls("SemPost", name, Null, after, Me)
    BY <2>5, <2>6
  <2> HIDE DEF Me
  <2> QED
    BY <2>1, <2>2, <2>3, <2>4, <2>5, <2>7, <2>8, <2>9, HalCalls, HalEnds
<1> QED
  BY <1>1, <1>2, <1>4, <1>5, <1>6, <1>7 DEF Library

(* A step takes a lock that the HAL guards the following step with.        *)
LEMMA HalTakes ==
  ASSUME NEW l, NEW m, HalStep(l, m), NEW name \in HalLocks, name \in prog.owned,
         Declares(prog, name, "SEM"), NEW c \in Conts \ {"FreeFd"}, LockFor(c) = name,
         Calls("SemPend", name, 0, << c >>, m)
  PROVE  LocksOK'
<1>1. PICK after : after = << c >>
  OBVIOUS
<1>2. /\ after \in {<< d >> : d \in Conts \ {"FreeFd"}}
      /\ \A i \in DOMAIN after : LockFor(after[i]) = name
  BY <1>1
<1>3. Calls("SemPend", name, 0, after, m) /\ "SemPend" \in Asks
  BY <1>1 DEF Asks
<1>4. name # NoName
  BY DEF HalLocks, Consoles, NoName
<1> QED
  BY <1>2, <1>3, <1>4, HalCalls

LEMMA HalGives ==
  ASSUME NEW l, NEW m, HalStep(l, m), NEW name \in HalLocks, LockFor(l) = name,
         Declares(prog, name, "SEM"),
         NEW after \in {<< >>, << "OpenFlags" >>, << "ReadEnable" >>},
         Calls("SemPost", name, Null, after, m)
  PROVE  LocksOK'
<1>1. name # NoName /\ "SemPost" \in Asks
  BY DEF HalLocks, Consoles, NoName, Asks
<1>2. name \in Me.owns
  BY <1>1, HalAt
<1>3. \A i \in DOMAIN after : LockFor(after[i]) = NoName
  <2>1. LockFor("OpenFlags") = NoName /\ LockFor("ReadEnable") = NoName
    BY DEF LockFor
  <2>2. ASSUME NEW c, after = << c >> PROVE \A i \in DOMAIN after : after[i] = c
    BY <2>2
  <2> QED
    BY <2>1, <2>2
<1>4. after \in {<< >>} \cup {<< c >> : c \in Conts \ {"FreeFd"}}
  BY DEF Conts
<1> QED
  BY <1>1, <1>2, <1>3, <1>4, HalCalls

(* It waits for the driver, and keeps the lock meanwhile.                  *)
LEMMA HalSleeps ==
  ASSUME NEW l, NEW m, HalStep(l, m), Declares(prog, "uart", "FLAG"), NEW arg,
         NEW c \in Conts \ {"FreeFd"}, LockFor(c) = LockFor(l),
         Calls("FlagPend", "uart", arg, << c >>, m)
  PROVE  LocksOK'
<1>1. PICK after : after = << c >>
  OBVIOUS
<1>2. /\ after \in {<< d >> : d \in Conts \ {"FreeFd"}}
      /\ \A i \in DOMAIN after : LockFor(after[i]) = LockFor(l)
  BY <1>1
<1>3. Calls("FlagPend", "uart", arg, after, m) /\ "FlagPend" \in Asks /\ "uart" # NoName
  BY <1>1 DEF Asks, NoName
<1> QED
  BY <1>2, <1>3, HalCalls

LEMMA FdBacked ==
  ASSUME NEW l \in FdLabels, NEW m, HalStep(l, m)
  PROVE  Declares(prog, "fd_lock", "SEM") /\ "fd_lock" \in HalLocks
<1>1. Backed(prog, l)
  BY HalAt
<1> QED
  BY <1>1 DEF Backed, HalLocks

LEMMA OpenKeeps ==
  ASSUME Stepping, LocksOK, Guarded(prog), Open \/ GetFd \/ GotFd \/ OpenFd \/ FileLocked,
         UNCHANGED boot
  PROVE  LocksOK'
<1>0. /\ {"Open", "GetFd", "MaxFd", "OpenFlags", "FileLocked"} \subseteq HalSteps
      /\ {"GetFd", "MaxFd", "FileLocked"} \subseteq HalNexts
      /\ {"GetFd", "OpenFlags"} \subseteq Conts \ {"FreeFd"}
      /\ {"Open", "GetFd", "MaxFd"} \subseteq FdLabels
      /\ LockFor("Open") = NoName /\ LockFor("GetFd") = "fd_lock" /\ LockFor("MaxFd") = "fd_lock"
      /\ LockFor("OpenFlags") = NoName /\ LockFor("FileLocked") = NoName
  BY DEF HalSteps, IoOps, Conts, HalNexts, Resting, FdLabels, LockFor
<1>1. CASE Open
  <2>1. Aside("Open")
    BY <1>1 DEF Open, Aside, WaitLabels
  <2> DEFINE m == [Me EXCEPT !.io.fd = StdErr + 1, !.io.want = Me.arg]
  <2>2. Goto(<< >>, Me) \/ Calls("SemPend", "fd_lock", 0, << "GetFd" >>, m)
    BY <1>1 DEF Open
  <2>3. SameTask(Me, m) /\ SameTask(Me, Me) /\ m.owns = Me.owns
    BY <2>1, AsideIs DEF SameTask, RunFields
  <2> HIDE DEF m, Me
  <2>4. HalStep("Open", m) /\ HalStep("Open", Me)
    BY <1>0, <2>1, <2>3, HalStepIs
  <2>5. "fd_lock" \in prog.owned
    BY <2>4, HalAt DEF Rightful
  <2> QED
    BY <1>0, <2>2, <2>4, <2>5, FdBacked, HalTakes, HalEnds
<1>2. CASE GetFd
  <2>1. Aside("GetFd")
    BY <1>2 DEF GetFd, Aside, WaitLabels
  <2> DEFINE m == [Me EXCEPT !.io.fd = Me.io.fd + 1]
  <2>2. \/ Goto(<< "GetFd" >>, m) \/ Goto(<< "MaxFd" >>, Me)
        \/ Calls("SemPost", "fd_lock", Null, << >>, Me)
    BY <1>2 DEF GetFd
  <2>3. SameTask(Me, m) /\ SameTask(Me, Me) /\ m.owns = Me.owns
    BY <2>1, AsideIs DEF SameTask, RunFields
  <2> HIDE DEF m, Me
  <2>4. HalStep("GetFd", m) /\ HalStep("GetFd", Me)
    BY <1>0, <2>1, <2>3, HalStepIs
  <2> QED
    BY <1>0, <2>2, <2>4, FdBacked, HalGives, HalOnward
<1>3. CASE GotFd
  <2>1. Aside("MaxFd") /\ Calls("SemPost", "fd_lock", Null, << "OpenFlags" >>, Me)
    BY <1>3 DEF GotFd, Aside, WaitLabels
  <2>2. SameTask(Me, Me)
    BY <2>1, AsideIs DEF SameTask
  <2> HIDE DEF Me
  <2>3. HalStep("MaxFd", Me)
    BY <1>0, <2>1, <2>2, HalStepIs
  <2> QED
    BY <1>0, <2>1, <2>3, FdBacked, HalGives
<1>4. CASE OpenFd
  <2>1. Aside("OpenFlags")
    BY <1>4 DEF OpenFd, Aside, WaitLabels
  <2> DEFINE m == [Me EXCEPT !.io.next = StdErr]
  <2>2. Goto(<< "FileLocked" >>, m)
    BY <1>4 DEF OpenFd
  <2>3. SameTask(Me, m) /\ m.owns = Me.owns
    BY <2>1, AsideIs DEF SameTask, RunFields
  <2> HIDE DEF m, Me
  <2> QED
    BY <1>0, <2>1, <2>2, <2>3, HalStepIs, HalOnward
<1>5. CASE FileLocked
  <2>1. Aside("FileLocked")
    BY <1>5 DEF FileLocked, Aside, WaitLabels
  <2> DEFINE m == [Me EXCEPT !.fds = @ \cup {Me.io.fd}]
             n == [Me EXCEPT !.io.next = Me.io.next + 1]
  <2>2. \/ Goto(<< >>, m) \/ Goto(<< "ClearFd", "FreeFd" >>, Me)
        \/ Goto(<< "FileLocked" >>, n)
    BY <1>5 DEF FileLocked
  <2>3. /\ SameTask(Me, m) /\ SameTask(Me, n) /\ SameTask(Me, Me)
        /\ m.owns = Me.owns /\ n.owns = Me.owns
    BY <2>1, AsideIs DEF SameTask, RunFields
  <2> HIDE DEF m, n, Me
  <2>4. /\ HalStep("FileLocked", m) /\ HalStep("FileLocked", n) /\ HalStep("FileLocked", Me)
    BY <1>0, <2>1, <2>3, HalStepIs
  <2> QED
    BY <1>0, <2>2, <2>4, HalOnward, HalEnds, HalReleases
<1> QED
  BY <1>1, <1>2, <1>3, <1>4, <1>5

LEMMA FileKeeps ==
  ASSUME Stepping, LocksOK, Guarded(prog), Close \/ ReleaseFd \/ Ioctl \/ FdLock \/ Fcntl,
         UNCHANGED boot
  PROVE  LocksOK'
<1>0. /\ {"Close", "Ioctl", "FdLock", "Fcntl"} \subseteq HalSteps
      /\ "FdLock" \in HalNexts /\ "FdLock" \in Conts \ {"FreeFd"}
      /\ {"Ioctl", "FdLock"} \subseteq FdLabels
      /\ LockFor("FdLock") = "fd_lock"
  BY DEF HalSteps, IoOps, Conts, HalNexts, Resting, FdLabels, LockFor
<1>1. CASE Close
  <2>1. Aside("Close")
    BY <1>1 DEF Close, Aside, WaitLabels
  <2> DEFINE m == [Me EXCEPT !.fds = @ \ {Me.io.fd}]
  <2>2. Goto(<< "ClearFd", "FreeFd" >>, m)
    BY <1>1 DEF Close
  <2>3. SameTask(Me, m) /\ m.owns = Me.owns
    BY <2>1, AsideIs DEF SameTask, RunFields
  <2> HIDE DEF m, Me
  <2> QED
    BY <1>0, <2>1, <2>2, <2>3, HalStepIs, HalReleases
<1>2. CASE ReleaseFd
  <2>1. (At("ClearFd") \/ At("FreeFd")) /\ Goto(<< >>, Me) /\ UNCHANGED << os, obj >>
    BY <1>2 DEF ReleaseFd
  <2> QED
    BY <2>1, FreesKeep
<1>3. CASE Ioctl
  <2>1. Aside("Ioctl")
    BY <1>3 DEF Ioctl, Aside, WaitLabels
  <2> DEFINE m == [Me EXCEPT !.io.next = StdErr]
  <2>2. Goto(<< >>, Me) \/ Calls("SemPend", "fd_lock", 0, << "FdLock" >>, m)
    BY <1>3 DEF Ioctl
  <2>3. SameTask(Me, m) /\ SameTask(Me, Me) /\ m.owns = Me.owns
    BY <2>1, AsideIs DEF SameTask, RunFields
  <2> HIDE DEF m, Me
  <2>4. HalStep("Ioctl", m) /\ HalStep("Ioctl", Me)
    BY <1>0, <2>1, <2>3, HalStepIs
  <2>5. "fd_lock" \in prog.owned
    BY <2>4, HalAt DEF Rightful
  <2> QED
    BY <1>0, <2>2, <2>4, <2>5, FdBacked, HalTakes, HalEnds
<1>4. CASE FdLock
  <2>1. Aside("FdLock")
    BY <1>4 DEF FdLock, Aside, WaitLabels
  <2> DEFINE m == [Me EXCEPT !.io.next = Me.io.next + 1]
  <2>2. Goto(<< "FdLock" >>, m) \/ Calls("SemPost", "fd_lock", Null, << >>, Me)
    BY <1>4 DEF FdLock
  <2>3. SameTask(Me, m) /\ SameTask(Me, Me) /\ m.owns = Me.owns
    BY <2>1, AsideIs DEF SameTask, RunFields
  <2> HIDE DEF m, Me
  <2>4. HalStep("FdLock", m) /\ HalStep("FdLock", Me)
    BY <1>0, <2>1, <2>3, HalStepIs
  <2> QED
    BY <1>0, <2>2, <2>4, FdBacked, HalGives, HalOnward
<1>5. CASE Fcntl
  <2>1. Aside("Fcntl") /\ Goto(<< >>, Me)
    BY <1>5 DEF Fcntl, Aside, WaitLabels
  <2>2. SameTask(Me, Me)
    BY <2>1, AsideIs DEF SameTask
  <2> HIDE DEF Me
  <2> QED
    BY <1>0, <2>1, <2>2, HalStepIs, HalEnds
<1> QED
  BY <1>1, <1>2, <1>3, <1>4, <1>5

LEMMA ConsoleBacked ==
  ASSUME NEW l \in ConsoleLabels, NEW m, HalStep(l, m)
  PROVE  /\ Declares(prog, "read_lock", "SEM") /\ Declares(prog, "write_lock", "SEM")
         /\ Declares(prog, "uart", "FLAG")
         /\ "read_lock" \in HalLocks /\ "write_lock" \in HalLocks
<1>1. Backed(prog, l)
  BY HalAt
<1> QED
  BY <1>1 DEF Backed, HalLocks, Consoles

LEMMA WriteKeeps ==
  ASSUME Stepping, LocksOK, Guarded(prog),
         WriteBegin \/ WriteLook \/ WriteCopy \/ WriteStart \/ WriteWoken, UNCHANGED boot
  PROVE  LocksOK'
<1>0. /\ {"Write", "WriteLook", "WriteCopy", "WriteStart", "WriteWoken"}
            \subseteq HalSteps \cap ConsoleLabels
      /\ {"WriteLook", "WriteCopy", "WriteStart"} \subseteq HalNexts
      /\ {"WriteLook", "WriteWoken"} \subseteq Conts \ {"FreeFd"}
      /\ LockFor("WriteLook") = "write_lock" /\ LockFor("WriteCopy") = "write_lock"
      /\ LockFor("WriteStart") = "write_lock" /\ LockFor("WriteWoken") = "write_lock"
  BY DEF HalSteps, IoOps, Conts, HalNexts, Resting, ConsoleLabels, LockFor
<1>1. CASE WriteBegin
  <2>1. Aside("Write")
    BY <1>1 DEF WriteBegin, Aside, WaitLabels
  <2>2. \/ Goto(<< >>, Me)
        \/ Calls("SemPend", "write_lock", 0, << "WriteLook" >>, Begins)
    BY <1>1 DEF WriteBegin
  <2>3. SameTask(Me, Begins) /\ SameTask(Me, Me) /\ Begins.owns = Me.owns
    BY <2>1, AsideIs DEF SameTask, RunFields, Begins
  <2>4. PICK m : m = Begins
    OBVIOUS
  <2> HIDE DEF Me
  <2>5. HalStep("Write", m) /\ HalStep("Write", Me)
    BY <1>0, <2>1, <2>3, <2>4, HalStepIs
  <2>6. "write_lock" \in prog.owned
    BY <2>5, HalAt DEF Rightful, Consoles
  <2> QED
    BY <1>0, <2>2, <2>4, <2>5, <2>6, ConsoleBacked, HalTakes, HalEnds
<1>2. CASE WriteLook
  <2>1. Aside("WriteLook")
    BY <1>2 DEF WriteLook, Aside, WaitLabels
  <2> DEFINE m == Looked(uart.txIn, uart.txOut)
  <2>2. Goto(<< "WriteCopy" >>, m) \/ Goto(<< "WriteStart" >>, Me)
    BY <1>2 DEF WriteLook
  <2>3. SameTask(Me, m) /\ SameTask(Me, Me) /\ m.owns = Me.owns
    BY <2>1, AsideIs DEF SameTask, RunFields, Looked
  <2> HIDE DEF m, Me
  <2>4. HalStep("WriteLook", m) /\ HalStep("WriteLook", Me)
    BY <1>0, <2>1, <2>3, HalStepIs
  <2> QED
    BY <1>0, <2>2, <2>4, HalOnward
<1>3. CASE WriteCopy
  <2> DEFINE n == AtMost(Writable(Me.io.in, Me.io.out), Me.io.left)
             m == Copied(n)
  <2>1. Aside("WriteCopy")
    BY <1>3 DEF WriteCopy, Aside, WaitLabels
  <2>2. Goto(<< "WriteLook" >>, m)
    BY <1>3 DEF WriteCopy
  <2> HIDE DEF n
  <2>3. SameTask(Me, m) /\ m.owns = Me.owns
    BY <2>1, AsideIs DEF SameTask, RunFields, Copied, Looked
  <2> HIDE DEF m, Me
  <2>4. HalStep("WriteCopy", m)
    BY <1>0, <2>1, <2>3, HalStepIs
  <2> QED
    BY <1>0, <2>2, <2>4, HalOnward
<1>4. CASE WriteStart
  <2>1. Aside("WriteStart")
    BY <1>4 DEF WriteStart, Aside, WaitLabels
  <2>2. \/ Calls("FlagPend", "uart", UartFlags("WRITE_RDY"), << "WriteWoken" >>, Me)
        \/ Calls("SemPost", "write_lock", Null, << >>, Me)
    BY <1>4 DEF WriteStart, WriteUnlock
  <2>3. SameTask(Me, Me)
    BY <2>1, AsideIs DEF SameTask
  <2> HIDE DEF Me
  <2>4. HalStep("WriteStart", Me)
    BY <1>0, <2>1, <2>3, HalStepIs
  <2> QED
    BY <1>0, <2>2, <2>4, ConsoleBacked, HalSleeps, HalGives
<1>5. CASE WriteWoken
  <2>1. Aside("WriteWoken")
    BY <1>5 DEF WriteWoken, Aside, WaitLabels
  <2>2. \/ Calls("SemPost", "write_lock", Null, << >>, Me)
        \/ Goto(<< "WriteLook" >>, Me)
    BY <1>5 DEF WriteWoken, WriteUnlock
  <2>3. SameTask(Me, Me)
    BY <2>1, AsideIs DEF SameTask
  <2> HIDE DEF Me
  <2>4. HalStep("WriteWoken", Me)
    BY <1>0, <2>1, <2>3, HalStepIs
  <2> QED
    BY <1>0, <2>2, <2>4, ConsoleBacked, HalGives, HalOnward
<1> QED
  BY <1>1, <1>2, <1>3, <1>4, <1>5

LEMMA ReadKeeps ==
  ASSUME Stepping, LocksOK, Guarded(prog),
         \/ ReadBegin \/ ReadLook \/ ReadCopy \/ ReadDone \/ ReadWoken
         \/ ReadEnable,
         UNCHANGED boot
  PROVE  LocksOK'
<1>0. /\ {"Read", "ReadLook", "ReadCopy", "ReadDone", "ReadWoken"}
            \subseteq HalSteps \cap ConsoleLabels
      /\ {"ReadLook", "ReadCopy", "ReadDone"} \subseteq HalNexts
      /\ {"ReadLook", "ReadWoken"} \subseteq Conts \ {"FreeFd"}
      /\ LockFor("ReadLook") = "read_lock" /\ LockFor("ReadCopy") = "read_lock"
      /\ LockFor("ReadDone") = "read_lock" /\ LockFor("ReadWoken") = "read_lock"
      /\ "ReadEnable" \in HalSteps
  BY DEF HalSteps, IoOps, Conts, HalNexts, Resting, ConsoleLabels, LockFor
<1>1. CASE ReadBegin
  <2>1. Aside("Read")
    BY <1>1 DEF ReadBegin, Aside, WaitLabels
  <2>2. \/ Goto(<< >>, Me)
        \/ Calls("SemPend", "read_lock", 0, << "ReadLook" >>, Begins)
    BY <1>1 DEF ReadBegin
  <2>3. SameTask(Me, Begins) /\ SameTask(Me, Me) /\ Begins.owns = Me.owns
    BY <2>1, AsideIs DEF SameTask, RunFields, Begins
  <2>4. PICK m : m = Begins
    OBVIOUS
  <2> HIDE DEF Me
  <2>5. HalStep("Read", m) /\ HalStep("Read", Me)
    BY <1>0, <2>1, <2>3, <2>4, HalStepIs
  <2>6. "read_lock" \in prog.owned
    BY <2>5, HalAt DEF Rightful, Consoles
  <2> QED
    BY <1>0, <2>2, <2>4, <2>5, <2>6, ConsoleBacked, HalTakes, HalEnds
<1>2. CASE ReadLook
  <2>1. Aside("ReadLook")
    BY <1>2 DEF ReadLook, Aside, WaitLabels
  <2> DEFINE m == Looked(uart.rxIn, uart.rxOut)
             n == Looked(uart.rxIn, 0)
  <2>2. Goto(<< "ReadCopy" >>, m) \/ Goto(<< "ReadDone" >>, n)
    BY <1>2 DEF ReadLook
  <2>3. SameTask(Me, m) /\ SameTask(Me, n) /\ m.owns = Me.owns /\ n.owns = Me.owns
    BY <2>1, AsideIs DEF SameTask, RunFields, Looked
  <2> HIDE DEF m, n, Me
  <2>4. HalStep("ReadLook", m) /\ HalStep("ReadLook", n)
    BY <1>0, <2>1, <2>3, HalStepIs
  <2> QED
    BY <1>0, <2>2, <2>4, HalOnward
<1>3. CASE ReadCopy
  <2> DEFINE n == AtMost(Readable(Me.io.in, Me.io.out), Me.io.left)
             m == Copied(n)
  <2>1. Aside("ReadCopy")
    BY <1>3 DEF ReadCopy, Aside, WaitLabels
  <2>2. Goto(<< "ReadLook" >>, m) \/ Goto(<< "ReadDone" >>, m)
    BY <1>3 DEF ReadCopy
  <2> HIDE DEF n
  <2>3. SameTask(Me, m) /\ m.owns = Me.owns
    BY <2>1, AsideIs DEF SameTask, RunFields, Copied, Looked
  <2> HIDE DEF m, Me
  <2>4. HalStep("ReadCopy", m)
    BY <1>0, <2>1, <2>3, HalStepIs
  <2> QED
    BY <1>0, <2>2, <2>4, HalOnward
<1>4. ASSUME NEW l \in {"ReadDone", "ReadWoken"}, Aside(l)
      PROVE  HalStep(l, Me) /\ (ReadUnlock => LocksOK')
  <2>1. \/ ~ReadUnlock
        \/ Calls("SemPost", "read_lock", Null, << >>, Me)
        \/ Calls("SemPost", "read_lock", Null, << "ReadEnable" >>, Me)
    BY DEF ReadUnlock
  <2>2. SameTask(Me, Me)
    BY <1>4, AsideIs DEF SameTask
  <2> HIDE DEF Me
  <2>3. HalStep(l, Me)
    BY <1>0, <1>4, <2>2, HalStepIs
  <2> QED
    BY <1>0, <2>1, <2>3, ConsoleBacked, HalGives
<1>5. CASE ReadDone
  <2>1. Aside("ReadDone")
    BY <1>5 DEF ReadDone, Aside, WaitLabels
  <2>2. \/ ReadUnlock
        \/ Calls("FlagPend", "uart", UartFlags("READ_RDY"), << "ReadWoken" >>, Me)
    BY <1>5 DEF ReadDone
  <2> HIDE DEF Me
  <2> QED
    BY <1>0, <1>4, <2>1, <2>2, ConsoleBacked, HalSleeps
<1>6. CASE ReadWoken
  <2>1. Aside("ReadWoken")
    BY <1>6 DEF ReadWoken, Aside, WaitLabels
  <2>2. ReadUnlock \/ Goto(<< "ReadLook" >>, Me)
    BY <1>6 DEF ReadWoken
  <2> HIDE DEF Me
  <2> QED
    BY <1>0, <1>4, <2>1, <2>2, HalOnward
<1>7. CASE ReadEnable
  <2>1. Aside("ReadEnable") /\ Goto(<< >>, Me)
    BY <1>7 DEF ReadEnable, Aside, WaitLabels
  <2>2. SameTask(Me, Me)
    BY <2>1, AsideIs DEF SameTask
  <2> HIDE DEF Me
  <2> QED
    BY <1>0, <2>1, <2>2, HalStepIs, HalEnds
<1> QED
  BY <1>1, <1>2, <1>3, <1>5, <1>6, <1>7

-----------------------------------------------------------------------------
(* A task begins a call.                                                   *)

LEMMA OpsAre ==
  ASSUME NEW op \in PlainOps
  PROVE  /\ LockFor(op) = NoName /\ op \in Labels
         /\ op \notin WaitLabels \cup {"OS_Sched"}
  BY DEF PlainOps, CreateOps, EventOps, FlagOps, LibOps, IoOps, LockFor, Labels, WaitLabels

LEMMA BeginsRightly ==
  ASSUME Stepping, LocksOK, Guarded(prog), NEW c \in CallsOf(prog), Sensible(c), Passes(c),
         NEW m, m.pc = << c.op >>, m.obj = c.obj, m.ev = Handle(c), m.owns = Me.owns,
         WaitOf(m) = "none"
  PROVE  Rightful(prog.owned, obj, m)
<1>1. Plain(prog) /\ PlainInv
  BY StepperIs DEF Stepping
<1>2. CallPlain(prog, c)
  BY <1>1 DEF Plain
<1>3. /\ c.obj \in prog.owned =>
           c.op \in {"SemAccept", "SemPend", "SemPost", "SemPendAbort"} \cup LibOps
      /\ c.op \in EventOps => c.obj \notin HalLocks
      /\ c.op = "PendMulti" => c.arg.objs \cap prog.owned = {}
      /\ c.op \in {"Open", "Ioctl"} => "fd_lock" \in prog.owned
      /\ c.op \in {"Read", "Write"} => Consoles \subseteq prog.owned
      /\ NoName \notin prog.owned
  BY DEF Guarded
<1>4. m.pc # << >> /\ Head(m.pc) = c.op /\ \A i \in DOMAIN m.pc : m.pc[i] = c.op
  OBVIOUS
<1>5. c.op \in {"SemPost", "LibUnlock"} /\ c.obj \in prog.owned => c.obj \in Me.owns
  BY DEF Sensible
<1>6. LockFor(c.op) = NoName
  BY <1>2, OpsAre DEF CallPlain
<1>7. Head(m.pc) \in {"SemPost", "LibUnlock"} /\ m.obj \in prog.owned =>
        /\ m.obj \in m.owns
        /\ \A i \in DOMAIN m.pc : LockFor(m.pc[i]) # m.obj
  <2> HIDE DEF Me
  <2> QED
    BY <1>3, <1>4, <1>5, <1>6
<1>8. \A n \in prog.owned : obj[n] # Null => OneHandle(n)
  BY DEF LocksOK
<1>9. SemAt(m) => \A n \in prog.owned : m.obj = n <=> m.ev = obj[n]
  <2> SUFFICES ASSUME SemAt(m), NEW n \in prog.owned
               PROVE  m.obj = n <=> m.ev = obj[n]
    OBVIOUS
  <2>1. c.op \in SemCalls
    BY <1>4 DEF SemAt
  <2>2. c.op # "PendMulti" /\ c.op \in EventCalls /\ TypeFor(c.op) = "SEM"
    BY <2>1 DEF SemCalls, EventCalls, EventOps, TypeFor
  <2>3. m.ev = obj[c.obj] /\ obj[c.obj] # Null
    BY <2>2 DEF Handle, Passes, NoName
  <2>4. c.obj \in Names(prog) \ GroupNames(prog)
    BY <1>2, <2>2 DEF CallPlain
  <2> QED
    BY <1>8, <2>3, <2>4 DEF OneHandle
<1>10. ManyAt(m) => \A n \in prog.owned : obj[n] \notin m.ev
  <2> SUFFICES ASSUME ManyAt(m), NEW n \in prog.owned, obj[n] \in m.ev
               PROVE  FALSE
    OBVIOUS
  <2>1. c.op = "PendMulti"
    BY <1>4 DEF ManyAt
  <2>2. PICK x \in c.arg.objs : obj[n] = obj[x]
    BY <2>1 DEF Handle
  <2>3. obj[x] # Null /\ x \in Names(prog) \ GroupNames(prog)
    BY <1>2, <2>1 DEF Passes, CallPlain
  <2> QED
    BY <1>3, <1>8, <2>1, <2>2, <2>3 DEF OneHandle
<1>11. c.op # "SemSet" \/ c.obj \notin prog.owned
  BY <1>3 DEF LibOps
<1>12. c.op # "SemPendAbort" \/ c.obj \notin HalLocks
  BY <1>3 DEF EventOps
<1> HIDE DEF Me
<1> QED
  BY <1>3, <1>4, <1>7, <1>9, <1>10, <1>11, <1>12 DEF Rightful

LEMMA ApplyKeeps ==
  ASSUME Stepping, LocksOK, Guarded(prog), Apply
  PROVE  LocksOK'
<1>1. /\ Me.pc = << >> /\ UNCHANGED << os, obj, prog, boot >>
  BY DEF Apply, Stepping
<1>2. PICK c \in Me.menu : \E fd \in Descriptors(c) :
        /\ Sensible(c) /\ Passes(c)
        /\ run' = [run EXCEPT ![Cur] =
             [@ EXCEPT !.pc = << c.op >>, !.obj = c.obj, !.ev = Handle(c),
                       !.arg = Message(c), !.io.fd = fd]]
  BY DEF Apply
<1>3. PICK fd \in Descriptors(c) :
        run' = [run EXCEPT ![Cur] =
             [@ EXCEPT !.pc = << c.op >>, !.obj = c.obj, !.ev = Handle(c),
                       !.arg = Message(c), !.io.fd = fd]]
  BY <1>2
<1> DEFINE m == [Me EXCEPT !.pc = << c.op >>, !.obj = c.obj, !.ev = Handle(c),
                           !.arg = Message(c), !.io.fd = fd]
<1>4. run' = [run EXCEPT ![Cur] = m]
  BY <1>3 DEF Me
<1>5. /\ Plain(prog) /\ Cur \in os.list /\ Cur \in Tcb /\ ThreadOK(prog, os, Me) /\ PlainInv
      /\ Running
  BY StepperIs DEF Stepping
<1>6. DOMAIN Me = RunFields /\ Me.menu \subseteq CallsOf(prog)
  BY <1>5 DEF ThreadOK
<1>7. /\ m.pc = << c.op >> /\ m.obj = c.obj /\ m.ev = Handle(c) /\ m.owns = Me.owns
  BY <1>6 DEF RunFields
<1> HIDE DEF m
<1>8. c \in CallsOf(prog) /\ c.op \in PlainOps
  <2>1. c \in CallsOf(prog)
    BY <1>6
  <2> QED
    BY <1>5, <2>1 DEF Plain, CallPlain
<1>9. /\ LockFor(c.op) = NoName /\ c.op \notin WaitLabels \cup {"OS_Sched"}
  BY <1>8, OpsAre
<1>10. m.pc # << >> /\ Head(m.pc) = c.op /\ Len(m.pc) = 1
       /\ \A i \in DOMAIN m.pc : i = 1 /\ m.pc[i] = c.op
  BY <1>7
<1>11. WaitOf(m) = "none"
  BY <1>9, <1>10 DEF WaitOf
<1>12. WaitOf(Me) = "none"
  <2>1. Len(Me.pc) = 0
    BY <1>1
  <2> HIDE DEF Me
  <2> QED
    BY <1>1, <2>1 DEF WaitOf
<1>13. Rightful(prog.owned, obj, m)
  <2> HIDE DEF Me
  <2> QED
    BY <1>2, <1>7, <1>8, <1>11, BeginsRightly
<1>14. Entitled(prog.owned, os, m, Cur) /\ Shallow(m)
  BY <1>9, <1>10 DEF Entitled, Shallow
<1>15. PICK S : S = {}
  OBVIOUS
<1>16. SemsKept(os, os', os.list \ {Cur}, S) /\ KeepsTypes(os, os') /\ os'.cur # Null
  BY <1>1, <1>5 DEF SemsKept, StillGot, KeepsTypes, Running
<1>17. \A x : (Heir(os', m, Cur, x) <=> Heir(os, Me, Cur, x)) /\ (Holder(m, x) <=> Holder(Me, x))
  BY <1>7, <1>11, <1>12 DEF Heir, Holder
<1>18. Entitled(prog.owned, os', m, Cur) /\ Rightful(prog.owned, obj', m)
  BY <1>1, <1>13, <1>14
<1>19. /\ \A x \in prog.owned : obj'[x] = obj[x]
       /\ \A a \in Names(prog) \ GroupNames(prog) : obj'[a] \in {obj[a], Null}
       /\ \A x : x \notin S
  BY <1>1, <1>15
<1> HIDE DEF Me
<1> QED
  BY <1>4, <1>14, <1>16, <1>17, <1>18, <1>19, RunnerKeeps

LEMMA StepKeeps ==
  ASSUME PlainInv, LocksOK, Guarded(prog), Running, Step, UNCHANGED boot
  PROVE  LocksOK'
<1>1. Stepping
  BY StepsAre
<1>2. Apply \/ Forget \/ Sched => LocksOK'
  BY <1>1, ApplyKeeps, NoOthers, SchedKeeps
<1>3. Locks => LocksOK'
  BY <1>1, SemKeeps, CreateKeeps, NoOthers DEF Locks
<1>4. Messaging => LocksOK'
  BY <1>1, MboxKeeps, QKeeps, MemKeeps, MultiKeeps, CreateKeeps, NoOthers DEF Messaging
<1>5. Flags => LocksOK'
  BY <1>1, FlagKeeps, CreateKeeps, NoOthers DEF Flags
<1>6. Tasks => LocksOK'
  BY <1>1, TaskKeeps, LockKeeps, NoOthers DEF Tasks
<1>7. Library \/ FileCalls \/ Console => LocksOK'
  BY <1>1, LibraryKeeps, OpenKeeps, FileKeeps, WriteKeeps, ReadKeeps DEF FileCalls, Console
<1> QED
  BY <1>2, <1>3, <1>4, <1>5, <1>6, <1>7 DEF Step

(* An interrupt's handler readies tasks and may have another run after it. *)
LEMMA ExitKeeps ==
  ASSUME PlainInv, LocksOK, Running, UNCHANGED << run, obj, prog >>,
         NEW i, Rouses(os, i), NEW S, SemsKept(os, i, os.list, S), Untouched(S),
         os' = OSIntExit(i)
  PROVE  LocksOK'
<1>1. Sound(os) /\ SchedOK
  BY PlainIs
<1>2. /\ Common(os, i) /\ Undisturbed(os, i, os.list)
      /\ i.lock = os.lock /\ i.cur = os.cur /\ i.prioCur = os.prioCur
  BY RousesCommon
<1>3. os.cur \in os.list /\ os.prioCur = os.tcb[os.cur].prio
  BY <1>1 DEF SchedOK
<1>4. os.list \subseteq Tcb
  BY <1>1, Fields DEF Sound
<1>5. /\ Sound(i) /\ i.cur \in i.list /\ i.prioCur = i.tcb[i.cur].prio
  BY <1>2, <1>3, <1>4 DEF Common
<1>6. /\ Switches(i, os')
      /\ i.lock = 0 => RunsHighest(os')
      /\ i.lock # 0 => os' = i
  BY <1>5, SchedSwitches
<1>7. /\ KeepsTypes(os, i) /\ KeepsTypes(i, os') /\ os'.list = i.list
      /\ os'.tcb = i.tcb /\ Sound(os')
      /\ \A e \in Ecb : os'.event[e].cnt = i.event[e].cnt
  BY <1>2, <1>6, SwitchesCommon DEF Switches, AllSame, Common
<1>8. KeepsTypes(os, os')
  BY <1>7 DEF KeepsTypes
<1>9. SemsKept(i, os', os.list, S)
  <2>1. Touches(i, os', os.list, S)
    BY <1>7, SameTouches
  <2> QED
    BY <2>1, TouchesKeeps
<1>10. SemsKept(os, os', os.list, S)
  BY <1>2, <1>7, <1>9, KeptThen
<1>11. os'.cur # Null
  <2>1. CASE i.lock = 0
    <3>1. os'.cur \in Tcb
      BY <1>6, <1>7, <2>1, Fields DEF Sound, RunsHighest
    <3> QED
      BY <3>1, CoreAssumption DEF Tcb, Null
  <2>2. CASE i.lock # 0
    BY <1>2, <1>6, <2>2 DEF Running
  <2> QED
    BY <2>1, <2>2
<1> QED
  BY <1>8, <1>10, <1>11, SystemKeeps

(* A handler posts to nothing that is owned.                               *)
LEMMA HandlersKeep ==
  ASSUME PlainInv, LocksOK, Guarded(prog), Running, Interrupt
  PROVE  LocksOK'
<1>1. UNCHANGED << run, obj, prog >>
  BY DEF Interrupt
<1>2. PICK c \in prog.isr : Passes(c) /\ os' = OSIntExit(HandlerPosts(c).k)
  BY DEF Interrupt
<1>3. /\ Sound(os) /\ Plain(prog) /\ HandlesOK
  BY PlainIs DEF PlainPrograms
<1>4. /\ c.op \in HandlerOps /\ c.obj \in Names(prog) /\ ArgOK(c.op, c.arg)
      /\ c.obj \in GroupNames(prog) <=> c.op = "FlagPost"
  BY <1>3 DEF Plain
<1>5. /\ TypeFor(c.op) # NoName
      /\ c.op = "SemPost" => TypeFor(c.op) = "SEM"
      /\ c.op = "MboxPost" => TypeFor(c.op) = "MBOX"
      /\ c.op = "QPost" => TypeFor(c.op) = "Q"
      /\ c.op = "FlagPost" => TypeFor(c.op) = "FLAG"
  BY <1>4 DEF TypeFor, NoName, HandlerOps
<1>6. /\ obj[c.obj] # Null
      /\ TypeOfObject(TypeFor(c.op), obj[c.obj]) = TypeFor(c.op)
  BY <1>2, <1>5 DEF Passes
<1>7. obj[c.obj] \in IF c.op = "FlagPost" THEN Fgp ELSE Ecb
  BY <1>3, <1>4, <1>6 DEF HandlesOK
<1>8. Notice \in Int
  BY DEF Notice
<1>9. c.op # "FlagPost" => Untouched({obj[c.obj]})
  <2>1. c.obj \notin prog.owned
    BY DEF Guarded
  <2>2. \A n \in prog.owned : obj[n] # Null => OneHandle(n)
    BY DEF LocksOK
  <2> QED
    BY <1>4, <1>6, <2>1, <2>2 DEF OneHandle, Untouched
<1>10. Untouched({})
  BY NobodyTouched
<1>11. PICK S : /\ Untouched(S) /\ Rouses(os, HandlerPosts(c).k)
                /\ Touches(os, HandlerPosts(c).k, os.list, S)
  <2>1. CASE c.op = "SemPost"
    <3>1. obj[c.obj] \in Ecb /\ os.event[obj[c.obj]].type = "SEM"
      BY <1>5, <1>6, <1>7, <2>1 DEF TypeOfObject
    <3>2. HandlerPosts(c) = OSSemPost(os, obj[c.obj])
      BY <2>1 DEF HandlerPosts
    <3>3. /\ Serves(os, HandlerPosts(c))
          /\ Touches(os, HandlerPosts(c).k, os.list, {obj[c.obj]})
      BY <1>3, <3>1, <3>2, SemPostServes, SemTouches
    <3> QED
      BY <1>9, <2>1, <3>3 DEF Serves
  <2>2. CASE c.op = "MboxPost"
    <3>1. obj[c.obj] \in Ecb /\ os.event[obj[c.obj]].type = "MBOX"
      BY <1>5, <1>6, <1>7, <2>2 DEF TypeOfObject
    <3>2. HandlerPosts(c) = OSMboxPost(os, obj[c.obj], Notice)
      BY <2>2 DEF HandlerPosts
    <3>3. /\ Serves(os, HandlerPosts(c))
          /\ Touches(os, HandlerPosts(c).k, os.list, {obj[c.obj]})
      BY <1>3, <1>8, <3>1, <3>2, MboxPostServes, MboxTouches
    <3> QED
      BY <1>9, <2>2, <3>3 DEF Serves
  <2>3. CASE c.op = "QPost"
    <3>1. obj[c.obj] \in Ecb /\ os.event[obj[c.obj]].type = "Q"
      BY <1>5, <1>6, <1>7, <2>3 DEF TypeOfObject
    <3>2. HandlerPosts(c) = OSQPost(os, obj[c.obj], Notice)
      BY <2>3 DEF HandlerPosts
    <3>3. /\ Serves(os, HandlerPosts(c))
          /\ Touches(os, HandlerPosts(c).k, os.list, {obj[c.obj]})
      BY <1>3, <1>8, <3>1, <3>2, QPostServes, QTouches
    <3> QED
      BY <1>9, <2>3, <3>3 DEF Serves
  <2>4. CASE c.op = "FlagPost"
    <3>1. obj[c.obj] \in Fgp /\ os.flag[obj[c.obj]].type = "FLAG"
      BY <1>5, <1>6, <1>7, <2>4 DEF TypeOfObject
    <3>2. HandlerPosts(c) = OSFlagPost(os, obj[c.obj], c.arg.flags, c.arg.opt)
      BY <2>4 DEF HandlerPosts
    <3>3. c.arg.flags \in SUBSET FlagNames
      BY <1>4, <2>4 DEF ArgOK
    <3>4. /\ Serves(os, HandlerPosts(c))
          /\ Touches(os, HandlerPosts(c).k, os.list, {})
      BY <1>3, <3>1, <3>2, <3>3, FlagPostServes, FlagPostTouches
    <3> QED
      BY <1>10, <3>4 DEF Serves
  <2> QED
    BY <1>4, <2>1, <2>2, <2>3, <2>4 DEF HandlerOps
<1>12. SemsKept(os, HandlerPosts(c).k, os.list, S)
  BY <1>11, TouchesKeeps
<1> QED
  BY <1>1, <1>2, <1>11, <1>12, ExitKeeps

(* The handlers of the UART and of the timer touch no semaphore.           *)
Spared(k) == Rouses(os, k) /\ SemsKept(os, k, os.list, {})

LEMMA PostFlagsSpares ==
  ASSUME PlainInv, Running, prog.host # {},
         NEW flags \in SUBSET FlagNames, NEW k, Spared(k)
  PROVE  Spared(PostFlags(k, flags))
<1> DEFINE j == PostFlags(k, flags)
<1>1. Rouses(os, j)
  BY PostFlagsRouses DEF Spared
<1>2. Sound(k) /\ KeepsTypes(os, k) /\ k.list = os.list /\ Undisturbed(os, k, os.list)
  BY RousesCommon DEF Spared, Common
<1>3. SemsKept(k, j, os.list, {})
  <2>1. CASE flags = {}
    <3>1. j = k
      BY <2>1 DEF PostFlags
    <3>2. Touches(k, j, os.list, {})
      BY <3>1 DEF Touches, SameWait
    <3> QED
      BY <3>2, TouchesKeeps
  <2>2. CASE flags # {}
    <3>1. Declares(prog, "uart", "FLAG")
      BY PlainIs DEF PlainPrograms, Plain
    <3>2. obj["uart"] \in Fgp
      BY <3>1, DeclaredHandle
    <3>3. j = OSFlagPost(k, obj["uart"], flags, "SET").k
      BY <2>2 DEF PostFlags
    <3>4. Touches(k, j, os.list, {})
      BY <1>2, <3>2, <3>3, FlagPostTouches
    <3> QED
      BY <3>4, TouchesKeeps
  <2> QED
    BY <2>1, <2>2
<1> HIDE DEF j
<1>4. SemsKept(os, j, os.list, {})
  BY <1>2, <1>3, KeptThen DEF Spared
<1> QED
  BY <1>1, <1>4 DEF Spared, j

LEMMA TickSpares ==
  ASSUME NEW k, Spared(k)
  PROVE  Spared(OSTimeTick(k))
<1>1. Sound(k) /\ KeepsTypes(os, k) /\ k.list = os.list /\ Undisturbed(os, k, os.list)
  BY RousesCommon DEF Spared, Common
<1>2. Rouses(os, OSTimeTick(k))
  BY <1>1, TickOrderly, RousesFurther DEF Spared
<1>3. SemsKept(k, OSTimeTick(k), os.list, {})
  BY <1>1, TickKeeps
<1>4. SemsKept(os, OSTimeTick(k), os.list, {})
  BY <1>1, <1>3, KeptThen DEF Spared
<1> QED
  BY <1>2, <1>4 DEF Spared

LEMMA IrqHandlerKeeps ==
  ASSUME PlainInv, LocksOK, Running, IrqHandler
  PROVE  LocksOK'
<1>1. UNCHANGED << run, obj, prog >>
  BY DEF IrqHandler
<1> DEFINE k1 == IF UartPending THEN PostFlags(os, IrqFlags(uart)) ELSE os
           u1 == IF UartPending THEN Irq(uart) ELSE uart
<1>2. PICK timer \in BOOLEAN :
        os' = OSIntExit((IF timer THEN TimerIrq(k1, u1)
                         ELSE [k |-> k1, u |-> u1, clock |-> clock]).k)
  BY DEF IrqHandler
<1>3. Spared(k1)
  <2>1. Sound(os)
    BY PlainIs
  <2>2. Touches(os, os, os.list, {})
    BY DEF Touches, SameWait
  <2>3. Spared(os)
    BY <2>1, <2>2, RousesNone, TouchesKeeps DEF Spared
  <2>4. UartPending => prog.host # {}
    BY DEF UartPending
  <2> QED
    BY <2>3, <2>4, PostFlagsSpares, UartFlagNames
<1> HIDE DEF k1, u1
<1>4. Untouched({})
  BY NobodyTouched
<1>5. CASE ~timer
  <2>1. os' = OSIntExit(k1)
    BY <1>2, <1>5
  <2> QED
    BY <1>1, <1>3, <1>4, <2>1, ExitKeeps DEF Spared
<1>6. CASE timer
  <2> DEFINE rings == "silent" \in prog.host /\ Fires(clock.alarm, NextTick(clock.now))
             k2 == IF rings THEN PostFlags(k1, TimeoutFlags(u1)) ELSE k1
  <2>1. os' = OSIntExit(OSTimeTick(k2))
    BY <1>2, <1>6 DEF TimerIrq
  <2>2. rings => prog.host # {}
    OBVIOUS
  <2> HIDE DEF rings
  <2>3. Spared(k2)
    BY <1>3, <2>2, PostFlagsSpares, UartFlagNames
  <2> HIDE DEF k2
  <2>4. Spared(OSTimeTick(k2))
    BY <2>3, TickSpares
  <2> QED
    BY <1>1, <1>4, <2>1, <2>4, ExitKeeps DEF Spared
<1> QED
  BY <1>5, <1>6

LEMMA WorksKeeps ==
  ASSUME PlainInv, LocksOK, Guarded(prog), Works
  PROVE  LocksOK'
<1>1. Running /\ UNCHANGED boot
  BY DEF Works
<1>2. CASE Step
  BY <1>1, <1>2, StepKeeps
<1>3. CASE Interrupt
  BY <1>1, <1>3, HandlersKeep
<1>4. CASE IrqHandler
  BY <1>1, <1>4, IrqHandlerKeeps
<1>5. CASE Host
  <2>1. UNCHANGED << os, run, obj, prog >>
    BY <1>5 DEF Host
  <2>2. /\ KeepsTypes(os, os') /\ os'.cur # Null /\ Touches(os, os', os.list, {})
    BY <1>1, <2>1 DEF KeepsTypes, Running, Touches, SameWait
  <2>3. SemsKept(os, os', os.list, {}) /\ Untouched({})
    BY <2>2, TouchesKeeps, NobodyTouched
  <2> QED
    BY <2>1, <2>2, <2>3, SystemKeeps
<1> QED
  BY <1>2, <1>3, <1>4, <1>5 DEF Works

-----------------------------------------------------------------------------
(* The start.  Until OSStart nobody has a token.                           *)

(* What is created was free, and a semaphore begins with its tokens.       *)
MakesFresh(k, j, loc, o) ==
    /\ \A e \in Ecb : k.event[e].type = "SEM" => j.event[e].cnt = k.event[e].cnt
    /\ o.type # "FLAG" /\ loc # Null =>
         k.event[loc].type = "UNUSED" /\ j.event[loc].type # "UNUSED"
    /\ o.type = "SEM" /\ loc # Null => j.event[loc].type = "SEM" /\ j.event[loc].cnt = o.arg

LEMMA TakenEvent ==
  ASSUME NEW k \in Kernel, NEW type, NEW cnt, NEW ptr
  PROVE  TakeEvent(k, type, cnt, 0, ptr).event =
           [k.event EXCEPT ![Head(k.freeEvent)] =
              [type |-> type, cnt |-> cnt, pip |-> 0, ptr |-> ptr, wait |-> NoBits]]
<1>1. DOMAIN k = {"lock", "rdy", "cur", "prioCur", "tcb", "prioTbl", "list", "freeTcb",
                  "event", "freeEvent", "flag", "freeFlag", "mem", "nblks", "queue", "freeQ"}
  BY DEF Kernel
<1> QED
  BY <1>1 DEF TakeEvent

LEMMA MadeFresh ==
  ASSUME NEW k, Sound(k), NEW o, o.type \in EventTypes \cup {"FLAG", "MEM", "NONE"}
  PROVE  MakesFresh(k, Made(k, o).k, Made(k, o).loc, o)
<1> DEFINE r == Made(k, o)
           e == Head(k.freeEvent)
<1>1. /\ k \in Kernel /\ k.event \in [Ecb -> EventType]
      /\ k.freeEvent # << >> => e \in Ecb /\ k.event[e].type = "UNUSED"
  BY Pools, TailOnce, Fields DEF Sound
<1> HIDE DEF e
<1>2. CASE o.type = "SEM"
  <2>1. r = OSSemCreate(k, o.arg)
    BY <1>2 DEF Made
  <2>2. CASE k.freeEvent = << >>
    BY <2>1, <2>2 DEF OSSemCreate, Fails, Done, MakesFresh
  <2>3. CASE k.freeEvent # << >>
    <3>1. /\ r.loc = e
          /\ r.k.event = [k.event EXCEPT ![e] = [type |-> "SEM", cnt |-> o.arg, pip |-> 0,
                                                 ptr |-> Null, wait |-> NoBits]]
      <4>1. r.loc = e /\ r.k = TakeEvent(k, "SEM", o.arg, 0, Null)
        BY <2>1, <2>3 DEF OSSemCreate, Returns, Done, e
      <4> QED
        BY <1>1, <4>1, TakenEvent DEF e
    <3> QED
      BY <1>1, <1>2, <2>3, <3>1 DEF MakesFresh
  <2> QED
    BY <2>2, <2>3
<1>3. CASE o.type = "MBOX"
  <2>1. r = OSMboxCreate(k, o.arg)
    BY <1>3 DEF Made
  <2>2. CASE k.freeEvent = << >>
    BY <1>3, <2>1, <2>2 DEF OSMboxCreate, Fails, Done, MakesFresh
  <2>3. CASE k.freeEvent # << >>
    <3>1. /\ r.loc = e
          /\ r.k.event = [k.event EXCEPT ![e] = [type |-> "MBOX", cnt |-> 0, pip |-> 0,
                                                 ptr |-> o.arg, wait |-> NoBits]]
      <4>1. r.loc = e /\ r.k = TakeEvent(k, "MBOX", 0, 0, o.arg)
        BY <2>1, <2>3 DEF OSMboxCreate, Returns, Done, e
      <4> QED
        BY <1>1, <4>1, TakenEvent DEF e
    <3> QED
      BY <1>1, <1>3, <2>3, <3>1 DEF MakesFresh
  <2> QED
    BY <2>2, <2>3
<1>4. CASE o.type = "Q"
  <2>1. r = QMade(OSQCreate(k))
    BY <1>4 DEF Made
  <2>2. CASE k.freeEvent = << >>
    BY <1>4, <2>1, <2>2 DEF OSQCreate, QMade, Fails, Done, MakesFresh
  <2>3. CASE k.freeEvent # << >>
    <3> DEFINE i == [k EXCEPT !.freeEvent = Tail(@)]
    <3>1. OSQCreate(k).ok /\ OSQCreate(k).k = i /\ OSQCreate(k).loc = e
      BY <1>1, <2>3 DEF OSQCreate, Returns, Done, e
    <3>2. r = QCreateRing(i, e)
      BY <2>1, <3>1 DEF QMade
    <3>3. i.event = k.event /\ i.freeQ = k.freeQ
      BY <1>1 DEF Kernel
    <3> HIDE DEF i
    <3>4. CASE i.freeQ = << >>
      <4>1. r.loc = Null /\ r.k = [i EXCEPT !.freeEvent = << e >> \o @]
        BY <3>2, <3>4 DEF QCreateRing, Fails, Done
      <4>2. r.k.event = k.event
        BY <3>3, <4>1
      <4> QED
        BY <1>4, <4>1, <4>2 DEF MakesFresh
    <3>5. CASE i.freeQ # << >>
      <4> DEFINE d == [type |-> "Q", cnt |-> 0, pip |-> 0, ptr |-> Head(i.freeQ),
                       wait |-> NoBits]
      <4>1. i \in Kernel
        <5>1. Tail(k.freeEvent) \in Seq(Ecb)
          BY <1>1, <2>3 DEF Kernel
        <5> QED
          BY <1>1, <5>1 DEF Kernel, i
      <4>2. /\ r.loc = e
            /\ r.k = [i EXCEPT !.freeQ = Tail(@),
                               !.queue[Head(i.freeQ)] = NewRing(QSize, Null),
                               !.event[e] = d]
        BY <3>2, <3>5 DEF QCreateRing, Returns, Done
      <4>3. DOMAIN i = {"lock", "rdy", "cur", "prioCur", "tcb", "prioTbl", "list", "freeTcb",
                  "event", "freeEvent", "flag", "freeFlag", "mem", "nblks", "queue", "freeQ"}
        BY <4>1 DEF Kernel
      <4> HIDE DEF d
      <4>4. r.k.event = [k.event EXCEPT ![e] = d]
        BY <3>3, <4>2, <4>3
      <4>5. d.type = "Q"
        BY DEF d
      <4> QED
        BY <1>1, <1>4, <2>3, <4>2, <4>4, <4>5 DEF MakesFresh
    <3> QED
      BY <3>4, <3>5
  <2> QED
    BY <2>2, <2>3
<1>5. CASE o.type = "FLAG"
  <2>1. r = OSFlagCreate(k, o.arg)
    BY <1>5 DEF Made
  <2>2. r.k.event = k.event
    BY <1>1, <2>1 DEF OSFlagCreate, Returns, Fails, Done, Kernel
  <2> QED
    BY <1>5, <2>2 DEF MakesFresh
<1>6. CASE o.type = "MEM"
  <2>1. r = Done(OSMemCreate(k))
    BY <1>6 DEF Made
  <2>2. r.k.event = k.event /\ r.loc = Null
    <3>1. r.k = OSMemCreate(k) /\ r.loc = Null
      BY <2>1 DEF Done
    <3> QED
      BY <1>1, <3>1 DEF OSMemCreate, Kernel
  <2> QED
    BY <1>6, <2>2 DEF MakesFresh
<1>7. CASE o.type = "NONE"
  <2>1. r = Done(k)
    BY <1>7 DEF Made
  <2> QED
    BY <1>7, <2>1 DEF MakesFresh, Done
<1> QED
  BY <1>2, <1>3, <1>4, <1>5, <1>6, <1>7 DEF EventTypes

(* A task that runs its own code and has nothing asks nothing of the locks.*)
LEMMA NothingAsked ==
  ASSUME NEW me, me.pc = << >>, WaitOf(me) = "none"
  PROVE  /\ \A owned, k, t, h : Entitled(owned, k, me, t) /\ Rightful(owned, h, me)
         /\ Shallow(me)
         /\ \A k, t, n : ~Heir(k, me, t, n)
  BY DEF Entitled, Rightful, Shallow, Heir, SemAt, ManyAt

AtRest(me) == me.pc = << >> /\ WaitOf(me) = "none" /\ me.owns = {}

LEMMA RestersOK ==
  ASSUME \A t \in Tcb : AtRest(run'[t]),
         \A n \in prog'.owned : obj'[n] # Null =>
            OneHandle(n)' /\ os'.event[obj'[n]].cnt = 1,
         ~Running' => \A m \in Names(prog') \ GroupNames(prog') :
            obj'[m] # Null => os'.event[obj'[m]].type # "UNUSED"
  PROVE  LocksOK'
<1>1. \A t \in Tcb : /\ Entitled(prog'.owned, os', run'[t], t)
                     /\ Rightful(prog'.owned, obj', run'[t])
                     /\ Shallow(run'[t])
                     /\ \A n : ~Heir(os', run'[t], t, n) /\ ~Holder(run'[t], n)
  BY NothingAsked DEF AtRest, Holder
<1>2. \A n \in prog'.owned : obj'[n] # Null => TokenOK(n)'
  BY <1>1 DEF TokenOK
<1> QED
  BY <1>1, <1>2 DEF LocksOK, AtRest

(* Before the start is over the count has every token.                     *)
LEMMA RestersAre ==
  ASSUME Starting, LocksOK
  PROVE  /\ \A t \in Tcb : AtRest(run[t])
         /\ \A n \in prog.owned : obj[n] # Null =>
               OneHandle(n) /\ os.event[obj[n]].cnt = 1
         /\ \A m \in Names(prog) \ GroupNames(prog) :
               obj[m] # Null => os.event[obj[m]].type # "UNUSED"
<1>1. \A t \in Tcb : AtRest(run[t])
  BY StarterIs DEF AtRest, LocksOK, Starting
<1>2. \A t \in Tcb : \A n : ~Heir(os, run[t], t, n) /\ ~Holder(run[t], n)
  BY <1>1, NothingAsked DEF AtRest, Holder
<1>3. \A n \in prog.owned : obj[n] # Null =>
               OneHandle(n) /\ os.event[obj[n]].cnt = 1
  BY <1>2 DEF LocksOK, TokenOK
<1> QED
  BY <1>1, <1>3 DEF LocksOK, Starting

LEMMA MakeObjectKeeps ==
  ASSUME Starting, LocksOK, Guarded(prog), MakeObject
  PROVE  LocksOK'
<1> DEFINE n == boot.object
           o == prog.objects[n]
           r == Made(os, o)
<1>1. /\ Sound(os) /\ Plain(prog) /\ HandlesOK /\ n \in Nat \ {0}
  BY StarterIs
<1>2. /\ ~ObjectsMade /\ os' = r.k /\ obj' = [obj EXCEPT ![o.name] = r.loc]
      /\ UNCHANGED << prog, run >>
  BY DEF MakeObject
<1>3. prog.objects \in Seq({prog.objects[i] : i \in DOMAIN prog.objects})
  BY <1>1 DEF Plain, ObjectsPlain
<1>4. DOMAIN prog.objects = 1 .. Len(prog.objects) /\ Len(prog.objects) \in Nat
  BY <1>3
<1>5. n \in DOMAIN prog.objects
  BY <1>1, <1>2, <1>4 DEF ObjectsMade
<1>6. /\ o.type \in EventTypes \cup {"FLAG", "MEM", "NONE"}
      /\ o.type \in EventTypes => o.name \notin GroupNames(prog)
      /\ o.type = "SEM" => o.arg \in Nat
      /\ o.type = "MBOX" => o.arg \in Int
      /\ o.type = "FLAG" => o.arg \in SUBSET FlagNames
      /\ o.type = "FLAG" => o.name \in GroupNames(prog)
      /\ o.name \in Names(prog)
      /\ \A i, j \in DOMAIN prog.objects :
           prog.objects[i].name = prog.objects[j].name => i = j
  BY <1>1, <1>5 DEF Plain, ObjectsPlain, GroupNames, Names
<1>7. MakesObject(os, r, o.type) /\ MakesFresh(os, r.k, r.loc, o)
  BY <1>1, <1>6, MadeIs, MadeFresh
<1>8. o.name \in prog.owned => o.type = "SEM" /\ o.arg = 1
  BY <1>5, <1>6 DEF Guarded
<1>9. prog.owned \subseteq Names(prog) \ GroupNames(prog)
  BY GuardedIs DEF Starting
<1>10. DOMAIN obj = Names(prog) /\ Null \notin Ecb
  BY <1>1, NullIsNone DEF HandlesOK
<1> HIDE DEF r, o
<1>11. KeepsTypes(os, os')
  BY <1>2, <1>7 DEF MakesObject, Adds
<1>12. /\ obj'[o.name] = r.loc
       /\ \A m \in Names(prog) : m # o.name => obj'[m] = obj[m]
  BY <1>2, <1>6, <1>10
<1>13. /\ \A t \in Tcb : AtRest(run[t])
       /\ \A x \in prog.owned : obj[x] # Null =>
             OneHandle(x) /\ os.event[obj[x]].cnt = 1
       /\ \A m \in Names(prog) \ GroupNames(prog) :
             obj[m] # Null => os.event[obj[m]].type # "UNUSED"
  BY RestersAre
<1>14. o.name \notin GroupNames(prog) /\ r.loc # Null =>
         /\ os.event[r.loc].type = "UNUSED" /\ os'.event[r.loc].type # "UNUSED"
         /\ r.loc \in Ecb
         /\ o.name \in prog.owned =>
              os'.event[r.loc].type = "SEM" /\ os'.event[r.loc].cnt = 1
  BY <1>2, <1>6, <1>7, <1>8 DEF MakesFresh, MakesObject
<1>15. \A m \in Names(prog) \ GroupNames(prog) :
          obj'[m] # Null => os'.event[obj'[m]].type # "UNUSED"
  <2>1. ASSUME NEW m \in Names(prog) \ GroupNames(prog), m # o.name, obj[m] # Null
        PROVE  os'.event[obj[m]].type # "UNUSED"
    <3>1. obj[m] \in Ecb /\ os.event[obj[m]].type # "UNUSED"
      BY <1>1, <1>13, <2>1 DEF HandlesOK
    <3> QED
      BY <1>11, <3>1 DEF KeepsTypes
  <2> QED
    BY <1>12, <1>14, <2>1
<1>16. ASSUME NEW x \in prog.owned, obj'[x] # Null
       PROVE  OneHandle(x)' /\ os'.event[obj'[x]].cnt = 1
  <2>1. CASE x = o.name
    <3>1. /\ obj'[x] \in Ecb /\ os'.event[obj'[x]].type = "SEM"
          /\ os'.event[obj'[x]].cnt = 1 /\ os.event[obj'[x]].type = "UNUSED"
      BY <1>9, <1>12, <1>14, <1>16, <2>1
    <3>2. \A m \in Names(prog) \ GroupNames(prog) : obj'[m] = obj'[x] => m = x
      BY <1>12, <1>13, <1>16, <2>1, <3>1
    <3> QED
      BY <1>2, <3>1, <3>2 DEF OneHandle
  <2>2. CASE x # o.name
    <3>1. obj'[x] = obj[x] /\ OneHandle(x) /\ os.event[obj[x]].cnt = 1
      BY <1>9, <1>12, <1>13, <1>16, <2>2
    <3>2. obj[x] \in Ecb /\ os.event[obj[x]].type = "SEM"
      BY <3>1 DEF OneHandle
    <3>3. os'.event[obj'[x]].cnt = 1
      BY <1>2, <1>7, <3>1, <3>2 DEF MakesFresh
    <3>4. \A a \in Names(prog) \ GroupNames(prog) :
            obj'[a] \in {obj[a], Null} \/ os.event[obj'[a]].type # "SEM"
      BY <1>12, <1>14
    <3> QED
      BY <1>2, <1>11, <3>1, <3>3, <3>4, OneHandleKept
  <2> QED
    BY <2>1, <2>2
<1> QED
  BY <1>2, <1>13, <1>15, <1>16, RestersOK

LEMMA StartersKeep ==
  ASSUME Starting, LocksOK, UNCHANGED << obj, prog >>, os'.event = os.event,
         \A t \in Tcb : AtRest(run'[t])
  PROVE  LocksOK'
<1>1. /\ \A x \in prog.owned : obj[x] # Null =>
             OneHandle(x) /\ os.event[obj[x]].cnt = 1
      /\ \A m \in Names(prog) \ GroupNames(prog) :
             obj[m] # Null => os.event[obj[m]].type # "UNUSED"
  BY RestersAre
<1>2. \A x \in prog.owned : obj[x] # Null => OneHandle(x)'
  BY <1>1 DEF OneHandle
<1> QED
  BY <1>1, <1>2, RestersOK

LEMMA BootKeeps ==
  ASSUME PlainInv, LocksOK, Guarded(prog), Boot
  PROVE  LocksOK'
<1>1. Starting
  BY DEF Boot, Starting, MakeObject, LaunchTask, Start
<1>2. /\ Sound(os) /\ Plain(prog) /\ ThreadsOK /\ boot.task \in Nat \ {0}
      /\ \A t \in Tcb : AtRest(run[t])
  BY <1>1, StarterIs, RestersAre
<1>3. CASE LaunchTask
  <2> DEFINE c == prog.tasks[boot.task]
             new == NewRun(c.menu)
  <2>1. /\ ~TasksMade /\ os' = OSTaskCreateExt(os, c.prio) /\ UNCHANGED << obj, prog >>
        /\ run' = IF CanCreate(os, c.prio)
                  THEN [run EXCEPT ![Head(os.freeTcb)] = new] ELSE run
    BY <1>3 DEF LaunchTask
  <2>2. c.prio \in Prio
    <3>1. prog.tasks \in Seq([prio : Prio, menu : SUBSET CallsOf(prog)])
      BY <1>2 DEF Plain
    <3>2. boot.task \in DOMAIN prog.tasks
      BY <1>2, <2>1, <3>1 DEF TasksMade
    <3>3. prog.tasks[boot.task] \in [prio : Prio, menu : SUBSET CallsOf(prog)]
      <4>1. ASSUME NEW X, NEW s \in Seq(X), NEW i \in DOMAIN s PROVE s[i] \in X
        BY ONLY <4>1
      <4> HIDE DEF c
      <4> QED
        BY ONLY <3>1, <3>2, <4>1
    <3> QED
      BY <3>3
  <2>3. AtRest(new)
    <3>1. new.pc = << >> /\ new.owns = {} /\ StackOK(new.pc)
      BY DEF NewRun, StackOK
    <3> QED
      BY <3>1, WaitOfIs DEF AtRest
  <2> HIDE DEF new
  <2>4. \A t \in Tcb : AtRest(run'[t])
    BY <1>2, <2>1, <2>3 DEF ThreadsOK
  <2>5. os'.event = os.event
    <3>1. CASE ~CanCreate(os, c.prio)
      BY <2>1, <3>1 DEF OSTaskCreateExt
    <3>2. CASE CanCreate(os, c.prio)
      <4>1. os.cur = Null
        BY <1>1, StarterIs
      <4> QED
        BY <1>2, <2>1, <2>2, <3>2, <4>1, CreateExtLaunches DEF Launches
    <3> QED
      BY <3>1, <3>2
  <2> QED
    BY <1>1, <2>1, <2>4, <2>5, StartersKeep
<1>4. CASE Start
  <2>1. os' = OSStart(os) /\ UNCHANGED << obj, run, prog >>
    BY <1>4 DEF Start
  <2>2. os'.event = os.event
    BY <2>1 DEF OSStart
  <2> QED
    BY <1>1, <1>2, <2>1, <2>2, StartersKeep
<1> QED
  BY <1>1, <1>3, <1>4, MakeObjectKeeps DEF Boot

(* No semaphore is there before the start, and nobody has one.             *)
LEMMA InitLocks ==
  ASSUME Init, prog \in GuardedPrograms
  PROVE  LocksOK
<1>1. /\ run = [t \in Tcb |-> NewRun({})] /\ obj = [n \in Names(prog) |-> Null]
  BY DEF Init
<1>2. prog \in PlainPrograms /\ Guarded(prog)
  BY DEF GuardedPrograms
<1>3. PlainInv
  BY <1>2, InitPlain
<1>4. \A n \in prog.owned : obj[n] = Null
  BY <1>1, <1>2, <1>3, GuardedIs
<1>5. \A t \in Tcb : AtRest(run[t])
  <2>1. NewRun({}).pc = << >> /\ NewRun({}).owns = {} /\ StackOK(NewRun({}).pc)
    BY DEF NewRun, StackOK
  <2> QED
    BY <1>1, <2>1, WaitOfIs DEF AtRest
<1>6. \A t \in Tcb : /\ Entitled(prog.owned, os, run[t], t)
                     /\ Rightful(prog.owned, obj, run[t])
                     /\ Shallow(run[t])
  BY <1>5, NothingAsked DEF AtRest
<1> QED
  BY <1>1, <1>4, <1>5, <1>6 DEF LocksOK, AtRest

-----------------------------------------------------------------------------
(* What the invariant of the locks says.                                   *)

LEMMA AheadIs ==
  ASSUME NEW t, StackOK(run[t].pc)
  PROVE  Ahead(t, "SemPended") <=> WaitOf(run[t]) = "SemPended"
<1> DEFINE me == run[t]
<1>0. "SemPended" \in WaitLabels /\ "OS_Sched" \notin WaitLabels
  BY DEF WaitLabels
<1>1. /\ me.pc = << >> => WaitOf(me) = "none"
      /\ me.pc # << >> =>
           /\ Head(me.pc) = me.pc[1] /\ Len(me.pc) > 0
           /\ me.pc[1] \in WaitLabels => WaitOf(me) = me.pc[1]
           /\ me.pc[1] \notin WaitLabels => WaitOf(me) = NextWait(me.pc)
  BY WaitOfIs
<1>2. me.pc \in Seq(Labels)
  BY DEF StackOK
<1>3. DOMAIN me.pc = 1 .. Len(me.pc) /\ Len(me.pc) \in Nat
  BY <1>2
<1>4. ASSUME Ahead(t, "SemPended") PROVE WaitOf(me) = "SemPended"
  <2>1. PICK i \in DOMAIN me.pc : me.pc[i] = "SemPended"
    BY <1>4 DEF Ahead
  <2>2. i = 1 \/ (i = 2 /\ me.pc[1] = "OS_Sched")
    <3>1. "SemPended" \notin Conts
      BY DEF Conts
    <3>2. i \in 1 .. Len(me.pc) /\ me.pc[i] \notin Conts
      BY <1>3, <2>1, <3>1
    <3>3. i # 1 => i \in 2 .. Len(me.pc)
      BY <1>3, <3>2
    <3> QED
      BY <3>2, <3>3 DEF StackOK
  <2>3. me.pc # << >>
    BY <2>1
  <2>4. CASE i = 1
    BY <1>0, <1>1, <2>1, <2>3, <2>4
  <2>5. CASE i = 2 /\ me.pc[1] = "OS_Sched"
    <3>1. Len(me.pc) > 1
      BY <1>3, <2>1, <2>5
    <3>2. WaitOf(me) = NextWait(me.pc)
      BY <1>0, <1>1, <2>3, <2>5
    <3> QED
      BY <1>0, <2>1, <2>5, <3>1, <3>2 DEF NextWait
  <2> QED
    BY <2>2, <2>4, <2>5
<1>5. ASSUME WaitOf(me) = "SemPended" PROVE Ahead(t, "SemPended")
  <2>1. me.pc # << >>
    BY <1>1, <1>5
  <2>2. 1 \in DOMAIN me.pc
    BY <1>1, <1>3, <2>1
  <2>3. CASE me.pc[1] \in WaitLabels
    BY <1>1, <1>5, <2>1, <2>2, <2>3 DEF Ahead
  <2>4. CASE me.pc[1] \notin WaitLabels
    <3>1. NextWait(me.pc) = "SemPended"
      BY <1>1, <1>5, <2>1, <2>4
    <3>2. Len(me.pc) > 1 /\ me.pc[2] = "SemPended"
      BY <3>1 DEF NextWait
    <3>3. 2 \in DOMAIN me.pc
      BY <1>3, <3>2
    <3> QED
      BY <3>2, <3>3 DEF Ahead
  <2> QED
    BY <2>3, <2>4
<1> QED
  BY <1>4, <1>5

LEMMA LocksConserve ==
  ASSUME PlainInv, LocksOK, Guarded(prog)
  PROVE  TokensConserved
<1>1. ASSUME NEW t \in Tcb
      PROVE  /\ StackOK(run[t].pc)
             /\ WaitOf(run[t]) = "SemPended" => t \in os.list
  <2>1. StackOK(run[t].pc) /\ (t \notin os.list => run[t].pc = << >>)
    BY DEF PlainInv, ThreadsOK, ThreadOK
  <2> QED
    BY <2>1, WaitOfIs
<1>2. os.list \subseteq Tcb
  BY PlainIs, Fields DEF Sound
<1>3. SUFFICES ASSUME NEW n \in prog.owned, obj[n] # Null
               PROVE  os.event[obj[n]].cnt + Cardinality({t \in Tcb : n \in run[t].owns})
                        + Cardinality({t \in os.list : OnItsWay(t, n)}) = 1
  BY DEF TokensConserved
<1> DEFINE cnt == os.event[obj[n]].cnt
           Have == {t \in Tcb : Holder(run[t], n)}
           Get == {t \in Tcb : Heir(os, run[t], t, n)}
<1>4. /\ {t \in Tcb : n \in run[t].owns} = Have
      /\ {t \in os.list : OnItsWay(t, n)} = Get
  BY <1>1, <1>2, AheadIs DEF Holder, Heir, Got, OnItsWay
<1>5. TokenOK(n)
  BY <1>3 DEF LocksOK
<1>6. CASE cnt = 1 /\ Have = {} /\ Get = {}
  <2>1. Cardinality(Have) = 0 /\ Cardinality(Get) = 0
    BY <1>6, FS_EmptySet
  <2>2. cnt + Cardinality(Have) + Cardinality(Get) = 1
    BY <1>6, <2>1
  <2> QED
    BY <1>4, <2>2
<1>7. CASE cnt = 0 /\ \E t \in Tcb : \/ Have = {t} /\ Get = {}
                                     \/ Have = {} /\ Get = {t}
  <2>1. \/ Cardinality(Have) = 1 /\ Cardinality(Get) = 0
        \/ Cardinality(Have) = 0 /\ Cardinality(Get) = 1
    BY <1>7, FS_EmptySet, FS_Singleton
  <2>2. cnt + Cardinality(Have) + Cardinality(Get) = 1
    <3> HIDE DEF Have, Get, cnt
    <3> QED
      BY <1>7, <2>1
  <2> QED
    BY <1>4, <2>2
<1>8. \/ cnt = 1 /\ Have = {} /\ Get = {}
      \/ cnt = 0 /\ \E t \in Tcb : \/ Have = {t} /\ Get = {}
                                   \/ Have = {} /\ Get = {t}
  <2>1. CASE cnt = 1 /\ \A t \in Tcb : ~Holder(run[t], n) /\ ~Heir(os, run[t], t, n)
    BY <2>1
  <2>2. CASE cnt = 0 /\ \E t \in Tcb : /\ Holder(run[t], n) <=> ~Heir(os, run[t], t, n)
                                       /\ \A u \in Tcb \ {t} : /\ ~Holder(run[u], n)
                                                               /\ ~Heir(os, run[u], u, n)
    <3>1. PICK t \in Tcb : /\ Holder(run[t], n) <=> ~Heir(os, run[t], t, n)
                           /\ \A u \in Tcb \ {t} : /\ ~Holder(run[u], n)
                                                   /\ ~Heir(os, run[u], u, n)
      BY <2>2
    <3>2. CASE Holder(run[t], n)
      <4>1. Have = {t} /\ Get = {}
        BY <3>1, <3>2
      <4> QED
        BY <2>2, <4>1
    <3>3. CASE ~Holder(run[t], n)
      <4>1. Have = {} /\ Get = {t}
        BY <3>1, <3>3
      <4> QED
        BY <2>2, <4>1
    <3> QED
      BY <3>2, <3>3
  <2> QED
    BY <1>5, <2>1, <2>2 DEF TokenOK
<1> QED
  BY <1>6, <1>7, <1>8

LEMMA LockedLabels ==
  ASSUME NEW l, LockFor(l) # NoName
  PROVE  l \notin WaitLabels \cup {"OS_Sched", "SemPend"} /\ LockFor(l) \in HalLocks
  BY DEF LockFor, WaitLabels, NoName, HalLocks, Consoles

(* A task that has come to a label of a lock has the lock.                 *)
LEMMA HasTheLock ==
  ASSUME PlainInv, LocksOK, NEW t \in Tcb, run[t].pc # << >>,
         LockFor(Head(run[t].pc)) # NoName
  PROVE  LockFor(Head(run[t].pc)) \in prog.owned \cap run[t].owns
<1> DEFINE me == run[t]
           n == LockFor(Head(me.pc))
<1>1. StackOK(me.pc) /\ Entitled(prog.owned, os, me, t)
  BY DEF PlainInv, ThreadsOK, ThreadOK, LocksOK
<1>2. Head(me.pc) = me.pc[1] /\ Len(me.pc) > 0
  BY <1>1, WaitOfIs
<1>3. DOMAIN me.pc = 1 .. Len(me.pc) /\ Len(me.pc) \in Nat
  BY <1>1 DEF StackOK
<1>4. 1 \in DOMAIN me.pc
  BY <1>2, <1>3
<1>5. n \in prog.owned /\ (n \in me.owns \/ Obtains(os, me, t, n))
  BY <1>1, <1>2, <1>4 DEF Entitled
<1>6. Head(me.pc) \notin WaitLabels \cup {"OS_Sched", "SemPend"}
  BY LockedLabels
<1>7. WaitOf(me) = "none"
  BY <1>6 DEF WaitOf
<1>8. ~Obtains(os, me, t, n)
  BY <1>6, <1>7 DEF Obtains
<1> QED
  BY <1>5, <1>8

LEMMA LocksDoExclude ==
  ASSUME PlainInv, LocksOK, Guarded(prog)
  PROVE  LocksExclude
<1>1. SUFFICES ASSUME NEW t \in Tcb, NEW u \in Tcb, run[t].pc # << >>, run[u].pc # << >>,
                      LockFor(Head(run[t].pc)) = LockFor(Head(run[u].pc)),
                      LockFor(Head(run[t].pc)) # NoName
               PROVE  t = u
  BY DEF LocksExclude
<1> DEFINE n == LockFor(Head(run[t].pc))
<1>2. n \in prog.owned /\ Holder(run[t], n) /\ Holder(run[u], n)
  BY <1>1, HasTheLock DEF Holder
<1> HIDE DEF n
<1>3. Running
  BY <1>1 DEF PlainInv, BootOK
<1>4. obj[n] # Null
  BY <1>2, <1>3, GuardedIs, DeclaredHandle, NullIsNone
<1>5. TokenOK(n)
  BY <1>2, <1>4 DEF LocksOK
<1> QED
  BY <1>2, <1>5 DEF TokenOK

-----------------------------------------------------------------------------
(* Whatever the tasks, their number and their calls, in a program that is  *)
(* plain and whose locks are its own.                                      *)

LEMMA NextKeepsLocks ==
  ASSUME PlainInv, LocksOK, Guarded(prog), [Next]_vars
  PROVE  LocksOK'
<1>1. CASE Boot
  BY <1>1, BootKeeps
<1>2. CASE Works
  BY <1>2, WorksKeeps
<1>3. CASE UNCHANGED vars
  <2>1. /\ \A n : OneHandle(n)' <=> OneHandle(n)
        /\ \A n : TokenOK(n)' <=> TokenOK(n)
    BY <1>3 DEF vars, OneHandle, TokenOK
  <2> QED
    BY <1>3, <2>1 DEF vars, LocksOK, Running
<1> QED
  BY <1>1, <1>2, <1>3 DEF Next

-----------------------------------------------------------------------------
(* Remainders.                                                             *)

LEMMA Quotient ==
  ASSUME NEW x \in Int, NEW m \in Nat \ {0}
  PROVE  x = m * (x \div m) + (x % m) /\ x \div m \in Int /\ x % m \in 0 .. m - 1
  OBVIOUS

LEMMA Multiples ==
  ASSUME NEW d \in Int, NEW m \in Nat \ {0}
  PROVE  (d >= 1 => m * d >= m) /\ (d <= -1 => m * d <= -m)
  OBVIOUS

LEMMA RestIs ==
  ASSUME NEW m \in Nat \ {0}, NEW q \in Int, NEW r \in 0 .. m - 1
  PROVE  (m * q + r) % m = r
<1> DEFINE x == m * q + r
           p == x \div m
           s == x % m
<1>1. x \in Int /\ p \in Int /\ s \in 0 .. m - 1 /\ x = m * p + s
  BY Quotient
<1> HIDE DEF p, s
<1>2. m * (q - p) = s - r
  BY <1>1
<1>3. q - p = 0
  <2>1. CASE q - p >= 1
    BY <2>1, <1>1, <1>2, Multiples
  <2>2. CASE q - p <= -1
    BY <2>2, <1>1, <1>2, Multiples
  <2> QED
    BY <2>1, <2>2, <1>1
<1> QED
  BY <1>1, <1>2, <1>3 DEF s

LEMMA RestOfSum ==
  ASSUME NEW x \in Int, NEW y \in Int, NEW m \in Nat \ {0}
  PROVE  /\ ((x % m) + y) % m = (x + y) % m
         /\ (y - (x % m)) % m = (y - x) % m
<1> DEFINE q == x \div m
           r == x % m
<1>1. x = m * q + r /\ q \in Int /\ r \in Int
  BY Quotient
<1> HIDE DEF q, r
<1>2. \A z \in Int : \A d \in Int : (m * d + z) % m = z % m
  <2> TAKE z \in Int, d \in Int
  <2> DEFINE c == z \div m
             s == z % m
  <2>1. z = m * c + s /\ c \in Int /\ s \in 0 .. m - 1
    BY Quotient
  <2>2. s = z % m
    OBVIOUS
  <2> HIDE DEF c, s
  <2>3. m * d + z = m * (d + c) + s /\ d + c \in Int
    BY <2>1
  <2>4. (m * (d + c) + s) % m = s
    BY <2>1, <2>3, RestIs
  <2> QED
    BY <2>2, <2>3, <2>4
<1>3. (m * q + (r + y)) % m = (r + y) % m
  <2> DEFINE z == r + y
  <2>1. z \in Int
    BY <1>1
  <2> HIDE DEF z
  <2>2. (m * q + z) % m = z % m
    BY <1>1, <1>2, <2>1
  <2> QED
    BY <2>2 DEF z
<1>4. (m * (-q) + (y - r)) % m = (y - r) % m
  <2> DEFINE d == -q
  <2>1. d \in Int /\ y - r \in Int
    BY <1>1
  <2> QED
    BY <1>2, <2>1
<1>5. m * q + (r + y) = x + y /\ m * (-q) + (y - r) = y - x
  BY <1>1
<1> QED
  BY <1>3, <1>4, <1>5 DEF r

LEMMA SmallRest ==
  ASSUME NEW m \in Nat \ {0}, NEW x \in 0 .. m - 1
  PROVE  x % m = x
  OBVIOUS

-----------------------------------------------------------------------------
(* Offsets and rings.                                                      *)

LEMMA OffsetsAre ==
  /\ BufLen \in Nat \ {0} /\ BufLen \in Int /\ Offset \subseteq Int
  /\ \A i \in Offset : i % BufLen = i /\ i \in Nat /\ i < BufLen
  /\ \A x \in Int : x % BufLen \in Offset /\ (0 <= x /\ x < BufLen => x \in Offset)
  BY UartAssumption, SmallRest DEF Offset

LEMMA OffsetInt == \A i \in Offset : i \in Int
  BY DEF Offset

LEMMA LaterLater ==
  ASSUME NEW i \in Int, NEW a \in Int, NEW b \in Int
  PROVE  Later(Later(i, a), b) = Later(i, a + b)
<1>1. i + a \in Int /\ BufLen \in Nat \ {0}
  BY OffsetsAre
<1>2. (((i + a) % BufLen) + b) % BufLen = ((i + a) + b) % BufLen
  BY <1>1, RestOfSum
<1>3. (i + a) + b = i + (a + b)
  OBVIOUS
<1> QED
  BY <1>2, <1>3 DEF Later

LEMMA Distance ==
  ASSUME NEW out \in Int, NEW a \in Offset
  PROVE  (Later(out, a) - out) % BufLen = a
<1>1. out + a \in Int /\ BufLen \in Nat \ {0} /\ -out \in Int /\ a \in Int
  BY OffsetsAre
<1>2. (((out + a) % BufLen) + (-out)) % BufLen = ((out + a) + (-out)) % BufLen
  BY <1>1, RestOfSum
<1>3. (out + a) + (-out) = a /\ a % BufLen = a /\ (out + a) % BufLen \in Int
  BY <1>1, OffsetsAre
<1>4. ((out + a) % BufLen) + (-out) = ((out + a) % BufLen) - out
  BY <1>1, <1>3
<1> QED
  BY <1>2, <1>3, <1>4 DEF Later

LEMMA Reached ==
  ASSUME NEW in \in Offset, NEW out \in Offset
  PROVE  Later(out, (in - out) % BufLen) = in
<1>1. in \in Int /\ out \in Int /\ in - out \in Int /\ BufLen \in Nat \ {0}
  BY OffsetsAre
<1>2. (((in - out) % BufLen) + out) % BufLen = ((in - out) + out) % BufLen
  BY <1>1, RestOfSum
<1>3. (in - out) + out = in /\ in % BufLen = in /\ (in - out) % BufLen \in Int
  BY <1>1, OffsetsAre
<1>4. ((in - out) % BufLen) + out = out + ((in - out) % BufLen)
  BY <1>1, <1>3
<1> QED
  BY <1>2, <1>3, <1>4 DEF Later

(* How many characters are in the ring after n have come or gone.          *)
LEMMA Lengths ==
  ASSUME NEW in \in Offset, NEW out \in Offset, NEW n \in Int
  PROVE  LET L == (in - out) % BufLen IN
         /\ L \in Offset
         /\ L + n \in Offset => (Later(in, n) - out) % BufLen = L + n
         /\ L - n \in Offset => (in - Later(out, n)) % BufLen = L - n
<1> DEFINE L == (in - out) % BufLen
<1>1. in \in Int /\ out \in Int /\ in - out \in Int /\ BufLen \in Nat \ {0} /\ L \in Offset /\ L \in Int
      /\ -n \in Int /\ -out \in Int /\ in + n \in Int /\ out + n \in Int
  BY OffsetsAre
<1>2. (L + n) % BufLen = ((in - out) + n) % BufLen /\ (L + (-n)) % BufLen = ((in - out) + (-n)) % BufLen
  BY <1>1, RestOfSum
<1>3. (((in + n) % BufLen) + (-out)) % BufLen = ((in + n) + (-out)) % BufLen
  BY <1>1, RestOfSum
<1>4. (in - ((out + n) % BufLen)) % BufLen = (in - (out + n)) % BufLen
  BY <1>1, RestOfSum
<1>5. /\ (in + n) + (-out) = (in - out) + n /\ in - (out + n) = (in - out) + (-n)
      /\ L + (-n) = L - n
  BY <1>1
<1>6. (in + n) % BufLen \in Int /\ ((in + n) % BufLen) + (-out) = ((in + n) % BufLen) - out
  BY <1>1, OffsetsAre
<1>7. /\ L + n \in Offset => (L + n) % BufLen = L + n
      /\ L - n \in Offset => (L - n) % BufLen = L - n
  BY OffsetsAre
<1> HIDE DEF L
<1> QED
  BY <1>1, <1>2, <1>3, <1>4, <1>5, <1>6, <1>7 DEF Later, L

(* r is the ring with the L characters of buf from offset out on.          *)
RingOf(S, buf, out, r, L) ==
    /\ r \in Seq(S) /\ Len(r) = L /\ L \in Offset /\ L \in Nat
    /\ \A i \in 1 .. L : r[i] = buf[Later(out, i - 1)] /\ Later(out, i - 1) \in Offset

LEMMA RingHas ==
  ASSUME NEW S, NEW buf \in [Offset -> S], NEW out \in Offset, NEW in \in Offset
  PROVE  RingOf(S, buf, out, Ring(buf, out, in), (in - out) % BufLen)
<1> DEFINE L == (in - out) % BufLen
<1>1. in \in Int /\ out \in Int /\ in - out \in Int
  BY OffsetsAre
<1>2. L \in Offset /\ L \in Nat
  BY <1>1, OffsetsAre
<1>3. Ring(buf, out, in) = [i \in 1 .. L |-> buf[Later(out, i - 1)]]
  BY DEF Ring
<1>4. Ring(buf, out, in) \in Seq(S)
  BY RingIs
<1> HIDE DEF L
<1>5. \A i \in 1 .. L : Later(out, i - 1) \in Offset
  BY <1>1, <1>2, LaterIs
<1>6. Len(Ring(buf, out, in)) = L
  BY <1>2, <1>3
<1>7. RingOf(S, buf, out, Ring(buf, out, in), L)
  BY <1>2, <1>3, <1>4, <1>5, <1>6 DEF RingOf
<1> QED
  BY <1>7 DEF L

(* The numbers that are typed.                                             *)
Numbers == Int

(* Reading n characters leaves the others.                                 *)
LEMMA RingShrinks ==
  ASSUME NEW S, NEW buf \in [Offset -> S], NEW out \in Offset, NEW in \in Offset,
         NEW n \in Nat, n <= (in - out) % BufLen
  PROVE  LET r == Ring(buf, out, in) IN
         /\ Ring(buf, Later(out, n), in) = SubSeq(r, n + 1, Len(r))
         /\ Len(Ring(buf, Later(out, n), in)) = Len(r) - n
<1> DEFINE L == (in - out) % BufLen
           r == Ring(buf, out, in)
           q == Ring(buf, Later(out, n), in)
<1>0. RingOf(S, buf, out, r, L)
  BY RingHas
<1>1. /\ r \in Seq(S) /\ Len(r) = L /\ L \in Offset /\ L \in Nat
      /\ \A i \in 1 .. L : r[i] = buf[Later(out, i - 1)]
  <2> HIDE DEF r, L
  <2> QED
    BY <1>0 DEF RingOf
<1>2. out \in Int /\ n \in Nat /\ n <= L /\ L < BufLen /\ BufLen \in Nat
  <2>1. L \in Nat /\ n \in 0 .. L
    BY <1>1
  <2> HIDE DEF L
  <2> QED
    BY <1>1, <2>1, OffsetsAre
<1>3. L - n \in Offset /\ Later(out, n) \in Offset
  <2> HIDE DEF L
  <2>1. L - n \in Int /\ 0 <= L - n /\ L - n < BufLen
    BY <1>1, <1>2
  <2>2. L - n \in Offset
    BY <2>1, OffsetsAre
  <2>3. Later(out, n) \in Offset
    BY <1>2, LaterIs
  <2> QED
    BY <2>2, <2>3
<1>4. (in - Later(out, n)) % BufLen = L - n
  <2>1. n \in Int
    BY <1>2
  <2> QED
    BY <1>3, <2>1, Lengths
<1>5. /\ q \in Seq(S) /\ Len(q) = L - n
      /\ \A i \in 1 .. L - n : q[i] = buf[Later(Later(out, n), i - 1)]
  <2>1. RingOf(S, buf, Later(out, n), q, (in - Later(out, n)) % BufLen)
    BY <1>3, RingHas
  <2> HIDE DEF q, L
  <2> QED
    BY <1>4, <2>1 DEF RingOf
<1> HIDE DEF L, r, q
<1>6. \A i \in 1 .. L - n : q[i] = r[n + i]
  <2> TAKE i \in 1 .. L - n
  <2>1. i \in Int /\ i - 1 \in Int /\ n + i \in 1 .. L /\ n + (i - 1) = (n + i) - 1 /\ n \in Int
    BY <1>1, <1>2
  <2>2. Later(Later(out, n), i - 1) = Later(out, n + (i - 1))
    BY <1>2, <2>1, LaterLater
  <2> QED
    BY <1>1, <1>5, <2>1, <2>2
<1>7. /\ SubSeq(r, n + 1, L) \in Seq(S) /\ Len(SubSeq(r, n + 1, L)) = L - n
      /\ \A i \in 1 .. L - n : SubSeq(r, n + 1, L)[i] = r[n + i]
  BY <1>1, <1>2
<1>8. q = SubSeq(r, n + 1, L)
  BY <1>5, <1>6, <1>7, SameSequence
<1> QED
  BY <1>1, <1>5, <1>8 DEF q, r

LEMMA Joined ==
  ASSUME NEW S, NEW s \in Seq(S), NEW c \in Seq(S), NEW m, m = Len(s), NEW n, n = Len(c)
  PROVE  /\ s \o c \in Seq(S) /\ Len(s \o c) = m + n
         /\ \A i \in 1 .. m : (s \o c)[i] = s[i]
         /\ \A i \in 1 .. n : (s \o c)[m + i] = c[i]
  OBVIOUS

LEMMA Associates ==
  ASSUME NEW S, NEW a \in Seq(S), NEW b \in Seq(S), NEW c \in Seq(S)
  PROVE  (a \o b) \o c = a \o (b \o c)
  OBVIOUS

(* Writing appends what is written, while there is room.                   *)
Room(in, out, n) == ((in - out) % BufLen) + n \in Offset
Written(buf, new, in, chars) ==
    /\ \A j \in 0 .. Len(chars) - 1 : new[Later(in, j)] = chars[j + 1]
    /\ \A i \in Offset :
         (\A j \in 0 .. Len(chars) - 1 : i # Later(in, j)) => new[i] = buf[i]

LEMMA RingGrows ==
  ASSUME NEW S, NEW chars \in Seq(S), NEW buf \in [Offset -> S], NEW new \in [Offset -> S],
         NEW out \in Offset, NEW in \in Offset,
         Room(in, out, Len(chars)), Written(buf, new, in, chars)
  PROVE  Ring(new, out, Later(in, Len(chars))) = Ring(buf, out, in) \o chars
<1> DEFINE L == (in - out) % BufLen
           n == Len(chars)
           r == Ring(buf, out, in)
           q == Ring(new, out, Later(in, n))
<1>0. RingOf(S, buf, out, r, L)
  BY RingHas
<1>1. /\ r \in Seq(S) /\ Len(r) = L /\ L \in Offset /\ L \in Nat
      /\ \A i \in 1 .. L : r[i] = buf[Later(out, i - 1)]
  <2> HIDE DEF r, L
  <2> QED
    BY <1>0 DEF RingOf
<1>2. out \in Int /\ n \in Nat /\ n \in Int /\ in \in Int
  BY OffsetsAre
<1>3. L + n \in Offset /\ Later(in, n) \in Offset
  BY <1>2, LaterIs DEF Room
<1>4. (Later(in, n) - out) % BufLen = L + n
  BY <1>2, <1>3, Lengths
<1>5. /\ q \in Seq(S) /\ Len(q) = L + n
      /\ \A i \in 1 .. L + n : q[i] = new[Later(out, i - 1)]
  <2>1. RingOf(S, new, out, q, (Later(in, n) - out) % BufLen)
    BY <1>3, RingHas
  <2> HIDE DEF q, L, n
  <2> QED
    BY <1>4, <2>1 DEF RingOf
<1>6. Later(out, L) = in
  BY Reached
<1> HIDE DEF L, r, q
<1>7. ASSUME NEW j \in Int PROVE Later(in, j) = Later(out, L + j)
  BY <1>1, <1>2, <1>6, <1>7, LaterLater
<1>8. ASSUME NEW i \in 1 .. L PROVE q[i] = r[i]
  <2> DEFINE p == Later(out, i - 1)
  <2>1. i - 1 \in Int /\ i \in 1 .. L + n /\ i - 1 < L /\ 0 <= i - 1
    BY <1>1, <1>2, <1>8
  <2>2. i - 1 \in Offset
    BY <1>1, <2>1, OffsetsAre
  <2>3. p \in Offset /\ (p - out) % BufLen = i - 1
    BY <1>2, <2>1, <2>2, LaterIs, Distance
  <2>4. ASSUME NEW j \in 0 .. n - 1 PROVE p # Later(in, j)
    <3>1. j \in Int /\ L + j \in Int /\ 0 <= L + j /\ L + j < L + n /\ L + j # i - 1
      BY <1>1, <1>2, <2>1, <2>4
    <3>2. L + j \in Offset
      BY <1>1, <1>2, <1>3, <3>1, OffsetsAre
    <3>3. (Later(in, j) - out) % BufLen = L + j
      BY <1>2, <1>7, <3>1, <3>2, Distance
    <3> QED
      BY <2>3, <3>1, <3>3
  <2>5. new[p] = buf[p]
    BY <2>3, <2>4 DEF Written
  <2> QED
    BY <1>1, <1>5, <2>1, <2>5
<1>9. ASSUME NEW i \in 1 .. n PROVE q[L + i] = chars[i]
  <2>1. i - 1 \in 0 .. n - 1 /\ (i - 1) + 1 = i /\ i - 1 \in Int /\ L + i \in 1 .. L + n
        /\ (L + i) - 1 = L + (i - 1)
    BY <1>1, <1>2, <1>9
  <2>2. Later(in, i - 1) = Later(out, L + (i - 1))
    BY <1>7, <2>1
  <2> QED
    BY <1>5, <2>1, <2>2 DEF Written
<1>10. /\ r \o chars \in Seq(S) /\ Len(r \o chars) = L + n
       /\ \A i \in 1 .. L : (r \o chars)[i] = r[i]
       /\ \A i \in 1 .. n : (r \o chars)[L + i] = chars[i]
  <2>1. r \in Seq(S) /\ chars \in Seq(S) /\ Len(r) = L
    BY <1>1
  <2> HIDE DEF n
  <2>2. Len(chars) = n
    BY DEF n
  <2> QED
    BY <2>1, <2>2, Joined
<1>11. ASSUME NEW i \in 1 .. L + n PROVE q[i] = (r \o chars)[i]
  <2>1. CASE i <= L
    BY <1>1, <1>8, <1>10, <2>1
  <2>2. CASE i > L
    <3>1. i - L \in 1 .. n /\ L + (i - L) = i
      BY <1>1, <1>2, <2>2
    <3> QED
      BY <1>9, <1>10, <3>1
  <2> QED
    BY <1>1, <1>2, <2>1, <2>2
<1>12. q = r \o chars
  BY <1>5, <1>10, <1>11, SameSequence
<1> QED
  BY <1>12 DEF q, r
-----------------------------------------------------------------------------
(* What the handler of the UART, the alarm and the host do to the rings.   *)

LEMMA Cut ==
  ASSUME NEW S, NEW s \in Seq(S), NEW n \in 0 .. Len(s)
  PROVE  /\ SubSeq(s, 1, n) \in Seq(S) /\ Len(SubSeq(s, 1, n)) = n
         /\ \A i \in 1 .. n : SubSeq(s, 1, n)[i] = s[i]
         /\ SubSeq(s, n + 1, Len(s)) \in Seq(S)
         /\ Len(SubSeq(s, n + 1, Len(s))) = Len(s) - n
         /\ \A i \in 1 .. Len(s) - n : SubSeq(s, n + 1, Len(s))[i] = s[n + i]
         /\ SubSeq(s, 1, n) \o SubSeq(s, n + 1, Len(s)) = s
<1> DEFINE a == SubSeq(s, 1, n)
           b == SubSeq(s, n + 1, Len(s))
<1>1. a \in Seq(S) /\ Len(a) = n /\ \A i \in 1 .. n : a[i] = s[i]
  OBVIOUS
<1>2. b \in Seq(S) /\ Len(b) = Len(s) - n /\ \A i \in 1 .. Len(s) - n : b[i] = s[n + i]
  OBVIOUS
<1> HIDE DEF a, b
<1>3. a \o b \in Seq(S) /\ Len(a \o b) = Len(s)
  BY <1>1, <1>2
<1>4. \A i \in 1 .. Len(s) : (a \o b)[i] = s[i]
  <2> TAKE i \in 1 .. Len(s)
  <2>1. CASE i <= n
    BY <1>1, <1>2, <2>1
  <2>2. CASE i > n
    <3>1. i - n \in 1 .. Len(s) - n /\ n + (i - n) = i /\ (a \o b)[i] = b[i - n]
      BY <1>1, <1>2, <2>2
    <3> QED
      BY <1>2, <3>1
  <2>3. i <= n \/ i > n
    <3>1. Len(s) \in Nat
      OBVIOUS
    <3> QED
      BY <3>1
  <2> QED
    BY <2>1, <2>2, <2>3
<1>5. a \o b = s
  BY <1>3, <1>4, SameSequence
<1> QED
  BY <1>1, <1>2, <1>5 DEF a, b

LEMMA RingsAre ==
  ASSUME NEW u, UartFits(u)
  PROVE  /\ RingOf(Int, u.rx, u.rxOut, Received(u), (u.rxIn - u.rxOut) % BufLen)
         /\ RingOf(Char, u.tx, u.txOut, Unsent(u), (u.txIn - u.txOut) % BufLen)
         /\ Received(u) \in Seq(Int) /\ Unsent(u) \in Seq(Char)
         /\ Len(Received(u)) \in Nat /\ Len(Received(u)) < BufLen
         /\ Len(Unsent(u)) \in Nat /\ Len(Unsent(u)) < BufLen
         /\ u.rxFifo \in Seq(Int) /\ u.txFifo \in Seq(Char)
         /\ u.shown \in Char /\ << u.shown >> \in Seq(Char) /\ u.typed \in Int
         /\ u.rx \in [Offset -> Int] /\ u.tx \in [Offset -> Char]
         /\ u.rxIn \in Offset /\ u.rxOut \in Offset /\ u.txIn \in Offset /\ u.txOut \in Offset
<1>1. /\ u.rx \in [Offset -> Int] /\ u.tx \in [Offset -> Char]
      /\ u.rxIn \in Offset /\ u.rxOut \in Offset /\ u.txIn \in Offset /\ u.txOut \in Offset
      /\ u.rxFifo \in Seq(Int) /\ u.txFifo \in Seq(Char) /\ u.shown \in Char /\ u.typed \in Int
  BY DEF UartFits, UartType
<1>2. RingOf(Int, u.rx, u.rxOut, Received(u), (u.rxIn - u.rxOut) % BufLen)
  BY <1>1, RingHas DEF Received
<1>3. RingOf(Char, u.tx, u.txOut, Unsent(u), (u.txIn - u.txOut) % BufLen)
  BY <1>1, RingHas DEF Unsent
<1>4. << u.shown >> \in Seq(Char)
  BY <1>1
<1> QED
  BY <1>1, <1>2, <1>3, <1>4, OffsetsAre DEF RingOf

(* The unread characters are the same, more of them in the ring; and the   *)
(* written ones the same, fewer in the ring.                               *)
Fills(u, v) ==
    /\ v.rxOut = u.rxOut /\ v.typed = u.typed /\ Unread(v) = Unread(u)
    /\ Len(Received(u)) <= Len(Received(v))
Drains(u, v) ==
    /\ v.txIn = u.txIn /\ Sent(v) = Sent(u) /\ Len(Unsent(v)) <= Len(Unsent(u))

LEMMA SameFills ==
  ASSUME NEW u, UartFits(u), NEW v
  PROVE  /\ /\ v.rx = u.rx /\ v.rxIn = u.rxIn /\ v.rxOut = u.rxOut /\ v.rxFifo = u.rxFifo
            /\ v.typed = u.typed
            => Fills(u, v)
         /\ /\ v.tx = u.tx /\ v.txIn = u.txIn /\ v.txOut = u.txOut /\ v.txFifo = u.txFifo
            /\ v.shown = u.shown
            => Drains(u, v)
<1>1. Len(Received(u)) <= Len(Received(u)) /\ Len(Unsent(u)) <= Len(Unsent(u))
  BY RingsAre
<1> QED
  BY <1>1 DEF Fills, Drains, Received, Unsent, Sent, Unread

LEMMA IrqReadFills ==
  ASSUME NEW u, UartFits(u)
  PROVE  Fills(u, IrqRead(u)) /\ Drains(u, IrqRead(u))
<1> DEFINE f == u.rxFifo
           L == Len(Received(u))
           n == AtMost(Len(f), BufLen - 1 - L)
           chars == SubSeq(f, 1, n)
           left == SubSeq(f, n + 1, Len(f))
           rx == [i \in 0 .. BufLen - 1 |->
                    IF (i - u.rxIn) % BufLen < n
                    THEN f[((i - u.rxIn) % BufLen) + 1] ELSE u.rx[i]]
           v == IrqRead(u)
<1>1. /\ Received(u) \in Seq(Int) /\ L \in Nat /\ L < BufLen /\ f \in Seq(Int)
      /\ u.rx \in [Offset -> Int] /\ u.rxIn \in Offset /\ u.rxOut \in Offset
      /\ u.rxIn \in Int
  BY RingsAre, OffsetsAre
<1>0. L = (u.rxIn - u.rxOut) % BufLen
  BY RingsAre DEF RingOf
<1>2. n \in 0 .. Len(f) /\ L + n < BufLen /\ Len(f) \in Nat /\ BufLen \in Nat
  <2> HIDE DEF L, f
  <2>1. Len(f) \in Nat /\ BufLen \in Nat /\ L \in Nat /\ BufLen - 1 - L \in Nat
    BY <1>1, OffsetsAre
  <2>2. n \in 0 .. Len(f) /\ n <= BufLen - 1 - L
    BY <2>1, AtMostIs
  <2> HIDE DEF n
  <2> QED
    BY <2>1, <2>2
<1>3. UartFits(v)
  BY IrqReadFits
<1>4. /\ v.rx = rx /\ v.rxIn = Later(u.rxIn, n) /\ v.rxFifo = left
      /\ v.rxOut = u.rxOut /\ v.typed = u.typed
      /\ v.tx = u.tx /\ v.txIn = u.txIn /\ v.txOut = u.txOut /\ v.txFifo = u.txFifo
      /\ v.shown = u.shown
  BY DEF IrqRead, UartFits, UartType
<1> HIDE DEF n, L, f
<1>5. /\ chars \in Seq(Int) /\ Len(chars) = n /\ left \in Seq(Int) /\ chars \o left = f
      /\ \A j \in 1 .. n : chars[j] = f[j]
  BY <1>1, <1>2, Cut
<1>6. rx \in [Offset -> Int]
  BY <1>3, <1>4 DEF UartFits, UartType
<1>7. ASSUME NEW j \in 0 .. n - 1
      PROVE  Later(u.rxIn, j) \in Offset /\ (Later(u.rxIn, j) - u.rxIn) % BufLen = j /\ j \in Int
  <2>1. j \in Int /\ 0 <= j /\ j < BufLen
    BY <1>1, <1>2
  <2>2. j \in Offset
    BY <2>1, OffsetsAre
  <2>3. u.rxIn \in Int
    BY <1>1, OffsetsAre
  <2> QED
    BY <2>1, <2>2, <2>3, Distance, LaterIs
<1>8. \A j \in 0 .. Len(chars) - 1 : rx[Later(u.rxIn, j)] = chars[j + 1]
  <2> TAKE j \in 0 .. Len(chars) - 1
  <2>1. j \in 0 .. n - 1 /\ j < n /\ j + 1 \in 1 .. n
    BY <1>2, <1>5
  <2>2. rx[Later(u.rxIn, j)] = f[j + 1]
    BY <1>7, <2>1 DEF Offset
  <2> QED
    BY <1>5, <2>1, <2>2
<1>9. ASSUME NEW i \in Offset, \A j \in 0 .. Len(chars) - 1 : i # Later(u.rxIn, j)
      PROVE  rx[i] = u.rx[i]
  <2> DEFINE j == (i - u.rxIn) % BufLen
  <2>1. i - u.rxIn \in Int
    <3> HIDE DEF j, rx, left, chars, v
    <3> QED
      BY <1>1, <1>9, OffsetInt
  <2>4. j \in Offset /\ j \in Nat
    BY <2>1, OffsetsAre
  <2>2. Later(u.rxIn, j) = i
    BY <1>1, Reached
  <2> HIDE DEF j
  <2>3. ~(j < n)
    BY <1>2, <1>5, <1>9, <2>2, <2>4
  <2> QED
    BY <2>3 DEF j, Offset
<1> HIDE DEF chars, left, rx
<1>10. L + n \in Offset
  BY <1>1, <1>2, OffsetsAre
<1>11. Ring(rx, u.rxOut, Later(u.rxIn, Len(chars))) = Ring(u.rx, u.rxOut, u.rxIn) \o chars
  <2>1. Room(u.rxIn, u.rxOut, Len(chars))
    BY <1>0, <1>5, <1>10 DEF Room
  <2>2. Written(u.rx, rx, u.rxIn, chars)
    BY <1>8, <1>9 DEF Written
  <2> QED
    <3>1. /\ u.rx \in [Offset -> Int] /\ u.rxIn \in Offset /\ u.rxOut \in Offset
          /\ chars \in Seq(Int)
      BY <1>1, <1>5
    <3> QED
      BY <1>6, <2>1, <2>2, <3>1, RingGrows
<1>12. Received(v) = Received(u) \o chars
  BY <1>4, <1>5, <1>11 DEF Received
<1> HIDE DEF v
<1>13. Unread(v) = Unread(u)
  <2>0. Received(u) \in Seq(Int) /\ chars \in Seq(Int) /\ left \in Seq(Int)
    BY <1>1, <1>5
  <2>1. (Received(u) \o chars) \o left = Received(u) \o (chars \o left)
    BY <2>0, Associates
  <2> QED
    BY <1>4, <1>5, <1>12, <2>1 DEF Unread, f
<1>14. Len(Received(u)) <= Len(Received(v))
  BY <1>1, <1>2, <1>5, <1>12 DEF L
<1>15. Drains(u, v)
  BY <1>4, SameFills
<1> QED
  BY <1>4, <1>13, <1>14, <1>15 DEF Fills, v

LEMMA IrqWriteDrains ==
  ASSUME NEW u, UartFits(u)
  PROVE  Fills(u, IrqWrite(u)) /\ Drains(u, IrqWrite(u))
<1> DEFINE f == u.txFifo
           r == Unsent(u)
           n == AtMost(Len(r), FifoLen - Len(f))
           more == SubSeq(r, 1, n)
           left == SubSeq(r, n + 1, Len(r))
           v == IrqWrite(u)
<1>1. /\ r \in Seq(Char) /\ Len(r) \in Nat /\ f \in Seq(Char) /\ << u.shown >> \in Seq(Char)
      /\ u.tx \in [Offset -> Char] /\ u.txIn \in Offset /\ u.txOut \in Offset
  BY RingsAre
<1>0. Len(r) = (u.txIn - u.txOut) % BufLen
  BY RingsAre DEF RingOf
<1>2. n \in 0 .. Len(r) /\ n \in Nat /\ n <= Len(r)
  <2>1. Len(r) \in Nat /\ FifoLen - Len(f) \in Nat
    BY <1>1, UartAssumption DEF UartFits
  <2> HIDE DEF r, f
  <2>2. n \in 0 .. Len(r)
    BY <2>1, AtMostIs
  <2> HIDE DEF n
  <2> QED
    BY <2>1, <2>2
<1>3. /\ v.txFifo = f \o more /\ v.txOut = Later(u.txOut, n)
      /\ v.tx = u.tx /\ v.txIn = u.txIn /\ v.shown = u.shown
      /\ v.rx = u.rx /\ v.rxIn = u.rxIn /\ v.rxOut = u.rxOut /\ v.rxFifo = u.rxFifo
      /\ v.typed = u.typed
  BY DEF IrqWrite, UartFits, UartType
<1> HIDE DEF n, v
<1>4. more \in Seq(Char) /\ left \in Seq(Char) /\ more \o left = r
  BY <1>1, <1>2, Cut
<1>5. /\ Ring(u.tx, Later(u.txOut, n), u.txIn) = left
      /\ Len(Ring(u.tx, Later(u.txOut, n), u.txIn)) = Len(r) - n
  <2>1. n <= (u.txIn - u.txOut) % BufLen
    BY <1>0, <1>2
  <2> QED
    BY <1>1, <1>2, <2>1, RingShrinks DEF Unsent
<1>6. Unsent(v) = left /\ Len(Unsent(v)) = Len(r) - n
  BY <1>3, <1>5 DEF Unsent
<1> HIDE DEF f, r, more, left
<1>7. (<< u.shown >> \o (f \o more)) \o left = (<< u.shown >> \o f) \o r
  <2>1. << u.shown >> \o (f \o more) = (<< u.shown >> \o f) \o more
    BY <1>1, <1>4
  <2>2. << u.shown >> \o f \in Seq(Char)
    BY <1>1
  <2>4. more \in Seq(Char) /\ left \in Seq(Char)
    BY <1>4
  <2>3. ((<< u.shown >> \o f) \o more) \o left = (<< u.shown >> \o f) \o (more \o left)
    BY <2>2, <2>4, Associates
  <2> QED
    BY <1>4, <2>1, <2>3
<1>8. Sent(v) = Sent(u)
  BY <1>3, <1>6, <1>7 DEF Sent, f, r
<1>9. Len(Unsent(v)) <= Len(Unsent(u))
  BY <1>1, <1>2, <1>6 DEF r
<1>10. Fills(u, v)
  BY <1>3, SameFills
<1> QED
  BY <1>3, <1>8, <1>9, <1>10 DEF Drains, v

Moves(u, v) == Fills(u, v) /\ Drains(u, v)

SameRings(u, v) ==
    /\ v.rx = u.rx /\ v.rxIn = u.rxIn /\ v.rxOut = u.rxOut /\ v.rxFifo = u.rxFifo
    /\ v.tx = u.tx /\ v.txIn = u.txIn /\ v.txOut = u.txOut /\ v.txFifo = u.txFifo
    /\ v.typed = u.typed /\ v.shown = u.shown

LEMMA MovesOn ==
  ASSUME NEW u, UartFits(u), NEW v, UartFits(v), NEW w, UartFits(w), Moves(u, v), Moves(v, w)
  PROVE  Moves(u, w)
<1>1. /\ Len(Received(u)) \in Nat /\ Len(Received(v)) \in Nat /\ Len(Received(w)) \in Nat
      /\ Len(Unsent(u)) \in Nat /\ Len(Unsent(v)) \in Nat /\ Len(Unsent(w)) \in Nat
  BY RingsAre
<1>2. /\ Len(Received(u)) <= Len(Received(v)) /\ Len(Received(v)) <= Len(Received(w))
      /\ Len(Unsent(w)) <= Len(Unsent(v)) /\ Len(Unsent(v)) <= Len(Unsent(u))
  BY DEF Moves, Fills, Drains
<1>3. Len(Received(u)) <= Len(Received(w)) /\ Len(Unsent(w)) <= Len(Unsent(u))
  BY <1>1, <1>2
<1> QED
  BY <1>3 DEF Moves, Fills, Drains

LEMMA DriverMoves ==
  ASSUME NEW u, UartFits(u)
  PROVE  /\ Moves(u, u) /\ Moves(u, Irq(u)) /\ Moves(u, Timeout(u))
         /\ Moves(u, EnableRead(u)) /\ Moves(u, EnableWrite(u))
         /\ \A seconds : Moves(u, SetTimeout(u, seconds))
<1>1. ASSUME NEW v, SameRings(u, v) PROVE Moves(u, v)
  BY <1>1, SameFills DEF Moves, SameRings
<1>2. Moves(u, u)
  BY <1>1 DEF SameRings
<1>3. Moves(u, Irq(u))
  <2> DEFINE v == IF ReadPending(u) THEN IrqRead(u) ELSE u
  <2>1. UartFits(v) /\ Moves(u, v)
    BY <1>2, IrqReadFits, IrqReadFills DEF Moves
  <2>2. Irq(u) = IF WritePending(v) THEN IrqWrite(v) ELSE v
    BY DEF Irq
  <2> HIDE DEF v
  <2>3. UartFits(IrqWrite(v)) /\ Moves(v, IrqWrite(v))
    BY <2>1, IrqWriteFits, IrqWriteDrains DEF Moves
  <2>4. Moves(u, IrqWrite(v))
    BY <2>1, <2>3, MovesOn
  <2> QED
    BY <2>1, <2>2, <2>4
<1>4. Moves(u, Timeout(u))
  <2>1. SameRings(u, Timeout(u))
    BY DEF Timeout, UartFits, UartType, SameRings
  <2> QED
    BY <1>1, <2>1
<1>5. Moves(u, EnableRead(u)) /\ Moves(u, EnableWrite(u))
  <2>1. SameRings(u, EnableRead(u)) /\ SameRings(u, EnableWrite(u))
    BY DEF EnableRead, EnableWrite, UartFits, UartType, SameRings
  <2> QED
    BY <1>1, <2>1
<1>6. \A seconds : Moves(u, SetTimeout(u, seconds))
  <2>1. \A seconds : SameRings(u, SetTimeout(u, seconds))
    BY DEF SetTimeout, UartFits, UartType, SameRings
  <2> QED
    BY <1>1, <2>1
<1> QED
  BY <1>2, <1>3, <1>4, <1>5, <1>6

(* So they leave the order, and what a call has looked at.                 *)
LEMMA MovesKeep ==
  ASSUME NEW u, UartFits(u), NEW v, UartFits(v), Moves(u, v)
  PROVE  /\ InOrder(u) => InOrder(v)
         /\ \A me, t : IoOK(me.io) /\ CallInOrder(u, me, t) => CallInOrder(v, me, t)
<1>1. /\ Sent(v) = Sent(u) /\ Unread(v) = Unread(u) /\ v.typed = u.typed
      /\ v.rxOut = u.rxOut /\ v.txIn = u.txIn /\ Newest(v) = Newest(u)
      /\ Len(Received(u)) <= Len(Received(v)) /\ Len(Unsent(v)) <= Len(Unsent(u))
  BY DEF Moves, Fills, Drains, Newest
<1>2. /\ Len(Received(u)) \in Nat /\ Len(Received(v)) \in Nat
      /\ Len(Unsent(u)) \in Nat /\ Len(Unsent(v)) \in Nat
  BY RingsAre
<1>3. InOrder(u) => InOrder(v)
  BY <1>1 DEF InOrder
<1>4. ASSUME NEW me, NEW t, IoOK(me.io), CallInOrder(u, me, t) PROVE CallInOrder(v, me, t)
  <2>1. Found(me.io) \in Int
    <3>1. me.io.in \in Int /\ me.io.out \in Int
      BY <1>4, OffsetInt DEF IoOK
    <3>2. me.io.in - me.io.out \in Int
      BY <3>1
    <3>3. (me.io.in - me.io.out) % BufLen \in Offset
      BY <3>2, OffsetsAre
    <3> QED
      BY <3>3, OffsetInt DEF Found
  <2>2. Found(me.io) <= Len(Received(u)) => Found(me.io) <= Len(Received(v))
    BY <1>1, <1>2, <2>1
  <2>3. Len(Unsent(u)) <= Found(me.io) => Len(Unsent(v)) <= Found(me.io)
    BY <1>1, <1>2, <2>1
  <2> QED
    BY <1>1, <1>4, <2>2, <2>3 DEF CallInOrder
<1> QED
  BY <1>3, <1>4

-----------------------------------------------------------------------------
(* The host numbers what it types, and takes what comes first.             *)

LEMMA HostKeeps ==
  ASSUME NEW u, UartFits(u), InOrder(u)
  PROVE  /\ InOrder(HostSends(u)) /\ Drains(u, HostSends(u))
         /\ u.txFifo # << >> =>
              /\ InOrder(HostTakes(u)) /\ Fills(u, HostTakes(u))
              /\ Newest(HostTakes(u)) = Newest(u)
         /\ Received(HostSends(u)) = Received(u) /\ Unsent(HostTakes(u)) = Unsent(u)
         /\ HostSends(u).rxOut = u.rxOut /\ HostTakes(u).txIn = u.txIn
<1>1. /\ Received(u) \in Seq(Int) /\ u.rxFifo \in Seq(Int) /\ u.typed \in Int
      /\ u.txFifo \in Seq(Char) /\ Unsent(u) \in Seq(Char) /\ << u.shown >> \in Seq(Char)
      /\ u.shown \in Char
  BY RingsAre
<1>2. InOrder(HostSends(u)) /\ Drains(u, HostSends(u)) /\ Received(HostSends(u)) = Received(u)
      /\ HostSends(u).rxOut = u.rxOut
  <2> DEFINE v == HostSends(u)
             a == Unread(u)
             next == (u.typed + 1) % RxMod
  <2>1. /\ v.rxFifo = Append(u.rxFifo, u.typed) /\ v.typed = next
        /\ v.rx = u.rx /\ v.rxIn = u.rxIn /\ v.rxOut = u.rxOut
        /\ v.tx = u.tx /\ v.txIn = u.txIn /\ v.txOut = u.txOut /\ v.txFifo = u.txFifo
        /\ v.shown = u.shown
    BY DEF HostSends, UartFits, UartType
  <2>2. Received(v) = Received(u) /\ Sent(v) = Sent(u) /\ Drains(u, v)
    BY <2>1, SameFills DEF Received, Sent, Unsent
  <2> HIDE DEF v
  <2>3. Unread(v) = Append(a, u.typed) /\ a \in Seq(Int)
    <3>1. Received(u) \o Append(u.rxFifo, u.typed) = Append(Received(u) \o u.rxFifo, u.typed)
          /\ Received(u) \o u.rxFifo \in Seq(Int)
      BY <1>1
    <3> QED
      BY <2>1, <2>2, <3>1 DEF Unread
  <2>4. /\ u.typed \in 0 .. RxMod - 1 /\ RxMod \in Nat \ {0}
        /\ \A i \in 1 .. Len(a) : a[i] = (u.typed - 1 - Len(a) + i) % RxMod
        /\ \A i \in 1 .. Len(Sent(u)) - 1 : Follows(Sent(u)[i], Sent(u)[i + 1])
    BY UartAssumption DEF InOrder
  <2>5. u.typed + 1 \in Int /\ next \in 0 .. RxMod - 1 /\ next \in Int
    <3>1. u.typed + 1 \in Int
      BY <1>1
    <3> HIDE DEF next
    <3> QED
      BY <2>4, <3>1 DEF next
  <2> DEFINE b == Append(a, u.typed)
  <2> HIDE DEF a
  <2>6. /\ Len(a) \in Nat /\ Len(b) = Len(a) + 1 /\ b[Len(a) + 1] = u.typed
        /\ \A i \in 1 .. Len(a) : b[i] = a[i]
    BY <1>1, <2>3
  <2>7. ASSUME NEW i \in 1 .. Len(b) PROVE b[i] = (next - 1 - Len(b) + i) % RxMod
    <3> DEFINE y == -1 - Len(b) + i
    <3>1. y \in Int /\ i \in Int
      BY <2>6, <2>7
    <3>2. ((u.typed + 1) + y) % RxMod = (next + y) % RxMod
      <4> HIDE DEF y
      <4> QED
        BY <2>4, <2>5, <3>1, RestOfSum
    <3>3. next + y = next - 1 - Len(b) + i
      <4> HIDE DEF next, b
      <4> QED
        BY <2>5, <2>6, <3>1
    <3>4. CASE i <= Len(a)
      <4>1. (u.typed + 1) + y = u.typed - 1 - Len(a) + i /\ i \in 1 .. Len(a)
        <5>1. b \in Seq(Int) /\ Len(b) \in Int
          BY <1>1, <2>3
        <5> HIDE DEF b, next
        <5>2. y = -1 - (Len(a) + 1) + i
          BY <2>6
        <5> HIDE DEF y
        <5>3. (u.typed + 1) + y = u.typed - 1 - Len(a) + i
          BY <1>1, <2>6, <3>1, <5>2
        <5>4. i \in 1 .. Len(a)
          BY <2>6, <2>7, <3>1, <3>4
        <5> QED
          BY <5>3, <5>4
      <4> QED
        BY <2>4, <2>6, <3>2, <3>3, <4>1
    <3>5. CASE i > Len(a)
      <4>1. i = Len(a) + 1 /\ (u.typed + 1) + y = u.typed
        <5> HIDE DEF b
        <5> QED
          BY <1>1, <2>6, <2>7, <3>1, <3>5
      <4>2. u.typed % RxMod = u.typed
        BY <2>4, SmallRest
      <4> HIDE DEF y, next, b
      <4> QED
        BY <2>6, <3>2, <3>3, <4>1, <4>2
    <3> HIDE DEF b
    <3> QED
      BY <2>6, <3>1, <3>4, <3>5
  <2> HIDE DEF next, b
  <2>8. InOrder(v)
    BY <2>1, <2>2, <2>3, <2>4, <2>5, <2>7 DEF InOrder, b
  <2> QED
    BY <2>1, <2>2, <2>8 DEF v
<1>3. Unsent(HostTakes(u)) = Unsent(u) /\ HostTakes(u).txIn = u.txIn
  BY DEF HostTakes, Unsent, UartFits, UartType
<1>4. ASSUME u.txFifo # << >>
      PROVE  InOrder(HostTakes(u)) /\ Fills(u, HostTakes(u)) /\ Newest(HostTakes(u)) = Newest(u)
  <2> DEFINE v == HostTakes(u)
             a == Sent(u)
             b == Sent(v)
             f == u.txFifo
             r == Unsent(u)
  <2>1. /\ v.shown = Head(f) /\ v.txFifo = Tail(f)
        /\ v.rx = u.rx /\ v.rxIn = u.rxIn /\ v.rxOut = u.rxOut /\ v.rxFifo = u.rxFifo
        /\ v.typed = u.typed
    BY DEF HostTakes, UartFits, UartType
  <2>2. Unread(v) = Unread(u) /\ Fills(u, v)
    BY <2>1, SameFills DEF Unread, Received
  <2>3. f \in Seq(Char) /\ Len(f) \in Nat \ {0} /\ r \in Seq(Char) /\ Len(r) \in Nat
        /\ Tail(f) \in Seq(Char) /\ Len(Tail(f)) = Len(f) - 1 /\ Head(f) = f[1]
        /\ \A i \in 1 .. Len(f) - 1 : Tail(f)[i] = f[i + 1]
    BY <1>1, <1>4, NotEmpty
  <2>4. a = (<< u.shown >> \o f) \o r /\ b = (<< Head(f) >> \o Tail(f)) \o r
    BY <1>3, <2>1 DEF Sent
  <2> HIDE DEF v, a, b, f, r
  <2>5. << Head(f) >> \o Tail(f) = f
    BY <2>3
  <2>6. a \in Seq(Char) /\ Len(a) = 1 + Len(f) + Len(r)
    BY <1>1, <2>3, <2>4
  <2>7. b = f \o r /\ b \in Seq(Char) /\ Len(b) = Len(f) + Len(r)
    BY <2>3, <2>4, <2>5
  <2>8. \A i \in 1 .. Len(b) : b[i] = a[i + 1]
    <3>1. a = << u.shown >> \o b
      BY <1>1, <2>3, <2>4, <2>7
    <3> QED
      BY <1>1, <2>3, <2>6, <2>7, <3>1
  <2>9. \A i \in 1 .. Len(a) - 1 : Follows(a[i], a[i + 1])
    BY DEF InOrder, a
  <2>10. \A i \in 1 .. Len(b) - 1 : Follows(b[i], b[i + 1])
    <3> TAKE i \in 1 .. Len(b) - 1
    <3>1. i \in 1 .. Len(b) /\ i + 1 \in 1 .. Len(b) /\ i + 1 \in 1 .. Len(a) - 1
      BY <2>3, <2>6, <2>7
    <3> QED
      BY <2>8, <2>9, <3>1
  <2>11. b[Len(b)] = a[Len(a)]
    <3>1. Len(b) \in 1 .. Len(b) /\ Len(b) + 1 = Len(a)
      BY <2>3, <2>6, <2>7
    <3> QED
      BY <2>8, <3>1
  <2>12. InOrder(v)
    BY <2>1, <2>2, <2>10 DEF InOrder, b
  <2> QED
    BY <2>2, <2>11, <2>12 DEF Newest, a, b, v
<1> QED
  BY <1>2, <1>3, <1>4

-----------------------------------------------------------------------------
(* What the calls copy.                                                    *)

LEMMA FoundIs ==
  ASSUME NEW in \in Offset, NEW out \in Offset
  PROVE  (in - out) % BufLen = IF in >= out THEN in - out ELSE in - out + BufLen
<1>1. /\ in \in Int /\ out \in Int /\ BufLen \in Nat \ {0}
      /\ 0 <= in /\ in < BufLen /\ 0 <= out /\ out < BufLen
  BY UartAssumption DEF Offset
<1>2. CASE in >= out
  <2>1. in - out \in 0 .. BufLen - 1
    BY <1>1, <1>2
  <2>2. (in - out) % BufLen = in - out
    BY <1>1, <2>1, SmallRest
  <2> QED
    BY <1>2, <2>2
<1>3. CASE ~(in >= out)
  <2> DEFINE r == in - out + BufLen
  <2>1. r \in 0 .. BufLen - 1 /\ -1 \in Int /\ BufLen * (-1) + r = in - out
    BY <1>1, <1>3
  <2> HIDE DEF r
  <2>2. (BufLen * (-1) + r) % BufLen = r
    BY <1>1, <2>1, RestIs
  <2> QED
    BY <1>3, <2>1, <2>2 DEF r
<1> QED
  BY <1>2, <1>3

LEMMA SlackFits ==
  ASSUME NEW in \in Offset, NEW out \in Offset, NEW d, d = (in - out) % BufLen
  PROVE  /\ d \in Nat
         /\ Writable(in, out) \in Nat /\ d + Writable(in, out) < BufLen
         /\ in + Writable(in, out) <= BufLen
         /\ Readable(in, out) \in Nat /\ Readable(in, out) <= d
<1>1. /\ in \in Int /\ out \in Int /\ BufLen \in Nat \ {0}
      /\ 0 <= in /\ in < BufLen /\ 0 <= out /\ out < BufLen
  BY UartAssumption DEF Offset
<1>2. d = IF in >= out THEN in - out ELSE in - out + BufLen
  BY FoundIs
<1>3. d \in Nat
  BY <1>1, <1>2
<1>4. Readable(in, out) \in Nat /\ Readable(in, out) <= d
  BY <1>1, <1>2 DEF Readable
<1>5. Writable(in, out) \in Nat /\ d + Writable(in, out) < BufLen /\ in + Writable(in, out) <= BufLen
  <2>1. CASE in < out
    <3>1. Writable(in, out) = out - 1 - in
      BY <1>1, <2>1 DEF Writable
    <3> QED
      BY <1>1, <1>2, <2>1, <3>1
  <2>2. CASE in >= out /\ out > 0
    <3>1. Writable(in, out) = BufLen - in
      BY <1>1, <2>2 DEF Writable
    <3> QED
      BY <1>1, <1>2, <2>2, <3>1
  <2>3. CASE in >= out /\ out = 0
    <3>1. Writable(in, out) = BufLen - 1 - in
      BY <1>1, <2>3 DEF Writable
    <3> QED
      BY <1>1, <1>2, <2>3, <3>1
  <2> QED
    BY <1>1, <2>1, <2>2, <2>3
<1> QED
  BY <1>3, <1>4, <1>5

LEMMA CopyOutKeeps ==
  ASSUME NEW u, UartFits(u), InOrder(u), NEW n \in Nat, n <= Len(Received(u))
  PROVE  LET v == CopyOut(u, u.rxOut, n) IN InOrder(v) /\ Drains(u, v)
<1> DEFINE v == CopyOut(u, u.rxOut, n)
           r == Received(u)
           f == u.rxFifo
           a == Unread(u)
           b == Unread(v)
<1>1. /\ r \in Seq(Int) /\ Len(r) \in Nat /\ f \in Seq(Int) /\ u.typed \in Int
      /\ u.rx \in [Offset -> Int] /\ u.rxIn \in Offset /\ u.rxOut \in Offset
  BY RingsAre
<1>2. /\ v.rxOut = Later(u.rxOut, n) /\ v.rx = u.rx /\ v.rxIn = u.rxIn /\ v.rxFifo = f
      /\ v.tx = u.tx /\ v.txIn = u.txIn /\ v.txOut = u.txOut /\ v.txFifo = u.txFifo
      /\ v.typed = u.typed /\ v.shown = u.shown
  BY DEF CopyOut, UartFits, UartType
<1>3. Drains(u, v) /\ Sent(v) = Sent(u)
  BY <1>2, SameFills DEF Drains
<1> HIDE DEF v
<1>4. n <= (u.rxIn - u.rxOut) % BufLen
  <2>1. Len(Received(u)) = (u.rxIn - u.rxOut) % BufLen
    BY RingsAre DEF RingOf
  <2> QED
    BY <2>1
<1>5. Received(v) = SubSeq(r, n + 1, Len(r))
  <2>1. u.rx \in [Offset -> Numbers] /\ u.rxIn \in Offset /\ u.rxOut \in Offset
    BY <1>1 DEF Numbers
  <2>2. Ring(u.rx, Later(u.rxOut, n), u.rxIn) = SubSeq(Received(u), n + 1, Len(Received(u)))
    BY <1>4, <2>1, RingShrinks DEF Received
  <2> QED
    BY <1>2, <2>2 DEF Received
<1>6. n \in 0 .. Len(r)
  BY <1>1
<1> DEFINE left == SubSeq(r, n + 1, Len(r))
<1> HIDE DEF r, f
<1>7. /\ left \in Seq(Int) /\ Len(left) = Len(r) - n
      /\ \A i \in 1 .. Len(r) - n : left[i] = r[n + i]
  BY <1>1, <1>6, Cut
<1>8. a = r \o f /\ b = left \o f
  BY <1>2, <1>5 DEF Unread, r, f
<1> HIDE DEF left, a, b
<1>9. /\ a \in Seq(Int) /\ Len(a) = Len(r) + Len(f) /\ Len(f) \in Nat
      /\ \A i \in 1 .. Len(r) : a[i] = r[i]
      /\ \A i \in 1 .. Len(f) : a[Len(r) + i] = f[i]
  BY <1>1, <1>8, Joined
<1>10. /\ b \in Seq(Int) /\ Len(b) = Len(r) - n + Len(f)
       /\ \A i \in 1 .. Len(r) - n : b[i] = left[i]
       /\ \A i \in 1 .. Len(f) : b[Len(r) - n + i] = f[i]
  <2>1. left \in Seq(Int) /\ f \in Seq(Int) /\ b = left \o f
    BY <1>1, <1>7, <1>8
  <2>2. /\ b \in Seq(Int) /\ Len(b) = Len(left) + Len(f)
        /\ \A i \in 1 .. Len(left) : b[i] = left[i]
        /\ \A i \in 1 .. Len(f) : b[Len(left) + i] = f[i]
    BY <2>1, Joined
  <2>3. Len(left) = Len(r) - n
    BY <1>7
  <2> QED
    BY <2>2, <2>3
<1>11. ASSUME NEW i \in 1 .. Len(b)
       PROVE  b[i] = a[n + i] /\ n + i \in 1 .. Len(a) /\ Len(b) = Len(a) - n /\ i \in Int
  <2>0. Len(a) = Len(r) + Len(f) /\ Len(f) \in Nat /\ Len(b) = Len(r) - n + Len(f) /\ Len(r) \in Nat
    BY <1>1, <1>9, <1>10
  <2>1. i \in Int /\ n + i \in 1 .. Len(a) /\ Len(b) = Len(a) - n
    BY <1>6, <1>11, <2>0
  <2>2. CASE i <= Len(r) - n
    <3>1. i \in 1 .. Len(r) - n /\ n + i \in 1 .. Len(r)
      BY <1>1, <1>6, <1>11, <2>1, <2>2
    <3> QED
      BY <1>7, <1>9, <1>10, <2>1, <3>1
  <2>3. CASE i > Len(r) - n
    <3> DEFINE j == i - (Len(r) - n)
    <3>1. j \in 1 .. Len(f) /\ Len(r) - n + j = i /\ Len(r) + j = n + i
      BY <1>1, <1>6, <1>9, <1>10, <1>11, <2>1, <2>3
    <3> HIDE DEF j
    <3> QED
      BY <1>9, <1>10, <2>1, <3>1
  <2> QED
    BY <1>1, <2>1, <2>2, <2>3
<1>12. \A i \in 1 .. Len(b) : b[i] = (v.typed - 1 - Len(b) + i) % RxMod
  <2> TAKE i \in 1 .. Len(b)
  <2>1. b[i] = a[n + i] /\ n + i \in 1 .. Len(a) /\ Len(b) = Len(a) - n /\ i \in Int
    BY <1>11
  <2>2. a[n + i] = (u.typed - 1 - Len(a) + (n + i)) % RxMod
    BY <2>1 DEF InOrder, a
  <2>3. u.typed - 1 - Len(a) + (n + i) = v.typed - 1 - Len(b) + i
    BY <1>1, <1>2, <1>9, <2>1
  <2> QED
    BY <2>1, <2>2, <2>3
<1>13. InOrder(v)
  BY <1>2, <1>3, <1>12 DEF InOrder, b
<1> QED
  BY <1>3, <1>13 DEF v

(* The n characters that task t writes after its first next ones.          *)
Chars(t, next, n) == [i \in 1 .. n |-> [by |-> t, i |-> next + i]]
Newly(t, next) == [by |-> t, i |-> next]

LEMMA CharsAre ==
  ASSUME NEW t \in Tcb, NEW next \in Int, NEW n \in Nat
  PROVE  LET c == Chars(t, next, n) IN
         /\ c \in Seq(Char) /\ Len(c) = n
         /\ \A i \in 1 .. n : c[i] = Newly(t, next + i)
<1> DEFINE c == Chars(t, next, n)
<1>1. \A i \in 1 .. n : c[i] = Newly(t, next + i) /\ c[i] \in Char
  BY DEF Chars, Newly, Char
<1>2. c = [i \in 1 .. n |-> [by |-> t, i |-> next + i]]
  BY DEF Chars
<1>3. c \in [1 .. n -> Char]
  BY <1>1, <1>2
<1> HIDE DEF c
<1>4. c \in Seq(Char)
  BY <1>3
<1>5. DOMAIN c = 1 .. n
  BY <1>3
<1>6. Len(c) = n
  BY <1>4, <1>5
<1> QED
  BY <1>1, <1>4, <1>6 DEF c

LEMMA CopyInSends ==
  ASSUME NEW u, UartFits(u), NEW chars \in Seq(Char), NEW n, n = Len(chars),
         Len(Unsent(u)) + n < BufLen, u.txIn + n <= BufLen
  PROVE  LET v == CopyIn(u, u.txIn, chars) IN
         Sent(v) = Sent(u) \o chars /\ Fills(u, v)
<1> DEFINE v == CopyIn(u, u.txIn, chars)
           in == u.txIn
           r == Unsent(u)
           tx == [i \in 0 .. BufLen - 1 |->
                    IF i \in in .. in + Len(chars) - 1 THEN chars[i - in + 1] ELSE u.tx[i]]
<1>1. /\ r \in Seq(Char) /\ Len(r) \in Nat /\ u.txFifo \in Seq(Char)
      /\ << u.shown >> \in Seq(Char)
      /\ u.tx \in [Offset -> Char] /\ in \in Offset /\ u.txOut \in Offset
      /\ UartFits(v)
  BY RingsAre, CopyFits
<1>2. /\ v.tx = tx /\ v.txIn = Later(in, Len(chars)) /\ v.txOut = u.txOut
      /\ v.txFifo = u.txFifo /\ v.shown = u.shown
      /\ v.rx = u.rx /\ v.rxIn = u.rxIn /\ v.rxOut = u.rxOut /\ v.rxFifo = u.rxFifo
      /\ v.typed = u.typed
  BY DEF CopyIn, UartFits, UartType
<1>3. Fills(u, v)
  BY <1>2, SameFills
<1>4. tx \in [Offset -> Char]
  BY <1>1, <1>2 DEF UartFits, UartType
<1>5. in \in Nat /\ BufLen \in Nat /\ n \in Nat
  BY <1>1, UartAssumption DEF Offset
<1>6. ASSUME NEW j \in 0 .. n - 1
      PROVE  /\ Later(in, j) = in + j /\ in + j \in Offset /\ in + j \in in .. in + n - 1
             /\ (in + j) - in + 1 = j + 1 /\ j \in Int
  <2> HIDE DEF v, tx, r, in
  <2>1. /\ in + j \in 0 .. BufLen - 1 /\ in + j \in in .. in + n - 1
        /\ (in + j) - in + 1 = j + 1 /\ j \in Int
    BY <1>5, <1>6 DEF in
  <2>2. (in + j) % BufLen = in + j
    BY <2>1, SmallRest, UartAssumption
  <2> QED
    BY <2>1, <2>2 DEF Later, Offset
<1>7. Written(u.tx, tx, in, chars)
  <2>1. \A j \in 0 .. Len(chars) - 1 : tx[Later(in, j)] = chars[j + 1]
    <3> TAKE j \in 0 .. Len(chars) - 1
    <3>1. /\ Later(in, j) = in + j /\ in + j \in 0 .. BufLen - 1
          /\ in + j \in in .. in + Len(chars) - 1 /\ (in + j) - in + 1 = j + 1
      BY <1>6 DEF Offset
    <3> HIDE DEF in
    <3>2. tx[in + j] = chars[(in + j) - in + 1]
      BY <3>1
    <3> QED
      BY <3>1, <3>2
  <2>2. ASSUME NEW i \in Offset, \A j \in 0 .. Len(chars) - 1 : i # Later(in, j)
        PROVE  tx[i] = u.tx[i]
    <3>1. i \notin in .. in + Len(chars) - 1
      <4>1. ASSUME i \in in .. in + Len(chars) - 1 PROVE FALSE
        <5>1. i - in \in 0 .. n - 1 /\ in + (i - in) = i
          <6> HIDE DEF in, tx, v, r
          <6> QED
            BY <1>5, <2>2, <4>1, OffsetInt
        <5>2. Later(in, i - in) = i
          BY <1>6, <5>1
        <5> QED
          BY <2>2, <5>1, <5>2
      <4> QED
        BY <4>1
    <3> QED
      BY <2>2, <3>1 DEF Offset
  <2> HIDE DEF tx
  <2> QED
    BY <2>1, <2>2 DEF Written
<1> HIDE DEF tx, v
<1>8. Room(in, u.txOut, Len(chars))
  <2>1. Len(r) = (in - u.txOut) % BufLen
    BY RingsAre DEF RingOf
  <2>2. Len(r) + n \in Offset
    <3> HIDE DEF r, in
    <3> QED
      BY <1>1, <1>5, UartAssumption DEF Offset, r
  <2> QED
    BY <2>1, <2>2 DEF Room
<1> HIDE DEF r, in
<1>9. Ring(tx, u.txOut, Later(in, Len(chars))) = Ring(u.tx, u.txOut, in) \o chars
  BY <1>1, <1>4, <1>7, <1>8, RingGrows
<1>10. Unsent(v) = r \o chars
  BY <1>2, <1>9 DEF Unsent, r, in
<1>11. ((<< u.shown >> \o u.txFifo) \o r) \o chars = (<< u.shown >> \o u.txFifo) \o (r \o chars)
  <2> DEFINE d == << u.shown >> \o u.txFifo
             c == chars
  <2>1. d \in Seq(Char) /\ r \in Seq(Char) /\ c \in Seq(Char)
    BY <1>1
  <2> HIDE DEF d, c
  <2>2. (d \o r) \o c = d \o (r \o c)
    BY <2>1, Associates
  <2> QED
    BY <2>2 DEF d, c
<1>12. Sent(v) = Sent(u) \o chars
  BY <1>2, <1>10, <1>11 DEF Sent, r
<1> QED
  BY <1>3, <1>12 DEF v, in

LEMMA CopyInKeeps ==
  ASSUME NEW u, UartFits(u), InOrder(u), NEW t \in Tcb, NEW next \in Int, NEW n \in Nat,
         next # 0 => Newest(u) = Newly(t, next),
         Len(Unsent(u)) + n < BufLen, u.txIn + n <= BufLen
  PROVE  LET v == CopyIn(u, u.txIn, Chars(t, next, n)) IN
         /\ InOrder(v) /\ Fills(u, v)
         /\ next + n # 0 => Newest(v) = Newly(t, next + n)
<1> DEFINE c == Chars(t, next, n)
           v == CopyIn(u, u.txIn, c)
           a == Sent(u)
           b == Sent(v)
<1>1. c \in Seq(Char) /\ Len(c) = n /\ \A i \in 1 .. n : c[i] = Newly(t, next + i)
  BY CharsAre
<1> HIDE DEF c
<1>2. Sent(v) = Sent(u) \o c /\ Fills(u, v)
  BY <1>1, CopyInSends
<1>3. a \in Seq(Char) /\ Len(a) \in Nat \ {0}
  <2>1. /\ u.txFifo \in Seq(Char) /\ << u.shown >> \in Seq(Char) /\ Unsent(u) \in Seq(Char)
        /\ u.shown \in Char
    BY RingsAre
  <2>2. << u.shown >> \o u.txFifo \in Seq(Char) /\ Len(<< u.shown >> \o u.txFifo) = 1 + Len(u.txFifo)
        /\ Len(u.txFifo) \in Nat
    BY <2>1
  <2> DEFINE d == << u.shown >> \o u.txFifo
  <2>3. d \in Seq(Char) /\ Len(d) \in Nat \ {0}
    BY <2>2
  <2> HIDE DEF d
  <2>4. d \o Unsent(u) \in Seq(Char) /\ Len(d \o Unsent(u)) \in Nat \ {0}
    BY <2>1, <2>3
  <2> QED
    BY <2>4 DEF Sent, d
<1> HIDE DEF v, a, b
<1>4. /\ b \in Seq(Char) /\ Len(b) = Len(a) + n
      /\ \A i \in 1 .. Len(a) : b[i] = a[i]
      /\ \A i \in 1 .. n : b[Len(a) + i] = c[i]
  <2>1. b = a \o c
    BY <1>2 DEF a, b
  <2>2. c \in Seq(Char) /\ a \in Seq(Char) /\ Len(c) = n
    BY <1>1, <1>3
  <2>3. /\ a \o c \in Seq(Char) /\ Len(a \o c) = Len(a) + Len(c)
        /\ \A i \in 1 .. Len(a) : (a \o c)[i] = a[i]
        /\ \A i \in 1 .. Len(c) : (a \o c)[Len(a) + i] = c[i]
    BY <2>2, Joined
  <2> QED
    BY <2>1, <2>2, <2>3
<1>5. \A i \in 1 .. Len(a) - 1 : Follows(a[i], a[i + 1])
  BY DEF InOrder, a
<1>6. next # 0 => a[Len(a)] = Newly(t, next)
  BY DEF Newest, a
<1>7. \A i \in 1 .. Len(b) - 1 : Follows(b[i], b[i + 1])
  <2> TAKE i \in 1 .. Len(b) - 1
  <2>1. i \in Int /\ Len(a) \in Int /\ 1 <= i /\ i + 1 <= Len(b)
    BY <1>3, <1>4
  <2>2. CASE i < Len(a)
    <3>1. i \in 1 .. Len(a) /\ i + 1 \in 1 .. Len(a) /\ i \in 1 .. Len(a) - 1
      BY <2>1, <2>2
    <3> QED
      BY <1>4, <1>5, <3>1
  <2>3. CASE i = Len(a)
    <3>1. 1 \in 1 .. n /\ i \in 1 .. Len(a)
      BY <1>3, <1>4, <2>1, <2>3
    <3>2. b[i + 1] = Newly(t, next + 1) /\ b[i] = a[Len(a)]
      BY <1>1, <1>4, <2>3, <3>1
    <3>3. next = 0 => b[i + 1].i = 1
      BY <3>2 DEF Newly
    <3>4. next # 0 => b[i + 1].by = b[i].by /\ b[i + 1].i = b[i].i + 1
      BY <1>6, <3>2 DEF Newly
    <3> QED
      BY <3>3, <3>4 DEF Follows
  <2>4. CASE i > Len(a)
    <3> DEFINE j == i - Len(a)
    <3>1. j \in 1 .. n /\ j + 1 \in 1 .. n /\ Len(a) + j = i /\ Len(a) + (j + 1) = i + 1 /\ j \in Int
      BY <1>3, <1>4, <2>1, <2>4
    <3> HIDE DEF j
    <3>2. b[i] = Newly(t, next + j) /\ b[i + 1] = Newly(t, next + (j + 1))
      BY <1>1, <1>4, <3>1
    <3>3. b[i + 1].by = b[i].by /\ b[i + 1].i = b[i].i + 1
      BY <3>1, <3>2 DEF Newly
    <3> QED
      BY <3>3 DEF Follows
  <2> QED
    BY <2>1, <2>2, <2>3, <2>4
<1>8. next + n # 0 => b[Len(b)] = Newly(t, next + n)
  <2>1. CASE n = 0
    <3>1. Len(b) = Len(a) /\ Len(a) \in 1 .. Len(a) /\ next + n = next
      BY <1>3, <1>4, <2>1
    <3> QED
      BY <1>4, <1>6, <3>1
  <2>2. CASE n # 0
    <3>1. n \in 1 .. n /\ Len(b) = Len(a) + n
      BY <1>4, <2>2
    <3> QED
      BY <1>1, <1>4, <3>1
  <2> QED
    BY <2>1, <2>2
<1>9. InOrder(v)
  <2>1. Unread(v) = Unread(u) /\ v.typed = u.typed
    BY <1>2 DEF Fills
  <2> QED
    BY <1>7, <2>1 DEF InOrder, b
<1> QED
  BY <1>2, <1>8, <1>9 DEF Newest, b, v, c

-----------------------------------------------------------------------------
(* A step of the kernel leaves a call of the console where it is: what it  *)
(* returns to has no lock, and the call's own labels stay below.           *)

LEMMA UnderStands ==
  ASSUME NEW me, NEW lock, Under(me, lock)
  PROVE  me.pc # << >>
  BY DEF Under

(* The labels at which a call has looked at nothing or begins.             *)
CopyLabels == {"Read", "Write", "WriteCopy", "ReadCopy"}

(* A task after the step: back in the application without locals, or with  *)
(* those that it had.                                                      *)
KeepsIo(me, n) == /\ n.pc = << >> => n.io = NoIo
                  /\ n.pc # << >> => n.io = me.io

LEMMA StaysInOrder ==
  ASSUME NEW u, NEW t, NEW me, CallInOrder(u, me, t), NEW n, KeepsIo(me, n),
         n.pc # << >> => Head(n.pc) \notin CopyLabels,
         \A lock \in Consoles : Under(n, lock) => Under(me, lock),
         Under(me, "write_lock") /\ "write_lock" \in me.owns => "write_lock" \in n.owns
  PROVE  CallInOrder(u, n, t)
<1>1. NoIo.next = 0
  BY DEF NoIo
<1>2. n.pc = << >> \/ Head(n.pc) \in {"Read", "Write"} => n.io.next = 0
  BY <1>1 DEF KeepsIo, CopyLabels
<1>3. Under(n, "read_lock") => n.io.left >= 0
  BY UnderStands DEF KeepsIo, CallInOrder, Consoles
<1>4. Under(n, "write_lock") /\ n.io.next # 0 =>
        "write_lock" \in n.owns /\ Newest(u) = [by |-> t, i |-> n.io.next]
  BY UnderStands DEF KeepsIo, CallInOrder, Consoles
<1> QED
  BY <1>2, <1>3, <1>4 DEF CallInOrder, CopyLabels

LEMMA CallInOrderOn ==
  ASSUME NEW u, NEW t, NEW me, CallInOrder(u, me, t), StackOK(me.pc), me.pc # << >>,
         Head(me.pc) # "OS_Sched", NEW cont \in KernelConts, NEW n,
         n.pc = cont \o Tail(me.pc), KeepsIo(me, n),
         Under(me, "write_lock") /\ "write_lock" \in me.owns => "write_lock" \in n.owns
  PROVE  CallInOrder(u, n, t)
<1>1. Stacked(me, cont, n) /\ Headed(cont, n)
  BY CallStack
<1>2. n.pc # << >> => Head(n.pc) \notin CopyLabels
  BY <1>1 DEF Headed, CopyLabels, Conts
<1>3. \A lock \in Consoles : Under(n, lock) => Under(me, lock)
  <2> TAKE lock \in Consoles
  <2>1. lock # NoName
    BY DEF Consoles, NoName
  <2>2. \A m \in 2 .. Len(me.pc) : m \in DOMAIN me.pc
    BY <1>1 DEF Stacked
  <2> QED
    BY <1>1, <2>1, <2>2 DEF Under, Stacked
<1> QED
  BY <1>2, <1>3, StaysInOrder

LEMMA SettledIo ==
  ASSUME NEW m, DOMAIN m = RunFields
  PROVE  /\ KeepsIo(m, Settle(m)) /\ Settle(m).pc = m.pc /\ Settle(m).owns = m.owns
  BY DEF Settle, RunFields, KeepsIo

LEMMA LeftIo ==
  ASSUME NEW m, DOMAIN m = RunFields, NEW r, NEW n, n = Left(r, m)
  PROVE  KeepsIo(m, n) /\ n.pc = r.cont \o Tail(m.pc) /\ n.owns = m.owns
<1> DEFINE i == [m EXCEPT !.pc = r.cont \o Tail(@),
                          !.loc = IF r.loc # Null THEN r.loc ELSE @,
                          !.hand = @ \cup (r.got \cap Block)]
<1>1. /\ DOMAIN i = RunFields /\ i.pc = r.cont \o Tail(m.pc) /\ i.io = m.io
      /\ i.owns = m.owns
  BY DEF RunFields
<1>2. n = Settle(i)
  BY DEF Left
<1> HIDE DEF i
<1> QED
  BY <1>1, <1>2, SettledIo DEF KeepsIo

(* Nothing but the rings and the runner changes.                           *)
LEMMA OneRunsInOrder ==
  ASSUME PlainInv, UartOK, RingsOK, NEW n, run' = [run EXCEPT ![Cur] = n],
         UartFits(uart'), Moves(uart, uart'),
         Cur \in Tcb => CallInOrder(uart', n, Cur)
  PROVE  RingsOK'
<1>1. UartFits(uart) /\ \A t \in Tcb : IoOK(run[t].io)
  BY DEF UartOK, UartFits
<1>2. InOrder(uart') /\ \A t \in Tcb : CallInOrder(uart', run[t], t)
  BY <1>1, MovesKeep DEF RingsOK
<1>3. \A t \in Tcb : run'[t] = run[t] \/ (t = Cur /\ run'[t] = n)
  BY DEF PlainInv, ThreadsOK
<1> QED
  BY <1>2, <1>3 DEF RingsOK

(* What the services return to.                                            *)
ReplyFields == {"k", "cont", "got", "loc", "ok"}
Replies(r) == DOMAIN r = ReplyFields /\ r.cont \in KernelConts

LEMMA ReplyConts ==
  ASSUME NEW k
  PROVE  /\ Replies(Done(k)) /\ Replies(Fails(k)) /\ Replies(Reschedules(k))
         /\ \A S : Replies(Gives(k, S))
         /\ \A h : Replies(Returns(k, h))
         /\ \A w \in WaitLabels : Replies(Blocks(k, w))
<1>1. << >> \in KernelConts /\ << "OS_Sched" >> \in KernelConts
      /\ \A w \in WaitLabels : << "OS_Sched", w >> \in KernelConts
  BY DEF KernelConts, CallConts
<1>2. Replies(Done(k)) /\ Replies(Fails(k)) /\ Replies(Reschedules(k))
  BY <1>1 DEF Replies, ReplyFields, Done, Fails, Reschedules
<1>3. \A S : Replies(Gives(k, S))
  BY <1>1 DEF Replies, ReplyFields, Done, Gives
<1>4. \A h : Replies(Returns(k, h))
  BY <1>1 DEF Replies, ReplyFields, Done, Returns
<1>5. \A w \in WaitLabels : Replies(Blocks(k, w))
  BY <1>1 DEF Replies, ReplyFields, Done, Blocks
<1> QED
  BY <1>2, <1>3, <1>4, <1>5

LEMMA ReplyWith ==
  ASSUME NEW r, Replies(r)
  PROVE  \A b : Replies([r EXCEPT !.ok = b])
  BY DEF Replies, ReplyFields

LEMMA WaitNames ==
  /\ "SemPended" \in WaitLabels /\ "MboxPended" \in WaitLabels /\ "QPended" \in WaitLabels
  /\ "FlagPended" \in WaitLabels /\ "MultiPended" \in WaitLabels
  BY DEF WaitLabels

LEMMA SemReplies ==
  ASSUME NEW k, NEW e, NEW a
  PROVE  /\ Replies(OSSemCreate(k, a)) /\ Replies(OSSemAccept(k, e))
         /\ Replies(OSSemPend(k, e, a)) /\ Replies(SemPended(k, e))
         /\ Replies(OSSemPost(k, e)) /\ Replies(OSSemSet(k, e, a))
<1>1. Replies(OSSemCreate(k, a)) /\ Replies(OSSemAccept(k, e))
  BY ReplyConts DEF OSSemCreate, OSSemAccept
<1>2. Replies(OSSemPend(k, e, a))
  BY ReplyConts, WaitNames DEF OSSemPend
<1>3. Replies(SemPended(k, e))
  BY ReplyConts, ReplyWith DEF SemPended
<1>4. Replies(OSSemPost(k, e)) /\ Replies(OSSemSet(k, e, a))
  BY ReplyConts DEF OSSemPost, OSSemSet
<1> QED
  BY <1>1, <1>2, <1>3, <1>4

LEMMA AbortReplies ==
  ASSUME NEW k, NEW e, NEW opt \in {"NONE", "BROADCAST"}, NEW msk
  PROVE  Replies(AbortPend(k, e, opt, msk))
  BY ReplyConts DEF AbortPend

LEMMA MboxReplies ==
  ASSUME NEW k, NEW e, NEW a, NEW b
  PROVE  /\ Replies(OSMboxCreate(k, a)) /\ Replies(OSMboxAccept(k, e))
         /\ Replies(OSMboxPend(k, e, a)) /\ Replies(MboxPended(k, e))
         /\ Replies(OSMboxPost(k, e, a)) /\ Replies(OSMboxPostOpt(k, e, a, b))
<1>1. Replies(OSMboxCreate(k, a)) /\ Replies(OSMboxAccept(k, e))
  BY ReplyConts DEF OSMboxCreate, OSMboxAccept
<1>2. Replies(OSMboxPend(k, e, a))
  BY <1>1, ReplyConts, WaitNames DEF OSMboxPend
<1>3. Replies(MboxPended(k, e))
  BY ReplyConts, ReplyWith DEF MboxPended
<1>4. Replies(FillMbox(k, e, a))
  BY ReplyConts DEF FillMbox
<1>5. Replies(OSMboxPost(k, e, a)) /\ Replies(OSMboxPostOpt(k, e, a, b))
  BY <1>4, ReplyConts DEF OSMboxPost, OSMboxPostOpt
<1> QED
  BY <1>1, <1>2, <1>3, <1>5

LEMMA QReplies ==
  ASSUME NEW k, NEW e, NEW a, NEW b
  PROVE  /\ Replies(OSQCreate(k)) /\ Replies(QCreateRing(k, e))
         /\ Replies(OSQAccept(k, e)) /\ Replies(OSQFlush(k, e))
         /\ Replies(OSQPend(k, e, a)) /\ Replies(QPended(k, e))
         /\ Replies(OSQPost(k, e, a)) /\ Replies(OSQPostFront(k, e, a))
         /\ Replies(OSQPostOpt(k, e, a, b))
<1>1. Replies(OSQCreate(k))
  <2>1. \A r : Replies(r) => Replies([r EXCEPT !.cont = << "QCreateRing" >>])
    BY DEF Replies, ReplyFields, KernelConts
  <2> QED
    BY <2>1, ReplyConts DEF OSQCreate
<1>2. Replies(QCreateRing(k, e)) /\ Replies(OSQFlush(k, e)) /\ Replies(Take(k, e))
  BY ReplyConts DEF QCreateRing, OSQFlush, Take
<1>3. Replies(OSQAccept(k, e)) /\ Replies(OSQPend(k, e, a))
  BY <1>2, ReplyConts, WaitNames DEF OSQAccept, OSQPend
<1>4. Replies(QPended(k, e))
  BY ReplyConts, ReplyWith DEF QPended
<1>5. \A front : Replies(Enqueue(k, e, a, front))
  BY ReplyConts DEF Enqueue
<1>6. Replies(OSQPost(k, e, a)) /\ Replies(OSQPostFront(k, e, a))
  BY <1>5, ReplyConts DEF OSQPost, OSQPostFront
<1>7. Replies(OSQPostOpt(k, e, a, b))
  BY <1>5, ReplyConts DEF OSQPostOpt
<1> QED
  BY <1>1, <1>2, <1>3, <1>4, <1>6, <1>7

LEMMA OtherReplies ==
  ASSUME NEW k, NEW e, NEW a, NEW b
  PROVE  /\ Replies(OSMemGet(k)) /\ Replies(OSMemPut(k, a))
         /\ Replies(OSEventPendMulti(k, e, a)) /\ Replies(MultiPended(k, e))
         /\ Replies(OSFlagCreate(k, a)) /\ Replies(OSFlagAccept(k, e, a))
         /\ Replies(OSFlagPend(k, e, a)) /\ Replies(FlagPended(k, e, a))
         /\ Replies(OSFlagPost(k, e, a, b))
<1>1. Replies(OSMemGet(k)) /\ Replies(OSMemPut(k, a))
  BY ReplyConts DEF OSMemGet, OSMemPut
<1>2. Replies(OSEventPendMulti(k, e, a))
  BY ReplyConts, WaitNames DEF OSEventPendMulti
<1>3. Replies(MultiPended(k, e))
  BY ReplyConts DEF MultiPended
<1>4. Replies(OSFlagCreate(k, a)) /\ Replies(OSFlagAccept(k, e, a))
  BY ReplyConts DEF OSFlagCreate, OSFlagAccept
<1>5. Replies(OSFlagPend(k, e, a))
  BY ReplyConts, WaitNames DEF OSFlagPend
<1>6. Replies(FlagPended(k, e, a))
  BY ReplyConts DEF FlagPended
<1>7. Replies(OSFlagPost(k, e, a, b))
  BY ReplyConts DEF OSFlagPost
<1> QED
  BY <1>1, <1>2, <1>3, <1>4, <1>5, <1>6, <1>7

LEMMA TaskReplies ==
  ASSUME NEW k, NEW p
  PROVE  /\ Replies(OSTaskDelReq(k, p)) /\ Replies(OSTaskSuspend(k, p))
         /\ Replies(OSTaskResume(k, p)) /\ Replies(OSTimeDly(k, p))
         /\ Replies(OSTimeDlyResume(k, p))
         /\ Replies(OSSchedLock(k)) /\ Replies(OSSchedUnlock(k))
<1>1. Replies(OSTaskDelReq(k, p)) /\ Replies(OSTaskSuspend(k, p))
  BY ReplyConts DEF OSTaskDelReq, OSTaskSuspend
<1>2. Replies(OSTaskResume(k, p))
  BY ReplyConts DEF OSTaskResume
<1>3. Replies(OSTimeDly(k, p)) /\ Replies(OSTimeDlyResume(k, p))
  BY ReplyConts DEF OSTimeDly, OSTimeDlyResume
<1>4. Replies(OSSchedLock(k)) /\ Replies(OSSchedUnlock(k))
  BY ReplyConts DEF OSSchedLock, OSSchedUnlock
<1> QED
  BY <1>1, <1>2, <1>3, <1>4

(* A service of the kernel that replies r makes the task what m says and   *)
(* gives up no lock but by SemPost.                                        *)
Honours(r, m) ==
    /\ Calling(r, m) /\ Replies(r) /\ m.io = Me.io
    /\ \A x \in Me.owns : x \in m.owns \/ (Head(Me.pc) = "SemPost" /\ x = Me.obj)

Honoured == \E r, m : Honours(r, m)

LEMMA QuietlyAnswers ==
  ASSUME Stepping, NEW l, At(l), l # "OS_Sched", NEW r, Replies(r), NEW msg
  PROVE  /\ Creates(r) => Honoured
         /\ Quietly(r, Me) => Honoured
         /\ Quietly(r, Acquires(r)) => Honoured
         /\ Quietly(r, Releases(r)) /\ l = "SemPost" => Honoured
         /\ Quietly(r, Sends(r, msg)) => Honoured
<1>1. DOMAIN Me = RunFields
  BY StepperIs DEF ThreadOK
<1>2. /\ Alike(Me, Me) /\ Alike(Me, Acquires(r)) /\ Alike(Me, Releases(r))
      /\ Alike(Me, Sends(r, msg))
  BY <1>1, AlikeIs
<1>3. Me.pc # << >> /\ Head(Me.pc) = l
  BY DEF At
<1>4. ASSUME NEW m, Alike(Me, m), Leave(r, m), m.io = Me.io,
             \A x \in Me.owns : x \in m.owns \/ (l = "SemPost" /\ x = Me.obj)
      PROVE  Honoured
  BY <1>3, <1>4 DEF Honoured, Honours, Calling
<1>5. Leave(r, Me) => Honoured
  BY <1>2, <1>4
<1>6. Acquires(r).io = Me.io /\ Me.owns \subseteq Acquires(r).owns
  <2> HIDE DEF Me
  <2> QED
    BY <1>1 DEF Acquires, RunFields
<1>7. Releases(r).io = Me.io /\ \A x \in Me.owns : x \in Releases(r).owns \/ x = Me.obj
  <2> HIDE DEF Me
  <2> QED
    BY <1>1 DEF Releases, RunFields
<1>8. Sends(r, msg).io = Me.io /\ Sends(r, msg).owns = Me.owns
  <2> HIDE DEF Me
  <2> QED
    BY <1>1 DEF Sends, RunFields
<1>9. Leave(r, Acquires(r)) => Honoured
  <2> HIDE DEF Me
  <2> QED
    BY <1>2, <1>4, <1>6
<1>10. Leave(r, Releases(r)) /\ l = "SemPost" => Honoured
  <2> HIDE DEF Me
  <2> QED
    BY <1>2, <1>4, <1>7
<1>11. Leave(r, Sends(r, msg)) => Honoured
  <2> HIDE DEF Me
  <2> QED
    BY <1>2, <1>4, <1>8
<1> QED
  BY <1>5, <1>9, <1>10, <1>11 DEF Quietly, Creates

LEMMA ServicesAnswer ==
  ASSUME Stepping, Locks \/ Messaging \/ Flags \/ Tasks
  PROVE  Honoured
<1>1. ASSUME NEW l, At(l), l \in EventOps, l # "OS_Sched"
      PROVE  ArgOK(l, Me.arg)
  BY <1>1, EventCaller
<1>2. CASE Locks
  <2>1. CASE SemCreate \/ SemAccept \/ SemPend \/ SemReturn
    BY <2>1, SemReplies, QuietlyAnswers DEF SemCreate, SemAccept, SemPend, SemReturn
  <2>2. CASE SemPost \/ SemSet
    BY <2>2, SemReplies, QuietlyAnswers DEF SemPost, SemSet
  <2>3. CASE SemAbort
    <3>1. At("SemPendAbort") /\ "SemPendAbort" \in EventOps
      BY <2>3 DEF SemAbort, EventOps
    <3>2. Me.arg \in {"NONE", "BROADCAST"}
      BY <1>1, <3>1 DEF ArgOK
    <3> QED
      BY <2>3, <3>2, AbortReplies, QuietlyAnswers DEF SemAbort, OSSemPendAbort
  <2> QED
    BY <1>2, <2>1, <2>2, <2>3, NoOthers DEF Locks
<1>3. CASE Messaging
  <2>1. CASE MboxCreate \/ MboxAccept \/ MboxPend \/ MboxReturn
    BY <2>1, MboxReplies, QuietlyAnswers DEF MboxCreate, MboxAccept, MboxPend, MboxReturn
  <2>2. CASE MboxPost \/ MboxPostOpt
    BY <2>2, MboxReplies, QuietlyAnswers DEF MboxPost, MboxPostOpt
  <2>3. CASE MboxAbort \/ QAbort
    <3>1. /\ MboxAbort => At("MboxPendAbort") /\ "MboxPendAbort" \in EventOps
          /\ QAbort => At("QPendAbort") /\ "QPendAbort" \in EventOps
      BY DEF MboxAbort, QAbort, EventOps
    <3>2. Me.arg \in {"NONE", "BROADCAST"}
      BY <1>1, <2>3, <3>1 DEF ArgOK
    <3> QED
      BY <2>3, <3>2, AbortReplies, QuietlyAnswers
         DEF MboxAbort, OSMboxPendAbort, QAbort, OSQPendAbort
  <2>4. CASE QCreate \/ QCreated \/ QAccept \/ QPend \/ QReturn
    BY <2>4, QReplies, QuietlyAnswers DEF QCreate, QCreated, QAccept, QPend, QReturn
  <2>5. CASE QPost \/ QPostFront \/ QPostOpt \/ QFlush
    BY <2>5, QReplies, QuietlyAnswers DEF QPost, QPostFront, QPostOpt, QFlush
  <2>6. CASE MemGet \/ MemPut \/ PendMulti \/ MultiReturn
    BY <2>6, OtherReplies, QuietlyAnswers DEF MemGet, MemPut, PendMulti, MultiReturn
  <2> QED
    BY <1>3, <2>1, <2>2, <2>3, <2>4, <2>5, <2>6, NoOthers DEF Messaging
<1>4. CASE Flags
  <2>1. CASE FlagCreate \/ FlagAccept \/ FlagPend \/ FlagReturn \/ FlagPost
    BY <2>1, OtherReplies, QuietlyAnswers
       DEF FlagCreate, FlagAccept, FlagPend, FlagReturn, FlagPost
  <2> QED
    BY <1>4, <2>1, NoOthers DEF Flags
<1>5. CASE Tasks
  <2>1. CASE TaskDelReq \/ TaskSuspend \/ TaskResume \/ TimeDly
    BY <2>1, TaskReplies, QuietlyAnswers DEF TaskDelReq, TaskSuspend, TaskResume, TimeDly
  <2>2. CASE TimeDlyResume \/ SchedLock \/ SchedUnlock
    BY <2>2, TaskReplies, QuietlyAnswers DEF TimeDlyResume, SchedLock, SchedUnlock
  <2> QED
    BY <1>5, <2>1, <2>2, NoOthers DEF Tasks
<1> QED
  BY <1>2, <1>3, <1>4, <1>5

LEMMA ServicesInOrder ==
  ASSUME Stepping, LocksOK, UartOK, RingsOK, Locks \/ Messaging \/ Flags \/ Tasks
  PROVE  RingsOK'
<1>1. PICK r, m : Honours(r, m)
  BY ServicesAnswer DEF Honoured
<1>2. PICK n : n = Left(r, m)
  OBVIOUS
<1>3. /\ PlainInv /\ Cur \in Tcb /\ StackOK(Me.pc) /\ DOMAIN m = RunFields /\ m.pc = Me.pc
      /\ Me.pc # << >> /\ Head(Me.pc) # "OS_Sched" /\ r.cont \in KernelConts
      /\ uart' = uart /\ run' = [run EXCEPT ![Cur] = n]
  BY <1>1, <1>2, StepperIs DEF Stepping, ThreadOK, Honours, Calling, Alike, Leave, Replies
<1>4. /\ CallInOrder(uart, Me, Cur) /\ Rightful(prog.owned, obj, Me)
      /\ Entitled(prog.owned, os, Me, Cur)
  BY <1>3 DEF RingsOK, LocksOK, Me
<1>5. KeepsIo(m, n) /\ n.pc = r.cont \o Tail(m.pc) /\ n.owns = m.owns
  BY <1>2, <1>3, LeftIo
<1>6. KeepsIo(Me, n) /\ n.pc = r.cont \o Tail(Me.pc)
  BY <1>1, <1>3, <1>5 DEF KeepsIo, Honours
<1>7. Under(Me, "write_lock") /\ "write_lock" \in Me.owns => "write_lock" \in n.owns
  <2> SUFFICES ASSUME Under(Me, "write_lock"), "write_lock" \in Me.owns,
                      Head(Me.pc) = "SemPost", Me.obj = "write_lock"
               PROVE  FALSE
    BY <1>1, <1>5 DEF Honours
  <2>1. PICK i \in DOMAIN Me.pc : LockFor(Me.pc[i]) = "write_lock"
    BY DEF Under
  <2>2. "write_lock" \in prog.owned
    BY <1>4, <2>1 DEF Entitled, NoName
  <2> QED
    BY <1>3, <1>4, <2>1, <2>2 DEF Rightful
<1>8. UartFits(uart) /\ UartFits(uart') /\ Moves(uart, uart')
  BY <1>3, DriverMoves DEF UartOK, UartFits
<1>9. CallInOrder(uart', n, Cur)
  <2> HIDE DEF Me
  <2> QED
    BY <1>3, <1>4, <1>6, <1>7, CallInOrderOn
<1> QED
  BY <1>3, <1>8, <1>9, OneRunsInOrder

LEMMA SchedInOrder ==
  ASSUME Stepping, LocksOK, UartOK, RingsOK, Sched
  PROVE  RingsOK'
<1> DEFINE r == Done(OS_Sched(os))
<1>1. PICK n : n = Left(r, Me)
  OBVIOUS
<1>2. /\ PlainInv /\ Cur \in Tcb /\ StackOK(Me.pc) /\ DOMAIN Me = RunFields
      /\ Me.pc # << >> /\ Head(Me.pc) = "OS_Sched" /\ r.cont = << >>
      /\ uart' = uart /\ run' = [run EXCEPT ![Cur] = n]
  BY <1>1, StepperIs DEF Stepping, ThreadOK, Sched, At, Quietly, Leave, Done
<1>3. CallInOrder(uart, Me, Cur) /\ Shallow(Me)
  BY <1>2 DEF RingsOK, LocksOK, Me
<1> HIDE DEF r
<1>4. KeepsIo(Me, n) /\ n.pc = r.cont \o Tail(Me.pc) /\ n.owns = Me.owns
  BY <1>1, <1>2, LeftIo
<1>5. PICK me : me = Me
  OBVIOUS
<1> HIDE DEF Me
<1>6. /\ me.pc # << >> /\ Head(me.pc) = "OS_Sched" /\ StackOK(me.pc) /\ Shallow(me)
      /\ n.pc = << >> \o Tail(me.pc)
  BY <1>2, <1>3, <1>4, <1>5
<1>7. Shallow(n) /\ \A i \in DOMAIN n.pc : \E m \in DOMAIN me.pc : n.pc[i] = me.pc[m]
  <2>1. StackOK(me.pc) /\ me.pc # << >>
    BY <1>6
  <2>2. Head(me.pc) = "OS_Sched"
    BY <1>6
  <2>3. Shallow(me)
    BY <1>6
  <2>4. n.pc = << >> \o Tail(me.pc)
    BY <1>6
  <2> QED
    BY <2>1, <2>2, <2>3, <2>4, Resumed
<1>8. n.pc # << >> => Head(n.pc) \notin CopyLabels
  <2>1. n.pc # << >> => Head(n.pc) \in Conts \cup WaitLabels
    BY <1>6, SchedReturns
  <2> QED
    BY <2>1 DEF CopyLabels, Conts, WaitLabels
<1>9. \A lock \in Consoles : Under(n, lock) => Under(me, lock)
  BY <1>7 DEF Under
<1>10. CallInOrder(uart, n, Cur)
  BY <1>3, <1>4, <1>5, <1>8, <1>9, StaysInOrder
<1>11. UartFits(uart) /\ UartFits(uart') /\ Moves(uart, uart')
  BY <1>2, DriverMoves DEF UartOK, UartFits
<1> QED
  BY <1>2, <1>10, <1>11, OneRunsInOrder

-----------------------------------------------------------------------------
(* A step of the library, of the descriptors or of the console goes on at  *)
(* the labels next, or calls a service and goes on there.                  *)

QuietLabels == {l \in Labels : LockFor(l) \notin Consoles /\ l \notin CopyLabels}

LEMMA HalLands ==
  ASSUME DOMAIN Me = RunFields, Tail(Me.pc) = << >>,
         NEW m, DOMAIN m = RunFields, m.pc = Me.pc,
         NEW X, NEW next \in Seq(X), Goto(next, m)
  PROVE  \E n : /\ run' = [run EXCEPT ![Cur] = n] /\ n.pc = next /\ KeepsIo(m, n)
                /\ n.owns = m.owns
<1> DEFINE i == [m EXCEPT !.pc = next \o Tail(@)]
           n == Settle(i)
<1>1. /\ DOMAIN i = RunFields /\ i.pc = next \o Tail(m.pc) /\ i.io = m.io
      /\ i.owns = m.owns
  BY DEF RunFields
<1>2. run' = [run EXCEPT ![Cur] = n]
  BY DEF Goto
<1> HIDE DEF i
<1>3. KeepsIo(i, n) /\ n.pc = i.pc /\ n.owns = i.owns
  BY <1>1, SettledIo
<1>4. next \o << >> = next
  OBVIOUS
<1> HIDE DEF n
<1>5. n.pc = next
  BY <1>1, <1>3, <1>4
<1> QED
  BY <1>1, <1>2, <1>3, <1>5 DEF KeepsIo

LEMMA QuietInOrder ==
  ASSUME NEW u, NEW t, NEW m, NEW n, KeepsIo(m, n), n.pc \in Seq(QuietLabels)
  PROVE  CallInOrder(u, n, t)
<1>1. \A lock \in Consoles : ~Under(n, lock)
  <2>1. \A i \in DOMAIN n.pc : n.pc[i] \in QuietLabels
    OBVIOUS
  <2> QED
    BY <2>1 DEF Under, QuietLabels
<1>2. n.pc # << >> => Head(n.pc) \notin CopyLabels
  <2>1. n.pc # << >> => Head(n.pc) \in QuietLabels
    OBVIOUS
  <2> QED
    BY <2>1 DEF QuietLabels
<1>3. n.pc = << >> => n.io.next = 0
  BY DEF KeepsIo, NoIo
<1> QED
  BY <1>1, <1>2, <1>3 DEF CallInOrder, CopyLabels, Consoles

(* A step at l, one of the last labels of a stack, to labels that are none *)
(* of the console's.                                                       *)
LEMMA QuietGoes ==
  ASSUME Stepping, LocksOK, UartOK, RingsOK, NEW l \in HalSteps \ WaitLabels, At(l),
         UNCHANGED << os, obj >>, UartFits(uart'), Moves(uart, uart'),
         NEW m, DOMAIN m = RunFields, m.pc = Me.pc,
         NEW next \in Seq(QuietLabels), Goto(next, m)
  PROVE  RingsOK'
<1>1. DOMAIN Me = RunFields /\ PlainInv
  BY StepperIs DEF ThreadOK, Stepping
<1>2. l # "OS_Sched"
  BY DEF HalSteps, LibLabels, LibOps, IoOps, Conts
<1>3. HalStep(l, Me)
  BY <1>1, <1>2 DEF HalStep, Stepped, SameTask
<1>4. Tail(Me.pc) = << >>
  BY <1>3, HalAt
<1>5. PICK n : run' = [run EXCEPT ![Cur] = n] /\ n.pc = next /\ KeepsIo(m, n)
  <2> HIDE DEF Me
  <2> QED
    BY <1>1, <1>4, HalLands
<1>6. n.pc \in Seq(QuietLabels)
  BY <1>5
<1>7. CallInOrder(uart', n, Cur)
  BY <1>5, <1>6, QuietInOrder
<1> QED
  BY <1>1, <1>5, <1>7, OneRunsInOrder

LEMMA QuietNext ==
  ASSUME NEW l \in QuietLabels
  PROVE  /\ << >> \in Seq(QuietLabels) /\ << l >> \in Seq(QuietLabels)
         /\ \A k \in QuietLabels : << l, k >> \in Seq(QuietLabels)
                                   /\ << l >> \o << k >> \in Seq(QuietLabels)
         /\ << l >> \o << >> \in Seq(QuietLabels)
  OBVIOUS

LEMMA QuietOnes ==
  {"LibQuery", "LibTest", "LibGot", "SemPend", "SemPost", "GetFd", "MaxFd", "OpenFlags",
   "FileLocked", "ClearFd", "FreeFd", "FdLock", "FlagPend", "ReadEnable"} \subseteq QuietLabels
  BY DEF QuietLabels, CopyLabels, Labels, Conts, PlainOps, EventOps, FlagOps, LockFor,
         Consoles, NoName

LEMMA QuietCalls ==
  ASSUME DOMAIN Me = RunFields,
         NEW m, DOMAIN m = RunFields, m.pc = Me.pc, NEW op, NEW name, NEW arg, NEW next,
         Calls(op, name, arg, next, m)
  PROVE  \E c : /\ DOMAIN c = RunFields /\ c.pc = Me.pc /\ c.io = m.io /\ c.owns = m.owns
                /\ Goto(<< op >> \o next, c)
<1> DEFINE c == [m EXCEPT !.obj = name, !.ev = obj[name], !.arg = arg]
<1>1. DOMAIN c = RunFields /\ c.pc = m.pc /\ c.io = m.io /\ c.owns = m.owns
  BY DEF RunFields
<1>2. Goto(<< op >> \o next, c)
  BY DEF Calls
<1> HIDE DEF c
<1> QED
  BY <1>1, <1>2

Hushed ==
    \E m : /\ DOMAIN m = RunFields /\ m.pc = Me.pc
           /\ \E next \in Seq(QuietLabels) : Goto(next, m)

LEMMA HushedIf ==
  ASSUME DOMAIN Me = RunFields, NEW m, DOMAIN m = RunFields, m.pc = Me.pc
  PROVE  /\ Goto(<< >>, m) => Hushed
         /\ \A c \in QuietLabels : Goto(<< c >>, m) => Hushed
         /\ Goto(<< "ClearFd", "FreeFd" >>, m) => Hushed
         /\ \A op \in QuietLabels : \A name, arg : Calls(op, name, arg, << >>, m) => Hushed
         /\ \A op \in QuietLabels, c \in QuietLabels : \A name, arg :
              Calls(op, name, arg, << c >>, m) => Hushed
<1>1. ASSUME NEW i, DOMAIN i = RunFields, i.pc = Me.pc, NEW next \in Seq(QuietLabels),
             Goto(next, i)
      PROVE  Hushed
  BY <1>1 DEF Hushed
<1>2. << >> \in Seq(QuietLabels) /\ \A c \in QuietLabels : << c >> \in Seq(QuietLabels)
  OBVIOUS
<1>3. << "ClearFd", "FreeFd" >> \in Seq(QuietLabels)
  BY QuietOnes, QuietNext
<1>4. ASSUME NEW op \in QuietLabels, NEW name, NEW arg, Calls(op, name, arg, << >>, m)
      PROVE  Hushed
  <2>1. PICK c : DOMAIN c = RunFields /\ c.pc = Me.pc /\ Goto(<< op >> \o << >>, c)
    <3> HIDE DEF Me
    <3> QED
      BY <1>4, QuietCalls
  <2>2. << op >> \o << >> \in Seq(QuietLabels)
    BY QuietNext
  <2> QED
    BY <1>1, <2>1, <2>2
<1>5. ASSUME NEW op \in QuietLabels, NEW k \in QuietLabels, NEW name, NEW arg,
             Calls(op, name, arg, << k >>, m)
      PROVE  Hushed
  <2>1. PICK c : DOMAIN c = RunFields /\ c.pc = Me.pc /\ Goto(<< op >> \o << k >>, c)
    <3> HIDE DEF Me
    <3> QED
      BY <1>5, QuietCalls
  <2>2. << op >> \o << k >> \in Seq(QuietLabels)
    BY QuietNext
  <2> QED
    BY <1>1, <2>1, <2>2
<1> HIDE DEF Me
<1> QED
  BY <1>1, <1>2, <1>3, <1>4, <1>5

LEMMA HushedInOrder ==
  ASSUME Stepping, LocksOK, UartOK, RingsOK, NEW l \in HalSteps \ WaitLabels, At(l),
         UNCHANGED << os, obj >>, UartFits(uart'), Moves(uart, uart'), Hushed
  PROVE  RingsOK'
<1>1. PICK m : /\ DOMAIN m = RunFields /\ m.pc = Me.pc
               /\ \E next \in Seq(QuietLabels) : Goto(next, m)
  BY DEF Hushed
<1> HIDE DEF Me
<1> QED
  BY <1>1, QuietGoes

LEMMA HalLabels ==
  /\ \A l \in {"LibLock", "LibQuery", "LibTest", "LibGot", "LibUnlock", "Open", "GetFd",
               "MaxFd", "OpenFlags", "FileLocked", "Close", "Ioctl", "FdLock", "Fcntl",
               "Write", "WriteLook", "WriteCopy", "WriteStart", "WriteWoken", "Read",
               "ReadLook", "ReadCopy", "ReadDone", "ReadWoken", "ReadEnable"} :
       l \in HalSteps \ WaitLabels
  BY DEF HalSteps, LibLabels, LibOps, IoOps, Conts, WaitLabels

LEMMA LibraryInOrder ==
  ASSUME Stepping, LocksOK, UartOK, RingsOK, Library
  PROVE  RingsOK'
<1>1. DOMAIN Me = RunFields /\ IoOK(Me.io)
  BY IoFields
<1>2. /\ UNCHANGED << os, obj, uart >> /\ UartFits(uart') /\ Moves(uart, uart')
  BY DriverMoves
     DEF Library, LibLock, LibQuery, LibNests, LibWaits, LibGot, LibUnlock, UartOK, UartFits
<1>3. ASSUME NEW l \in HalSteps \ WaitLabels, At(l), Hushed PROVE RingsOK'
  BY <1>2, <1>3, HushedInOrder
<1>4. CASE LibLock
  <2> DEFINE m == [Me EXCEPT !.io.id = os.tcb[Cur].prio]
  <2>1. DOMAIN m = RunFields /\ m.pc = Me.pc
    BY <1>1 DEF RunFields
  <2>2. Goto(<< "LibQuery" >>, m) /\ At("LibLock")
    BY <1>4 DEF LibLock
  <2> HIDE DEF m
  <2> QED
    BY <1>1, <1>3, <2>1, <2>2, HushedIf, QuietOnes, HalLabels
<1>5. CASE LibQuery
  <2> DEFINE q == OSSemQuery(os, Me.ev)
             m == [Me EXCEPT !.io.cnt = q.cnt, !.io.grp = (q.grp # {})]
  <2>1. DOMAIN m = RunFields /\ m.pc = Me.pc
    BY <1>1 DEF RunFields
  <2>2. Goto(<< "LibTest" >>, m) /\ At("LibQuery")
    BY <1>5 DEF LibQuery
  <2> HIDE DEF m
  <2> QED
    BY <1>1, <1>3, <2>1, <2>2, HushedIf, QuietOnes, HalLabels
<1>6. CASE LibNests \/ LibGot
  <2>1. Goto(<< >>, Me) /\ (At("LibTest") \/ At("LibGot"))
    BY <1>6 DEF LibNests, LibGot
  <2> QED
    BY <1>1, <1>3, <2>1, HushedIf, HalLabels
<1>7. CASE LibWaits
  <2>1. Calls("SemPend", Me.obj, 0, << "LibGot" >>, Me) /\ At("LibTest")
    BY <1>7 DEF LibWaits
  <2> QED
    BY <1>1, <1>3, <2>1, HushedIf, QuietOnes, HalLabels
<1>8. CASE LibUnlock
  <2>1. At("LibUnlock") /\ (Calls("SemPost", Me.obj, Null, << >>, Me) \/ Goto(<< >>, Me))
    BY <1>8 DEF LibUnlock
  <2> QED
    BY <1>1, <1>3, <2>1, HushedIf, QuietOnes, HalLabels
<1> QED
  BY <1>4, <1>5, <1>6, <1>7, <1>8 DEF Library

LEMMA UartThen ==
  ASSUME UartOK'
  PROVE  UartFits(uart')
  BY DEF UartOK, UartFits

LEMMA FilesInOrder ==
  ASSUME Stepping, LocksOK, UartOK, RingsOK, FileCalls, ~ReleaseFd
  PROVE  RingsOK'
<1>1. DOMAIN Me = RunFields /\ IoOK(Me.io) /\ UartFits(uart)
  BY IoFields
<1>2. UNCHANGED << os, obj >>
  BY DEF FileCalls, Open, GetFd, GotFd, OpenFd, FileLocked, Close, Ioctl, FdLock, Fcntl
<1>3. UartFits(uart') /\ Moves(uart, uart')
  <2>1. uart' = uart \/ \E seconds : uart' = SetTimeout(uart, seconds)
    BY DEF FileCalls, Open, GetFd, GotFd, OpenFd, FileLocked, Close, Ioctl, FdLock, Fcntl
  <2>2. UartFits(uart')
    BY FilesIo, UartThen
  <2> QED
    BY <1>1, <2>1, <2>2, DriverMoves
<1>4. ASSUME NEW l \in HalSteps \ WaitLabels, At(l), Hushed PROVE RingsOK'
  BY <1>2, <1>3, <1>4, HushedInOrder
<1>5. ASSUME NEW m, DOMAIN m = RunFields, m.pc = Me.pc
      PROVE  /\ Goto(<< >>, m) => Hushed
             /\ \A c \in {"GetFd", "MaxFd", "FileLocked", "FdLock"} :
                  Goto(<< c >>, m) => Hushed
             /\ Goto(<< "ClearFd", "FreeFd" >>, m) => Hushed
             /\ \A c \in {"GetFd", "FdLock"} :
                  Calls("SemPend", "fd_lock", 0, << c >>, m) => Hushed
             /\ Calls("SemPost", "fd_lock", Null, << >>, m) => Hushed
             /\ Calls("SemPost", "fd_lock", Null, << "OpenFlags" >>, m) => Hushed
  <2> HIDE DEF Me
  <2> QED
    BY <1>1, <1>5, HushedIf, QuietOnes
<1>6. CASE Open
  <2> DEFINE m == [Me EXCEPT !.io.fd = StdErr + 1, !.io.want = Me.arg]
  <2>1. DOMAIN m = RunFields /\ m.pc = Me.pc
    BY <1>1 DEF RunFields
  <2>2. At("Open") /\ (Goto(<< >>, Me) \/ Calls("SemPend", "fd_lock", 0, << "GetFd" >>, m))
    BY <1>6 DEF Open
  <2> HIDE DEF m
  <2> QED
    BY <1>1, <1>4, <1>5, <2>1, <2>2, HalLabels
<1>7. CASE GetFd
  <2> DEFINE m == [Me EXCEPT !.io.fd = Me.io.fd + 1]
  <2>1. DOMAIN m = RunFields /\ m.pc = Me.pc
    BY <1>1 DEF RunFields
  <2>2. /\ \/ Calls("SemPost", "fd_lock", Null, << >>, Me)
           \/ Goto(<< "GetFd" >>, m)
           \/ Goto(<< "MaxFd" >>, Me)
        /\ At("GetFd")
    BY <1>7 DEF GetFd
  <2> HIDE DEF m
  <2> QED
    BY <1>1, <1>4, <1>5, <2>1, <2>2, HalLabels
<1>8. CASE GotFd
  <2>1. Calls("SemPost", "fd_lock", Null, << "OpenFlags" >>, Me) /\ At("MaxFd")
    BY <1>8 DEF GotFd
  <2> QED
    BY <1>1, <1>4, <1>5, <2>1, HalLabels
<1>9. CASE OpenFd
  <2> DEFINE m == [Me EXCEPT !.io.next = StdErr]
  <2>1. DOMAIN m = RunFields /\ m.pc = Me.pc
    BY <1>1 DEF RunFields
  <2>2. Goto(<< "FileLocked" >>, m) /\ At("OpenFlags")
    BY <1>9 DEF OpenFd
  <2> HIDE DEF m
  <2> QED
    BY <1>1, <1>4, <1>5, <2>1, <2>2, HalLabels
<1>10. CASE FileLocked
  <2> DEFINE m == [Me EXCEPT !.fds = @ \cup {Me.io.fd}]
             n == [Me EXCEPT !.io.next = Me.io.next + 1]
  <2>1. DOMAIN m = RunFields /\ m.pc = Me.pc /\ DOMAIN n = RunFields /\ n.pc = Me.pc
    BY <1>1 DEF RunFields
  <2>2. /\ \/ Goto(<< >>, m) \/ Goto(<< "ClearFd", "FreeFd" >>, Me)
           \/ Goto(<< "FileLocked" >>, n)
        /\ At("FileLocked")
    BY <1>10 DEF FileLocked
  <2> HIDE DEF m, n
  <2> QED
    BY <1>1, <1>4, <1>5, <2>1, <2>2, HalLabels
<1>11. CASE Close
  <2> DEFINE m == [Me EXCEPT !.fds = @ \ {Me.io.fd}]
  <2>1. DOMAIN m = RunFields /\ m.pc = Me.pc
    BY <1>1 DEF RunFields
  <2>2. Goto(<< "ClearFd", "FreeFd" >>, m) /\ At("Close")
    BY <1>11 DEF Close
  <2> HIDE DEF m
  <2> QED
    BY <1>1, <1>4, <1>5, <2>1, <2>2, HalLabels
<1>12. CASE Fcntl
  <2>1. Goto(<< >>, Me) /\ At("Fcntl")
    BY <1>12 DEF Fcntl
  <2> QED
    BY <1>1, <1>4, <1>5, <2>1, HalLabels
<1>13. CASE Ioctl
  <2> DEFINE m == [Me EXCEPT !.io.next = StdErr]
  <2>1. DOMAIN m = RunFields /\ m.pc = Me.pc
    BY <1>1 DEF RunFields
  <2>2. /\ Calls("SemPend", "fd_lock", 0, << "FdLock" >>, m) \/ Goto(<< >>, Me)
        /\ At("Ioctl")
    BY <1>13 DEF Ioctl
  <2> HIDE DEF m
  <2> QED
    BY <1>1, <1>4, <1>5, <2>1, <2>2, HalLabels
<1>14. CASE FdLock
  <2> DEFINE n == [Me EXCEPT !.io.next = Me.io.next + 1]
  <2>1. DOMAIN n = RunFields /\ n.pc = Me.pc
    BY <1>1 DEF RunFields
  <2>2. /\ Calls("SemPost", "fd_lock", Null, << >>, Me) \/ Goto(<< "FdLock" >>, n)
        /\ At("FdLock")
    BY <1>14 DEF FdLock
  <2> HIDE DEF n
  <2> QED
    BY <1>1, <1>4, <1>5, <2>1, <2>2, HalLabels
<1> QED
  BY <1>6, <1>7, <1>8, <1>9, <1>10, <1>11, <1>12, <1>13, <1>14 DEF FileCalls

LEMMA ReleaseInOrder ==
  ASSUME Stepping, LocksOK, UartOK, RingsOK, ReleaseFd
  PROVE  RingsOK'
<1>1. PICK cont : cont = << >>
  OBVIOUS
<1> DEFINE i == [Me EXCEPT !.pc = cont \o Tail(@)]
           n == Settle(i)
<1>2. /\ PlainInv /\ Cur \in Tcb /\ StackOK(Me.pc) /\ DOMAIN Me = RunFields
      /\ Me.pc # << >> /\ Head(Me.pc) # "OS_Sched" /\ uart' = uart
  BY StepperIs DEF Stepping, ThreadOK, ReleaseFd, At
<1>3. run' = [run EXCEPT ![Cur] = n]
  BY <1>1 DEF ReleaseFd, Goto
<1>4. DOMAIN i = RunFields /\ i.pc = cont \o Tail(Me.pc) /\ i.io = Me.io /\ i.owns = Me.owns
  BY <1>2 DEF RunFields
<1> HIDE DEF i
<1>5. KeepsIo(i, n) /\ n.pc = i.pc /\ n.owns = i.owns
  BY <1>4, SettledIo
<1> HIDE DEF n
<1>6. KeepsIo(Me, n) /\ n.pc = cont \o Tail(Me.pc) /\ n.owns = Me.owns
  BY <1>4, <1>5 DEF KeepsIo
<1>7. CallInOrder(uart, Me, Cur)
  BY <1>2 DEF RingsOK, Me
<1>8. cont \in KernelConts
  BY <1>1 DEF KernelConts, CallConts
<1>9. UartFits(uart') /\ Moves(uart, uart')
  BY <1>2, DriverMoves DEF UartOK, UartFits
<1>10. CallInOrder(uart', n, Cur)
  <2> HIDE DEF Me
  <2> QED
    BY <1>2, <1>6, <1>7, <1>8, CallInOrderOn
<1> QED
  BY <1>2, <1>3, <1>9, <1>10, OneRunsInOrder

LEMMA ApplyInOrder ==
  ASSUME Stepping, LocksOK, UartOK, RingsOK, Apply
  PROVE  RingsOK'
<1>1. /\ Me.pc = << >> /\ uart' = uart
  BY DEF Apply, Stepping
<1>2. PICK c \in Me.menu : \E fd \in Descriptors(c) :
        run' = [run EXCEPT ![Cur] =
             [@ EXCEPT !.pc = << c.op >>, !.obj = c.obj, !.ev = Handle(c),
                       !.arg = Message(c), !.io.fd = fd]]
  BY DEF Apply
<1>3. PICK fd \in Descriptors(c) :
        run' = [run EXCEPT ![Cur] =
             [@ EXCEPT !.pc = << c.op >>, !.obj = c.obj, !.ev = Handle(c),
                       !.arg = Message(c), !.io.fd = fd]]
  BY <1>2
<1> DEFINE m == [Me EXCEPT !.pc = << c.op >>, !.obj = c.obj, !.ev = Handle(c),
                           !.arg = Message(c), !.io.fd = fd]
<1>4. run' = [run EXCEPT ![Cur] = m]
  BY <1>3 DEF Me
<1>5. /\ Plain(prog) /\ Cur \in Tcb /\ ThreadOK(prog, os, Me) /\ PlainInv
  BY StepperIs DEF Stepping
<1>6. DOMAIN Me = RunFields /\ Me.menu \subseteq CallsOf(prog) /\ DOMAIN Me.io = DOMAIN NoIo
  BY <1>5, IoFields DEF ThreadOK
<1>7. m.pc = << c.op >> /\ m.io.next = Me.io.next
  BY <1>6 DEF RunFields, NoIo
<1>8. CallInOrder(uart, Me, Cur)
  BY <1>5 DEF RingsOK, Me
<1> HIDE DEF m
<1>9. c.op \in PlainOps
  <2>1. c \in CallsOf(prog)
    BY <1>6
  <2> QED
    BY <1>5, <2>1 DEF Plain, CallPlain
<1>10. LockFor(c.op) = NoName /\ c.op \notin {"WriteCopy", "ReadCopy"}
  BY <1>9, OpsAre DEF LockFor, NoName
<1>11. m.io.next = 0
  BY <1>1, <1>7, <1>8 DEF CallInOrder
<1>12. m.pc # << >> /\ Head(m.pc) = c.op /\ \A i \in DOMAIN m.pc : m.pc[i] = c.op
  BY <1>7
<1>13. ~Under(m, "read_lock") /\ ~Under(m, "write_lock")
  BY <1>10, <1>12 DEF Under, NoName
<1>14. CallInOrder(uart', m, Cur)
  BY <1>10, <1>11, <1>12, <1>13 DEF CallInOrder
<1>15. UartFits(uart') /\ Moves(uart, uart')
  BY <1>1, DriverMoves DEF UartOK, UartFits
<1> QED
  BY <1>4, <1>5, <1>14, <1>15, OneRunsInOrder

-----------------------------------------------------------------------------
(* The calls of the console: where a write or a read goes between two      *)
(* copies, what it has looked at is not used any more.                     *)

WriteWay == {"SemPend", "SemPost", "FlagPend", "WriteLook", "WriteStart", "WriteWoken"}
ReadWay == {"SemPend", "SemPost", "FlagPend", "ReadLook", "ReadDone", "ReadWoken",
            "ReadEnable"}

(* The task goes on with the call whose locals are m's.                    *)
Onwards(m, X) ==
    \E c : /\ DOMAIN c = RunFields /\ c.pc = Me.pc /\ c.io = m.io /\ c.owns = m.owns
           /\ \E next \in Seq(X) : Goto(next, c)

LEMMA OnwardsIf ==
  ASSUME DOMAIN Me = RunFields, NEW m, DOMAIN m = RunFields, m.pc = Me.pc, NEW X
  PROVE  /\ \A c \in X : Goto(<< c >>, m) => Onwards(m, X)
         /\ \A op \in X : \A name, arg : Calls(op, name, arg, << >>, m) => Onwards(m, X)
         /\ \A op \in X, c \in X : \A name, arg :
              Calls(op, name, arg, << c >>, m) => Onwards(m, X)
<1>1. ASSUME NEW c \in X, Goto(<< c >>, m) PROVE Onwards(m, X)
  <2>1. << c >> \in Seq(X)
    OBVIOUS
  <2> HIDE DEF Me
  <2> QED
    BY <1>1, <2>1 DEF Onwards
<1>2. ASSUME NEW op \in X, NEW name, NEW arg, Calls(op, name, arg, << >>, m)
      PROVE  Onwards(m, X)
  <2>1. << op >> \o << >> \in Seq(X)
    OBVIOUS
  <2> HIDE DEF Me
  <2>2. PICK c : /\ DOMAIN c = RunFields /\ c.pc = Me.pc /\ c.io = m.io /\ c.owns = m.owns
                 /\ Goto(<< op >> \o << >>, c)
    BY <1>2, QuietCalls
  <2> QED
    BY <2>1, <2>2 DEF Onwards
<1>3. ASSUME NEW op \in X, NEW k \in X, NEW name, NEW arg, Calls(op, name, arg, << k >>, m)
      PROVE  Onwards(m, X)
  <2>1. << op >> \o << k >> \in Seq(X)
    OBVIOUS
  <2> HIDE DEF Me
  <2>2. PICK c : /\ DOMAIN c = RunFields /\ c.pc = Me.pc /\ c.io = m.io /\ c.owns = m.owns
                 /\ Goto(<< op >> \o << k >>, c)
    BY <1>3, QuietCalls
  <2> QED
    BY <2>1, <2>2 DEF Onwards
<1> QED
  BY <1>1, <1>2, <1>3

LEMMA OnwardsTo ==
  ASSUME DOMAIN Me = RunFields, Tail(Me.pc) = << >>, NEW m, NEW X, Onwards(m, X)
  PROVE  \E n : /\ run' = [run EXCEPT ![Cur] = n] /\ n.pc \in Seq(X) /\ KeepsIo(m, n)
                /\ n.owns = m.owns
<1> HIDE DEF Me
<1>1. PICK c : /\ DOMAIN c = RunFields /\ c.pc = Me.pc /\ c.io = m.io /\ c.owns = m.owns
               /\ \E next \in Seq(X) : Goto(next, c)
  BY DEF Onwards
<1>2. PICK next \in Seq(X) : Goto(next, c)
  BY <1>1
<1>3. PICK n : /\ run' = [run EXCEPT ![Cur] = n] /\ n.pc = next /\ KeepsIo(c, n)
               /\ n.owns = c.owns
  BY <1>1, <1>2, HalLands
<1> QED
  BY <1>1, <1>2, <1>3 DEF KeepsIo

(* A write has the lock and what it has written comes last.                *)
Wrote(u, t, m) ==
    m.io.next # 0 => "write_lock" \in m.owns /\ Newest(u) = [by |-> t, i |-> m.io.next]

LEMMA WriterInOrder ==
  ASSUME NEW u, NEW t, NEW m, NEW n, KeepsIo(m, n), n.owns = m.owns,
         n.pc \in Seq(WriteWay), Wrote(u, t, m)
  PROVE  CallInOrder(u, n, t)
<1>1. \A i \in DOMAIN n.pc : n.pc[i] \in WriteWay
  OBVIOUS
<1>2. n.pc # << >> => Head(n.pc) \in WriteWay
  OBVIOUS
<1>3. ~Under(n, "read_lock")
  BY <1>1 DEF Under, LockFor, WriteWay, NoName
<1>4. n.pc # << >> => Head(n.pc) \notin CopyLabels
  BY <1>2 DEF WriteWay, CopyLabels
<1>5. n.pc = << >> => n.io.next = 0
  BY DEF KeepsIo, NoIo
<1>6. n.io.next # 0 => n.pc # << >> /\ n.io = m.io
  BY <1>5 DEF KeepsIo
<1> QED
  BY <1>3, <1>4, <1>5, <1>6 DEF CallInOrder, CopyLabels, Wrote

LEMMA ReaderInOrder ==
  ASSUME NEW u, NEW t, NEW m, NEW n, KeepsIo(m, n), n.pc \in Seq(ReadWay), m.io.left >= 0
  PROVE  CallInOrder(u, n, t)
<1>1. \A i \in DOMAIN n.pc : n.pc[i] \in ReadWay
  OBVIOUS
<1>2. n.pc # << >> => Head(n.pc) \in ReadWay
  OBVIOUS
<1>3. ~Under(n, "write_lock")
  BY <1>1 DEF Under, LockFor, ReadWay, NoName
<1>4. n.pc # << >> => Head(n.pc) \notin CopyLabels
  BY <1>2 DEF ReadWay, CopyLabels
<1>5. n.pc = << >> => n.io.next = 0
  BY DEF KeepsIo, NoIo
<1>6. Under(n, "read_lock") => n.io = m.io
  BY UnderStands DEF KeepsIo
<1> QED
  BY <1>3, <1>4, <1>5, <1>6 DEF CallInOrder, CopyLabels

ConsoleSteps == {"Write", "WriteLook", "WriteCopy", "WriteStart", "WriteWoken",
                 "Read", "ReadLook", "ReadCopy", "ReadDone", "ReadWoken"}

(* What the lemmas of this section start from: a call of the console at l. *)
OnConsole(l) ==
    /\ Stepping /\ LocksOK /\ UartOK /\ RingsOK /\ Guarded(prog)
    /\ At(l) /\ l \in ConsoleSteps /\ UNCHANGED << os, obj >>

LEMMA ConsoleAt ==
  ASSUME NEW l, OnConsole(l)
  PROVE  /\ Cur \in Tcb /\ DOMAIN Me = RunFields /\ Tail(Me.pc) = << >>
         /\ Me.pc # << >> /\ Head(Me.pc) = l /\ PlainInv /\ Running /\ UartOK /\ LocksOK
         /\ RingsOK
         /\ UartFits(uart) /\ IoOK(Me.io) /\ InOrder(uart) /\ CallInOrder(uart, Me, Cur)
         /\ l \in {"Write", "Read"} => Me.arg.n \in Nat
         /\ LockFor(l) # NoName => LockFor(l) \in prog.owned /\ LockFor(l) \in Me.owns
                                   /\ Under(Me, LockFor(l))
<1>1. l \notin WaitLabels \cup {"OS_Sched"} /\ l \in HalSteps
  BY DEF OnConsole, ConsoleSteps, WaitLabels, HalSteps, IoOps, Conts
<1>2. Stepping /\ At(l) /\ LocksOK /\ UartOK /\ RingsOK /\ UNCHANGED << os, obj >>
  BY DEF OnConsole
<1>3. DOMAIN Me = RunFields /\ IoOK(Me.io) /\ UartFits(uart)
  BY <1>2, IoFields
<1>4. HalStep(l, Me)
  BY <1>1, <1>2, <1>3 DEF HalStep, Stepped, SameTask
<1>5. /\ Tail(Me.pc) = << >> /\ Me.pc # << >> /\ Head(Me.pc) = l
      /\ Cur \in Tcb /\ PlainInv /\ Running
      /\ LockFor(l) # NoName => LockFor(l) \in prog.owned /\ LockFor(l) \in Me.owns
      /\ HeadOK(prog, os, Me, l)
  BY <1>4, HalAt
<1>6. l \in {"Write", "Read"} => Me.arg.n \in Nat
  BY <1>5 DEF HeadOK, ArgOK
<1>7. InOrder(uart) /\ CallInOrder(uart, Me, Cur)
  BY <1>2, <1>5 DEF RingsOK, Me
<1>8. StackOK(Me.pc)
  BY <1>5 DEF PlainInv, ThreadsOK, ThreadOK, Me
<1>9. Under(Me, LockFor(l))
  <2> HIDE DEF Me
  <2>1. Me.pc \in Seq(Labels)
    BY <1>8 DEF StackOK
  <2>2. 1 \in DOMAIN Me.pc /\ Me.pc[1] = l
    BY <1>5, <2>1
  <2> QED
    BY <2>2 DEF Under
<1> QED
  BY <1>2, <1>3, <1>5, <1>6, <1>7, <1>9

LEMMA WriteGoes ==
  ASSUME NEW l, OnConsole(l), NEW m, Onwards(m, WriteWay), Wrote(uart, Cur, m),
         UartFits(uart'), Moves(uart, uart')
  PROVE  RingsOK'
<1>1. /\ PlainInv /\ DOMAIN Me = RunFields /\ Tail(Me.pc) = << >> /\ UartOK /\ RingsOK
  BY ConsoleAt
<1>2. PICK n : /\ run' = [run EXCEPT ![Cur] = n] /\ n.pc \in Seq(WriteWay) /\ KeepsIo(m, n)
               /\ n.owns = m.owns
  <2> HIDE DEF Me
  <2> QED
    BY <1>1, OnwardsTo
<1>3. Wrote(uart', Cur, m)
  BY DEF Moves, Drains, Newest, Wrote
<1>4. CallInOrder(uart', n, Cur)
  BY <1>2, <1>3, WriterInOrder
<1> QED
  BY <1>1, <1>2, <1>4, OneRunsInOrder

LEMMA ReadGoes ==
  ASSUME NEW l, OnConsole(l), NEW m, Onwards(m, ReadWay), m.io.left >= 0,
         UartFits(uart'), Moves(uart, uart')
  PROVE  RingsOK'
<1>1. /\ PlainInv /\ DOMAIN Me = RunFields /\ Tail(Me.pc) = << >> /\ UartOK /\ RingsOK
  BY ConsoleAt
<1>2. PICK n : /\ run' = [run EXCEPT ![Cur] = n] /\ n.pc \in Seq(ReadWay) /\ KeepsIo(m, n)
               /\ n.owns = m.owns
  <2> HIDE DEF Me
  <2> QED
    BY <1>1, OnwardsTo
<1>4. CallInOrder(uart', n, Cur)
  BY <1>2, ReaderInOrder
<1> QED
  BY <1>1, <1>2, <1>4, OneRunsInOrder

LEMMA GivesUp ==
  ASSUME NEW l, OnConsole(l), Goto(<< >>, Me), uart' = uart
  PROVE  RingsOK'
<1>1. DOMAIN Me = RunFields /\ UartFits(uart)
  BY ConsoleAt
<1>2. l \in HalSteps \ WaitLabels
  BY HalLabels DEF OnConsole, ConsoleSteps
<1>3. Hushed
  BY <1>1, HushedIf
<1>4. UartFits(uart') /\ Moves(uart, uart')
  BY <1>1, DriverMoves
<1> QED
  BY <1>2, <1>3, <1>4, HushedInOrder DEF OnConsole

LEMMA WriteWayIs ==
  /\ {"SemPend", "SemPost", "FlagPend", "WriteLook", "WriteStart", "WriteWoken"}
       \subseteq WriteWay
  /\ {"SemPend", "SemPost", "FlagPend", "ReadLook", "ReadDone", "ReadWoken", "ReadEnable"}
       \subseteq ReadWay
  /\ \A l \in {"WriteLook", "WriteCopy", "WriteStart", "WriteWoken"} :
       LockFor(l) = "write_lock"
  /\ \A l \in {"ReadLook", "ReadCopy", "ReadDone", "ReadWoken"} : LockFor(l) = "read_lock"
  /\ "write_lock" # NoName /\ "read_lock" # NoName
  BY DEF WriteWay, ReadWay, LockFor, NoName

LEMMA Writing ==
  ASSUME NEW l, OnConsole(l), LockFor(l) = "write_lock"
  PROVE  Wrote(uart, Cur, Me)
<1> HIDE DEF Me
<1> QED
  BY ConsoleAt, WriteWayIs DEF CallInOrder, Wrote

LEMMA Reading ==
  ASSUME NEW l, OnConsole(l), LockFor(l) = "read_lock"
  PROVE  Me.io.left >= 0
<1> HIDE DEF Me
<1> QED
  BY ConsoleAt, WriteWayIs DEF CallInOrder

LEMMA BeginsIs ==
  ASSUME DOMAIN Me = RunFields, IoOK(Me.io)
  PROVE  /\ DOMAIN Begins = RunFields /\ Begins.pc = Me.pc
         /\ Begins.io.next = Me.io.next /\ Begins.io.left = Me.arg.n
  BY DEF Begins, RunFields, IoOK, NoIo

LEMMA LookedIs ==
  ASSUME DOMAIN Me = RunFields, IoOK(Me.io), NEW in, NEW out
  PROVE  LET m == Looked(in, out) IN
         /\ DOMAIN m = RunFields /\ m.pc = Me.pc /\ m.owns = Me.owns
         /\ m.io.next = Me.io.next /\ m.io.left = Me.io.left
         /\ m.io.in = in /\ m.io.out = out
  BY DEF Looked, RunFields, IoOK, NoIo

LEMMA CopiedIs ==
  ASSUME DOMAIN Me = RunFields, IoOK(Me.io), NEW n
  PROVE  LET m == Copied(n) IN
         /\ DOMAIN m = RunFields /\ m.pc = Me.pc /\ m.owns = Me.owns
         /\ m.io.next = Me.io.next + n /\ m.io.left = Me.io.left - n
<1> DEFINE i == Looked(0, 0)
<1>1. /\ DOMAIN i = RunFields /\ i.pc = Me.pc /\ i.owns = Me.owns /\ DOMAIN i.io = DOMAIN NoIo
      /\ i.io.next = Me.io.next /\ i.io.left = Me.io.left
  BY DEF Looked, RunFields, IoOK, NoIo
<1>2. PICK a, b : a = i.io.next + n /\ b = i.io.left - n
  OBVIOUS
<1>3. Copied(n) = [i EXCEPT !.io.next = a, !.io.left = b]
  BY <1>1, <1>2 DEF Copied, RunFields, NoIo
<1>4. PICK m : m = [i EXCEPT !.io.next = a, !.io.left = b]
  OBVIOUS
<1> HIDE DEF i, Me
<1>5. /\ DOMAIN m = RunFields /\ m.pc = Me.pc /\ m.owns = Me.owns
      /\ m.io.next = a /\ m.io.left = b
  BY <1>1, <1>4 DEF RunFields, NoIo
<1> QED
  BY <1>1, <1>2, <1>3, <1>4, <1>5

LEMMA WriteTurns ==
  ASSUME Stepping, LocksOK, UartOK, RingsOK, Guarded(prog),
         WriteBegin \/ WriteStart \/ WriteWoken
  PROVE  RingsOK'
<1>1. CASE WriteBegin
  <2>1. OnConsole("Write") /\ uart' = uart
    BY <1>1 DEF WriteBegin, OnConsole, ConsoleSteps
  <2>2. \/ Goto(<< >>, Me)
        \/ Calls("SemPend", "write_lock", 0, << "WriteLook" >>, Begins)
    BY <1>1 DEF WriteBegin
  <2>3. /\ DOMAIN Me = RunFields /\ IoOK(Me.io) /\ UartFits(uart) /\ CallInOrder(uart, Me, Cur)
        /\ Head(Me.pc) = "Write"
    BY <2>1, ConsoleAt
  <2>4. PICK m : m = Begins
    OBVIOUS
  <2>5. DOMAIN m = RunFields /\ m.pc = Me.pc /\ m.io.next = Me.io.next
    BY <2>3, <2>4, BeginsIs
  <2>6. Wrote(uart, Cur, m)
    BY <2>3, <2>5 DEF CallInOrder, Wrote
  <2> HIDE DEF Me
  <2>7. Goto(<< >>, Me) \/ Onwards(m, WriteWay)
    BY <2>2, <2>3, <2>4, <2>5, OnwardsIf, WriteWayIs
  <2>8. UartFits(uart') /\ Moves(uart, uart')
    BY <2>1, <2>3, DriverMoves
  <2> QED
    BY <2>1, <2>6, <2>7, <2>8, WriteGoes, GivesUp
<1>2. CASE WriteStart
  <2>1. OnConsole("WriteStart") /\ uart' = EnableWrite(uart)
    BY <1>2 DEF WriteStart, OnConsole, ConsoleSteps
  <2>2. \/ Calls("FlagPend", "uart", UartFlags("WRITE_RDY"), << "WriteWoken" >>, Me)
        \/ Calls("SemPost", "write_lock", Null, << >>, Me)
    BY <1>2 DEF WriteStart, WriteUnlock
  <2>3. DOMAIN Me = RunFields /\ UartFits(uart)
    BY <2>1, ConsoleAt
  <2>4. Wrote(uart, Cur, Me)
    BY <2>1, Writing, WriteWayIs
  <2> HIDE DEF Me
  <2>5. Onwards(Me, WriteWay)
    BY <2>2, <2>3, OnwardsIf, WriteWayIs
  <2>6. UartFits(uart') /\ Moves(uart, uart')
    BY <2>1, <2>3, DriverMoves, DriverFits
  <2> QED
    BY <2>1, <2>4, <2>5, <2>6, WriteGoes
<1>3. CASE WriteWoken
  <2>1. OnConsole("WriteWoken") /\ uart' = uart
    BY <1>3 DEF WriteWoken, OnConsole, ConsoleSteps
  <2>2. Goto(<< "WriteLook" >>, Me) \/ Calls("SemPost", "write_lock", Null, << >>, Me)
    BY <1>3 DEF WriteWoken, WriteUnlock
  <2>3. DOMAIN Me = RunFields /\ UartFits(uart)
    BY <2>1, ConsoleAt
  <2>4. Wrote(uart, Cur, Me)
    BY <2>1, Writing, WriteWayIs
  <2> HIDE DEF Me
  <2>5. Onwards(Me, WriteWay)
    BY <2>2, <2>3, OnwardsIf, WriteWayIs
  <2>6. UartFits(uart') /\ Moves(uart, uart')
    BY <2>1, <2>3, DriverMoves
  <2> QED
    BY <2>1, <2>4, <2>5, <2>6, WriteGoes
<1> QED
  BY <1>1, <1>2, <1>3

LEMMA ReadTurns ==
  ASSUME Stepping, LocksOK, UartOK, RingsOK, Guarded(prog),
         ReadBegin \/ ReadDone \/ ReadWoken
  PROVE  RingsOK'
<1>1. CASE ReadBegin
  <2>1. OnConsole("Read") /\ uart' = uart
    BY <1>1 DEF ReadBegin, OnConsole, ConsoleSteps
  <2>2. \/ Goto(<< >>, Me)
        \/ Calls("SemPend", "read_lock", 0, << "ReadLook" >>, Begins)
    BY <1>1 DEF ReadBegin
  <2>3. DOMAIN Me = RunFields /\ IoOK(Me.io) /\ UartFits(uart) /\ Me.arg.n \in Nat
    BY <2>1, ConsoleAt
  <2>4. PICK m : m = Begins
    OBVIOUS
  <2>5. DOMAIN m = RunFields /\ m.pc = Me.pc /\ m.io.left = Me.arg.n
    BY <2>3, <2>4, BeginsIs
  <2> HIDE DEF Me
  <2>6. m.io.left >= 0
    BY <2>3, <2>5
  <2>7. Goto(<< >>, Me) \/ Onwards(m, ReadWay)
    BY <2>2, <2>3, <2>4, <2>5, OnwardsIf, WriteWayIs
  <2>8. UartFits(uart') /\ Moves(uart, uart')
    BY <2>1, <2>3, DriverMoves
  <2> QED
    BY <2>1, <2>6, <2>7, <2>8, ReadGoes, GivesUp
<1>2. ASSUME NEW l \in {"ReadDone", "ReadWoken"}, OnConsole(l), uart' = uart,
             Onwards(Me, ReadWay)
      PROVE  RingsOK'
  <2>1. UartFits(uart)
    BY <1>2, ConsoleAt
  <2>2. UartFits(uart') /\ Moves(uart, uart')
    BY <1>2, <2>1, DriverMoves
  <2> QED
    BY <1>2, <2>2, ReadGoes, Reading, WriteWayIs
<1>3. CASE ReadDone \/ ReadWoken
  <2>1. PICK l \in {"ReadDone", "ReadWoken"} : OnConsole(l) /\ uart' = uart
    BY <1>3 DEF ReadDone, ReadWoken, OnConsole, ConsoleSteps
  <2>2. \/ Calls("SemPost", "read_lock", Null, << >>, Me)
        \/ Calls("SemPost", "read_lock", Null, << "ReadEnable" >>, Me)
        \/ Calls("FlagPend", "uart", UartFlags("READ_RDY"), << "ReadWoken" >>, Me)
        \/ Goto(<< "ReadLook" >>, Me)
    BY <1>3 DEF ReadDone, ReadWoken, ReadUnlock
  <2>3. DOMAIN Me = RunFields
    BY <2>1, ConsoleAt
  <2> HIDE DEF Me
  <2>4. Onwards(Me, ReadWay)
    BY <2>2, <2>3, OnwardsIf, WriteWayIs
  <2> QED
    BY <1>2, <2>1, <2>4
<1> QED
  BY <1>1, <1>3

LEMMA ReadEnableInOrder ==
  ASSUME Stepping, LocksOK, UartOK, RingsOK, ReadEnable
  PROVE  RingsOK'
<1>1. DOMAIN Me = RunFields /\ UartFits(uart)
  BY IoFields
<1>2. /\ At("ReadEnable") /\ Goto(<< >>, Me) /\ UNCHANGED << os, obj >>
      /\ uart' = EnableRead(uart)
  BY DEF ReadEnable
<1>3. Hushed
  BY <1>1, <1>2, HushedIf
<1>4. UartFits(uart') /\ Moves(uart, uart')
  BY <1>1, <1>2, DriverMoves, DriverFits
<1> QED
  BY <1>2, <1>3, <1>4, HalLabels, HushedInOrder

(* What a call finds when it looks.                                        *)
LEMMA WriteLooks ==
  ASSUME Stepping, LocksOK, UartOK, RingsOK, Guarded(prog), WriteLook
  PROVE  RingsOK'
<1>1. OnConsole("WriteLook") /\ uart' = uart
  BY DEF WriteLook, OnConsole, ConsoleSteps
<1>2. /\ PlainInv /\ DOMAIN Me = RunFields /\ IoOK(Me.io) /\ UartFits(uart)
      /\ Tail(Me.pc) = << >>
  BY <1>1, ConsoleAt
<1>3. Wrote(uart, Cur, Me)
  BY <1>1, Writing, WriteWayIs
<1>4. UartFits(uart') /\ Moves(uart, uart')
  BY <1>1, <1>2, DriverMoves
<1>5. PICK m : m = Looked(uart.txIn, uart.txOut)
  OBVIOUS
<1>6. /\ DOMAIN m = RunFields /\ m.pc = Me.pc /\ m.owns = Me.owns
      /\ m.io.next = Me.io.next /\ m.io.left = Me.io.left
      /\ m.io.in = uart.txIn /\ m.io.out = uart.txOut
  BY <1>2, <1>5, LookedIs
<1>7. \/ Goto(<< "WriteCopy" >>, m) /\ Me.io.left > 0
      \/ Goto(<< "WriteStart" >>, Me)
  BY <1>5 DEF WriteLook
<1> HIDE DEF Me
<1>8. CASE Goto(<< "WriteStart" >>, Me)
  <2>1. Onwards(Me, WriteWay)
    BY <1>2, <1>8, OnwardsIf, WriteWayIs
  <2> QED
    BY <1>1, <1>3, <1>4, <2>1, WriteGoes
<1>9. CASE Goto(<< "WriteCopy" >>, m) /\ Me.io.left > 0
  <2>1. << "WriteCopy" >> \in Seq({"WriteCopy"})
    OBVIOUS
  <2>2. PICK n : /\ run' = [run EXCEPT ![Cur] = n] /\ n.pc = << "WriteCopy" >>
                 /\ KeepsIo(m, n) /\ n.owns = m.owns
    <3>1. PICK next : next = << "WriteCopy" >>
      OBVIOUS
    <3>2. Goto(next, m) /\ next \in Seq({"WriteCopy"}) /\ DOMAIN m = RunFields
          /\ m.pc = Me.pc /\ DOMAIN Me = RunFields /\ Tail(Me.pc) = << >>
      BY <1>2, <1>6, <1>9, <2>1, <3>1
    <3>3. \E n : /\ run' = [run EXCEPT ![Cur] = n] /\ n.pc = next
                 /\ KeepsIo(m, n) /\ n.owns = m.owns
      BY ONLY <3>2, HalLands
    <3> QED
      BY <3>1, <3>3
  <2>3. n.io = m.io
    BY <2>2 DEF KeepsIo
  <2>4. Len(Unsent(uart)) <= Found(m.io)
    <3>1. RingOf(Char, uart.tx, uart.txOut, Unsent(uart), (uart.txIn - uart.txOut) % BufLen)
      BY <1>2, RingsAre
    <3>2. Len(Unsent(uart)) = Found(m.io)
      BY <1>6, <3>1 DEF RingOf, Found
    <3>3. Len(Unsent(uart)) \in Nat
      BY <1>2, RingsAre
    <3> QED
      BY <3>2, <3>3
  <2>5. ~Under(n, "read_lock")
    BY <2>2, WriteWayIs DEF Under
  <2>6. CallInOrder(uart, n, Cur)
    BY <1>3, <1>6, <1>9, <2>2, <2>3, <2>4, <2>5 DEF CallInOrder, Wrote
  <2>7. UartOK /\ RingsOK
    OBVIOUS
  <2> QED
    BY <1>1, <1>2, <1>4, <2>2, <2>6, <2>7, OneRunsInOrder
<1> QED
  BY <1>7, <1>8, <1>9

LEMMA ReadLooks ==
  ASSUME Stepping, LocksOK, UartOK, RingsOK, Guarded(prog), ReadLook
  PROVE  RingsOK'
<1>1. OnConsole("ReadLook") /\ uart' = uart
  BY DEF ReadLook, OnConsole, ConsoleSteps
<1>2. /\ PlainInv /\ DOMAIN Me = RunFields /\ IoOK(Me.io) /\ UartFits(uart)
      /\ Tail(Me.pc) = << >>
  BY <1>1, ConsoleAt
<1>3. Me.io.left >= 0
  BY <1>1, Reading, WriteWayIs
<1>4. UartFits(uart') /\ Moves(uart, uart')
  BY <1>1, <1>2, DriverMoves
<1>5. PICK m, d : m = Looked(uart.rxIn, uart.rxOut) /\ d = Looked(uart.rxIn, 0)
  OBVIOUS
<1>6. /\ DOMAIN m = RunFields /\ m.pc = Me.pc /\ m.owns = Me.owns
      /\ m.io.left = Me.io.left /\ m.io.in = uart.rxIn /\ m.io.out = uart.rxOut
      /\ DOMAIN d = RunFields /\ d.pc = Me.pc /\ d.io.left = Me.io.left
  BY <1>2, <1>5, LookedIs
<1>7. Goto(<< "ReadCopy" >>, m) \/ Goto(<< "ReadDone" >>, d)
  BY <1>5 DEF ReadLook
<1> HIDE DEF Me
<1>8. CASE Goto(<< "ReadDone" >>, d)
  <2>1. Onwards(d, ReadWay)
    BY <1>2, <1>6, <1>8, OnwardsIf, WriteWayIs
  <2>2. d.io.left >= 0
    BY <1>3, <1>6
  <2> QED
    BY <1>1, <1>4, <2>1, <2>2, ReadGoes
<1>9. CASE Goto(<< "ReadCopy" >>, m)
  <2>1. << "ReadCopy" >> \in Seq({"ReadCopy"})
    OBVIOUS
  <2>2. PICK n : /\ run' = [run EXCEPT ![Cur] = n] /\ n.pc = << "ReadCopy" >>
                 /\ KeepsIo(m, n)
    BY <1>2, <1>6, <1>9, <2>1, HalLands
  <2>3. n.io = m.io
    BY <2>2 DEF KeepsIo
  <2>4. Found(m.io) <= Len(Received(uart))
    <3>1. RingOf(Int, uart.rx, uart.rxOut, Received(uart), (uart.rxIn - uart.rxOut) % BufLen)
      BY <1>2, RingsAre
    <3>2. Len(Received(uart)) = Found(m.io)
      BY <1>6, <3>1 DEF RingOf, Found
    <3>3. Len(Received(uart)) \in Nat
      BY <1>2, RingsAre
    <3> QED
      BY <3>2, <3>3
  <2>5. ~Under(n, "write_lock")
    BY <2>2, WriteWayIs DEF Under
  <2>6. CallInOrder(uart, n, Cur)
    BY <1>3, <1>6, <2>2, <2>3, <2>4, <2>5 DEF CallInOrder
  <2>7. UartOK /\ RingsOK
    OBVIOUS
  <2> QED
    BY <1>1, <1>2, <1>4, <2>2, <2>6, <2>7, OneRunsInOrder
<1> QED
  BY <1>7, <1>8, <1>9

LEMMA FoundInt ==
  ASSUME NEW io, IoOK(io)
  PROVE  Found(io) \in Int /\ Found(io) = (io.in - io.out) % BufLen
<1>1. io.in \in Int /\ io.out \in Int
  BY OffsetInt DEF IoOK
<1>2. io.in - io.out \in Int
  BY <1>1
<1>3. (io.in - io.out) % BufLen \in Offset
  BY <1>2, OffsetsAre
<1> QED
  BY <1>3, OffsetInt DEF Found

(* A write moves only the written characters, and leaves the others' calls *)
(* in order; a read only the unread ones.                                  *)
LEMMA OthersRead ==
  ASSUME NEW u, UartFits(u), NEW v, UartFits(v), Fills(u, v),
         NEW me, IoOK(me.io), NEW t, CallInOrder(u, me, t),
         "write_lock" \notin me.owns, me.pc = << >> \/ Head(me.pc) # "WriteCopy"
  PROVE  CallInOrder(v, me, t)
<1>1. v.rxOut = u.rxOut /\ Len(Received(u)) <= Len(Received(v))
  BY DEF Fills
<1>2. Len(Received(u)) \in Nat /\ Len(Received(v)) \in Nat
  BY RingsAre
<1>3. Found(me.io) \in Int
  BY FoundInt
<1>4. Found(me.io) <= Len(Received(u)) => Found(me.io) <= Len(Received(v))
  BY <1>1, <1>2, <1>3
<1> QED
  BY <1>1, <1>4 DEF CallInOrder

LEMMA OthersWrite ==
  ASSUME NEW u, UartFits(u), NEW v, UartFits(v), Drains(u, v),
         NEW me, IoOK(me.io), NEW t, CallInOrder(u, me, t),
         me.pc = << >> \/ Head(me.pc) # "ReadCopy"
  PROVE  CallInOrder(v, me, t)
<1>1. v.txIn = u.txIn /\ Newest(v) = Newest(u) /\ Len(Unsent(v)) <= Len(Unsent(u))
  BY DEF Drains, Newest
<1>2. Len(Unsent(u)) \in Nat /\ Len(Unsent(v)) \in Nat
  BY RingsAre
<1>3. Found(me.io) \in Int
  BY FoundInt
<1>4. Len(Unsent(u)) <= Found(me.io) => Len(Unsent(v)) <= Found(me.io)
  BY <1>1, <1>2, <1>3
<1> QED
  BY <1>1, <1>4 DEF CallInOrder

(* Nobody else has the lock that a task has.                               *)
LEMMA OneOwner ==
  ASSUME PlainInv, LocksOK, Guarded(prog), Running, NEW n \in prog.owned,
         NEW t \in Tcb, NEW u \in Tcb, n \in run[t].owns, n \in run[u].owns
  PROVE  t = u
<1>1. Holder(run[t], n) /\ Holder(run[u], n)
  BY DEF Holder
<1>2. obj[n] # Null
  BY GuardedIs, DeclaredHandle, NullIsNone
<1>3. TokenOK(n)
  BY <1>2 DEF LocksOK
<1> QED
  BY <1>1, <1>3 DEF TokenOK

LEMMA NoneElse ==
  ASSUME NEW l, OnConsole(l), LockFor(l) # NoName, NEW t \in Tcb \ {Cur}
  PROVE  /\ LockFor(l) \notin run[t].owns
         /\ run[t].pc = << >> \/ LockFor(Head(run[t].pc)) # LockFor(l)
         /\ IoOK(run[t].io) /\ CallInOrder(uart, run[t], t)
<1>1. /\ PlainInv /\ LocksOK /\ Running /\ LockFor(l) \in prog.owned /\ LockFor(l) \in Me.owns
      /\ Cur \in Tcb /\ UartOK /\ RingsOK
  BY ConsoleAt
<1>2. LockFor(l) \notin run[t].owns
  BY <1>1, OneOwner DEF OnConsole, Me
<1>3. run[t].pc # << >> /\ LockFor(Head(run[t].pc)) # NoName =>
        LockFor(Head(run[t].pc)) \in run[t].owns
  BY <1>1, HasTheLock
<1>4. IoOK(run[t].io) /\ CallInOrder(uart, run[t], t)
  BY <1>1 DEF UartOK, RingsOK
<1> QED
  BY <1>2, <1>3, <1>4

(* The runner goes on as n, and the others are left in order.              *)
LEMMA AllInOrder ==
  ASSUME PlainInv, NEW n, run' = [run EXCEPT ![Cur] = n], InOrder(uart'),
         CallInOrder(uart', n, Cur),
         \A t \in Tcb \ {Cur} : CallInOrder(uart', run[t], t)
  PROVE  RingsOK'
<1>1. \A t \in Tcb : run'[t] = IF t = Cur THEN n ELSE run[t]
  BY DEF PlainInv, ThreadsOK
<1> QED
  BY <1>1 DEF RingsOK

LEMMA WriteCopies ==
  ASSUME Stepping, LocksOK, UartOK, RingsOK, Guarded(prog), WriteCopy
  PROVE  RingsOK'
<1>1. OnConsole("WriteCopy")
  BY DEF WriteCopy, OnConsole, ConsoleSteps
<1>2. /\ PlainInv /\ DOMAIN Me = RunFields /\ IoOK(Me.io) /\ UartFits(uart)
      /\ Tail(Me.pc) = << >> /\ Cur \in Tcb /\ InOrder(uart) /\ CallInOrder(uart, Me, Cur)
      /\ Me.pc # << >> /\ Head(Me.pc) = "WriteCopy"
  BY <1>1, ConsoleAt
<1>3. "write_lock" \in Me.owns /\ Wrote(uart, Cur, Me)
  BY <1>1, ConsoleAt, Writing, WriteWayIs
<1>4. UartFits(uart')
  BY ConsoleIo, UartThen DEF Console
<1>5. PICK n : n = AtMost(Writable(Me.io.in, Me.io.out), Me.io.left)
  OBVIOUS
<1>6. PICK m : m = Copied(n)
  OBVIOUS
<1>7. /\ uart' = CopyIn(uart, Me.io.in, Chars(Cur, Me.io.next, n))
      /\ Goto(<< "WriteLook" >>, m)
  BY <1>5, <1>6 DEF WriteCopy, Chars
<1>8. /\ DOMAIN m = RunFields /\ m.pc = Me.pc /\ m.owns = Me.owns
      /\ m.io.next = Me.io.next + n
  BY <1>2, <1>6, CopiedIs
<1> HIDE DEF Me
<1>9. Me.io.in = uart.txIn /\ Me.io.left > 0 /\ Len(Unsent(uart)) <= Found(Me.io)
  BY <1>2 DEF CallInOrder
<1>10. /\ Me.io.in \in Offset /\ Me.io.out \in Offset /\ Me.io.next \in Int
       /\ Me.io.left \in Int
  BY <1>2 DEF IoOK
<1>11. PICK d, w : d = Found(Me.io) /\ w = Writable(Me.io.in, Me.io.out)
  OBVIOUS
<1>12. d \in Nat /\ w \in Nat /\ d + w < BufLen /\ Me.io.in + w <= BufLen
  <2>1. d = (Me.io.in - Me.io.out) % BufLen
    BY <1>11 DEF Found
  <2> QED
    BY <1>10, <1>11, <2>1, SlackFits
<1>13. n \in Nat /\ n <= w
  BY <1>5, <1>9, <1>10, <1>11, <1>12 DEF AtMost
<1>14. Len(Unsent(uart)) + n < BufLen /\ uart.txIn + n <= BufLen
  <2>1. Len(Unsent(uart)) \in Nat /\ BufLen \in Int /\ Me.io.in \in Int
    BY <1>2, <1>10, RingsAre, OffsetsAre, OffsetInt
  <2>2. Len(Unsent(uart)) <= d /\ Me.io.in = uart.txIn
    BY <1>9, <1>11
  <2> QED
    BY <1>12, <1>13, <2>1, <2>2
<1>15. Me.io.next # 0 => Newest(uart) = Newly(Cur, Me.io.next)
  BY <1>3 DEF Wrote, Newly
<1>16. /\ InOrder(uart') /\ Fills(uart, uart')
       /\ Me.io.next + n # 0 => Newest(uart') = Newly(Cur, Me.io.next + n)
  <2>1. uart' = CopyIn(uart, uart.txIn, Chars(Cur, Me.io.next, n))
    BY <1>7, <1>9
  <2>2. LET v == CopyIn(uart, uart.txIn, Chars(Cur, Me.io.next, n)) IN
        /\ InOrder(v) /\ Fills(uart, v)
        /\ Me.io.next + n # 0 => Newest(v) = Newly(Cur, Me.io.next + n)
    BY <1>2, <1>10, <1>13, <1>14, <1>15, CopyInKeeps
  <2> QED
    BY <2>1, <2>2
<1>17. Wrote(uart', Cur, m)
  BY <1>3, <1>8, <1>16 DEF Wrote, Newly
<1>18. PICK c : /\ run' = [run EXCEPT ![Cur] = c] /\ c.pc \in Seq(WriteWay) /\ KeepsIo(m, c)
                /\ c.owns = m.owns
  <2>1. Onwards(m, WriteWay)
    BY <1>2, <1>7, <1>8, OnwardsIf, WriteWayIs
  <2> QED
    BY <1>2, <2>1, OnwardsTo
<1>19. CallInOrder(uart', c, Cur)
  BY <1>17, <1>18, WriterInOrder
<1>20. ASSUME NEW t \in Tcb \ {Cur} PROVE CallInOrder(uart', run[t], t)
  <2>1. /\ LockFor("WriteCopy") \notin run[t].owns
        /\ run[t].pc = << >> \/ LockFor(Head(run[t].pc)) # LockFor("WriteCopy")
        /\ IoOK(run[t].io) /\ CallInOrder(uart, run[t], t)
    BY <1>1, <1>20, NoneElse, WriteWayIs
  <2>2. /\ "write_lock" \notin run[t].owns
        /\ run[t].pc = << >> \/ Head(run[t].pc) # "WriteCopy"
    BY <2>1, WriteWayIs
  <2> QED
    BY <1>2, <1>4, <1>16, <2>1, <2>2, OthersRead
<1> QED
  BY <1>2, <1>16, <1>18, <1>19, <1>20, AllInOrder

LEMMA ReadCopies ==
  ASSUME Stepping, LocksOK, UartOK, RingsOK, Guarded(prog), ReadCopy
  PROVE  RingsOK'
<1>1. OnConsole("ReadCopy")
  BY DEF ReadCopy, OnConsole, ConsoleSteps
<1>2. /\ PlainInv /\ DOMAIN Me = RunFields /\ IoOK(Me.io) /\ UartFits(uart)
      /\ Tail(Me.pc) = << >> /\ Cur \in Tcb /\ InOrder(uart) /\ CallInOrder(uart, Me, Cur)
      /\ Me.pc # << >> /\ Head(Me.pc) = "ReadCopy"
  BY <1>1, ConsoleAt
<1>3. Me.io.left >= 0
  BY <1>1, Reading, WriteWayIs
<1>4. UartFits(uart')
  BY ConsoleIo, UartThen DEF Console
<1>5. PICK n : n = AtMost(Readable(Me.io.in, Me.io.out), Me.io.left)
  OBVIOUS
<1>6. PICK m : m = Copied(n)
  OBVIOUS
<1>7. /\ uart' = CopyOut(uart, Me.io.out, n)
      /\ Goto(<< "ReadLook" >>, m) \/ Goto(<< "ReadDone" >>, m)
  BY <1>5, <1>6 DEF ReadCopy
<1>8. DOMAIN m = RunFields /\ m.pc = Me.pc /\ m.io.left = Me.io.left - n
  BY <1>2, <1>6, CopiedIs
<1> HIDE DEF Me
<1>9. Me.io.out = uart.rxOut /\ Found(Me.io) <= Len(Received(uart))
  BY <1>2 DEF CallInOrder
<1>10. Me.io.in \in Offset /\ Me.io.out \in Offset /\ Me.io.left \in Int
  BY <1>2 DEF IoOK
<1>11. PICK d, r : d = Found(Me.io) /\ r = Readable(Me.io.in, Me.io.out)
  OBVIOUS
<1>12. d \in Nat /\ r \in Nat /\ r <= d
  <2>1. d = (Me.io.in - Me.io.out) % BufLen
    BY <1>11 DEF Found
  <2> QED
    BY <1>10, <1>11, <2>1, SlackFits
<1>13. n \in Nat /\ n <= r /\ n <= Me.io.left
  BY <1>3, <1>5, <1>10, <1>11, <1>12 DEF AtMost
<1>14. n <= Len(Received(uart))
  <2>1. Len(Received(uart)) \in Nat
    BY <1>2, RingsAre
  <2>2. d <= Len(Received(uart))
    BY <1>9, <1>11
  <2> QED
    BY <1>12, <1>13, <2>1, <2>2
<1>15. InOrder(uart') /\ Drains(uart, uart')
  <2>1. uart' = CopyOut(uart, uart.rxOut, n)
    BY <1>7, <1>9
  <2> QED
    BY <1>2, <1>13, <1>14, <2>1, CopyOutKeeps
<1>16. m.io.left >= 0
  BY <1>8, <1>10, <1>13
<1>17. PICK c : /\ run' = [run EXCEPT ![Cur] = c] /\ c.pc \in Seq(ReadWay) /\ KeepsIo(m, c)
                /\ c.owns = m.owns
  <2>1. Onwards(m, ReadWay)
    BY <1>2, <1>7, <1>8, OnwardsIf, WriteWayIs
  <2> QED
    BY <1>2, <2>1, OnwardsTo
<1>18. CallInOrder(uart', c, Cur)
  BY <1>16, <1>17, ReaderInOrder
<1>19. ASSUME NEW t \in Tcb \ {Cur} PROVE CallInOrder(uart', run[t], t)
  <2>1. /\ run[t].pc = << >> \/ LockFor(Head(run[t].pc)) # LockFor("ReadCopy")
        /\ IoOK(run[t].io) /\ CallInOrder(uart, run[t], t)
    BY <1>1, <1>19, NoneElse, WriteWayIs
  <2>2. run[t].pc = << >> \/ Head(run[t].pc) # "ReadCopy"
    BY <2>1
  <2> QED
    BY <1>2, <1>4, <1>15, <2>1, <2>2, OthersWrite
<1> QED
  BY <1>2, <1>15, <1>17, <1>18, <1>19, AllInOrder

LEMMA ConsoleInOrder ==
  ASSUME Stepping, LocksOK, UartOK, RingsOK, Guarded(prog), Console
  PROVE  RingsOK'
<1>1. WriteBegin \/ WriteLook \/ WriteCopy \/ WriteStart \/ WriteWoken => RingsOK'
  BY WriteTurns, WriteLooks, WriteCopies
<1>2. ReadBegin \/ ReadLook \/ ReadCopy \/ ReadDone \/ ReadWoken => RingsOK'
  BY ReadTurns, ReadLooks, ReadCopies
<1> QED
  BY <1>1, <1>2, ReadEnableInOrder DEF Console

-----------------------------------------------------------------------------
(* Every step leaves the rings in order.                                   *)

LEMMA StepInOrder ==
  ASSUME PlainInv, UartOK, LocksOK, RingsOK, Guarded(prog), Running, Step, UNCHANGED boot
  PROVE  RingsOK'
<1>1. Stepping
  BY StepsAre
<1>2. Apply \/ Forget \/ Sched => RingsOK'
  BY <1>1, ApplyInOrder, NoOthers, SchedInOrder
<1>3. Locks \/ Messaging \/ Flags \/ Tasks => RingsOK'
  BY <1>1, ServicesInOrder
<1>4. Library \/ FileCalls \/ Console => RingsOK'
  BY <1>1, LibraryInOrder, FilesInOrder, ReleaseInOrder, ConsoleInOrder
<1> QED
  BY <1>2, <1>3, <1>4 DEF Step

LEMMA NoneRunsInOrder ==
  ASSUME UartOK, RingsOK, UNCHANGED run, UartFits(uart'), Moves(uart, uart')
  PROVE  RingsOK'
<1>1. UartFits(uart) /\ \A t \in Tcb : IoOK(run[t].io)
  BY DEF UartOK, UartFits
<1>2. InOrder(uart') /\ \A t \in Tcb : CallInOrder(uart', run[t], t)
  BY <1>1, MovesKeep DEF RingsOK
<1> QED
  BY <1>2 DEF RingsOK

LEMMA HostInOrder ==
  ASSUME UartOK, RingsOK, Host
  PROVE  RingsOK'
<1>1. UartFits(uart) /\ \A t \in Tcb : IoOK(run[t].io)
  BY DEF UartOK, UartFits
<1>2. InOrder(uart) /\ \A t \in Tcb : CallInOrder(uart, run[t], t)
  BY DEF RingsOK
<1>3. UNCHANGED run
  BY DEF Host
<1>4. CASE uart' = HostSends(uart)
  <2>1. /\ InOrder(uart') /\ Drains(uart, uart')
        /\ Received(uart') = Received(uart) /\ uart'.rxOut = uart.rxOut
    BY <1>1, <1>2, <1>4, HostKeeps
  <2>2. /\ Newest(uart') = Newest(uart) /\ uart'.txIn = uart.txIn
        /\ Len(Unsent(uart')) <= Len(Unsent(uart))
    BY <2>1 DEF Drains, Newest
  <2>3. UartFits(uart')
    BY <1>1, <1>4, HostFits DEF Host
  <2>4. Len(Unsent(uart)) \in Nat /\ Len(Unsent(uart')) \in Nat
    BY <1>1, <2>3, RingsAre
  <2>5. ASSUME NEW t \in Tcb PROVE CallInOrder(uart', run[t], t)
    <3>1. Found(run[t].io) \in Int
      BY <1>1, <2>5, FoundInt
    <3>2. Len(Unsent(uart)) <= Found(run[t].io) => Len(Unsent(uart')) <= Found(run[t].io)
      BY <2>2, <2>4, <3>1
    <3> QED
      BY <1>2, <2>1, <2>2, <3>2 DEF CallInOrder
  <2> QED
    BY <1>3, <2>1, <2>5 DEF RingsOK
<1>5. CASE uart.txFifo # << >> /\ uart' = HostTakes(uart)
  <2>1. /\ InOrder(uart') /\ Fills(uart, uart') /\ Newest(uart') = Newest(uart)
        /\ Unsent(uart') = Unsent(uart) /\ uart'.txIn = uart.txIn
    BY <1>1, <1>2, <1>5, HostKeeps
  <2>2. uart'.rxOut = uart.rxOut /\ Len(Received(uart)) <= Len(Received(uart'))
    BY <2>1 DEF Fills
  <2>3. UartFits(uart')
    BY <1>1, <1>5, HostFits DEF Host
  <2>4. Len(Received(uart)) \in Nat /\ Len(Received(uart')) \in Nat
    BY <1>1, <2>3, RingsAre
  <2>5. ASSUME NEW t \in Tcb PROVE CallInOrder(uart', run[t], t)
    <3>1. Found(run[t].io) \in Int
      BY <1>1, <2>5, FoundInt
    <3>2. Found(run[t].io) <= Len(Received(uart)) => Found(run[t].io) <= Len(Received(uart'))
      BY <2>2, <2>4, <3>1
    <3> QED
      BY <1>2, <2>1, <2>2, <3>2 DEF CallInOrder
  <2> QED
    BY <1>3, <2>1, <2>5 DEF RingsOK
<1> QED
  BY <1>4, <1>5 DEF Host

LEMMA WorksInOrder ==
  ASSUME PlainInv, UartOK, LocksOK, RingsOK, Guarded(prog), Works
  PROVE  RingsOK'
<1>1. UartFits(uart)
  BY DEF UartOK, UartFits
<1>2. CASE Step
  BY <1>2, StepInOrder DEF Works
<1>3. CASE Interrupt
  <2>1. UNCHANGED run /\ uart' = uart
    BY <1>3 DEF Interrupt
  <2> QED
    BY <1>1, <2>1, DriverMoves, NoneRunsInOrder
<1>4. CASE IrqHandler
  <2>1. /\ UNCHANGED run
        /\ uart' \in {uart, Irq(uart), Timeout(uart), Timeout(Irq(uart))}
    BY <1>4 DEF IrqHandler, TimerIrq
  <2>2. /\ UartFits(Irq(uart)) /\ UartFits(Timeout(uart)) /\ UartFits(Timeout(Irq(uart)))
    BY <1>1, DriverFits
  <2>3. /\ Moves(uart, uart) /\ Moves(uart, Irq(uart)) /\ Moves(uart, Timeout(uart))
        /\ Moves(Irq(uart), Timeout(Irq(uart)))
    BY <1>1, <2>2, DriverMoves
  <2>4. Moves(uart, Timeout(Irq(uart)))
    BY <1>1, <2>2, <2>3, MovesOn
  <2>5. UartFits(uart') /\ Moves(uart, uart')
    BY <1>1, <2>1, <2>2, <2>3, <2>4
  <2> QED
    BY <2>1, <2>5, NoneRunsInOrder
<1>5. CASE Host
  BY <1>5, HostInOrder
<1> QED
  BY <1>2, <1>3, <1>4, <1>5 DEF Works

LEMMA FreshInOrder ==
  ASSUME NEW u, NEW t, NEW menu
  PROVE  CallInOrder(u, NewRun(menu), t)
<1> DEFINE n == NewRun(menu)
<1>1. n.pc = << >> /\ n.io.next = 0
  BY DEF NewRun, NoIo
<1> HIDE DEF n
<1>2. ~Under(n, "read_lock") /\ ~Under(n, "write_lock")
  BY <1>1 DEF Under
<1>3. CallInOrder(u, n, t)
  BY <1>1, <1>2 DEF CallInOrder
<1> QED
  BY <1>3 DEF n

LEMMA BootInOrder ==
  ASSUME PlainInv, RingsOK, Boot
  PROVE  RingsOK'
<1>1. DOMAIN run = Tcb
  BY DEF PlainInv, ThreadsOK
<1>2. uart' = uart
  BY DEF Boot, MakeObject, LaunchTask, Start
<1>3. run' = run \/ \E t, menu : run' = [run EXCEPT ![t] = NewRun(menu)]
  BY DEF Boot, MakeObject, LaunchTask, Start
<1>4. \A t \in Tcb : run'[t] = run[t] \/ \E menu : run'[t] = NewRun(menu)
  BY <1>1, <1>3
<1>5. \A t \in Tcb : CallInOrder(uart, run'[t], t)
  BY <1>4, FreshInOrder DEF RingsOK
<1> QED
  BY <1>2, <1>5 DEF RingsOK

LEMMA InitInOrder ==
  ASSUME Init
  PROVE  RingsOK
<1>1. uart = UartInit /\ run = [t \in Tcb |-> NewRun({})]
  BY DEF Init
<1>2. \A t \in Tcb : CallInOrder(uart, run[t], t)
  BY <1>1, FreshInOrder
<1>3. /\ uart.rxFifo = << >> /\ uart.txFifo = << >> /\ uart.typed = 0
      /\ uart.rxIn = 0 /\ uart.rxOut = 0 /\ uart.txIn = 0 /\ uart.txOut = 0
  BY <1>1 DEF UartInit
<1>4. UartFits(uart)
  BY InitUart DEF UartOK, UartFits
<1>5. (0 - 0) % BufLen = 0
  <2>1. 0 \in 0 .. BufLen - 1 /\ BufLen \in Nat \ {0} /\ 0 - 0 = 0
    BY UartAssumption
  <2> QED
    BY <2>1, SmallRest
<1>6. /\ Received(uart) \in Seq(Int) /\ Len(Received(uart)) = 0
      /\ Unsent(uart) \in Seq(Char) /\ Len(Unsent(uart)) = 0
  <2>1. /\ Received(uart) \in Seq(Int) /\ Len(Received(uart)) = (uart.rxIn - uart.rxOut) % BufLen
        /\ Unsent(uart) \in Seq(Char) /\ Len(Unsent(uart)) = (uart.txIn - uart.txOut) % BufLen
    BY <1>4, RingsAre DEF RingOf
  <2> QED
    BY <1>3, <1>5, <2>1
<1>7. Received(uart) = << >> /\ Unsent(uart) = << >>
  BY <1>6
<1>8. Len(Sent(uart)) = 1 /\ Len(Unread(uart)) = 0
  BY <1>3, <1>7 DEF Sent, Unread
<1>9. uart.typed \in 0 .. RxMod - 1
  BY <1>3, UartAssumption
<1>10. InOrder(uart)
  BY <1>8, <1>9 DEF InOrder
<1> QED
  BY <1>2, <1>10 DEF RingsOK

LEMMA NextInOrder ==
  ASSUME PlainInv, UartOK, LocksOK, RingsOK, Guarded(prog), [Next]_vars
  PROVE  RingsOK'
<1>1. CASE Boot
  BY <1>1, BootInOrder
<1>2. CASE Works
  BY <1>2, WorksInOrder
<1>3. CASE UNCHANGED vars
  BY <1>3 DEF vars, RingsOK
<1> QED
  BY <1>1, <1>2, <1>3 DEF Next

(* What the rings in order say of the console.                             *)
LEMMA RingsAreOrdered ==
  ASSUME PlainInv, RingsOK
  PROVE  ConsoleOrdered
<1>1. InOrder(uart)
  BY DEF RingsOK
<1>2. ASSUME NEW t \in Tcb, NEW l, AtOne(t, {l})
      PROVE  run[t].pc # << >> /\ Head(run[t].pc) = l
  BY <1>2 DEF AtOne
<1>3. \A t \in Tcb : AtOne(t, {"ReadCopy"}) => run[t].io.out = uart.rxOut
  BY <1>2 DEF RingsOK, CallInOrder
<1>4. \A t \in Tcb : AtOne(t, {"WriteCopy"}) => run[t].io.in = uart.txIn
  BY <1>2 DEF RingsOK, CallInOrder
<1> QED
  BY <1>1, <1>3, <1>4 DEF ConsoleOrdered, InOrder, Sent, Unread

(* The token of every lock is in the count, with the task that took it or  *)
(* on its way to one, a task that is in the middle of what a lock guards   *)
(* has the lock or is to be given it, and no two handles are one lock;     *)
(* what is in the rings of the UART and its device is in the order in      *)
(* which it was written and typed, and a call copies what it looked at:    *)
(* from OSInit on, in every step of the kernel, the HAL and the driver.    *)
THEOREM LocksHold == Spec => []GuardedInOrder
<1>1. Init => GuardedInOrder
  BY InitLocks, InitInOrder DEF GuardedInOrder
<1>2. PlainInOrder /\ GuardedInOrder /\ [Next]_vars => GuardedInOrder'
  <2>1. ASSUME PlainInOrder, GuardedInOrder, [Next]_vars, prog' \in GuardedPrograms
        PROVE  LocksOK' /\ RingsOK'
    <3>1. prog \in GuardedPrograms
      BY <2>1, NextKeepsProgram
    <3>2. prog \in PlainPrograms /\ Guarded(prog) /\ LocksOK /\ RingsOK
      BY <2>1, <3>1 DEF GuardedPrograms, GuardedInOrder
    <3>3. PlainInv /\ UartOK
      BY <2>1, <3>2 DEF PlainInOrder, IInv
    <3> QED
      BY <2>1, <3>2, <3>3, NextKeepsLocks, NextInOrder
  <2> QED
    BY <2>1 DEF GuardedInOrder
<1> QED
  BY <1>1, <1>2, Invariant, PTL DEF Spec

(* No token is lost and none is doubled: OSSemPost gives it to the task    *)
(* that it readies without counting it, OSSemPendAbort readies tasks and   *)
(* gives them none, and a pend that comes back timed out, aborted or posted*)
(* takes what was meant for it and no more.                                *)
THEOREM TokensKept == Spec => [](prog \in GuardedPrograms => TokensConserved)
<1>1. PlainInOrder /\ GuardedInOrder => (prog \in GuardedPrograms => TokensConserved)
  BY LocksConserve DEF PlainInOrder, IInv, GuardedInOrder, GuardedPrograms
<1> QED
  BY <1>1, Invariant, LocksHold, PTL

(* Two tasks are never in the middle of altera_avalon_jtag_uart_write, nor *)
(* of altera_avalon_jtag_uart_read, nor of alt_get_fd: though the HAL waits*)
(* for its locks without looking at the result of the wait, whoever comes  *)
(* to what they guard has the one token.                                   *)
THEOREM HalLocksExclude == Spec => [](prog \in GuardedPrograms => LocksExclude)
<1>1. PlainInOrder /\ GuardedInOrder => (prog \in GuardedPrograms => LocksExclude)
  BY LocksDoExclude DEF PlainInOrder, IInv, GuardedInOrder, GuardedPrograms
<1> QED
  BY <1>1, Invariant, LocksHold, PTL

(* The host sees what each write wrote in its order and in one piece, and  *)
(* whoever reads gets what the host typed in its order, nothing of it      *)
(* twice and nothing left out: the interrupt handler moves the other end   *)
(* of a ring between the look and the copy of a call, and never the end    *)
(* that the call has taken for its own.                                    *)
THEOREM TheConsoleIsOrdered == Spec => [](prog \in GuardedPrograms => ConsoleOrdered)
<1>1. PlainInOrder /\ GuardedInOrder => (prog \in GuardedPrograms => ConsoleOrdered)
  BY RingsAreOrdered DEF PlainInOrder, IInv, GuardedInOrder, GuardedPrograms
<1> QED
  BY <1>1, Invariant, LocksHold, PTL
=============================================================================
