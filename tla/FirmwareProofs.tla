---------------------------- MODULE FirmwareProofs ----------------------------
(***************************************************************************)
(* The kernel is in order whatever its tasks and interrupts do: PlainInv   *)
(* is an invariant of every plain program, for any number of tasks,        *)
(* objects, priorities and queue entries, and from it follow that wait     *)
(* lists are true, that no task is lost, that nothing waited for lies idle *)
(* and that the highest ready task runs.                                   *)
(***************************************************************************)
EXTENDS KernelProofs, FiniteSetTheorems

-----------------------------------------------------------------------------
(* Stacks.  A step replaces the label it was at by the labels next.        *)

LEMMA NotEmpty ==
  ASSUME NEW X, NEW s \in Seq(X)
  PROVE  /\ Len(s) \in Nat /\ DOMAIN s = 1 .. Len(s)
         /\ s = << >> => Len(s) = 0
         /\ s # << >> => Len(s) > 0 /\ Head(s) = s[1]
  OBVIOUS

LEMMA StackMoves ==
  ASSUME NEW pc, StackOK(pc), pc # << >>, Head(pc) # "OS_Sched",
         NEW next, StackOK(next)
  PROVE  LET new == next \o Tail(pc) IN
         /\ StackOK(new)
         /\ \A i \in DOMAIN new : \/ \E m \in DOMAIN next : new[i] = next[m]
                                  \/ \E m \in DOMAIN pc : new[i] = pc[m]
         /\ next # << >> => new # << >> /\ new[1] = next[1]
         /\ next = << >> /\ new # << >> => new[1] \in Conts
         /\ Len(next) = 1 /\ Len(new) > 1 => new[2] \in Conts
         /\ Len(next) > 1 => Len(new) > 1 /\ new[2] = next[2]
<1> DEFINE new == next \o Tail(pc)
<1>1. /\ pc \in Seq(Labels) /\ next \in Seq(Labels)
      /\ Len(pc) \in Nat /\ Len(pc) > 0 /\ Len(next) \in Nat
      /\ pc[1] # "OS_Sched"
  BY DEF StackOK
<1>2. \A i \in 2 .. Len(pc) : pc[i] \in Conts
  BY <1>1 DEF StackOK
<1>3. /\ new \in Seq(Labels) /\ Len(new) = Len(next) + Len(pc) - 1
      /\ \A i \in 1 .. Len(next) : new[i] = next[i]
      /\ \A i \in Len(next) + 1 .. Len(new) : new[i] = pc[i - Len(next) + 1]
  BY <1>1
<1> HIDE DEF new
<1>4. \A i \in Len(next) + 1 .. Len(new) :
        i - Len(next) + 1 \in 2 .. Len(pc) /\ new[i] \in Conts
  BY <1>1, <1>2, <1>3
<1>5. \A i \in 1 .. Len(new) : i \in 1 .. Len(next) \/ i \in Len(next) + 1 .. Len(new)
  BY <1>1, <1>3
<1>6. StackOK(new)
  <2>1. ASSUME NEW i \in 2 .. Len(new), new[i] \notin Conts
        PROVE  i = 2 /\ new[1] = "OS_Sched" /\ new[2] \in WaitLabels
    <3>1. i \in 2 .. Len(next)
      BY <1>1, <1>3, <1>4, <1>5, <2>1
    <3>2. i \in 1 .. Len(next) /\ 1 \in 1 .. Len(next)
      BY <1>1, <3>1
    <3> QED
      BY <1>3, <2>1, <3>1, <3>2 DEF StackOK
  <2> QED
    BY <1>3, <2>1 DEF StackOK
<1>7. \A i \in DOMAIN new : \/ \E m \in DOMAIN next : new[i] = next[m]
                            \/ \E m \in DOMAIN pc : new[i] = pc[m]
  <2>1. DOMAIN new = 1 .. Len(new) /\ DOMAIN next = 1 .. Len(next) /\ DOMAIN pc = 1 .. Len(pc)
    BY <1>1, <1>3
  <2>2. \A i \in Len(next) + 1 .. Len(new) :
          i - Len(next) + 1 \in 1 .. Len(pc) /\ new[i] = pc[i - Len(next) + 1]
    BY <1>1, <1>3
  <2> QED
    BY <1>3, <1>5, <2>1, <2>2
<1>8. next # << >> => new # << >> /\ new[1] = next[1]
  BY <1>1, <1>3
<1>9. next = << >> /\ new # << >> => new[1] \in Conts
  BY <1>1, <1>3, <1>4
<1>10. Len(next) = 1 /\ Len(new) > 1 => new[2] \in Conts
  BY <1>1, <1>3, <1>4
<1>11. Len(next) > 1 => Len(new) > 1 /\ new[2] = next[2]
  BY <1>1, <1>3
<1> QED
  BY <1>6, <1>7, <1>8, <1>9, <1>10, <1>11 DEF new

(* The wait that the labels of a step begin.                               *)
NextWait(next) ==
    IF Len(next) > 1 /\ next[1] = "OS_Sched" /\ next[2] \in WaitLabels
    THEN next[2] ELSE "none"

(* What a stack says of the wait its task is in.                           *)
LEMMA WaitOfIs ==
  ASSUME NEW me, StackOK(me.pc)
  PROVE  /\ me.pc = << >> => WaitOf(me) = "none"
         /\ me.pc # << >> =>
              /\ Head(me.pc) = me.pc[1] /\ Len(me.pc) > 0
              /\ me.pc[1] \in WaitLabels => WaitOf(me) = me.pc[1]
              /\ me.pc[1] \notin WaitLabels =>
                   WaitOf(me) = NextWait(me.pc)
<1>1. me.pc \in Seq(Labels)
  BY DEF StackOK
<1>2. me.pc = << >> => WaitOf(me) = "none"
  BY DEF WaitOf
<1>3. me.pc # << >> => Head(me.pc) = me.pc[1] /\ Len(me.pc) > 0
  BY <1>1, NotEmpty
<1>4. "OS_Sched" \notin WaitLabels
  BY DEF WaitLabels
<1>5. ASSUME me.pc # << >>, me.pc[1] \in WaitLabels
      PROVE  WaitOf(me) = me.pc[1]
  <2>1. me.pc # << >> /\ Head(me.pc) \in WaitLabels /\ ~(Head(me.pc) = "OS_Sched")
    BY <1>3, <1>4, <1>5
  <2> QED
    BY <1>3, <1>5, <2>1 DEF WaitOf
<1>6. ASSUME me.pc # << >>, me.pc[1] \notin WaitLabels
      PROVE  WaitOf(me) = NextWait(me.pc)
  BY <1>3, <1>6 DEF WaitOf, NextWait
<1> QED
  BY <1>2, <1>3, <1>5, <1>6

(* The labels that no call begins with need nothing of its arguments.      *)
LEMMA ContsNeedNothing ==
  ASSUME NEW p, NEW k, NEW me, NEW l \in Conts \cup WaitLabels \cup {"OS_Sched"}
  PROVE  HeadOK(p, k, me, l)
  BY DEF HeadOK, ArgOK, Conts, WaitLabels, CreateOps, EventOps, FlagOps

Moved(n, next) ==
    /\ next # << >> => n.pc # << >> /\ Head(n.pc) = Head(next)
    /\ next = << >> /\ n.pc # << >> => Head(n.pc) \in Conts

(* A step of a task that is not waiting leaves it in order.                *)
LEMMA ThreadMoves ==
  ASSUME NEW p, NEW k, NEW j, NEW me, ThreadOK(p, k, me),
         me.pc # << >>, Head(me.pc) # "OS_Sched",
         NEW next, StackOK(next), next # << >> => Head(next) \notin WaitLabels,
         \A i \in DOMAIN next : Backed(p, next[i]),
         NEW n, DOMAIN n = RunFields, n.pc = next \o Tail(me.pc), n.menu = me.menu,
         n.hand \subseteq Block,
         next # << >> => HeadOK(p, j, n, Head(next)),
         NextWait(next) = "FlagPended" =>
           n.arg \in Wanted /\ (n.arg.consume => n.arg.type \in ForSet),
         NextWait(next) = "MultiPended" => Uses(p, {"PendMulti"})
  PROVE  ThreadOK(p, j, n) /\ WaitOf(n) = NextWait(next) /\ Moved(n, next)
<1>1. StackOK(me.pc) /\ \A i \in DOMAIN me.pc : Backed(p, me.pc[i])
  BY DEF ThreadOK
<1>2. /\ StackOK(n.pc)
      /\ \A i \in DOMAIN n.pc : \/ \E m \in DOMAIN next : n.pc[i] = next[m]
                                \/ \E m \in DOMAIN me.pc : n.pc[i] = me.pc[m]
      /\ next # << >> => n.pc # << >> /\ n.pc[1] = next[1]
      /\ next = << >> /\ n.pc # << >> => n.pc[1] \in Conts
      /\ Len(next) = 1 /\ Len(n.pc) > 1 => n.pc[2] \in Conts
      /\ Len(next) > 1 => Len(n.pc) > 1 /\ n.pc[2] = next[2]
  BY <1>1, StackMoves
<1>3. /\ n.pc \in Seq(Labels) /\ next \in Seq(Labels)
      /\ next # << >> => Head(next) = next[1] /\ Len(next) > 0
      /\ n.pc # << >> => Head(n.pc) = n.pc[1]
  BY <1>2, NotEmpty DEF StackOK
<1>4. Moved(n, next)
  BY <1>2, <1>3 DEF Moved
<1>5. Conts \cap WaitLabels = {} /\ "OS_Sched" \notin Conts
  BY DEF Conts, WaitLabels
<1>6. WaitOf(n) = NextWait(next)
  <2>1. CASE next = << >>
    <3>1. NextWait(next) = "none"
      BY <2>1 DEF NextWait
    <3>2. n.pc # << >> => n.pc[1] \notin WaitLabels /\ NextWait(n.pc) = "none"
      BY <1>2, <1>5, <2>1 DEF NextWait
    <3> QED
      BY <1>2, <3>1, <3>2, WaitOfIs
  <2>2. CASE next # << >>
    <3>1. n.pc # << >> /\ n.pc[1] = next[1] /\ n.pc[1] \notin WaitLabels
      BY <1>2, <1>3, <2>2
    <3>2. NextWait(n.pc) = NextWait(next)
      <4>1. CASE Len(next) = 1
        BY <1>2, <1>5, <4>1 DEF NextWait
      <4>2. CASE Len(next) > 1
        <5>1. n.pc[1] = next[1] /\ n.pc[2] = next[2] /\ Len(n.pc) > 1
          BY <1>2, <3>1, <4>2
        <5> QED
          BY <4>2, <5>1 DEF NextWait
      <4>3. Len(next) = 1 \/ Len(next) > 1
        <5>1. Len(next) \in Nat /\ Len(next) > 0
          BY <1>3, <2>2, NotEmpty
        <5> QED
          BY ONLY <5>1
      <4> QED
        BY <4>1, <4>2, <4>3
    <3> QED
      BY <1>2, <3>1, <3>2, WaitOfIs
  <2> QED
    BY <2>1, <2>2
<1>7. ASSUME n.pc # << >>
      PROVE  HeadOK(p, j, n, Head(n.pc))
  <2>1. CASE next = << >>
    BY <1>4, <1>7, <2>1, ContsNeedNothing DEF Moved
  <2>2. CASE next # << >>
    BY <1>4, <2>2 DEF Moved
  <2> QED
    BY <2>1, <2>2
<1>8. \A i \in DOMAIN n.pc : Backed(p, n.pc[i])
  BY <1>1, <1>2
<1>9. n.menu \subseteq CallsOf(p)
  BY DEF ThreadOK
<1> QED
  BY <1>2, <1>4, <1>6, <1>7, <1>8, <1>9 DEF ThreadOK

-----------------------------------------------------------------------------
(* What a step leaves of the kernel whoever takes it.                      *)

(* Tasks keep their priorities and control blocks their types.             *)
Common(k, j) ==
    /\ Sound(j) /\ KeepsTypes(k, j)
    /\ j.list = k.list /\ j.prioTbl = k.prioTbl
    /\ \A t \in Tcb : j.tcb[t].prio = k.tcb[t].prio

LEMMA OrderlyCommon ==
  ASSUME NEW k, NEW j, NEW T, Orderly(k, j, T)
  PROVE  /\ Common(k, j) /\ Spares(k, j, {})
         /\ j.lock = k.lock /\ j.cur = k.cur /\ j.prioCur = k.prioCur
         /\ Undisturbed(k, j, k.list \ T)
  BY DEF Orderly, Common, SameParts, SameRest, KeepsTypes, Spares, Limbo

LEMMA RousesCommon ==
  ASSUME NEW k, NEW j, Rouses(k, j)
  PROVE  /\ Common(k, j) /\ Spares(k, j, {})
         /\ j.lock = k.lock /\ j.cur = k.cur /\ j.prioCur = k.prioCur
         /\ Undisturbed(k, j, k.list)
<1>1. Orderly(k, j, {})
  BY DEF Rouses
<1>2. k.list \ {} = k.list
  OBVIOUS
<1>3. Undisturbed(k, j, k.list \ {})
  BY <1>1, OrderlyCommon
<1>4. Undisturbed(k, j, k.list)
  BY <1>2, <1>3
<1> QED
  BY <1>1, <1>4, OrderlyCommon

LEMMA SuspendsCommon ==
  ASSUME NEW k, NEW r, Suspends(k, r)
  PROVE  /\ Common(k, r.k) /\ Spares(k, r.k, {})
         /\ r.k.lock = k.lock /\ r.k.cur = k.cur /\ r.k.prioCur = k.prioCur
  BY DEF Suspends, Common, SameParts, SameRest, KeepsTypes, Spares, Limbo

LEMMA AddsCommon ==
  ASSUME NEW k, NEW j, Adds(k, j)
  PROVE  /\ Common(k, j) /\ Undisturbed(k, j, k.list)
         /\ j.lock = k.lock /\ j.cur = k.cur /\ j.prioCur = k.prioCur
         /\ j.rdy = k.rdy
  BY DEF Adds, Common, SameTasks

LEMMA SwitchesCommon ==
  ASSUME NEW k, NEW j, Switches(k, j)
  PROVE  /\ Common(k, j) /\ Spares(k, j, {}) /\ Undisturbed(k, j, k.list)
         /\ j.rdy = k.rdy
  BY DEF Switches, AllSame, Common, KeepsTypes, Spares, Limbo

LEMMA SoundCommon ==
  ASSUME NEW k, Sound(k)
  PROVE  Common(k, k) /\ Spares(k, k, {}) /\ Undisturbed(k, k, k.list)
  BY DEF Common, KeepsTypes, Spares, Undisturbed

(* A task that takes no step stays in order.                               *)
LEMMA ThreadKept ==
  ASSUME NEW p, NEW k, NEW j, NEW me, ThreadOK(p, k, me), KeepsTypes(k, j),
         me.pc # << >> /\ Head(me.pc) = "QCreateRing" => Limbo(j, me.loc)
  PROVE  ThreadOK(p, j, me)
<1>1. ASSUME NEW l, HeadOK(p, k, me, l), l = "QCreateRing" => Limbo(j, me.loc)
      PROVE  HeadOK(p, j, me, l)
  <2>1. l \in EventOps => j.event[me.ev].type = TypeFor(l)
    <3>1. ASSUME l \in EventOps
          PROVE  me.ev \in Ecb /\ k.event[me.ev].type = TypeFor(l) /\ TypeFor(l) # "UNUSED"
      BY <1>1, <3>1 DEF HeadOK, EventOps, TypeFor
    <3> QED
      BY <3>1 DEF KeepsTypes
  <2>2. l \in FlagOps => j.flag[me.ev].type = "FLAG"
    BY <1>1 DEF HeadOK, KeepsTypes
  <2>3. l = "PendMulti" => \A e \in me.ev : j.event[e].type \in EventTypes
    <3>1. "UNUSED" \notin EventTypes
      BY DEF EventTypes
    <3> QED
      BY <1>1, <3>1 DEF HeadOK, KeepsTypes
  <2> QED
    BY <1>1, <2>1, <2>2, <2>3 DEF HeadOK
<1>2. me.pc # << >> => HeadOK(p, j, me, Head(me.pc))
  BY <1>1 DEF ThreadOK
<1> QED
  BY <1>2 DEF ThreadOK

LEMMA TaskNone ==
  ASSUME NEW k, NEW t
  PROVE  \A ev : TaskOK(k, t, "none", ev) <=> WaitsForNothing(k, t)
  BY DEF TaskOK

-----------------------------------------------------------------------------
(* The invariant taken apart.                                              *)

LEMMA PlainIs ==
  PlainInv <=>
    /\ prog \in PlainPrograms /\ Sound(os)
    /\ \A t \in os.list : TaskOK(os, t, WaitOf(run[t]), run[t].ev)
    /\ HandlesOK /\ BootOK /\ ThreadsOK /\ SchedOK /\ HighestRuns
  BY DEF PlainInv, KernelOK, Sound

(* What holds of the task that takes a step.                               *)
Stepping ==
    /\ PlainInv /\ Running /\ UNCHANGED << prog, boot >>
    /\ Me.pc # << >> \/ Me.menu # {}

LEMMA StepperIs ==
  ASSUME Stepping
  PROVE  /\ Sound(os) /\ Plain(prog) /\ ObjectsMade
         /\ Cur \in os.list /\ Cur \in Tcb /\ os.prioCur = os.tcb[Cur].prio
         /\ os.tcb[Cur].prio # IdlePrio
         /\ ThreadOK(prog, os, Me) /\ TaskOK(os, Cur, WaitOf(Me), Me.ev)
         /\ IsReady(os, Cur) \/ (At("OS_Sched") /\ os.lock = 0)
         /\ os.lock > 0 => /\ ~(Me.pc # << >> /\ Head(Me.pc) \in Waiters)
                           /\ Uses(prog, {"SchedLock"})
         /\ os.lock \in 0 .. 255
         /\ Me.pc # << >> /\ Head(Me.pc) \in Waiters => os.lock = 0
<1>1. /\ Sound(os) /\ Plain(prog) /\ ObjectsMade /\ ThreadsOK
      /\ \A t \in os.list : TaskOK(os, t, WaitOf(run[t]), run[t].ev)
  BY PlainIs DEF Stepping, PlainPrograms, BootOK
<1>2. SchedOK
  BY PlainIs DEF Stepping
<1>3. /\ Cur \in os.list /\ os.prioCur = os.tcb[Cur].prio
      /\ IsReady(os, Cur) \/ (At("OS_Sched") /\ os.lock = 0)
      /\ os.lock > 0 => /\ ~(Me.pc # << >> /\ Head(Me.pc) \in Waiters)
                        /\ Uses(prog, {"SchedLock"})
  BY <1>2 DEF SchedOK, Stepping, AtOne, Cur, Me
<1>4. os \in Kernel /\ os.list \subseteq Tcb /\ os.lock \in 0 .. 255
  BY <1>1, Fields DEF Sound
<1>5. os.tcb[Cur].prio # IdlePrio
  BY <1>1, <1>3 DEF ThreadsOK, Stepping, Me
<1>6. os.lock > 0 \/ os.lock = 0
  BY ONLY <1>4
<1>7. ThreadOK(prog, os, Me) /\ TaskOK(os, Cur, WaitOf(Me), Me.ev) /\ Cur \in Tcb
  BY <1>1, <1>3, <1>4 DEF ThreadsOK, Me
<1> QED
  BY <1>1, <1>3, <1>4, <1>5, <1>6, <1>7

-----------------------------------------------------------------------------
(* The scheduler's part.                                                   *)

(* The highest ready task, when it stays ready and no other becomes so.    *)
LEMMA StaysHighest ==
  ASSUME NEW k, Sound(k), NEW j, Sound(j), Bits(j.rdy) \subseteq Bits(k.rdy),
         HighestPrio(k.rdy) \in Bits(j.rdy)
  PROVE  HighestPrio(j.rdy) = HighestPrio(k.rdy)
<1>1. Consistent(k.rdy) /\ Consistent(j.rdy) /\ Bits(k.rdy) # {} /\ Bits(j.rdy) # {}
  BY DEF Sound, BitsOK
<1>2. /\ HighestPrio(k.rdy) \in Bits(k.rdy) /\ \A p \in Bits(k.rdy) : HighestPrio(k.rdy) <= p
      /\ HighestPrio(j.rdy) \in Bits(j.rdy) /\ \A p \in Bits(j.rdy) : HighestPrio(j.rdy) <= p
  BY <1>1, HighestIsLeast
<1>3. Bits(k.rdy) \subseteq Int
  BY <1>1, BitsTest, BitmapAssumption DEF Prio
<1> QED
  BY <1>2, <1>3

LEMMA SameHighest ==
  ASSUME NEW k, Sound(k), NEW j, Sound(j), Bits(j.rdy) = Bits(k.rdy)
  PROVE  HighestPrio(j.rdy) = HighestPrio(k.rdy)
<1>1. HighestPrio(k.rdy) \in Bits(k.rdy)
  BY HighestReady
<1> QED
  BY <1>1, StaysHighest

IsAt(me, labels) == me.pc # << >> /\ Head(me.pc) \in labels

(* How a step of the task that becomes me leaves the ready list, the       *)
(* scheduler's lock and the task.                                          *)
Rescheduling(me) ==
    /\ IsAt(me, {"OS_Sched"})
    /\ \/ os'.lock = 0
       \/ os'.lock = os.lock /\ Bits(os.rdy) \subseteq Bits(os'.rdy)

NothingNew(me) ==
    /\ os'.lock = os.lock /\ Bits(os'.rdy) = Bits(os.rdy)
    /\ IsAt(me, Waiters) => os.lock = 0

Postponed(me) ==
    /\ os'.lock = os.lock /\ Bits(os.rdy) \subseteq Bits(os'.rdy)
    /\ ~IsAt(me, Waiters) /\ Deferred

Fewer ==
    /\ os.lock = 0 /\ os'.lock = 0
    /\ Bits(os'.rdy) \subseteq Bits(os.rdy) /\ IsReady(os', Cur)

Locked(me) ==
    /\ os'.lock > 0 /\ Bits(os'.rdy) = Bits(os.rdy)
    /\ ~IsAt(me, Waiters) /\ Uses(prog, {"SchedLock"})

(* The task that has the processor keeps it.                               *)
Keeps(me) ==
    /\ run' = [run EXCEPT ![Cur] = me] /\ me.menu = Me.menu
    /\ os'.cur = Cur /\ os'.prioCur = os.prioCur
    /\ Common(os, os')

LEMMA Scheduled ==
  ASSUME Stepping, ~At("OS_Sched"), NEW me, Keeps(me),
         \/ Rescheduling(me) \/ NothingNew(me) \/ Postponed(me) \/ Fewer \/ Locked(me)
  PROVE  SchedOK' /\ HighestRuns'
<1>1. /\ Cur \in os.list /\ os.prioCur = os.tcb[Cur].prio /\ Cur \in Tcb
      /\ IsReady(os, Cur) /\ os.tcb[Cur].prio \in Prio /\ Sound(os)
      /\ os.lock > 0 => Uses(prog, {"SchedLock"})
      /\ os.lock \in 0 .. 255
  BY StepperIs, Fields DEF Sound
<1>2. /\ Sound(os') /\ os'.list = os.list /\ os'.prioTbl = os.prioTbl
      /\ os'.cur = Cur /\ os'.prioCur = os.prioCur
      /\ os'.tcb[Cur].prio = os.tcb[Cur].prio
  BY <1>1 DEF Keeps, Common
<1>3. DOMAIN run = Tcb
  BY PlainIs DEF Stepping, ThreadsOK
<1>4. run'[Cur] = me
  BY <1>1, <1>3 DEF Keeps
<1>5. /\ At("OS_Sched")' <=> IsAt(me, {"OS_Sched"})
      /\ AtOne(os.cur, Waiters)' <=> IsAt(me, Waiters)
  BY <1>2, <1>4 DEF At, AtOne, IsAt, Me, Cur
<1>6. /\ IsReady(os', Cur) <=> os.tcb[Cur].prio \in Bits(os'.rdy)
      /\ IsReady(os, Cur) <=> os.tcb[Cur].prio \in Bits(os.rdy)
  BY <1>2 DEF IsReady
<1>7. Deferred' <=> Deferred
  <2>1. \A t \in os.list : run'[t].menu = run[t].menu
    <3>1. os.list \subseteq Tcb
      BY <1>1, Fields DEF Sound
    <3> QED
      BY <1>3, <1>4, <3>1 DEF Keeps, Me
  <2> QED
    BY <1>2, <2>1 DEF Deferred
<1>8. os.lock > 0 \/ Deferred \/ os.prioTbl[HighestPrio(os.rdy)] = Cur
  <2>1. HighestRuns
    BY PlainIs DEF Stepping
  <2> QED
    BY <1>1, <2>1 DEF HighestRuns, Stepping
<1>9. "OS_Sched" \notin Waiters
  BY DEF Waiters
<1>10. SchedOK'
  <2>1. IsReady(os', Cur) \/ (IsAt(me, {"OS_Sched"}) /\ os'.lock = 0)
    BY <1>1, <1>6 DEF Rescheduling, NothingNew, Postponed, Fewer, Locked
  <2>2. os'.lock > 0 => ~IsAt(me, Waiters) /\ Uses(prog, {"SchedLock"})
    BY <1>1, <1>9 DEF Rescheduling, NothingNew, Postponed, Fewer, Locked, IsAt
  <2>3. SchedOK' <=> (Running' =>
          /\ os'.cur \in os'.list /\ os'.prioCur = os'.tcb[os'.cur].prio
          /\ IsReady(os', os'.cur) \/ (At("OS_Sched")' /\ os'.lock = 0)
          /\ os'.lock > 0 => ~AtOne(os.cur, Waiters)' /\ Uses(prog', {"SchedLock"}))
    BY DEF SchedOK
  <2> QED
    BY <1>1, <1>2, <1>5, <2>1, <2>2, <2>3 DEF Stepping
<1>11. HighestRuns'
  <2>1. HighestRuns' <=>
          \/ ~Running' \/ os'.lock > 0 \/ At("OS_Sched")' \/ Deferred'
          \/ os'.prioCur # os'.tcb[Cur'].prio
          \/ os'.prioTbl[HighestPrio(os'.rdy)] = Cur'
    BY DEF HighestRuns
  <2>2. Cur' = Cur
    BY <1>2 DEF Cur
  <2>3. SUFFICES ASSUME ~(os'.lock > 0), ~IsAt(me, {"OS_Sched"}), ~Deferred
                 PROVE  os.prioTbl[HighestPrio(os'.rdy)] = Cur
    BY <1>2, <1>5, <1>7, <2>1, <2>2
  <2>4. CASE NothingNew(me)
    BY <1>1, <1>2, <1>8, <2>3, <2>4, SameHighest DEF NothingNew
  <2>5. CASE Fewer
    <3>1. os.prioTbl[HighestPrio(os.rdy)] = Cur
      BY <1>8, <2>3, <2>5 DEF Fewer
    <3>2. HighestPrio(os.rdy) = os.tcb[Cur].prio
      BY <1>1, <3>1, HighestReady
    <3> QED
      BY <1>1, <1>2, <1>6, <2>5, <3>1, <3>2, StaysHighest DEF Fewer
  <2> QED
    BY <2>3, <2>4, <2>5 DEF Rescheduling, Postponed, Locked
<1> QED
  BY <1>10, <1>11

-----------------------------------------------------------------------------
(* A step of the running task.                                             *)

LEMMA HandlesKept ==
  ASSUME HandlesOK, Common(os, os'), UNCHANGED << obj, prog, boot >>
  PROVE  HandlesOK'
<1>1. \A i \in DOMAIN prog.objects : i < boot.object =>
        LET o == prog.objects[i] IN
        /\ o.type = "SEM" => obj[o.name] \in Ecb /\ os'.event[obj[o.name]].type = "SEM"
        /\ o.type = "FLAG" => obj[o.name] \in Fgp /\ os'.flag[obj[o.name]].type = "FLAG"
  BY DEF HandlesOK, Common, KeepsTypes
<1> QED
  BY <1>1 DEF HandlesOK

(* A handle of an object that the start does not create.                   *)
LEMMA HandlesCreated ==
  ASSUME HandlesOK, Common(os, os'), UNCHANGED << prog, boot >>, Plain(prog),
         NEW name, Declares(prog, name, "NONE"), NEW h,
         h \in {Null} \cup (IF name \in GroupNames(prog) THEN Fgp ELSE Ecb),
         obj' = [obj EXCEPT ![name] = h]
  PROVE  HandlesOK'
<1>1. DOMAIN obj = Names(prog) /\ name \in Names(prog)
  BY DEF HandlesOK, Declares, Names
<1>2. \A i \in DOMAIN prog.objects :
        prog.objects[i].type \in {"SEM", "FLAG"} => prog.objects[i].name # name
  BY DEF Plain, ObjectsPlain, Declares
<1>3. \A n \in Names(prog) : obj'[n] = IF n = name THEN h ELSE obj[n]
  BY <1>1
<1>4. \A i \in DOMAIN prog.objects : prog.objects[i].name \in Names(prog)
  BY DEF Names
<1>5. \A i \in DOMAIN prog.objects : i < boot.object =>
        LET o == prog.objects[i] IN
        /\ o.type = "SEM" => obj'[o.name] \in Ecb /\ os'.event[obj'[o.name]].type = "SEM"
        /\ o.type = "FLAG" => obj'[o.name] \in Fgp /\ os'.flag[obj'[o.name]].type = "FLAG"
  <2>1. ASSUME NEW i \in DOMAIN prog.objects, i < boot.object,
               prog.objects[i].type \in {"SEM", "FLAG"}
        PROVE  obj'[prog.objects[i].name] = obj[prog.objects[i].name]
    BY <1>2, <1>3, <1>4, <2>1
  <2> QED
    BY <2>1 DEF HandlesOK, Common, KeepsTypes
<1>6. DOMAIN obj' = Names(prog)
  BY <1>1
<1>7. \A n \in Names(prog) :
        obj'[n] \in {Null} \cup (IF n \in GroupNames(prog) THEN Fgp ELSE Ecb)
  BY <1>3 DEF HandlesOK
<1> QED
  BY <1>5, <1>6, <1>7 DEF HandlesOK

(* The running task becomes me, and a task runs after the step.            *)
StepsTo(me) ==
    run' = [run EXCEPT ![Cur] = me] /\ Common(os, os') /\ os'.cur # Null

(* The other tasks, and the kernel's view of all of them.                  *)
LEMMA RunnerSteps ==
  ASSUME Stepping, NEW me, StepsTo(me),
         NEW E, Spares(os, os', E), \A e \in E : At("QCreateRing") /\ e = Me.loc,
         \A u \in os.list \ {Cur} : TaskOK(os', u, WaitOf(run[u]), run[u].ev),
         TaskOK(os', Cur, WaitOf(me), me.ev), ThreadOK(prog, os', me),
         IsAt(me, {"QCreateRing"}) => ~Limbo(os, me.loc),
         HandlesOK', SchedOK', HighestRuns'
  PROVE  PlainInv'
<1>1. /\ Sound(os) /\ ObjectsMade /\ Cur \in os.list /\ Cur \in Tcb
      /\ os.tcb[Cur].prio # IdlePrio
  BY StepperIs
<1>2. /\ Sound(os') /\ os'.list = os.list /\ KeepsTypes(os, os')
      /\ \A t \in Tcb : os'.tcb[t].prio = os.tcb[t].prio
      /\ os.list \subseteq Tcb
  BY <1>1, Fields DEF StepsTo, Common, Sound
<1>3. ThreadsOK /\ BootOK /\ prog \in PlainPrograms
  BY PlainIs DEF Stepping
<1>4. DOMAIN run' = Tcb /\ \A t \in Tcb : run'[t] = IF t = Cur THEN me ELSE run[t]
  BY <1>1, <1>3 DEF StepsTo, ThreadsOK
<1>5. \A t \in Tcb : t # Cur /\ IsAt(run[t], {"QCreateRing"}) => Limbo(os', run[t].loc)
  <2>1. SUFFICES ASSUME NEW t \in Tcb, t # Cur, IsAt(run[t], {"QCreateRing"})
                 PROVE  Limbo(os', run[t].loc)
    OBVIOUS
  <2>2. Limbo(os, run[t].loc)
    BY <1>3, <2>1 DEF ThreadsOK, ThreadOK, HeadOK, IsAt
  <2>3. run[t].loc \notin E
    <3>1. ASSUME At("QCreateRing"), run[t].loc = Me.loc
          PROVE  t = Cur
      BY <1>1, <1>3, <2>1, <3>1 DEF ThreadsOK, AtOne, IsAt, At, Me
    <3> QED
      BY <2>1, <3>1
  <2> QED
    BY <2>2, <2>3 DEF Spares, Limbo
<1>6. ASSUME NEW t \in Tcb
      PROVE  ThreadOK(prog, os', run'[t])
  <2>1. CASE t = Cur
    BY <1>4, <2>1
  <2>2. CASE t # Cur
    <3>1. ThreadOK(prog, os, run[t])
      BY <1>3 DEF ThreadsOK
    <3>2. run[t].pc # << >> /\ Head(run[t].pc) = "QCreateRing" => Limbo(os', run[t].loc)
      BY <1>5, <2>2 DEF IsAt
    <3> QED
      BY <1>2, <1>4, <2>2, <3>1, <3>2, ThreadKept
  <2> QED
    BY <2>1, <2>2
<1>7. ASSUME NEW t \in Tcb, NEW u \in Tcb, IsAt(run'[t], {"QCreateRing"}),
             IsAt(run'[u], {"QCreateRing"}), run'[t].loc = run'[u].loc
      PROVE  t = u
  <2>1. CASE t # Cur /\ u # Cur
    BY <1>3, <1>4, <1>7, <2>1 DEF ThreadsOK, AtOne, IsAt
  <2>2. CASE t = Cur /\ u = Cur
    BY <2>2
  <2>3. ASSUME NEW v \in Tcb, v # Cur, IsAt(run[v], {"QCreateRing"})
        PROVE  Limbo(os, run[v].loc)
    BY <1>3, <2>3 DEF ThreadsOK, ThreadOK, HeadOK, IsAt
  <2>4. CASE t = Cur /\ u # Cur
    BY <1>4, <1>7, <2>3, <2>4
  <2>5. CASE t # Cur /\ u = Cur
    BY <1>4, <1>7, <2>3, <2>5
  <2> QED
    BY <2>1, <2>2, <2>4, <2>5
<1>8. /\ \A t \in Tcb \ os.list : run'[t].pc = << >>
      /\ \A t \in os.list : os.tcb[t].prio = IdlePrio =>
           run'[t].menu = {} /\ run'[t].pc = << >>
  BY <1>1, <1>2, <1>3, <1>4 DEF ThreadsOK
<1>9. ThreadsOK'
  <2>1. \A t \in Tcb : ThreadOK(prog', os', run'[t])
    BY <1>6 DEF Stepping
  <2>2. \A t, u \in Tcb :
          AtOne(t, {"QCreateRing"})' /\ AtOne(u, {"QCreateRing"})'
            /\ run'[t].loc = run'[u].loc => t = u
    BY <1>7 DEF AtOne, IsAt
  <2>3. /\ \A t \in Tcb \ os'.list : run'[t].pc = << >>
        /\ \A t \in os'.list : os'.tcb[t].prio = IdlePrio =>
             run'[t].menu = {} /\ run'[t].pc = << >>
    BY <1>2, <1>8
  <2> QED
    BY <1>4, <2>1, <2>2, <2>3, Zenon DEF ThreadsOK
<1>10. BootOK'
  <2>1. os'.cur # Null
    BY DEF StepsTo
  <2>2. Running' /\ ObjectsMade'
    BY <1>1, <2>1 DEF Stepping, Running, ObjectsMade
  <2>3. boot' \in [object : Nat \ {0}, task : Nat \ {0}]
    BY <1>3 DEF BootOK, Stepping
  <2> QED
    BY <2>2, <2>3 DEF BootOK
<1>11. \A t \in os'.list : TaskOK(os', t, WaitOf(run'[t]), run'[t].ev)
  BY <1>1, <1>2, <1>4
<1>12. prog' \in PlainPrograms
  BY <1>3 DEF Stepping
<1>13. PlainInv' <=>
         /\ prog' \in PlainPrograms /\ Sound(os')
         /\ \A t \in os'.list : TaskOK(os', t, WaitOf(run'[t]), run'[t].ev)
         /\ HandlesOK' /\ BootOK' /\ ThreadsOK' /\ SchedOK' /\ HighestRuns'
  BY DEF PlainInv, KernelOK, Sound
<1> QED
  BY <1>2, <1>9, <1>10, <1>11, <1>12, <1>13

(* What a step of the running task does to the scheduler's data when it    *)
(* puts next in the place of the label it was at.                          *)
Schedules(next) ==
    \/ /\ next # << >> /\ Head(next) = "OS_Sched"
       /\ \/ os'.lock = 0
          \/ os'.lock = os.lock /\ Bits(os.rdy) \subseteq Bits(os'.rdy)
    \/ /\ os'.lock = os.lock /\ Bits(os'.rdy) = Bits(os.rdy)
       /\ next # << >> /\ Head(next) \in Waiters => os.lock = 0
    \/ /\ next = << >> /\ os'.lock = os.lock
       /\ Bits(os.rdy) \subseteq Bits(os'.rdy) /\ Deferred
    \/ Fewer
    \/ /\ next = << >> /\ os'.lock > 0 /\ Bits(os'.rdy) = Bits(os.rdy)
       /\ Uses(prog, {"SchedLock"})

LEMMA StepMoves ==
  ASSUME Stepping, Me.pc # << >>, Head(Me.pc) # "OS_Sched", NEW next, StackOK(next),
         next # << >> => Head(next) \notin WaitLabels,
         \A i \in DOMAIN next : Backed(prog, next[i]),
         NEW me, Keeps(me), DOMAIN me = RunFields, me.pc = next \o Tail(Me.pc),
         me.hand \subseteq Block,
         next # << >> => HeadOK(prog, os', me, Head(next)),
         NextWait(next) = "FlagPended" =>
           me.arg \in Wanted /\ (me.arg.consume => me.arg.type \in ForSet),
         NextWait(next) = "MultiPended" => Uses(prog, {"PendMulti"}),
         NEW E, Spares(os, os', E), \A e \in E : At("QCreateRing") /\ e = Me.loc,
         next # << >> /\ Head(next) = "QCreateRing" => ~Limbo(os, me.loc),
         \A u \in os.list \ {Cur} : TaskOK(os', u, WaitOf(run[u]), run[u].ev),
         TaskOK(os', Cur, NextWait(next), me.ev),
         HandlesOK', Schedules(next)
  PROVE  PlainInv'
<1>1. ThreadOK(prog, os, Me)
  BY StepperIs
<1>2. me.menu = Me.menu
  BY DEF Keeps
<1>3. ThreadOK(prog, os', me) /\ WaitOf(me) = NextWait(next) /\ Moved(me, next)
  <2> HIDE DEF Me
  <2> QED
    BY <1>1, <1>2, ThreadMoves
<1>4. /\ "OS_Sched" \notin Conts /\ "QCreateRing" \notin Conts
      /\ Conts \cap Waiters = {}
  BY DEF Conts, Waiters
<1>5. IsAt(me, {"QCreateRing"}) => ~Limbo(os, me.loc)
  BY <1>3, <1>4 DEF Moved, IsAt
<1>6. /\ next # << >> /\ Head(next) = "OS_Sched" => IsAt(me, {"OS_Sched"})
      /\ IsAt(me, Waiters) => next # << >> /\ Head(next) \in Waiters
  BY <1>3, <1>4 DEF Moved, IsAt
<1>7. ~At("OS_Sched")
  BY DEF At
<1>8. \/ Rescheduling(me) \/ NothingNew(me) \/ Postponed(me) \/ Fewer \/ Locked(me)
  BY <1>6 DEF Schedules, Rescheduling, NothingNew, Postponed, Locked
<1>9. SchedOK' /\ HighestRuns'
  BY <1>7, <1>8, Scheduled
<1>10. StepsTo(me)
  BY DEF Keeps, StepsTo, Stepping, Running, Cur
<1> QED
  BY <1>3, <1>5, <1>9, <1>10, RunnerSteps

-----------------------------------------------------------------------------
(* A call of the kernel.                                                   *)

Alike(me, m) ==
    /\ DOMAIN m = RunFields /\ m.hand \subseteq me.hand
    /\ m.pc = me.pc /\ m.menu = me.menu /\ m.obj = me.obj /\ m.ev = me.ev
    /\ m.arg = me.arg /\ m.loc = me.loc

(* The task me goes on at the labels next, where loc is what it holds.     *)
GoesOn(me, next, loc, n) ==
    /\ DOMAIN n = RunFields /\ n.pc = next \o Tail(me.pc) /\ n.menu = me.menu
    /\ n.hand \subseteq Block
    /\ n.pc # << >> =>
         /\ n.obj = me.obj /\ n.ev = me.ev /\ n.arg = me.arg
         /\ n.loc = IF loc # Null THEN loc ELSE me.loc

LEMMA LeftIs ==
  ASSUME NEW me, me.hand \subseteq Block, NEW m, Alike(me, m), NEW r
  PROVE  GoesOn(me, r.cont, r.loc, Left(r, m))
<1> DEFINE i == [m EXCEPT !.pc = r.cont \o Tail(@),
                          !.loc = IF r.loc # Null THEN r.loc ELSE @,
                          !.hand = @ \cup (r.got \cap Block)]
<1>1. /\ DOMAIN i = RunFields /\ i.pc = r.cont \o Tail(me.pc) /\ i.menu = me.menu
      /\ i.hand = m.hand \cup (r.got \cap Block)
      /\ i.obj = me.obj /\ i.ev = me.ev /\ i.arg = me.arg
      /\ i.loc = IF r.loc # Null THEN r.loc ELSE me.loc
  BY DEF Alike, RunFields
<1>2. Left(r, m) = Settle(i)
  BY DEF Left
<1>3. i.hand \subseteq Block
  BY <1>1 DEF Alike
<1> HIDE DEF i
<1>4. LET n == Settle(i) IN
      /\ DOMAIN n = RunFields /\ n.pc = i.pc /\ n.menu = i.menu /\ n.hand = i.hand
      /\ n.pc # << >> => n = i
  BY <1>1 DEF Settle, RunFields
<1> QED
  BY <1>1, <1>2, <1>3, <1>4 DEF GoesOn

LEMMA AlikeIs ==
  ASSUME NEW r, NEW msg, DOMAIN Me = RunFields
  PROVE  Alike(Me, Me) /\ Alike(Me, Acquires(r)) /\ Alike(Me, Releases(r))
         /\ Alike(Me, Sends(r, msg))
<1>1. Alike(Me, Me)
  BY DEF Alike
<1>2. Alike(Me, Acquires(r))
  BY <1>1 DEF Alike, Acquires, RunFields
<1>3. Alike(Me, Releases(r))
  BY <1>1 DEF Alike, Releases, RunFields
<1>4. Alike(Me, Sends(r, msg))
  BY <1>1 DEF Alike, Sends, RunFields
<1> QED
  BY <1>1, <1>2, <1>3, <1>4

CallConts == {<< >>, << "OS_Sched" >>} \cup {<< "OS_Sched", w >> : w \in WaitLabels}

LEMMA CallContsAre ==
  ASSUME NEW next \in CallConts
  PROVE  /\ StackOK(next)
         /\ next # << >> => Head(next) = "OS_Sched"
         /\ \A p : \A i \in DOMAIN next : Backed(p, next[i])
         /\ NextWait(next) \in WaitLabels \cup {"none"}
         /\ NextWait(next) = "none" => next \in {<< >>, << "OS_Sched" >>}
         /\ NextWait(next) # "none" => next = << "OS_Sched", NextWait(next) >>
<1>1. \A p : Backed(p, "OS_Sched") /\ \A w \in WaitLabels : Backed(p, w)
  BY DEF Backed, FdLabels, ConsoleLabels, LibLabels, WaitLabels
<1>2. "OS_Sched" \in Labels /\ WaitLabels \subseteq Labels /\ "none" \notin WaitLabels
  BY DEF Labels, WaitLabels
<1>3. CASE next = << >>
  BY <1>3 DEF StackOK, NextWait
<1>4. CASE next = << "OS_Sched" >>
  BY <1>1, <1>2, <1>4 DEF StackOK, NextWait
<1>5. ASSUME NEW w \in WaitLabels, next = << "OS_Sched", w >>
      PROVE  /\ StackOK(next) /\ Head(next) = "OS_Sched" /\ next # << >>
             /\ \A p : \A i \in DOMAIN next : Backed(p, next[i])
             /\ NextWait(next) = w
  BY <1>1, <1>2, <1>5 DEF StackOK, NextWait
<1> QED
  BY <1>2, <1>3, <1>4, <1>5 DEF CallConts

LEMMA NoWait ==
  ASSUME NEW next \in {<< >>, << "OS_Sched" >>}
  PROVE  next \in CallConts /\ NextWait(next) = "none"
  BY DEF CallConts, NextWait

(* A critical section of a call leaves the kernel as r says and the task   *)
(* with what m says.                                                       *)
Calling(r, m) ==
    /\ Stepping /\ Me.pc # << >> /\ Head(Me.pc) # "OS_Sched"
    /\ Alike(Me, m) /\ Leave(r, m)

LEMMA CallMoves ==
  ASSUME NEW r, NEW m, Calling(r, m), HandlesOK', r.cont \in CallConts,
         Common(os, r.k), r.k.cur = Cur, r.k.prioCur = os.prioCur,
         NEW E, Spares(os, r.k, E), \A e \in E : At("QCreateRing") /\ e = Me.loc,
         \A u \in os.list \ {Cur} : TaskOK(r.k, u, WaitOf(run[u]), run[u].ev),
         TaskOK(r.k, Cur, NextWait(r.cont), Me.ev),
         NextWait(r.cont) = "FlagPended" => Head(Me.pc) = "FlagPend",
         NextWait(r.cont) = "MultiPended" => Head(Me.pc) = "PendMulti",
         Schedules(r.cont)
  PROVE  PlainInv'
<1> DEFINE n == Left(r, m)
           next == r.cont
<1>1. os' = r.k /\ run' = [run EXCEPT ![Cur] = n]
  BY DEF Calling, Leave
<1>2. ThreadOK(prog, os, Me)
  BY StepperIs DEF Calling
<1>3. Me.hand \subseteq Block /\ HeadOK(prog, os, Me, Head(Me.pc))
  BY <1>2 DEF ThreadOK, Calling
<1>4. /\ DOMAIN n = RunFields /\ n.pc = next \o Tail(Me.pc) /\ n.menu = Me.menu
      /\ n.hand \subseteq Block
      /\ n.pc # << >> => n.ev = Me.ev /\ n.arg = Me.arg
  <2>1. Alike(Me, m)
    BY DEF Calling
  <2>2. GoesOn(Me, next, r.loc, n)
    <3> HIDE DEF Me
    <3> QED
      BY <1>3, <2>1, LeftIs
  <2> QED
    BY <2>2 DEF GoesOn
<1> HIDE DEF n
<1>5. /\ StackOK(next)
      /\ next # << >> => Head(next) = "OS_Sched"
      /\ \A i \in DOMAIN next : Backed(prog, next[i])
      /\ NextWait(next) \in WaitLabels \cup {"none"}
      /\ NextWait(next) # "none" => next # << >>
  BY CallContsAre DEF NextWait
<1>6. next # << >> => n.pc # << >>
  <2>1. StackOK(Me.pc) /\ Me.pc # << >> /\ Head(Me.pc) # "OS_Sched"
    BY <1>2 DEF ThreadOK, Calling
  <2>2. next # << >> => next \o Tail(Me.pc) # << >>
    <3> HIDE DEF Me, next
    <3> QED
      BY <1>5, <2>1, StackMoves
  <2> QED
    BY <1>4, <2>2
<1>7. NextWait(next) # "none" => n.ev = Me.ev /\ n.arg = Me.arg
  BY <1>4, <1>5, <1>6
<1>8. TaskOK(os', Cur, NextWait(next), n.ev)
  BY <1>1, <1>7, TaskNone
<1>9. NextWait(next) = "FlagPended" =>
        n.arg \in Wanted /\ (n.arg.consume => n.arg.type \in ForSet)
  BY <1>3, <1>7 DEF HeadOK, ArgOK
<1>10. NextWait(next) = "MultiPended" => Uses(prog, {"PendMulti"})
  BY <1>3 DEF HeadOK
<1>11. Keeps(n)
  BY <1>1, <1>4 DEF Keeps
<1>12. next # << >> => HeadOK(prog, os', n, Head(next))
  BY <1>5, ContsNeedNothing
<1>13. "OS_Sched" \notin WaitLabels
  BY DEF WaitLabels
<1>14. /\ Stepping /\ Me.pc # << >> /\ Head(Me.pc) # "OS_Sched"
       /\ Spares(os, os', E)
       /\ \A u \in os.list \ {Cur} : TaskOK(os', u, WaitOf(run[u]), run[u].ev)
       /\ next # << >> => Head(next) \notin WaitLabels
       /\ ~(next # << >> /\ Head(next) = "QCreateRing")
  BY <1>1, <1>5, <1>13 DEF Calling
<1> HIDE DEF next
<1>15. Schedules(next)
  BY DEF next
<1> QED
  BY <1>4, <1>5, <1>8, <1>9, <1>10, <1>11, <1>12, <1>14, <1>15, StepMoves

(* The task waits for nothing at a label that no wait goes on at.          *)
LEMMA RunnerWaits ==
  ASSUME Stepping, Me.pc # << >>, Head(Me.pc) # "OS_Sched"
  PROVE  /\ IsReady(os, Cur)
         /\ Head(Me.pc) \in WaitLabels => TaskOK(os, Cur, Head(Me.pc), Me.ev)
         /\ Head(Me.pc) \notin WaitLabels => WaitsForNothing(os, Cur) /\ Idle(os)
<1>1. /\ Sound(os) /\ Cur \in os.list /\ os.tcb[Cur].prio # IdlePrio
      /\ ThreadOK(prog, os, Me) /\ TaskOK(os, Cur, WaitOf(Me), Me.ev)
      /\ IsReady(os, Cur)
  BY StepperIs DEF At
<1>2. StackOK(Me.pc)
  BY <1>1 DEF ThreadOK
<1>3. /\ Head(Me.pc) = Me.pc[1]
      /\ Me.pc[1] \in WaitLabels => WaitOf(Me) = Me.pc[1]
      /\ Me.pc[1] \notin WaitLabels => WaitOf(Me) = NextWait(Me.pc)
  <2> HIDE DEF Me
  <2> QED
    BY <1>2, WaitOfIs
<1>4. Head(Me.pc) \notin WaitLabels => WaitOf(Me) = "none"
  BY <1>3 DEF NextWait
<1>5. Head(Me.pc) \notin WaitLabels => WaitsForNothing(os, Cur)
  BY <1>1, <1>4, TaskNone
<1> QED
  BY <1>1, <1>3, <1>5 DEF Idle, Cur

LEMMA OthersWait ==
  ASSUME PlainInv, NEW j, NEW U, U \subseteq os.list, Undisturbed(os, j, U)
  PROVE  \A u \in U : TaskOK(j, u, WaitOf(run[u]), run[u].ev)
<1>1. \A u \in os.list : TaskOK(os, u, WaitOf(run[u]), run[u].ev)
  BY PlainIs
<1> QED
  BY <1>1 DEF Undisturbed

(* The outcomes of a call.                                                 *)
LEMMA ServingMoves ==
  ASSUME NEW r, NEW m, Calling(r, m), UNCHANGED obj, Serves(os, r),
         Head(Me.pc) \notin WaitLabels \cup {"QCreateRing"}
  PROVE  PlainInv'
<1>1. /\ Rouses(os, r.k) /\ Bits(os.rdy) \subseteq Bits(r.k.rdy)
      /\ r.cont \in {<< >>, << "OS_Sched" >>}
      /\ r.cont = << >> => Bits(r.k.rdy) = Bits(os.rdy)
  BY DEF Serves, Rouses
<1>2. /\ Common(os, r.k) /\ Spares(os, r.k, {}) /\ r.k.lock = os.lock
      /\ r.k.cur = Cur /\ r.k.prioCur = os.prioCur /\ Undisturbed(os, r.k, os.list)
  BY <1>1, RousesCommon DEF Cur
<1>3. Stepping /\ os' = r.k /\ UNCHANGED << prog, boot, obj >>
  BY DEF Calling, Leave, Stepping
<1>4. PlainInv /\ HandlesOK
  BY <1>3, PlainIs DEF Stepping
<1>5. HandlesOK'
  BY <1>2, <1>3, <1>4, HandlesKept
<1>6. \A u \in os.list : TaskOK(r.k, u, WaitOf(run[u]), run[u].ev)
  BY <1>2, <1>4, OthersWait
<1>7. r.cont \in CallConts /\ NextWait(r.cont) = "none"
  BY <1>1 DEF CallConts, NextWait
<1>8. TaskOK(r.k, Cur, NextWait(r.cont), Me.ev)
  <2>1. WaitsForNothing(os, Cur) /\ Cur \in os.list
    BY <1>3, RunnerWaits, StepperIs DEF Calling
  <2>2. \A ev : TaskOK(os, Cur, "none", ev)
    BY <2>1, TaskNone
  <2> QED
    BY <1>2, <1>7, <2>1, <2>2 DEF Undisturbed
<1>9. Schedules(r.cont)
  BY <1>1, <1>2, <1>3 DEF Schedules
<1> QED
  BY <1>2, <1>5, <1>6, <1>7, <1>8, <1>9, CallMoves

(* A call that begins to wait is one that found the scheduler unlocked.    *)
LEMMA WaitingMoves ==
  ASSUME NEW r, NEW m, Calling(r, m), UNCHANGED obj, Head(Me.pc) \in Waiters,
         \/ \E w \in WaitLabels :
              /\ GoesToWait(os, r, w, Me.ev)
              /\ w = "FlagPended" => Head(Me.pc) = "FlagPend"
              /\ w = "MultiPended" => Head(Me.pc) = "PendMulti"
         \/ GoesToSleep(os, r)
  PROVE  PlainInv'
<1>1. /\ Orderly(os, r.k, {Cur}) /\ r.cont \in CallConts /\ r.cont # << >>
      /\ Head(r.cont) = "OS_Sched"
      /\ TaskOK(r.k, Cur, NextWait(r.cont), Me.ev)
      /\ NextWait(r.cont) = "FlagPended" => Head(Me.pc) = "FlagPend"
      /\ NextWait(r.cont) = "MultiPended" => Head(Me.pc) = "PendMulti"
  <2>1. ASSUME NEW w \in WaitLabels, GoesToWait(os, r, w, Me.ev)
        PROVE  /\ Orderly(os, r.k, {Cur}) /\ r.cont \in CallConts /\ r.cont # << >>
               /\ Head(r.cont) = "OS_Sched"
               /\ TaskOK(r.k, Cur, NextWait(r.cont), Me.ev) /\ NextWait(r.cont) = w
    <3>1. r.cont = << "OS_Sched", w >>
      BY <2>1 DEF GoesToWait
    <3>2. NextWait(r.cont) = w /\ r.cont \in CallConts
      BY <3>1 DEF NextWait, CallConts
    <3> QED
      BY <2>1, <3>1, <3>2 DEF GoesToWait, Cur
  <2>2. CASE GoesToSleep(os, r)
    <3>1. r.cont = << "OS_Sched" >>
      BY <2>2 DEF GoesToSleep
    <3>2. NextWait(r.cont) = "none" /\ r.cont \in CallConts
      BY <3>1 DEF NextWait, CallConts
    <3> QED
      BY <2>2, <3>1, <3>2, TaskNone DEF GoesToSleep, Cur
  <2> QED
    BY <2>1, <2>2
<1>2. /\ Common(os, r.k) /\ Spares(os, r.k, {}) /\ r.k.lock = os.lock
      /\ r.k.cur = Cur /\ r.k.prioCur = os.prioCur
      /\ Undisturbed(os, r.k, os.list \ {Cur})
  BY <1>1, OrderlyCommon DEF Cur
<1>3. Stepping /\ os' = r.k /\ UNCHANGED << prog, boot, obj >>
  BY DEF Calling, Leave, Stepping
<1>4. PlainInv /\ HandlesOK
  BY <1>3, PlainIs DEF Stepping
<1>5. HandlesOK'
  BY <1>2, <1>3, <1>4, HandlesKept
<1>6. \A u \in os.list \ {Cur} : TaskOK(r.k, u, WaitOf(run[u]), run[u].ev)
  BY <1>2, <1>4, OthersWait
<1>7. os.lock = 0
  BY <1>3, StepperIs DEF Calling
<1>8. Schedules(r.cont)
  BY <1>1, <1>2, <1>3, <1>7 DEF Schedules
<1>9. /\ r.cont \in CallConts /\ TaskOK(r.k, Cur, NextWait(r.cont), Me.ev)
      /\ NextWait(r.cont) = "FlagPended" => Head(Me.pc) = "FlagPend"
      /\ NextWait(r.cont) = "MultiPended" => Head(Me.pc) = "PendMulti"
  BY <1>1
<1> QED
  BY <1>2, <1>5, <1>6, <1>8, <1>9, CallMoves

LEMMA BackMoves ==
  ASSUME NEW r, NEW m, Calling(r, m), UNCHANGED obj, ComesBack(os, r)
  PROVE  PlainInv'
<1>1. /\ Orderly(os, r.k, {Cur}) /\ r.cont = << >> /\ r.k.rdy = os.rdy
      /\ WaitsForNothing(r.k, Cur)
  BY DEF ComesBack, Cur
<1>2. r.cont \in CallConts /\ NextWait(r.cont) = "none"
  BY <1>1 DEF CallConts, NextWait
<1>3. /\ Common(os, r.k) /\ Spares(os, r.k, {}) /\ r.k.lock = os.lock
      /\ r.k.cur = Cur /\ r.k.prioCur = os.prioCur
      /\ Undisturbed(os, r.k, os.list \ {Cur})
  BY <1>1, OrderlyCommon DEF Cur
<1>4. Stepping /\ os' = r.k /\ UNCHANGED << prog, boot, obj >>
  BY DEF Calling, Leave, Stepping
<1>5. PlainInv /\ HandlesOK
  BY <1>4, PlainIs DEF Stepping
<1>6. HandlesOK'
  BY <1>3, <1>4, <1>5, HandlesKept
<1>7. \A u \in os.list \ {Cur} : TaskOK(r.k, u, WaitOf(run[u]), run[u].ev)
  BY <1>3, <1>5, OthersWait
<1>8. TaskOK(r.k, Cur, NextWait(r.cont), Me.ev)
  BY <1>1, <1>2, TaskNone
<1>9. Schedules(r.cont)
  BY <1>1, <1>3, <1>4 DEF Schedules
<1> QED
  BY <1>2, <1>3, <1>6, <1>7, <1>8, <1>9, CallMoves

(* With OS_POST_OPT_NO_SCHED the switch is left to the next scheduling     *)
(* point.                                                                  *)
LEMMA PostponedMoves ==
  ASSUME NEW r, NEW m, Calling(r, m), UNCHANGED obj, PutsOff(os, r),
         Head(Me.pc) \in {"MboxPostOpt", "QPostOpt"}, "NO_SCHED" \in Me.arg
  PROVE  PlainInv'
<1>1. /\ Rouses(os, r.k) /\ r.cont = << >> /\ Bits(os.rdy) \subseteq Bits(r.k.rdy)
  BY DEF PutsOff, Rouses
<1>2. r.cont \in CallConts /\ NextWait(r.cont) = "none"
  BY <1>1 DEF CallConts, NextWait
<1>3. /\ Common(os, r.k) /\ Spares(os, r.k, {}) /\ r.k.lock = os.lock
      /\ r.k.cur = Cur /\ r.k.prioCur = os.prioCur
      /\ Undisturbed(os, r.k, os.list)
  BY <1>1, RousesCommon DEF Cur
<1>4. Stepping /\ os' = r.k /\ UNCHANGED << prog, boot, obj >>
  BY DEF Calling, Leave, Stepping
<1>5. PlainInv /\ HandlesOK
  BY <1>4, PlainIs DEF Stepping
<1>6. HandlesOK'
  BY <1>3, <1>4, <1>5, HandlesKept
<1>7. \A u \in os.list : TaskOK(r.k, u, WaitOf(run[u]), run[u].ev)
  BY <1>3, <1>5, OthersWait
<1>8. WaitsForNothing(os, Cur) /\ Cur \in os.list /\ ThreadOK(prog, os, Me)
  <2>1. Head(Me.pc) \notin WaitLabels
    BY DEF WaitLabels
  <2> QED
    BY <1>4, <2>1, RunnerWaits, StepperIs DEF Calling
<1>9. TaskOK(r.k, Cur, NextWait(r.cont), Me.ev)
  <2>1. \A ev : TaskOK(os, Cur, "none", ev)
    BY <1>8, TaskNone
  <2> QED
    BY <1>2, <1>3, <1>8, <2>1 DEF Undisturbed
<1>10. Deferred
  <2>1. HeadOK(prog, os, Me, Head(Me.pc))
    BY <1>8 DEF ThreadOK, Calling
  <2>2. PICK c \in Me.menu : c.op = Head(Me.pc) /\ c.arg = Me.arg
    BY <2>1 DEF HeadOK
  <2> QED
    BY <1>8, <2>2 DEF Deferred, Me
<1>11. Schedules(r.cont)
  BY <1>1, <1>3, <1>4, <1>10 DEF Schedules
<1> QED
  BY <1>2, <1>3, <1>6, <1>7, <1>9, <1>11, CallMoves

(* No task that waits for several events is suspended.                     *)
LEMMA SuspendingMoves ==
  ASSUME NEW r, NEW m, Calling(r, m), UNCHANGED obj, Suspends(os, r),
         Head(Me.pc) = "TaskSuspend"
  PROVE  PlainInv'
<1>1. /\ r.cont \in {<< >>, << "OS_Sched" >>}
      /\ Bits(r.k.rdy) \subseteq Bits(os.rdy)
      /\ r.cont = << >> => (IsReady(os, Cur) => IsReady(r.k, Cur))
  <2>1. << "OS_Sched" >> # << >>
    OBVIOUS
  <2> QED
    BY <2>1 DEF Suspends, Cur
<1>2. r.cont \in CallConts /\ NextWait(r.cont) = "none"
  BY <1>1 DEF CallConts, NextWait
<1>3. /\ Common(os, r.k) /\ Spares(os, r.k, {}) /\ r.k.lock = os.lock
      /\ r.k.cur = Cur /\ r.k.prioCur = os.prioCur
  BY SuspendsCommon DEF Cur
<1>4. Stepping /\ os' = r.k /\ UNCHANGED << prog, boot, obj >>
  BY DEF Calling, Leave, Stepping
<1>5. PlainInv /\ HandlesOK /\ ThreadsOK
  BY <1>4, PlainIs DEF Stepping
<1>6. HandlesOK'
  BY <1>3, <1>4, <1>5, HandlesKept
<1>7. /\ IsReady(os, Cur) /\ WaitsForNothing(os, Cur) /\ Cur \in os.list
      /\ ThreadOK(prog, os, Me) /\ os.lock = 0 /\ Plain(prog) /\ os.list \subseteq Tcb
  <2>1. "TaskSuspend" \notin WaitLabels /\ "TaskSuspend" \in Waiters
    BY DEF WaitLabels, Waiters
  <2>2. /\ os.list \subseteq Tcb /\ Cur \in os.list
        /\ ThreadOK(prog, os, Me) /\ Plain(prog)
    BY <1>4, StepperIs, Fields DEF Sound
  <2>3. IsReady(os, Cur) /\ WaitsForNothing(os, Cur)
    BY <2>1, RunnerWaits DEF Calling
  <2>4. os.lock = 0
    BY <1>4, <2>1, StepperIs DEF Calling
  <2> QED
    BY <2>2, <2>3, <2>4
<1>8. ~Uses(prog, {"PendMulti"})
  <2>1. Uses(prog, {"TaskSuspend"})
    BY <1>7 DEF ThreadOK, HeadOK, Calling
  <2> QED
    BY <1>7, <2>1 DEF Plain
<1>9. \A u \in os.list : WaitOf(run[u]) # "MultiPended"
  BY <1>5, <1>7, <1>8 DEF ThreadsOK, ThreadOK
<1>10. \A u \in os.list : TaskOK(r.k, u, WaitOf(run[u]), run[u].ev)
  <2>1. \A u \in os.list : TaskOK(os, u, WaitOf(run[u]), run[u].ev)
    BY <1>5, PlainIs
  <2> QED
    BY <1>9, <2>1 DEF Suspends
<1>11. TaskOK(r.k, Cur, NextWait(r.cont), Me.ev)
  <2>1. \A ev : TaskOK(os, Cur, "none", ev)
    BY <1>7, TaskNone
  <2> QED
    BY <1>2, <1>7, <2>1 DEF Suspends
<1>12. Schedules(r.cont)
  <2>1. CASE r.cont = << "OS_Sched" >>
    BY <1>3, <1>4, <1>7, <2>1 DEF Schedules
  <2>2. CASE r.cont = << >>
    <3>1. Fewer
      BY <1>1, <1>3, <1>4, <1>7, <2>2 DEF Fewer
    <3> QED
      BY <3>1 DEF Schedules
  <2> QED
    BY <1>1, <2>1, <2>2
<1> QED
  BY <1>2, <1>3, <1>6, <1>10, <1>11, <1>12, CallMoves

(* What a call that neither begins nor ends a wait leaves of the tasks.    *)
LEMMA TasksUndisturbed ==
  ASSUME Stepping, Me.pc # << >>, Head(Me.pc) # "OS_Sched", Head(Me.pc) \notin WaitLabels,
         NEW j, Undisturbed(os, j, os.list)
  PROVE  /\ \A u \in os.list : TaskOK(j, u, WaitOf(run[u]), run[u].ev)
         /\ \A ev : TaskOK(j, Cur, "none", ev)
<1>1. PlainInv /\ WaitsForNothing(os, Cur) /\ Cur \in os.list
  BY RunnerWaits, StepperIs DEF Stepping
<1>2. \A u \in os.list : TaskOK(j, u, WaitOf(run[u]), run[u].ev)
  BY <1>1, OthersWait
<1>3. \A ev : TaskOK(os, Cur, "none", ev)
  BY <1>1, TaskNone
<1> QED
  BY <1>1, <1>2, <1>3 DEF Undisturbed

LEMMA LockingMoves ==
  ASSUME NEW r, NEW m, Calling(r, m), UNCHANGED obj, Relocks(os, r),
         Head(Me.pc) \notin WaitLabels,
         \/ r.k.lock > 0 /\ r.cont = << >> /\ Uses(prog, {"SchedLock"})
         \/ r.k.lock = 0 /\ r.cont = << "OS_Sched" >>
         \/ r.k = os /\ r.cont = << >>
  PROVE  PlainInv'
<1>1. Switches(os, r.k) /\ r.k.cur = Cur /\ r.k.prioCur = os.prioCur
  BY DEF Relocks, Cur
<1>2. /\ Common(os, r.k) /\ Spares(os, r.k, {}) /\ r.k.rdy = os.rdy
      /\ Undisturbed(os, r.k, os.list)
  BY <1>1, SwitchesCommon
<1>3. r.cont \in CallConts /\ NextWait(r.cont) = "none"
  <2>1. r.cont \in {<< >>, << "OS_Sched" >>}
    OBVIOUS
  <2> QED
    BY ONLY <2>1, NoWait
<1>4. Stepping /\ os' = r.k /\ UNCHANGED << prog, boot, obj >>
  BY DEF Calling, Leave, Stepping
<1>5. HandlesOK'
  <2>1. HandlesOK
    BY <1>4, PlainIs DEF Stepping
  <2> QED
    BY <1>2, <1>4, <2>1, HandlesKept
<1>6. /\ \A u \in os.list : TaskOK(r.k, u, WaitOf(run[u]), run[u].ev)
      /\ TaskOK(r.k, Cur, NextWait(r.cont), Me.ev)
  BY <1>2, <1>3, <1>4, TasksUndisturbed DEF Calling
<1>7. Schedules(r.cont)
  <2>1. CASE r.k.lock > 0 /\ r.cont = << >> /\ Uses(prog, {"SchedLock"})
    BY <1>2, <1>4, <2>1 DEF Schedules
  <2>2. CASE r.k.lock = 0 /\ r.cont = << "OS_Sched" >>
    BY <1>2, <1>4, <2>2 DEF Schedules
  <2>3. CASE r.k = os /\ r.cont = << >>
    BY <1>2, <1>4, <2>3 DEF Schedules
  <2> QED
    BY <2>1, <2>2, <2>3
<1>8. Calling(r, m)
  OBVIOUS
<1> QED
  BY ONLY <1>1, <1>2, <1>3, <1>5, <1>6, <1>7, <1>8, CallMoves

LEMMA CreatingMoves ==
  ASSUME NEW r, Calling(r, Me), NEW h, obj' = [obj EXCEPT ![Me.obj] = h],
         h \in {Null} \cup (IF Me.obj \in GroupNames(prog) THEN Fgp ELSE Ecb),
         Head(Me.pc) \in CreateOps \cup {"QCreateRing"},
         Adds(os, r.k), r.cont = << >>,
         NEW E, Spares(os, r.k, E), \A e \in E : At("QCreateRing") /\ e = Me.loc
  PROVE  PlainInv'
<1>1. /\ Common(os, r.k) /\ Undisturbed(os, r.k, os.list) /\ r.k.rdy = os.rdy
      /\ r.k.lock = os.lock /\ r.k.cur = Cur /\ r.k.prioCur = os.prioCur
  BY AddsCommon DEF Cur
<1>2. r.cont \in CallConts /\ NextWait(r.cont) = "none"
  BY DEF CallConts, NextWait
<1>3. Stepping /\ os' = r.k /\ UNCHANGED << prog, boot >>
  BY DEF Calling, Leave, Stepping
<1>4. HandlesOK'
  <2>1. HandlesOK /\ Plain(prog) /\ ThreadOK(prog, os, Me)
    BY <1>3, PlainIs, StepperIs DEF Stepping
  <2>2. Declares(prog, Me.obj, "NONE")
    BY <2>1 DEF ThreadOK, HeadOK, Calling
  <2>3. Common(os, os')
    BY <1>1, <1>3
  <2> QED
    BY <1>3, <2>1, <2>2, <2>3, HandlesCreated
<1>5. /\ \A u \in os.list : TaskOK(r.k, u, WaitOf(run[u]), run[u].ev)
      /\ TaskOK(r.k, Cur, NextWait(r.cont), Me.ev)
  <2>1. Head(Me.pc) \notin WaitLabels
    BY DEF CreateOps, WaitLabels
  <2> QED
    BY <1>1, <1>2, <1>3, <2>1, TasksUndisturbed DEF Calling
<1>6. Schedules(r.cont)
  BY <1>1, <1>3 DEF Schedules
<1> QED
  BY <1>1, <1>2, <1>4, <1>5, <1>6, CallMoves

(* An event control block is taken for a queue: nobody else has it.        *)
LEMMA TakingMoves ==
  ASSUME NEW r, Calling(r, Me), UNCHANGED obj, TakesBlock(os, r),
         Head(Me.pc) = "QCreate"
  PROVE  PlainInv'
<1> DEFINE n == Left(r, Me)
           next == << "QCreateRing" >>
<1>1. /\ Adds(os, r.k) /\ Spares(os, r.k, {}) /\ r.loc \in Ecb /\ r.loc # Null
      /\ Limbo(r.k, r.loc) /\ ~Limbo(os, r.loc) /\ r.cont = next
  BY DEF TakesBlock, Ecb, Null
<1>2. /\ Common(os, r.k) /\ Undisturbed(os, r.k, os.list) /\ r.k.rdy = os.rdy
      /\ r.k.lock = os.lock /\ r.k.cur = Cur /\ r.k.prioCur = os.prioCur
  BY <1>1, AddsCommon DEF Cur
<1>3. /\ Stepping /\ os' = r.k /\ UNCHANGED << prog, boot, obj >>
      /\ run' = [run EXCEPT ![Cur] = n]
  BY DEF Calling, Leave, Stepping
<1>4. ThreadOK(prog, os, Me) /\ Alike(Me, Me)
  BY <1>3, StepperIs DEF Calling
<1>5. GoesOn(Me, next, r.loc, n)
  <2>1. Me.hand \subseteq Block
    BY <1>4 DEF ThreadOK
  <2> HIDE DEF Me, n, next
  <2>2. GoesOn(Me, r.cont, r.loc, Left(r, Me))
    BY <1>4, <2>1, LeftIs
  <2> QED
    BY <1>1, <2>2 DEF n
<1> HIDE DEF n
<1>6. /\ DOMAIN n = RunFields /\ n.pc = next \o Tail(Me.pc) /\ n.menu = Me.menu
      /\ n.hand \subseteq Block /\ n.pc # << >>
      /\ n.obj = Me.obj /\ n.loc = r.loc
  <2>1. StackOK(Me.pc) /\ StackOK(next) /\ Me.pc # << >> /\ Head(Me.pc) # "OS_Sched"
    BY <1>4 DEF ThreadOK, Calling, StackOK, Labels
  <2>2. next # << >>
    OBVIOUS
  <2>3. next \o Tail(Me.pc) # << >>
    <3> HIDE DEF Me, next
    <3> QED
      BY <2>1, <2>2, StackMoves
  <2> HIDE DEF next
  <2> QED
    BY <1>1, <1>5, <2>3 DEF GoesOn
<1>7. HeadOK(prog, os', n, "QCreateRing")
  <2>1. Declares(prog, Me.obj, "NONE") /\ Me.obj \notin GroupNames(prog)
    BY <1>4 DEF ThreadOK, HeadOK, Calling, CreateOps
  <2> QED
    BY <1>1, <1>3, <1>6, <2>1
       DEF HeadOK, ArgOK, CreateOps, EventOps, FlagOps
<1>8. /\ \A u \in os.list : TaskOK(r.k, u, WaitOf(run[u]), run[u].ev)
      /\ TaskOK(r.k, Cur, NextWait(next), n.ev)
  <2>1. Head(Me.pc) \notin WaitLabels
    BY DEF WaitLabels
  <2>2. NextWait(next) = "none"
    BY DEF NextWait
  <2> QED
    BY <1>2, <1>3, <2>1, <2>2, TasksUndisturbed DEF Calling
<1>9. HandlesOK'
  <2>1. HandlesOK
    BY <1>3, PlainIs DEF Stepping
  <2> QED
    BY <1>2, <1>3, <2>1, HandlesKept
<1>10. /\ StackOK(next) /\ next # << >> /\ Head(next) = "QCreateRing"
       /\ Head(next) \notin WaitLabels /\ Head(next) \notin Waiters
       /\ \A i \in DOMAIN next : Backed(prog, next[i])
       /\ NextWait(next) = "none"
  BY DEF StackOK, Labels, WaitLabels, Waiters, Backed, FdLabels, ConsoleLabels, LibLabels,
         NextWait
<1> HIDE DEF next
<1>11. Schedules(next)
  BY <1>2, <1>3, <1>10 DEF Schedules
<1>12. Keeps(n) /\ Spares(os, os', {}) /\ ~Limbo(os, n.loc)
  BY <1>1, <1>2, <1>3, <1>6 DEF Keeps
<1>13. /\ Stepping /\ Me.pc # << >> /\ Head(Me.pc) # "OS_Sched"
       /\ \A u \in os.list \ {Cur} : TaskOK(os', u, WaitOf(run[u]), run[u].ev)
       /\ TaskOK(os', Cur, NextWait(next), n.ev)
       /\ HeadOK(prog, os', n, Head(next))
  BY <1>3, <1>7, <1>8, <1>10 DEF Calling
<1>14. /\ NextWait(next) = "FlagPended" =>
            n.arg \in Wanted /\ (n.arg.consume => n.arg.type \in ForSet)
       /\ NextWait(next) = "MultiPended" => Uses(prog, {"PendMulti"})
       /\ next # << >> /\ Head(next) = "QCreateRing" => ~Limbo(os, n.loc)
       /\ next # << >> => Head(next) \notin WaitLabels
       /\ next # << >> => HeadOK(prog, os', n, Head(next))
  BY <1>10, <1>12, <1>13
<1>15. PICK E : E = {}
  OBVIOUS
<1>16. Spares(os, os', E) /\ \A e \in E : At("QCreateRing") /\ e = Me.loc
  BY <1>12, <1>15
<1> HIDE DEF Me, Cur
<1> QED
  BY <1>6, <1>9, <1>10, <1>11, <1>12, <1>13, <1>14, <1>16, StepMoves

-----------------------------------------------------------------------------
(* OS_Sched: the task goes on, now or later, at what its stack says.       *)

LEMMA SchedReturns ==
  ASSUME NEW me, StackOK(me.pc), me.pc # << >>, Head(me.pc) = "OS_Sched",
         NEW n, n.pc = << >> \o Tail(me.pc)
  PROVE  /\ StackOK(n.pc) /\ WaitOf(n) = WaitOf(me)
         /\ \A i \in DOMAIN n.pc : \E m \in DOMAIN me.pc : n.pc[i] = me.pc[m]
         /\ n.pc # << >> => Head(n.pc) \in Conts \cup WaitLabels
         /\ n.pc = << >> => WaitOf(n) = "none"
<1>1. /\ me.pc \in Seq(Labels) /\ Len(me.pc) \in Nat /\ Len(me.pc) > 0
      /\ me.pc[1] = "OS_Sched"
      /\ \A i \in 2 .. Len(me.pc) :
           me.pc[i] \in Conts \/ (i = 2 /\ me.pc[2] \in WaitLabels)
  BY NotEmpty DEF StackOK
<1>2. /\ n.pc \in Seq(Labels) /\ Len(n.pc) = Len(me.pc) - 1
      /\ \A i \in 1 .. Len(n.pc) : n.pc[i] = me.pc[i + 1]
      /\ DOMAIN n.pc = 1 .. Len(n.pc) /\ DOMAIN me.pc = 1 .. Len(me.pc)
  BY <1>1
<1>3. \A i \in 1 .. Len(n.pc) : i + 1 \in 2 .. Len(me.pc) /\ i + 1 \in 1 .. Len(me.pc)
  BY <1>1, <1>2
<1>4. \A i \in 2 .. Len(n.pc) : n.pc[i] \in Conts
  BY <1>1, <1>2, <1>3
<1>5. StackOK(n.pc)
  BY <1>2, <1>4 DEF StackOK
<1>6. \A i \in DOMAIN n.pc : \E m \in DOMAIN me.pc : n.pc[i] = me.pc[m]
  BY <1>2, <1>3
<1>7. ASSUME n.pc # << >>
      PROVE  /\ Head(n.pc) = n.pc[1] /\ n.pc[1] = me.pc[2] /\ Len(me.pc) > 1
             /\ n.pc[1] \in Conts \cup WaitLabels
  BY <1>1, <1>2, <1>3, <1>7, NotEmpty
<1>8. "OS_Sched" \notin WaitLabels /\ "OS_Sched" \notin Conts /\ Conts \cap WaitLabels = {}
  BY DEF WaitLabels, Conts
<1>9. WaitOf(me) = NextWait(me.pc)
  BY <1>1, <1>8, WaitOfIs
<1>10. n.pc = << >> => WaitOf(n) = "none"
  BY <1>5, WaitOfIs
<1>11. WaitOf(n) = WaitOf(me)
  <2>1. CASE n.pc = << >>
    <3>1. Len(n.pc) = 0
      BY <1>2, <2>1, NotEmpty
    <3>2. ~(Len(me.pc) > 1)
      BY <1>1, <1>2, <3>1
    <3>3. NextWait(me.pc) = "none"
      BY ONLY <3>2 DEF NextWait
    <3> QED
      BY <1>9, <1>10, <2>1, <3>3
  <2>2. CASE n.pc # << >> /\ n.pc[1] \in WaitLabels
    <3>1. WaitOf(n) = n.pc[1]
      BY <1>5, <2>2, WaitOfIs
    <3>2. NextWait(me.pc) = n.pc[1]
      BY <1>1, <1>7, <2>2 DEF NextWait
    <3> QED
      BY <1>9, <3>1, <3>2
  <2>3. CASE n.pc # << >> /\ n.pc[1] \in Conts
    <3>1. n.pc # << >> /\ n.pc[1] \notin WaitLabels /\ n.pc[1] # "OS_Sched"
      BY <1>8, <2>3
    <3>2. WaitOf(n) = NextWait(n.pc)
      BY <1>5, <3>1, WaitOfIs
    <3>3. NextWait(n.pc) = "none"
      BY <3>1 DEF NextWait
    <3>4. NextWait(me.pc) = "none"
      <4>1. me.pc[2] \notin WaitLabels
        BY <1>7, <3>1
      <4> QED
        BY ONLY <4>1 DEF NextWait
    <3> QED
      BY <1>9, <3>2, <3>3, <3>4
  <2> QED
    BY <1>7, <2>1, <2>2, <2>3
<1> QED
  BY <1>5, <1>6, <1>7, <1>10, <1>11

LEMMA SchedMoves ==
  ASSUME Stepping, Sched
  PROVE  PlainInv'
<1> DEFINE r == Done(OS_Sched(os))
           n == Left(r, Me)
<1>1. /\ Sound(os) /\ Cur \in os.list /\ Cur \in Tcb /\ os.prioCur = os.tcb[Cur].prio
      /\ ThreadOK(prog, os, Me) /\ TaskOK(os, Cur, WaitOf(Me), Me.ev)
      /\ os.lock # 0 => IsReady(os, Cur)
      /\ os.lock > 0 => Uses(prog, {"SchedLock"})
      /\ os.lock \in 0 .. 255
  BY StepperIs
<1>2. /\ r.k = OS_Sched(os) /\ r.cont = << >> /\ r.loc = Null
      /\ Me.pc # << >> /\ Head(Me.pc) = "OS_Sched"
      /\ os' = r.k /\ run' = [run EXCEPT ![Cur] = n]
      /\ UNCHANGED << prog, boot, obj >>
  BY DEF Sched, At, Quietly, Leave, Done, Stepping
<1>3. GoesOn(Me, << >>, Null, n)
  <2>1. Me.hand \subseteq Block /\ Alike(Me, Me)
    BY <1>1 DEF ThreadOK, Alike
  <2> HIDE DEF Me, r
  <2> QED
    BY <1>2, <2>1, LeftIs
<1>4. /\ Switches(os, os') /\ os'.lock = os.lock
      /\ os.lock = 0 => RunsHighest(os')
      /\ os.lock # 0 => os' = os
  <2>1. os.cur \in os.list /\ os.prioCur = os.tcb[os.cur].prio /\ os' = OS_Sched(os)
    BY <1>1, <1>2 DEF Cur
  <2> QED
    BY <1>1, <2>1, SchedSwitches
<1> HIDE DEF n, r
<1>5. /\ Common(os, os') /\ Spares(os, os', {}) /\ Undisturbed(os, os', os.list)
      /\ Sound(os')
  BY <1>4, SwitchesCommon DEF Common
<1>6. /\ DOMAIN n = RunFields /\ n.menu = Me.menu /\ n.hand \subseteq Block
      /\ n.pc = << >> \o Tail(Me.pc)
      /\ n.pc # << >> => n.ev = Me.ev /\ n.arg = Me.arg
  BY <1>3 DEF GoesOn
<1>7. /\ StackOK(n.pc) /\ WaitOf(n) = WaitOf(Me)
      /\ \A i \in DOMAIN n.pc : \E m \in DOMAIN Me.pc : n.pc[i] = Me.pc[m]
      /\ n.pc # << >> => Head(n.pc) \in Conts \cup WaitLabels
      /\ n.pc = << >> => WaitOf(n) = "none"
  <2>1. StackOK(Me.pc)
    BY <1>1 DEF ThreadOK
  <2> HIDE DEF Me
  <2> QED
    BY <1>2, <1>6, <2>1, SchedReturns
<1>8. WaitOf(n) # "none" => n.ev = Me.ev /\ n.arg = Me.arg
  BY <1>6, <1>7
<1>9. ThreadOK(prog, os', n)
  <2>1. n.pc # << >> => HeadOK(prog, os', n, Head(n.pc))
    BY <1>7, ContsNeedNothing
  <2>2. \A i \in DOMAIN n.pc : Backed(prog, n.pc[i])
    BY <1>1, <1>7 DEF ThreadOK
  <2>3. /\ WaitOf(n) = "FlagPended" =>
             n.arg \in Wanted /\ (n.arg.consume => n.arg.type \in ForSet)
        /\ WaitOf(n) = "MultiPended" => Uses(prog, {"PendMulti"})
    BY <1>1, <1>7, <1>8 DEF ThreadOK
  <2>4. n.menu \subseteq CallsOf(prog)
    BY <1>1, <1>6 DEF ThreadOK
  <2> QED
    BY <1>6, <1>7, <2>1, <2>2, <2>3, <2>4 DEF ThreadOK
<1>10. TaskOK(os', Cur, WaitOf(n), n.ev)
  <2>1. TaskOK(os', Cur, WaitOf(Me), Me.ev)
    BY <1>1, <1>5 DEF Undisturbed
  <2> QED
    BY <1>7, <1>8, <2>1, TaskNone
<1>11. PlainInv /\ HandlesOK /\ ThreadsOK
  BY PlainIs DEF Stepping
<1>12. HandlesOK'
  BY <1>2, <1>5, <1>11, HandlesKept
<1>13. \A u \in os.list \ {Cur} : TaskOK(os', u, WaitOf(run[u]), run[u].ev)
  BY <1>5, <1>11, OthersWait
<1>14. SchedOK' <=> (Running' =>
          /\ os'.cur \in os'.list /\ os'.prioCur = os'.tcb[os'.cur].prio
          /\ IsReady(os', os'.cur) \/ (At("OS_Sched")' /\ os'.lock = 0)
          /\ os'.lock > 0 => ~AtOne(os.cur, Waiters)' /\ Uses(prog', {"SchedLock"}))
  BY DEF SchedOK
<1>15. HighestRuns' <=>
          \/ ~Running' \/ os'.lock > 0 \/ At("OS_Sched")' \/ Deferred'
          \/ os'.prioCur # os'.tcb[Cur'].prio
          \/ os'.prioTbl[HighestPrio(os'.rdy)] = Cur'
  BY DEF HighestRuns
<1>16. SchedOK' /\ HighestRuns' /\ os'.cur # Null
  <2>1. CASE os.lock = 0
    <3>1. os'.cur # Null
      <4>1. os'.cur \in Tcb
        BY <1>4, <1>5, <2>1, Fields DEF Sound, RunsHighest
      <4> QED
        BY <4>1, CoreAssumption DEF Tcb, Null
    <3> QED
      BY <1>4, <1>14, <1>15, <2>1, <3>1 DEF RunsHighest, Cur
  <2>2. CASE os.lock # 0
    <3>1. os' = os /\ os.lock > 0
      BY <1>1, <1>4, <2>2
    <3>2. run'[Cur] = n
      BY <1>1, <1>2, <1>11 DEF ThreadsOK
    <3>3. ~AtOne(os.cur, Waiters)'
      <4>1. (Conts \cup WaitLabels) \cap Waiters = {}
        BY DEF Conts, WaitLabels, Waiters
      <4> QED
        BY <1>7, <3>1, <3>2, <4>1 DEF AtOne, Cur
    <3> QED
      BY <1>1, <1>2, <1>14, <1>15, <2>2, <3>1, <3>3 DEF Cur, Stepping, Running
  <2> QED
    BY <2>1, <2>2
<1>17. StepsTo(n)
  BY <1>2, <1>5, <1>16 DEF StepsTo
<1>18. ~IsAt(n, {"QCreateRing"})
  BY <1>7 DEF IsAt, Conts, WaitLabels
<1>19. PICK E : E = {}
  OBVIOUS
<1>20. Spares(os, os', E) /\ \A e \in E : At("QCreateRing") /\ e = Me.loc
  BY <1>5, <1>19
<1> HIDE DEF Me, Cur
<1> QED
  BY <1>9, <1>10, <1>12, <1>13, <1>16, <1>17, <1>18, <1>20, RunnerSteps

-----------------------------------------------------------------------------
(* The task at a label.                                                    *)

LEMMA CallerIs ==
  ASSUME Stepping, NEW l, At(l), l # "OS_Sched"
  PROVE  /\ Sound(os) /\ Cur \in os.list /\ os.cur = Cur /\ IsReady(os, Cur)
         /\ os.tcb[Cur].prio # IdlePrio
         /\ Me.pc # << >> /\ Head(Me.pc) = l /\ l \in Labels
         /\ HeadOK(prog, os, Me, l) /\ Backed(prog, l)
         /\ Me.hand \subseteq Block /\ DOMAIN Me = RunFields
         /\ l \in WaitLabels => TaskOK(os, Cur, l, Me.ev)
         /\ l \notin WaitLabels => Idle(os)
         /\ l = "FlagPended" =>
              Me.arg \in Wanted /\ (Me.arg.consume => Me.arg.type \in ForSet)
         /\ os.lock > 0 => Uses(prog, {"SchedLock"})
<1>1. Me.pc # << >> /\ Head(Me.pc) = l
  BY DEF At
<1>2. /\ Sound(os) /\ Cur \in os.list /\ os.tcb[Cur].prio # IdlePrio
      /\ ThreadOK(prog, os, Me)
      /\ os.lock > 0 => Uses(prog, {"SchedLock"})
  BY StepperIs
<1>3. /\ IsReady(os, Cur)
      /\ l \in WaitLabels => TaskOK(os, Cur, l, Me.ev)
      /\ l \notin WaitLabels => Idle(os)
  BY <1>1, RunnerWaits
<1>4. 1 \in DOMAIN Me.pc /\ Me.pc[1] = l /\ l \in Labels
  <2>1. Me.pc \in Seq(Labels)
    BY <1>2 DEF ThreadOK, StackOK
  <2> HIDE DEF Me
  <2>2. Len(Me.pc) \in Nat /\ Len(Me.pc) > 0 /\ DOMAIN Me.pc = 1 .. Len(Me.pc)
        /\ Head(Me.pc) = Me.pc[1]
    BY <1>1, <2>1, NotEmpty
  <2>3. 1 \in DOMAIN Me.pc
    BY <2>2
  <2> QED
    BY <1>1, <2>1, <2>2, <2>3
<1>5. Backed(prog, l) /\ HeadOK(prog, os, Me, l) /\ Me.hand \subseteq Block
      /\ DOMAIN Me = RunFields
  <2> HIDE DEF Me
  <2> QED
    BY <1>1, <1>2, <1>4 DEF ThreadOK
<1>6. l = "FlagPended" => WaitOf(Me) = "FlagPended"
  <2>1. StackOK(Me.pc)
    BY <1>2 DEF ThreadOK
  <2> HIDE DEF Me
  <2> QED
    BY <1>1, <1>4, <2>1, WaitOfIs DEF WaitLabels
<1>7. l = "FlagPended" =>
        Me.arg \in Wanted /\ (Me.arg.consume => Me.arg.type \in ForSet)
  <2> HIDE DEF Me
  <2> QED
    BY <1>2, <1>6 DEF ThreadOK
<1>8. os.cur = Cur
  BY DEF Cur
<1> QED
  BY <1>1, <1>2, <1>3, <1>4, <1>5, <1>7, <1>8

LEMMA EventCaller ==
  ASSUME Stepping, NEW op \in EventOps, At(op)
  PROVE  /\ Sound(os) /\ Idle(os) /\ DOMAIN Me = RunFields
         /\ Me.ev \in Ecb /\ os.event[Me.ev].type = TypeFor(op)
         /\ ArgOK(op, Me.arg)
         /\ op \notin WaitLabels \cup {"QCreateRing", "OS_Sched"}
<1>1. op \notin WaitLabels \cup {"QCreateRing", "OS_Sched"}
  BY DEF EventOps, WaitLabels
<1> QED
  BY <1>1, CallerIs DEF HeadOK

LEMMA FlagCaller ==
  ASSUME Stepping, NEW op \in FlagOps, At(op)
  PROVE  /\ Sound(os) /\ Idle(os) /\ DOMAIN Me = RunFields
         /\ Me.ev \in Fgp /\ os.flag[Me.ev].type = "FLAG"
         /\ ArgOK(op, Me.arg)
         /\ op \notin WaitLabels \cup {"QCreateRing", "OS_Sched"}
<1>1. op \notin WaitLabels \cup {"QCreateRing", "OS_Sched"}
  BY DEF FlagOps, WaitLabels
<1> QED
  BY <1>1, CallerIs DEF HeadOK

(* A call that serves and does not wait, and one that may wait.            *)
LEMMA Served ==
  ASSUME Stepping, NEW op, At(op), op \notin WaitLabels \cup {"QCreateRing", "OS_Sched"},
         NEW r, NEW m, Quietly(r, m), Alike(Me, m), Serves(os, r)
  PROVE  PlainInv'
<1>1. Calling(r, m) /\ UNCHANGED obj
  BY DEF Calling, At, Quietly
<1>2. Head(Me.pc) \notin WaitLabels \cup {"QCreateRing"}
  BY DEF At
<1> QED
  BY <1>1, <1>2, ServingMoves

LEMMA ServedOrWaits ==
  ASSUME Stepping, NEW op \in Waiters, At(op), NEW r, NEW m, Quietly(r, m), Alike(Me, m),
         NEW w \in WaitLabels, w = "FlagPended" => op = "FlagPend",
         w = "MultiPended" => op = "PendMulti",
         Serves(os, r) \/ GoesToWait(os, r, w, Me.ev)
  PROVE  PlainInv'
<1>1. op \notin WaitLabels \cup {"QCreateRing", "OS_Sched"}
  BY DEF Waiters, WaitLabels
<1>2. Calling(r, m) /\ UNCHANGED obj /\ Head(Me.pc) = op
  BY <1>1 DEF Calling, At, Quietly
<1>3. CASE Serves(os, r)
  BY <1>1, <1>3, Served
<1>4. CASE GoesToWait(os, r, w, Me.ev)
  BY <1>2, <1>4, WaitingMoves
<1> QED
  BY <1>3, <1>4

LEMMA CameBack ==
  ASSUME Stepping, NEW op, At(op), op # "OS_Sched", NEW r, NEW m, Quietly(r, m),
         Alike(Me, m), ComesBack(os, r)
  PROVE  PlainInv'
<1>1. Calling(r, m) /\ UNCHANGED obj
  BY DEF Calling, At, Quietly
<1> QED
  BY <1>1, BackMoves

(* A call that creates an object.                                          *)
LEMMA Created ==
  ASSUME Stepping, NEW op \in CreateOps \cup {"QCreateRing"}, At(op), NEW r, Creates(r),
         r.loc \in {Null} \cup (IF Me.obj \in GroupNames(prog) THEN Fgp ELSE Ecb),
         Adds(os, r.k), r.cont = << >>,
         NEW E, Spares(os, r.k, E), \A e \in E : op = "QCreateRing" /\ e = Me.loc
  PROVE  PlainInv'
<1>1. op # "OS_Sched"
  BY DEF CreateOps
<1>2. Alike(Me, Me)
  BY <1>1, CallerIs DEF Alike
<1>3. Calling(r, Me) /\ Head(Me.pc) = op
  BY <1>1, <1>2 DEF Calling, At, Creates
<1>4. PICK h : h = IF r.ok THEN r.loc ELSE Null
  OBVIOUS
<1>5. /\ obj' = [obj EXCEPT ![Me.obj] = h]
      /\ h \in {Null} \cup (IF Me.obj \in GroupNames(prog) THEN Fgp ELSE Ecb)
  BY <1>4 DEF Creates
<1>6. Head(Me.pc) \in CreateOps \cup {"QCreateRing"}
  BY <1>3
<1>7. \A e \in E : At("QCreateRing") /\ e = Me.loc
  OBVIOUS
<1> QED
  BY <1>3, <1>5, <1>6, <1>7, CreatingMoves

-----------------------------------------------------------------------------
(* The calls, one by one.  Deletions and mutexes are not a plain program's.*)

LEMMA SemSteps ==
  ASSUME Stepping,
         SemAccept \/ SemPend \/ SemReturn \/ SemPost \/ SemAbort \/ SemSet
  PROVE  PlainInv'
<1>1. CASE SemAccept
  <2> DEFINE r == OSSemAccept(os, Me.ev)
  <2>1. At("SemAccept") /\ Quietly(r, Acquires(r))
    BY <1>1 DEF SemAccept
  <2>2. "SemAccept" \in EventOps /\ TypeFor("SemAccept") = "SEM"
    BY DEF EventOps, TypeFor
  <2>3. Serves(os, r) /\ Alike(Me, Acquires(r))
    BY <2>1, <2>2, EventCaller, SemAcceptServes, AlikeIs
  <2> HIDE DEF r
  <2> QED
    BY <2>1, <2>2, <2>3, EventCaller, Served
<1>2. CASE SemPend
  <2> DEFINE r == OSSemPend(os, Me.ev, Me.arg)
  <2>1. At("SemPend") /\ Quietly(r, Acquires(r))
    BY <1>2 DEF SemPend
  <2>2. "SemPend" \in EventOps \cap Waiters /\ TypeFor("SemPend") = "SEM"
    BY DEF EventOps, Waiters, TypeFor
  <2>3. /\ Serves(os, r) \/ GoesToWait(os, r, "SemPended", Me.ev)
        /\ Alike(Me, Acquires(r))
    BY <2>1, <2>2, EventCaller, SemPendServes, AlikeIs DEF ArgOK
  <2>4. "SemPended" \in WaitLabels
    BY DEF WaitLabels
  <2> HIDE DEF r
  <2> QED
    BY <2>1, <2>2, <2>3, <2>4, ServedOrWaits
<1>3. CASE SemReturn
  <2> DEFINE r == SemPended(os, Me.ev)
  <2>1. At("SemPended") /\ Quietly(r, Acquires(r)) /\ "SemPended" \in WaitLabels
    BY <1>3 DEF SemReturn, WaitLabels
  <2>2. WaitsForOne(os, Cur, "SEM", Me.ev)
    BY <2>1, CallerIs DEF TaskOK, KindOf
  <2>3. ComesBack(os, r) /\ Alike(Me, Acquires(r))
    BY <2>1, <2>2, CallerIs, SemPendedBack, AlikeIs
  <2> HIDE DEF r
  <2> QED
    BY <2>1, <2>3, CameBack
<1>4. CASE SemPost
  <2> DEFINE r == OSSemPost(os, Me.ev)
  <2>1. At("SemPost") /\ Quietly(r, Releases(r))
    BY <1>4 DEF SemPost
  <2>2. "SemPost" \in EventOps /\ TypeFor("SemPost") = "SEM"
    BY DEF EventOps, TypeFor
  <2>3. Serves(os, r) /\ Alike(Me, Releases(r))
    BY <2>1, <2>2, EventCaller, SemPostServes, AlikeIs
  <2> HIDE DEF r
  <2> QED
    BY <2>1, <2>2, <2>3, EventCaller, Served
<1>5. CASE SemAbort
  <2> DEFINE r == OSSemPendAbort(os, Me.ev, Me.arg)
  <2>1. At("SemPendAbort") /\ Quietly(r, Me)
    BY <1>5 DEF SemAbort
  <2>2. "SemPendAbort" \in EventOps /\ TypeFor("SemPendAbort") = "SEM"
    BY DEF EventOps, TypeFor
  <2>3. Serves(os, r) /\ Alike(Me, Me)
    BY <2>1, <2>2, EventCaller, AbortServes, AlikeIs DEF ArgOK, OSSemPendAbort, EventTypes
  <2> HIDE DEF r
  <2> QED
    BY <2>1, <2>2, <2>3, EventCaller, Served
<1>6. CASE SemSet
  <2> DEFINE r == OSSemSet(os, Me.ev, Me.arg)
  <2>1. At("SemSet") /\ Quietly(r, Me)
    BY <1>6 DEF SemSet
  <2>2. "SemSet" \in EventOps /\ TypeFor("SemSet") = "SEM"
    BY DEF EventOps, TypeFor
  <2>3. Serves(os, r) /\ Alike(Me, Me)
    BY <2>1, <2>2, EventCaller, SemSetServes, AlikeIs DEF ArgOK
  <2> HIDE DEF r
  <2> QED
    BY <2>1, <2>2, <2>3, EventCaller, Served
<1> QED
  BY <1>1, <1>2, <1>3, <1>4, <1>5, <1>6

LEMMA MboxSteps ==
  ASSUME Stepping,
         \/ MboxAccept \/ MboxPend \/ MboxReturn \/ MboxPost \/ MboxPostOpt
         \/ MboxAbort
  PROVE  PlainInv'
<1>1. CASE MboxAccept
  <2> DEFINE r == OSMboxAccept(os, Me.ev)
  <2>1. At("MboxAccept") /\ Quietly(r, Me)
    BY <1>1 DEF MboxAccept
  <2>2. "MboxAccept" \in EventOps /\ TypeFor("MboxAccept") = "MBOX"
    BY DEF EventOps, TypeFor
  <2>3. Serves(os, r) /\ Alike(Me, Me)
    BY <2>1, <2>2, EventCaller, MboxAcceptServes, AlikeIs
  <2> HIDE DEF r
  <2> QED
    BY <2>1, <2>2, <2>3, EventCaller, Served
<1>2. CASE MboxPend
  <2> DEFINE r == OSMboxPend(os, Me.ev, Me.arg)
  <2>1. At("MboxPend") /\ Quietly(r, Me)
    BY <1>2 DEF MboxPend
  <2>2. "MboxPend" \in EventOps \cap Waiters /\ TypeFor("MboxPend") = "MBOX"
    BY DEF EventOps, Waiters, TypeFor
  <2>3. /\ Serves(os, r) \/ GoesToWait(os, r, "MboxPended", Me.ev)
        /\ Alike(Me, Me)
    BY <2>1, <2>2, EventCaller, MboxPendServes, AlikeIs DEF ArgOK
  <2>4. "MboxPended" \in WaitLabels
    BY DEF WaitLabels
  <2> HIDE DEF r
  <2> QED
    BY <2>1, <2>2, <2>3, <2>4, ServedOrWaits
<1>3. CASE MboxReturn
  <2> DEFINE r == MboxPended(os, Me.ev)
  <2>1. At("MboxPended") /\ Quietly(r, Me) /\ "MboxPended" \in WaitLabels
    BY <1>3 DEF MboxReturn, WaitLabels
  <2>2. WaitsForOne(os, Cur, "MBOX", Me.ev)
    BY <2>1, CallerIs DEF TaskOK, KindOf
  <2>3. ComesBack(os, r) /\ Alike(Me, Me)
    BY <2>1, <2>2, CallerIs, MboxPendedBack, AlikeIs
  <2> HIDE DEF r
  <2> QED
    BY <2>1, <2>3, CameBack
<1>4. CASE MboxPost
  <2> DEFINE r == OSMboxPost(os, Me.ev, Me.arg)
  <2>1. At("MboxPost") /\ Quietly(r, Sends(r, Me.arg))
    BY <1>4 DEF MboxPost
  <2>2. "MboxPost" \in EventOps /\ TypeFor("MboxPost") = "MBOX"
    BY DEF EventOps, TypeFor
  <2>3. Serves(os, r) /\ Alike(Me, Sends(r, Me.arg))
    BY <2>1, <2>2, EventCaller, MboxPostServes, AlikeIs DEF ArgOK
  <2> HIDE DEF r
  <2> QED
    BY <2>1, <2>2, <2>3, EventCaller, Served
<1>5. CASE MboxPostOpt
  <2> DEFINE r == OSMboxPostOpt(os, Me.ev, Notice, Me.arg)
  <2>1. At("MboxPostOpt") /\ Quietly(r, Me)
    BY <1>5 DEF MboxPostOpt
  <2>2. "MboxPostOpt" \in EventOps /\ TypeFor("MboxPostOpt") = "MBOX" /\ Notice \in Int
    BY DEF EventOps, TypeFor, Notice
  <2>3. Serves(os, r) \/ ("NO_SCHED" \in Me.arg /\ PutsOff(os, r))
    BY <2>1, <2>2, EventCaller, MboxPostOptServes
  <2>4. Alike(Me, Me)
    BY <2>1, <2>2, EventCaller, AlikeIs
  <2>5. Calling(r, Me) /\ UNCHANGED obj /\ Head(Me.pc) = "MboxPostOpt"
    BY <2>1, <2>4 DEF Calling, At, Quietly
  <2> HIDE DEF r
  <2>6. CASE Serves(os, r)
    BY <2>1, <2>2, <2>4, <2>6, EventCaller, Served
  <2>7. CASE "NO_SCHED" \in Me.arg /\ PutsOff(os, r)
    BY <2>5, <2>7, PostponedMoves
  <2> QED
    BY <2>3, <2>6, <2>7
<1>6. CASE MboxAbort
  <2> DEFINE r == OSMboxPendAbort(os, Me.ev, Me.arg)
  <2>1. At("MboxPendAbort") /\ Quietly(r, Me)
    BY <1>6 DEF MboxAbort
  <2>2. "MboxPendAbort" \in EventOps /\ TypeFor("MboxPendAbort") = "MBOX"
    BY DEF EventOps, TypeFor
  <2>3. Serves(os, r) /\ Alike(Me, Me)
    BY <2>1, <2>2, EventCaller, AbortServes, AlikeIs DEF ArgOK, OSMboxPendAbort, EventTypes
  <2> HIDE DEF r
  <2> QED
    BY <2>1, <2>2, <2>3, EventCaller, Served
<1> QED
  BY <1>1, <1>2, <1>3, <1>4, <1>5, <1>6

LEMMA QSteps ==
  ASSUME Stepping,
         \/ QAccept \/ QPend \/ QReturn \/ QPost \/ QPostFront \/ QPostOpt
         \/ QAbort \/ QFlush
  PROVE  PlainInv'
<1>1. CASE QAccept
  <2> DEFINE r == OSQAccept(os, Me.ev)
  <2>1. At("QAccept") /\ Quietly(r, Me)
    BY <1>1 DEF QAccept
  <2>2. "QAccept" \in EventOps /\ TypeFor("QAccept") = "Q"
    BY DEF EventOps, TypeFor
  <2>3. Serves(os, r) /\ Alike(Me, Me)
    BY <2>1, <2>2, EventCaller, QAcceptServes, AlikeIs
  <2> HIDE DEF r
  <2> QED
    BY <2>1, <2>2, <2>3, EventCaller, Served
<1>2. CASE QPend
  <2> DEFINE r == OSQPend(os, Me.ev, Me.arg)
  <2>1. At("QPend") /\ Quietly(r, Me)
    BY <1>2 DEF QPend
  <2>2. "QPend" \in EventOps \cap Waiters /\ TypeFor("QPend") = "Q"
    BY DEF EventOps, Waiters, TypeFor
  <2>3. /\ Serves(os, r) \/ GoesToWait(os, r, "QPended", Me.ev)
        /\ Alike(Me, Me)
    BY <2>1, <2>2, EventCaller, QPendServes, AlikeIs DEF ArgOK
  <2>4. "QPended" \in WaitLabels
    BY DEF WaitLabels
  <2> HIDE DEF r
  <2> QED
    BY <2>1, <2>2, <2>3, <2>4, ServedOrWaits
<1>3. CASE QReturn
  <2> DEFINE r == QPended(os, Me.ev)
  <2>1. At("QPended") /\ Quietly(r, Me) /\ "QPended" \in WaitLabels
    BY <1>3 DEF QReturn, WaitLabels
  <2>2. WaitsForOne(os, Cur, "Q", Me.ev)
    BY <2>1, CallerIs DEF TaskOK, KindOf
  <2>3. ComesBack(os, r) /\ Alike(Me, Me)
    BY <2>1, <2>2, CallerIs, QPendedBack, AlikeIs
  <2> HIDE DEF r
  <2> QED
    BY <2>1, <2>3, CameBack
<1>4. CASE QPost
  <2> DEFINE r == OSQPost(os, Me.ev, Me.arg)
  <2>1. At("QPost") /\ Quietly(r, Sends(r, Me.arg))
    BY <1>4 DEF QPost
  <2>2. "QPost" \in EventOps /\ TypeFor("QPost") = "Q"
    BY DEF EventOps, TypeFor
  <2>3. Serves(os, r) /\ Alike(Me, Sends(r, Me.arg))
    BY <2>1, <2>2, EventCaller, QPostServes, AlikeIs DEF ArgOK
  <2> HIDE DEF r
  <2> QED
    BY <2>1, <2>2, <2>3, EventCaller, Served
<1>5. CASE QPostFront
  <2> DEFINE r == OSQPostFront(os, Me.ev, Me.arg)
  <2>1. At("QPostFront") /\ Quietly(r, Sends(r, Me.arg))
    BY <1>5 DEF QPostFront
  <2>2. "QPostFront" \in EventOps /\ TypeFor("QPostFront") = "Q"
    BY DEF EventOps, TypeFor
  <2>3. Serves(os, r) /\ Alike(Me, Sends(r, Me.arg))
    BY <2>1, <2>2, EventCaller, QPostServes, AlikeIs DEF ArgOK
  <2> HIDE DEF r
  <2> QED
    BY <2>1, <2>2, <2>3, EventCaller, Served
<1>6. CASE QPostOpt
  <2> DEFINE r == OSQPostOpt(os, Me.ev, Notice, Me.arg)
  <2>1. At("QPostOpt") /\ Quietly(r, Me)
    BY <1>6 DEF QPostOpt
  <2>2. "QPostOpt" \in EventOps /\ TypeFor("QPostOpt") = "Q" /\ Notice \in Int
    BY DEF EventOps, TypeFor, Notice
  <2>3. Serves(os, r) \/ ("NO_SCHED" \in Me.arg /\ PutsOff(os, r))
    BY <2>1, <2>2, EventCaller, QPostOptServes
  <2>4. Alike(Me, Me)
    BY <2>1, <2>2, EventCaller, AlikeIs
  <2>5. Calling(r, Me) /\ UNCHANGED obj /\ Head(Me.pc) = "QPostOpt"
    BY <2>1, <2>4 DEF Calling, At, Quietly
  <2> HIDE DEF r
  <2>6. CASE Serves(os, r)
    BY <2>1, <2>2, <2>4, <2>6, EventCaller, Served
  <2>7. CASE "NO_SCHED" \in Me.arg /\ PutsOff(os, r)
    BY <2>5, <2>7, PostponedMoves
  <2> QED
    BY <2>3, <2>6, <2>7
<1>7. CASE QAbort
  <2> DEFINE r == OSQPendAbort(os, Me.ev, Me.arg)
  <2>1. At("QPendAbort") /\ Quietly(r, Me)
    BY <1>7 DEF QAbort
  <2>2. "QPendAbort" \in EventOps /\ TypeFor("QPendAbort") = "Q"
    BY DEF EventOps, TypeFor
  <2>3. Serves(os, r) /\ Alike(Me, Me)
    BY <2>1, <2>2, EventCaller, AbortServes, AlikeIs DEF ArgOK, OSQPendAbort, EventTypes
  <2> HIDE DEF r
  <2> QED
    BY <2>1, <2>2, <2>3, EventCaller, Served
<1>8. CASE QFlush
  <2> DEFINE r == OSQFlush(os, Me.ev)
  <2>1. At("QFlush") /\ Quietly(r, Me)
    BY <1>8 DEF QFlush
  <2>2. "QFlush" \in EventOps /\ TypeFor("QFlush") = "Q"
    BY DEF EventOps, TypeFor
  <2>3. Serves(os, r) /\ Alike(Me, Me)
    BY <2>1, <2>2, EventCaller, QFlushServes, AlikeIs
  <2> HIDE DEF r
  <2> QED
    BY <2>1, <2>2, <2>3, EventCaller, Served
<1> QED
  BY <1>1, <1>2, <1>3, <1>4, <1>5, <1>6, <1>7, <1>8

LEMMA MemSteps ==
  ASSUME Stepping, MemGet \/ MemPut
  PROVE  PlainInv'
<1>1. CASE MemGet
  <2> DEFINE r == OSMemGet(os)
  <2>1. At("MemGet") /\ Quietly(r, Me)
    BY <1>1 DEF MemGet
  <2>2. "MemGet" \notin WaitLabels \cup {"QCreateRing", "OS_Sched"}
    BY DEF WaitLabels
  <2>3. Serves(os, r) /\ Alike(Me, Me)
    BY <2>1, <2>2, CallerIs, MemGetServes, AlikeIs
  <2> HIDE DEF r
  <2> QED
    BY <2>1, <2>2, <2>3, Served
<1>2. CASE MemPut
  <2> DEFINE blk == CHOOSE b \in Me.hand : TRUE
             r == OSMemPut(os, blk)
  <2>1. At("MemPut") /\ Quietly(r, Sends(r, blk))
    BY <1>2 DEF MemPut
  <2>2. "MemPut" \notin WaitLabels \cup {"QCreateRing", "OS_Sched"}
    BY DEF WaitLabels
  <2>3. HeadOK(prog, os, Me, "MemPut") /\ Me.hand \subseteq Block
    BY <2>1, <2>2, CallerIs
  <2>4. blk \in Block
    BY <2>3 DEF HeadOK
  <2> HIDE DEF blk
  <2>5. Serves(os, r) /\ Alike(Me, Sends(r, blk))
    BY <2>1, <2>2, <2>4, CallerIs, MemPutServes, AlikeIs
  <2> HIDE DEF r
  <2> QED
    BY <2>1, <2>2, <2>5, Served
<1> QED
  BY <1>1, <1>2

LEMMA MultiSteps ==
  ASSUME Stepping, PendMulti \/ MultiReturn
  PROVE  PlainInv'
<1>1. CASE PendMulti
  <2> DEFINE r == OSEventPendMulti(os, Me.ev, Me.arg.timeout)
  <2>1. At("PendMulti") /\ Quietly(r, Me)
    BY <1>1 DEF PendMulti
  <2>2. "PendMulti" \in Waiters /\ "PendMulti" \notin WaitLabels
        /\ "MultiPended" \in WaitLabels
    BY DEF Waiters, WaitLabels
  <2>3. /\ Me.ev \in SUBSET Ecb /\ Me.ev # {} /\ Me.arg.timeout \in Nat
        /\ \A e \in Me.ev : os.event[e].type \in EventTypes
        /\ Idle(os) /\ Alike(Me, Me)
    BY <2>1, <2>2, CallerIs, AlikeIs DEF HeadOK, ArgOK
  <2>4. Serves(os, r) \/ GoesToWait(os, r, "MultiPended", Me.ev)
    BY <2>3, PendMultiServes
  <2> HIDE DEF r
  <2> QED
    BY <2>1, <2>2, <2>3, <2>4, ServedOrWaits
<1>2. CASE MultiReturn
  <2> DEFINE r == MultiPended(os, Me.ev)
  <2>1. At("MultiPended") /\ Quietly(r, Me) /\ "MultiPended" \in WaitLabels
    BY <1>2 DEF MultiReturn, WaitLabels
  <2>2. WaitsForAny(os, Cur, Me.ev)
    BY <2>1, CallerIs DEF TaskOK
  <2>3. ComesBack(os, r) /\ Alike(Me, Me)
    BY <2>1, <2>2, CallerIs, MultiPendedBack, AlikeIs
  <2> HIDE DEF r
  <2> QED
    BY <2>1, <2>3, CameBack
<1> QED
  BY <1>1, <1>2

LEMMA FlagSteps ==
  ASSUME Stepping, FlagAccept \/ FlagPend \/ FlagReturn \/ FlagPost
  PROVE  PlainInv'
<1>1. CASE FlagAccept
  <2> DEFINE r == OSFlagAccept(os, Me.ev, Me.arg)
  <2>1. At("FlagAccept") /\ Quietly(r, Me) /\ "FlagAccept" \in FlagOps
    BY <1>1 DEF FlagAccept, FlagOps
  <2>2. Serves(os, r) /\ Alike(Me, Me)
    BY <2>1, FlagCaller, FlagAcceptServes, AlikeIs DEF ArgOK
  <2> HIDE DEF r
  <2> QED
    BY <2>1, <2>2, FlagCaller, Served
<1>2. CASE FlagPend
  <2> DEFINE r == OSFlagPend(os, Me.ev, Me.arg)
  <2>1. At("FlagPend") /\ Quietly(r, Me) /\ "FlagPend" \in FlagOps \cap Waiters
        /\ "FlagPended" \in WaitLabels
    BY <1>2 DEF FlagPend, FlagOps, Waiters, WaitLabels
  <2>2. Serves(os, r) \/ GoesToWait(os, r, "FlagPended", Me.ev)
    BY <2>1, FlagCaller, FlagPendServes DEF ArgOK
  <2>3. Alike(Me, Me)
    BY <2>1, FlagCaller, AlikeIs
  <2> HIDE DEF r
  <2> QED
    BY <2>1, <2>2, <2>3, ServedOrWaits
<1>3. CASE FlagReturn
  <2> DEFINE r == FlagPended(os, Me.ev, Me.arg)
  <2>1. At("FlagPended") /\ Quietly(r, Me) /\ "FlagPended" \in WaitLabels
    BY <1>3 DEF FlagReturn, WaitLabels
  <2>2. WaitsForFlags(os, Cur, Me.ev)
    BY <2>1, CallerIs DEF TaskOK
  <2>3. ComesBack(os, r) /\ Alike(Me, Me)
    BY <2>1, <2>2, CallerIs, FlagPendedBack, AlikeIs
  <2> HIDE DEF r
  <2> QED
    BY <2>1, <2>3, CameBack
<1>4. CASE FlagPost
  <2> DEFINE r == OSFlagPost(os, Me.ev, Me.arg.flags, Me.arg.opt)
  <2>1. At("FlagPost") /\ Quietly(r, Me) /\ "FlagPost" \in FlagOps
    BY <1>4 DEF FlagPost, FlagOps
  <2>2. Me.arg.flags \in SUBSET FlagNames
    BY <2>1, FlagCaller DEF ArgOK
  <2>3. Serves(os, r) /\ Alike(Me, Me)
    BY <2>1, <2>2, FlagCaller, FlagPostServes, AlikeIs
  <2> HIDE DEF r
  <2> QED
    BY <2>1, <2>3, FlagCaller, Served
<1> QED
  BY <1>1, <1>2, <1>3, <1>4

LEMMA TaskSteps ==
  ASSUME Stepping, TaskDelReq \/ TaskSuspend \/ TaskResume \/ TimeDly \/ TimeDlyResume
  PROVE  PlainInv'
<1> DEFINE Ops == {"TaskDelReq", "TaskSuspend", "TaskResume", "TimeDlyResume"}
<1>1. \A op \in Ops \cup {"TimeDly"} : op \notin WaitLabels \cup {"QCreateRing", "OS_Sched"}
  BY DEF WaitLabels
<1>2. ASSUME NEW op \in Ops, At(op)
      PROVE  /\ Sound(os) /\ os.cur \in os.list /\ os.tcb[os.cur].prio # IdlePrio
             /\ Me.arg.prio \in Prio \cup {Self} /\ Alike(Me, Me)
             /\ HeadOK(prog, os, Me, op)
  <2>1. op # "OS_Sched"
    BY <1>1
  <2>2. /\ Sound(os) /\ os.cur \in os.list /\ os.tcb[os.cur].prio # IdlePrio
        /\ HeadOK(prog, os, Me, op) /\ DOMAIN Me = RunFields
    BY <1>2, <2>1, CallerIs
  <2>3. ArgOK(op, Me.arg) /\ Alike(Me, Me)
    BY <2>2, AlikeIs DEF HeadOK
  <2> QED
    BY <2>2, <2>3 DEF ArgOK
<1>3. CASE TaskDelReq
  <2> DEFINE r == OSTaskDelReq(os, Me.arg.prio)
  <2>1. At("TaskDelReq") /\ Quietly(r, Me)
    BY <1>3 DEF TaskDelReq
  <2>2. Serves(os, r) /\ Alike(Me, Me)
    BY <1>2, <2>1, DelReqServes
  <2> HIDE DEF r
  <2> QED
    BY <1>1, <2>1, <2>2, Served
<1>4. CASE TaskResume
  <2> DEFINE r == OSTaskResume(os, Me.arg.prio)
  <2>1. At("TaskResume") /\ Quietly(r, Me)
    BY <1>4 DEF TaskResume
  <2>2. Serves(os, r) /\ Alike(Me, Me)
    BY <1>2, <2>1, ResumeServes
  <2> HIDE DEF r
  <2> QED
    BY <1>1, <2>1, <2>2, Served
<1>5. CASE TimeDlyResume
  <2> DEFINE r == OSTimeDlyResume(os, Me.arg.prio)
  <2>1. At("TimeDlyResume") /\ Quietly(r, Me)
    BY <1>5 DEF TimeDlyResume
  <2>2. Serves(os, r) /\ Alike(Me, Me)
    BY <1>2, <2>1, DlyResumeServes
  <2> HIDE DEF r
  <2> QED
    BY <1>1, <2>1, <2>2, Served
<1>6. CASE TaskSuspend
  <2> DEFINE r == OSTaskSuspend(os, Me.arg.prio)
  <2>1. At("TaskSuspend") /\ Quietly(r, Me)
    BY <1>6 DEF TaskSuspend
  <2>2. Me.arg.prio # IdlePrio
    BY <1>2, <2>1 DEF HeadOK
  <2>3. Alike(Me, Me) /\ (Serves(os, r) \/ Suspends(os, r))
    BY <1>2, <2>1, <2>2, SuspendServes
  <2> HIDE DEF r
  <2>4. CASE Serves(os, r)
    BY <1>1, <2>1, <2>3, <2>4, Served
  <2>5. CASE Suspends(os, r)
    <3>1. Calling(r, Me) /\ UNCHANGED obj /\ Head(Me.pc) = "TaskSuspend"
      BY <2>1, <2>3 DEF Calling, At, Quietly
    <3> QED
      BY <2>5, <3>1, SuspendingMoves
  <2> QED
    BY <2>3, <2>4, <2>5
<1>7. CASE TimeDly
  <2> DEFINE r == OSTimeDly(os, Me.arg)
  <2>1. At("TimeDly") /\ Quietly(r, Me)
    BY <1>7 DEF TimeDly
  <2>2. Idle(os) /\ Me.arg \in Nat /\ Alike(Me, Me)
    BY <1>1, <2>1, CallerIs, AlikeIs DEF HeadOK, ArgOK
  <2>3. Serves(os, r) \/ GoesToSleep(os, r)
    BY <2>2, TimeDlyServes
  <2> HIDE DEF r
  <2>4. CASE Serves(os, r)
    BY <1>1, <2>1, <2>2, <2>4, Served
  <2>5. CASE GoesToSleep(os, r)
    <3>1. Calling(r, Me) /\ UNCHANGED obj /\ Head(Me.pc) \in Waiters
      BY <2>1, <2>2 DEF Calling, At, Quietly, Waiters
    <3> QED
      BY <2>5, <3>1, WaitingMoves
  <2> QED
    BY <2>3, <2>4, <2>5
<1> QED
  BY <1>3, <1>4, <1>5, <1>6, <1>7

LEMMA LockSteps ==
  ASSUME Stepping, SchedLock \/ SchedUnlock
  PROVE  PlainInv'
<1>1. /\ "SchedLock" \notin WaitLabels \cup {"OS_Sched"}
      /\ "SchedUnlock" \notin WaitLabels \cup {"OS_Sched"}
  BY DEF WaitLabels
<1>2. CASE SchedLock
  <2> DEFINE r == OSSchedLock(os)
  <2>1. At("SchedLock") /\ Quietly(r, Me)
    BY <1>2 DEF SchedLock
  <2>2. Sound(os) /\ Uses(prog, {"SchedLock"}) /\ Alike(Me, Me)
    BY <1>1, <2>1, CallerIs, AlikeIs DEF HeadOK
  <2>3. Relocks(os, r) /\ r.k.lock > 0 /\ r.cont = << >>
    BY <2>2, SchedLockRelocks
  <2>4. Calling(r, Me) /\ UNCHANGED obj /\ Head(Me.pc) \notin WaitLabels
    BY <1>1, <2>1, <2>2 DEF Calling, At, Quietly
  <2> HIDE DEF r
  <2> QED
    BY <2>2, <2>3, <2>4, LockingMoves
<1>3. CASE SchedUnlock
  <2> DEFINE r == OSSchedUnlock(os)
  <2>1. At("SchedUnlock") /\ Quietly(r, Me)
    BY <1>3 DEF SchedUnlock
  <2>2. /\ Sound(os) /\ Alike(Me, Me)
        /\ os.lock > 0 => Uses(prog, {"SchedLock"})
    BY <1>1, <2>1, CallerIs, AlikeIs
  <2>3. /\ Relocks(os, r)
        /\ \/ r.k.lock = 0 /\ r.cont = << "OS_Sched" >>
           \/ r.k.lock > 0 /\ os.lock > 0 /\ r.cont = << >>
           \/ r.k = os /\ os.lock = 0 /\ r.cont = << >>
    BY <2>2, SchedUnlockRelocks
  <2>4. Calling(r, Me) /\ UNCHANGED obj /\ Head(Me.pc) \notin WaitLabels
    BY <1>1, <2>1, <2>2 DEF Calling, At, Quietly
  <2> HIDE DEF r
  <2> QED
    BY <2>2, <2>3, <2>4, LockingMoves
<1> QED
  BY <1>2, <1>3

LEMMA CreateSteps ==
  ASSUME Stepping,
         SemCreate \/ MboxCreate \/ FlagCreate \/ QCreate \/ QCreated
  PROVE  PlainInv'
<1> DEFINE Kind == {Null} \cup (IF Me.obj \in GroupNames(prog) THEN Fgp ELSE Ecb)
<1>1. ASSUME NEW op \in CreateOps \cup {"QCreateRing"}, At(op)
      PROVE  /\ Sound(os) /\ ArgOK(op, Me.arg) /\ DOMAIN Me = RunFields
             /\ Me.obj \in GroupNames(prog) <=> op = "FlagCreate"
             /\ op = "QCreateRing" => Limbo(os, Me.loc)
  <2>1. op # "OS_Sched"
    BY DEF CreateOps
  <2>2. Sound(os) /\ HeadOK(prog, os, Me, op) /\ DOMAIN Me = RunFields
    BY <1>1, <2>1, CallerIs
  <2> QED
    BY <2>2 DEF HeadOK
<1>2. PICK E : E = {}
  OBVIOUS
<1>8. \A e \in E : FALSE
  BY ONLY <1>2
<1>3. CASE SemCreate
  <2> DEFINE r == OSSemCreate(os, Me.arg)
  <2>1. At("SemCreate") /\ Creates(r) /\ "SemCreate" \in CreateOps
    BY <1>3 DEF SemCreate, CreateOps
  <2>2. MakesEvent(os, r, "SEM") /\ Me.obj \notin GroupNames(prog)
    BY <1>1, <2>1, SemCreateMakes DEF ArgOK
  <2> HIDE DEF r
  <2>3. Adds(os, r.k) /\ Spares(os, r.k, E) /\ r.cont = << >> /\ r.loc \in Kind
    BY <1>2, <2>2 DEF MakesEvent
  <2> QED
    BY <1>8, <2>1, <2>3, Created
<1>4. CASE MboxCreate
  <2> DEFINE r == OSMboxCreate(os, Me.arg)
  <2>1. At("MboxCreate") /\ Creates(r) /\ "MboxCreate" \in CreateOps
    BY <1>4 DEF MboxCreate, CreateOps
  <2>2. MakesEvent(os, r, "MBOX") /\ Me.obj \notin GroupNames(prog)
    BY <1>1, <2>1, MboxCreateMakes DEF ArgOK
  <2> HIDE DEF r
  <2>3. Adds(os, r.k) /\ Spares(os, r.k, E) /\ r.cont = << >> /\ r.loc \in Kind
    BY <1>2, <2>2 DEF MakesEvent
  <2> QED
    BY <1>8, <2>1, <2>3, Created
<1>5. CASE FlagCreate
  <2> DEFINE r == OSFlagCreate(os, Me.arg)
  <2>1. At("FlagCreate") /\ Creates(r) /\ "FlagCreate" \in CreateOps
    BY <1>5 DEF FlagCreate, CreateOps
  <2>2. MakesGroup(os, r) /\ Me.obj \in GroupNames(prog)
    BY <1>1, <2>1, FlagCreateMakes DEF ArgOK
  <2> HIDE DEF r
  <2>3. Adds(os, r.k) /\ Spares(os, r.k, E) /\ r.cont = << >> /\ r.loc \in Kind
    BY <1>2, <2>2 DEF MakesGroup
  <2> QED
    BY <1>8, <2>1, <2>3, Created
<1>6. CASE QCreate
  <2> DEFINE r == OSQCreate(os)
  <2>1. At("QCreate") /\ Quietly(r, Me) /\ "QCreate" \in CreateOps
        /\ "QCreate" \notin WaitLabels \cup {"QCreateRing", "OS_Sched"}
    BY <1>6 DEF QCreate, CreateOps, WaitLabels
  <2>2. Sound(os) /\ Alike(Me, Me)
    BY <1>1, <2>1, AlikeIs
  <2>3. CASE os.freeEvent = << >>
    <3>1. r = Fails(os)
      BY <2>3 DEF OSQCreate
    <3>2. Serves(os, r)
      BY <2>2, <3>1, SameServes
    <3> HIDE DEF r
    <3> QED
      BY <2>1, <2>2, <3>2, Served
  <2>4. CASE os.freeEvent # << >>
    <3>1. TakesBlock(os, r)
      BY <2>2, <2>4, QCreateTakes
    <3>2. Calling(r, Me) /\ UNCHANGED obj /\ Head(Me.pc) = "QCreate"
      BY <2>1, <2>2 DEF Calling, At, Quietly
    <3> HIDE DEF r
    <3> QED
      BY <3>1, <3>2, TakingMoves
  <2> QED
    BY <2>3, <2>4
<1>7. CASE QCreated
  <2> DEFINE r == QCreateRing(os, Me.loc)
  <2>1. At("QCreateRing") /\ Creates(r)
    BY <1>7 DEF QCreated
  <2>2. Sound(os) /\ Limbo(os, Me.loc) /\ Me.obj \notin GroupNames(prog)
    BY <1>1, <2>1
  <2>3. MakesRing(os, r, Me.loc)
    BY <2>2, QCreateRingMakes
  <2> HIDE DEF r
  <2>4. PICK F : F = {Me.loc}
    OBVIOUS
  <2>5. Adds(os, r.k) /\ Spares(os, r.k, F) /\ r.cont = << >> /\ r.loc \in Kind
    BY <2>2, <2>3, <2>4 DEF MakesRing
  <2>6. \A e \in F : e = Me.loc
    BY <2>4
  <2> QED
    BY <2>1, <2>5, <2>6, Created
<1> QED
  BY <1>3, <1>4, <1>5, <1>6, <1>7

-----------------------------------------------------------------------------
(* The steps of the library and of the HAL, which leave the kernel alone.  *)

LEMMA SameHead ==
  ASSUME NEW p, NEW k, NEW m, NEW l, HeadOK(p, k, m, l),
         NEW n, n.menu = m.menu, n.hand = m.hand, n.obj = m.obj, n.ev = m.ev,
         n.arg = m.arg, n.loc = m.loc
  PROVE  HeadOK(p, k, n, l)
  BY DEF HeadOK

(* The task m is put at the labels next and becomes n.                     *)
Advanced(m, next, n) ==
    /\ DOMAIN n = RunFields /\ n.pc = next \o Tail(m.pc)
    /\ n.menu = m.menu /\ n.hand = m.hand
    /\ n.pc # << >> => /\ n.obj = m.obj /\ n.ev = m.ev /\ n.arg = m.arg
                       /\ n.loc = m.loc

LEMMA GotoIs ==
  ASSUME NEW next, NEW m, DOMAIN m = RunFields
  PROVE  Advanced(m, next, Settle([m EXCEPT !.pc = next \o Tail(@)]))
<1> DEFINE i == [m EXCEPT !.pc = next \o Tail(@)]
<1>1. /\ DOMAIN i = RunFields /\ i.pc = next \o Tail(m.pc)
      /\ i.menu = m.menu /\ i.hand = m.hand /\ i.obj = m.obj /\ i.ev = m.ev
      /\ i.arg = m.arg /\ i.loc = m.loc
  BY DEF RunFields
<1> HIDE DEF i
<1>2. LET n == Settle(i) IN
      /\ DOMAIN n = RunFields /\ n.pc = i.pc /\ n.menu = i.menu /\ n.hand = i.hand
      /\ n.pc # << >> => n = i
  BY <1>1 DEF Settle, RunFields
<1>3. Advanced(m, next, Settle(i))
  BY <1>1, <1>2 DEF Advanced
<1> QED
  BY <1>3 DEF i

LEMMA GotoMoves ==
  ASSUME Stepping, NEW l, At(l), l \notin WaitLabels \cup {"OS_Sched"},
         UNCHANGED << os, obj >>,
         NEW m, DOMAIN m = RunFields, m.pc = Me.pc, m.menu = Me.menu, m.hand \subseteq Block,
         NEW next, StackOK(next), Goto(next, m),
         next # << >> => Head(next) \notin WaitLabels \cup {"OS_Sched", "QCreateRing"},
         \A i \in DOMAIN next : Backed(prog, next[i]),
         next # << >> => HeadOK(prog, os, m, Head(next)),
         next # << >> /\ Head(next) \in Waiters => os.lock = 0
  PROVE  PlainInv'
<1> DEFINE n == Settle([m EXCEPT !.pc = next \o Tail(@)])
<1>1. run' = [run EXCEPT ![Cur] = n]
  BY DEF Goto
<1>2. /\ DOMAIN n = RunFields /\ n.pc = next \o Tail(Me.pc)
      /\ n.menu = Me.menu /\ n.hand = m.hand /\ n.hand \subseteq Block
      /\ n.pc # << >> => /\ n.obj = m.obj /\ n.ev = m.ev /\ n.arg = m.arg
                         /\ n.loc = m.loc
  <2>1. DOMAIN m = RunFields /\ m.pc = Me.pc /\ m.menu = Me.menu /\ m.hand \subseteq Block
    OBVIOUS
  <2>2. Advanced(m, next, n)
    BY <2>1, GotoIs
  <2> HIDE DEF n
  <2> QED
    BY ONLY <2>1, <2>2 DEF Advanced
<1> HIDE DEF n
<1>3. /\ Sound(os) /\ Cur \in os.list /\ ThreadOK(prog, os, Me)
      /\ os.prioCur = os.tcb[Cur].prio
  BY StepperIs
<1>4. Me.pc # << >> /\ Head(Me.pc) # "OS_Sched" /\ Head(Me.pc) \notin WaitLabels
  BY DEF At
<1>5. next # << >> => n.pc # << >>
  <2>1. StackOK(Me.pc)
    BY <1>3 DEF ThreadOK
  <2>2. next # << >> => next \o Tail(Me.pc) # << >>
    <3> HIDE DEF Me
    <3> QED
      BY <1>4, <2>1, StackMoves
  <2> QED
    BY <1>2, <2>2
<1>6. next # << >> => HeadOK(prog, os', n, Head(next))
  BY <1>2, <1>5, SameHead
<1>7. NextWait(next) = "none"
  <2>1. next \in Seq(Labels)
    BY DEF StackOK
  <2>2. Len(next) > 1 => next # << >> /\ Head(next) = next[1]
    BY <2>1
  <2>3. ~(Len(next) > 1 /\ next[1] = "OS_Sched")
    BY <2>2
  <2> QED
    BY ONLY <2>3 DEF NextWait
<1>8. /\ Common(os, os') /\ Undisturbed(os, os', os.list)
  BY <1>3, SoundCommon
<1>9. Keeps(n)
  BY <1>1, <1>2, <1>3, <1>8 DEF Keeps, Cur
<1>10. HandlesOK'
  <2>1. HandlesOK /\ UNCHANGED << prog, boot, obj >>
    BY PlainIs DEF Stepping
  <2> QED
    BY <1>8, <2>1, HandlesKept
<1>11. /\ \A u \in os.list \ {Cur} : TaskOK(os', u, WaitOf(run[u]), run[u].ev)
       /\ TaskOK(os', Cur, NextWait(next), n.ev)
  BY <1>4, <1>7, <1>8, TasksUndisturbed
<1>12. Schedules(next)
  BY DEF Schedules
<1>13. PICK E : E = {}
  OBVIOUS
<1>14. Spares(os, os', E) /\ \A e \in E : At("QCreateRing") /\ e = Me.loc
  BY <1>3, <1>13, SoundCommon
<1>15. /\ NextWait(next) = "FlagPended" =>
            n.arg \in Wanted /\ (n.arg.consume => n.arg.type \in ForSet)
       /\ NextWait(next) = "MultiPended" => Uses(prog, {"PendMulti"})
       /\ next # << >> /\ Head(next) = "QCreateRing" => ~Limbo(os, n.loc)
       /\ next # << >> => Head(next) \notin WaitLabels
  BY <1>7
<1> HIDE DEF Me, Cur
<1> QED
  BY <1>2, <1>4, <1>6, <1>9, <1>10, <1>11, <1>12, <1>14, <1>15, StepMoves

(* The labels that need nothing of the call's arguments.                   *)
Resting == Conts \cup {"MaxFd", "FileLocked", "ClearFd", "WriteCopy", "WriteStart",
                       "ReadCopy", "ReadDone"}

(* What the label c needs of the program, the label l needs as well.       *)
Inherits(l, c) ==
    /\ c \in FdLabels => l \in FdLabels
    /\ c \in ConsoleLabels => l \in ConsoleLabels
    /\ c \in LibLabels => l \in LibLabels

LEMMA RestingNeedNothing ==
  ASSUME NEW p, NEW k, NEW me, NEW l \in Resting
  PROVE  /\ HeadOK(p, k, me, l)
         /\ l \in Labels \ (WaitLabels \cup {"OS_Sched", "QCreateRing"})
         /\ l \notin Waiters
<1>1. /\ l \notin CreateOps \cup {"QCreateRing"} /\ l \notin EventOps /\ l \notin FlagOps
      /\ l \notin {"PendMulti", "TaskSuspend", "SchedLock", "MemPut", "QCreateRing"}
      /\ l \notin {"LibLock", "LibQuery", "LibTest", "LibUnlock"}
      /\ l \notin {"MboxPostOpt", "QPostOpt"}
  BY DEF Resting, Conts, CreateOps, EventOps, FlagOps
<1>2. ArgOK(l, me.arg)
  BY DEF ArgOK, Resting, Conts
<1>3. HeadOK(p, k, me, l)
  BY <1>1, <1>2 DEF HeadOK
<1> QED
  BY <1>3 DEF Resting, Labels, Conts, WaitLabels, Waiters

LEMMA InheritsIs ==
  ASSUME NEW p, NEW l, NEW c, Backed(p, l), Inherits(l, c)
  PROVE  Backed(p, c)
  BY DEF Backed, Inherits

(* The task me but for what it remembers of the call it is in.             *)
SameTask(me, m) ==
    DOMAIN m = RunFields /\ m.pc = me.pc /\ m.menu = me.menu /\ m.hand = me.hand

(* The step of a call of the library or the HAL which the task takes at l. *)
Stepped(l, m) ==
    /\ Stepping /\ At(l) /\ l \notin WaitLabels \cup {"OS_Sched"}
    /\ UNCHANGED << os, obj >> /\ SameTask(Me, m)

Routes == {<< >>, << "ClearFd", "FreeFd" >>} \cup {<< c >> : c \in Resting}

LEMMA GoesMoves ==
  ASSUME NEW l, NEW m, Stepped(l, m), NEW next \in Routes, Goto(next, m),
         \A i \in DOMAIN next : Inherits(l, next[i])
  PROVE  PlainInv'
<1>1. /\ Backed(prog, l) /\ Me.hand \subseteq Block /\ DOMAIN Me = RunFields
  BY CallerIs DEF Stepped
<1>2. /\ Stepping /\ At(l) /\ l \notin WaitLabels \cup {"OS_Sched"}
      /\ UNCHANGED << os, obj >>
      /\ DOMAIN m = RunFields /\ m.pc = Me.pc /\ m.menu = Me.menu /\ m.hand \subseteq Block
  BY <1>1 DEF Stepped, SameTask
<1>3. \A i \in DOMAIN next : Backed(prog, next[i])
  BY <1>1, InheritsIs
<1>4. "ClearFd" \in Resting /\ "FreeFd" \in Conts /\ "FreeFd" \in Resting
  BY DEF Resting, Conts
<1>5. CASE next = << >>
  <2>1. StackOK(next)
    BY <1>5 DEF StackOK
  <2> QED
    BY <1>2, <1>3, <1>5, <2>1, GotoMoves
<1>6. CASE next # << >>
  <2>1. Head(next) \in Resting
    BY <1>4, <1>6 DEF Routes
  <2>2. /\ HeadOK(prog, os, m, Head(next))
        /\ Head(next) \in Labels \ (WaitLabels \cup {"OS_Sched", "QCreateRing"})
        /\ Head(next) \notin Waiters
    BY <2>1, RestingNeedNothing
  <2>3. StackOK(next)
    <3>1. CASE \E c \in Resting : next = << c >>
      BY <2>2, <3>1 DEF StackOK
    <3>2. CASE next = << "ClearFd", "FreeFd" >>
      <4>1. next \in Seq(Labels)
        BY <3>2 DEF Labels, Conts
      <4>2. Len(next) = 2 /\ next[2] = "FreeFd"
        BY <3>2
      <4>3. \A i \in 2 .. Len(next) : next[i] \in Conts
        BY <4>2, <1>4
      <4> QED
        BY <4>1, <4>3 DEF StackOK
    <3> QED
      BY <1>6, <3>1, <3>2 DEF Routes
  <2>4. Goto(next, m)
    OBVIOUS
  <2> QED
    BY ONLY <1>2, <1>3, <2>2, <2>3, <2>4, GotoMoves
<1> QED
  BY <1>5, <1>6

(* The handle of an object that the start has made.                        *)
LEMMA DeclaredHandle ==
  ASSUME PlainInv, Running, NEW name, NEW type, Declares(prog, name, type)
  PROVE  /\ type = "SEM" => obj[name] \in Ecb /\ os.event[obj[name]].type = "SEM"
         /\ type = "FLAG" => obj[name] \in Fgp /\ os.flag[obj[name]].type = "FLAG"
<1>1. PICK i \in DOMAIN prog.objects :
        prog.objects[i].name = name /\ prog.objects[i].type = type
  BY DEF Declares
<1>2. /\ Plain(prog) /\ ObjectsMade /\ HandlesOK /\ BootOK
  BY PlainIs DEF BootOK, PlainPrograms
<1>3. prog.objects \in Seq({prog.objects[n] : n \in DOMAIN prog.objects})
  BY <1>2 DEF Plain, ObjectsPlain
<1>4. i \in Nat /\ i <= Len(prog.objects)
  BY <1>3
<1>5. Len(prog.objects) \in Nat /\ boot.object \in Nat
  BY <1>2, <1>3 DEF BootOK
<1>6. i < boot.object
  BY <1>2, <1>4, <1>5 DEF ObjectsMade
<1> QED
  BY <1>1, <1>2, <1>6 DEF HandlesOK

LEMMA Pushed ==
  ASSUME NEW X, NEW x \in X, NEW s \in Seq(X), Len(s) = 1
  PROVE  LET p == << x >> \o s IN
         p \in Seq(X) /\ Len(p) = 2 /\ p[1] = x /\ p[2] = s[1]
<1> DEFINE p == << x >> \o s
<1>1. /\ p \in Seq(X) /\ Len(p) = 2 /\ p[1] = x
      /\ \A i \in 2 .. Len(s) + 1 : p[i] = s[i - 1]
  OBVIOUS
<1> HIDE DEF p
<1>2. 2 \in 2 .. Len(s) + 1 /\ 2 - 1 = 1
  OBVIOUS
<1>3. p[2] = s[1]
  BY <1>1, <1>2
<1> QED
  BY <1>1, <1>3 DEF p

Asks == {"SemPend", "SemPost", "FlagPend"}

LEMMA CallsMoves ==
  ASSUME NEW l, NEW m, Stepped(l, m), NEW op \in Asks, NEW name, NEW arg, NEW after,
         Calls(op, name, arg, after, m),
         after = << >> \/ \E c \in Conts : after = << c >> /\ Inherits(l, c),
         Declares(prog, name, IF op = "FlagPend" THEN "FLAG" ELSE "SEM"),
         op # "SemPost" => l \in FdLabels \cup ConsoleLabels \cup LibLabels,
         op = "SemPend" => arg \in Nat,
         op = "FlagPend" => arg \in Wanted /\ (arg.consume => arg.type \in ForSet)
  PROVE  PlainInv'
<1> DEFINE next == << op >> \o after
           n == [m EXCEPT !.obj = name, !.ev = obj[name], !.arg = arg]
<1>1. /\ Backed(prog, l) /\ Me.hand \subseteq Block /\ DOMAIN Me = RunFields
      /\ os.lock > 0 => Uses(prog, {"SchedLock"})
      /\ Plain(prog) /\ os.lock \in 0 .. 255
  BY CallerIs, StepperIs DEF Stepped
<1>2. /\ Stepping /\ At(l) /\ l \notin WaitLabels \cup {"OS_Sched"}
      /\ UNCHANGED << os, obj >>
  BY DEF Stepped
<1>3. /\ DOMAIN n = RunFields /\ n.pc = Me.pc /\ n.menu = Me.menu /\ n.hand \subseteq Block
      /\ n.ev = obj[name] /\ n.arg = arg
  BY <1>1 DEF Stepped, SameTask, RunFields
<1>4. /\ op \in Labels \ (WaitLabels \cup {"OS_Sched", "QCreateRing"})
      /\ op \notin FdLabels \cup ConsoleLabels \cup LibLabels
  BY DEF Asks, Labels, PlainOps, EventOps, FlagOps, WaitLabels, FdLabels, ConsoleLabels,
         LibLabels
<1>5. Backed(prog, op)
  BY <1>4 DEF Backed
<1>6. /\ StackOK(next) /\ next # << >> /\ Head(next) = op
      /\ \A i \in DOMAIN next : Backed(prog, next[i])
  <2>1. CASE after = << >>
    <3>1. next = << op >>
      BY <2>1
    <3> HIDE DEF next
    <3>2. next \in Seq(Labels) /\ Len(next) = 1 /\ next[1] = op
      BY <1>4, <3>1
    <3>3. StackOK(next)
      BY <3>2 DEF StackOK
    <3>4. next # << >> /\ Head(next) = op
      BY <3>1
    <3>5. \A i \in DOMAIN next : next[i] = op
      BY <3>1
    <3>6. \A i \in DOMAIN next : Backed(prog, next[i])
      BY ONLY <1>5, <3>5
    <3> QED
      BY ONLY <3>3, <3>4, <3>6
  <2>2. CASE after # << >>
    <3>1. PICK c \in Conts : after = << c >> /\ Inherits(l, c)
      BY <2>2
    <3>2. Backed(prog, c) /\ c \in Labels
      BY <1>1, <3>1, InheritsIs DEF Labels
    <3>3. << op >> \in Seq(Labels) /\ after \in Seq(Labels) /\ Len(after) = 1 /\ after[1] = c
      BY <1>4, <3>1, <3>2
    <3>4. /\ next \in Seq(Labels) /\ Len(next) = 2
          /\ next[1] = op /\ next[2] = c
      BY ONLY <1>4, <3>3, Pushed
    <3> HIDE DEF next
    <3>5. StackOK(next)
      BY <3>4 DEF StackOK
    <3>6. next # << >> /\ Head(next) = op
      BY ONLY <3>4
    <3>7. \A i \in DOMAIN next : Backed(prog, next[i])
      <4>1. \A i \in DOMAIN next : next[i] = op \/ next[i] = c
        BY ONLY <3>4
      <4> QED
        BY ONLY <1>5, <3>2, <4>1
    <3> QED
      BY ONLY <3>5, <3>6, <3>7
  <2> QED
    BY <2>1, <2>2
<1>7. HeadOK(prog, os, n, op)
  <2>1. /\ op # "FlagPend" => n.ev \in Ecb /\ os.event[n.ev].type = "SEM"
        /\ op = "FlagPend" => n.ev \in Fgp /\ os.flag[n.ev].type = "FLAG"
    BY <1>2, <1>3, DeclaredHandle DEF Stepping
  <2>2. ArgOK(op, n.arg)
    BY <1>3 DEF ArgOK, Asks
  <2>3. op # "FlagPend" => TypeFor(op) = "SEM"
    BY DEF Asks, TypeFor
  <2>4. /\ op \notin CreateOps \cup {"QCreateRing", "PendMulti", "TaskSuspend", "SchedLock",
                                     "LibLock", "LibQuery", "LibTest", "LibUnlock", "MemPut",
                                     "MboxPostOpt", "QPostOpt"}
        /\ op \in EventOps => op # "FlagPend"
        /\ op \in FlagOps => op = "FlagPend"
    BY DEF Asks, CreateOps, EventOps, FlagOps
  <2> HIDE DEF n
  <2> QED
    BY <2>1, <2>2, <2>3, <2>4 DEF HeadOK
<1>8. op \in Waiters => os.lock = 0
  <2>1. op \in Waiters => Uses(prog, Indirect)
    BY <1>1 DEF Asks, Waiters, Backed
  <2>2. Uses(prog, Indirect) => ~Uses(prog, {"SchedLock"})
    BY <1>1 DEF Plain
  <2> QED
    BY ONLY <1>1, <2>1, <2>2
<1>9. Goto(next, n)
  BY DEF Calls
<1> HIDE DEF next, n
<1>10. /\ next # << >> => Head(next) \notin WaitLabels \cup {"OS_Sched", "QCreateRing"}
       /\ next # << >> => HeadOK(prog, os, n, Head(next))
       /\ next # << >> /\ Head(next) \in Waiters => os.lock = 0
  BY <1>4, <1>6, <1>7, <1>8
<1> QED
  BY ONLY <1>2, <1>3, <1>6, <1>9, <1>10, GotoMoves

(* The labels that a call of the library takes one after the other.        *)
LEMMA LibMoves ==
  ASSUME NEW l \in {"LibLock", "LibQuery"}, NEW m, Stepped(l, m), m.obj = Me.obj,
         NEW c \in {"LibQuery", "LibTest"}, Goto(<< c >>, m)
  PROVE  PlainInv'
<1>1. /\ Backed(prog, l) /\ Me.hand \subseteq Block /\ DOMAIN Me = RunFields
      /\ HeadOK(prog, os, Me, l)
  BY CallerIs DEF Stepped
<1>2. /\ Stepping /\ At(l) /\ l \notin WaitLabels \cup {"OS_Sched"}
      /\ UNCHANGED << os, obj >>
      /\ DOMAIN m = RunFields /\ m.pc = Me.pc /\ m.menu = Me.menu /\ m.hand \subseteq Block
  BY <1>1 DEF Stepped, SameTask
<1>3. Me.obj \in Libraries /\ Declares(prog, Me.obj, "SEM")
  BY <1>1 DEF HeadOK
<1>4. /\ c \in Labels \ (WaitLabels \cup {"OS_Sched", "QCreateRing"}) /\ c \notin Waiters
      /\ Inherits(l, c)
  BY DEF Labels, WaitLabels, Waiters, Inherits, FdLabels, ConsoleLabels, LibLabels
<1>5. HeadOK(prog, os, m, c)
  <2>1. ArgOK(c, m.arg)
    BY DEF ArgOK
  <2>2. /\ c \notin CreateOps \cup {"QCreateRing"} /\ c \notin EventOps /\ c \notin FlagOps
        /\ c \notin {"PendMulti", "TaskSuspend", "SchedLock", "MemPut", "QCreateRing",
                     "MboxPostOpt", "QPostOpt"}
    BY DEF CreateOps, EventOps, FlagOps
  <2> QED
    BY <1>3, <2>1, <2>2 DEF HeadOK
<1>6. Backed(prog, c)
  BY <1>1, <1>4, InheritsIs
<1> DEFINE next == << c >>
<1>7. /\ next \in Seq(Labels) /\ Len(next) = 1 /\ Head(next) = c
      /\ \A i \in DOMAIN next : next[i] = c
  BY <1>4
<1>8. Goto(next, m)
  OBVIOUS
<1> HIDE DEF next
<1>9. StackOK(next)
  BY <1>7 DEF StackOK
<1>10. /\ next # << >> => Head(next) \notin WaitLabels \cup {"OS_Sched", "QCreateRing"}
       /\ \A i \in DOMAIN next : Backed(prog, next[i])
       /\ next # << >> => HeadOK(prog, os, m, Head(next))
       /\ next # << >> /\ Head(next) \in Waiters => os.lock = 0
  BY ONLY <1>4, <1>5, <1>6, <1>7
<1> QED
  BY ONLY <1>2, <1>8, <1>9, <1>10, GotoMoves

(* The task steps at l and leaves the kernel and the handles alone.        *)
Aside(l) == Stepping /\ At(l) /\ l \notin WaitLabels \cup {"OS_Sched"} /\ UNCHANGED << os, obj >>

LEMMA AsideIs ==
  ASSUME NEW l, Aside(l)
  PROVE  /\ DOMAIN Me = RunFields /\ Stepped(l, Me)
         /\ \A m : SameTask(Me, m) => Stepped(l, m)
<1>1. DOMAIN Me = RunFields
  BY CallerIs DEF Aside
<1> QED
  BY <1>1 DEF Aside, Stepped, SameTask

LEMMA Onward ==
  ASSUME NEW l, NEW m, Stepped(l, m), NEW c \in Resting, Inherits(l, c), Goto(<< c >>, m)
  PROVE  PlainInv'
<1>1. << c >> \in Routes
  BY DEF Routes
<1>2. \A i \in DOMAIN << c >> : Inherits(l, << c >>[i])
  OBVIOUS
<1> QED
  BY <1>1, <1>2, GoesMoves

LEMMA Ended0 ==
  ASSUME NEW l, NEW m, Stepped(l, m), Goto(<< >>, m)
  PROVE  PlainInv'
<1>1. << >> \in Routes /\ \A i \in DOMAIN << >> : Inherits(l, << >>[i])
  BY DEF Routes
<1> QED
  BY <1>1, GoesMoves

LEMMA LibrarySteps ==
  ASSUME Stepping, Library, UNCHANGED boot
  PROVE  PlainInv'
<1> USE DEF Inherits, LibLabels, FdLabels, ConsoleLabels, Conts, Resting
<1>1. CASE LibLock
  <2>1. Aside("LibLock")
    BY <1>1 DEF LibLock, Aside, WaitLabels
  <2> DEFINE m == [Me EXCEPT !.io.id = os.tcb[Cur].prio]
  <2>2. SameTask(Me, m) /\ m.obj = Me.obj
    BY <2>1, AsideIs DEF SameTask, RunFields
  <2>3. Goto(<< "LibQuery" >>, m)
    BY <1>1 DEF LibLock
  <2> HIDE DEF m, Me
  <2> QED
    BY <2>1, <2>2, <2>3, AsideIs, LibMoves
<1>2. CASE LibQuery
  <2>1. Aside("LibQuery")
    BY <1>2 DEF LibQuery, Aside, WaitLabels
  <2> DEFINE q == OSSemQuery(os, Me.ev)
             m == [Me EXCEPT !.io.cnt = q.cnt, !.io.grp = (q.grp # {})]
  <2>2. Goto(<< "LibTest" >>, m)
    BY <1>2 DEF LibQuery
  <2> HIDE DEF q
  <2>3. SameTask(Me, m) /\ m.obj = Me.obj
    BY <2>1, AsideIs DEF SameTask, RunFields
  <2> HIDE DEF m, Me
  <2> QED
    BY <2>1, <2>2, <2>3, AsideIs, LibMoves
<1>3. CASE LibNests
  <2>1. Aside("LibTest") /\ Goto(<< >>, Me)
    BY <1>3 DEF LibNests, Aside, WaitLabels
  <2> QED
    BY <2>1, AsideIs, Ended0
<1>4. CASE LibWaits
  <2>1. Aside("LibTest") /\ Calls("SemPend", Me.obj, 0, << "LibGot" >>, Me)
    BY <1>4 DEF LibWaits, Aside, WaitLabels
  <2>2. Declares(prog, Me.obj, "SEM")
    BY <2>1, CallerIs DEF HeadOK, Aside
  <2>3. Inherits("LibTest", "LibGot") /\ "LibGot" \in Conts
    OBVIOUS
  <2> HIDE DEF Me
  <2> QED
    BY <2>1, <2>2, <2>3, AsideIs, CallsMoves DEF Asks
<1>5. CASE LibGot
  <2>1. Aside("LibGot") /\ Goto(<< >>, Me)
    BY <1>5 DEF LibGot, Aside, WaitLabels
  <2> QED
    BY <2>1, AsideIs, Ended0
<1>6. CASE LibUnlock
  <2>1. /\ Aside("LibUnlock")
        /\ Goto(<< >>, Me) \/ Calls("SemPost", Me.obj, Null, << >>, Me)
    BY <1>6 DEF LibUnlock, Aside, WaitLabels
  <2>2. Declares(prog, Me.obj, "SEM")
    BY <2>1, CallerIs DEF HeadOK, Aside
  <2> HIDE DEF Me
  <2> QED
    BY <2>1, <2>2, AsideIs, CallsMoves, Ended0 DEF Asks
<1> QED
  BY <1>1, <1>2, <1>3, <1>4, <1>5, <1>6 DEF Library

(* A step that takes and gives the lock of the descriptors.                *)
LEMMA FdCalls ==
  ASSUME NEW l \in FdLabels, NEW m, Stepped(l, m), NEW op \in {"SemPend", "SemPost"},
         NEW arg, op = "SemPend" => arg \in Nat, NEW after,
         after \in {<< >>, << "GetFd" >>, << "OpenFlags" >>, << "FdLock" >>},
         Calls(op, "fd_lock", arg, after, m)
  PROVE  PlainInv'
<1>1. Declares(prog, "fd_lock", "SEM")
  BY CallerIs DEF Stepped, Backed
<1>2. after = << >> \/ \E c \in Conts : after = << c >> /\ Inherits(l, c)
  BY DEF Conts, Inherits, FdLabels, ConsoleLabels, LibLabels
<1> QED
  BY <1>1, <1>2, CallsMoves DEF Asks

LEMMA OpenSteps ==
  ASSUME Stepping, Open \/ GetFd \/ GotFd \/ OpenFd \/ FileLocked, UNCHANGED boot
  PROVE  PlainInv'
<1>1. CASE Open
  <2>1. Aside("Open")
    BY <1>1 DEF Open, Aside, WaitLabels
  <2> DEFINE m == [Me EXCEPT !.io.fd = StdErr + 1, !.io.want = Me.arg]
  <2>2. Goto(<< >>, Me) \/ Calls("SemPend", "fd_lock", 0, << "GetFd" >>, m)
    BY <1>1 DEF Open
  <2>3. SameTask(Me, m)
    BY <2>1, AsideIs DEF SameTask, RunFields
  <2> HIDE DEF m, Me
  <2> QED
    BY <2>1, <2>2, <2>3, AsideIs, FdCalls, Ended0 DEF FdLabels
<1>2. CASE GetFd
  <2>1. Aside("GetFd")
    BY <1>2 DEF GetFd, Aside, WaitLabels
  <2> DEFINE m == [Me EXCEPT !.io.fd = Me.io.fd + 1]
  <2>2. \/ Goto(<< "GetFd" >>, m) \/ Goto(<< "MaxFd" >>, Me)
        \/ Calls("SemPost", "fd_lock", Null, << >>, Me)
    BY <1>2 DEF GetFd
  <2>3. SameTask(Me, m)
    BY <2>1, AsideIs DEF SameTask, RunFields
  <2>4. /\ "GetFd" \in Resting /\ "MaxFd" \in Resting
        /\ Inherits("GetFd", "GetFd") /\ Inherits("GetFd", "MaxFd")
    BY DEF Resting, Conts, Inherits, FdLabels, ConsoleLabels, LibLabels
  <2> HIDE DEF m, Me
  <2> QED
    BY <2>1, <2>2, <2>3, <2>4, AsideIs, FdCalls, Onward DEF FdLabels
<1>3. CASE GotFd
  <2>1. Aside("MaxFd") /\ Calls("SemPost", "fd_lock", Null, << "OpenFlags" >>, Me)
    BY <1>3 DEF GotFd, Aside, WaitLabels
  <2> QED
    BY <2>1, AsideIs, FdCalls DEF FdLabels
<1>4. CASE OpenFd
  <2>1. Aside("OpenFlags")
    BY <1>4 DEF OpenFd, Aside, WaitLabels
  <2> DEFINE m == [Me EXCEPT !.io.next = StdErr]
  <2>2. Goto(<< "FileLocked" >>, m)
    BY <1>4 DEF OpenFd
  <2>3. SameTask(Me, m)
    BY <2>1, AsideIs DEF SameTask, RunFields
  <2>4. "FileLocked" \in Resting /\ Inherits("OpenFlags", "FileLocked")
    BY DEF Resting, Inherits, FdLabels, ConsoleLabels, LibLabels
  <2> HIDE DEF m, Me
  <2> QED
    BY <2>1, <2>2, <2>3, <2>4, AsideIs, Onward
<1>5. CASE FileLocked
  <2>1. Aside("FileLocked")
    BY <1>5 DEF FileLocked, Aside, WaitLabels
  <2> DEFINE m == [Me EXCEPT !.fds = @ \cup {Me.io.fd}]
             n == [Me EXCEPT !.io.next = Me.io.next + 1]
  <2>2. \/ Goto(<< >>, m) \/ Goto(<< "ClearFd", "FreeFd" >>, Me)
        \/ Goto(<< "FileLocked" >>, n)
    BY <1>5 DEF FileLocked
  <2>3. SameTask(Me, m) /\ SameTask(Me, n)
    BY <2>1, AsideIs DEF SameTask, RunFields
  <2>4. "FileLocked" \in Resting /\ Inherits("FileLocked", "FileLocked")
    BY DEF Resting, Inherits, FdLabels, ConsoleLabels, LibLabels
  <2>5. CASE Goto(<< "ClearFd", "FreeFd" >>, Me)
    <3>1. << "ClearFd", "FreeFd" >> \in Routes
      BY DEF Routes
    <3>2. \A i \in DOMAIN << "ClearFd", "FreeFd" >> :
            Inherits("FileLocked", << "ClearFd", "FreeFd" >>[i])
      BY DEF Inherits, FdLabels, ConsoleLabels, LibLabels
    <3> QED
      BY <2>1, <2>5, <3>1, <3>2, AsideIs, GoesMoves
  <2> HIDE DEF m, n, Me
  <2> QED
    BY <2>1, <2>2, <2>3, <2>4, <2>5, AsideIs, Onward, Ended0
<1> QED
  BY <1>1, <1>2, <1>3, <1>4, <1>5

LEMMA FileSteps ==
  ASSUME Stepping, Close \/ ReleaseFd \/ Ioctl \/ FdLock \/ Fcntl, UNCHANGED boot
  PROVE  PlainInv'
<1>1. CASE Close
  <2>1. Aside("Close")
    BY <1>1 DEF Close, Aside, WaitLabels
  <2> DEFINE m == [Me EXCEPT !.fds = @ \ {Me.io.fd}]
  <2>2. Goto(<< "ClearFd", "FreeFd" >>, m)
    BY <1>1 DEF Close
  <2>3. SameTask(Me, m)
    BY <2>1, AsideIs DEF SameTask, RunFields
  <2>4. << "ClearFd", "FreeFd" >> \in Routes
    BY DEF Routes
  <2>5. \A i \in DOMAIN << "ClearFd", "FreeFd" >> :
          Inherits("Close", << "ClearFd", "FreeFd" >>[i])
    BY DEF Inherits, FdLabels, ConsoleLabels, LibLabels
  <2> HIDE DEF m, Me
  <2> QED
    BY <2>1, <2>2, <2>3, <2>4, <2>5, AsideIs, GoesMoves
<1>2. CASE ReleaseFd
  <2>1. (Aside("ClearFd") \/ Aside("FreeFd")) /\ Goto(<< >>, Me)
    BY <1>2 DEF ReleaseFd, Aside, WaitLabels
  <2> QED
    BY <2>1, AsideIs, Ended0
<1>3. CASE Ioctl
  <2>1. Aside("Ioctl")
    BY <1>3 DEF Ioctl, Aside, WaitLabels
  <2> DEFINE m == [Me EXCEPT !.io.next = StdErr]
  <2>2. Goto(<< >>, Me) \/ Calls("SemPend", "fd_lock", 0, << "FdLock" >>, m)
    BY <1>3 DEF Ioctl
  <2>3. SameTask(Me, m)
    BY <2>1, AsideIs DEF SameTask, RunFields
  <2> HIDE DEF m, Me
  <2> QED
    BY <2>1, <2>2, <2>3, AsideIs, FdCalls, Ended0 DEF FdLabels
<1>4. CASE FdLock
  <2>1. Aside("FdLock")
    BY <1>4 DEF FdLock, Aside, WaitLabels
  <2> DEFINE m == [Me EXCEPT !.io.next = Me.io.next + 1]
  <2>2. Goto(<< "FdLock" >>, m) \/ Calls("SemPost", "fd_lock", Null, << >>, Me)
    BY <1>4 DEF FdLock
  <2>3. SameTask(Me, m)
    BY <2>1, AsideIs DEF SameTask, RunFields
  <2>4. "FdLock" \in Resting /\ Inherits("FdLock", "FdLock")
    BY DEF Resting, Conts, Inherits
  <2> HIDE DEF m, Me
  <2> QED
    BY <2>1, <2>2, <2>3, <2>4, AsideIs, FdCalls, Onward DEF FdLabels
<1>5. CASE Fcntl
  <2>1. Aside("Fcntl") /\ Goto(<< >>, Me)
    BY <1>5 DEF Fcntl, Aside, WaitLabels
  <2> QED
    BY <2>1, AsideIs, Ended0
<1> QED
  BY <1>1, <1>2, <1>3, <1>4, <1>5

(* A step that takes and gives a lock of the console or waits for its flag.*)
LEMMA ConsoleCalls ==
  ASSUME NEW l \in ConsoleLabels, NEW m, Stepped(l, m),
         NEW op, NEW name, NEW arg, NEW after, Calls(op, name, arg, after, m),
         \/ op = "SemPend" /\ name \in {"read_lock", "write_lock"} /\ arg = 0
         \/ op = "SemPost" /\ name \in {"read_lock", "write_lock"}
         \/ op = "FlagPend" /\ name = "uart"
            /\ \E ready \in UartNames : arg = UartFlags(ready),
         after \in {<< >>} \cup {<< c >> : c \in ConsoleLabels \cap Conts}
                     \cup {<< "ReadEnable" >>}
  PROVE  PlainInv'
<1>1. /\ Declares(prog, "read_lock", "SEM") /\ Declares(prog, "write_lock", "SEM")
      /\ Declares(prog, "uart", "FLAG")
  BY CallerIs DEF Stepped, Backed
<1>2. \A c \in ConsoleLabels : Inherits(l, c)
  BY DEF Inherits, FdLabels, ConsoleLabels, LibLabels
<1>3. Inherits(l, "ReadEnable") /\ "ReadEnable" \in Conts
  BY DEF Inherits, FdLabels, ConsoleLabels, LibLabels, Conts
<1>4. after = << >> \/ \E c \in Conts : after = << c >> /\ Inherits(l, c)
  BY <1>2, <1>3
<1>5. \A ready \in UartNames : UartFlags(ready) \in Wanted /\ UartFlags(ready).type \in ForSet
  <2> TAKE ready \in UartNames
  <2>1. {ready, "TIMEOUT"} \in SUBSET FlagNames
    BY DEF UartNames, FlagNames
  <2> QED
    BY <2>1 DEF UartFlags, Wanted, FlagTypes, ForSet
<1>6. op = "FlagPend" => arg \in Wanted /\ (arg.consume => arg.type \in ForSet)
  BY <1>5
<1>7. /\ op \in Asks
      /\ op = "SemPend" => arg \in Nat
      /\ Declares(prog, name, IF op = "FlagPend" THEN "FLAG" ELSE "SEM")
      /\ l \in FdLabels \cup ConsoleLabels \cup LibLabels
  BY <1>1 DEF Asks
<1>8. op # "SemPost" => l \in FdLabels \cup ConsoleLabels \cup LibLabels
  BY <1>7
<1>9. Stepped(l, m) /\ Calls(op, name, arg, after, m)
  OBVIOUS
<1> QED
  BY ONLY <1>4, <1>6, <1>7, <1>8, <1>9, CallsMoves

LEMMA WriteSteps ==
  ASSUME Stepping, WriteBegin \/ WriteLook \/ WriteCopy \/ WriteStart \/ WriteWoken,
         UNCHANGED boot
  PROVE  PlainInv'
<1> DEFINE own == ConsoleLabels \cap Conts
<1>0. /\ \A l \in ConsoleLabels : \A c \in ConsoleLabels : Inherits(l, c)
      /\ {"WriteCopy", "WriteStart", "WriteLook"} \subseteq Resting \cap ConsoleLabels
      /\ {"Write", "WriteWoken", "WriteLook"} \subseteq ConsoleLabels
      /\ {"WriteWoken", "WriteLook"} \subseteq own
  BY DEF Inherits, FdLabels, ConsoleLabels, LibLabels, Resting, Conts
<1> HIDE DEF own
<1>1. CASE WriteBegin
  <2>1. Aside("Write")
    BY <1>1 DEF WriteBegin, Aside, WaitLabels
  <2>2. \/ Goto(<< >>, Me)
        \/ Calls("SemPend", "write_lock", 0, << "WriteLook" >>, Begins)
    BY <1>1 DEF WriteBegin
  <2>3. SameTask(Me, Begins)
    BY <2>1, AsideIs DEF SameTask, RunFields, Begins
  <2> HIDE DEF Me
  <2> QED
    BY <1>0, <2>1, <2>2, <2>3, AsideIs, ConsoleCalls, Ended0 DEF own
<1>2. CASE WriteLook
  <2>1. Aside("WriteLook")
    BY <1>2 DEF WriteLook, Aside, WaitLabels
  <2> DEFINE m == Looked(uart.txIn, uart.txOut)
  <2>2. Goto(<< "WriteCopy" >>, m) \/ Goto(<< "WriteStart" >>, Me)
    BY <1>2 DEF WriteLook
  <2>3. SameTask(Me, m)
    BY <2>1, AsideIs DEF SameTask, RunFields, Looked
  <2> HIDE DEF m, Me
  <2> QED
    BY <1>0, <2>1, <2>2, <2>3, AsideIs, Onward
<1>3. CASE WriteCopy
  <2> DEFINE n == AtMost(Writable(Me.io.in, Me.io.out), Me.io.left)
             m == Copied(n)
  <2>1. Aside("WriteCopy")
    BY <1>3 DEF WriteCopy, Aside, WaitLabels
  <2>2. Goto(<< "WriteLook" >>, m)
    BY <1>3 DEF WriteCopy
  <2> HIDE DEF n
  <2>3. SameTask(Me, m)
    BY <2>1, AsideIs DEF SameTask, RunFields, Copied, Looked
  <2> HIDE DEF m, Me
  <2> QED
    BY <1>0, <2>1, <2>2, <2>3, AsideIs, Onward
<1>4. CASE WriteStart
  <2>1. Aside("WriteStart")
    BY <1>4 DEF WriteStart, Aside, WaitLabels
  <2>2. \/ Calls("FlagPend", "uart", UartFlags("WRITE_RDY"), << "WriteWoken" >>, Me)
        \/ Calls("SemPost", "write_lock", Null, << >>, Me)
    BY <1>4 DEF WriteStart, WriteUnlock
  <2> HIDE DEF Me
  <2> QED
    BY <1>0, <2>1, <2>2, AsideIs, ConsoleCalls DEF own, UartNames
<1>5. CASE WriteWoken
  <2>1. Aside("WriteWoken")
    BY <1>5 DEF WriteWoken, Aside, WaitLabels
  <2>2. \/ Calls("SemPost", "write_lock", Null, << >>, Me)
        \/ Goto(<< "WriteLook" >>, Me)
    BY <1>5 DEF WriteWoken, WriteUnlock
  <2> HIDE DEF Me
  <2> QED
    BY <1>0, <2>1, <2>2, AsideIs, ConsoleCalls, Onward
<1> QED
  BY <1>1, <1>2, <1>3, <1>4, <1>5

LEMMA ReadSteps ==
  ASSUME Stepping, \/ ReadBegin \/ ReadLook \/ ReadCopy \/ ReadDone \/ ReadWoken
                   \/ ReadEnable,
         UNCHANGED boot
  PROVE  PlainInv'
<1> DEFINE own == ConsoleLabels \cap Conts
<1>0. /\ \A l \in ConsoleLabels : \A c \in ConsoleLabels : Inherits(l, c)
      /\ {"ReadCopy", "ReadDone", "ReadLook"} \subseteq Resting \cap ConsoleLabels
      /\ {"Read", "ReadWoken", "ReadLook"} \subseteq ConsoleLabels
      /\ {"ReadWoken", "ReadLook"} \subseteq own
  BY DEF Inherits, FdLabels, ConsoleLabels, LibLabels, Resting, Conts
<1> HIDE DEF own
<1>1. CASE ReadBegin
  <2>1. Aside("Read")
    BY <1>1 DEF ReadBegin, Aside, WaitLabels
  <2>2. \/ Goto(<< >>, Me)
        \/ Calls("SemPend", "read_lock", 0, << "ReadLook" >>, Begins)
    BY <1>1 DEF ReadBegin
  <2>3. SameTask(Me, Begins)
    BY <2>1, AsideIs DEF SameTask, RunFields, Begins
  <2> HIDE DEF Me
  <2> QED
    BY <1>0, <2>1, <2>2, <2>3, AsideIs, ConsoleCalls, Ended0 DEF own
<1>2. CASE ReadLook
  <2>1. Aside("ReadLook")
    BY <1>2 DEF ReadLook, Aside, WaitLabels
  <2> DEFINE m == Looked(uart.rxIn, uart.rxOut)
             n == Looked(uart.rxIn, 0)
  <2>2. Goto(<< "ReadCopy" >>, m) \/ Goto(<< "ReadDone" >>, n)
    BY <1>2 DEF ReadLook
  <2>3. SameTask(Me, m) /\ SameTask(Me, n)
    BY <2>1, AsideIs DEF SameTask, RunFields, Looked
  <2> HIDE DEF m, n, Me
  <2> QED
    BY <1>0, <2>1, <2>2, <2>3, AsideIs, Onward
<1>3. CASE ReadCopy
  <2> DEFINE n == AtMost(Readable(Me.io.in, Me.io.out), Me.io.left)
             m == Copied(n)
  <2>1. Aside("ReadCopy")
    BY <1>3 DEF ReadCopy, Aside, WaitLabels
  <2>2. Goto(<< "ReadLook" >>, m) \/ Goto(<< "ReadDone" >>, m)
    BY <1>3 DEF ReadCopy
  <2> HIDE DEF n
  <2>3. SameTask(Me, m)
    BY <2>1, AsideIs DEF SameTask, RunFields, Copied, Looked
  <2> HIDE DEF m, Me
  <2> QED
    BY <1>0, <2>1, <2>2, <2>3, AsideIs, Onward
<1>4. ASSUME Aside("ReadDone") \/ Aside("ReadWoken"), ReadUnlock
      PROVE  PlainInv'
  <2>1. \/ Calls("SemPost", "read_lock", Null, << >>, Me)
        \/ Calls("SemPost", "read_lock", Null, << "ReadEnable" >>, Me)
    BY <1>4 DEF ReadUnlock
  <2> HIDE DEF Me
  <2> QED
    BY <1>0, <1>4, <2>1, AsideIs, ConsoleCalls
<1>5. CASE ReadDone
  <2>1. Aside("ReadDone")
    BY <1>5 DEF ReadDone, Aside, WaitLabels
  <2>2. \/ ReadUnlock
        \/ Calls("FlagPend", "uart", UartFlags("READ_RDY"), << "ReadWoken" >>, Me)
    BY <1>5 DEF ReadDone
  <2> HIDE DEF Me
  <2> QED
    BY <1>0, <1>4, <2>1, <2>2, AsideIs, ConsoleCalls DEF own, UartNames
<1>6. CASE ReadWoken
  <2>1. Aside("ReadWoken")
    BY <1>6 DEF ReadWoken, Aside, WaitLabels
  <2>2. ReadUnlock \/ Goto(<< "ReadLook" >>, Me)
    BY <1>6 DEF ReadWoken
  <2> HIDE DEF Me
  <2> QED
    BY <1>0, <1>4, <2>1, <2>2, AsideIs, Onward
<1>7. CASE ReadEnable
  <2>1. Aside("ReadEnable") /\ Goto(<< >>, Me)
    BY <1>7 DEF ReadEnable, Aside, WaitLabels
  <2> QED
    BY <2>1, AsideIs, Ended0
<1> QED
  BY <1>1, <1>2, <1>3, <1>5, <1>6, <1>7

-----------------------------------------------------------------------------
(* The steps that a plain program's tasks take.                            *)

(* A plain program neither deletes, nor has mutexes, nor creates tasks or  *)
(* changes their priorities while it runs.                                 *)
LEMMA NoOthers ==
  ASSUME Stepping,
         \/ Forget \/ SemDel \/ MboxDel \/ QDel \/ FlagDel
         \/ MutexCreate \/ MutexAccept \/ MutexPend \/ MutexReturn \/ MutexPost \/ MutexDel
         \/ TaskCreate \/ TaskTake \/ TaskUndo \/ TaskLink \/ TaskDel \/ TaskDeleted
         \/ TaskObeys \/ TaskChangePrio
  PROVE  FALSE
<1> DEFINE others == {"Forget", "SemDel", "MboxDel", "QDel", "FlagDel", "MutexCreate",
                      "MutexAccept", "MutexPend", "MutexPended", "MutexPost", "MutexDel",
                      "TaskCreate", "TCBInitTake", "TaskUnreserve", "TCBInitLink",
                      "TaskDel", "TaskDelEnd", "TaskObeys", "TaskChangePrio"}
<1>1. \A l \in others : l \notin Labels /\ l # "OS_Sched"
  BY DEF Labels, PlainOps, CreateOps, EventOps, FlagOps, LibOps, IoOps, WaitLabels, Conts
<1>2. \E l \in others : At(l)
  BY DEF Forget, SemDel, MboxDel, QDel, FlagDel, MutexCreate, MutexAccept, MutexPend,
         MutexReturn, MutexPost, MutexDel, TaskCreate, TaskTake, TaskUndo, TaskLink,
         TaskDel, TaskDeleted, TaskObeys, TaskChangePrio
<1> HIDE DEF others
<1> QED
  BY <1>1, <1>2, CallerIs

(* A call that passes its checks has what HeadOK says.                     *)
LEMMA PassesIs ==
  ASSUME Stepping, NEW c \in Me.menu, Sensible(c), Passes(c),
         NEW m, m.obj = c.obj, m.ev = Handle(c), m.arg = Message(c), m.hand = Me.hand,
         m.menu = Me.menu
  PROVE  /\ HeadOK(prog, os, m, c.op) /\ Backed(prog, c.op) /\ c.op \in PlainOps
         /\ c.op \in Waiters => os.lock = 0
<1>1. /\ Plain(prog) /\ Sound(os) /\ Cur \in Tcb /\ HandlesOK
      /\ Me.menu \subseteq CallsOf(prog) /\ Me.hand \subseteq Block
  BY StepperIs, PlainIs DEF Stepping, ThreadOK
<1>2. c \in CallsOf(prog) /\ CallPlain(prog, c)
  BY <1>1 DEF Plain
<1>3. c.op \in PlainOps /\ c.op \notin {"QCreateRing", "LibQuery", "LibTest"}
  BY <1>2 DEF CallPlain, PlainOps, CreateOps, EventOps, FlagOps, LibOps, IoOps
<1>4. \A ops : c.op \in ops => Uses(prog, ops)
  BY <1>2 DEF Uses
<1>5. c.op \in Waiters => os.lock = 0
  BY DEF Sensible, Waits, MayWait, Waiters
<1>6. Backed(prog, c.op)
  <2>1. c.op \in FdLabels => c.op \in {"Open", "Ioctl"}
    BY <1>3 DEF FdLabels, PlainOps, CreateOps, EventOps, FlagOps, LibOps, IoOps
  <2>2. c.op \in ConsoleLabels => c.op \in {"Read", "Write"}
    BY <1>3 DEF ConsoleLabels, PlainOps, CreateOps, EventOps, FlagOps, LibOps, IoOps
  <2>3. c.op \in LibLabels => c.op = "LibLock"
    BY <1>3 DEF LibLabels, PlainOps, CreateOps, EventOps, FlagOps, LibOps, IoOps
  <2>4. c.op \in {"Open", "Ioctl", "Read", "Write", "LibLock"} => Uses(prog, Indirect)
    BY <1>4 DEF Indirect
  <2> QED
    BY <1>2, <2>1, <2>2, <2>3, <2>4 DEF CallPlain, Backed
<1>7. ArgOK(c.op, m.arg)
  <2>1. CASE c.op \in {"MboxPost", "QPost", "QPostFront"} /\ c.arg # Notice
    <3>1. Me.hand # {}
      BY <2>1 DEF Sensible
    <3>2. m.arg \in Me.hand
      BY <2>1, <3>1 DEF Message
    <3>3. m.arg \in Int
      BY <1>1, <3>2, CoreAssumption DEF Block
    <3> QED
      BY <2>1, <3>3 DEF ArgOK
  <2>2. CASE ~(c.op \in {"MboxPost", "QPost", "QPostFront"} /\ c.arg # Notice)
    BY <1>2, <2>2 DEF Message, CallPlain
  <2> QED
    BY <2>1, <2>2
<1>8. c.op \in EventOps => m.ev \in Ecb /\ os.event[m.ev].type = TypeFor(c.op)
  <2> SUFFICES ASSUME c.op \in EventOps
               PROVE  m.ev \in Ecb /\ os.event[m.ev].type = TypeFor(c.op)
    OBVIOUS
  <2>1. TypeFor(c.op) \in EventTypes
    BY DEF EventOps, TypeFor, EventTypes
  <2>2. c.op # "PendMulti" /\ c.op \in EventCalls
    BY DEF EventOps, EventCalls
  <2>3. m.ev = obj[c.obj]
    BY <2>2 DEF Handle
  <2>4. obj[c.obj] # Null /\ TypeOfObject(TypeFor(c.op), obj[c.obj]) = TypeFor(c.op)
    BY <2>1 DEF Passes, NoName, EventTypes
  <2>5. obj[c.obj] \in Ecb
    BY <1>1, <1>2, <2>2, <2>4 DEF HandlesOK, CallPlain
  <2> QED
    BY <2>1, <2>3, <2>4, <2>5 DEF TypeOfObject, EventTypes
<1>9. c.op \in FlagOps => m.ev \in Fgp /\ os.flag[m.ev].type = "FLAG"
  <2> SUFFICES ASSUME c.op \in FlagOps
               PROVE  m.ev \in Fgp /\ os.flag[m.ev].type = "FLAG"
    OBVIOUS
  <2>1. TypeFor(c.op) = "FLAG"
    BY DEF FlagOps, TypeFor
  <2>2. c.op # "PendMulti" /\ c.op \in GroupCalls
    BY DEF FlagOps, GroupCalls
  <2>3. m.ev = obj[c.obj]
    BY <2>2 DEF Handle
  <2>4. obj[c.obj] # Null /\ TypeOfObject(TypeFor(c.op), obj[c.obj]) = TypeFor(c.op)
    BY <2>1 DEF Passes, NoName
  <2>5. c.obj \in GroupNames(prog)
    BY <1>2, <2>2 DEF GroupNames
  <2>6. obj[c.obj] \in Fgp
    BY <1>1, <1>2, <2>4, <2>5 DEF HandlesOK, CallPlain
  <2> QED
    BY <2>1, <2>3, <2>4, <2>6 DEF TypeOfObject
<1>10. c.op = "PendMulti" =>
         /\ Uses(prog, {c.op}) /\ m.ev \subseteq Ecb /\ m.ev # {}
         /\ \A e \in m.ev : os.event[e].type \in EventTypes
  <2> SUFFICES ASSUME c.op = "PendMulti"
               PROVE  /\ Uses(prog, {c.op}) /\ m.ev \subseteq Ecb /\ m.ev # {}
                      /\ \A e \in m.ev : os.event[e].type \in EventTypes
    OBVIOUS
  <2>1. m.ev = {obj[n] : n \in c.arg.objs}
    BY DEF Handle
  <2>2. c.arg.objs \subseteq Names(prog) \ GroupNames(prog) /\ c.arg.objs # {}
    BY <1>2 DEF CallPlain
  <2>3. \A n \in c.arg.objs : obj[n] # Null /\ os.event[obj[n]].type \in EventTypes
    BY DEF Passes, EventTypes
  <2>4. \A n \in c.arg.objs : obj[n] \in Ecb
    BY <1>1, <2>2, <2>3 DEF HandlesOK
  <2> QED
    BY <1>4, <2>1, <2>2, <2>3, <2>4
<1>11. c.op \in CreateOps =>
         /\ Declares(prog, m.obj, "NONE")
         /\ m.obj \in GroupNames(prog) <=> c.op = "FlagCreate"
  <2>1. c.op \in CreateOps => c.op \in EventCalls \/ c.op = "FlagCreate"
    BY DEF EventCalls
  <2>2. c.op = "FlagCreate" => c.obj \in GroupNames(prog)
    BY <1>2 DEF GroupNames, GroupCalls
  <2>3. c.op \in EventCalls => c.obj \notin GroupNames(prog) /\ c.op # "FlagCreate"
    BY <1>2 DEF CallPlain, EventCalls, CreateOps, EventOps
  <2> QED
    BY <1>2, <2>1, <2>2, <2>3 DEF CallPlain
<1>12. /\ c.op = "TaskSuspend" => Uses(prog, {c.op}) /\ m.arg.prio # IdlePrio
       /\ c.op = "SchedLock" => Uses(prog, {c.op})
       /\ c.op \in {"LibLock", "LibUnlock"} =>
            m.obj \in Libraries /\ Declares(prog, m.obj, "SEM")
       /\ c.op = "MemPut" => m.hand # {}
       /\ c.op \in {"MboxPostOpt", "QPostOpt"} =>
            \E d \in m.menu : d.op = c.op /\ d.arg = m.arg
  <2>1. c.op = "TaskSuspend" => m.arg = c.arg /\ c.arg.prio # IdlePrio
    BY DEF Message, Passes
  <2>2. c.op \in {"LibLock", "LibUnlock"} =>
          m.obj \in Libraries /\ Declares(prog, m.obj, "SEM")
    BY <1>2 DEF CallPlain, LibOps
  <2>3. c.op = "MemPut" => m.hand # {}
    BY DEF Sensible
  <2>4. c.op \in {"MboxPostOpt", "QPostOpt"} => m.arg = c.arg
    BY DEF Message
  <2> QED
    BY <1>4, <2>1, <2>2, <2>3, <2>4
<1>13. HeadOK(prog, os, m, c.op)
  BY ONLY <1>3, <1>7, <1>8, <1>9, <1>10, <1>11, <1>12 DEF HeadOK
<1> QED
  BY <1>3, <1>5, <1>6, <1>13

LEMMA ApplySteps ==
  ASSUME Stepping, Apply
  PROVE  PlainInv'
<1>1. /\ Me.pc = << >> /\ UNCHANGED << os, obj, prog, boot >> /\ ~At("OS_Sched")
  BY DEF Apply, At, Stepping
<1>2. PICK c \in Me.menu : \E fd \in Descriptors(c) :
        /\ Sensible(c) /\ Passes(c)
        /\ run' = [run EXCEPT ![Cur] =
             [@ EXCEPT !.pc = << c.op >>, !.obj = c.obj, !.ev = Handle(c),
                       !.arg = Message(c), !.io.fd = fd]]
  BY DEF Apply
<1>3. PICK fd \in Descriptors(c) :
        run' = [run EXCEPT ![Cur] =
             [@ EXCEPT !.pc = << c.op >>, !.obj = c.obj, !.ev = Handle(c),
                       !.arg = Message(c), !.io.fd = fd]]
  BY <1>2
<1> DEFINE m == [Me EXCEPT !.pc = << c.op >>, !.obj = c.obj, !.ev = Handle(c),
                           !.arg = Message(c), !.io.fd = fd]
<1>4. run' = [run EXCEPT ![Cur] = m]
  BY <1>3 DEF Me
<1>5. /\ Sound(os) /\ Plain(prog) /\ Cur \in os.list /\ Cur \in Tcb
      /\ os.prioCur = os.tcb[Cur].prio /\ ThreadOK(prog, os, Me)
      /\ TaskOK(os, Cur, WaitOf(Me), Me.ev)
  BY StepperIs
<1>6. DOMAIN Me = RunFields
  BY <1>5 DEF ThreadOK
<1>7. /\ DOMAIN m = RunFields /\ m.pc = << c.op >> /\ m.obj = c.obj /\ m.ev = Handle(c)
      /\ m.arg = Message(c) /\ m.hand = Me.hand /\ m.menu = Me.menu
  BY <1>6 DEF RunFields
<1> HIDE DEF m
<1>8. /\ HeadOK(prog, os, m, c.op) /\ Backed(prog, c.op) /\ c.op \in PlainOps
      /\ c.op \in Waiters => os.lock = 0
  <2> HIDE DEF Me
  <2> QED
    BY <1>2, <1>7, PassesIs
<1>9. c.op \in Labels \ (WaitLabels \cup {"OS_Sched", "QCreateRing"})
  BY <1>8 DEF Labels, WaitLabels, PlainOps, CreateOps, EventOps, FlagOps, LibOps, IoOps
<1>10. /\ m.pc \in Seq(Labels) /\ Len(m.pc) = 1 /\ m.pc # << >> /\ Head(m.pc) = c.op
       /\ m.pc[1] = c.op /\ \A i \in DOMAIN m.pc : m.pc[i] = c.op
  BY <1>7, <1>9
<1>11. StackOK(m.pc)
  BY <1>10 DEF StackOK
<1>12. WaitOf(m) = "none" /\ WaitOf(Me) = "none"
  <2>1. WaitOf(m) = NextWait(m.pc)
    BY <1>9, <1>10, <1>11, WaitOfIs
  <2>2. ~(Len(m.pc) > 1)
    BY <1>10
  <2>3. NextWait(m.pc) = "none"
    BY ONLY <2>2 DEF NextWait
  <2>4. StackOK(Me.pc)
    BY <1>5 DEF ThreadOK
  <2>5. WaitOf(Me) = "none"
    BY <1>1, <2>4, WaitOfIs
  <2> QED
    BY <2>1, <2>3, <2>5
<1>13. ThreadOK(prog, os', m)
  <2>1. Me.menu \subseteq CallsOf(prog) /\ Me.hand \subseteq Block
    BY <1>5 DEF ThreadOK
  <2>2. \A i \in DOMAIN m.pc : Backed(prog, m.pc[i])
    BY ONLY <1>8, <1>10
  <2>3. HeadOK(prog, os', m, Head(m.pc))
    BY <1>1, <1>8, <1>10
  <2> QED
    BY <1>7, <1>11, <1>12, <2>1, <2>2, <2>3 DEF ThreadOK
<1>14. Common(os, os') /\ Undisturbed(os, os', os.list)
  BY <1>1, <1>5, SoundCommon
<1>15. PICK E : E = {}
  OBVIOUS
<1>16. Spares(os, os', E) /\ \A e \in E : At("QCreateRing") /\ e = Me.loc
  BY <1>1, <1>5, <1>15, SoundCommon
<1>17. HandlesOK'
  <2>1. HandlesOK
    BY PlainIs DEF Stepping
  <2> QED
    BY <1>1, <1>14, <2>1, HandlesKept
<1>18. \A u \in os.list \ {Cur} : TaskOK(os', u, WaitOf(run[u]), run[u].ev)
  <2>1. PlainInv
    BY DEF Stepping
  <2> QED
    BY <1>14, <2>1, OthersWait
<1>19. TaskOK(os', Cur, WaitOf(m), m.ev)
  BY <1>1, <1>5, <1>12, TaskNone
<1>20. Keeps(m) /\ NothingNew(m)
  <2>1. IsAt(m, Waiters) => os.lock = 0
    BY <1>8, <1>10 DEF IsAt
  <2> QED
    BY <1>1, <1>4, <1>7, <1>14, <2>1 DEF Keeps, NothingNew, Cur
<1>21. SchedOK' /\ HighestRuns'
  BY <1>1, <1>20, Scheduled
<1>22. StepsTo(m)
  BY <1>1, <1>4, <1>14 DEF StepsTo, Stepping, Running
<1>23. IsAt(m, {"QCreateRing"}) => ~Limbo(os, m.loc)
  BY <1>9, <1>10 DEF IsAt
<1> HIDE DEF Me
<1> QED
  BY <1>13, <1>16, <1>17, <1>18, <1>19, <1>21, <1>22, <1>23, RunnerSteps

LEMMA StepKeepsProgram ==
  ASSUME Step
  PROVE  UNCHANGED prog
<1> USE DEF Quietly, Leave, Creates
<1>1. Apply \/ Forget \/ Sched => UNCHANGED prog
  BY DEF Apply, Forget, Sched
<1>2. Locks => UNCHANGED prog
  BY DEF Locks, SemCreate, SemAccept, SemPend, SemReturn, SemPost, SemAbort, SemSet,
         SemDel, MutexCreate, MutexAccept, MutexPend, MutexReturn, MutexPost, MutexDel
<1>3. Messaging => UNCHANGED prog
  BY DEF Messaging, MboxCreate, MboxAccept, MboxPend, MboxReturn, MboxPost, MboxPostOpt,
         MboxAbort, MboxDel, QCreate, QCreated, QAccept, QPend, QReturn, QPost,
         QPostFront, QPostOpt, QAbort, QDel, QFlush, MemGet, MemPut, PendMulti,
         MultiReturn
<1>4. Flags => UNCHANGED prog
  BY DEF Flags, FlagCreate, FlagAccept, FlagPend, FlagReturn, FlagPost, FlagDel
<1>5. Tasks => UNCHANGED prog
  BY DEF Tasks, TaskCreate, TaskTake, TaskUndo, TaskLink, TaskDel, TaskDeleted,
         TaskDelReq, TaskObeys, TaskChangePrio, TaskSuspend, TaskResume, TimeDly,
         TimeDlyResume, SchedLock, SchedUnlock
<1>6. Library \/ FileCalls => UNCHANGED prog
  BY DEF Library, LibLock, LibQuery, LibNests, LibWaits, LibGot, LibUnlock, FileCalls,
         Open, GetFd, GotFd, OpenFd, FileLocked, Close, ReleaseFd, Ioctl, FdLock, Fcntl
<1>7. Console => UNCHANGED prog
  BY DEF Console, WriteBegin, WriteLook, WriteCopy, WriteStart, WriteWoken, ReadBegin,
         ReadLook, ReadCopy, ReadDone, ReadWoken, ReadEnable
<1> QED
  BY <1>1, <1>2, <1>3, <1>4, <1>5, <1>6, <1>7 DEF Step

LEMMA StepsAre ==
  ASSUME PlainInv, Running, Step, UNCHANGED boot
  PROVE  Stepping
<1>1. UNCHANGED prog
  BY StepKeepsProgram
<1>2. Me.pc # << >> \/ Me.menu # {}
  <2> USE DEF At
  <2>1. Apply \/ Forget \/ Sched => Me.pc # << >> \/ Me.menu # {}
    BY DEF Apply, Forget, Sched
  <2>2. Locks => Me.pc # << >>
    BY DEF Locks, SemCreate, SemAccept, SemPend, SemReturn, SemPost, SemAbort, SemSet,
           SemDel, MutexCreate, MutexAccept, MutexPend, MutexReturn, MutexPost, MutexDel
  <2>3. Messaging => Me.pc # << >>
    BY DEF Messaging, MboxCreate, MboxAccept, MboxPend, MboxReturn, MboxPost, MboxPostOpt,
           MboxAbort, MboxDel, QCreate, QCreated, QAccept, QPend, QReturn, QPost,
           QPostFront, QPostOpt, QAbort, QDel, QFlush, MemGet, MemPut, PendMulti,
           MultiReturn
  <2>4. Flags => Me.pc # << >>
    BY DEF Flags, FlagCreate, FlagAccept, FlagPend, FlagReturn, FlagPost, FlagDel
  <2>5. Tasks => Me.pc # << >>
    BY DEF Tasks, TaskCreate, TaskTake, TaskUndo, TaskLink, TaskDel, TaskDeleted,
           TaskDelReq, TaskObeys, TaskChangePrio, TaskSuspend, TaskResume, TimeDly,
           TimeDlyResume, SchedLock, SchedUnlock
  <2>6. Library \/ FileCalls => Me.pc # << >>
    BY DEF Library, LibLock, LibQuery, LibNests, LibWaits, LibGot, LibUnlock, FileCalls,
           Open, GetFd, GotFd, OpenFd, FileLocked, Close, ReleaseFd, Ioctl, FdLock, Fcntl
  <2>7. Console => Me.pc # << >>
    BY DEF Console, WriteBegin, WriteLook, WriteCopy, WriteStart, WriteWoken, ReadBegin,
           ReadLook, ReadCopy, ReadDone, ReadWoken, ReadEnable
  <2> QED
    BY <2>1, <2>2, <2>3, <2>4, <2>5, <2>6, <2>7 DEF Step
<1> QED
  BY <1>1, <1>2 DEF Stepping

LEMMA StepMaintains ==
  ASSUME PlainInv, Running, Step, UNCHANGED boot
  PROVE  PlainInv'
<1>1. Stepping
  BY StepsAre
<1>2. Apply \/ Forget \/ Sched => PlainInv'
  BY <1>1, ApplySteps, NoOthers, SchedMoves
<1>3. Locks => PlainInv'
  BY <1>1, SemSteps, CreateSteps, NoOthers DEF Locks
<1>4. Messaging => PlainInv'
  BY <1>1, MboxSteps, QSteps, MemSteps, MultiSteps, CreateSteps, NoOthers DEF Messaging
<1>5. Flags => PlainInv'
  BY <1>1, FlagSteps, CreateSteps, NoOthers DEF Flags
<1>6. Tasks => PlainInv'
  BY <1>1, TaskSteps, LockSteps, NoOthers DEF Tasks
<1>7. Library \/ FileCalls \/ Console => PlainInv'
  BY <1>1, LibrarySteps, OpenSteps, FileSteps, WriteSteps, ReadSteps DEF FileCalls, Console
<1> QED
  BY <1>2, <1>3, <1>4, <1>5, <1>6, <1>7 DEF Step

-----------------------------------------------------------------------------
(* Interrupts: the handlers run in the kernel and no task moves.           *)

LEMMA ThreadsStay ==
  ASSUME PlainInv, UNCHANGED << run, prog >>, Common(os, os'), Spares(os, os', {})
  PROVE  ThreadsOK'
<1>1. Sound(os) /\ ThreadsOK
  BY PlainIs
<1>2. /\ Sound(os') /\ os'.list = os.list /\ KeepsTypes(os, os')
      /\ \A t \in Tcb : os'.tcb[t].prio = os.tcb[t].prio
      /\ os.list \subseteq Tcb
  BY <1>1, Fields DEF Common, Sound
<1>3. ASSUME NEW t \in Tcb PROVE ThreadOK(prog, os', run[t])
  <2>1. ThreadOK(prog, os, run[t])
    BY <1>1 DEF ThreadsOK
  <2>2. run[t].pc # << >> /\ Head(run[t].pc) = "QCreateRing" => Limbo(os', run[t].loc)
    BY <2>1 DEF ThreadOK, HeadOK, Spares, Limbo
  <2> QED
    BY <1>2, <2>1, <2>2, ThreadKept
<1>4. \A t \in Tcb : ThreadOK(prog', os', run'[t])
  BY <1>3
<1>5. \A t, u \in Tcb :
        AtOne(t, {"QCreateRing"})' /\ AtOne(u, {"QCreateRing"})'
          /\ run'[t].loc = run'[u].loc => t = u
  BY <1>1 DEF ThreadsOK, AtOne
<1>6. /\ DOMAIN run' = Tcb
      /\ \A t \in Tcb \ os'.list : run'[t].pc = << >>
      /\ \A t \in os'.list : os'.tcb[t].prio = IdlePrio =>
           run'[t].menu = {} /\ run'[t].pc = << >>
  BY <1>1, <1>2 DEF ThreadsOK
<1> QED
  BY <1>4, <1>5, <1>6, Zenon DEF ThreadsOK

LEMMA SystemMoves ==
  ASSUME PlainInv, Running, UNCHANGED << run, obj, prog, boot >>,
         NEW i, Rouses(os, i), os' = OSIntExit(i)
  PROVE  PlainInv'
<1>1. /\ prog \in PlainPrograms /\ Sound(os) /\ HandlesOK /\ BootOK /\ ThreadsOK /\ SchedOK
      /\ \A t \in os.list : TaskOK(os, t, WaitOf(run[t]), run[t].ev)
  BY PlainIs
<1>2. /\ Common(os, i) /\ Spares(os, i, {}) /\ Undisturbed(os, i, os.list)
      /\ i.lock = os.lock /\ i.cur = os.cur /\ i.prioCur = os.prioCur
      /\ Bits(os.rdy) \subseteq Bits(i.rdy)
  BY RousesCommon DEF Rouses
<1>3. /\ os.cur \in os.list /\ os.prioCur = os.tcb[os.cur].prio
      /\ IsReady(os, os.cur) \/ (At("OS_Sched") /\ os.lock = 0)
      /\ os.lock > 0 => ~AtOne(os.cur, Waiters) /\ Uses(prog, {"SchedLock"})
  BY <1>1 DEF SchedOK
<1>4. /\ os.list \subseteq Tcb /\ os.lock \in 0 .. 255
  BY <1>1, Fields DEF Sound
<1>5. /\ Sound(i) /\ i.cur \in i.list /\ i.prioCur = i.tcb[i.cur].prio
  BY <1>2, <1>3, <1>4 DEF Common
<1>6. /\ Switches(i, os') /\ os'.lock = i.lock
      /\ i.lock = 0 => RunsHighest(os')
      /\ i.lock # 0 => os' = i
  BY <1>5, SchedSwitches
<1>7. Common(i, os') /\ Spares(i, os', {}) /\ Undisturbed(i, os', i.list)
  BY <1>6, SwitchesCommon
<1>8. /\ Common(os, os') /\ Spares(os, os', {}) /\ Undisturbed(os, os', os.list)
  <2>1. KeepsTypes(os, os')
    BY <1>2, <1>7 DEF Common, KeepsTypes
  <2>2. Common(os, os')
    BY <1>2, <1>7, <2>1 DEF Common
  <2>3. Spares(os, os', {})
    BY <1>2, <1>7 DEF Spares
  <2>4. Undisturbed(os, os', os.list)
    BY <1>2, <1>7 DEF Undisturbed, Common
  <2> QED
    BY <2>2, <2>3, <2>4
<1>9. ThreadsOK'
  BY <1>8, ThreadsStay
<1>10. HandlesOK'
  BY <1>1, <1>8, HandlesKept
<1>11. \A t \in os'.list : TaskOK(os', t, WaitOf(run'[t]), run'[t].ev)
  <2>1. os'.list = os.list
    BY <1>8 DEF Common
  <2>2. \A u \in os.list : TaskOK(os', u, WaitOf(run[u]), run[u].ev)
    BY <1>8, OthersWait
  <2> QED
    BY <2>1, <2>2
<1>12. SchedOK' <=> (Running' =>
          /\ os'.cur \in os'.list /\ os'.prioCur = os'.tcb[os'.cur].prio
          /\ IsReady(os', os'.cur) \/ (At("OS_Sched")' /\ os'.lock = 0)
          /\ os'.lock > 0 => ~AtOne(os.cur, Waiters)' /\ Uses(prog', {"SchedLock"}))
  BY DEF SchedOK
<1>13. HighestRuns' <=>
          \/ ~Running' \/ os'.lock > 0 \/ At("OS_Sched")' \/ Deferred'
          \/ os'.prioCur # os'.tcb[Cur'].prio
          \/ os'.prioTbl[HighestPrio(os'.rdy)] = Cur'
  BY DEF HighestRuns
<1>14. SchedOK' /\ HighestRuns' /\ os'.cur # Null
  <2>1. CASE os.lock = 0
    <3>1. RunsHighest(os') /\ os'.lock = 0
      BY <1>2, <1>6, <2>1
    <3>2. os'.cur # Null
      <4>1. os'.cur \in Tcb
        BY <1>8, <3>1, Fields DEF Common, Sound, RunsHighest
      <4> QED
        BY <4>1, CoreAssumption DEF Tcb, Null
    <3> QED
      BY <1>12, <1>13, <3>1, <3>2 DEF RunsHighest, Cur
  <2>2. CASE os.lock # 0
    <3>1. os' = i /\ os.lock > 0 /\ os'.lock > 0
      BY <1>2, <1>4, <1>6, <2>2
    <3>2. IsReady(os', os'.cur)
      BY <1>2, <1>3, <1>4, <2>2, <3>1 DEF IsReady, Common
    <3>3. ~AtOne(os.cur, Waiters)' /\ Uses(prog', {"SchedLock"})
      BY <1>2, <1>3, <3>1 DEF AtOne
    <3>4. os'.cur # Null
      BY <1>2, <3>1 DEF Running
    <3> QED
      BY <1>5, <1>12, <1>13, <3>1, <3>2, <3>3, <3>4
  <2> QED
    BY <2>1, <2>2
<1>15. BootOK'
  <2>1. Running' /\ ObjectsMade'
    BY <1>1, <1>14 DEF BootOK, Running, ObjectsMade
  <2>2. boot' \in [object : Nat \ {0}, task : Nat \ {0}]
    BY <1>1 DEF BootOK
  <2> QED
    BY <2>1, <2>2 DEF BootOK
<1>16. PlainInv' <=>
         /\ prog' \in PlainPrograms /\ Sound(os')
         /\ \A t \in os'.list : TaskOK(os', t, WaitOf(run'[t]), run'[t].ev)
         /\ HandlesOK' /\ BootOK' /\ ThreadsOK' /\ SchedOK' /\ HighestRuns'
  BY DEF PlainInv, KernelOK, Sound
<1>17. prog' \in PlainPrograms /\ Sound(os')
  BY <1>1, <1>8 DEF Common
<1> QED
  BY <1>9, <1>10, <1>11, <1>14, <1>15, <1>16, <1>17

LEMMA NothingMoves ==
  ASSUME PlainInv, UNCHANGED << os, run, obj, prog, boot >>
  PROVE  PlainInv'
<1>1. /\ KernelOK' <=> KernelOK
      /\ HandlesOK' <=> HandlesOK
  BY DEF KernelOK, HandlesOK
<1>2. BootOK' <=> BootOK
  BY DEF BootOK, Running, ObjectsMade
<1>3. ThreadsOK' <=> ThreadsOK
  BY DEF ThreadsOK, AtOne
<1>4. SchedOK' <=> SchedOK
  BY DEF SchedOK, Running, At, Me, Cur, AtOne
<1>5. HighestRuns' <=> HighestRuns
  BY DEF HighestRuns, Running, At, Me, Cur, Deferred
<1> QED
  BY <1>1, <1>2, <1>3, <1>4, <1>5 DEF PlainInv

LEMMA RousesFurther ==
  ASSUME NEW k, NEW i, Rouses(k, i), NEW j, Rouses(i, j)
  PROVE  Rouses(k, j)
<1>1. /\ Sound(j) /\ SameParts(k, i) /\ SameParts(i, j) /\ SameRest(k, i) /\ SameRest(i, j)
      /\ Undisturbed(k, i, k.list \ {}) /\ Undisturbed(i, j, i.list \ {})
      /\ Bits(k.rdy) \subseteq Bits(i.rdy) /\ Bits(i.rdy) \subseteq Bits(j.rdy)
  BY DEF Rouses, Orderly
<1>2. SameParts(k, j)
  BY <1>1 DEF SameParts
<1>3. SameRest(k, j)
  BY <1>1 DEF SameRest
<1>4. k.list \ {} = i.list \ {}
  BY <1>1 DEF SameParts
<1>5. Undisturbed(k, j, k.list \ {})
  BY <1>1, <1>4 DEF Undisturbed
<1> QED
  BY <1>1, <1>2, <1>3, <1>5 DEF Rouses, Orderly

LEMMA RousesNone ==
  ASSUME NEW k, Sound(k)
  PROVE  Rouses(k, k)
  BY DEF Rouses, Orderly, SameParts, SameRest, Undisturbed

LEMMA InterruptMoves ==
  ASSUME PlainInv, Running, Interrupt, UNCHANGED boot
  PROVE  PlainInv'
<1>1. UNCHANGED << run, obj, prog, boot >>
  BY DEF Interrupt
<1>2. PICK c \in prog.isr : Passes(c) /\ os' = OSIntExit(HandlerPosts(c).k)
  BY DEF Interrupt
<1>3. /\ Sound(os) /\ Plain(prog) /\ HandlesOK
  BY PlainIs DEF PlainPrograms
<1>4. /\ c.op \in HandlerOps /\ c.obj \in Names(prog) /\ ArgOK(c.op, c.arg)
      /\ c.obj \in GroupNames(prog) <=> c.op = "FlagPost"
  BY <1>3 DEF Plain
<1>5. /\ TypeFor(c.op) # NoName
      /\ c.op = "SemPost" => TypeFor(c.op) = "SEM"
      /\ c.op = "MboxPost" => TypeFor(c.op) = "MBOX"
      /\ c.op = "QPost" => TypeFor(c.op) = "Q"
      /\ c.op = "FlagPost" => TypeFor(c.op) = "FLAG"
  BY <1>4 DEF TypeFor, NoName, HandlerOps
<1>6. /\ obj[c.obj] # Null
      /\ TypeOfObject(TypeFor(c.op), obj[c.obj]) = TypeFor(c.op)
  BY <1>2, <1>5 DEF Passes
<1>7. obj[c.obj] \in IF c.op = "FlagPost" THEN Fgp ELSE Ecb
  BY <1>3, <1>4, <1>6 DEF HandlesOK
<1>8. Notice \in Int
  BY DEF Notice
<1>9. Serves(os, HandlerPosts(c))
  <2>1. CASE c.op = "SemPost"
    <3>1. obj[c.obj] \in Ecb /\ os.event[obj[c.obj]].type = "SEM"
      BY <1>5, <1>6, <1>7, <2>1 DEF TypeOfObject
    <3>2. HandlerPosts(c) = OSSemPost(os, obj[c.obj])
      BY <2>1 DEF HandlerPosts
    <3> QED
      BY <1>3, <3>1, <3>2, SemPostServes
  <2>2. CASE c.op = "MboxPost"
    <3>1. obj[c.obj] \in Ecb /\ os.event[obj[c.obj]].type = "MBOX"
      BY <1>5, <1>6, <1>7, <2>2 DEF TypeOfObject
    <3>2. HandlerPosts(c) = OSMboxPost(os, obj[c.obj], Notice)
      BY <2>2 DEF HandlerPosts
    <3> QED
      BY <1>3, <1>8, <3>1, <3>2, MboxPostServes
  <2>3. CASE c.op = "QPost"
    <3>1. obj[c.obj] \in Ecb /\ os.event[obj[c.obj]].type = "Q"
      BY <1>5, <1>6, <1>7, <2>3 DEF TypeOfObject
    <3>2. HandlerPosts(c) = OSQPost(os, obj[c.obj], Notice)
      BY <2>3 DEF HandlerPosts
    <3> QED
      BY <1>3, <1>8, <3>1, <3>2, QPostServes
  <2>4. CASE c.op = "FlagPost"
    <3>1. obj[c.obj] \in Fgp /\ os.flag[obj[c.obj]].type = "FLAG"
      BY <1>5, <1>6, <1>7, <2>4 DEF TypeOfObject
    <3>2. HandlerPosts(c) = OSFlagPost(os, obj[c.obj], c.arg.flags, c.arg.opt)
      BY <2>4 DEF HandlerPosts
    <3>3. c.arg.flags \in SUBSET FlagNames
      BY <1>4, <2>4 DEF ArgOK
    <3> QED
      BY <1>3, <3>1, <3>2, <3>3, FlagPostServes
  <2> QED
    BY <1>4, <2>1, <2>2, <2>3, <2>4 DEF HandlerOps
<1>10. Rouses(os, HandlerPosts(c).k)
  BY <1>9 DEF Serves
<1> QED
  BY <1>1, <1>2, <1>10, SystemMoves

(* The driver of the UART posts to the group that its device was given.    *)
LEMMA PostFlagsRouses ==
  ASSUME PlainInv, Running, prog.host # {},
         NEW flags \in SUBSET FlagNames, NEW k, Rouses(os, k)
  PROVE  Rouses(os, PostFlags(k, flags))
<1>1. Declares(prog, "uart", "FLAG")
  BY PlainIs DEF PlainPrograms, Plain
<1>2. obj["uart"] \in Fgp /\ os.flag[obj["uart"]].type = "FLAG"
  BY <1>1, DeclaredHandle
<1>3. k.flag[obj["uart"]].type = "FLAG" /\ Sound(k)
  BY <1>2 DEF Rouses, Orderly, SameParts
<1>4. Serves(k, OSFlagPost(k, obj["uart"], flags, "SET"))
  BY <1>2, <1>3, FlagPostServes
<1>5. Rouses(os, OSFlagPost(k, obj["uart"], flags, "SET").k)
  BY <1>4, RousesFurther DEF Serves
<1> QED
  BY <1>5 DEF PostFlags

LEMMA UartFlagNames ==
  ASSUME NEW u
  PROVE  IrqFlags(u) \in SUBSET FlagNames /\ TimeoutFlags(u) \in SUBSET FlagNames
  BY DEF IrqFlags, TimeoutFlags, FlagNames, UartNames

LEMMA IrqHandlerMoves ==
  ASSUME PlainInv, Running, IrqHandler, UNCHANGED boot
  PROVE  PlainInv'
<1>1. UNCHANGED << run, obj, prog, boot >>
  BY DEF IrqHandler
<1> DEFINE k1 == IF UartPending THEN PostFlags(os, IrqFlags(uart)) ELSE os
           u1 == IF UartPending THEN Irq(uart) ELSE uart
<1>2. PICK timer \in BOOLEAN :
        os' = OSIntExit((IF timer THEN TimerIrq(k1, u1)
                         ELSE [k |-> k1, u |-> u1, clock |-> clock]).k)
  BY DEF IrqHandler
<1>3. Rouses(os, k1)
  <2>1. Sound(os)
    BY PlainIs
  <2>2. Rouses(os, os)
    BY <2>1, RousesNone
  <2>3. UartPending => prog.host # {}
    BY DEF UartPending
  <2> QED
    BY <2>2, <2>3, PostFlagsRouses, UartFlagNames
<1> HIDE DEF k1, u1
<1>4. CASE ~timer
  <2>1. os' = OSIntExit(k1)
    BY <1>2, <1>4
  <2> QED
    BY <1>1, <1>3, <2>1, SystemMoves
<1>5. CASE timer
  <2> DEFINE rings == "silent" \in prog.host /\ Fires(clock.alarm, NextTick(clock.now))
             k2 == IF rings THEN PostFlags(k1, TimeoutFlags(u1)) ELSE k1
  <2>1. os' = OSIntExit(OSTimeTick(k2))
    BY <1>2, <1>5 DEF TimerIrq
  <2>2. rings => prog.host # {}
    OBVIOUS
  <2> HIDE DEF rings
  <2>3. Rouses(os, k2)
    BY <1>3, <2>2, PostFlagsRouses, UartFlagNames
  <2> HIDE DEF k2
  <2>4. Sound(k2)
    BY <2>3 DEF Rouses, Orderly
  <2>5. Rouses(os, OSTimeTick(k2))
    BY <2>3, <2>4, TickOrderly, RousesFurther
  <2> QED
    BY <1>1, <2>1, <2>5, SystemMoves
<1> QED
  BY <1>4, <1>5

LEMMA WorksMaintains ==
  ASSUME PlainInv, Works
  PROVE  PlainInv'
<1>1. Running /\ UNCHANGED boot
  BY DEF Works
<1>2. CASE Step
  BY <1>1, <1>2, StepMaintains
<1>3. CASE Interrupt
  BY <1>1, <1>3, InterruptMoves
<1>4. CASE IrqHandler
  BY <1>1, <1>4, IrqHandlerMoves
<1>5. CASE Host
  BY <1>1, <1>5, NothingMoves DEF Host
<1> QED
  BY <1>2, <1>3, <1>4, <1>5 DEF Works

-----------------------------------------------------------------------------
(* The start: the objects and the tasks are made one after the other.      *)

NeededOf(type, types) == IF type \in types THEN 1 ELSE 0

(* What making an object of the type gives.                                *)
MakesObject(k, r, type) ==
    /\ Adds(k, r.k) /\ Spares(k, r.k, {})
    /\ r.loc \in {Null} \cup (IF type = "FLAG" THEN Fgp ELSE Ecb)
    /\ type \in {"MEM", "NONE"} => r.loc = Null
    /\ type = "SEM" /\ k.freeEvent # << >> =>
         r.loc \in Ecb /\ r.k.event[r.loc].type = "SEM"
    /\ type = "FLAG" /\ k.freeFlag # << >> =>
         r.loc \in Fgp /\ r.k.flag[r.loc].type = "FLAG"
    /\ Len(r.k.freeEvent) >= Len(k.freeEvent) - NeededOf(type, EventTypes)
    /\ Len(r.k.freeFlag) >= Len(k.freeFlag) - NeededOf(type, {"FLAG"})

LEMMA MadeIs ==
  ASSUME NEW k, Sound(k), NEW o, o.type \in EventTypes \cup {"FLAG", "MEM", "NONE"},
         o.type = "SEM" => o.arg \in Nat, o.type = "MBOX" => o.arg \in Int,
         o.type = "FLAG" => o.arg \in SUBSET FlagNames
  PROVE  MakesObject(k, Made(k, o), o.type)
<1>0. Len(k.freeEvent) \in Nat /\ Len(k.freeFlag) \in Nat
  BY DEF Sound, Kernel
<1>1. ASSUME NEW r, NEW type \in EventTypes, MakesEvent(k, r, type)
      PROVE  MakesObject(k, r, type)
  <2>1. type # "FLAG" /\ type \notin {"MEM", "NONE"}
    BY DEF EventTypes
  <2> QED
    BY <1>0, <1>1, <2>1 DEF MakesEvent, MakesObject, NeededOf
<1>2. CASE o.type = "SEM"
  BY <1>1, <1>2, SemCreateMakes DEF Made, EventTypes
<1>3. CASE o.type = "MBOX"
  BY <1>1, <1>3, MboxCreateMakes DEF Made, EventTypes
<1>4. CASE o.type = "Q"
  BY <1>1, <1>4, QueueMakes DEF Made, EventTypes
<1>5. CASE o.type = "FLAG"
  <2>1. MakesGroup(k, Made(k, o))
    BY <1>5, FlagCreateMakes DEF Made
  <2>2. "FLAG" \notin EventTypes
    BY DEF EventTypes
  <2> QED
    BY <1>0, <1>5, <2>1, <2>2 DEF MakesGroup, MakesObject, NeededOf
<1>6. CASE o.type = "MEM"
  <2> DEFINE j == OSMemCreate(k)
  <2>1. /\ Adds(k, j) /\ Spares(k, j, {})
        /\ j.freeEvent = k.freeEvent /\ j.freeFlag = k.freeFlag
    BY MemCreateAdds
  <2>2. Made(k, o) = Done(j)
    BY <1>6 DEF Made
  <2>3. Made(k, o).k = j /\ Made(k, o).loc = Null
    BY <2>2 DEF Done
  <2>4. "MEM" \notin EventTypes
    BY DEF EventTypes
  <2> HIDE DEF j
  <2> QED
    BY <1>0, <1>6, <2>1, <2>3, <2>4 DEF MakesObject, NeededOf
<1>7. CASE o.type = "NONE"
  <2>1. Made(k, o).k = k /\ Made(k, o).loc = Null
    BY <1>7 DEF Made, Done
  <2>2. Adds(k, k) /\ Spares(k, k, {})
    BY DEF Adds, SameTasks, KeepsTypes, Undisturbed, Spares
  <2>3. "NONE" \notin EventTypes
    BY DEF EventTypes
  <2> QED
    BY <1>0, <1>7, <2>1, <2>2, <2>3 DEF MakesObject, NeededOf
<1> QED
  BY <1>2, <1>3, <1>4, <1>5, <1>6, <1>7 DEF EventTypes

(* The objects that are still to be made, and are one fewer then.          *)
LEMMA NeedingFewer ==
  ASSUME NEW p, Plain(p), NEW n \in DOMAIN p.objects, NEW types
  PROVE  /\ Cardinality(Needing(p, n, types)) \in Nat
         /\ Cardinality(Needing(p, n, types)) =
              Cardinality(Needing(p, n + 1, types)) + NeededOf(p.objects[n].type, types)
         /\ Cardinality(Needing(p, n + 1, types)) \in Nat
<1>1. p.objects \in Seq({p.objects[i] : i \in DOMAIN p.objects})
  BY DEF Plain, ObjectsPlain
<1>2. DOMAIN p.objects = 1 .. Len(p.objects) /\ Len(p.objects) \in Nat
  BY <1>1
<1>3. IsFiniteSet(DOMAIN p.objects)
  BY <1>2, FS_Interval
<1>4. \A f : IsFiniteSet(Needing(p, f, types))
  BY <1>3, FS_Subset DEF Needing
<1>5. Cardinality(Needing(p, n, types)) \in Nat /\ Cardinality(Needing(p, n + 1, types)) \in Nat
  BY <1>4, FS_CardinalityType
<1>6. Needing(p, n + 1, types) = Needing(p, n, types) \ {n}
  BY <1>2 DEF Needing
<1>7. n \in Needing(p, n, types) <=> p.objects[n].type \in types
  BY <1>2 DEF Needing
<1>8. Cardinality(Needing(p, n, types) \ {n}) =
        IF n \in Needing(p, n, types) THEN Cardinality(Needing(p, n, types)) - 1
        ELSE Cardinality(Needing(p, n, types))
  BY <1>4, FS_RemoveElement
<1> DEFINE a == Cardinality(Needing(p, n, types))
           b == Cardinality(Needing(p, n + 1, types))
<1>9. a \in Nat /\ b \in Nat
  BY <1>5
<1>10. /\ p.objects[n].type \in types => b = a - 1
       /\ p.objects[n].type \notin types => b = a
  BY <1>6, <1>7, <1>8
<1> HIDE DEF a, b
<1>11. a = b + NeededOf(p.objects[n].type, types)
  BY ONLY <1>9, <1>10 DEF NeededOf
<1> QED
  BY <1>9, <1>11 DEF a, b

(* Before the start is over no task is in the middle of anything.          *)
Starting ==
    PlainInv /\ ~Running /\ UNCHANGED prog

LEMMA StarterIs ==
  ASSUME Starting
  PROVE  /\ Sound(os) /\ Plain(prog) /\ prog' \in PlainPrograms
         /\ HandlesOK /\ BootOK /\ ThreadsOK
         /\ os.cur = Null /\ os.lock = 0
         /\ \A t \in Tcb : run[t].pc = << >> /\ WaitOf(run[t]) = "none"
         /\ boot.object \in Nat \ {0} /\ boot.task \in Nat \ {0}
<1>1. /\ Sound(os) /\ prog \in PlainPrograms /\ HandlesOK /\ BootOK /\ ThreadsOK
  BY PlainIs DEF Starting
<1>2. Plain(prog) /\ prog' \in PlainPrograms
  BY <1>1 DEF Starting, PlainPrograms
<1>3. os.cur = Null /\ os.lock = 0 /\ \A t \in Tcb : run[t].pc = << >>
  BY <1>1 DEF Starting, BootOK, Running
<1>4. \A t \in Tcb : StackOK(run[t].pc)
  BY <1>1 DEF ThreadsOK, ThreadOK
<1>5. \A t \in Tcb : WaitOf(run[t]) = "none"
  BY <1>3, <1>4, WaitOfIs
<1> QED
  BY <1>1, <1>2, <1>3, <1>5 DEF BootOK

LEMMA PlainNext ==
  PlainInv' <=>
    /\ prog' \in PlainPrograms /\ Sound(os')
    /\ \A t \in os'.list : TaskOK(os', t, WaitOf(run'[t]), run'[t].ev)
    /\ HandlesOK' /\ BootOK' /\ ThreadsOK' /\ SchedOK' /\ HighestRuns'
  BY DEF PlainInv, KernelOK, Sound

LEMMA MakeObjectMoves ==
  ASSUME Starting, MakeObject
  PROVE  PlainInv'
<1> DEFINE n == boot.object
           o == prog.objects[n]
           r == Made(os, o)
<1>1. /\ Sound(os) /\ Plain(prog) /\ prog' \in PlainPrograms
      /\ HandlesOK /\ BootOK /\ ThreadsOK
      /\ os.cur = Null /\ os.lock = 0
      /\ \A t \in Tcb : run[t].pc = << >> /\ WaitOf(run[t]) = "none"
      /\ n \in Nat \ {0} /\ boot.task \in Nat \ {0}
  BY StarterIs
<1>2. /\ ~ObjectsMade /\ os' = r.k /\ obj' = [obj EXCEPT ![o.name] = r.loc]
      /\ boot' = [boot EXCEPT !.object = @ + 1] /\ UNCHANGED << prog, run >>
  BY DEF MakeObject
<1>3. prog.objects \in Seq({prog.objects[i] : i \in DOMAIN prog.objects})
  BY <1>1 DEF Plain, ObjectsPlain
<1>4. DOMAIN prog.objects = 1 .. Len(prog.objects) /\ Len(prog.objects) \in Nat
  BY <1>3
<1>5. n \in DOMAIN prog.objects
  BY <1>1, <1>2, <1>4 DEF ObjectsMade
<1>6. /\ o.type \in EventTypes \cup {"FLAG", "MEM", "NONE"}
      /\ o.type \in EventTypes => o.name \notin GroupNames(prog)
      /\ o.type = "SEM" => o.arg \in Nat
      /\ o.type = "MBOX" => o.arg \in Int
      /\ o.type = "FLAG" => o.arg \in SUBSET FlagNames
      /\ o.type = "FLAG" => o.name \in GroupNames(prog)
      /\ o.name \in Names(prog)
  BY <1>1, <1>5 DEF Plain, ObjectsPlain, GroupNames, Names
<1>7. MakesObject(os, r, o.type)
  BY <1>1, <1>6, MadeIs
<1> HIDE DEF r
<1>8. boot' = [object |-> n + 1, task |-> boot.task]
  BY <1>1, <1>2 DEF BootOK
<1>9. /\ Adds(os, os') /\ Spares(os, os', {})
  BY <1>2, <1>7 DEF MakesObject
<1>10. /\ Common(os, os') /\ Undisturbed(os, os', os.list)
       /\ os'.lock = 0 /\ os'.cur = Null /\ os'.list = os.list
  BY <1>1, <1>9, AddsCommon DEF Common
<1>11. ~Running' /\ SchedOK' /\ HighestRuns'
  <2>1. ~Running'
    BY <1>10 DEF Running
  <2> QED
    BY <2>1 DEF SchedOK, HighestRuns
<1>12. ThreadsOK'
  BY <1>2, <1>9, <1>10, ThreadsStay DEF Starting
<1>13. \A t \in os'.list : TaskOK(os', t, WaitOf(run'[t]), run'[t].ev)
  <2>1. \A u \in os.list : TaskOK(os', u, WaitOf(run[u]), run[u].ev)
    BY <1>10, OthersWait DEF Starting
  <2> QED
    BY <1>2, <1>10, <2>1
<1>14. ASSUME NEW types
       PROVE  /\ Cardinality(Needing(prog, n, types)) \in Nat
              /\ Cardinality(Needing(prog, n, types)) =
                   Cardinality(Needing(prog, n + 1, types)) + NeededOf(o.type, types)
              /\ Cardinality(Needing(prog, n + 1, types)) \in Nat
  BY <1>1, <1>5, NeedingFewer
<1>15. /\ Cardinality(Needing(prog, n, EventTypes)) <= Len(os.freeEvent)
       /\ Cardinality(Needing(prog, n, {"FLAG"})) <= Len(os.freeFlag)
  BY <1>1 DEF BootOK, Starting
<1>16. /\ Len(os.freeEvent) \in Nat /\ Len(os.freeFlag) \in Nat
       /\ Len(os'.freeEvent) \in Nat /\ Len(os'.freeFlag) \in Nat
  BY <1>1, <1>10 DEF Common, Sound, Kernel
<1>17. /\ Len(os'.freeEvent) >= Len(os.freeEvent) - NeededOf(o.type, EventTypes)
       /\ Len(os'.freeFlag) >= Len(os.freeFlag) - NeededOf(o.type, {"FLAG"})
  BY <1>2, <1>7 DEF MakesObject
<1>18. /\ Cardinality(Needing(prog, n + 1, EventTypes)) <= Len(os'.freeEvent)
       /\ Cardinality(Needing(prog, n + 1, {"FLAG"})) <= Len(os'.freeFlag)
  <2>1. ASSUME NEW a \in Nat, NEW b \in Nat, NEW d \in {0, 1}, NEW f \in Nat, NEW g \in Nat,
               a = b + d, a <= f, g >= f - d
        PROVE  b <= g
    BY ONLY <2>1
  <2>2. \A types : NeededOf(o.type, types) \in {0, 1}
    BY DEF NeededOf
  <2> HIDE DEF n, o
  <2>3. Cardinality(Needing(prog, n + 1, EventTypes)) <= Len(os'.freeEvent)
    BY <1>14, <1>15, <1>16, <1>17, <2>1, <2>2
  <2>4. Cardinality(Needing(prog, n + 1, {"FLAG"})) <= Len(os'.freeFlag)
    BY <1>14, <1>15, <1>16, <1>17, <2>1, <2>2
  <2> QED
    BY <2>3, <2>4
<1>19. BootOK'
  <2>1. boot' \in [object : Nat \ {0}, task : Nat \ {0}]
    BY <1>1, <1>8
  <2>2. /\ \A t \in Tcb : run'[t].pc = << >>
        /\ os'.lock = 0
        /\ Cardinality(Needing(prog', boot'.object, EventTypes)) <= Len(os'.freeEvent)
        /\ Cardinality(Needing(prog', boot'.object, {"FLAG"})) <= Len(os'.freeFlag)
    BY <1>1, <1>2, <1>8, <1>10, <1>18
  <2>3. BootOK' <=>
          /\ boot' \in [object : Nat \ {0}, task : Nat \ {0}]
          /\ Running' => ObjectsMade'
          /\ ~Running' =>
               /\ \A t \in Tcb : run'[t].pc = << >>
               /\ os'.lock = 0
               /\ Cardinality(Needing(prog', boot'.object, EventTypes)) <= Len(os'.freeEvent)
               /\ Cardinality(Needing(prog', boot'.object, {"FLAG"})) <= Len(os'.freeFlag)
    BY DEF BootOK
  <2> QED
    BY <1>11, <2>1, <2>2, <2>3
<1>20. HandlesOK'
  <2>1. DOMAIN obj = Names(prog) /\ DOMAIN obj' = Names(prog)
    BY <1>1, <1>2 DEF HandlesOK
  <2>2. r.loc \in {Null} \cup (IF o.name \in GroupNames(prog) THEN Fgp ELSE Ecb)
    BY <1>6, <1>7 DEF MakesObject, EventTypes
  <2>3. \A m \in Names(prog) :
          obj'[m] \in {Null} \cup (IF m \in GroupNames(prog) THEN Fgp ELSE Ecb)
    BY <1>1, <1>2, <2>1, <2>2 DEF HandlesOK
  <2>4. KeepsTypes(os, os')
    BY <1>10 DEF Common
  <2>5. ASSUME NEW i \in DOMAIN prog.objects, i < n + 1
        PROVE  /\ prog.objects[i].type = "SEM" =>
                    /\ obj'[prog.objects[i].name] \in Ecb
                    /\ os'.event[obj'[prog.objects[i].name]].type = "SEM"
               /\ prog.objects[i].type = "FLAG" =>
                    /\ obj'[prog.objects[i].name] \in Fgp
                    /\ os'.flag[obj'[prog.objects[i].name]].type = "FLAG"
    <3>1. CASE i = n
      <4>1. obj'[o.name] = r.loc
        BY <1>2, <1>6, <2>1
      <4>2. o.type = "SEM" => os.freeEvent # << >>
        <5>1. o.type = "SEM" => NeededOf(o.type, EventTypes) = 1
          BY DEF NeededOf, EventTypes
        <5>2. o.type = "SEM" => Len(os.freeEvent) > 0
          BY <1>14, <1>15, <1>16, <5>1
        <5>3. Len(<< >>) = 0
          OBVIOUS
        <5> QED
          BY <5>2, <5>3
      <4>3. o.type = "FLAG" => os.freeFlag # << >>
        <5>1. o.type = "FLAG" => NeededOf(o.type, {"FLAG"}) = 1
          BY DEF NeededOf
        <5>2. o.type = "FLAG" => Len(os.freeFlag) > 0
          BY <1>14, <1>15, <1>16, <5>1
        <5>3. Len(<< >>) = 0
          OBVIOUS
        <5> QED
          BY <5>2, <5>3
      <4> QED
        BY <1>2, <1>7, <3>1, <4>1, <4>2, <4>3 DEF MakesObject
    <3>2. CASE i # n
      <4>1. i < n
        BY <1>1, <1>4, <2>5, <3>2
      <4>2. prog.objects[i].name # o.name
        BY <1>1, <1>5, <3>2 DEF Plain, ObjectsPlain
      <4>3. prog.objects[i].name \in Names(prog)
        BY DEF Names
      <4>4. obj'[prog.objects[i].name] = obj[prog.objects[i].name]
        BY <1>2, <2>1, <4>2, <4>3
      <4>5. /\ prog.objects[i].type = "SEM" =>
                 /\ obj[prog.objects[i].name] \in Ecb
                 /\ os.event[obj[prog.objects[i].name]].type = "SEM"
            /\ prog.objects[i].type = "FLAG" =>
                 /\ obj[prog.objects[i].name] \in Fgp
                 /\ os.flag[obj[prog.objects[i].name]].type = "FLAG"
        BY <1>1, <4>1 DEF HandlesOK
      <4> QED
        BY <2>4, <4>4, <4>5 DEF KeepsTypes
    <3> QED
      BY <3>1, <3>2
  <2>6. \A i \in DOMAIN prog'.objects : i < boot'.object =>
          LET d == prog'.objects[i] IN
          /\ d.type = "SEM" => obj'[d.name] \in Ecb /\ os'.event[obj'[d.name]].type = "SEM"
          /\ d.type = "FLAG" => obj'[d.name] \in Fgp /\ os'.flag[obj'[d.name]].type = "FLAG"
    BY <1>2, <1>8, <2>5
  <2>7. /\ DOMAIN obj' = Names(prog')
        /\ \A m \in Names(prog') :
             obj'[m] \in {Null} \cup (IF m \in GroupNames(prog') THEN Fgp ELSE Ecb)
    BY <1>2, <2>1, <2>3
  <2> QED
    BY <2>6, <2>7, Zenon DEF HandlesOK
<1>21. Sound(os')
  BY <1>10 DEF Common
<1> QED
  BY <1>1, <1>11, <1>12, <1>13, <1>19, <1>20, <1>21, PlainNext

LEMMA LaunchTaskMoves ==
  ASSUME Starting, LaunchTask
  PROVE  PlainInv'
<1> DEFINE c == prog.tasks[boot.task]
           t == Head(os.freeTcb)
           new == NewRun(c.menu)
<1>1. /\ Sound(os) /\ Plain(prog) /\ prog' \in PlainPrograms
      /\ HandlesOK /\ BootOK /\ ThreadsOK
      /\ os.cur = Null /\ os.lock = 0
      /\ \A u \in Tcb : run[u].pc = << >> /\ WaitOf(run[u]) = "none"
      /\ boot.object \in Nat \ {0} /\ boot.task \in Nat \ {0}
  BY StarterIs
<1>2. /\ ObjectsMade /\ ~TasksMade /\ os' = OSTaskCreateExt(os, c.prio)
      /\ run' = IF CanCreate(os, c.prio) THEN [run EXCEPT ![t] = new] ELSE run
      /\ boot' = [boot EXCEPT !.task = @ + 1] /\ UNCHANGED << obj, prog >>
  BY DEF LaunchTask
<1>3. c.prio \in Prio /\ c.menu \subseteq CallsOf(prog)
  <2>1. prog.tasks \in Seq([prio : Prio, menu : SUBSET CallsOf(prog)])
    BY <1>1 DEF Plain
  <2>2. boot.task \in DOMAIN prog.tasks
    BY <1>1, <1>2, <2>1 DEF TasksMade
  <2>3. prog.tasks[boot.task] \in [prio : Prio, menu : SUBSET CallsOf(prog)]
    <3>1. ASSUME NEW X, NEW s \in Seq(X), NEW i \in DOMAIN s PROVE s[i] \in X
      BY ONLY <3>1
    <3> HIDE DEF c
    <3> QED
      BY ONLY <2>1, <2>2, <3>1
  <2> QED
    BY <2>3
<1>4. boot' = [object |-> boot.object, task |-> boot.task + 1]
  BY <1>1, <1>2 DEF BootOK
<1>5. /\ boot' \in [object : Nat \ {0}, task : Nat \ {0}]
      /\ boot'.object = boot.object
  BY <1>1, <1>4
<1>6. /\ Cardinality(Needing(prog, boot.object, EventTypes)) <= Len(os.freeEvent)
      /\ Cardinality(Needing(prog, boot.object, {"FLAG"})) <= Len(os.freeFlag)
  BY <1>1 DEF BootOK, Starting
<1>7. PlainInv /\ ~Running
  BY DEF Starting
<1>8. BootOK' <=>
          /\ boot' \in [object : Nat \ {0}, task : Nat \ {0}]
          /\ Running' => ObjectsMade'
          /\ ~Running' =>
               /\ \A u \in Tcb : run'[u].pc = << >>
               /\ os'.lock = 0
               /\ Cardinality(Needing(prog', boot'.object, EventTypes)) <= Len(os'.freeEvent)
               /\ Cardinality(Needing(prog', boot'.object, {"FLAG"})) <= Len(os'.freeFlag)
  BY DEF BootOK
<1>9. HandlesOK' <=>
        /\ DOMAIN obj' = Names(prog')
        /\ \A n \in Names(prog') :
             obj'[n] \in {Null} \cup (IF n \in GroupNames(prog') THEN Fgp ELSE Ecb)
        /\ \A i \in DOMAIN prog'.objects : i < boot'.object =>
             LET o == prog'.objects[i] IN
             /\ o.type = "SEM" => obj'[o.name] \in Ecb /\ os'.event[obj'[o.name]].type = "SEM"
             /\ o.type = "FLAG" => obj'[o.name] \in Fgp /\ os'.flag[obj'[o.name]].type = "FLAG"
  BY DEF HandlesOK
<1>10. CASE ~CanCreate(os, c.prio)
  <2>1. os' = os /\ run' = run
    BY <1>2, <1>10 DEF OSTaskCreateExt
  <2>2. /\ Common(os, os') /\ Spares(os, os', {})
    BY <1>1, <2>1, SoundCommon
  <2>3. ThreadsOK'
    BY <1>2, <1>7, <2>1, <2>2, ThreadsStay
  <2>4. HandlesOK'
    BY <1>1, <1>2, <1>5, <1>9, <2>1 DEF HandlesOK
  <2>5. ~Running' /\ SchedOK' /\ HighestRuns'
    <3>1. ~Running'
      BY <1>1, <2>1 DEF Running
    <3> QED
      BY <3>1 DEF SchedOK, HighestRuns
  <2>6. BootOK'
    BY <1>1, <1>2, <1>5, <1>6, <1>8, <2>1, <2>5
  <2>7. \A u \in os'.list : TaskOK(os', u, WaitOf(run'[u]), run'[u].ev)
    BY <1>7, <2>1, PlainIs
  <2> QED
    BY <1>1, <2>1, <2>3, <2>4, <2>5, <2>6, <2>7, PlainNext
<1>11. CASE CanCreate(os, c.prio)
  <2>1. Sound(os') /\ Launches(os, os', t, c.prio)
    BY <1>1, <1>2, <1>3, <1>11, CreateExtLaunches
  <2>2. /\ os'.lock = 0 /\ os'.cur = Null
        /\ os'.event = os.event /\ os'.freeEvent = os.freeEvent
        /\ os'.flag = os.flag /\ os'.freeFlag = os.freeFlag
        /\ t \in Tcb \ os.list /\ os'.list = os.list \cup {t}
        /\ os'.tcb[t].prio = c.prio /\ \A u \in Tcb : u # t => os'.tcb[u] = os.tcb[u]
        /\ WaitsForNothing(os', t) /\ Undisturbed(os, os', os.list)
        /\ os.list \subseteq Tcb
    BY <1>1, <2>1, Fields DEF Launches, Sound
  <2>3. /\ run' = [run EXCEPT ![t] = new] /\ DOMAIN run = Tcb
    BY <1>1, <1>2, <1>11 DEF ThreadsOK
  <2>4. /\ new.pc = << >> /\ new.menu = c.menu /\ new.hand = {} /\ DOMAIN new = RunFields
    BY DEF NewRun, RunFields
  <2> HIDE DEF new, t
  <2>5. /\ DOMAIN run' = Tcb /\ run'[t] = new
        /\ \A u \in Tcb : u # t => run'[u] = run[u]
    BY <2>2, <2>3
  <2>6. StackOK(new.pc) /\ WaitOf(new) = "none"
    <3>1. StackOK(new.pc)
      BY <2>4 DEF StackOK
    <3> QED
      BY <2>4, <3>1, WaitOfIs
  <2>7. \A u \in os'.list : TaskOK(os', u, WaitOf(run'[u]), run'[u].ev)
    <3>1. \A u \in os.list : TaskOK(os', u, WaitOf(run[u]), run[u].ev)
      BY <1>7, <2>2, OthersWait
    <3>2. TaskOK(os', t, WaitOf(new), new.ev)
      BY <2>2, <2>6, TaskNone
    <3> QED
      BY <2>2, <2>5, <3>1, <3>2
  <2>8. ~Running' /\ SchedOK' /\ HighestRuns'
    <3>1. ~Running'
      BY <2>2 DEF Running
    <3> QED
      BY <3>1 DEF SchedOK, HighestRuns
  <2>9. \A u \in Tcb : run'[u].pc = << >>
    BY <1>1, <2>4, <2>5
  <2>10. BootOK'
    BY <1>2, <1>5, <1>6, <1>8, <2>2, <2>8, <2>9
  <2>11. HandlesOK'
    <3>1. /\ DOMAIN obj = Names(prog)
          /\ \A n \in Names(prog) :
               obj[n] \in {Null} \cup (IF n \in GroupNames(prog) THEN Fgp ELSE Ecb)
          /\ \A i \in DOMAIN prog.objects : i < boot.object =>
               LET o == prog.objects[i] IN
               /\ o.type = "SEM" =>
                    obj[o.name] \in Ecb /\ os.event[obj[o.name]].type = "SEM"
               /\ o.type = "FLAG" =>
                    obj[o.name] \in Fgp /\ os.flag[obj[o.name]].type = "FLAG"
      BY <1>1 DEF HandlesOK
    <3>2. /\ obj' = obj /\ prog' = prog /\ boot'.object = boot.object
          /\ os'.event = os.event /\ os'.flag = os.flag
      BY <1>2, <1>5, <2>2
    <3> QED
      BY ONLY <1>9, <3>1, <3>2, Zenon
  <2>12. ThreadsOK'
    <3>1. ThreadOK(prog, os', new)
      <4>1. \A i \in DOMAIN new.pc : Backed(prog, new.pc[i])
        BY <2>4
      <4> QED
        BY <1>3, <2>4, <2>6, <4>1 DEF ThreadOK
    <3>2. ASSUME NEW u \in Tcb PROVE ThreadOK(prog, os', run'[u])
      <4>1. CASE u = t
        BY <2>5, <3>1, <4>1
      <4>2. CASE u # t
        <5>1. ThreadOK(prog, os, run[u]) /\ run[u].pc = << >>
          BY <1>1 DEF ThreadsOK
        <5>2. KeepsTypes(os, os')
          BY <2>2 DEF KeepsTypes
        <5>3. ThreadOK(prog, os', run[u])
          BY <5>1, <5>2, ThreadKept
        <5> QED
          BY <2>5, <4>2, <5>3
      <4> QED
        BY <4>1, <4>2
    <3>3. \A u \in Tcb : ThreadOK(prog', os', run'[u])
      BY <1>2, <3>2
    <3>4. \A u, v \in Tcb :
            AtOne(u, {"QCreateRing"})' /\ AtOne(v, {"QCreateRing"})'
              /\ run'[u].loc = run'[v].loc => u = v
      BY <2>9 DEF AtOne
    <3>5. c.prio # IdlePrio
      BY <1>1, <1>11 DEF CanCreate, Sound, BitsOK
    <3>6. \A u \in os'.list : os'.tcb[u].prio = IdlePrio =>
            run'[u].menu = {} /\ run'[u].pc = << >>
      BY <1>1, <2>2, <2>5, <3>5 DEF ThreadsOK
    <3> QED
      BY <2>5, <2>9, <3>3, <3>4, <3>6, Zenon DEF ThreadsOK
  <2> QED
    BY <1>1, <2>1, <2>7, <2>8, <2>10, <2>11, <2>12, PlainNext
<1> QED
  BY <1>10, <1>11

LEMMA StartMoves ==
  ASSUME Starting, Start
  PROVE  PlainInv'
<1>1. /\ Sound(os) /\ Plain(prog) /\ prog' \in PlainPrograms
      /\ HandlesOK /\ BootOK /\ os.lock = 0 /\ PlainInv
  BY StarterIs DEF Starting
<1>2. /\ ObjectsMade /\ os' = OSStart(os) /\ UNCHANGED << obj, run, prog, boot >>
  BY DEF Start
<1>3. Switches(os, os') /\ os'.lock = 0 /\ RunsHighest(os')
  BY <1>1, <1>2, StartSwitches
<1>4. /\ Common(os, os') /\ Spares(os, os', {}) /\ Undisturbed(os, os', os.list)
      /\ Sound(os') /\ os'.list = os.list
  BY <1>3, SwitchesCommon DEF Common
<1>5. ThreadsOK'
  BY <1>1, <1>2, <1>4, ThreadsStay
<1>6. HandlesOK'
  BY <1>1, <1>2, <1>4, HandlesKept
<1>7. \A u \in os'.list : TaskOK(os', u, WaitOf(run'[u]), run'[u].ev)
  <2>1. \A u \in os.list : TaskOK(os', u, WaitOf(run[u]), run[u].ev)
    BY <1>1, <1>4, OthersWait
  <2> QED
    BY <1>2, <1>4, <2>1
<1>8. os'.cur # Null
  <2>1. os'.cur \in Tcb
    BY <1>3, <1>4, Fields DEF Sound, RunsHighest
  <2> QED
    BY <2>1, CoreAssumption DEF Tcb, Null
<1>9. SchedOK'
  <2>1. SchedOK' <=> (Running' =>
          /\ os'.cur \in os'.list /\ os'.prioCur = os'.tcb[os'.cur].prio
          /\ IsReady(os', os'.cur) \/ (At("OS_Sched")' /\ os'.lock = 0)
          /\ os'.lock > 0 => ~AtOne(os.cur, Waiters)' /\ Uses(prog', {"SchedLock"}))
    BY DEF SchedOK
  <2> QED
    BY <1>3, <2>1 DEF RunsHighest
<1>10. HighestRuns'
  <2>1. HighestRuns' <=>
          \/ ~Running' \/ os'.lock > 0 \/ At("OS_Sched")' \/ Deferred'
          \/ os'.prioCur # os'.tcb[Cur'].prio
          \/ os'.prioTbl[HighestPrio(os'.rdy)] = Cur'
    BY DEF HighestRuns
  <2> QED
    BY <1>3, <2>1 DEF RunsHighest, Cur
<1>11. BootOK'
  <2>1. Running' /\ ObjectsMade'
    BY <1>2, <1>8 DEF Running, ObjectsMade
  <2>2. boot' \in [object : Nat \ {0}, task : Nat \ {0}]
    BY <1>1, <1>2 DEF BootOK
  <2> QED
    BY <2>1, <2>2 DEF BootOK
<1> QED
  BY <1>1, <1>4, <1>5, <1>6, <1>7, <1>9, <1>10, <1>11, PlainNext

LEMMA BootMaintains ==
  ASSUME PlainInv, Boot
  PROVE  PlainInv'
<1>1. Starting
  BY DEF Boot, Starting, MakeObject, LaunchTask, Start
<1> QED
  BY <1>1, MakeObjectMoves, LaunchTaskMoves, StartMoves DEF Boot

(* OSInit leaves the pools full, the idle and the statistics task, and     *)
(* nobody in the middle of anything.                                       *)
LEMMA InitPlain ==
  ASSUME Init, prog \in PlainPrograms
  PROVE  PlainInv
<1>1. /\ prog \in PlainPrograms /\ os = OSInit /\ run = [t \in Tcb |-> NewRun({})]
      /\ obj = [n \in Names(prog) |-> Null] /\ boot = [object |-> 1, task |-> 1]
  BY DEF Init
<1>2. Plain(prog)
  BY <1>1 DEF PlainPrograms
<1>3. /\ Sound(os) /\ os.lock = 0 /\ os.cur = Null
      /\ \A t \in os.list : WaitsForNothing(os, t)
      /\ Len(os.freeEvent) = MaxEvents /\ Len(os.freeFlag) = MaxFlags
      /\ os.list \subseteq Tcb
  BY <1>1, InitSound, Fields DEF Sound
<1> DEFINE new == NewRun({})
<1>4. /\ new.pc = << >> /\ new.menu = {} /\ new.hand = {} /\ DOMAIN new = RunFields
  BY DEF NewRun, RunFields
<1> HIDE DEF new
<1>5. DOMAIN run = Tcb /\ \A t \in Tcb : run[t] = new
  BY <1>1 DEF new
<1>6. StackOK(new.pc) /\ WaitOf(new) = "none"
  <2>1. StackOK(new.pc)
    BY <1>4 DEF StackOK
  <2> QED
    BY <1>4, <2>1, WaitOfIs
<1>7. \A t \in os.list : TaskOK(os, t, WaitOf(run[t]), run[t].ev)
  BY <1>3, <1>5, <1>6, TaskNone
<1>8. HandlesOK
  <2>1. DOMAIN obj = Names(prog) /\ \A n \in Names(prog) : obj[n] = Null
    BY <1>1
  <2>2. \A i \in DOMAIN prog.objects : ~(i < boot.object)
    <3>1. prog.objects \in Seq({prog.objects[i] : i \in DOMAIN prog.objects})
      BY <1>2 DEF Plain, ObjectsPlain
    <3>2. DOMAIN prog.objects = 1 .. Len(prog.objects)
      BY <3>1
    <3> QED
      BY <1>1, <3>2
  <2> QED
    BY <2>1, <2>2 DEF HandlesOK
<1>9. BootOK
  <2>1. boot \in [object : Nat \ {0}, task : Nat \ {0}] /\ boot.object = 1
    BY <1>1
  <2>2. /\ Cardinality(Needing(prog, 1, EventTypes)) <= MaxEvents
        /\ Cardinality(Needing(prog, 1, {"FLAG"})) <= MaxFlags
    BY <1>2 DEF Plain, ObjectsPlain
  <2>3. ~Running
    BY <1>3 DEF Running
  <2> QED
    BY <1>3, <1>4, <1>5, <2>1, <2>2, <2>3 DEF BootOK
<1>10. ThreadsOK
  <2>1. ThreadOK(prog, os, new)
    <3>1. \A i \in DOMAIN new.pc : Backed(prog, new.pc[i])
      BY <1>4
    <3> QED
      BY <1>4, <1>6, <3>1 DEF ThreadOK
  <2> QED
    BY <1>3, <1>4, <1>5, <2>1 DEF ThreadsOK, AtOne
<1>11. SchedOK /\ HighestRuns
  BY <1>3 DEF SchedOK, HighestRuns, Running
<1> QED
  BY <1>1, <1>3, <1>7, <1>8, <1>9, <1>10, <1>11, PlainIs

-----------------------------------------------------------------------------
(* What the invariant says.                                                *)

LEMMA WaitOfRange ==
  ASSUME NEW me
  PROVE  WaitOf(me) \in WaitLabels \cup {"none"}
  BY DEF WaitOf

LEMMA WaitKinds ==
  ASSUME PlainInv, NEW t \in os.list
  PROVE  \/ WaitsForNothing(os, t)
         \/ \E type \in EventTypes, e \in Ecb : WaitsForOne(os, t, type, e)
         \/ \E g \in Fgp : WaitsForFlags(os, t, g)
         \/ \E S \in SUBSET Ecb : WaitsForAny(os, t, S)
<1> DEFINE l == WaitOf(run[t])
           ev == run[t].ev
<1>1. TaskOK(os, t, l, ev)
  BY PlainIs
<1>2. l \in WaitLabels \cup {"none"}
  BY WaitOfRange
<1> HIDE DEF l, ev
<1>3. CASE l = "none"
  BY <1>1, <1>3 DEF TaskOK
<1>4. CASE l \in {"SemPended", "MboxPended", "QPended"}
  <2>1. WaitsForOne(os, t, KindOf(l), ev)
    BY <1>1, <1>4 DEF TaskOK
  <2>2. KindOf(l) \in EventTypes
    BY <1>4 DEF KindOf, EventTypes
  <2>3. ev \in Ecb
    BY <2>1 DEF WaitsForOne
  <2> QED
    BY <2>1, <2>2, <2>3
<1>5. CASE l = "FlagPended"
  <2>1. WaitsForFlags(os, t, ev)
    BY <1>1, <1>5 DEF TaskOK
  <2>2. ev \in Fgp
    BY <2>1 DEF WaitsForFlags
  <2> QED
    BY <2>1, <2>2
<1>6. CASE l = "MultiPended"
  <2>1. WaitsForAny(os, t, ev)
    BY <1>1, <1>6 DEF TaskOK
  <2>2. ev \in SUBSET Ecb
    BY <2>1 DEF WaitsForAny
  <2> QED
    BY <2>1, <2>2
<1> QED
  BY <1>2, <1>3, <1>4, <1>5, <1>6 DEF WaitLabels

LEMMA NullIsNone == Null \notin Ecb /\ Null \notin Fgp /\ Null \notin Tcb
  BY CoreAssumption DEF Null, Ecb, Fgp, Tcb

LEMMA PlainWaitLists ==
  ASSUME PlainInv
  PROVE  WaitListTrue
<1>1. SUFFICES ASSUME NEW e \in Ecb, NEW p \in Bits(os.event[e].wait),
                      NEW t, t = os.prioTbl[p]
               PROVE  /\ e \in Live /\ t \in os.list /\ os.tcb[t].prio = p
                      /\ e \in WaitsOn(t)
                      /\ os.event[e].type \in os.tcb[t].stat \/ os.tcb[t].pend = "TO"
  BY DEF WaitListTrue
<1>2. Sound(os)
  BY PlainIs
<1>3. p \in Prio
  BY <1>1, <1>2, BitsTest DEF Sound, BitsOK
<1>4. os.prioTbl[p] # Null
  BY <1>1, <1>2 DEF Sound, BitsOK
<1>5. t \in os.list /\ os.tcb[t].prio = p
  BY <1>1, <1>2, <1>3, <1>4 DEF Sound, PriosOK
<1>6. e \in Live
  <2>1. os.event[e].type = "UNUSED" => Bits(os.event[e].wait) = {}
    BY <1>2 DEF Sound, PoolsOK
  <2> QED
    BY <1>1, <2>1 DEF Live
<1>7. e \in Lists(os, t)
  BY <1>1, <1>5 DEF Lists
<1>8. e \in WaitsOn(t) /\ (os.event[e].type \in os.tcb[t].stat \/ os.tcb[t].pend = "TO")
  <2>1. CASE WaitsForNothing(os, t)
    BY <1>7, <2>1 DEF WaitsForNothing
  <2>2. ASSUME NEW type, NEW f, WaitsForOne(os, t, type, f)
        PROVE  /\ e \in WaitsOn(t)
               /\ os.event[e].type \in os.tcb[t].stat \/ os.tcb[t].pend = "TO"
    <3>1. e = f /\ (type \in os.tcb[t].stat \/ os.tcb[t].pend = "TO")
      BY <1>7, <2>2 DEF WaitsForOne
    <3> QED
      BY <2>2, <3>1, NullIsNone DEF WaitsForOne, WaitsOn
  <2>3. ASSUME NEW g, WaitsForFlags(os, t, g) PROVE FALSE
    BY <1>7, <2>3 DEF WaitsForFlags
  <2>4. ASSUME NEW S, WaitsForAny(os, t, S)
        PROVE  /\ e \in WaitsOn(t)
               /\ os.event[e].type \in os.tcb[t].stat \/ os.tcb[t].pend = "TO"
    <3>1. os.tcb[t].event = Null /\ Lists(os, t) = S /\ os.tcb[t].pend # "ABORT"
      BY <1>7, <2>4 DEF WaitsForAny
    <3>2. e \in S /\ os.tcb[t].multi = S
      BY <1>7, <2>4, <3>1 DEF WaitsForAny
    <3>3. os.tcb[t].pend \in {"OK", "TO", "ABORT"}
      BY <1>2, <1>5, Fields DEF Sound
    <3>4. os.tcb[t].pend = "OK" => os.event[e].type \in os.tcb[t].stat
      BY <2>4, <3>1, <3>2 DEF WaitsForAny
    <3> QED
      BY <3>1, <3>2, <3>3, <3>4, NullIsNone DEF WaitsOn
  <2> QED
    BY <1>5, <2>1, <2>2, <2>3, <2>4, WaitKinds
<1> QED
  BY <1>5, <1>6, <1>8

LEMMA PlainLosesNobody ==
  ASSUME PlainInv
  PROVE  NoTaskLost
<1>1. SUFFICES ASSUME NEW t \in os.list
               PROVE  IF ReadyTask(t)
                      THEN /\ os.tcb[t].dly = 0
                           /\ "SUSPEND" \notin os.tcb[t].stat
                           /\ os.tcb[t].stat \cap PendAny = {} \/ "MULTI" \in os.tcb[t].stat
                      ELSE Reachable(t)
  BY DEF NoTaskLost
<1> DEFINE c == os.tcb[t]
<1>2. /\ Sound(os) /\ t \in Tcb /\ c.prio \in Prio
      /\ c.pend \in {"OK", "TO", "ABORT"}
  BY PlainIs, Fields DEF Sound
<1>3. ReadyTask(t) <=> IsReady(os, t)
  BY <1>2, BitsTest DEF ReadyTask, IsReady, Sound, BitsOK
<1>4. \A e \in Ecb : e \in Lists(os, t) => InList(t, e)
  BY <1>2, BitsTest DEF Lists, InList, Sound, BitsOK
<1> DEFINE Found == /\ IsReady(os, t) =>
                         /\ c.dly = 0 /\ "SUSPEND" \notin c.stat
                         /\ c.stat \cap PendAny = {} \/ "MULTI" \in c.stat
                    /\ ~IsReady(os, t) =>
                         /\ c.stat \cap (PendAny \ {"FLAG"}) # {} =>
                              WaitsOn(t) # {} /\ \A e \in WaitsOn(t) : InList(t, e)
                         /\ "FLAG" \in c.stat =>
                              c.node # NoNode /\ t \in os.flag[c.node.grp].wait
                         /\ c.dly # 0 \/ c.stat # {}
<1>5. SUFFICES Found
  BY <1>3 DEF Reachable
<1>6. CASE WaitsForNothing(os, t)
  BY <1>6 DEF WaitsForNothing, PendAny
<1>7. ASSUME NEW type \in EventTypes, NEW e \in Ecb, WaitsForOne(os, t, type, e)
      PROVE  Found
  <2>1. /\ c.stat \subseteq {type, "SUSPEND"}
        /\ type \notin c.stat => c.dly = 0
        /\ IsReady(os, t) <=> c.stat = {}
        /\ type \in c.stat => Lists(os, t) = {e}
        /\ WaitsOn(t) = {e}
    BY <1>7, NullIsNone DEF WaitsForOne, WaitsOn
  <2>2. type # "FLAG" /\ type # "SUSPEND"
    BY DEF EventTypes
  <2>3. c.stat \cap (PendAny \ {"FLAG"}) # {} => type \in c.stat
    BY <2>1 DEF PendAny
  <2>4. "FLAG" \notin c.stat
    BY <2>1, <2>2
  <2>5. type \in c.stat => InList(t, e)
    BY <1>4, <2>1
  <2>6. IsReady(os, t) => c.dly = 0 /\ c.stat = {}
    BY <1>7 DEF WaitsForOne
  <2> HIDE DEF c
  <2> QED
    BY <2>1, <2>3, <2>4, <2>5, <2>6
<1>8. ASSUME NEW g \in Fgp, WaitsForFlags(os, t, g)
      PROVE  Found
  <2>1. /\ c.stat \subseteq {"FLAG", "SUSPEND"}
        /\ "FLAG" \in c.stat => c.node.grp = g /\ Groups(os, t) = {g}
        /\ IsReady(os, t) <=> c.stat = {}
        /\ IsReady(os, t) => c.dly = 0
    BY <1>8 DEF WaitsForFlags
  <2>2. c.stat \cap (PendAny \ {"FLAG"}) = {}
    BY <2>1 DEF PendAny
  <2>3. "FLAG" \in c.stat => t \in os.flag[c.node.grp].wait
    BY <2>1 DEF Groups
  <2>4. "FLAG" \in c.stat => c.node # NoNode
    BY <2>1, NullIsNone DEF NoNode
  <2> HIDE DEF c
  <2> QED
    BY <2>1, <2>2, <2>3, <2>4
<1>9. ASSUME NEW S \in SUBSET Ecb, WaitsForAny(os, t, S)
      PROVE  Found
  <2>1. /\ "MULTI" \in c.stat /\ "SUSPEND" \notin c.stat /\ "FLAG" \notin c.stat
        /\ S # {} /\ c.multi = S
        /\ IsReady(os, t) => c.dly = 0
        /\ ~IsReady(os, t) => c.event = Null /\ Lists(os, t) = S
    BY <1>9 DEF WaitsForAny
  <2>2. ~IsReady(os, t) => WaitsOn(t) = S
    BY <2>1, NullIsNone DEF WaitsOn
  <2> HIDE DEF c
  <2> QED
    BY <1>4, <2>1, <2>2
<1> QED
  BY <1>6, <1>7, <1>8, <1>9, WaitKinds

LEMMA PlainServes ==
  ASSUME PlainInv
  PROVE  NothingIdle
<1>1. Sound(os)
  BY PlainIs
<1>2. \A g \in Fgp : FlagsServed(g)
  BY <1>1 DEF Sound, ServedOK, GroupServed, FlagsServed
<1>3. ASSUME NEW e \in Live, Waiting(os, e)
      PROVE  /\ os.event[e].type \in EventTypes
             /\ Exhausted(os, e)
  <2>1. os.event[e].type \in EventTypes
    BY <1>1, Fields DEF Sound, Live
  <2>2. e \in Ecb
    BY DEF Live
  <2> QED
    BY <1>1, <1>3, <2>1, <2>2, NobodyWaits
<1>4. ASSUME NEW e \in Live, Waiting(os, e)
      PROVE  CASE os.event[e].type = "SEM" -> os.event[e].cnt = 0
               [] os.event[e].type = "MUTEX" -> os.event[e].ptr # Null
               [] os.event[e].type = "MBOX" -> os.event[e].ptr = Null
               [] os.event[e].type = "Q" -> TheRing(os, e).entries = 0
  BY <1>3, <1>4 DEF EventTypes, Exhausted
<1> QED
  BY <1>2, <1>4 DEF NothingIdle

-----------------------------------------------------------------------------
(* The rings of the UART's driver.                                         *)

UartFits(u) ==
    u \in UartType /\ Len(u.rxFifo) <= FifoLen /\ Len(u.txFifo) <= FifoLen

LEMMA LaterIs ==
  ASSUME NEW i \in Int, NEW n \in Int
  PROVE  Later(i, n) \in Offset
  BY UartAssumption DEF Later, Offset

LEMMA RingIs ==
  ASSUME NEW S, NEW buf \in [Offset -> S], NEW out \in Offset, NEW in \in Offset
  PROVE  Ring(buf, out, in) \in Seq(S) /\ Len(Ring(buf, out, in)) \in Offset
<1> DEFINE n == (in - out) % BufLen
<1>1. out \in Int /\ in \in Int
  BY DEF Offset
<1>2. n \in Offset /\ n \in Nat
  BY <1>1, UartAssumption DEF Offset
<1>3. \A i \in 1 .. n : Later(out, i - 1) \in Offset
  BY <1>1, <1>2, LaterIs
<1>4. Ring(buf, out, in) = [i \in 1 .. n |-> buf[Later(out, i - 1)]]
  BY DEF Ring
<1> HIDE DEF n
<1>5. Ring(buf, out, in) \in [1 .. n -> S]
  BY <1>3, <1>4
<1> QED
  BY <1>2, <1>5

LEMMA AtMostIs ==
  ASSUME NEW a \in Nat, NEW room \in Nat
  PROVE  AtMost(a, room) \in 0 .. a /\ AtMost(a, room) <= room
  BY DEF AtMost

LEMMA IrqReadFits ==
  ASSUME NEW u, UartFits(u)
  PROVE  UartFits(IrqRead(u))
<1> DEFINE f == u.rxFifo
           n == AtMost(Len(f), BufLen - 1 - Len(Received(u)))
           left == SubSeq(f, n + 1, Len(f))
           rx == [i \in 0 .. BufLen - 1 |->
                    IF (i - u.rxIn) % BufLen < n
                    THEN f[((i - u.rxIn) % BufLen) + 1] ELSE u.rx[i]]
           irq == IF left # << >> THEN u.irq \ {"RE"} ELSE u.irq
<1>1. /\ u \in UartType /\ f \in Seq(Int) /\ Len(f) <= FifoLen
      /\ u.rxIn \in Offset /\ u.rx \in [Offset -> Int]
  BY DEF UartFits, UartType
<1>2. Len(Received(u)) \in Offset
  BY <1>1, RingIs DEF Received, UartType
<1>3. n \in 0 .. Len(f) /\ Len(f) \in Nat /\ u.rxIn \in Int
  <2>1. /\ Len(f) \in Nat /\ u.rxIn \in Int
        /\ BufLen - 1 - Len(Received(u)) \in Nat
    BY <1>1, <1>2, UartAssumption DEF Offset
  <2> QED
    BY <2>1, AtMostIs
<1> HIDE DEF n
<1>4. left \in Seq(Int) /\ Len(left) <= FifoLen
  BY <1>1, <1>3, UartAssumption
<1>5. Later(u.rxIn, n) \in Offset
  BY <1>3, LaterIs
<1>6. rx \in [Offset -> Int]
  <2>1. ASSUME NEW i \in Offset, (i - u.rxIn) % BufLen < n
        PROVE  f[((i - u.rxIn) % BufLen) + 1] \in Int
    <3>1. (i - u.rxIn) % BufLen \in Nat
      BY <1>1, UartAssumption DEF Offset
    <3>2. ((i - u.rxIn) % BufLen) + 1 \in 1 .. Len(f)
      BY <1>3, <2>1, <3>1
    <3> QED
      BY <1>1, <3>2
  <2> QED
    BY <1>1, <2>1 DEF Offset
<1>7. irq \in SUBSET {"RE", "WE"}
  BY <1>1 DEF UartType
<1>8. IrqRead(u) = [u EXCEPT !.rx = rx, !.rxIn = Later(u.rxIn, n), !.rxFifo = left,
                             !.irq = irq]
  BY <1>1 DEF IrqRead, n, UartType
<1> HIDE DEF left, rx, irq
<1> QED
  BY <1>1, <1>4, <1>5, <1>6, <1>7, <1>8 DEF UartFits, UartType

LEMMA IrqWriteFits ==
  ASSUME NEW u, UartFits(u)
  PROVE  UartFits(IrqWrite(u))
<1> DEFINE f == u.txFifo
           n == AtMost(Len(Unsent(u)), FifoLen - Len(f))
           more == SubSeq(Unsent(u), 1, n)
           irq == IF n < FifoLen - Len(f) THEN u.irq \ {"WE"} ELSE u.irq
<1>1. /\ u \in UartType /\ f \in Seq(Char) /\ Len(f) <= FifoLen
      /\ u.txOut \in Offset /\ u.irq \in SUBSET {"RE", "WE"}
  BY DEF UartFits, UartType
<1>2. Unsent(u) \in Seq(Char) /\ Len(Unsent(u)) \in Offset
  BY <1>1, RingIs DEF Unsent, UartType
<1>3. n \in 0 .. Len(Unsent(u)) /\ Len(f) + n <= FifoLen /\ Len(f) \in Nat /\ u.txOut \in Int
  <2>1. Len(f) \in Nat /\ FifoLen \in Nat /\ Len(Unsent(u)) \in Nat /\ u.txOut \in Int
    BY <1>1, <1>2, UartAssumption DEF Offset
  <2>2. FifoLen - Len(f) \in Nat
    BY <1>1, <2>1
  <2>3. n \in 0 .. Len(Unsent(u)) /\ n <= FifoLen - Len(f)
    BY <2>1, <2>2, AtMostIs
  <2> HIDE DEF n
  <2> QED
    BY <2>1, <2>3
<1> HIDE DEF n
<1>4. more \in Seq(Char) /\ Len(more) = n
  BY <1>2, <1>3
<1>5. Later(u.txOut, n) \in Offset
  BY <1>3, LaterIs
<1>6. irq \in SUBSET {"RE", "WE"}
  BY <1>1
<1>7. IrqWrite(u) = [u EXCEPT !.txFifo = f \o more, !.txOut = Later(u.txOut, n),
                              !.irq = irq]
  BY <1>1 DEF IrqWrite, n, UartType
<1> HIDE DEF more, irq
<1>8. f \o more \in Seq(Char) /\ Len(f \o more) <= FifoLen
  BY <1>1, <1>3, <1>4, UartAssumption
<1> QED
  BY <1>1, <1>5, <1>6, <1>7, <1>8 DEF UartFits, UartType

LEMMA DriverFits ==
  ASSUME NEW u, UartFits(u)
  PROVE  /\ UartFits(Irq(u)) /\ UartFits(Timeout(u))
         /\ UartFits(EnableRead(u)) /\ UartFits(EnableWrite(u))
         /\ \A seconds \in Int : UartFits(SetTimeout(u, seconds))
<1>1. UartFits(Irq(u))
  BY IrqReadFits, IrqWriteFits DEF Irq
<1>2. UartFits(Timeout(u))
  <2>1. ASSUME NEW v, UartFits(v), NEW i \in Int
        PROVE  UartFits([v EXCEPT !.inactive = i])
    BY <2>1 DEF UartFits, UartType
  <2> DEFINE w == [u EXCEPT !.active = FALSE]
  <2>2. UartFits(w)
    BY DEF UartFits, UartType
  <2>3. UartFits([w EXCEPT !.inactive = 0])
    <3> HIDE DEF w
    <3> QED
      BY <2>1, <2>2
  <2> DEFINE i == IF u.inactive < HostTimeout THEN u.inactive + 1 ELSE u.inactive
  <2>4. i \in Int
    BY DEF UartFits, UartType
  <2>5. Timeout(u) = IF u.active THEN [u EXCEPT !.active = FALSE, !.inactive = 0]
                                 ELSE [u EXCEPT !.inactive = i]
    BY DEF Timeout, UartFits, UartType
  <2> HIDE DEF i
  <2> QED
    BY <2>1, <2>3, <2>4, <2>5
<1>3. UartFits(EnableRead(u)) /\ UartFits(EnableWrite(u))
  BY DEF UartFits, UartType, EnableRead, EnableWrite
<1>4. ASSUME NEW seconds \in Int PROVE UartFits(SetTimeout(u, seconds))
  <2>1. ASSUME NEW i \in Int PROVE UartFits([u EXCEPT !.timeout = i])
    BY DEF UartFits, UartType
  <2>2. Never \in Int
    BY UartAssumption DEF Never
  <2> QED
    BY <2>1, <2>2 DEF SetTimeout
<1> QED
  BY <1>1, <1>2, <1>3, <1>4

LEMMA HostFits ==
  ASSUME NEW u, UartFits(u)
  PROVE  /\ Len(u.rxFifo) < FifoLen => UartFits(HostSends(u))
         /\ u.txFifo # << >> => UartFits(HostTakes(u))
<1>1. /\ u \in UartType /\ u.rxFifo \in Seq(Int) /\ u.txFifo \in Seq(Char)
      /\ u.typed \in Int /\ Len(u.rxFifo) <= FifoLen /\ Len(u.txFifo) <= FifoLen
  BY DEF UartFits, UartType
<1>2. ASSUME Len(u.rxFifo) < FifoLen PROVE UartFits(HostSends(u))
  <2>1. /\ Append(u.rxFifo, u.typed) \in Seq(Int)
        /\ Len(Append(u.rxFifo, u.typed)) <= FifoLen
    BY <1>1, <1>2, UartAssumption
  <2>2. (u.typed + 1) % RxMod \in Int
    BY <1>1, UartAssumption
  <2> QED
    BY <1>1, <2>1, <2>2 DEF UartFits, UartType, HostSends
<1>3. ASSUME u.txFifo # << >> PROVE UartFits(HostTakes(u))
  <2>1. /\ Head(u.txFifo) \in Char /\ Tail(u.txFifo) \in Seq(Char)
        /\ Len(Tail(u.txFifo)) <= FifoLen
    BY <1>1, <1>3, UartAssumption
  <2> QED
    BY <1>1, <2>1 DEF UartFits, UartType, HostTakes
<1> QED
  BY <1>2, <1>3

LEMMA CopyFits ==
  ASSUME NEW u, UartFits(u), NEW in \in Offset, NEW out \in Offset
  PROVE  /\ \A n \in Int : UartFits(CopyOut(u, out, n))
         /\ \A chars \in Seq(Char) : UartFits(CopyIn(u, in, chars))
<1>1. /\ u \in UartType /\ in \in Int /\ out \in Int
      /\ u.tx \in [0 .. BufLen - 1 -> Char]
  BY DEF UartFits, UartType, Offset
<1>2. ASSUME NEW n \in Int PROVE UartFits(CopyOut(u, out, n))
  BY <1>1, LaterIs DEF UartFits, UartType, CopyOut
<1>3. ASSUME NEW chars \in Seq(Char) PROVE UartFits(CopyIn(u, in, chars))
  <2> DEFINE tx == [i \in 0 .. BufLen - 1 |->
                      IF i \in in .. in + Len(chars) - 1
                      THEN chars[i - in + 1] ELSE u.tx[i]]
  <2>1. Len(chars) \in Nat
    OBVIOUS
  <2>2. ASSUME NEW i \in 0 .. BufLen - 1, i \in in .. in + Len(chars) - 1
        PROVE  chars[i - in + 1] \in Char
    BY <1>1, <2>1, <2>2, UartAssumption
  <2>3. tx \in [Offset -> Char]
    BY <1>1, <2>2 DEF Offset
  <2>4. Later(in, Len(chars)) \in Offset
    BY <1>1, <2>1, LaterIs
  <2>5. CopyIn(u, in, chars) = [u EXCEPT !.tx = tx, !.txIn = Later(in, Len(chars))]
    BY <1>1 DEF CopyIn, UartType
  <2> HIDE DEF tx
  <2> QED
    BY <1>1, <2>3, <2>4, <2>5 DEF UartFits, UartType
<1> QED
  BY <1>2, <1>3

(* What a step leaves of the offsets that the tasks have read.             *)
Resumes == \E r, m : DOMAIN m = RunFields /\ m.io = Me.io /\ Leave(r, m)

LEMMA UartKept ==
  ASSUME UartOK, DOMAIN run = Tcb, NEW m, IoOK(m.io),
         run' = [run EXCEPT ![Cur] = m], UartFits(uart')
  PROVE  UartOK'
<1>1. \A t \in Tcb : IoOK(run[t].io)
  BY DEF UartOK
<1>2. \A t \in Tcb : run'[t] = run[t] \/ run'[t] = m
  OBVIOUS
<1>3. \A t \in Tcb : IoOK(run'[t].io)
  BY <1>1, <1>2
<1>4. /\ uart' \in UartType
      /\ Len(uart'.rxFifo) <= FifoLen /\ Len(uart'.txFifo) <= FifoLen
  BY DEF UartFits
<1> QED
  BY <1>3, <1>4 DEF UartOK

LEMMA IoFresh == IoOK(NoIo)
  BY UartAssumption DEF IoOK, NoIo, Offset

LEMMA SettleIo ==
  ASSUME NEW m, DOMAIN m = RunFields, IoOK(m.io)
  PROVE  IoOK(Settle(m).io)
  BY IoFresh DEF Settle, RunFields

LEMMA ResumesIo ==
  ASSUME UartOK, DOMAIN run = Tcb, Cur \in Tcb, Resumes
  PROVE  UartOK'
<1>1. PICK r, m : DOMAIN m = RunFields /\ m.io = Me.io /\ Leave(r, m)
  BY DEF Resumes
<1> DEFINE n == [m EXCEPT !.pc = r.cont \o Tail(@),
                          !.loc = IF r.loc # Null THEN r.loc ELSE @,
                          !.hand = @ \cup (r.got \cap Block)]
<1>2. DOMAIN n = RunFields /\ n.io = m.io
  BY <1>1 DEF RunFields
<1>3. IoOK(Me.io) /\ UartFits(uart)
  BY DEF UartOK, UartFits, Me
<1>4. Left(r, m) = Settle(n)
  BY DEF Left
<1> HIDE DEF n
<1>5. IoOK(Left(r, m).io)
  BY <1>1, <1>2, <1>3, <1>4, SettleIo
<1>6. run' = [run EXCEPT ![Cur] = Left(r, m)] /\ uart' = uart
  BY <1>1 DEF Leave
<1> QED
  BY <1>3, <1>5, <1>6, UartKept

LEMMA GotoIo ==
  ASSUME UartOK, DOMAIN run = Tcb, NEW next, NEW m, DOMAIN m = RunFields, IoOK(m.io),
         Goto(next, m), UartFits(uart')
  PROVE  UartOK'
<1> DEFINE n == [m EXCEPT !.pc = next \o Tail(@)]
<1>1. DOMAIN n = RunFields /\ n.io = m.io
  BY DEF RunFields
<1>2. run' = [run EXCEPT ![Cur] = Settle(n)]
  BY DEF Goto
<1> HIDE DEF n
<1> QED
  BY <1>1, <1>2, SettleIo, UartKept

LEMMA CallsIo ==
  ASSUME UartOK, DOMAIN run = Tcb, NEW op, NEW name, NEW arg, NEW next,
         NEW m, DOMAIN m = RunFields, IoOK(m.io),
         Calls(op, name, arg, next, m), UartFits(uart')
  PROVE  UartOK'
<1> DEFINE n == [m EXCEPT !.obj = name, !.ev = obj[name], !.arg = arg]
<1>1. DOMAIN n = RunFields /\ n.io = m.io
  BY DEF RunFields
<1>2. Goto(<< op >> \o next, n)
  BY DEF Calls
<1> HIDE DEF n
<1> QED
  BY <1>1, <1>2, GotoIo

LEMMA QuietlyResumes ==
  ASSUME DOMAIN Me = RunFields, NEW r, NEW msg
  PROVE  /\ Creates(r) => Resumes
         /\ Quietly(r, Me) => Resumes
         /\ Quietly(r, Acquires(r)) => Resumes
         /\ Quietly(r, Releases(r)) => Resumes
         /\ Quietly(r, Sends(r, msg)) => Resumes
<1>1. DOMAIN Acquires(r) = RunFields /\ Acquires(r).io = Me.io
  BY DEF Acquires, RunFields
<1>2. DOMAIN Releases(r) = RunFields /\ Releases(r).io = Me.io
  BY DEF Releases, RunFields
<1>3. DOMAIN Sends(r, msg) = RunFields /\ Sends(r, msg).io = Me.io
  BY DEF Sends, RunFields
<1> QED
  BY <1>1, <1>2, <1>3 DEF Quietly, Creates, Resumes

LEMMA ServicesResume ==
  ASSUME Stepping, Sched \/ Locks \/ Messaging \/ Flags \/ Tasks
  PROVE  Resumes
<1>1. DOMAIN Me = RunFields
  BY StepperIs DEF ThreadOK
<1>2. CASE Sched
  BY <1>1, <1>2, QuietlyResumes DEF Sched
<1>3. CASE Locks
  <2>1. CASE SemCreate \/ SemAccept \/ SemPend \/ SemReturn
    BY <1>1, <2>1, QuietlyResumes DEF SemCreate, SemAccept, SemPend, SemReturn
  <2>2. CASE SemPost \/ SemAbort \/ SemSet
    BY <1>1, <2>2, QuietlyResumes DEF SemPost, SemAbort, SemSet
  <2> QED
    BY <1>3, <2>1, <2>2, NoOthers DEF Locks
<1>4. CASE Messaging
  <2>1. CASE MboxCreate \/ MboxAccept \/ MboxPend \/ MboxReturn
    BY <1>1, <2>1, QuietlyResumes DEF MboxCreate, MboxAccept, MboxPend, MboxReturn
  <2>2. CASE MboxPost \/ MboxPostOpt \/ MboxAbort
    BY <1>1, <2>2, QuietlyResumes DEF MboxPost, MboxPostOpt, MboxAbort
  <2>3. CASE QCreate \/ QCreated \/ QAccept \/ QPend \/ QReturn
    BY <1>1, <2>3, QuietlyResumes DEF QCreate, QCreated, QAccept, QPend, QReturn
  <2>4. CASE QPost \/ QPostFront \/ QPostOpt \/ QAbort \/ QFlush
    BY <1>1, <2>4, QuietlyResumes DEF QPost, QPostFront, QPostOpt, QAbort, QFlush
  <2>5. CASE MemGet \/ MemPut \/ PendMulti \/ MultiReturn
    BY <1>1, <2>5, QuietlyResumes DEF MemGet, MemPut, PendMulti, MultiReturn
  <2> QED
    BY <1>4, <2>1, <2>2, <2>3, <2>4, <2>5, NoOthers DEF Messaging
<1>5. CASE Flags
  <2>1. CASE FlagCreate \/ FlagAccept \/ FlagPend \/ FlagReturn \/ FlagPost
    BY <1>1, <2>1, QuietlyResumes DEF FlagCreate, FlagAccept, FlagPend, FlagReturn, FlagPost
  <2> QED
    BY <1>5, <2>1, NoOthers DEF Flags
<1>6. CASE Tasks
  <2>1. CASE TaskDelReq \/ TaskSuspend \/ TaskResume \/ TimeDly
    BY <1>1, <2>1, QuietlyResumes DEF TaskDelReq, TaskSuspend, TaskResume, TimeDly
  <2>2. CASE TimeDlyResume \/ SchedLock \/ SchedUnlock
    BY <1>1, <2>2, QuietlyResumes DEF TimeDlyResume, SchedLock, SchedUnlock
  <2> QED
    BY <1>6, <2>1, <2>2, NoOthers DEF Tasks
<1> QED
  BY <1>2, <1>3, <1>4, <1>5, <1>6

LEMMA IoFields ==
  ASSUME UartOK, Stepping
  PROVE  /\ DOMAIN run = Tcb /\ Cur \in Tcb /\ DOMAIN Me = RunFields
         /\ IoOK(Me.io) /\ DOMAIN Me.io = DOMAIN NoIo
         /\ UartFits(uart) /\ uart.rxIn \in Offset /\ uart.rxOut \in Offset
         /\ uart.txIn \in Offset /\ uart.txOut \in Offset
<1>1. Cur \in Tcb /\ ThreadOK(prog, os, Me)
  BY StepperIs
<1>2. DOMAIN run = Tcb
  BY DEF Stepping, PlainInv, ThreadsOK
<1>3. IoOK(Me.io) /\ UartFits(uart)
  BY <1>1 DEF UartOK, UartFits, Me
<1>4. DOMAIN Me = RunFields
  BY <1>1 DEF ThreadOK
<1>5. DOMAIN Me.io = DOMAIN NoIo
  BY <1>3 DEF IoOK
<1> QED
  BY <1>1, <1>2, <1>3, <1>4, <1>5 DEF UartFits, UartType

LEMMA LibraryIo ==
  ASSUME UartOK, Stepping, Library
  PROVE  UartOK'
<1>1. /\ DOMAIN run = Tcb /\ DOMAIN Me = RunFields /\ IoOK(Me.io) /\ UartFits(uart)
      /\ uart' = uart
  BY IoFields DEF Library, LibLock, LibQuery, LibNests, LibWaits, LibGot, LibUnlock
<1>2. CASE LibLock
  <2> DEFINE m == [Me EXCEPT !.io.id = os.tcb[Cur].prio]
  <2>1. DOMAIN m = RunFields /\ IoOK(m.io)
    BY <1>1 DEF RunFields, IoOK, NoIo
  <2>2. Goto(<< "LibQuery" >>, m)
    BY <1>2 DEF LibLock
  <2> HIDE DEF m
  <2> QED
    BY <1>1, <2>1, <2>2, GotoIo
<1>3. CASE LibQuery
  <2> DEFINE q == OSSemQuery(os, Me.ev)
             m == [Me EXCEPT !.io.cnt = q.cnt, !.io.grp = (q.grp # {})]
  <2>1. DOMAIN m = RunFields /\ IoOK(m.io)
    BY <1>1 DEF RunFields, IoOK, NoIo
  <2>2. Goto(<< "LibTest" >>, m)
    BY <1>3 DEF LibQuery
  <2> HIDE DEF m
  <2> QED
    BY <1>1, <2>1, <2>2, GotoIo
<1>4. CASE LibNests \/ LibGot
  <2>1. Goto(<< >>, Me)
    BY <1>4 DEF LibNests, LibGot
  <2> QED
    BY <1>1, <2>1, GotoIo
<1>5. CASE LibWaits
  <2>1. Calls("SemPend", Me.obj, 0, << "LibGot" >>, Me)
    BY <1>5 DEF LibWaits
  <2> QED
    BY <1>1, <2>1, CallsIo
<1>6. CASE LibUnlock
  <2>1. Calls("SemPost", Me.obj, Null, << >>, Me) \/ Goto(<< >>, Me)
    BY <1>6 DEF LibUnlock
  <2> QED
    BY <1>1, <2>1, CallsIo, GotoIo
<1> QED
  BY <1>2, <1>3, <1>4, <1>5, <1>6 DEF Library

LEMMA FilesIo ==
  ASSUME UartOK, Stepping, FileCalls
  PROVE  UartOK'
<1>1. /\ DOMAIN run = Tcb /\ DOMAIN Me = RunFields /\ IoOK(Me.io) /\ UartFits(uart)
      /\ DOMAIN Me.io = DOMAIN NoIo
  BY IoFields
<1>2. StdErr \in Int /\ StdErr + 1 \in Int
  BY DEF StdErr
<1>3. ASSUME NEW i \in Int
      PROVE  /\ DOMAIN [Me EXCEPT !.io.next = i] = RunFields
             /\ IoOK([Me EXCEPT !.io.next = i].io)
  BY <1>1 DEF RunFields, IoOK, NoIo
<1>4. ASSUME NEW i, NEW a
      PROVE  /\ DOMAIN [Me EXCEPT !.io.fd = i, !.io.want = a] = RunFields
             /\ IoOK([Me EXCEPT !.io.fd = i, !.io.want = a].io)
             /\ DOMAIN [Me EXCEPT !.io.fd = i] = RunFields
             /\ IoOK([Me EXCEPT !.io.fd = i].io)
  BY <1>1 DEF RunFields, IoOK, NoIo
<1>5. ASSUME NEW fds
      PROVE  /\ DOMAIN [Me EXCEPT !.fds = fds] = RunFields
             /\ IoOK([Me EXCEPT !.fds = fds].io)
  BY <1>1 DEF RunFields
<1>6. Me.io.next \in Int /\ Me.io.next + 1 \in Int
  BY <1>1 DEF IoOK
<1>7. CASE Open
  <2> DEFINE m == [Me EXCEPT !.io.fd = StdErr + 1, !.io.want = Me.arg]
  <2>1. DOMAIN m = RunFields /\ IoOK(m.io)
    BY <1>4
  <2>2. /\ Goto(<< >>, Me) \/ Calls("SemPend", "fd_lock", 0, << "GetFd" >>, m)
        /\ uart' = uart
    BY <1>7 DEF Open
  <2> HIDE DEF m
  <2> QED
    BY <1>1, <2>1, <2>2, CallsIo, GotoIo
<1>8. CASE GetFd
  <2> DEFINE m == [Me EXCEPT !.io.fd = Me.io.fd + 1]
  <2>1. DOMAIN m = RunFields /\ IoOK(m.io)
    BY <1>4
  <2>2. /\ \/ Calls("SemPost", "fd_lock", Null, << >>, Me)
           \/ Goto(<< "GetFd" >>, m)
           \/ Goto(<< "MaxFd" >>, Me)
        /\ uart' = uart
    BY <1>8 DEF GetFd
  <2> HIDE DEF m
  <2> QED
    BY <1>1, <2>1, <2>2, CallsIo, GotoIo
<1>9. CASE GotFd
  <2>1. Calls("SemPost", "fd_lock", Null, << "OpenFlags" >>, Me) /\ uart' = uart
    BY <1>9 DEF GotFd
  <2> QED
    BY <1>1, <2>1, CallsIo
<1>10. CASE OpenFd
  <2> DEFINE m == [Me EXCEPT !.io.next = StdErr]
  <2>1. DOMAIN m = RunFields /\ IoOK(m.io)
    BY <1>2, <1>3
  <2>2. Goto(<< "FileLocked" >>, m) /\ uart' = uart
    BY <1>10 DEF OpenFd
  <2> HIDE DEF m
  <2> QED
    BY <1>1, <2>1, <2>2, GotoIo
<1>11. CASE FileLocked
  <2> DEFINE m == [Me EXCEPT !.fds = @ \cup {Me.io.fd}]
             n == [Me EXCEPT !.io.next = Me.io.next + 1]
  <2>1. DOMAIN m = RunFields /\ IoOK(m.io)
    BY <1>5
  <2>2. DOMAIN n = RunFields /\ IoOK(n.io)
    BY <1>3, <1>6
  <2>3. /\ \/ Goto(<< >>, m) \/ Goto(<< "ClearFd", "FreeFd" >>, Me)
           \/ Goto(<< "FileLocked" >>, n)
        /\ uart' = uart
    BY <1>11 DEF FileLocked
  <2> HIDE DEF m, n
  <2> QED
    BY <1>1, <2>1, <2>2, <2>3, GotoIo
<1>12. CASE Close
  <2> DEFINE m == [Me EXCEPT !.fds = @ \ {Me.io.fd}]
  <2>1. DOMAIN m = RunFields /\ IoOK(m.io)
    BY <1>5
  <2>2. Goto(<< "ClearFd", "FreeFd" >>, m) /\ uart' = uart
    BY <1>12 DEF Close
  <2> HIDE DEF m
  <2> QED
    BY <1>1, <2>1, <2>2, GotoIo
<1>13. CASE ReleaseFd \/ Fcntl
  <2>1. Goto(<< >>, Me) /\ uart' = uart
    BY <1>13 DEF ReleaseFd, Fcntl
  <2> QED
    BY <1>1, <2>1, GotoIo
<1>14. CASE Ioctl
  <2> DEFINE m == [Me EXCEPT !.io.next = StdErr]
  <2>1. DOMAIN m = RunFields /\ IoOK(m.io)
    BY <1>2, <1>3
  <2>2. Me.arg.timeout \in Int
    <3>1. HeadOK(prog, os, Me, "Ioctl")
      BY <1>14, CallerIs DEF Ioctl
    <3> QED
      BY <3>1 DEF HeadOK, ArgOK
  <2>3. \/ Calls("SemPend", "fd_lock", 0, << "FdLock" >>, m) /\ uart' = uart
        \/ Goto(<< >>, Me) /\ (uart' = uart \/ uart' = SetTimeout(uart, Me.arg.timeout))
    BY <1>14 DEF Ioctl
  <2>4. UartFits(uart')
    BY <1>1, <2>2, <2>3, DriverFits
  <2> HIDE DEF m
  <2> QED
    BY <1>1, <2>1, <2>3, <2>4, CallsIo, GotoIo
<1>15. CASE FdLock
  <2> DEFINE n == [Me EXCEPT !.io.next = Me.io.next + 1]
  <2>1. DOMAIN n = RunFields /\ IoOK(n.io)
    BY <1>3, <1>6
  <2>2. /\ Calls("SemPost", "fd_lock", Null, << >>, Me) \/ Goto(<< "FdLock" >>, n)
        /\ uart' = uart
    BY <1>15 DEF FdLock
  <2> HIDE DEF n
  <2> QED
    BY <1>1, <2>1, <2>2, CallsIo, GotoIo
<1> QED
  BY <1>7, <1>8, <1>9, <1>10, <1>11, <1>12, <1>13, <1>14, <1>15 DEF FileCalls

LEMMA SlackIs ==
  ASSUME NEW in \in Offset, NEW out \in Offset
  PROVE  Readable(in, out) \in Int /\ Writable(in, out) \in Int
<1>1. in \in Nat /\ out \in Nat /\ BufLen \in Int
  BY UartAssumption DEF Offset
<1> QED
  BY <1>1 DEF Readable, Writable

LEMMA ConsoleIo ==
  ASSUME UartOK, Stepping, Console
  PROVE  UartOK'
<1>1. /\ DOMAIN run = Tcb /\ DOMAIN Me = RunFields /\ IoOK(Me.io) /\ UartFits(uart)
      /\ DOMAIN Me.io = DOMAIN NoIo
      /\ uart.rxIn \in Offset /\ uart.rxOut \in Offset
      /\ uart.txIn \in Offset /\ uart.txOut \in Offset
  BY IoFields
<1>2. /\ Me.io.in \in Offset /\ Me.io.out \in Offset
      /\ Me.io.next \in Int /\ Me.io.left \in Int /\ 0 \in Offset /\ Cur \in Tcb
  BY <1>1, IoFields, UartAssumption DEF IoOK, Offset
<1>3. ASSUME NEW in \in Offset, NEW out \in Offset
      PROVE  DOMAIN Looked(in, out) = RunFields /\ IoOK(Looked(in, out).io)
  BY <1>1, <1>3 DEF Looked, RunFields, IoOK, NoIo
<1>4. ASSUME NEW n \in Int
      PROVE  DOMAIN Copied(n) = RunFields /\ IoOK(Copied(n).io)
  <2> DEFINE m == Looked(0, 0)
  <2>1. DOMAIN m = RunFields /\ IoOK(m.io)
    BY <1>2, <1>3
  <2>2. m.io.next \in Int /\ m.io.left \in Int
    BY <2>1 DEF IoOK
  <2>3. Copied(n) = [m EXCEPT !.io.next = m.io.next + n, !.io.left = m.io.left - n]
    BY <2>1 DEF Copied, RunFields, IoOK, NoIo
  <2> DEFINE a == m.io.next + n
             b == m.io.left - n
  <2>4. a \in Int /\ b \in Int /\ Copied(n) = [m EXCEPT !.io.next = a, !.io.left = b]
    BY <2>2, <2>3
  <2> HIDE DEF m, a, b
  <2> QED
    BY <2>1, <2>4 DEF RunFields, IoOK, NoIo
<1>5. CASE WriteBegin \/ ReadBegin
  <2>1. Me.arg.n \in Int
    <3>1. HeadOK(prog, os, Me, "Write") \/ HeadOK(prog, os, Me, "Read")
      BY <1>5, CallerIs DEF WriteBegin, ReadBegin
    <3> QED
      BY <3>1 DEF HeadOK, ArgOK
  <2>2. DOMAIN Begins = RunFields /\ IoOK(Begins.io)
    BY <1>1, <2>1 DEF Begins, RunFields, IoOK, NoIo
  <2>3. /\ \/ Calls("SemPend", "write_lock", 0, << "WriteLook" >>, Begins)
           \/ Calls("SemPend", "read_lock", 0, << "ReadLook" >>, Begins)
           \/ Goto(<< >>, Me)
        /\ uart' = uart
    BY <1>5 DEF WriteBegin, ReadBegin
  <2> QED
    BY <1>1, <2>2, <2>3, CallsIo, GotoIo
<1>6. CASE WriteLook
  <2>1. /\ \/ Goto(<< "WriteCopy" >>, Looked(uart.txIn, uart.txOut))
           \/ Goto(<< "WriteStart" >>, Me)
        /\ uart' = uart
    BY <1>6 DEF WriteLook
  <2> QED
    BY <1>1, <1>3, <2>1, GotoIo
<1>7. CASE WriteCopy
  <2> DEFINE n == AtMost(Writable(Me.io.in, Me.io.out), Me.io.left)
             chars == [i \in 1 .. n |-> [by |-> Cur, i |-> Me.io.next + i]]
  <2>1. n \in Int
    BY <1>2, SlackIs DEF AtMost
  <2>2. uart' = CopyIn(uart, Me.io.in, chars) /\ Goto(<< "WriteLook" >>, Copied(n))
    BY <1>7 DEF WriteCopy
  <2> HIDE DEF n
  <2>3. chars \in Seq(Char)
    <3>1. \A i \in 1 .. n : chars[i] \in Char
      BY <1>2, <2>1 DEF Char
    <3>2. CASE n >= 0
      BY <2>1, <3>1, <3>2
    <3>3. CASE n < 0
      <4>1. 1 .. n = 1 .. 0
        BY <2>1, <3>3
      <4>2. chars \in [1 .. n -> Char]
        BY <3>1
      <4> HIDE DEF chars
      <4>3. chars \in [1 .. 0 -> Char]
        BY <4>1, <4>2
      <4> QED
        BY <4>3, 0 \in Nat
    <3> QED
      BY <2>1, <3>2, <3>3
  <2>4. UartFits(uart')
    BY <1>1, <1>2, <2>2, <2>3, CopyFits
  <2> QED
    BY <1>1, <1>4, <2>1, <2>2, <2>4, GotoIo
<1>8. CASE WriteStart
  <2>1. UartFits(uart')
    BY <1>1, <1>8, DriverFits DEF WriteStart
  <2>2. \/ Calls("FlagPend", "uart", UartFlags("WRITE_RDY"), << "WriteWoken" >>, Me)
        \/ Calls("SemPost", "write_lock", Null, << >>, Me)
    BY <1>8 DEF WriteStart, WriteUnlock
  <2> QED
    BY <1>1, <2>1, <2>2, CallsIo
<1>9. CASE WriteWoken
  <2>1. /\ \/ Calls("SemPost", "write_lock", Null, << >>, Me)
           \/ Goto(<< "WriteLook" >>, Me)
        /\ uart' = uart
    BY <1>9 DEF WriteWoken, WriteUnlock
  <2> QED
    BY <1>1, <2>1, CallsIo, GotoIo
<1>10. CASE ReadLook
  <2>1. /\ \/ Goto(<< "ReadCopy" >>, Looked(uart.rxIn, uart.rxOut))
           \/ Goto(<< "ReadDone" >>, Looked(uart.rxIn, 0))
        /\ uart' = uart
    BY <1>10 DEF ReadLook
  <2> QED
    BY <1>1, <1>2, <1>3, <2>1, GotoIo
<1>11. CASE ReadCopy
  <2> DEFINE n == AtMost(Readable(Me.io.in, Me.io.out), Me.io.left)
             next == IF Me.io.left > n THEN << "ReadLook" >> ELSE << "ReadDone" >>
  <2>1. n \in Int
    BY <1>2, SlackIs DEF AtMost
  <2>2. uart' = CopyOut(uart, Me.io.out, n) /\ Goto(next, Copied(n))
    BY <1>11 DEF ReadCopy
  <2> HIDE DEF n, next
  <2>3. UartFits(uart')
    BY <1>1, <1>2, <2>1, <2>2, CopyFits
  <2> QED
    BY <1>1, <1>4, <2>1, <2>2, <2>3, GotoIo
<1>12. CASE ReadDone
  <2> DEFINE next == IF Me.io.next > 0 THEN << "ReadEnable" >> ELSE << >>
  <2>1. /\ \/ Calls("SemPost", "read_lock", Null, next, Me)
           \/ Calls("FlagPend", "uart", UartFlags("READ_RDY"), << "ReadWoken" >>, Me)
        /\ uart' = uart
    BY <1>12 DEF ReadDone, ReadUnlock
  <2> HIDE DEF next
  <2> QED
    BY <1>1, <2>1, CallsIo
<1>13. CASE ReadWoken
  <2> DEFINE next == IF Me.io.next > 0 THEN << "ReadEnable" >> ELSE << >>
  <2>1. /\ Calls("SemPost", "read_lock", Null, next, Me) \/ Goto(<< "ReadLook" >>, Me)
        /\ uart' = uart
    BY <1>13 DEF ReadWoken, ReadUnlock
  <2> HIDE DEF next
  <2> QED
    BY <1>1, <2>1, CallsIo, GotoIo
<1>14. CASE ReadEnable
  <2>1. UartFits(uart') /\ Goto(<< >>, Me)
    BY <1>1, <1>14, DriverFits DEF ReadEnable
  <2> QED
    BY <1>1, <2>1, GotoIo
<1> QED
  BY <1>5, <1>6, <1>7, <1>8, <1>9, <1>10, <1>11, <1>12, <1>13, <1>14 DEF Console

LEMMA ApplyIo ==
  ASSUME UartOK, Stepping, Apply
  PROVE  UartOK'
<1>1. PICK c \in Me.menu : \E fd \in Descriptors(c) :
        run' = [run EXCEPT ![Cur] =
                  [@ EXCEPT !.pc = << c.op >>, !.obj = c.obj, !.ev = Handle(c),
                            !.arg = Message(c), !.io.fd = fd]]
  BY DEF Apply
<1>2. PICK fd : run' = [run EXCEPT ![Cur] =
                  [Me EXCEPT !.pc = << c.op >>, !.obj = c.obj, !.ev = Handle(c),
                            !.arg = Message(c), !.io.fd = fd]]
  BY <1>1 DEF Me
<1> DEFINE m == [Me EXCEPT !.pc = << c.op >>, !.obj = c.obj, !.ev = Handle(c),
                           !.arg = Message(c), !.io.fd = fd]
<1>3. IoOK(m.io)
  BY IoFields DEF RunFields, IoOK, NoIo
<1>4. run' = [run EXCEPT ![Cur] = m] /\ uart' = uart
  BY <1>2 DEF Apply
<1> HIDE DEF m
<1> QED
  BY <1>3, <1>4, IoFields, UartKept

LEMMA WorksUart ==
  ASSUME PlainInv, UartOK, Works
  PROVE  UartOK'
<1>1. UartFits(uart) /\ \A t \in Tcb : IoOK(run[t].io)
  BY DEF UartOK, UartFits
<1>2. ASSUME UNCHANGED run, UartFits(uart') PROVE UartOK'
  BY <1>1, <1>2 DEF UartOK, UartFits
<1>3. CASE Step
  <2>1. Stepping
    BY <1>3, StepsAre DEF Works
  <2>2. DOMAIN run = Tcb /\ Cur \in Tcb
    BY <2>1, IoFields
  <2>3. Sched \/ Locks \/ Messaging \/ Flags \/ Tasks => UartOK'
    BY <2>1, <2>2, ServicesResume, ResumesIo
  <2>4. Apply \/ Forget => UartOK'
    BY <2>1, ApplyIo, NoOthers
  <2>5. Library \/ FileCalls \/ Console => UartOK'
    BY <2>1, LibraryIo, FilesIo, ConsoleIo
  <2> QED
    BY <1>3, <2>3, <2>4, <2>5 DEF Step
<1>4. CASE Interrupt
  BY <1>1, <1>2, <1>4 DEF Interrupt
<1>5. CASE IrqHandler
  <2>1. /\ UNCHANGED run
        /\ uart' \in {uart, Irq(uart), Timeout(uart), Timeout(Irq(uart))}
    BY <1>5 DEF IrqHandler, TimerIrq
  <2>2. UartFits(uart')
    BY <1>1, <2>1, DriverFits
  <2> QED
    BY <1>2, <2>1, <2>2
<1>6. CASE Host
  <2>1. UNCHANGED run /\ UartFits(uart')
    BY <1>1, <1>6, HostFits DEF Host
  <2> QED
    BY <1>2, <2>1
<1> QED
  BY <1>3, <1>4, <1>5, <1>6 DEF Works

LEMMA BootUart ==
  ASSUME PlainInv, UartOK, Boot
  PROVE  UartOK'
<1>1. UartFits(uart) /\ \A t \in Tcb : IoOK(run[t].io)
  BY DEF UartOK, UartFits
<1>2. DOMAIN run = Tcb
  BY DEF PlainInv, ThreadsOK
<1>3. uart' = uart
  BY DEF Boot, MakeObject, LaunchTask, Start
<1>4. run' = run \/ \E t, menu : run' = [run EXCEPT ![t] = NewRun(menu)]
  BY DEF Boot, MakeObject, LaunchTask, Start
<1>5. \A menu : IoOK(NewRun(menu).io)
  BY IoFresh DEF NewRun
<1>6. \A t \in Tcb : IoOK(run'[t].io)
  BY <1>1, <1>2, <1>4, <1>5
<1> QED
  BY <1>1, <1>3, <1>6 DEF UartOK, UartFits

LEMMA InitUart ==
  ASSUME Init
  PROVE  UartOK
<1>1. uart = UartInit /\ run = [t \in Tcb |-> NewRun({})]
  BY DEF Init
<1>2. \A t \in Tcb : IoOK(run[t].io)
  BY <1>1, IoFresh DEF NewRun
<1>3. 0 \in Offset /\ NoChar \in Char /\ HostTimeout \in Int
  BY UartAssumption DEF Offset, NoChar, Char
<1>4. << >> \in Seq(Int) /\ << >> \in Seq(Char) /\ Len(<< >>) <= FifoLen
  BY UartAssumption
<1>5. /\ [i \in 0 .. BufLen - 1 |-> 0] \in [Offset -> Int]
      /\ [i \in 0 .. BufLen - 1 |-> NoChar] \in [Offset -> Char]
  BY <1>3 DEF Offset
<1>6. UartInit \in UartType
  BY <1>3, <1>4, <1>5 DEF UartInit, UartType
<1>7. UartInit.rxFifo = << >> /\ UartInit.txFifo = << >>
  BY DEF UartInit
<1> QED
  BY <1>1, <1>2, <1>4, <1>6, <1>7 DEF UartOK

LEMMA PlainTypes ==
  ASSUME PlainInv, UartOK
  PROVE  TypeOK
<1>1. Sound(os) /\ os \in Kernel
  BY PlainIs DEF Sound
<1>2. Consistent(os.rdy) /\ \A e \in Ecb : Consistent(os.event[e].wait)
  BY <1>1 DEF Sound, BitsOK
<1>3. /\ os.cur \in Tcb \cup {Null} /\ os.prioCur \in Prio /\ os.lock \in 0 .. 255
      /\ \A t \in Tcb : /\ os.tcb[t].stat \subseteq Statuses
                        /\ os.tcb[t].pend \in {"OK", "TO", "ABORT"}
                        /\ os.tcb[t].dly \in Nat /\ os.tcb[t].prio \in Prio
  BY <1>1, Fields
<1>4. \A q \in Qcb : /\ os.queue[q].in \in 0 .. QSize - 1
                     /\ os.queue[q].out \in 0 .. QSize - 1
                     /\ os.queue[q].entries \in 0 .. QSize
  BY <1>1, Fields DEF RingType
<1>5. \A i, j \in DOMAIN os.freeEvent :
        /\ os.freeEvent[i] \notin Live
        /\ i # j => os.freeEvent[i] # os.freeEvent[j]
  BY <1>1 DEF Sound, PoolsOK, Once, Live
<1>6. \A i, j \in DOMAIN os.freeTcb :
        /\ os.freeTcb[i] \notin os.list
        /\ i # j => os.freeTcb[i] # os.freeTcb[j]
  BY <1>1 DEF Sound, PriosOK, Once
<1>7. \A i \in DOMAIN os.freeFlag : os.flag[os.freeFlag[i]].type = "UNUSED"
  BY <1>1 DEF Sound, PoolsOK
<1>8. /\ {uart.rxIn, uart.rxOut, uart.txIn, uart.txOut} \subseteq 0 .. BufLen - 1
      /\ Len(uart.rxFifo) <= FifoLen /\ Len(uart.txFifo) <= FifoLen
  BY DEF UartOK, UartType, Offset
<1> QED
  BY <1>2, <1>3, <1>4, <1>5, <1>6, <1>7, <1>8 DEF TypeOK

-----------------------------------------------------------------------------
(* What holds of every program that is plain, whatever its tasks, objects, *)
(* priorities and interrupts, and whatever the sizes of the tables.        *)

LEMMA NextKeepsProgram ==
  ASSUME [Next]_vars
  PROVE  UNCHANGED prog
<1>1. Boot => UNCHANGED prog
  BY DEF Boot, MakeObject, LaunchTask, Start
<1>2. Works => UNCHANGED prog
  BY StepKeepsProgram DEF Works, Interrupt, IrqHandler, Host
<1> QED
  BY <1>1, <1>2 DEF Next, vars

LEMMA NextMaintains ==
  ASSUME IInv, [Next]_vars
  PROVE  IInv'
<1>1. PlainInv /\ UartOK
  BY DEF IInv
<1>2. CASE Boot
  BY <1>1, <1>2, BootMaintains, BootUart DEF IInv
<1>3. CASE Works
  BY <1>1, <1>3, WorksMaintains, WorksUart DEF IInv
<1>4. CASE UNCHANGED vars
  <2>1. PlainInv'
    BY <1>1, <1>4, NothingMoves DEF vars
  <2>2. UartOK'
    BY <1>1, <1>4 DEF UartOK, vars
  <2> QED
    BY <2>1, <2>2 DEF IInv
<1> QED
  BY <1>2, <1>3, <1>4 DEF Next

(* Where every task stands in its call, what its control block says, the   *)
(* wait lists, the ready list and the free lists agree from OSInit on,     *)
(* after every critical section of the kernel, the HAL and the UART driver;*)
(* and the rings of the driver, and the offsets that read and write have   *)
(* taken from them before an interrupt moves the rings, stay inside the    *)
(* arrays.                                                                 *)
THEOREM Invariant == Spec => []PlainInOrder
<1>1. Init => PlainInOrder
  BY InitPlain, InitUart DEF PlainInOrder, IInv
<1>2. PlainInOrder /\ [Next]_vars => PlainInOrder'
  BY NextKeepsProgram, NextMaintains DEF PlainInOrder
<1> QED
  BY <1>1, <1>2, PTL DEF Spec

(* Bitmaps agree with their group bytes, rings stay inside their arrays,   *)
(* and free lists hold no element twice and nothing that is in use, so that*)
(* no object and no task is given to two callers.                          *)
THEOREM TypesTrue == Spec => [](prog \in PlainPrograms => TypeOK)
<1>1. PlainInOrder => (prog \in PlainPrograms => TypeOK)
  BY PlainTypes DEF PlainInOrder, IInv
<1> QED
  BY <1>1, Invariant, PTL

(* A wait list holds only tasks that wait: OS_EventTaskRdy, called for the *)
(* highest bit of OSEventTbl, finds a task that pends on that event or has *)
(* timed out and not run since, never one that went on long ago.           *)
THEOREM WaitListsTrue == Spec => [](prog \in PlainPrograms => WaitListTrue)
<1>1. PlainInOrder => (prog \in PlainPrograms => WaitListTrue)
  BY PlainWaitLists DEF PlainInOrder, IInv
<1> QED
  BY <1>1, Invariant, PTL

(* No task is lost: one that is not ready is delayed or suspended, or else *)
(* it stands in the list of every event it waits for, where a post, an     *)
(* abort or the tick's time-out finds it.                                  *)
THEOREM NoTaskIsLost == Spec => [](prog \in PlainPrograms => NoTaskLost)
<1>1. PlainInOrder => (prog \in PlainPrograms => NoTaskLost)
  BY PlainLosesNobody DEF PlainInOrder, IInv
<1> QED
  BY <1>1, Invariant, PTL

(* Nothing a task waits for lies idle: whatever the order of posts, pends, *)
(* time-outs and interrupts, nobody queues behind a count, a message or a  *)
(* set of flags that would satisfy him.                                    *)
THEOREM NothingLiesIdle == Spec => [](prog \in PlainPrograms => NothingIdle)
<1>1. PlainInOrder => (prog \in PlainPrograms => NothingIdle)
  BY PlainServes DEF PlainInOrder, IInv
<1> QED
  BY <1>1, Invariant, PTL

(* The highest ready task runs, wherever the scheduler is not locked, no   *)
(* switch is due and no post has asked for none: OS_Sched and OSIntExit    *)
(* are called wherever a task may have become ready.                       *)
THEOREM TheHighestRuns == Spec => [](prog \in PlainPrograms => HighestRuns)
<1>1. PlainInOrder => (prog \in PlainPrograms => HighestRuns)
  BY DEF PlainInOrder, IInv, PlainInv
<1> QED
  BY <1>1, Invariant, PTL
=============================================================================
