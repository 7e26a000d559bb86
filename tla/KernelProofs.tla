----------------------------- MODULE KernelProofs -----------------------------
(***************************************************************************)
(* What one critical section of the kernel does to the tasks: each service *)
(* that a plain program calls leaves the wait lists, the ready list and    *)
(* the control blocks in order, for every task and whatever it is in the   *)
(* middle of.  k is the kernel before the section, j the kernel after it.  *)
(*                                                                         *)
(* First the data structures that the kernel and the HAL are built from.   *)
(* The bitmaps are sets of priorities, for every value of OS_LOWEST_PRIO: a*)
(* bit that is set or cleared is one priority and nothing else, the group  *)
(* byte never loses a row, and the table lookup finds the smallest member. *)
(* The ring of a message queue is a bounded sequence, whatever its size    *)
(* and wherever it has wrapped.  And the alarms are exact for every width  *)
(* of the tick counter, across its wrap too.                               *)
(***************************************************************************)
EXTENDS FirmwareInv, TLAPS

(* A priority is its row and its bit, and nothing else is.                 *)
LEMMA RowAndBit ==
  ASSUME NEW p \in Prio
  PROVE  /\ OSTCBY(p) \in Row
         /\ OSTCBX(p) \in Bit
         /\ OSTCBY(p) * 8 + OSTCBX(p) = p
  BY BitmapAssumption DEF Prio, Row, Bit, OSTCBY, OSTCBX

(* The row and the bit written back give the priority they came from.      *)
LEMMA BackToRowAndBit ==
  ASSUME NEW y \in Row, NEW x \in Bit
  PROVE  OSTCBY(y * 8 + x) = y /\ OSTCBX(y * 8 + x) = x
  BY BitmapAssumption DEF Row, Bit, OSTCBY, OSTCBX

(* A bitmap's members are the priorities whose bit is set.                 *)
LEMMA BitsTest ==
  ASSUME NEW b, Consistent(b)
  PROVE  Bits(b) = {p \in Prio : TestBit(b, p)}
<1>1. \A y \in Row : b.tbl[y] \subseteq Bit
  BY DEF Consistent, Bitmap
<1>2. ASSUME NEW y \in Row, NEW x \in b.tbl[y]
      PROVE  y * 8 + x \in Prio /\ TestBit(b, y * 8 + x)
  BY <1>1, <1>2, BackToRowAndBit DEF Consistent, TestBit
<1>3. ASSUME NEW p \in Prio, TestBit(b, p)
      PROVE  \E y \in Row : \E x \in b.tbl[y] : y * 8 + x = p
  BY <1>3, RowAndBit DEF TestBit
<1>4. \A p : p \in Bits(b) <=> \E y \in Row : \E x \in b.tbl[y] : y * 8 + x = p
  BY DEF Bits
<1> QED
  BY <1>2, <1>3, <1>4

(* A bitmap's members, read from its rows.                                 *)
LEMMA BitsAreCells ==
  ASSUME NEW b, Consistent(b)
  PROVE  /\ \A y \in Row : \A x \in b.tbl[y] : y * 8 + x \in Bits(b)
         /\ \A p \in Bits(b) : OSTCBX(p) \in b.tbl[OSTCBY(p)]
<1>1. \A y \in Row : \A x \in b.tbl[y] : y * 8 + x \in Bits(b)
  BY DEF Bits
<1> QED
  BY <1>1, BitsTest DEF TestBit

(* Setting a bit adds that priority and no other, and keeps the group byte *)
(* in step with the table (OS_EventTaskWait, and every place that makes a  *)
(* task ready).                                                            *)
THEOREM SetBitAdds ==
  ASSUME NEW b, Consistent(b), NEW p \in Prio
  PROVE  Consistent(SetBit(b, p)) /\ Bits(SetBit(b, p)) = Bits(b) \cup {p}
<1> DEFINE c == SetBit(b, p)
<1>1. b \in Bitmap /\ OSTCBY(p) \in Row /\ OSTCBX(p) \in Bit
  BY RowAndBit DEF Consistent
<1>2. /\ c.grp = b.grp \cup {OSTCBY(p)}
      /\ c.tbl = [b.tbl EXCEPT ![OSTCBY(p)] = @ \cup {OSTCBX(p)}]
  BY DEF SetBit
<1>3. c \in Bitmap
  BY <1>1 DEF SetBit, Bitmap
<1>4. \A y \in Row : c.tbl[y] = IF y = OSTCBY(p) THEN b.tbl[y] \cup {OSTCBX(p)} ELSE b.tbl[y]
  BY <1>1, <1>2 DEF Bitmap
<1>5. c.grp = {y \in Row : c.tbl[y] # {}}
  BY <1>1, <1>2, <1>4 DEF Consistent
<1>6. \A y \in Row : \A x \in c.tbl[y] : y * 8 + x \in Prio
  BY <1>1, <1>4, RowAndBit DEF Consistent
<1>7. \A q \in Prio : TestBit(c, q) <=> (TestBit(b, q) \/ q = p)
  <2> TAKE q \in Prio
  <2>1. OSTCBY(q) \in Row /\ (OSTCBY(q) = OSTCBY(p) /\ OSTCBX(q) = OSTCBX(p) <=> q = p)
    BY RowAndBit
  <2> QED
    BY <2>1, <1>4 DEF TestBit
<1>8. Consistent(c)
  BY <1>3, <1>5, <1>6 DEF Consistent
<1>9. Bits(c) = Bits(b) \cup {p}
  BY <1>7, <1>8, BitsTest
<1> QED
  BY <1>8, <1>9

(* Clearing a bit removes that priority and no other, whether or not the   *)
(* row becomes empty (OS_EventTaskRemove, and every place that takes a     *)
(* task off the ready list).                                               *)
THEOREM ClearBitRemoves ==
  ASSUME NEW b, Consistent(b), NEW p \in Prio
  PROVE  Consistent(ClearBit(b, p)) /\ Bits(ClearBit(b, p)) = Bits(b) \ {p}
<1> DEFINE c == ClearBit(b, p)
           byte == b.tbl[OSTCBY(p)] \ {OSTCBX(p)}
<1>1. b \in Bitmap /\ OSTCBY(p) \in Row /\ OSTCBX(p) \in Bit
  BY RowAndBit DEF Consistent
<1>2. /\ c.grp = IF byte = {} THEN b.grp \ {OSTCBY(p)} ELSE b.grp
      /\ c.tbl = [b.tbl EXCEPT ![OSTCBY(p)] = byte]
  BY DEF ClearBit
<1>3. c \in Bitmap
  <2>1. b.tbl[OSTCBY(p)] \subseteq Bit
    BY <1>1 DEF Bitmap
  <2> QED
    BY <1>1, <2>1 DEF ClearBit, Bitmap
<1>4. \A y \in Row : c.tbl[y] = IF y = OSTCBY(p) THEN byte ELSE b.tbl[y]
  BY <1>1, <1>2 DEF Bitmap
<1>5. c.grp = {y \in Row : c.tbl[y] # {}}
  <2>1. CASE byte = {}
    BY <2>1, <1>1, <1>2, <1>4 DEF Consistent
  <2>2. CASE byte # {}
    BY <2>2, <1>1, <1>2, <1>4 DEF Consistent
  <2> QED
    BY <2>1, <2>2
<1>6. \A y \in Row : \A x \in c.tbl[y] : y * 8 + x \in Prio
  BY <1>4 DEF Consistent
<1>7. \A q \in Prio : TestBit(c, q) <=> (TestBit(b, q) /\ q # p)
  <2> TAKE q \in Prio
  <2>1. OSTCBY(q) \in Row /\ (OSTCBY(q) = OSTCBY(p) /\ OSTCBX(q) = OSTCBX(p) <=> q = p)
    BY RowAndBit
  <2> QED
    BY <2>1, <1>4 DEF TestBit
<1>8. Consistent(c)
  BY <1>3, <1>5, <1>6 DEF Consistent
<1>9. Bits(c) = Bits(b) \ {p}
  BY <1>7, <1>8, BitsTest
<1> QED
  BY <1>8, <1>9

(* A bitmap without bits is empty.                                         *)
LEMMA NoBitsEmpty == Consistent(NoBits) /\ Bits(NoBits) = {}
<1>1. \A y \in Row : NoBits.tbl[y] = {}
  BY DEF NoBits
<1>2. NoBits \in Bitmap /\ NoBits.grp = {}
  BY DEF NoBits, Bitmap
<1>3. \A p \in Prio : ~TestBit(NoBits, p)
  BY <1>1, RowAndBit DEF TestBit
<1>4. Consistent(NoBits)
  BY <1>1, <1>2 DEF Consistent
<1> QED
  BY <1>3, <1>4, BitsTest

(* Setting the bits of a set of priorities adds the set.                   *)
LEMMA SetBitsAdd ==
  ASSUME NEW b, Consistent(b), NEW P \in SUBSET Prio
  PROVE  Consistent(SetBits(b, P)) /\ Bits(SetBits(b, P)) = Bits(b) \cup P
<1> DEFINE c == SetBits(b, P)
<1>1. b \in Bitmap /\ \A p \in P : OSTCBY(p) \in Row /\ OSTCBX(p) \in Bit
  BY RowAndBit DEF Consistent
<1>2. /\ c.grp = b.grp \cup {OSTCBY(p) : p \in P}
      /\ \A y \in Row : c.tbl[y] =
           b.tbl[y] \cup {OSTCBX(p) : p \in {q \in P : OSTCBY(q) = y}}
  BY DEF SetBits
<1>3. c \in Bitmap
  <2>1. \A y \in Row : {OSTCBX(p) : p \in {q \in P : OSTCBY(q) = y}} \subseteq Bit
    BY <1>1
  <2> QED
    BY <1>1, <2>1 DEF SetBits, Bitmap
<1>4. c.grp = {y \in Row : c.tbl[y] # {}}
  <2>1. \A y \in Row : c.tbl[y] # {} <=>
          b.tbl[y] # {} \/ \E p \in P : OSTCBY(p) = y
    BY <1>2
  <2> QED
    BY <1>1, <1>2, <2>1 DEF Consistent
<1>5. \A y \in Row : \A x \in c.tbl[y] : y * 8 + x \in Prio
  BY <1>2, RowAndBit DEF Consistent
<1>6. \A q \in Prio : TestBit(c, q) <=> (TestBit(b, q) \/ q \in P)
  <2> TAKE q \in Prio
  <2>1. /\ OSTCBY(q) \in Row
        /\ \A p \in P : OSTCBY(q) = OSTCBY(p) /\ OSTCBX(q) = OSTCBX(p) => q = p
    BY RowAndBit
  <2> QED
    BY <2>1, <1>2 DEF TestBit
<1>7. Consistent(c)
  BY <1>3, <1>4, <1>5 DEF Consistent
<1> QED
  BY <1>6, <1>7, BitsTest

(* Clearing the bits of a set of priorities removes the set.               *)
LEMMA ClearBitsRemove ==
  ASSUME NEW b, Consistent(b), NEW P \in SUBSET Prio
  PROVE  Consistent(ClearBits(b, P)) /\ Bits(ClearBits(b, P)) = Bits(b) \ P
<1> DEFINE c == ClearBits(b, P)
<1>1. b \in Bitmap /\ \A p \in P : OSTCBY(p) \in Row /\ OSTCBX(p) \in Bit
  BY RowAndBit DEF Consistent
<1>2. /\ c.grp = b.grp \ {y \in {OSTCBY(p) : p \in P} : c.tbl[y] = {}}
      /\ \A y \in Row : c.tbl[y] =
           b.tbl[y] \ {OSTCBX(p) : p \in {q \in P : OSTCBY(q) = y}}
      /\ c.tbl \in [Row -> SUBSET Bit]
  <2>1. \A y \in Row : b.tbl[y] \subseteq Bit
    BY <1>1 DEF Bitmap
  <2> QED
    BY <2>1 DEF ClearBits
<1>3. c \in Bitmap
  BY <1>1, <1>2 DEF ClearBits, Bitmap
<1>4. c.grp = {y \in Row : c.tbl[y] # {}}
  <2> HIDE DEF c
  <2>1. ASSUME NEW y \in Row, \A p \in P : OSTCBY(p) # y
        PROVE  c.tbl[y] = b.tbl[y]
    <3>1. {OSTCBX(p) : p \in {q \in P : OSTCBY(q) = y}} = {}
      BY <2>1
    <3> QED
      BY <1>2, <3>1
  <2>2. \A y \in Row : c.tbl[y] \subseteq b.tbl[y]
    BY <1>2
  <2> QED
    BY <1>1, <1>2, <2>1, <2>2 DEF Consistent
<1>5. \A y \in Row : \A x \in c.tbl[y] : y * 8 + x \in Prio
  BY <1>2 DEF Consistent
<1>6. \A q \in Prio : TestBit(c, q) <=> (TestBit(b, q) /\ q \notin P)
  <2> TAKE q \in Prio
  <2>1. /\ OSTCBY(q) \in Row
        /\ \A p \in P : OSTCBY(q) = OSTCBY(p) /\ OSTCBX(q) = OSTCBX(p) => q = p
    BY RowAndBit
  <2> QED
    BY <2>1, <1>2 DEF TestBit
<1>7. Consistent(c)
  BY <1>3, <1>4, <1>5 DEF Consistent
<1> QED
  BY <1>6, <1>7, BitsTest

(* The table lookup gives the lowest bit of a byte that is not zero.       *)
LEMMA UnMapIsLowest ==
  ASSUME NEW S \in SUBSET Bit, S # {}
  PROVE  OSUnMapTbl(S) \in S /\ \A m \in S : OSUnMapTbl(S) <= m
<1>1. \E l \in S : \A m \in S : l <= m
  <2>1. \/ 0 \in S \/ 1 \in S \/ 2 \in S \/ 3 \in S
        \/ 4 \in S \/ 5 \in S \/ 6 \in S \/ 7 \in S
    <3>1. PICK m \in S : TRUE
      OBVIOUS
    <3>2. m \in 0 .. 7
      BY DEF Bit
    <3>3. m = 0 \/ m = 1 \/ m = 2 \/ m = 3 \/ m = 4 \/ m = 5 \/ m = 6 \/ m = 7
      BY <3>2
    <3> QED
      BY <3>1, <3>3
  <2>2. \A m \in S : m \in Int /\ 0 <= m /\ m <= 7
    BY DEF Bit
  <2>3. CASE 0 \in S
    BY <2>2, <2>3
  <2>4. CASE 0 \notin S /\ 1 \in S
    BY <2>2, <2>4
  <2>5. CASE 0 \notin S /\ 1 \notin S /\ 2 \in S
    BY <2>2, <2>5
  <2>6. CASE 0 \notin S /\ 1 \notin S /\ 2 \notin S /\ 3 \in S
    BY <2>2, <2>6
  <2>7. CASE {0, 1, 2, 3} \cap S = {} /\ 4 \in S
    BY <2>2, <2>7
  <2>8. CASE {0, 1, 2, 3, 4} \cap S = {} /\ 5 \in S
    BY <2>2, <2>8
  <2>9. CASE {0, 1, 2, 3, 4, 5} \cap S = {} /\ 6 \in S
    BY <2>2, <2>9
  <2>10. CASE {0, 1, 2, 3, 4, 5, 6} \cap S = {} /\ 7 \in S
    BY <2>2, <2>10
  <2> QED
    BY <2>1, <2>3, <2>4, <2>5, <2>6, <2>7, <2>8, <2>9, <2>10
<1> QED
  BY <1>1 DEF OSUnMapTbl

(* The two lookups of OS_SchedNew and OS_EventTaskRdy find the smallest    *)
(* priority number, which is the highest priority, of a set that is not    *)
(* empty.                                                                  *)
THEOREM HighestIsLeast ==
  ASSUME NEW b, Consistent(b), Bits(b) # {}
  PROVE  HighestPrio(b) \in Bits(b) /\ \A p \in Bits(b) : HighestPrio(b) <= p
<1> DEFINE y == OSUnMapTbl(b.grp)
           x == OSUnMapTbl(b.tbl[y])
<1>1. b \in Bitmap /\ b.grp = {r \in Row : b.tbl[r] # {}} /\ Row \subseteq Bit
  BY BitmapAssumption DEF Consistent, Row, Bit
<1>2. b.grp # {}
  <2>1. PICK p \in Bits(b) : TRUE
    OBVIOUS
  <2> QED
    BY <2>1, <1>1, BitsTest, BitsAreCells, RowAndBit
<1>3. y \in b.grp /\ \A r \in b.grp : y <= r
  BY <1>1, <1>2, UnMapIsLowest
<1>4. b.tbl[y] \in SUBSET Bit /\ b.tbl[y] # {}
  BY <1>1, <1>3 DEF Bitmap
<1>5. x \in b.tbl[y] /\ \A m \in b.tbl[y] : x <= m
  BY <1>4, UnMapIsLowest
<1>6. HighestPrio(b) = y * 8 + x
  BY DEF HighestPrio
<1>7. HighestPrio(b) \in Bits(b)
  BY <1>1, <1>3, <1>5, <1>6, BitsAreCells
<1>8. ASSUME NEW p \in Bits(b)
      PROVE  y * 8 + x <= p
  <2>1. /\ p \in Prio
        /\ OSTCBY(p) \in Row /\ OSTCBX(p) \in Bit
        /\ OSTCBY(p) * 8 + OSTCBX(p) = p
        /\ OSTCBX(p) \in b.tbl[OSTCBY(p)]
    BY RowAndBit, BitsTest, BitsAreCells
  <2>2. y <= OSTCBY(p)
    BY <1>1, <1>3, <2>1
  <2>3. y \in Bit /\ x \in Bit
    BY <1>1, <1>3, <1>4, <1>5
  <2>4. CASE y = OSTCBY(p)
    BY <2>1, <2>3, <2>4, <1>5 DEF Bit
  <2>5. CASE y < OSTCBY(p)
    <3>1. OSTCBY(p) \in Bit
      BY <1>1, <2>1
    <3> QED
      BY <2>1, <2>3, <2>5, <3>1 DEF Bit
  <2>6. OSTCBY(p) \in Int /\ y \in Int
    <3>1. OSTCBY(p) \in Bit
      BY <1>1, <2>1
    <3> QED
      BY <2>3, <3>1 DEF Bit
  <2> QED
    BY <2>2, <2>4, <2>5, <2>6
<1> QED
  BY <1>6, <1>7, <1>8

(* The group byte is not zero exactly when a bit is set.                   *)
LEMMA GroupTells ==
  ASSUME NEW b, Consistent(b)
  PROVE  b.grp # {} <=> Bits(b) # {}
<1>1. b.grp = {y \in Row : b.tbl[y] # {}}
  BY DEF Consistent
<1>2. ASSUME b.grp # {}
      PROVE  Bits(b) # {}
  BY <1>1, <1>2, BitsAreCells
<1>3. ASSUME Bits(b) # {}
      PROVE  b.grp # {}
  <2>1. PICK p \in Bits(b) : TRUE
    BY <1>3
  <2> QED
    BY <1>1, <2>1, BitsTest, BitsAreCells, RowAndBit
<1> QED
  BY <1>2, <1>3

(* The smallest member is what the lookup finds.                           *)
LEMMA LeastIsHighest ==
  ASSUME NEW b, Consistent(b), NEW p \in Bits(b), \A q \in Bits(b) : p <= q
  PROVE  HighestPrio(b) = p
<1>1. HighestPrio(b) \in Bits(b) /\ HighestPrio(b) <= p
  BY HighestIsLeast
<1>2. Bits(b) \subseteq Int
  BY BitsTest, BitmapAssumption DEF Prio
<1> QED
  BY <1>1, <1>2

-----------------------------------------------------------------------------
(* The ring of a message queue; its slots hold elements of Msg.             *)

Rings(size, Msg) == [buf : [0 .. size - 1 -> Msg], in : 0 .. size - 1,
               out : 0 .. size - 1, entries : 0 .. size, size : {size}]

(* OSQIn is as many slots after OSQOut as there are messages.              *)
RingOk(q, size, Msg) == q \in Rings(size, Msg) /\ q.in = Slot(size, q.out, q.entries)

(* A slot is in the buffer, and so are the ones before and after it.       *)
LEMMA SlotInside ==
  ASSUME NEW size \in Nat \ {0}, NEW off \in 0 .. size - 1
  PROVE  /\ \A i \in 0 .. size : Slot(size, off, i) \in 0 .. size - 1
         /\ After(size, off) \in 0 .. size - 1
         /\ Before(size, off) \in 0 .. size - 1
         /\ Slot(size, off, 0) = off
  BY DEF Slot, After, Before

(* Different places have different slots.                                  *)
LEMMA SlotDiffers ==
  ASSUME NEW size \in Nat \ {0}, NEW off \in 0 .. size - 1,
         NEW i \in 0 .. size - 1, NEW j \in 0 .. size - 1,
         Slot(size, off, i) = Slot(size, off, j)
  PROVE  i = j
  BY DEF Slot

(* One place further is one slot further, from either end.                 *)
LEMMA SlotMoves ==
  ASSUME NEW size \in Nat \ {0}, NEW off \in 0 .. size - 1, NEW i \in 0 .. size - 1
  PROVE  /\ After(size, Slot(size, off, i)) = Slot(size, off, i + 1)
         /\ Slot(size, After(size, off), i) = Slot(size, off, i + 1)
         /\ Slot(size, Before(size, off), i + 1) = Slot(size, off, i)
  BY DEF Slot, After, Before

(* The contents are the messages of the slots from OSQOut on.              *)
LEMMA ContentsOfRing ==
  ASSUME NEW Msg, NEW size \in Nat \ {0}, NEW q \in Rings(size, Msg)
  PROVE  /\ Contents(q) \in Seq(Msg)
         /\ Len(Contents(q)) = q.entries
         /\ \A i \in 1 .. q.entries :
              Contents(q)[i] = q.buf[Slot(size, q.out, i - 1)]
<1>1. /\ q.entries \in 0 .. size /\ q.out \in 0 .. size - 1 /\ q.size = size
      /\ q.buf \in [0 .. size - 1 -> Msg]
  BY DEF Rings
<1>2. \A i \in 1 .. q.entries : q.buf[Slot(size, q.out, i - 1)] \in Msg
  <2> TAKE i \in 1 .. q.entries
  <2>1. i - 1 \in 0 .. size
    BY <1>1
  <2>2. Slot(size, q.out, i - 1) \in 0 .. size - 1
    BY <1>1, <2>1, SlotInside
  <2> QED
    BY <1>1, <2>2
<1> QED
  BY <1>1, <1>2 DEF Contents

(* Two sequences of messages with equal lengths and members are equal.     *)
LEMMA SameSequence ==
  ASSUME NEW Msg, NEW s \in Seq(Msg), NEW t \in Seq(Msg), Len(s) = Len(t),
         \A i \in 1 .. Len(s) : s[i] = t[i]
  PROVE  s = t
  OBVIOUS

(* A new queue is empty.                                                   *)
THEOREM NewRingEmpty ==
  ASSUME NEW Msg, NEW size \in Nat \ {0}, NEW m \in Msg
  PROVE  RingOk(NewRing(size, m), size, Msg) /\ Contents(NewRing(size, m)) = << >>
<1> DEFINE q == NewRing(size, m)
<1>1. RingOk(q, size, Msg)
  BY DEF NewRing, Rings, RingOk, Slot
<1>2. q.entries = 0
  BY DEF NewRing
<1> QED
  BY <1>1, <1>2 DEF Contents

(* OSQPost on a queue that is not full puts the message last.              *)
THEOREM PutBackAppends ==
  ASSUME NEW Msg, NEW size \in Nat \ {0}, NEW q, RingOk(q, size, Msg), ~Full(q), NEW m \in Msg
  PROVE  /\ RingOk(PutBack(q, m), size, Msg)
         /\ Contents(PutBack(q, m)) = Append(Contents(q), m)
<1> DEFINE r == PutBack(q, m)
           n == q.entries
<1>1. /\ q \in Rings(size, Msg) /\ q.in \in 0 .. size - 1 /\ q.out \in 0 .. size - 1
      /\ n \in 0 .. size - 1 /\ q.in = Slot(size, q.out, n) /\ q.size = size
      /\ q.buf \in [0 .. size - 1 -> Msg]
  BY DEF Rings, RingOk, Full
<1>2. r \in Rings(size, Msg)
  <2>1. After(size, q.in) \in 0 .. size - 1
    BY <1>1, SlotInside
  <2>2. n + 1 \in 0 .. size
    BY <1>1
  <2>3. [q.buf EXCEPT ![q.in] = m] \in [0 .. size - 1 -> Msg]
    BY <1>1
  <2> QED
    BY <1>1, <2>1, <2>2, <2>3 DEF Rings, PutBack
<1>3. /\ r.buf = [q.buf EXCEPT ![q.in] = m] /\ r.in = After(size, q.in)
      /\ r.out = q.out /\ r.entries = n + 1
  BY <1>1 DEF Rings, PutBack
<1>4. RingOk(r, size, Msg)
  <2>1. After(size, Slot(size, q.out, n)) = Slot(size, q.out, n + 1)
    BY <1>1, SlotMoves
  <2> QED
    BY <1>1, <1>2, <1>3, <2>1 DEF RingOk
<1>5. \A i \in 1 .. n + 1 : r.buf[Slot(size, r.out, i - 1)] =
                              IF i = n + 1 THEN m ELSE q.buf[Slot(size, q.out, i - 1)]
  <2> TAKE i \in 1 .. n + 1
  <2>1. i - 1 \in 0 .. size - 1 /\ (i - 1 = n <=> i = n + 1)
    BY <1>1
  <2>2. Slot(size, q.out, i - 1) \in 0 .. size - 1
    <3>1. i - 1 \in 0 .. size
      BY <2>1
    <3> QED
      BY <1>1, <3>1, SlotInside
  <2>3. Slot(size, q.out, i - 1) = q.in <=> i = n + 1
    <3>1. Slot(size, q.out, i - 1) = Slot(size, q.out, n) => i - 1 = n
      BY <1>1, <2>1, SlotDiffers
    <3> QED
      BY <1>1, <2>1, <3>1
  <2> QED
    BY <1>1, <1>3, <2>2, <2>3
<1>6. Contents(r) = Append(Contents(q), m)
  <2> HIDE DEF r
  <2>1. /\ Append(Contents(q), m) \in Seq(Msg)
        /\ Len(Append(Contents(q), m)) = n + 1
        /\ \A i \in 1 .. n + 1 : Append(Contents(q), m)[i] =
              IF i = n + 1 THEN m ELSE q.buf[Slot(size, q.out, i - 1)]
    BY <1>1, ContentsOfRing
  <2>2. /\ Contents(r) \in Seq(Msg) /\ Len(Contents(r)) = n + 1
        /\ \A i \in 1 .. n + 1 : Contents(r)[i] = r.buf[Slot(size, r.out, i - 1)]
    <3>1. /\ Contents(r) \in Seq(Msg) /\ Len(Contents(r)) = r.entries
          /\ \A i \in 1 .. r.entries :
               Contents(r)[i] = r.buf[Slot(size, r.out, i - 1)]
      BY <1>2, ContentsOfRing
    <3> QED
      BY <3>1, <1>3
  <2> QED
    BY <1>5, <2>1, <2>2, SameSequence
<1> QED
  BY <1>4, <1>6

(* OSQPostFront, and OSQPostOpt with OS_POST_OPT_FRONT, put it first.      *)
THEOREM PutFrontPrepends ==
  ASSUME NEW Msg, NEW size \in Nat \ {0}, NEW q, RingOk(q, size, Msg), ~Full(q), NEW m \in Msg
  PROVE  /\ RingOk(PutFront(q, m), size, Msg)
         /\ Contents(PutFront(q, m)) = << m >> \o Contents(q)
<1> DEFINE r == PutFront(q, m)
           n == q.entries
           slot == Before(size, q.out)
<1>1. /\ q \in Rings(size, Msg) /\ q.in \in 0 .. size - 1 /\ q.out \in 0 .. size - 1
      /\ n \in 0 .. size - 1 /\ q.in = Slot(size, q.out, n) /\ q.size = size
      /\ q.buf \in [0 .. size - 1 -> Msg] /\ slot \in 0 .. size - 1
  <2>1. /\ q \in Rings(size, Msg) /\ q.in \in 0 .. size - 1 /\ q.out \in 0 .. size - 1
        /\ n \in 0 .. size - 1 /\ q.in = Slot(size, q.out, n) /\ q.size = size
        /\ q.buf \in [0 .. size - 1 -> Msg]
    BY DEF Rings, RingOk, Full
  <2> QED
    BY <2>1, SlotInside
<1>2. r \in Rings(size, Msg)
  <2>1. n + 1 \in 0 .. size
    BY <1>1
  <2>2. [q.buf EXCEPT ![slot] = m] \in [0 .. size - 1 -> Msg]
    BY <1>1
  <2> QED
    BY <1>1, <2>1, <2>2 DEF Rings, PutFront
<1>3. /\ r.buf = [q.buf EXCEPT ![slot] = m] /\ r.in = q.in
      /\ r.out = slot /\ r.entries = n + 1
  BY <1>1 DEF Rings, PutFront
<1>4. RingOk(r, size, Msg)
  <2>1. Slot(size, slot, n + 1) = Slot(size, q.out, n)
    BY <1>1, SlotMoves
  <2> QED
    BY <1>1, <1>2, <1>3, <2>1 DEF RingOk
<1>5. \A i \in 1 .. n + 1 : r.buf[Slot(size, r.out, i - 1)] =
                              IF i = 1 THEN m ELSE q.buf[Slot(size, q.out, i - 2)]
  <2> TAKE i \in 1 .. n + 1
  <2>1. i - 1 \in 0 .. size - 1 /\ (i - 1 = 0 <=> i = 1)
    BY <1>1
  <2>2. Slot(size, slot, i - 1) \in 0 .. size - 1
    <3>1. i - 1 \in 0 .. size
      BY <2>1
    <3> QED
      BY <1>1, <3>1, SlotInside
  <2>3. Slot(size, slot, i - 1) = slot <=> i = 1
    <3>1. Slot(size, slot, 0) = slot /\ 0 \in 0 .. size - 1
      BY <1>1, SlotInside
    <3>2. Slot(size, slot, i - 1) = Slot(size, slot, 0) => i - 1 = 0
      BY <1>1, <2>1, <3>1, SlotDiffers
    <3> QED
      BY <2>1, <3>1, <3>2
  <2>4. i # 1 => Slot(size, slot, i - 1) = Slot(size, q.out, i - 2)
    <3>1. i # 1 => i - 2 \in 0 .. size - 1 /\ (i - 2) + 1 = i - 1
      BY <1>1
    <3>2. i # 1 => Slot(size, slot, (i - 2) + 1) = Slot(size, q.out, i - 2)
      BY <1>1, <3>1, SlotMoves
    <3> QED
      BY <3>1, <3>2
  <2> QED
    BY <1>1, <1>3, <2>2, <2>3, <2>4
<1>6. Contents(r) = << m >> \o Contents(q)
  <2> HIDE DEF r
  <2>1. /\ << m >> \o Contents(q) \in Seq(Msg)
        /\ Len(<< m >> \o Contents(q)) = n + 1
        /\ \A i \in 1 .. n + 1 : (<< m >> \o Contents(q))[i] =
              IF i = 1 THEN m ELSE q.buf[Slot(size, q.out, i - 2)]
    <3>1. /\ Contents(q) \in Seq(Msg) /\ Len(Contents(q)) = n
          /\ \A i \in 1 .. n : Contents(q)[i] = q.buf[Slot(size, q.out, i - 1)]
      BY <1>1, ContentsOfRing
    <3>2. \A i \in 2 .. n + 1 : Contents(q)[i - 1] = q.buf[Slot(size, q.out, i - 2)]
      <4> TAKE i \in 2 .. n + 1
      <4>1. i - 1 \in 1 .. n /\ (i - 1) - 1 = i - 2
        BY <1>1
      <4> QED
        BY <3>1, <4>1
    <3> QED
      BY <1>1, <3>1, <3>2
  <2>2. /\ Contents(r) \in Seq(Msg) /\ Len(Contents(r)) = n + 1
        /\ \A i \in 1 .. n + 1 : Contents(r)[i] = r.buf[Slot(size, r.out, i - 1)]
    <3>1. /\ Contents(r) \in Seq(Msg) /\ Len(Contents(r)) = r.entries
          /\ \A i \in 1 .. r.entries :
               Contents(r)[i] = r.buf[Slot(size, r.out, i - 1)]
      BY <1>2, ContentsOfRing
    <3> QED
      BY <3>1, <1>3
  <2>3. \A i \in 1 .. n + 1 : Contents(r)[i] = (<< m >> \o Contents(q))[i]
    BY <1>5, <2>1, <2>2
  <2> QED
    BY <2>1, <2>2, <2>3, SameSequence
<1> QED
  BY <1>4, <1>6

(* OSQPend and OSQAccept give the oldest message and keep the others in    *)
(* order.                                                                  *)
THEOREM TakeFrontIsTail ==
  ASSUME NEW Msg, NEW size \in Nat \ {0}, NEW q, RingOk(q, size, Msg), q.entries > 0
  PROVE  /\ RingOk(TakeFront(q), size, Msg)
         /\ Front(q) = Head(Contents(q))
         /\ Contents(TakeFront(q)) = Tail(Contents(q))
<1> DEFINE r == TakeFront(q)
           n == q.entries
<1>1. /\ q \in Rings(size, Msg) /\ q.in \in 0 .. size - 1 /\ q.out \in 0 .. size - 1
      /\ n \in 1 .. size /\ q.in = Slot(size, q.out, n) /\ q.size = size
      /\ q.buf \in [0 .. size - 1 -> Msg]
  BY DEF Rings, RingOk
<1>2. r \in Rings(size, Msg)
  <2>1. After(size, q.out) \in 0 .. size - 1
    BY <1>1, SlotInside
  <2>2. n - 1 \in 0 .. size
    BY <1>1
  <2> QED
    BY <1>1, <2>1, <2>2 DEF Rings, TakeFront
<1>3. r.buf = q.buf /\ r.in = q.in /\ r.out = After(size, q.out) /\ r.entries = n - 1
  BY <1>1 DEF Rings, TakeFront
<1>4. RingOk(r, size, Msg)
  <2>1. n - 1 \in 0 .. size - 1 /\ (n - 1) + 1 = n
    BY <1>1
  <2>2. Slot(size, After(size, q.out), n - 1) = Slot(size, q.out, (n - 1) + 1)
    BY <1>1, <2>1, SlotMoves
  <2> QED
    BY <1>1, <1>2, <1>3, <2>1, <2>2 DEF RingOk
<1>5. /\ Contents(q) \in Seq(Msg) /\ Len(Contents(q)) = n
      /\ \A i \in 1 .. n : Contents(q)[i] = q.buf[Slot(size, q.out, i - 1)]
  BY <1>1, ContentsOfRing
<1>6. Front(q) = Head(Contents(q))
  <2>1. 1 \in 1 .. n /\ Contents(q)[1] = q.buf[Slot(size, q.out, 0)]
    <3>1. 1 \in 1 .. n /\ 1 - 1 = 0
      BY <1>1
    <3>2. Contents(q)[1] = q.buf[Slot(size, q.out, 1 - 1)]
      BY <1>5, <3>1
    <3> QED
      BY <3>1, <3>2
  <2>2. Slot(size, q.out, 0) = q.out
    BY <1>1, SlotInside
  <2>3. Head(Contents(q)) = Contents(q)[1]
    BY <1>1, <1>5
  <2> QED
    BY <2>1, <2>2, <2>3 DEF Front
<1>7. Contents(r) = Tail(Contents(q))
  <2>1. /\ Tail(Contents(q)) \in Seq(Msg) /\ Len(Tail(Contents(q))) = n - 1
        /\ \A i \in 1 .. n - 1 : Tail(Contents(q))[i] = Contents(q)[i + 1]
    BY <1>1, <1>5
  <2>2. /\ Contents(r) \in Seq(Msg) /\ Len(Contents(r)) = n - 1
        /\ \A i \in 1 .. n - 1 : Contents(r)[i] = r.buf[Slot(size, r.out, i - 1)]
    BY <1>2, <1>3, ContentsOfRing
  <2>3. \A i \in 1 .. n - 1 : Contents(r)[i] = Tail(Contents(q))[i]
    <3> TAKE i \in 1 .. n - 1
    <3>1. i - 1 \in 0 .. size - 1 /\ (i - 1) + 1 = i /\ i + 1 \in 1 .. n
          /\ (i + 1) - 1 = i
      BY <1>1
    <3>2. Slot(size, r.out, i - 1) = Slot(size, q.out, i)
      <4>1. Slot(size, After(size, q.out), i - 1) = Slot(size, q.out, (i - 1) + 1)
        BY <1>1, <3>1, SlotMoves
      <4> QED
        BY <1>3, <3>1, <4>1
    <3>3. Contents(q)[i + 1] = q.buf[Slot(size, q.out, (i + 1) - 1)]
      BY <1>5, <3>1
    <3> QED
      BY <1>3, <2>1, <2>2, <3>1, <3>2, <3>3
  <2> QED
    BY <2>1, <2>2, <2>3, SameSequence
<1> QED
  BY <1>4, <1>6, <1>7

(* OSQFlush leaves an empty queue that can be used again.                  *)
THEOREM FlushEmpties ==
  ASSUME NEW Msg, NEW size \in Nat \ {0}, NEW q, RingOk(q, size, Msg)
  PROVE  RingOk(FlushRing(q), size, Msg) /\ Contents(FlushRing(q)) = << >>
<1> DEFINE r == FlushRing(q)
<1>1. r \in Rings(size, Msg)
  <2>1. 0 \in 0 .. size - 1 /\ 0 \in 0 .. size
    OBVIOUS
  <2> QED
    BY <2>1 DEF RingOk, Rings, FlushRing
<1>2. r.in = 0 /\ r.out = 0 /\ r.entries = 0
  BY DEF RingOk, Rings, FlushRing
<1>3. RingOk(r, size, Msg)
  BY <1>1, <1>2 DEF RingOk, Slot
<1> QED
  BY <1>2, <1>3 DEF Contents

-----------------------------------------------------------------------------
(* The alarms of the HAL.                                                  *)

LEMMA WrapCases ==
    \A n \in Int : 0 <= n /\ n <= 2 * TickMod - 1 =>
       /\ n < TickMod => Wrap(n) = n
       /\ n >= TickMod => Wrap(n) = n - TickMod
  BY TickModAssumption, SMTT(30) DEF Wrap

LEMMA NextTickCases ==
    ASSUME NEW now \in Ticks
    PROVE  /\ NextTick(now) = IF now = TickMod - 1 THEN 0 ELSE now + 1
           /\ NextTick(now) \in Ticks
<1>1. now + 1 \in Nat /\ now + 1 <= 2 * TickMod - 1
  BY TickModAssumption DEF Ticks
<1>2. Wrap(now + 1) = IF now + 1 < TickMod THEN now + 1 ELSE now + 1 - TickMod
  BY <1>1, WrapCases, TickModAssumption DEF Ticks
<1> QED  BY <1>2, TickModAssumption DEF NextTick, Ticks

(* Starting an alarm sets it for the ticks asked for and one more.         *)
THEOREM StartIsDue ==
    ASSUME NEW now \in Ticks, NEW nticks \in 0 .. TickMod - 2
    PROVE  Due(alt_alarm_start(nticks, now), now, nticks + 1)
<1>1. nticks + now + 1 \in Nat /\ nticks + now + 1 <= 2 * TickMod - 1
  BY TickModAssumption DEF Ticks
<1>2. Wrap(nticks + now + 1) =
         IF nticks + now + 1 < TickMod THEN nticks + now + 1
         ELSE nticks + now + 1 - TickMod
  BY <1>1, WrapCases, TickModAssumption DEF Ticks
<1>3. now + (nticks + 1) = nticks + now + 1
  BY TickModAssumption DEF Ticks
<1> QED
  BY <1>2, <1>3, TickModAssumption DEF alt_alarm_start, Due, Ticks

(* A tick that is not the last one an alarm waits for leaves it uncalled,  *)
(* with one tick less to go.                                               *)
THEOREM TickCountsDown ==
    ASSUME NEW now \in Ticks, NEW left \in 2 .. TickMod - 1, NEW next,
           NEW a \in [time : Ticks, rollover : BOOLEAN],
           Due(a, now, left)
    PROVE  /\ ~Fires(a, NextTick(now))
           /\ Due(alt_tick(a, NextTick(now), next), NextTick(now), left - 1)
<1>1. now + left \in Nat /\ now + left <= 2 * TickMod - 1
  BY TickModAssumption DEF Ticks
<1>2. a.time = IF now + left < TickMod THEN now + left ELSE now + left - TickMod
  BY <1>1, WrapCases, TickModAssumption DEF Due, Ticks
<1>3. a.rollover = (now + left >= TickMod)
  BY DEF Due
<1>4. NextTick(now) + (left - 1) \in Nat
  BY NextTickCases, TickModAssumption DEF Ticks
<1>5. Wrap(NextTick(now) + (left - 1)) = a.time
  <2>1. CASE now = TickMod - 1
    BY <2>1, <1>2, <1>4, NextTickCases, WrapCases, TickModAssumption DEF Ticks
  <2>2. CASE now # TickMod - 1
    <3>1. NextTick(now) + (left - 1) = now + left
      BY <2>2, NextTickCases, TickModAssumption DEF Ticks
    <3> QED  BY <3>1 DEF Due
  <2> QED  BY <2>1, <2>2
<1>6. ~Fires(a, NextTick(now))
  BY <1>2, <1>3, NextTickCases, TickModAssumption DEF Fires, Unroll, Ticks
<1>7. Unroll(a, NextTick(now)).time = a.time
  BY DEF Unroll
<1>8. Unroll(a, NextTick(now)).rollover
        = (NextTick(now) + (left - 1) >= TickMod)
  BY <1>3, NextTickCases, TickModAssumption DEF Unroll, Ticks
<1> QED
  BY <1>5, <1>6, <1>7, <1>8, TickModAssumption DEF alt_tick, Due

(* The last tick calls it, and its callback's result is the time to the    *)
(* next call.                                                              *)
THEOREM LastTickFires ==
    ASSUME NEW now \in Ticks, NEW next \in 1 .. TickMod - 1,
           NEW a \in [time : Ticks, rollover : BOOLEAN],
           Due(a, now, 1)
    PROVE  /\ Fires(a, NextTick(now))
           /\ Due(alt_tick(a, NextTick(now), next), NextTick(now), next)
<1>1. a.time = NextTick(now)
  BY DEF Due, NextTick
<1>2. a.rollover = (now + 1 >= TickMod)
  BY DEF Due
<1>3. Fires(a, NextTick(now))
  <2>1. ~Unroll(a, NextTick(now)).rollover
    <3>1. NextTick(now) = 0 \/ a.rollover = FALSE
      BY <1>2, NextTickCases, TickModAssumption DEF Ticks
    <3>2. Unroll(a, NextTick(now)).rollover = (a.rollover /\ NextTick(now) # 0)
      BY DEF Unroll
    <3> QED  BY <3>1, <3>2
  <2>2. a.time <= NextTick(now)
    BY <1>1, NextTickCases, TickModAssumption DEF Ticks
  <2> QED  BY <2>1, <2>2 DEF Fires
<1>4. NextTick(now) + next \in Nat
  BY NextTickCases, TickModAssumption DEF Ticks
<1>5. Wrap(a.time + next) =
        IF NextTick(now) + next < TickMod THEN NextTick(now) + next
        ELSE NextTick(now) + next - TickMod
  BY <1>1, <1>4, WrapCases, NextTickCases, TickModAssumption DEF Ticks
<1>6. Due(Rearm(a, NextTick(now), next), NextTick(now), next)
  BY <1>1, <1>5, NextTickCases, TickModAssumption DEF Rearm, Due, Ticks
<1> QED
  BY <1>3, <1>6 DEF alt_tick

-----------------------------------------------------------------------------
(* The tasks.                                                              *)

Sound(k) == k \in Kernel /\ PriosOK(k) /\ BitsOK(k) /\ PoolsOK(k) /\ ServedOK(k)

(* Who there is stays: tasks and their priorities, objects and pools.      *)
SameParts(k, j) ==
    /\ j.list = k.list /\ j.prioTbl = k.prioTbl /\ j.freeTcb = k.freeTcb
    /\ j.freeEvent = k.freeEvent /\ j.freeFlag = k.freeFlag /\ j.freeQ = k.freeQ
    /\ \A t \in Tcb : j.tcb[t].prio = k.tcb[t].prio
    /\ \A e \in Ecb : j.event[e].type = k.event[e].type
    /\ \A e \in Ecb : k.event[e].type = "Q" => j.event[e].ptr = k.event[e].ptr
    /\ \A g \in Fgp : j.flag[g].type = k.flag[g].type

(* What is in use keeps its type.                                          *)
KeepsTypes(k, j) ==
    /\ \A e \in Ecb : k.event[e].type # "UNUSED" => j.event[e].type = k.event[e].type
    /\ \A g \in Fgp : k.flag[g].type # "UNUSED" => j.flag[g].type = k.flag[g].type

(* The tasks of U are where they were, whatever they are in the middle of. *)
Undisturbed(k, j, U) ==
    \A u \in U : \A l, ev : TaskOK(k, u, l, ev) => TaskOK(j, u, l, ev)

-----------------------------------------------------------------------------

(* The fields of a kernel.                                                 *)
LEMMA Fields ==
  ASSUME NEW k \in Kernel
  PROVE  /\ k.list \subseteq Tcb
         /\ \A t \in Tcb : /\ k.tcb[t] \in TcbType
                           /\ k.tcb[t].prio \in Prio /\ k.tcb[t].stat \subseteq Statuses
                           /\ k.tcb[t].pend \in {"OK", "TO", "ABORT"}
                           /\ k.tcb[t].dly \in Nat /\ k.tcb[t].multi \subseteq Ecb
                           /\ k.tcb[t].event \in Ecb \cup {Null}
                           /\ k.tcb[t].node \in NodeType
         /\ \A e \in Ecb : /\ k.event[e] \in EventType
                           /\ k.event[e].type \in EventTypes \cup {"UNUSED"}
                           /\ k.event[e].cnt \in Nat /\ k.event[e].ptr \in Int
         /\ \A g \in Fgp : /\ k.flag[g] \in GroupType
                           /\ k.flag[g].type \in {"UNUSED", "FLAG"}
                           /\ k.flag[g].wait \subseteq Tcb
         /\ k.cur \in Tcb \cup {Null} /\ k.prioCur \in Prio /\ k.lock \in 0 .. 255
         /\ \A q \in Qcb : k.queue[q] \in RingType
         /\ \A p \in Prio : k.prioTbl[p] \in Tcb \cup {Null}
  BY DEF Kernel, TcbType, EventType, GroupType

LEMMA Sets ==
  ASSUME NEW k \in Kernel
  PROVE  /\ k.rdy \in Bitmap /\ k.tcb \in [Tcb -> TcbType]
         /\ k.event \in [Ecb -> EventType] /\ k.flag \in [Fgp -> GroupType]
         /\ k.queue \in [Qcb -> RingType]
  BY DEF Kernel

(* A task's view of the kernel is all that its place depends on.           *)
LEMMA Frame ==
  ASSUME NEW k, NEW j, NEW u, KeepsTypes(k, j),
         j.tcb[u].stat = k.tcb[u].stat, j.tcb[u].pend = k.tcb[u].pend,
         j.tcb[u].dly = k.tcb[u].dly, j.tcb[u].event = k.tcb[u].event,
         j.tcb[u].multi = k.tcb[u].multi, j.tcb[u].node = k.tcb[u].node,
         IsReady(j, u) <=> IsReady(k, u), Lists(j, u) = Lists(k, u),
         Groups(j, u) = Groups(k, u)
  PROVE  Undisturbed(k, j, {u})
<1> SUFFICES ASSUME NEW l, NEW ev, TaskOK(k, u, l, ev)
             PROVE  TaskOK(j, u, l, ev)
  BY DEF Undisturbed
<1>1. ASSUME l = "none"
      PROVE  WaitsForNothing(j, u)
  BY <1>1 DEF TaskOK, WaitsForNothing
<1>2. ASSUME l \in {"SemPended", "MboxPended", "QPended"}
      PROVE  WaitsForOne(j, u, KindOf(l), ev)
  <2>1. KindOf(l) # "UNUSED"
    BY <1>2 DEF KindOf
  <2>2. WaitsForOne(k, u, KindOf(l), ev)
    BY <1>2 DEF TaskOK
  <2> QED
    BY <2>1, <2>2 DEF WaitsForOne, KeepsTypes
<1>3. ASSUME l = "FlagPended"
      PROVE  WaitsForFlags(j, u, ev)
  <2>1. WaitsForFlags(k, u, ev)
    BY <1>3 DEF TaskOK
  <2> QED
    BY <2>1 DEF WaitsForFlags, KeepsTypes
<1>4. ASSUME l = "MultiPended"
      PROVE  WaitsForAny(j, u, ev)
  <2>1. WaitsForAny(k, u, ev)
    BY <1>4 DEF TaskOK
  <2>2. \A e \in ev : j.event[e].type = k.event[e].type
    BY <2>1 DEF WaitsForAny, KeepsTypes, EventTypes
  <2>3. {j.event[e].type : e \in ev} = {k.event[e].type : e \in ev}
    BY <2>2
  <2> QED
    BY <2>1, <2>2, <2>3 DEF WaitsForAny
<1> QED
  BY <1>1, <1>2, <1>3, <1>4 DEF TaskOK

(* Priorities tell tasks apart.                                            *)
LEMMA OwnPriority ==
  ASSUME NEW k \in Kernel, PriosOK(k), NEW t \in k.list, NEW u \in k.list
  PROVE  /\ k.tcb[t].prio \in Prio /\ k.prioTbl[k.tcb[t].prio] = t
         /\ k.tcb[t].prio = k.tcb[u].prio => t = u
  BY Fields DEF PriosOK

(* The tables of priorities and the pools stay in order when who there is  *)
(* stays and bits are set only for tasks and in lists that are in use.     *)
LEMMA PartsKept ==
  ASSUME NEW k, Sound(k), NEW j \in Kernel, SameParts(k, j),
         Consistent(j.rdy), IdlePrio \in Bits(j.rdy),
         \A p \in Bits(j.rdy) : k.prioTbl[p] # Null,
         \A e \in Ecb : Consistent(j.event[e].wait),
         \A e \in Ecb : \A p \in Bits(j.event[e].wait) :
            p \notin Bits(k.event[e].wait) =>
              k.prioTbl[p] # Null /\ k.event[e].type # "UNUSED",
         \A g \in Fgp : \A t \in j.flag[g].wait :
            t \notin k.flag[g].wait => t \in k.list /\ k.flag[g].type # "UNUSED"
  PROVE  PriosOK(j) /\ BitsOK(j) /\ PoolsOK(j)
<1>1. k \in Kernel /\ PriosOK(k) /\ BitsOK(k) /\ PoolsOK(k)
  BY DEF Sound
<1>2. PriosOK(j)
  BY <1>1, Fields DEF PriosOK, SameParts
<1>3. BitsOK(j)
  <2>1. \A e \in Ecb : \A p \in Bits(j.event[e].wait) : j.prioTbl[p] # Null
    BY <1>1 DEF BitsOK, SameParts
  <2>2. \A g \in Fgp : j.flag[g].wait \subseteq j.list
    BY <1>1 DEF BitsOK, SameParts
  <2> QED
    BY <1>1, <2>1, <2>2 DEF BitsOK, SameParts
<1>4. PoolsOK(j)
  <2>1. \A e \in Ecb : j.event[e].type = "UNUSED" => Bits(j.event[e].wait) = {}
    BY <1>1 DEF PoolsOK, SameParts
  <2>2. \A g \in Fgp : j.flag[g].type = "UNUSED" => j.flag[g].wait = {}
    BY <1>1 DEF PoolsOK, SameParts
  <2>3. /\ \A i \in DOMAIN k.freeEvent : k.freeEvent[i] \in Ecb
        /\ \A i \in DOMAIN k.freeFlag : k.freeFlag[i] \in Fgp
    BY <1>1 DEF Kernel
  <2>4. /\ \A i \in DOMAIN j.freeEvent : j.event[j.freeEvent[i]].type = "UNUSED"
        /\ \A i \in DOMAIN j.freeFlag : j.flag[j.freeFlag[i]].type = "UNUSED"
    BY <1>1, <2>3 DEF PoolsOK, SameParts
  <2>5. \A e \in Ecb : j.event[e].type = "Q" =>
          /\ j.event[e].ptr \in Qcb
          /\ \A i \in DOMAIN j.freeQ : j.freeQ[i] # j.event[e].ptr
          /\ \A f \in Ecb : j.event[f].type = "Q" /\ j.event[f].ptr = j.event[e].ptr =>
               e = f
    BY <1>1 DEF PoolsOK, SameParts
  <2> QED
    BY <1>1, <2>1, <2>2, <2>4, <2>5 DEF PoolsOK, SameParts
<1> QED
  BY <1>2, <1>3, <1>4

(* The step changes no more than the ready list, control blocks, rings and *)
(* what objects contain.                                                   *)
SameRest(k, j) ==
    /\ j.lock = k.lock /\ j.cur = k.cur /\ j.prioCur = k.prioCur
    /\ j.prioTbl = k.prioTbl /\ j.list = k.list /\ j.freeTcb = k.freeTcb
    /\ j.freeEvent = k.freeEvent /\ j.freeFlag = k.freeFlag /\ j.freeQ = k.freeQ

(* Only task t is touched: its control block, its bits and its nodes.      *)
SoloEvent(k, j, p, e) ==
    /\ j.event[e].type = k.event[e].type
    /\ k.event[e].type = "Q" => j.event[e].ptr = k.event[e].ptr
    /\ Consistent(j.event[e].wait)
    /\ Bits(j.event[e].wait) \ {p} = Bits(k.event[e].wait) \ {p}
    /\ k.event[e].type = "UNUSED" => p \notin Bits(j.event[e].wait)

SoloGroup(k, j, t, g) ==
    /\ j.flag[g].type = k.flag[g].type
    /\ j.flag[g].wait \ {t} = k.flag[g].wait \ {t}
    /\ k.flag[g].type = "UNUSED" => t \notin j.flag[g].wait

Solo(k, j, t) ==
    /\ j \in Kernel /\ SameRest(k, j)
    /\ \A u \in Tcb : u # t => j.tcb[u] = k.tcb[u]
    /\ j.tcb[t].prio = k.tcb[t].prio
    /\ Consistent(j.rdy) /\ IdlePrio \in Bits(j.rdy)
    /\ Bits(j.rdy) \ {k.tcb[t].prio} = Bits(k.rdy) \ {k.tcb[t].prio}
    /\ \A e \in Ecb : SoloEvent(k, j, k.tcb[t].prio, e)
    /\ \A g \in Fgp : SoloGroup(k, j, t, g)

(* The kernel is in order after the step, and so are all tasks but those   *)
(* of T.                                                                   *)
Orderly(k, j, T) ==
    /\ Sound(j) /\ SameParts(k, j) /\ SameRest(k, j)
    /\ Undisturbed(k, j, k.list \ T)

LEMMA SoloOrderly ==
  ASSUME NEW k, Sound(k), NEW j, NEW t \in k.list, Solo(k, j, t), ServedOK(j)
  PROVE  Orderly(k, j, {t})
<1> DEFINE p == k.tcb[t].prio
<1>1. k \in Kernel /\ PriosOK(k) /\ BitsOK(k) /\ PoolsOK(k) /\ t \in Tcb
  BY Fields DEF Sound
<1>2. p \in Prio /\ k.prioTbl[p] = t /\ t # Null
  BY <1>1, OwnPriority DEF Tcb, Null
<1>3. SameParts(k, j)
  BY DEF Solo, SoloEvent, SoloGroup, SameRest, SameParts
<1>4. \A q \in Bits(j.rdy) : k.prioTbl[q] # Null
  BY <1>1, <1>2 DEF BitsOK, Solo
<1>5. \A e \in Ecb : \A q \in Bits(j.event[e].wait) :
         q \notin Bits(k.event[e].wait) => k.prioTbl[q] # Null /\ k.event[e].type # "UNUSED"
  BY <1>2 DEF Solo, SoloEvent
<1>6. \A g \in Fgp : \A u \in j.flag[g].wait :
         u \notin k.flag[g].wait => u \in k.list /\ k.flag[g].type # "UNUSED"
  BY DEF Solo, SoloGroup
<1>7. PriosOK(j) /\ BitsOK(j) /\ PoolsOK(j)
  BY <1>3, <1>4, <1>5, <1>6, PartsKept DEF Solo, SoloEvent
<1>8. KeepsTypes(k, j)
  BY <1>3 DEF SameParts, KeepsTypes
<1>9. ASSUME NEW u \in k.list \ {t}
      PROVE  Undisturbed(k, j, {u})
  <2>1. u \in Tcb /\ j.tcb[u] = k.tcb[u] /\ k.tcb[u].prio # p
    BY <1>1, Fields, OwnPriority DEF Solo
  <2>2. IsReady(j, u) <=> IsReady(k, u)
    BY <2>1 DEF IsReady, Solo
  <2>3. Lists(j, u) = Lists(k, u)
    BY <2>1 DEF Lists, Solo, SoloEvent
  <2>4. Groups(j, u) = Groups(k, u)
    BY <2>1 DEF Groups, Solo, SoloGroup
  <2> QED
    BY <2>1, <2>2, <2>3, <2>4, <1>8, Frame
<1> QED
  BY <1>3, <1>7, <1>9 DEF Solo, Sound, Orderly, Undisturbed

(* The kernel with other contents of these fields.                         *)
Put(k, rdy, tcb, event, flag, queue) ==
    [k EXCEPT !.rdy = rdy, !.tcb = tcb, !.event = event, !.flag = flag, !.queue = queue]

LEMMA PutKernel ==
  ASSUME NEW k \in Kernel, NEW rdy \in Bitmap, NEW tcb \in [Tcb -> TcbType],
         NEW event \in [Ecb -> EventType], NEW flag \in [Fgp -> GroupType],
         NEW queue \in [Qcb -> RingType]
  PROVE  Put(k, rdy, tcb, event, flag, queue) \in Kernel
  BY DEF Kernel, Put

LEMMA PutFields ==
  ASSUME NEW k \in Kernel, NEW rdy, NEW tcb, NEW event, NEW flag, NEW queue
  PROVE  LET j == Put(k, rdy, tcb, event, flag, queue) IN
         /\ j.rdy = rdy /\ j.tcb = tcb /\ j.event = event /\ j.flag = flag
         /\ j.queue = queue
         /\ SameRest(k, j)
<1> DEFINE j == Put(k, rdy, tcb, event, flag, queue)
<1>1. j.rdy = rdy /\ j.tcb = tcb /\ j.event = event /\ j.flag = flag /\ j.queue = queue
  BY DEF Kernel, Put
<1>2. SameRest(k, j)
  BY DEF Kernel, Put, SameRest
<1> QED
  BY <1>1, <1>2

(* Everything in use is offered to nobody in vain, after a step as before. *)
LEMMA ServedKept ==
  ASSUME NEW k, NEW j, ServedOK(k),
         \A e \in Ecb : \/ Exhausted(j, e) \/ Bits(j.event[e].wait) = {}
                        \/ /\ Bits(j.event[e].wait) \subseteq Bits(k.event[e].wait)
                           /\ Exhausted(k, e) => Exhausted(j, e),
         \A g \in Fgp : \A t \in j.flag[g].wait :
            \/ ~Satisfied(j.flag[g].flags, j.tcb[t].node.flags, j.tcb[t].node.type)
            \/ /\ t \in k.flag[g].wait /\ j.tcb[t].node = k.tcb[t].node
               /\ "FLAG" \in j.tcb[t].stat => "FLAG" \in k.tcb[t].stat
               /\ j.flag[g].flags \subseteq k.flag[g].flags
  PROVE  ServedOK(j)
<1>1. ASSUME NEW e \in Ecb
      PROVE  EventServed(j, e)
  BY DEF ServedOK, EventServed
<1>2. ASSUME NEW g \in Fgp
      PROVE  GroupServed(j, g)
  <2> SUFFICES ASSUME NEW t \in j.flag[g].wait, "FLAG" \in j.tcb[t].stat,
                      j.tcb[t].node.type \in ForSet,
                      Satisfied(j.flag[g].flags, j.tcb[t].node.flags, j.tcb[t].node.type)
               PROVE  FALSE
    BY DEF GroupServed
  <2> DEFINE n == k.tcb[t].node
  <2>1. /\ t \in k.flag[g].wait /\ j.tcb[t].node = n /\ "FLAG" \in k.tcb[t].stat
        /\ j.flag[g].flags \subseteq k.flag[g].flags
    OBVIOUS
  <2>2. Satisfied(k.flag[g].flags, n.flags, n.type)
    BY <2>1 DEF Satisfied, FlagsRdy
  <2> QED
    BY <2>1, <2>2 DEF ServedOK, GroupServed
<1> QED
  BY <1>1, <1>2 DEF ServedOK

LEMMA UnreadyIs ==
  ASSUME NEW k \in Kernel, NEW t
  PROVE  Unready(k, t)
           = Put(k, ClearBit(k.rdy, k.tcb[t].prio), k.tcb, k.event, k.flag, k.queue)
  BY DEF Kernel, Put, Unready

LEMMA ReadyIs ==
  ASSUME NEW k \in Kernel, NEW t
  PROVE  Ready(k, t)
           = Put(k, SetBit(k.rdy, k.tcb[t].prio), k.tcb, k.event, k.flag, k.queue)
  BY DEF Kernel, Put, Ready

-----------------------------------------------------------------------------
(* Beginning to wait.                                                      *)

(* What a control block becomes when its task begins to wait.              *)
Began(c, stat, timeout, d) ==
    /\ d \in TcbType /\ d.stat = c.stat \cup stat /\ d.pend = "OK" /\ d.dly = timeout
    /\ d.event = c.event /\ d.multi = c.multi /\ d.node = c.node /\ d.prio = c.prio

LEMMA BegunType ==
  ASSUME NEW c \in TcbType, NEW stat \in SUBSET Statuses, NEW timeout \in Nat
  PROVE  Began(c, stat, timeout, Begun(c, stat, timeout))
  BY DEF TcbType, Begun, Began

LEMMA StartsToWaitFields ==
  ASSUME NEW k \in Kernel, k.cur \in Tcb, NEW stat \in SUBSET Statuses, NEW timeout \in Nat
  PROVE  LET j == StartsToWait(k, stat, timeout) IN
         /\ j \in Kernel /\ SameRest(k, j)
         /\ j.rdy = k.rdy /\ j.event = k.event /\ j.flag = k.flag /\ j.queue = k.queue
         /\ \A u \in Tcb : u # k.cur => j.tcb[u] = k.tcb[u]
         /\ j.tcb[k.cur] = Begun(k.tcb[k.cur], stat, timeout)
<1> DEFINE tcb == [k.tcb EXCEPT ![k.cur] = Begun(@, stat, timeout)]
<1>1. StartsToWait(k, stat, timeout) = Put(k, k.rdy, tcb, k.event, k.flag, k.queue)
  <2>1. StartsToWait(k, stat, timeout) = [k EXCEPT !.tcb = tcb]
    BY DEF StartsToWait
  <2> HIDE DEF tcb
  <2> QED
    BY <2>1 DEF Kernel, Put
<1>2. /\ tcb \in [Tcb -> TcbType]
      /\ \A u \in Tcb : u # k.cur => tcb[u] = k.tcb[u]
      /\ tcb[k.cur] = Begun(k.tcb[k.cur], stat, timeout)
  BY Sets, BegunType DEF Began
<1> HIDE DEF tcb
<1>3. Put(k, k.rdy, tcb, k.event, k.flag, k.queue) \in Kernel
  BY <1>2, Sets, PutKernel
<1> QED
  BY <1>1, <1>2, <1>3, PutFields

(* The running task enters the wait list of an event and leaves the ready  *)
(* list.                                                                   *)
LEMMA EventTaskWaitFields ==
  ASSUME NEW k \in Kernel, k.cur \in Tcb, NEW e \in Ecb,
         Consistent(k.rdy), Consistent(k.event[e].wait)
  PROVE  LET j == OS_EventTaskWait(k, e)
             p == k.tcb[k.cur].prio IN
         /\ j \in Kernel /\ SameRest(k, j) /\ j.flag = k.flag /\ j.queue = k.queue
         /\ \A u \in Tcb : u # k.cur => j.tcb[u] = k.tcb[u]
         /\ j.tcb[k.cur] = [k.tcb[k.cur] EXCEPT !.event = e]
         /\ Consistent(j.rdy) /\ Bits(j.rdy) = Bits(k.rdy) \ {p}
         /\ \A f \in Ecb : f # e => j.event[f] = k.event[f]
         /\ j.event[e] = [k.event[e] EXCEPT !.wait = SetBit(@, p)]
<1> DEFINE p == k.tcb[k.cur].prio
           tcb == [k.tcb EXCEPT ![k.cur].event = e]
           event == [k.event EXCEPT ![e].wait = SetBit(@, p)]
           i == [k EXCEPT !.tcb[k.cur].event = e, !.event[e].wait = SetBit(@, p)]
           b == ClearBit(k.rdy, p)
<1>1. OS_EventTaskWait(k, e) = Unready(i, k.cur)
  BY DEF OS_EventTaskWait
<1>2. p \in Prio /\ k.tcb[k.cur] \in TcbType
  BY Fields
<1>3. tcb[k.cur].prio = p
  BY <1>2, Sets DEF TcbType
<1> HIDE DEF p
<1>4. i = Put(k, k.rdy, tcb, event, k.flag, k.queue)
  BY DEF Kernel, Put
<1>5. /\ tcb \in [Tcb -> TcbType]
      /\ \A u \in Tcb : u # k.cur => tcb[u] = k.tcb[u]
      /\ tcb[k.cur] = [k.tcb[k.cur] EXCEPT !.event = e]
  <2>1. [k.tcb[k.cur] EXCEPT !.event = e] \in TcbType
    BY <1>2 DEF TcbType
  <2> QED
    BY <2>1, Sets
<1>6. SetBit(k.event[e].wait, p) \in Bitmap
  BY <1>2, SetBitAdds DEF Consistent
<1>7. /\ event \in [Ecb -> EventType]
      /\ \A f \in Ecb : f # e => event[f] = k.event[f]
      /\ event[e] = [k.event[e] EXCEPT !.wait = SetBit(@, p)]
  <2>1. [k.event[e] EXCEPT !.wait = SetBit(@, p)] \in EventType
    BY <1>6, Fields DEF EventType
  <2> QED
    BY <2>1, Sets
<1>8. b \in Bitmap /\ Consistent(b) /\ Bits(b) = Bits(k.rdy) \ {p}
  BY <1>2, ClearBitRemoves DEF Consistent
<1> HIDE DEF tcb, event, i
<1>9. /\ i \in Kernel /\ i.rdy = k.rdy /\ i.tcb = tcb /\ i.event = event
      /\ i.flag = k.flag /\ i.queue = k.queue /\ SameRest(k, i)
  BY <1>4, <1>5, <1>7, Sets, PutKernel, PutFields
<1> DEFINE j == Put(i, b, tcb, event, k.flag, k.queue)
<1>10. Unready(i, k.cur) = j
  BY <1>3, <1>9, UnreadyIs
<1> HIDE DEF b
<1>11. j \in Kernel
  BY <1>5, <1>7, <1>8, <1>9, Sets, PutKernel
<1>12. /\ j.rdy = b /\ j.tcb = tcb /\ j.event = event /\ j.flag = k.flag
       /\ j.queue = k.queue /\ SameRest(i, j)
  BY <1>9, PutFields
<1> HIDE DEF j
<1>13. SameRest(k, j)
  BY <1>9, <1>12 DEF SameRest
<1> QED
  BY <1>1, <1>5, <1>7, <1>8, <1>10, <1>11, <1>12, <1>13 DEF p

(* The running task has entered the wait lists of the events S and left    *)
(* the ready list.                                                         *)
Enters(k, j, S) ==
    /\ j \in Kernel /\ SameRest(k, j) /\ j.flag = k.flag /\ j.queue = k.queue
    /\ \A u \in Tcb : u # k.cur => j.tcb[u] = k.tcb[u]
    /\ j.tcb[k.cur].prio = k.tcb[k.cur].prio
    /\ j.tcb[k.cur].node = k.tcb[k.cur].node
    /\ Consistent(j.rdy) /\ Bits(j.rdy) = Bits(k.rdy) \ {k.tcb[k.cur].prio}
    /\ \A f \in Ecb : f \notin S => j.event[f] = k.event[f]
    /\ \A f \in S :
         j.event[f] = [k.event[f] EXCEPT !.wait = SetBit(@, k.tcb[k.cur].prio)]

Entered(k, j, S) ==
    /\ Orderly(k, j, {k.cur})
    /\ Lists(j, k.cur) = Lists(k, k.cur) \cup S
    /\ Groups(j, k.cur) = {}
    /\ ~IsReady(j, k.cur)
    /\ \A f \in Ecb : j.event[f].type = k.event[f].type

LEMMA EntersOrderly ==
  ASSUME NEW k, Sound(k), k.cur \in k.list, k.tcb[k.cur].prio # IdlePrio,
         Groups(k, k.cur) = {}, NEW S \in SUBSET Ecb, NEW j, Enters(k, j, S),
         \A f \in S : k.event[f].type # "UNUSED" /\ Exhausted(k, f)
  PROVE  Entered(k, j, S)
<1> DEFINE p == k.tcb[k.cur].prio
<1>1. k \in Kernel /\ PriosOK(k) /\ BitsOK(k) /\ ServedOK(k) /\ k.cur \in Tcb /\ p \in Prio
  BY Fields DEF Sound
<1>2. /\ j \in Kernel /\ SameRest(k, j) /\ j.flag = k.flag /\ j.queue = k.queue
      /\ \A u \in Tcb : u # k.cur => j.tcb[u] = k.tcb[u]
      /\ j.tcb[k.cur].prio = p /\ j.tcb[k.cur].node = k.tcb[k.cur].node
      /\ Consistent(j.rdy) /\ Bits(j.rdy) = Bits(k.rdy) \ {p}
  BY DEF Enters
<1>3. ASSUME NEW f \in Ecb
      PROVE  /\ j.event[f].type = k.event[f].type /\ j.event[f].cnt = k.event[f].cnt
             /\ j.event[f].ptr = k.event[f].ptr
             /\ Consistent(j.event[f].wait)
             /\ Bits(j.event[f].wait)
                  = IF f \in S THEN Bits(k.event[f].wait) \cup {p} ELSE Bits(k.event[f].wait)
  <2>0. Consistent(k.event[f].wait) /\ k.event[f] \in EventType
    BY <1>1, Fields DEF BitsOK
  <2>1. CASE f \in S
    <3>1. j.event[f] = [k.event[f] EXCEPT !.wait = SetBit(@, p)]
      BY <2>1 DEF Enters
    <3>2. /\ j.event[f].type = k.event[f].type /\ j.event[f].cnt = k.event[f].cnt
          /\ j.event[f].ptr = k.event[f].ptr
          /\ j.event[f].wait = SetBit(k.event[f].wait, p)
      BY <2>0, <3>1 DEF EventType
    <3> QED
      BY <1>1, <2>0, <2>1, <3>2, SetBitAdds
  <2>2. CASE f \notin S
    BY <2>0, <2>2 DEF Enters
  <2> QED
    BY <2>1, <2>2
<1>4. Solo(k, j, k.cur)
  <2>1. \A f \in Ecb : SoloEvent(k, j, p, f)
    <3> TAKE f \in Ecb
    <3>1. k.event[f].type = "UNUSED" => Bits(k.event[f].wait) = {}
      BY DEF Sound, PoolsOK
    <3> QED
      BY <1>3, <3>1 DEF SoloEvent
  <2>2. \A g \in Fgp : SoloGroup(k, j, k.cur, g)
    BY <1>2 DEF SoloGroup, Groups
  <2>3. IdlePrio \in Bits(j.rdy)
    BY <1>1, <1>2 DEF BitsOK
  <2> QED
    BY <1>2, <2>1, <2>2, <2>3 DEF Solo
<1>5. ServedOK(j)
  <2>1. \A f \in Ecb : Exhausted(k, f) => Exhausted(j, f)
    BY <1>2, <1>3 DEF Exhausted, TheRing
  <2>2. \A g \in Fgp : \A t \in j.flag[g].wait :
           /\ t \in k.flag[g].wait /\ j.tcb[t].node = k.tcb[t].node
           /\ "FLAG" \in j.tcb[t].stat => "FLAG" \in k.tcb[t].stat
           /\ j.flag[g].flags \subseteq k.flag[g].flags
    <3> TAKE g \in Fgp
    <3> TAKE t \in j.flag[g].wait
    <3>1. t \in Tcb /\ t # k.cur
      BY <1>1, <1>2, Fields DEF Groups
    <3> QED
      BY <1>2, <3>1
  <2>3. \A f \in Ecb : \/ Exhausted(j, f)
                       \/ /\ Bits(j.event[f].wait) \subseteq Bits(k.event[f].wait)
                          /\ Exhausted(k, f) => Exhausted(j, f)
    BY <1>3, <2>1
  <2> QED
    BY <1>1, <2>2, <2>3, ServedKept
<1>6. Orderly(k, j, {k.cur})
  BY <1>4, <1>5, SoloOrderly
<1>7. Lists(j, k.cur) = Lists(k, k.cur) \cup S
  BY <1>1, <1>2, <1>3 DEF Lists
<1>8. Groups(j, k.cur) = {} /\ ~IsReady(j, k.cur)
  BY <1>2 DEF Groups, IsReady
<1> QED
  BY <1>3, <1>6, <1>7, <1>8 DEF Entered

(* A task that runs its own code or has just called waits for nothing.     *)
Idle(k) ==
    /\ Sound(k) /\ k.cur \in k.list /\ k.tcb[k.cur].prio # IdlePrio
    /\ WaitsForNothing(k, k.cur) /\ IsReady(k, k.cur)

LEMMA IdleFields ==
  ASSUME NEW k, Idle(k)
  PROVE  /\ k \in Kernel /\ k.cur \in Tcb /\ k.tcb[k.cur] \in TcbType
         /\ k.tcb[k.cur].prio \in Prio
         /\ k.tcb[k.cur].stat = {} /\ k.tcb[k.cur].dly = 0
         /\ k.tcb[k.cur].pend = "OK" /\ k.tcb[k.cur].event = Null
         /\ k.tcb[k.cur].multi = {} /\ k.tcb[k.cur].node = NoNode
         /\ Lists(k, k.cur) = {} /\ Groups(k, k.cur) = {}
         /\ Consistent(k.rdy) /\ \A e \in Ecb : Consistent(k.event[e].wait)
<1>1. k \in Kernel /\ BitsOK(k)
  BY DEF Idle, Sound
<1> QED
  BY <1>1, Fields DEF Idle, WaitsForNothing, BitsOK

(* It begins to wait for one event.                                        *)
LEMMA WaitsOrderly ==
  ASSUME NEW k, Idle(k), NEW type \in EventTypes, NEW e \in Ecb,
         k.event[e].type = type, Exhausted(k, e), NEW timeout \in Nat
  PROVE  LET j == OS_EventTaskWait(StartsToWait(k, {type}, timeout), e) IN
         /\ Orderly(k, j, {k.cur})
         /\ WaitsForOne(j, k.cur, type, e)
<1> DEFINE p == k.tcb[k.cur].prio
           i == StartsToWait(k, {type}, timeout)
           j == OS_EventTaskWait(i, e)
           c == Begun(k.tcb[k.cur], {type}, timeout)
<1>0. k.cur \in k.list /\ p # IdlePrio /\ Sound(k)
  BY DEF Idle
<1>1. {type} \in SUBSET Statuses
  BY DEF EventTypes, Statuses, PendAny
<1>2. /\ i \in Kernel /\ SameRest(k, i)
      /\ i.rdy = k.rdy /\ i.event = k.event /\ i.flag = k.flag /\ i.queue = k.queue
      /\ \A u \in Tcb : u # k.cur => i.tcb[u] = k.tcb[u]
      /\ i.tcb[k.cur] = c
  BY <1>1, IdleFields, StartsToWaitFields
<1>3. /\ c \in TcbType /\ c.stat = {type} /\ c.pend = "OK" /\ c.multi = {}
      /\ c.node = NoNode /\ c.prio = p
  <2>1. /\ k.tcb[k.cur] \in TcbType /\ k.tcb[k.cur].stat = {}
        /\ k.tcb[k.cur].multi = {} /\ k.tcb[k.cur].node = NoNode
    BY IdleFields
  <2>2. Began(k.tcb[k.cur], {type}, timeout, c)
    BY <1>1, <2>1, BegunType
  <2> HIDE DEF c
  <2> QED
    BY <2>1, <2>2 DEF Began
<1> HIDE DEF c, i
<1>4. /\ i.cur = k.cur /\ i.cur \in Tcb /\ i.tcb[i.cur].prio = p
      /\ Consistent(i.rdy) /\ Consistent(i.event[e].wait)
  BY <1>2, <1>3, IdleFields DEF SameRest
<1>5. /\ j \in Kernel /\ SameRest(i, j) /\ j.flag = i.flag /\ j.queue = i.queue
      /\ \A u \in Tcb : u # k.cur => j.tcb[u] = i.tcb[u]
      /\ j.tcb[k.cur] = [c EXCEPT !.event = e]
      /\ Consistent(j.rdy) /\ Bits(j.rdy) = Bits(i.rdy) \ {p}
      /\ \A f \in Ecb : f # e => j.event[f] = i.event[f]
      /\ j.event[e] = [i.event[e] EXCEPT !.wait = SetBit(@, p)]
  BY <1>2, <1>4, EventTaskWaitFields
<1> HIDE DEF j
<1>6. /\ j.tcb[k.cur].event = e /\ j.tcb[k.cur].stat = {type}
      /\ j.tcb[k.cur].pend = "OK" /\ j.tcb[k.cur].multi = {}
      /\ j.tcb[k.cur].node = NoNode /\ j.tcb[k.cur].prio = p
  BY <1>3, <1>5 DEF TcbType
<1>7. Enters(k, j, {e})
  <2>1. SameRest(k, j)
    BY <1>2, <1>5 DEF SameRest
  <2> QED
    BY <2>1, <1>2, <1>5, <1>6, IdleFields DEF Enters
<1>8. Orderly(k, j, {k.cur}) /\ Lists(j, k.cur) = {e} /\ Groups(j, k.cur) = {}
      /\ ~IsReady(j, k.cur) /\ j.event[e].type = type
  <2> DEFINE S == {e}
  <2>1. \A f \in S : k.event[f].type # "UNUSED" /\ Exhausted(k, f)
    BY DEF EventTypes
  <2>2. Groups(k, k.cur) = {} /\ Lists(k, k.cur) = {} /\ S \in SUBSET Ecb
    BY IdleFields
  <2>3. Enters(k, j, S)
    BY <1>7
  <2> HIDE DEF S
  <2>4. Entered(k, j, S)
    BY <1>0, <2>1, <2>2, <2>3, EntersOrderly
  <2> QED
    BY <2>2, <2>4 DEF S, Entered
<1>9. WaitsForOne(j, k.cur, type, e)
  BY <1>6, <1>8 DEF WaitsForOne
<1> QED
  BY <1>8, <1>9 DEF j, i

(* The running task enters the wait lists of several events.               *)
LEMMA EventTaskWaitMultiFields ==
  ASSUME NEW k \in Kernel, k.cur \in Tcb, NEW S \in SUBSET Ecb,
         Consistent(k.rdy), \A f \in Ecb : Consistent(k.event[f].wait),
         k.tcb[k.cur].prio # IdlePrio
  PROVE  LET j == OS_EventTaskWaitMulti(k, S) IN
         /\ Enters(k, j, S)
         /\ j.tcb[k.cur] = [k.tcb[k.cur] EXCEPT !.event = Null, !.multi = S]
<1> DEFINE p == k.tcb[k.cur].prio
           c == [k.tcb[k.cur] EXCEPT !.event = Null, !.multi = S]
           tcb == [k.tcb EXCEPT ![k.cur].event = Null, ![k.cur].multi = S]
           event == Enlisted(k.event, S, p)
           i == [k EXCEPT !.tcb[k.cur].event = Null, !.tcb[k.cur].multi = S,
                   !.event = Enlisted(@, S, k.tcb[k.cur].prio)]
           b == ClearBit(k.rdy, p)
           j == OS_EventTaskWaitMulti(k, S)
<1>1. j = Unready(i, k.cur)
  BY DEF OS_EventTaskWaitMulti
<1>2. p \in Prio /\ k.tcb[k.cur] \in TcbType
  BY Fields
<1>3. c \in TcbType /\ c.prio = p /\ c.node = k.tcb[k.cur].node
  BY <1>2 DEF TcbType
<1>4. i = [k EXCEPT !.tcb = tcb, !.event = event]
  BY DEF Kernel
<1>5. /\ tcb \in [Tcb -> TcbType]
      /\ \A u \in Tcb : u # k.cur => tcb[u] = k.tcb[u]
      /\ tcb[k.cur] = c
  BY <1>2, <1>3, Sets
<1> HIDE DEF p, c
<1>6. /\ event \in [Ecb -> EventType]
      /\ \A f \in Ecb : f \notin S => event[f] = k.event[f]
      /\ \A f \in S : event[f] = [k.event[f] EXCEPT !.wait = SetBit(@, p)]
  <2>1. \A f \in Ecb : [k.event[f] EXCEPT !.wait = SetBit(@, p)] \in EventType
    <3> TAKE f \in Ecb
    <3>1. SetBit(k.event[f].wait, p) \in Bitmap
      BY <1>2, SetBitAdds DEF Consistent
    <3>2. k.event[f] \in EventType
      BY Fields
    <3> QED
      BY <3>1, <3>2 DEF EventType
  <2> QED
    BY <2>1, Sets DEF Enlisted
<1>7. b \in Bitmap /\ Consistent(b) /\ Bits(b) = Bits(k.rdy) \ {p}
  BY <1>2, ClearBitRemoves DEF Consistent
<1> HIDE DEF tcb, event, i
<1>8. i = Put(k, k.rdy, tcb, event, k.flag, k.queue)
  BY <1>4 DEF Kernel, Put
<1>9. /\ i \in Kernel /\ i.rdy = k.rdy /\ i.tcb = tcb /\ i.event = event
      /\ i.flag = k.flag /\ i.queue = k.queue /\ SameRest(k, i)
  BY <1>5, <1>6, <1>8, Sets, PutKernel, PutFields
<1>10. j = Put(i, b, tcb, event, k.flag, k.queue)
  BY <1>1, <1>3, <1>5, <1>9, UnreadyIs DEF p
<1> HIDE DEF b, j
<1>11. j \in Kernel
  BY <1>5, <1>6, <1>7, <1>9, <1>10, Sets, PutKernel
<1>12. /\ j.rdy = b /\ j.tcb = tcb /\ j.event = event /\ j.flag = k.flag
       /\ j.queue = k.queue /\ SameRest(i, j)
  BY <1>9, <1>10, PutFields
<1>13. SameRest(k, j)
  BY <1>9, <1>12 DEF SameRest
<1>14. Enters(k, j, S)
  BY <1>3, <1>5, <1>6, <1>7, <1>11, <1>12, <1>13 DEF p, Enters
<1> QED
  BY <1>5, <1>12, <1>14 DEF c, j

(* It begins to wait for several.                                          *)
LEMMA WaitsMultiOrderly ==
  ASSUME NEW k, Idle(k), NEW S \in SUBSET Ecb, S # {}, NEW timeout \in Nat,
         \A e \in S : k.event[e].type \in EventTypes /\ Exhausted(k, e)
  PROVE  LET stat == {k.event[e].type : e \in S} \cup {"MULTI"}
             j == OS_EventTaskWaitMulti(StartsToWait(k, stat, timeout), S) IN
         /\ Orderly(k, j, {k.cur})
         /\ WaitsForAny(j, k.cur, S)
<1> DEFINE p == k.tcb[k.cur].prio
           types == {k.event[e].type : e \in S}
           stat == types \cup {"MULTI"}
           i == StartsToWait(k, stat, timeout)
           j == OS_EventTaskWaitMulti(i, S)
           c == Begun(k.tcb[k.cur], stat, timeout)
<1>0. k.cur \in k.list /\ p # IdlePrio /\ Sound(k) /\ k \in Kernel /\ k.cur \in Tcb
  BY IdleFields DEF Idle
<1>1. stat \in SUBSET Statuses /\ types \subseteq stat /\ "MULTI" \in stat
      /\ stat \cap {"SUSPEND", "FLAG"} = {}
  BY DEF EventTypes, Statuses, PendAny
<1> HIDE DEF stat
<1>2. /\ i \in Kernel /\ SameRest(k, i)
      /\ i.rdy = k.rdy /\ i.event = k.event /\ i.flag = k.flag /\ i.queue = k.queue
      /\ \A u \in Tcb : u # k.cur => i.tcb[u] = k.tcb[u]
      /\ i.tcb[k.cur] = c
  BY <1>0, <1>1, StartsToWaitFields
<1>3. /\ c \in TcbType /\ c.stat = stat /\ c.pend = "OK" /\ c.multi = {}
      /\ c.node = NoNode /\ c.prio = p
  <2>1. /\ k.tcb[k.cur] \in TcbType /\ k.tcb[k.cur].stat = {}
        /\ k.tcb[k.cur].multi = {} /\ k.tcb[k.cur].node = NoNode
    BY IdleFields
  <2>2. Began(k.tcb[k.cur], stat, timeout, c)
    BY <1>1, <2>1, BegunType
  <2> HIDE DEF c
  <2> QED
    BY <2>1, <2>2 DEF Began
<1> HIDE DEF c, i
<1>4. /\ i.cur = k.cur /\ i.cur \in Tcb /\ i.tcb[i.cur].prio = p
      /\ Consistent(i.rdy) /\ \A f \in Ecb : Consistent(i.event[f].wait)
  BY <1>2, <1>3, IdleFields DEF SameRest
<1>5. Enters(i, j, S) /\ j.tcb[k.cur] = [c EXCEPT !.event = Null, !.multi = S]
  <2>1. i \in Kernel /\ i.tcb[i.cur].prio # IdlePrio
    BY <1>0, <1>2, <1>4
  <2>2. /\ Enters(i, OS_EventTaskWaitMulti(i, S), S)
        /\ OS_EventTaskWaitMulti(i, S).tcb[i.cur] = [i.tcb[i.cur] EXCEPT !.event = Null, !.multi = S]
    BY <1>4, <2>1, EventTaskWaitMultiFields
  <2> QED
    BY <1>2, <1>4, <2>2
<1> HIDE DEF j
<1>6. /\ j.tcb[k.cur].event = Null /\ j.tcb[k.cur].stat = stat
      /\ j.tcb[k.cur].pend = "OK" /\ j.tcb[k.cur].multi = S
      /\ j.tcb[k.cur].node = NoNode /\ j.tcb[k.cur].prio = p
  BY <1>3, <1>5 DEF TcbType
<1>7. Enters(k, j, S)
  <2>1. SameRest(k, j)
    BY <1>2, <1>5 DEF SameRest, Enters
  <2> QED
    BY <2>1, <1>2, <1>4, <1>5, <1>6, IdleFields DEF Enters
<1>8. Entered(k, j, S)
  <2>1. \A f \in S : k.event[f].type # "UNUSED" /\ Exhausted(k, f)
    BY DEF EventTypes
  <2>2. Groups(k, k.cur) = {}
    BY IdleFields
  <2> QED
    BY <1>0, <1>7, <2>1, <2>2, EntersOrderly
<1>9. Lists(k, k.cur) = {}
  BY IdleFields
<1>10. WaitsForAny(j, k.cur, S)
  <2>1. {j.event[e].type : e \in S} = types
    BY <1>8 DEF Entered
  <2> HIDE DEF types
  <2>2. Lists(j, k.cur) = S /\ Groups(j, k.cur) = {} /\ ~IsReady(j, k.cur)
        /\ \A e \in S : j.event[e].type \in EventTypes
    BY <1>8, <1>9 DEF Entered
  <2> QED
    BY <1>1, <1>6, <2>1, <2>2 DEF WaitsForAny
<1> QED
  BY <1>8, <1>10 DEF j, i, stat, Entered

(* It begins to wait for flags that are not as it wants them.              *)
LEMMA FlagWaitOrderly ==
  ASSUME NEW k, Idle(k), NEW g \in Fgp, k.flag[g].type = "FLAG", NEW c \in Wanted,
         ~Satisfied(k.flag[g].flags, c.flags, c.type)
  PROVE  LET j == OS_FlagBlock(k, g, c) IN
         /\ Orderly(k, j, {k.cur})
         /\ WaitsForFlags(j, k.cur, g)
<1> DEFINE t == k.cur
           p == k.tcb[t].prio
           stat == {"FLAG"}
           n == [grp |-> g, flags |-> c.flags, type |-> c.type]
           i == StartsToWait(k, stat, c.timeout)
           d == Begun(k.tcb[t], stat, c.timeout)
           tcb == [i.tcb EXCEPT ![t].node = n]
           flag == [i.flag EXCEPT ![g].wait = @ \cup {t}]
           h == [i EXCEPT !.tcb[t].node = n, !.flag[g].wait = @ \cup {t}]
           b == ClearBit(k.rdy, p)
           j == OS_FlagBlock(k, g, c)
<1>0. /\ t \in k.list /\ p # IdlePrio /\ Sound(k) /\ k \in Kernel /\ t \in Tcb /\ p \in Prio
      /\ BitsOK(k) /\ PoolsOK(k) /\ ServedOK(k)
      /\ Lists(k, t) = {} /\ Groups(k, t) = {} /\ Consistent(k.rdy)
  BY IdleFields DEF Idle, Sound
<1>1. stat \in SUBSET Statuses /\ c.timeout \in Nat /\ n \in NodeType
      /\ n.grp = g /\ n.flags = c.flags /\ n.type = c.type
  BY DEF Statuses, PendAny, Wanted, NodeType
<1>2. j = Unready(h, t)
  BY DEF OS_FlagBlock
<1> HIDE DEF stat, n, j
<1>3. /\ i \in Kernel /\ SameRest(k, i)
      /\ i.rdy = k.rdy /\ i.event = k.event /\ i.flag = k.flag /\ i.queue = k.queue
      /\ \A u \in Tcb : u # t => i.tcb[u] = k.tcb[u]
      /\ i.tcb[t] = d
  BY <1>0, <1>1, StartsToWaitFields
<1>4. /\ d \in TcbType /\ d.stat = stat /\ d.pend = "OK" /\ d.multi = {}
      /\ d.event = Null /\ d.prio = p
  <2>1. /\ k.tcb[t] \in TcbType /\ k.tcb[t].stat = {} /\ k.tcb[t].event = Null
        /\ k.tcb[t].multi = {}
    BY IdleFields
  <2>2. Began(k.tcb[t], stat, c.timeout, d)
    BY <1>1, <2>1, BegunType
  <2> HIDE DEF d
  <2> QED
    BY <2>1, <2>2 DEF Began
<1> HIDE DEF d, i
<1>5. h = Put(i, i.rdy, tcb, i.event, flag, i.queue)
  BY <1>3 DEF Kernel, Put
<1>6. /\ tcb \in [Tcb -> TcbType]
      /\ \A u \in Tcb : u # t => tcb[u] = k.tcb[u]
      /\ tcb[t] = [d EXCEPT !.node = n]
  <2>1. [d EXCEPT !.node = n] \in TcbType
    BY <1>1, <1>4 DEF TcbType
  <2> QED
    BY <1>0, <1>3, <2>1, Sets
<1>7. /\ tcb[t].stat = stat /\ tcb[t].pend = "OK" /\ tcb[t].multi = {}
      /\ tcb[t].event = Null /\ tcb[t].prio = p /\ tcb[t].node = n
  BY <1>4, <1>6 DEF TcbType
<1>8. /\ flag \in [Fgp -> GroupType]
      /\ \A f \in Fgp : f # g => flag[f] = k.flag[f]
      /\ flag[g].type = "FLAG" /\ flag[g].flags = k.flag[g].flags
      /\ flag[g].wait = k.flag[g].wait \cup {t}
  <2>1. [k.flag[g] EXCEPT !.wait = @ \cup {t}] \in GroupType
    BY <1>0, Fields DEF GroupType
  <2>2. k.flag[g] \in GroupType
    BY <1>0, Fields
  <2>3. flag[g] = [k.flag[g] EXCEPT !.wait = @ \cup {t}]
    BY <1>0, <1>3, Sets
  <2>4. flag \in [Fgp -> GroupType] /\ \A f \in Fgp : f # g => flag[f] = k.flag[f]
    BY <1>0, <1>3, <2>1, Sets
  <2> HIDE DEF flag
  <2> QED
    BY <2>2, <2>3, <2>4 DEF GroupType
<1>9. b \in Bitmap /\ Consistent(b) /\ Bits(b) = Bits(k.rdy) \ {p}
  BY <1>0, ClearBitRemoves DEF Consistent
<1> HIDE DEF tcb, flag, h
<1>10. /\ h \in Kernel /\ h.rdy = k.rdy /\ h.tcb = tcb /\ h.event = k.event
       /\ h.flag = flag /\ h.queue = k.queue /\ SameRest(i, h)
  BY <1>3, <1>5, <1>6, <1>8, Sets, PutKernel, PutFields
<1>11. j = Put(h, b, tcb, k.event, flag, k.queue)
  BY <1>2, <1>7, <1>10, UnreadyIs
<1> HIDE DEF b
<1>12. j \in Kernel
  BY <1>0, <1>6, <1>8, <1>9, <1>10, <1>11, Sets, PutKernel
<1>13. /\ j.rdy = b /\ j.tcb = tcb /\ j.event = k.event /\ j.flag = flag
       /\ j.queue = k.queue /\ SameRest(h, j)
  BY <1>10, <1>11, PutFields
<1>14. SameRest(k, j)
  BY <1>3, <1>10, <1>13 DEF SameRest
<1>15. Solo(k, j, t)
  <2>1. \A e \in Ecb : SoloEvent(k, j, p, e)
    <3> TAKE e \in Ecb
    <3>1. k.event[e].type = "UNUSED" => Bits(k.event[e].wait) = {}
      BY <1>0 DEF PoolsOK
    <3>2. Consistent(k.event[e].wait)
      BY <1>0 DEF BitsOK
    <3> QED
      BY <1>13, <3>1, <3>2 DEF SoloEvent
  <2>2. \A f \in Fgp : SoloGroup(k, j, t, f)
    <3> TAKE f \in Fgp
    <3>1. CASE f = g
      BY <1>8, <1>13, <3>1 DEF SoloGroup
    <3>2. CASE f # g
      <4>1. t \notin k.flag[f].wait
        BY <1>0 DEF Groups
      <4> QED
        BY <1>8, <1>13, <3>2, <4>1 DEF SoloGroup
    <3> QED
      BY <3>1, <3>2
  <2>3. IdlePrio \in Bits(j.rdy)
    BY <1>0, <1>9, <1>13 DEF BitsOK
  <2> QED
    BY <1>6, <1>7, <1>9, <1>12, <1>13, <1>14, <2>1, <2>2, <2>3 DEF Solo
<1>16. ServedOK(j)
  <2>1. \A e \in Ecb : /\ Bits(j.event[e].wait) \subseteq Bits(k.event[e].wait)
                       /\ Exhausted(k, e) => Exhausted(j, e)
    BY <1>13 DEF Exhausted, TheRing
  <2>2. ASSUME NEW f \in Fgp, NEW u \in j.flag[f].wait
        PROVE  \/ ~Satisfied(j.flag[f].flags, j.tcb[u].node.flags, j.tcb[u].node.type)
               \/ /\ u \in k.flag[f].wait /\ j.tcb[u].node = k.tcb[u].node
                  /\ "FLAG" \in j.tcb[u].stat => "FLAG" \in k.tcb[u].stat
                  /\ j.flag[f].flags \subseteq k.flag[f].flags
    <3>1. CASE u = t
      <4>1. f = g
        BY <1>0, <1>8, <1>13, <3>1 DEF Groups
      <4> QED
        BY <1>1, <1>7, <1>8, <1>13, <3>1, <4>1
    <3>2. CASE u # t
      <4>1. u \in k.flag[f].wait /\ j.flag[f].flags = k.flag[f].flags
        BY <1>8, <1>13, <3>2
      <4>2. u \in Tcb
        BY <1>0, <4>1, Fields
      <4> QED
        BY <1>6, <1>13, <3>2, <4>1, <4>2
    <3> QED
      BY <3>1, <3>2
  <2> QED
    BY <1>0, <2>1, <2>2, ServedKept
<1>17. Orderly(k, j, {t})
  BY <1>0, <1>15, <1>16, SoloOrderly
<1>18. WaitsForFlags(j, t, g)
  <2>1. Lists(j, t) = {} /\ ~IsReady(j, t)
    BY <1>0, <1>7, <1>9, <1>13 DEF Lists, IsReady
  <2>2. Groups(j, t) = {g}
    BY <1>0, <1>8, <1>13 DEF Groups
  <2> QED
    BY <1>1, <1>7, <1>8, <1>13, <2>1, <2>2 DEF WaitsForFlags, stat
<1> QED
  BY <1>17, <1>18 DEF j

(* It puts itself to sleep for a while.                                    *)
LEMMA DelayOrderly ==
  ASSUME NEW k, Idle(k), NEW ticks \in Nat \ {0}
  PROVE  LET j == Unready([k EXCEPT !.tcb[k.cur].dly = ticks], k.cur) IN
         /\ Orderly(k, j, {k.cur})
         /\ WaitsForNothing(j, k.cur)
<1> DEFINE t == k.cur
           p == k.tcb[t].prio
           tcb == [k.tcb EXCEPT ![t].dly = ticks]
           h == [k EXCEPT !.tcb[t].dly = ticks]
           b == ClearBit(k.rdy, p)
           j == Unready(h, t)
<1>0. /\ t \in k.list /\ p # IdlePrio /\ Sound(k) /\ k \in Kernel /\ t \in Tcb /\ p \in Prio
      /\ BitsOK(k) /\ PoolsOK(k) /\ ServedOK(k)
      /\ Lists(k, t) = {} /\ Groups(k, t) = {} /\ Consistent(k.rdy) /\ k.tcb[t] \in TcbType
  BY IdleFields DEF Idle, Sound
<1>1. h = Put(k, k.rdy, tcb, k.event, k.flag, k.queue)
  BY <1>0 DEF Kernel, Put
<1>2. /\ tcb \in [Tcb -> TcbType]
      /\ \A u \in Tcb : u # t => tcb[u] = k.tcb[u]
      /\ tcb[t] = [k.tcb[t] EXCEPT !.dly = ticks]
  <2>1. [k.tcb[t] EXCEPT !.dly = ticks] \in TcbType
    BY <1>0 DEF TcbType
  <2> QED
    BY <1>0, <2>1, Sets
<1>3. /\ tcb[t].stat = {} /\ tcb[t].pend = "OK" /\ tcb[t].multi = {}
      /\ tcb[t].event = Null /\ tcb[t].prio = p /\ tcb[t].node = NoNode
      /\ tcb[t].dly = ticks
  BY <1>0, <1>2, IdleFields DEF TcbType
<1>4. b \in Bitmap /\ Consistent(b) /\ Bits(b) = Bits(k.rdy) \ {p}
  BY <1>0, ClearBitRemoves DEF Consistent
<1> HIDE DEF tcb, h
<1>5. /\ h \in Kernel /\ h.rdy = k.rdy /\ h.tcb = tcb /\ h.event = k.event
      /\ h.flag = k.flag /\ h.queue = k.queue /\ SameRest(k, h)
  BY <1>0, <1>1, <1>2, Sets, PutKernel, PutFields
<1>6. j = Put(h, b, tcb, k.event, k.flag, k.queue)
  BY <1>3, <1>5, UnreadyIs
<1> HIDE DEF b, j
<1>7. j \in Kernel
  BY <1>0, <1>2, <1>4, <1>5, <1>6, Sets, PutKernel
<1>8. /\ j.rdy = b /\ j.tcb = tcb /\ j.event = k.event /\ j.flag = k.flag
      /\ j.queue = k.queue /\ SameRest(h, j)
  BY <1>5, <1>6, PutFields
<1>9. SameRest(k, j)
  BY <1>5, <1>8 DEF SameRest
<1>10. Solo(k, j, t)
  <2>1. \A e \in Ecb : SoloEvent(k, j, p, e)
    <3> TAKE e \in Ecb
    <3>1. k.event[e].type = "UNUSED" => Bits(k.event[e].wait) = {}
      BY <1>0 DEF PoolsOK
    <3>2. Consistent(k.event[e].wait)
      BY <1>0 DEF BitsOK
    <3> QED
      BY <1>8, <3>1, <3>2 DEF SoloEvent
  <2>2. \A f \in Fgp : SoloGroup(k, j, t, f)
    BY <1>0, <1>8 DEF SoloGroup, Groups
  <2>3. IdlePrio \in Bits(j.rdy)
    BY <1>0, <1>4, <1>8 DEF BitsOK
  <2> QED
    BY <1>2, <1>3, <1>4, <1>7, <1>8, <1>9, <2>1, <2>2, <2>3 DEF Solo
<1>11. ServedOK(j)
  <2>1. \A e \in Ecb : /\ Bits(j.event[e].wait) \subseteq Bits(k.event[e].wait)
                       /\ Exhausted(k, e) => Exhausted(j, e)
    BY <1>8 DEF Exhausted, TheRing
  <2>2. ASSUME NEW f \in Fgp, NEW u \in j.flag[f].wait
        PROVE  /\ u \in k.flag[f].wait /\ j.tcb[u].node = k.tcb[u].node
               /\ "FLAG" \in j.tcb[u].stat => "FLAG" \in k.tcb[u].stat
               /\ j.flag[f].flags \subseteq k.flag[f].flags
    <3>1. u \in Tcb /\ u # t
      BY <1>0, <1>8, Fields DEF Groups
    <3> QED
      BY <1>2, <1>8, <3>1
  <2> QED
    BY <1>0, <2>1, <2>2, ServedKept
<1>12. Orderly(k, j, {t})
  BY <1>0, <1>10, <1>11, SoloOrderly
<1>13. WaitsForNothing(j, t)
  BY <1>0, <1>3, <1>4, <1>8 DEF WaitsForNothing, Lists, Groups, IsReady
<1> QED
  BY <1>12, <1>13 DEF j, h

-----------------------------------------------------------------------------
(* Waits that end.                                                         *)

(* What a control block becomes when a post or an abort ends its wait.     *)
WasAnswered(c, e, msk, pend, d) ==
    /\ d \in TcbType /\ d.stat = c.stat \ {msk} /\ d.pend = pend /\ d.dly = 0
    /\ d.event = (IF c.multi = {} THEN c.event ELSE e)
    /\ d.multi = c.multi /\ d.node = c.node /\ d.prio = c.prio

LEMMA AnsweredType ==
  ASSUME NEW c \in TcbType, NEW e \in Ecb, NEW msg \in Int, NEW msk,
         NEW pend \in {"OK", "ABORT"}
  PROVE  WasAnswered(c, e, msk, pend, Answered(c, e, msg, msk, pend))
<1>1. c.stat \ {msk} \subseteq Statuses
  BY DEF TcbType
<1>2. (IF c.multi = {} THEN c.event ELSE e) \in Ecb \cup {Null}
  BY DEF TcbType
<1> QED
  BY <1>1, <1>2 DEF TcbType, Answered, WasAnswered

(* The tasks T leave every list they are in and are ready unless suspended.*)
Leavers(k, e, T, x) == {k.tcb[t].prio : t \in {u \in T : x = e \/ x \in k.tcb[u].multi}}
Roused(k, j, T) == {k.tcb[t].prio : t \in {u \in T : "SUSPEND" \notin j.tcb[u].stat}}

Answers(k, j, e, T, msk, pend) ==
    /\ j \in Kernel /\ SameRest(k, j) /\ j.flag = k.flag /\ j.queue = k.queue
    /\ \A u \in Tcb \ T : j.tcb[u] = k.tcb[u]
    /\ \A u \in T : WasAnswered(k.tcb[u], e, msk, pend, j.tcb[u])
    /\ Consistent(j.rdy) /\ Bits(j.rdy) = Bits(k.rdy) \cup Roused(k, j, T)
    /\ \A x \in Ecb :
         /\ j.event[x].type = k.event[x].type /\ j.event[x].cnt = k.event[x].cnt
         /\ j.event[x].ptr = k.event[x].ptr
         /\ Consistent(j.event[x].wait)
         /\ Bits(j.event[x].wait) = Bits(k.event[x].wait) \ Leavers(k, e, T, x)

LEMMA TasksRdyAnswers ==
  ASSUME NEW k \in Kernel, BitsOK(k), NEW e \in Ecb, NEW T \in SUBSET Tcb, NEW msg \in Int,
         NEW msk, NEW pend \in {"OK", "ABORT"}
  PROVE  Answers(k, TasksRdy(k, e, T, msg, msk, pend), e, T, msk, pend)
<1> DEFINE tcb == [t \in Tcb |-> IF t \in T THEN Answered(k.tcb[t], e, msg, msk, pend)
                                           ELSE k.tcb[t]]
           P == {k.tcb[t].prio : t \in {u \in T : "SUSPEND" \notin tcb[u].stat}}
           Leaving(x) == {u \in T : x = e \/ x \in k.tcb[u].multi}
           rdy == SetBits(k.rdy, P)
           event == [x \in Ecb |-> [k.event[x] EXCEPT !.wait =
                       ClearBits(@, {k.tcb[t].prio : t \in Leaving(x)})]]
           j == TasksRdy(k, e, T, msg, msk, pend)
<1>1. j = Put(k, rdy, tcb, event, k.flag, k.queue)
  BY DEF TasksRdy, Put, Kernel
<1>2. /\ tcb \in [Tcb -> TcbType]
      /\ \A u \in Tcb \ T : tcb[u] = k.tcb[u]
      /\ \A u \in T : WasAnswered(k.tcb[u], e, msk, pend, tcb[u])
  <2>1. \A u \in T : WasAnswered(k.tcb[u], e, msk, pend, Answered(k.tcb[u], e, msg, msk, pend))
    BY Fields, AnsweredType
  <2>2. \A u \in T : Answered(k.tcb[u], e, msg, msk, pend) \in TcbType
    BY <2>1 DEF WasAnswered
  <2> QED
    BY <2>1, <2>2, Fields
<1>3. P \in SUBSET Prio /\ \A x \in Ecb : Leavers(k, e, T, x) \in SUBSET Prio
  <2>1. \A t \in T : k.tcb[t].prio \in Prio
    BY Fields
  <2> QED
    BY <2>1 DEF Leavers
<1>4. Consistent(rdy) /\ Bits(rdy) = Bits(k.rdy) \cup P /\ rdy \in Bitmap
  <2>1. Consistent(k.rdy)
    BY DEF BitsOK
  <2> HIDE DEF P
  <2>2. Consistent(rdy) /\ Bits(rdy) = Bits(k.rdy) \cup P
    BY <1>3, <2>1, SetBitsAdd
  <2> QED
    BY <2>2 DEF Consistent
<1>5. ASSUME NEW x \in Ecb
      PROVE  /\ event[x] \in EventType
             /\ event[x].type = k.event[x].type /\ event[x].cnt = k.event[x].cnt
             /\ event[x].ptr = k.event[x].ptr
             /\ Consistent(event[x].wait)
             /\ Bits(event[x].wait) = Bits(k.event[x].wait) \ Leavers(k, e, T, x)
  <2> DEFINE w == ClearBits(k.event[x].wait, Leavers(k, e, T, x))
  <2>1. k.event[x] \in EventType
    BY Fields
  <2>2. event[x] = [k.event[x] EXCEPT !.wait = w]
    BY DEF Leavers
  <2>3. /\ w \in Bitmap /\ Consistent(w)
        /\ Bits(w) = Bits(k.event[x].wait) \ Leavers(k, e, T, x)
    <3> DEFINE L == Leavers(k, e, T, x)
    <3>1. L \in SUBSET Prio /\ Consistent(k.event[x].wait)
      BY <1>3 DEF BitsOK
    <3> HIDE DEF L
    <3>2. Consistent(ClearBits(k.event[x].wait, L))
          /\ Bits(ClearBits(k.event[x].wait, L)) = Bits(k.event[x].wait) \ L
      BY <3>1, ClearBitsRemove
    <3> QED
      BY <3>2 DEF Consistent, L
  <2> HIDE DEF w, event
  <2> QED
    BY <2>1, <2>2, <2>3 DEF EventType
<1>6. event \in [Ecb -> EventType]
  <2>1. event = [x \in Ecb |-> event[x]]
    OBVIOUS
  <2> HIDE DEF event
  <2> QED
    BY <1>5, <2>1
<1>7. P = {k.tcb[t].prio : t \in {u \in T : "SUSPEND" \notin tcb[u].stat}}
  OBVIOUS
<1> HIDE DEF tcb, P, rdy, event, j
<1>8. j \in Kernel
  BY <1>1, <1>2, <1>4, <1>6, Sets, PutKernel
<1>9. /\ j.rdy = rdy /\ j.tcb = tcb /\ j.event = event /\ j.flag = k.flag
      /\ j.queue = k.queue /\ SameRest(k, j)
  BY <1>1, PutFields
<1>10. P = Roused(k, j, T)
  BY <1>7, <1>9 DEF Roused
<1> QED
  BY <1>2, <1>4, <1>5, <1>8, <1>9, <1>10 DEF Answers, j

(* Nobody stops being ready.                                               *)
Rouses(k, j) == Orderly(k, j, {}) /\ Bits(k.rdy) \subseteq Bits(j.rdy)

LEMMA AnsweredOK ==
  ASSUME NEW k, NEW j, NEW u, NEW e \in Ecb, NEW pend \in {"OK", "ABORT"},
         k.event[e].type \in EventTypes, KeepsTypes(k, j), e \in Lists(k, u),
         WasAnswered(k.tcb[u], e, k.event[e].type, pend, j.tcb[u]),
         IsReady(j, u) <=> IsReady(k, u) \/ "SUSPEND" \notin j.tcb[u].stat,
         Lists(j, u) = {x \in Lists(k, u) : ~(x = e \/ x \in k.tcb[u].multi)},
         Groups(j, u) = Groups(k, u)
  PROVE  Undisturbed(k, j, {u})
<1> SUFFICES ASSUME NEW l, NEW ev, TaskOK(k, u, l, ev)
             PROVE  TaskOK(j, u, l, ev)
  BY DEF Undisturbed
<1> DEFINE c == k.tcb[u]
           d == j.tcb[u]
           type == k.event[e].type
<1>1. /\ d.stat = c.stat \ {type} /\ d.pend = pend /\ d.dly = 0
      /\ d.event = (IF c.multi = {} THEN c.event ELSE e)
      /\ d.multi = c.multi /\ d.node = c.node
  BY DEF WasAnswered
<1>2. l # "none" /\ l # "FlagPended"
  BY DEF TaskOK, WaitsForNothing, WaitsForFlags
<1>3. ASSUME l \in {"SemPended", "MboxPended", "QPended"}
      PROVE  WaitsForOne(j, u, KindOf(l), ev)
  <2>1. WaitsForOne(k, u, KindOf(l), ev) /\ KindOf(l) # "UNUSED"
    BY <1>3 DEF TaskOK, KindOf
  <2>2. e = ev /\ type = KindOf(l) /\ Lists(j, u) = {}
    BY <2>1 DEF WaitsForOne
  <2> QED
    BY <1>1, <2>1, <2>2 DEF WaitsForOne, KeepsTypes
<1>4. ASSUME l = "MultiPended"
      PROVE  WaitsForAny(j, u, ev)
  <2>1. WaitsForAny(k, u, ev)
    BY <1>4 DEF TaskOK
  <2>2. c.multi = ev /\ c.event = Null /\ e \in ev /\ Lists(j, u) = {}
    BY <2>1 DEF WaitsForAny
  <2>3. \A x \in ev : j.event[x].type = k.event[x].type
    BY <2>1 DEF WaitsForAny, KeepsTypes, EventTypes
  <2>4. e # Null /\ type # "MULTI"
    BY DEF Ecb, Null, EventTypes
  <2>5. d.event = e /\ "MULTI" \in d.stat /\ d.stat \cap {"SUSPEND", "FLAG"} = {}
    BY <1>1, <2>1, <2>2, <2>4 DEF WaitsForAny
  <2> QED
    BY <1>1, <2>1, <2>2, <2>3, <2>4, <2>5 DEF WaitsForAny
<1> QED
  BY <1>2, <1>3, <1>4 DEF TaskOK

LEMMA AnswersOrderly ==
  ASSUME NEW k, Sound(k), NEW e \in Ecb, k.event[e].type \in EventTypes,
         NEW T \in SUBSET k.list, \A u \in T : e \in Lists(k, u),
         NEW pend \in {"OK", "ABORT"}, NEW j, Answers(k, j, e, T, k.event[e].type, pend)
  PROVE  Rouses(k, j)
<1>1. k \in Kernel /\ PriosOK(k) /\ BitsOK(k) /\ PoolsOK(k) /\ ServedOK(k)
  BY DEF Sound
<1>2. /\ j \in Kernel /\ SameRest(k, j) /\ j.flag = k.flag /\ j.queue = k.queue
      /\ \A u \in Tcb \ T : j.tcb[u] = k.tcb[u]
      /\ Consistent(j.rdy) /\ Bits(j.rdy) = Bits(k.rdy) \cup Roused(k, j, T)
  BY DEF Answers
<1>3. \A x \in Ecb :
        /\ j.event[x].type = k.event[x].type /\ j.event[x].cnt = k.event[x].cnt
        /\ j.event[x].ptr = k.event[x].ptr
        /\ Consistent(j.event[x].wait)
        /\ Bits(j.event[x].wait) = Bits(k.event[x].wait) \ Leavers(k, e, T, x)
  BY DEF Answers
<1>4. \A u \in T : WasAnswered(k.tcb[u], e, k.event[e].type, pend, j.tcb[u])
  BY DEF Answers
<1>5. \A u \in Tcb : /\ j.tcb[u].prio = k.tcb[u].prio /\ j.tcb[u].node = k.tcb[u].node
                     /\ "FLAG" \in j.tcb[u].stat => "FLAG" \in k.tcb[u].stat
  BY <1>2, <1>4 DEF WasAnswered
<1>6. SameParts(k, j)
  BY <1>2, <1>3, <1>5 DEF SameParts, SameRest
<1>7. PriosOK(j) /\ BitsOK(j) /\ PoolsOK(j)
  <2>1. \A p \in Roused(k, j, T) : k.prioTbl[p] # Null
    BY <1>1, Fields DEF Roused, PriosOK, Tcb, Null
  <2>2. \A p \in Bits(j.rdy) : k.prioTbl[p] # Null
    BY <1>1, <1>2, <2>1 DEF BitsOK
  <2>3. IdlePrio \in Bits(j.rdy)
    BY <1>1, <1>2 DEF BitsOK
  <2>4. \A x \in Ecb : \A p \in Bits(j.event[x].wait) : p \in Bits(k.event[x].wait)
    BY <1>3
  <2> QED
    BY <1>2, <1>3, <1>6, <2>2, <2>3, <2>4, PartsKept
<1>8. KeepsTypes(k, j)
  BY <1>6 DEF SameParts, KeepsTypes
<1>9. ServedOK(j)
  <2>1. \A x \in Ecb : /\ Bits(j.event[x].wait) \subseteq Bits(k.event[x].wait)
                       /\ Exhausted(k, x) => Exhausted(j, x)
    BY <1>2, <1>3 DEF Exhausted, TheRing
  <2>2. \A g \in Fgp : \A t \in j.flag[g].wait :
          /\ t \in k.flag[g].wait /\ j.tcb[t].node = k.tcb[t].node
          /\ "FLAG" \in j.tcb[t].stat => "FLAG" \in k.tcb[t].stat
          /\ j.flag[g].flags \subseteq k.flag[g].flags
    BY <1>1, <1>2, <1>5, Fields
  <2> QED
    BY <1>1, <2>1, <2>2, ServedKept
<1>10. ASSUME NEW u \in k.list
       PROVE  Undisturbed(k, j, {u})
  <2> DEFINE p == k.tcb[u].prio
  <2>1. u \in Tcb /\ j.tcb[u].prio = p /\ p \in Prio
        /\ \A t \in T : k.tcb[t].prio = p => t = u
    BY <1>1, <1>5, Fields, OwnPriority
  <2>2. Groups(j, u) = Groups(k, u)
    BY <1>2 DEF Groups
  <2>3. IsReady(j, u) <=> IsReady(k, u) \/ (u \in T /\ "SUSPEND" \notin j.tcb[u].stat)
    BY <1>2, <2>1 DEF IsReady, Roused
  <2>4. Lists(j, u) = {x \in Lists(k, u) : ~(u \in T /\ (x = e \/ x \in k.tcb[u].multi))}
    <3>1. \A x \in Ecb : p \in Leavers(k, e, T, x) <=> u \in T /\ (x = e \/ x \in k.tcb[u].multi)
      BY <2>1 DEF Leavers
    <3> QED
      BY <1>3, <2>1, <3>1 DEF Lists
  <2>5. CASE u \in T
    <3>1. e \in Lists(k, u) /\ WasAnswered(k.tcb[u], e, k.event[e].type, pend, j.tcb[u])
      BY <1>4, <2>5
    <3>2. Lists(j, u) = {x \in Lists(k, u) : ~(x = e \/ x \in k.tcb[u].multi)}
      BY <2>4, <2>5
    <3> QED
      BY <1>8, <2>2, <2>3, <2>5, <3>1, <3>2, AnsweredOK
  <2>6. CASE u \notin T
    <3>1. j.tcb[u] = k.tcb[u] /\ Lists(j, u) = Lists(k, u) /\ (IsReady(j, u) <=> IsReady(k, u))
      BY <1>2, <2>1, <2>3, <2>4, <2>6
    <3> QED
      BY <1>8, <2>2, <3>1, Frame
  <2> QED
    BY <2>5, <2>6
<1> QED
  BY <1>2, <1>6, <1>7, <1>9, <1>10 DEF Rouses, Orderly, Sound, Undisturbed

(* Whoever is found in a wait list waits there.                            *)
LEMMA Waiters0 ==
  ASSUME NEW k, Sound(k), NEW e \in Ecb, NEW p \in Bits(k.event[e].wait)
  PROVE  k.prioTbl[p] \in k.list /\ e \in Lists(k, k.prioTbl[p])
<1>1. p \in Prio /\ k.prioTbl[p] # Null /\ PriosOK(k)
  BY BitsTest DEF Sound, BitsOK
<1> QED
  BY <1>1 DEF PriosOK, Lists

LEMMA RdyOneOrderly ==
  ASSUME NEW k, Sound(k), NEW e \in Ecb, k.event[e].type \in EventTypes, Waiting(k, e),
         NEW msg \in Int, NEW pend \in {"OK", "ABORT"}
  PROVE  Rouses(k, OS_EventTaskRdy(k, e, msg, k.event[e].type, pend))
<1> DEFINE T == {k.prioTbl[HighestPrio(k.event[e].wait)]}
           type == k.event[e].type
           j == TasksRdy(k, e, T, msg, type, pend)
<1>1. k \in Kernel /\ BitsOK(k) /\ Consistent(k.event[e].wait)
  BY DEF Sound, BitsOK
<1>2. HighestPrio(k.event[e].wait) \in Bits(k.event[e].wait)
  BY <1>1, GroupTells, HighestIsLeast DEF Waiting
<1>3. T \in SUBSET k.list /\ \A u \in T : e \in Lists(k, u)
  <2>1. /\ k.prioTbl[HighestPrio(k.event[e].wait)] \in k.list
        /\ e \in Lists(k, k.prioTbl[HighestPrio(k.event[e].wait)])
    BY <1>2, Waiters0
  <2> QED
    BY <2>1
<1>4. T \in SUBSET Tcb
  BY <1>1, <1>3, Fields
<1> HIDE DEF T
<1>5. Answers(k, j, e, T, type, pend)
  BY <1>1, <1>4, TasksRdyAnswers
<1> HIDE DEF j
<1>6. Rouses(k, j)
  BY <1>3, <1>5, AnswersOrderly
<1> QED
  BY <1>6 DEF OS_EventTaskRdy, j, T

LEMMA RdyAllOrderly ==
  ASSUME NEW k, Sound(k), NEW e \in Ecb, k.event[e].type \in EventTypes,
         NEW msg \in Int, NEW pend \in {"OK", "ABORT"}
  PROVE  Rouses(k, RdyAll(k, e, msg, k.event[e].type, pend))
<1> DEFINE T == {k.prioTbl[p] : p \in Bits(k.event[e].wait)}
           type == k.event[e].type
           j == TasksRdy(k, e, T, msg, type, pend)
<1>1. k \in Kernel /\ BitsOK(k)
  BY DEF Sound
<1>2. T \in SUBSET k.list /\ \A u \in T : e \in Lists(k, u)
  BY Waiters0
<1>3. T \in SUBSET Tcb
  BY <1>1, <1>2, Fields
<1> HIDE DEF T
<1>4. Answers(k, j, e, T, type, pend)
  BY <1>1, <1>3, TasksRdyAnswers
<1> HIDE DEF j
<1>5. Rouses(k, j)
  BY <1>2, <1>4, AnswersOrderly
<1> QED
  BY <1>5 DEF RdyAll, j, T

(* A delay or a timeout is over: the task is ready unless it is suspended. *)
LEMMA DelayOverOK ==
  ASSUME NEW k, NEW j, NEW u, KeepsTypes(k, j),
         k.tcb[u] \in TcbType, k.tcb[u].dly # 0, j.tcb[u] = DelayOver(k.tcb[u]),
         IsReady(j, u) <=> IsReady(k, u) \/ "SUSPEND" \notin j.tcb[u].stat,
         Lists(j, u) = Lists(k, u), Groups(j, u) = Groups(k, u)
  PROVE  Undisturbed(k, j, {u})
<1> SUFFICES ASSUME NEW l, NEW ev, TaskOK(k, u, l, ev)
             PROVE  TaskOK(j, u, l, ev)
  BY DEF Undisturbed
<1> DEFINE c == k.tcb[u]
           d == j.tcb[u]
<1>1. /\ d.stat = c.stat \ PendAny /\ d.dly = 0
      /\ d.pend = (IF c.stat \cap PendAny # {} THEN "TO" ELSE "OK")
      /\ d.event = c.event /\ d.multi = c.multi /\ d.node = c.node
  BY DEF DelayOver, TcbType
<1>2. "SUSPEND" \notin PendAny /\ "MULTI" \notin PendAny /\ "FLAG" \in PendAny
      /\ EventTypes \subseteq PendAny
  BY DEF PendAny, EventTypes
<1>3. ASSUME l = "none"
      PROVE  WaitsForNothing(j, u)
  <2>1. WaitsForNothing(k, u)
    BY <1>3 DEF TaskOK
  <2>2. c.stat \subseteq {"SUSPEND"} /\ d.stat = c.stat /\ d.pend = "OK" /\ ~IsReady(k, u)
    BY <1>1, <1>2, <2>1 DEF WaitsForNothing
  <2> QED
    BY <1>1, <2>1, <2>2 DEF WaitsForNothing
<1>4. ASSUME l \in {"SemPended", "MboxPended", "QPended"}
      PROVE  WaitsForOne(j, u, KindOf(l), ev)
  <2> DEFINE type == KindOf(l)
  <2>1. WaitsForOne(k, u, type, ev) /\ type \in EventTypes
    BY <1>4 DEF TaskOK, KindOf, EventTypes
  <2> HIDE DEF type
  <2>2. type \in c.stat /\ d.stat = c.stat \cap {"SUSPEND"} /\ d.pend = "TO" /\ ~IsReady(k, u)
    BY <1>1, <1>2, <2>1 DEF WaitsForOne
  <2>3. type # "UNUSED" /\ type # "SUSPEND"
    BY <2>1 DEF EventTypes
  <2> QED
    BY <1>1, <2>1, <2>2, <2>3 DEF WaitsForOne, KeepsTypes, type
<1>5. ASSUME l = "FlagPended"
      PROVE  WaitsForFlags(j, u, ev)
  <2>1. WaitsForFlags(k, u, ev)
    BY <1>5 DEF TaskOK
  <2>2. "FLAG" \in c.stat /\ d.stat = c.stat \cap {"SUSPEND"} /\ d.pend = "TO"
        /\ ~IsReady(k, u)
    BY <1>1, <1>2, <2>1 DEF WaitsForFlags
  <2> QED
    BY <1>1, <2>1, <2>2 DEF WaitsForFlags, KeepsTypes
<1>6. ASSUME l = "MultiPended"
      PROVE  WaitsForAny(j, u, ev)
  <2>1. WaitsForAny(k, u, ev)
    BY <1>6 DEF TaskOK
  <2>2. \A x \in ev : j.event[x].type = k.event[x].type
    BY <2>1 DEF WaitsForAny, KeepsTypes, EventTypes
  <2>3. c.event = Null /\ c.pend = "OK" /\ {k.event[e].type : e \in ev} \subseteq c.stat
    BY <2>1 DEF WaitsForAny
  <2>4. PICK x \in ev : k.event[x].type \in EventTypes
    BY <2>1 DEF WaitsForAny
  <2>5. d.pend = "TO"
    BY <1>1, <1>2, <2>3, <2>4
  <2>6. "MULTI" \in d.stat /\ d.stat \cap {"SUSPEND", "FLAG"} = {} /\ d.stat \cap PendAny = {}
    BY <1>1, <1>2, <2>1 DEF WaitsForAny
  <2> QED
    BY <1>1, <2>1, <2>2, <2>3, <2>5, <2>6 DEF WaitsForAny
<1> QED
  BY <1>3, <1>4, <1>5, <1>6 DEF TaskOK

(* Whoever counts ticks is not ready, and one tick less changes nothing    *)
(* while ticks are left.                                                   *)
LEMMA CountsOn ==
  ASSUME NEW k, NEW j, NEW u, KeepsTypes(k, j),
         k.tcb[u] \in TcbType, k.tcb[u].dly # 0, j.tcb[u].dly # 0,
         j.tcb[u].stat = k.tcb[u].stat, j.tcb[u].pend = k.tcb[u].pend,
         j.tcb[u].event = k.tcb[u].event,
         j.tcb[u].multi = k.tcb[u].multi, j.tcb[u].node = k.tcb[u].node,
         IsReady(j, u) <=> IsReady(k, u), Lists(j, u) = Lists(k, u),
         Groups(j, u) = Groups(k, u)
  PROVE  Undisturbed(k, j, {u})
<1> SUFFICES ASSUME NEW l, NEW ev, TaskOK(k, u, l, ev)
             PROVE  TaskOK(j, u, l, ev)
  BY DEF Undisturbed
<1>1. ASSUME l = "none"
      PROVE  WaitsForNothing(j, u)
  BY <1>1 DEF TaskOK, WaitsForNothing
<1>2. ASSUME l \in {"SemPended", "MboxPended", "QPended"}
      PROVE  WaitsForOne(j, u, KindOf(l), ev)
  <2>1. KindOf(l) # "UNUSED"
    BY <1>2 DEF KindOf
  <2>2. WaitsForOne(k, u, KindOf(l), ev)
    BY <1>2 DEF TaskOK
  <2> QED
    BY <2>1, <2>2 DEF WaitsForOne, KeepsTypes
<1>3. ASSUME l = "FlagPended"
      PROVE  WaitsForFlags(j, u, ev)
  <2>1. WaitsForFlags(k, u, ev)
    BY <1>3 DEF TaskOK
  <2> QED
    BY <2>1 DEF WaitsForFlags, KeepsTypes
<1>4. ASSUME l = "MultiPended"
      PROVE  WaitsForAny(j, u, ev)
  <2>1. WaitsForAny(k, u, ev)
    BY <1>4 DEF TaskOK
  <2>2. \A e \in ev : j.event[e].type = k.event[e].type
    BY <2>1 DEF WaitsForAny, KeepsTypes, EventTypes
  <2>3. {j.event[e].type : e \in ev} = {k.event[e].type : e \in ev}
    BY <2>2
  <2> QED
    BY <2>1, <2>2, <2>3 DEF WaitsForAny
<1> QED
  BY <1>1, <1>2, <1>3, <1>4 DEF TaskOK

(* Only control blocks and the ready list change.                          *)
LEMMA TcbsOrderly ==
  ASSUME NEW k, Sound(k), NEW j \in Kernel, SameRest(k, j),
         j.event = k.event, j.flag = k.flag, j.queue = k.queue,
         \A u \in Tcb : /\ j.tcb[u].prio = k.tcb[u].prio
                        /\ j.tcb[u].node = k.tcb[u].node
                        /\ "FLAG" \in j.tcb[u].stat => "FLAG" \in k.tcb[u].stat,
         Consistent(j.rdy), IdlePrio \in Bits(j.rdy),
         \A p \in Bits(j.rdy) : k.prioTbl[p] # Null,
         NEW T, \A u \in k.list \ T : Undisturbed(k, j, {u})
  PROVE  Orderly(k, j, T)
<1>1. k \in Kernel /\ BitsOK(k) /\ ServedOK(k)
  BY DEF Sound
<1>2. SameParts(k, j)
  BY DEF SameParts, SameRest
<1>3. \A e \in Ecb : Consistent(j.event[e].wait)
  BY <1>1 DEF BitsOK
<1>4. PriosOK(j) /\ BitsOK(j) /\ PoolsOK(j)
  BY <1>2, <1>3, PartsKept
<1>5. ServedOK(j)
  <2>1. \A e \in Ecb : Exhausted(k, e) => Exhausted(j, e)
    BY DEF Exhausted, TheRing
  <2>2. \A g \in Fgp : \A t \in j.flag[g].wait : t \in k.flag[g].wait /\ t \in Tcb
    BY <1>1, Fields
  <2> QED
    BY <1>1, <2>1, <2>2, ServedKept
<1> QED
  BY <1>2, <1>4, <1>5 DEF Orderly, Sound, Undisturbed

LEMMA ReadyAllIs ==
  ASSUME NEW k \in Kernel, NEW S
  PROVE  ReadyAll(k, S) = Put(k, SetBits(k.rdy, {k.tcb[t].prio : t \in S}),
                              k.tcb, k.event, k.flag, k.queue)
  BY DEF Kernel, Put, ReadyAll

(* A set of tasks becomes ready.                                           *)
LEMMA ReadyAllFields ==
  ASSUME NEW k \in Kernel, Consistent(k.rdy), NEW S \in SUBSET Tcb
  PROVE  LET j == ReadyAll(k, S) IN
         /\ j \in Kernel /\ SameRest(k, j)
         /\ j.tcb = k.tcb /\ j.event = k.event /\ j.flag = k.flag /\ j.queue = k.queue
         /\ Consistent(j.rdy)
         /\ Bits(j.rdy) = Bits(k.rdy) \cup {k.tcb[t].prio : t \in S}
<1> DEFINE P == {k.tcb[t].prio : t \in S}
           j == ReadyAll(k, S)
<1>1. P \in SUBSET Prio
  <2>1. \A t \in S : k.tcb[t].prio \in Prio
    BY Fields
  <2> QED
    BY <2>1
<1>2. j = Put(k, SetBits(k.rdy, P), k.tcb, k.event, k.flag, k.queue)
  BY ReadyAllIs
<1> HIDE DEF P, j
<1>3. Consistent(SetBits(k.rdy, P)) /\ Bits(SetBits(k.rdy, P)) = Bits(k.rdy) \cup P
  BY <1>1, SetBitsAdd
<1>4. SetBits(k.rdy, P) \in Bitmap
  BY <1>3 DEF Consistent
<1>5. j \in Kernel
  BY <1>2, <1>4, Sets, PutKernel
<1>6. /\ j.rdy = SetBits(k.rdy, P) /\ j.tcb = k.tcb /\ j.event = k.event
      /\ j.flag = k.flag /\ j.queue = k.queue /\ SameRest(k, j)
  BY <1>2, PutFields
<1> QED
  BY <1>3, <1>5, <1>6 DEF P, j

LEMMA DelayOverType ==
  ASSUME NEW c \in TcbType
  PROVE  /\ DelayOver(c) \in TcbType /\ DelayOver(c).prio = c.prio
         /\ DelayOver(c).node = c.node /\ DelayOver(c).stat = c.stat \ PendAny
  BY DEF DelayOver, TcbType

(* A tick: the delays and timeouts that are over are over for every task,  *)
(* whatever it is in the middle of.                                        *)
LEMMA TickOrderly ==
  ASSUME NEW k, Sound(k)
  PROVE  Rouses(k, OSTimeTick(k))
<1> DEFINE Counting == {t \in k.list : k.tcb[t].prio # IdlePrio /\ k.tcb[t].dly # 0}
           Over == {t \in Counting : k.tcb[t].dly = 1}
           tcb == [t \in Tcb |->
                     CASE t \in Over -> DelayOver(k.tcb[t])
                       [] t \in Counting \ Over -> [k.tcb[t] EXCEPT !.dly = @ - 1]
                       [] OTHER -> k.tcb[t]]
           i == [k EXCEPT !.tcb = tcb]
           S == {t \in Over : "SUSPEND" \notin i.tcb[t].stat}
           j == OSTimeTick(k)
<1>1. j = ReadyAll(i, S)
  BY DEF OSTimeTick
<1> HIDE DEF j
<1>2. k \in Kernel /\ PriosOK(k) /\ BitsOK(k) /\ Consistent(k.rdy) /\ k.list \subseteq Tcb
      /\ Over \subseteq Counting /\ Counting \subseteq k.list
  BY Fields DEF Sound, BitsOK
<1>3. /\ \A t \in Over : tcb[t] = DelayOver(k.tcb[t])
      /\ \A t \in Counting \ Over : tcb[t] = [k.tcb[t] EXCEPT !.dly = @ - 1]
      /\ \A t \in Tcb \ Counting : tcb[t] = k.tcb[t]
  BY <1>2
<1>4. ASSUME NEW t \in Counting \ Over
      PROVE  /\ tcb[t] \in TcbType /\ tcb[t].dly # 0
             /\ tcb[t].stat = k.tcb[t].stat /\ tcb[t].pend = k.tcb[t].pend
             /\ tcb[t].event = k.tcb[t].event /\ tcb[t].multi = k.tcb[t].multi
             /\ tcb[t].node = k.tcb[t].node /\ tcb[t].prio = k.tcb[t].prio
  <2>0. t \in Tcb /\ k.tcb[t].dly # 0 /\ k.tcb[t].dly # 1
    BY <1>2
  <2>1. k.tcb[t] \in TcbType /\ k.tcb[t].dly \in Nat /\ k.tcb[t].dly > 1
    <3>1. k.tcb[t] \in TcbType /\ k.tcb[t].dly \in Nat
      BY <1>2, <2>0, Fields
    <3> QED
      BY <2>0, <3>1
  <2>2. k.tcb[t].dly - 1 \in Nat /\ k.tcb[t].dly - 1 # 0
    BY <2>1
  <2>3. tcb[t] = [k.tcb[t] EXCEPT !.dly = @ - 1]
    BY <1>3
  <2> HIDE DEF tcb
  <2> QED
    BY <2>1, <2>2, <2>3 DEF TcbType
<1>5. ASSUME NEW t \in Over
      PROVE  /\ tcb[t] \in TcbType /\ tcb[t].prio = k.tcb[t].prio
             /\ tcb[t].node = k.tcb[t].node
             /\ "FLAG" \in tcb[t].stat => "FLAG" \in k.tcb[t].stat
  BY <1>2, <1>3, Fields, DelayOverType
<1>6. DOMAIN tcb = Tcb /\ tcb = [t \in Tcb |-> tcb[t]]
  OBVIOUS
<1> HIDE DEF tcb
<1>7. tcb \in [Tcb -> TcbType]
  <2>1. \A t \in Tcb : tcb[t] \in TcbType
    BY <1>2, <1>3, <1>4, <1>5, Fields
  <2> QED
    BY <1>6, <2>1
<1>8. i = Put(k, k.rdy, tcb, k.event, k.flag, k.queue)
  BY <1>2 DEF Kernel, Put
<1>9. /\ i \in Kernel /\ SameRest(k, i) /\ i.rdy = k.rdy /\ i.tcb = tcb
      /\ i.event = k.event /\ i.flag = k.flag /\ i.queue = k.queue
  BY <1>2, <1>7, <1>8, Sets, PutKernel, PutFields
<1> HIDE DEF i
<1>10. S \in SUBSET Tcb
  BY <1>2
<1> HIDE DEF S
<1>11. /\ j \in Kernel /\ SameRest(i, j) /\ j.tcb = tcb /\ j.event = k.event
       /\ j.flag = k.flag /\ j.queue = k.queue /\ Consistent(j.rdy)
       /\ Bits(j.rdy) = Bits(k.rdy) \cup {tcb[t].prio : t \in S}
  BY <1>1, <1>2, <1>9, <1>10, ReadyAllFields
<1>12. SameRest(k, j)
  BY <1>9, <1>11 DEF SameRest
<1>13. \A u \in Tcb : /\ tcb[u].prio = k.tcb[u].prio /\ tcb[u].node = k.tcb[u].node
                      /\ "FLAG" \in tcb[u].stat => "FLAG" \in k.tcb[u].stat
  BY <1>3, <1>4, <1>5
<1>14. \A t \in S : t \in k.list /\ tcb[t].prio = k.tcb[t].prio
  BY <1>2, <1>13 DEF S
<1>15. \A p \in Bits(j.rdy) : k.prioTbl[p] # Null
  <2>1. \A t \in S : k.prioTbl[tcb[t].prio] # Null
    BY <1>2, <1>14 DEF PriosOK, Tcb, Null
  <2> QED
    BY <1>2, <1>11, <2>1 DEF BitsOK
<1>16. IdlePrio \in Bits(j.rdy)
  BY <1>2, <1>11 DEF BitsOK
<1>17. KeepsTypes(k, j)
  BY <1>11 DEF KeepsTypes
<1>18. ASSUME NEW u \in k.list
       PROVE  Undisturbed(k, j, {u})
  <2>1. u \in Tcb /\ j.tcb[u].prio = k.tcb[u].prio /\ k.tcb[u].prio \in Prio
        /\ k.tcb[u] \in TcbType
    BY <1>2, <1>11, <1>13, Fields
  <2>2. Lists(j, u) = Lists(k, u) /\ Groups(j, u) = Groups(k, u)
    BY <1>11, <2>1 DEF Lists, Groups
  <2>3. IsReady(j, u) <=> IsReady(k, u) \/ u \in S
    <3>1. \A t \in S : tcb[t].prio = k.tcb[u].prio => t = u
      BY <1>2, <1>14, OwnPriority
    <3> QED
      BY <1>11, <1>13, <2>1, <3>1 DEF IsReady
  <2>4. CASE u \in Over
    <3>1. u \in S <=> "SUSPEND" \notin j.tcb[u].stat
      BY <1>9, <1>11, <2>4 DEF S
    <3>2. j.tcb[u] = DelayOver(k.tcb[u]) /\ k.tcb[u].dly # 0
      BY <1>3, <1>11, <2>4
    <3> QED
      BY <1>17, <2>1, <2>2, <2>3, <3>1, <3>2, DelayOverOK
  <2>5. CASE u \in Counting \ Over
    <3>1. u \notin S
      BY <2>5 DEF S
    <3>2. k.tcb[u].dly # 0
      BY <2>5
    <3> QED
      BY <1>4, <1>11, <1>17, <2>1, <2>2, <2>3, <2>5, <3>1, <3>2, CountsOn
  <2>6. CASE u \notin Counting
    <3>1. u \notin S
      BY <2>6 DEF S
    <3>2. j.tcb[u] = k.tcb[u]
      BY <1>3, <1>11, <2>1, <2>6
    <3> QED
      BY <1>17, <2>2, <2>3, <3>1, <3>2, Frame
  <2> QED
    BY <2>4, <2>5, <2>6
<1>19. Orderly(k, j, {})
  BY <1>11, <1>12, <1>13, <1>15, <1>16, <1>18, TcbsOrderly
<1> QED
  BY <1>11, <1>19 DEF Rouses, j

(* One control block changes; one task becomes ready or stops being so.    *)
Alone(k, j, t, d) ==
    /\ j \in Kernel /\ SameRest(k, j) /\ j.rdy = k.rdy
    /\ j.event = k.event /\ j.flag = k.flag /\ j.queue = k.queue
    /\ \A u \in Tcb : u # t => j.tcb[u] = k.tcb[u]
    /\ j.tcb[t] = d

LEMMA AloneIs ==
  ASSUME NEW k \in Kernel, NEW t \in Tcb, NEW d \in TcbType
  PROVE  Alone(k, [k EXCEPT !.tcb[t] = d], t, d)
<1> DEFINE tcb == [k.tcb EXCEPT ![t] = d]
           j == [k EXCEPT !.tcb[t] = d]
<1>1. j = Put(k, k.rdy, tcb, k.event, k.flag, k.queue)
  BY DEF Kernel, Put
<1>2. tcb \in [Tcb -> TcbType] /\ tcb[t] = d /\ \A u \in Tcb : u # t => tcb[u] = k.tcb[u]
  BY Sets
<1> HIDE DEF tcb, j
<1>3. j \in Kernel
  BY <1>1, <1>2, Sets, PutKernel
<1>4. /\ j.rdy = k.rdy /\ j.tcb = tcb /\ j.event = k.event /\ j.flag = k.flag
      /\ j.queue = k.queue /\ SameRest(k, j)
  BY <1>1, PutFields
<1> QED
  BY <1>2, <1>3, <1>4 DEF Alone, j

Turns(k, j, B) ==
    /\ j \in Kernel /\ SameRest(k, j) /\ j.tcb = k.tcb
    /\ j.event = k.event /\ j.flag = k.flag /\ j.queue = k.queue
    /\ Consistent(j.rdy) /\ Bits(j.rdy) = B

LEMMA ReadyTurns ==
  ASSUME NEW k \in Kernel, Consistent(k.rdy), NEW t \in Tcb
  PROVE  Turns(k, Ready(k, t), Bits(k.rdy) \cup {k.tcb[t].prio})
<1> DEFINE p == k.tcb[t].prio
           b == SetBit(k.rdy, p)
           j == Ready(k, t)
<1>1. j = Put(k, b, k.tcb, k.event, k.flag, k.queue)
  BY ReadyIs
<1>2. p \in Prio
  BY Fields
<1> HIDE DEF p
<1>3. Consistent(b) /\ Bits(b) = Bits(k.rdy) \cup {p}
  BY <1>2, SetBitAdds
<1>4. b \in Bitmap
  BY <1>3 DEF Consistent
<1> HIDE DEF b, j
<1>5. j \in Kernel
  BY <1>1, <1>4, Sets, PutKernel
<1>6. /\ j.rdy = b /\ j.tcb = k.tcb /\ j.event = k.event /\ j.flag = k.flag
      /\ j.queue = k.queue /\ SameRest(k, j)
  BY <1>1, PutFields
<1> QED
  BY <1>3, <1>5, <1>6 DEF Turns, j, p

LEMMA UnreadyTurns ==
  ASSUME NEW k \in Kernel, Consistent(k.rdy), NEW t \in Tcb
  PROVE  Turns(k, Unready(k, t), Bits(k.rdy) \ {k.tcb[t].prio})
<1> DEFINE p == k.tcb[t].prio
           b == ClearBit(k.rdy, p)
           j == Unready(k, t)
<1>1. j = Put(k, b, k.tcb, k.event, k.flag, k.queue)
  BY UnreadyIs
<1>2. p \in Prio
  BY Fields
<1> HIDE DEF p
<1>3. Consistent(b) /\ Bits(b) = Bits(k.rdy) \ {p}
  BY <1>2, ClearBitRemoves
<1>4. b \in Bitmap
  BY <1>3 DEF Consistent
<1> HIDE DEF b, j
<1>5. j \in Kernel
  BY <1>1, <1>4, Sets, PutKernel
<1>6. /\ j.rdy = b /\ j.tcb = k.tcb /\ j.event = k.event /\ j.flag = k.flag
      /\ j.queue = k.queue /\ SameRest(k, j)
  BY <1>1, PutFields
<1> QED
  BY <1>3, <1>5, <1>6 DEF Turns, j, p

(* A step that changes one control block and the bits of the ready list.   *)
LEMMA OneTcbOrderly ==
  ASSUME NEW k, Sound(k), NEW t \in k.list, NEW j \in Kernel, SameRest(k, j),
         j.event = k.event, j.flag = k.flag, j.queue = k.queue,
         \A u \in Tcb : u # t => j.tcb[u] = k.tcb[u],
         j.tcb[t].prio = k.tcb[t].prio, j.tcb[t].node = k.tcb[t].node,
         "FLAG" \in j.tcb[t].stat => "FLAG" \in k.tcb[t].stat,
         Consistent(j.rdy), IdlePrio \in Bits(j.rdy),
         Bits(j.rdy) \ {k.tcb[t].prio} = Bits(k.rdy) \ {k.tcb[t].prio}
  PROVE  /\ Orderly(k, j, {t}) /\ KeepsTypes(k, j)
         /\ Lists(j, t) = Lists(k, t) /\ Groups(j, t) = Groups(k, t)
<1> DEFINE p == k.tcb[t].prio
<1>1. k \in Kernel /\ BitsOK(k) /\ PriosOK(k) /\ t \in Tcb /\ k.prioTbl[p] = t /\ t # Null
  BY Fields DEF Sound, PriosOK, Tcb, Null
<1>2. \A q \in Bits(j.rdy) : k.prioTbl[q] # Null
  BY <1>1 DEF BitsOK
<1>3. KeepsTypes(k, j)
  BY DEF KeepsTypes
<1>4. ASSUME NEW u \in k.list \ {t}
      PROVE  Undisturbed(k, j, {u})
  <2>1. u \in Tcb /\ j.tcb[u] = k.tcb[u] /\ k.tcb[u].prio # p
    BY <1>1, Fields, OwnPriority
  <2>2. /\ IsReady(j, u) <=> IsReady(k, u)
        /\ Lists(j, u) = Lists(k, u) /\ Groups(j, u) = Groups(k, u)
    BY <2>1 DEF IsReady, Lists, Groups
  <2> QED
    BY <1>3, <2>1, <2>2, Frame
<1>5. \A u \in Tcb : /\ j.tcb[u].prio = k.tcb[u].prio /\ j.tcb[u].node = k.tcb[u].node
                     /\ "FLAG" \in j.tcb[u].stat => "FLAG" \in k.tcb[u].stat
  OBVIOUS
<1>6. Orderly(k, j, {t})
  BY <1>2, <1>4, <1>5, TcbsOrderly
<1> QED
  BY <1>3, <1>6 DEF Lists, Groups

(* OSTimeDlyResume ends another task's delay, or its timeout.              *)
LEMMA DlyResumeOrderly ==
  ASSUME NEW k, Sound(k), NEW t \in k.list, k.tcb[t].dly # 0
  PROVE  LET i == [k EXCEPT !.tcb[t] = DelayOver(@)] IN
         /\ "SUSPEND" \in i.tcb[t].stat => Orderly(k, i, {}) /\ i.rdy = k.rdy
         /\ "SUSPEND" \notin i.tcb[t].stat => Rouses(k, Ready(i, t))
<1> DEFINE i == [k EXCEPT !.tcb[t] = DelayOver(@)]
           d == DelayOver(k.tcb[t])
           p == k.tcb[t].prio
<1>1. k \in Kernel /\ BitsOK(k) /\ t \in Tcb /\ k.tcb[t] \in TcbType /\ Consistent(k.rdy)
      /\ IdlePrio \in Bits(k.rdy)
  BY Fields DEF Sound, BitsOK
<1>2. /\ d \in TcbType /\ d.prio = p /\ d.node = k.tcb[t].node
      /\ "FLAG" \in d.stat => "FLAG" \in k.tcb[t].stat
  BY <1>1, DelayOverType
<1>3. i = [k EXCEPT !.tcb[t] = d]
  BY <1>1 DEF Kernel
<1> HIDE DEF i, d
<1>4. Alone(k, i, t, d)
  BY <1>1, <1>2, <1>3, AloneIs
<1>5. ASSUME NEW j, Orderly(k, j, {t}), KeepsTypes(k, j), j.tcb = i.tcb,
             Lists(j, t) = Lists(k, t), Groups(j, t) = Groups(k, t),
             IsReady(j, t) <=> IsReady(k, t) \/ "SUSPEND" \notin j.tcb[t].stat
      PROVE  Orderly(k, j, {})
  <2>1. Undisturbed(k, j, {t})
    BY <1>1, <1>4, <1>5, DelayOverOK DEF Alone, d
  <2> QED
    BY <1>5, <2>1 DEF Orderly, Undisturbed
<1>6. ASSUME "SUSPEND" \in i.tcb[t].stat
      PROVE  Orderly(k, i, {}) /\ i.rdy = k.rdy
  <2>1. /\ Orderly(k, i, {t}) /\ KeepsTypes(k, i)
        /\ Lists(i, t) = Lists(k, t) /\ Groups(i, t) = Groups(k, t)
    BY <1>1, <1>2, <1>4, OneTcbOrderly DEF Alone
  <2>2. IsReady(i, t) <=> IsReady(k, t)
    BY <1>2, <1>4 DEF Alone, IsReady
  <2> QED
    BY <1>4, <1>5, <1>6, <2>1, <2>2 DEF Alone
<1>7. ASSUME "SUSPEND" \notin i.tcb[t].stat
      PROVE  Rouses(k, Ready(i, t))
  <2> DEFINE j == Ready(i, t)
  <2>1. i \in Kernel /\ Consistent(i.rdy) /\ i.rdy = k.rdy /\ i.tcb[t] = d
    BY <1>1, <1>4 DEF Alone
  <2>2. Turns(i, j, Bits(k.rdy) \cup {p})
    BY <1>1, <1>2, <2>1, ReadyTurns
  <2> HIDE DEF j
  <2>3. /\ j \in Kernel /\ SameRest(k, j) /\ j.event = k.event /\ j.flag = k.flag
        /\ j.queue = k.queue /\ j.tcb = i.tcb /\ Consistent(j.rdy)
        /\ Bits(j.rdy) = Bits(k.rdy) \cup {p}
    BY <1>4, <2>2 DEF Alone, Turns, SameRest
  <2>4. \A u \in Tcb : u # t => j.tcb[u] = k.tcb[u]
    BY <1>4, <2>3 DEF Alone
  <2>5. /\ Orderly(k, j, {t}) /\ KeepsTypes(k, j)
        /\ Lists(j, t) = Lists(k, t) /\ Groups(j, t) = Groups(k, t)
    BY <1>1, <1>2, <2>1, <2>3, <2>4, OneTcbOrderly
  <2>6. IsReady(j, t)
    BY <1>2, <2>1, <2>3 DEF IsReady
  <2>7. Orderly(k, j, {})
    BY <1>5, <1>7, <2>3, <2>5, <2>6
  <2> QED
    BY <2>3, <2>7 DEF Rouses, j
<1> QED
  BY <1>6, <1>7 DEF i

(* The status of a task says whether it is suspended, whatever it is in    *)
(* the middle of: what else it waits for stays.                            *)
LEMMA SuspendOK ==
  ASSUME NEW k, NEW j, NEW u, KeepsTypes(k, j), k.tcb[u] \in TcbType,
         j.tcb[u] = [k.tcb[u] EXCEPT !.stat = @ \cup {"SUSPEND"}],
         ~IsReady(j, u), Lists(j, u) = Lists(k, u), Groups(j, u) = Groups(k, u)
  PROVE  \A l, ev : l # "MultiPended" /\ TaskOK(k, u, l, ev) => TaskOK(j, u, l, ev)
<1> SUFFICES ASSUME NEW l, NEW ev, l # "MultiPended", TaskOK(k, u, l, ev)
             PROVE  TaskOK(j, u, l, ev)
  OBVIOUS
<1> DEFINE c == k.tcb[u]
           d == j.tcb[u]
<1>1. /\ d.stat = c.stat \cup {"SUSPEND"} /\ d.pend = c.pend /\ d.dly = c.dly
      /\ d.event = c.event /\ d.multi = c.multi /\ d.node = c.node
  BY DEF TcbType
<1>2. ASSUME l = "none"
      PROVE  WaitsForNothing(j, u)
  BY <1>1, <1>2 DEF TaskOK, WaitsForNothing
<1>3. ASSUME l \in {"SemPended", "MboxPended", "QPended"}
      PROVE  WaitsForOne(j, u, KindOf(l), ev)
  <2> DEFINE type == KindOf(l)
  <2>1. WaitsForOne(k, u, type, ev) /\ type # "UNUSED" /\ type # "SUSPEND"
    BY <1>3 DEF TaskOK, KindOf
  <2> HIDE DEF type
  <2> QED
    BY <1>1, <2>1 DEF WaitsForOne, KeepsTypes, type
<1>4. ASSUME l = "FlagPended"
      PROVE  WaitsForFlags(j, u, ev)
  <2>1. WaitsForFlags(k, u, ev)
    BY <1>4 DEF TaskOK
  <2> QED
    BY <1>1, <2>1 DEF WaitsForFlags, KeepsTypes
<1> QED
  BY <1>2, <1>3, <1>4 DEF TaskOK

LEMMA ResumeOK ==
  ASSUME NEW k, NEW j, NEW u, KeepsTypes(k, j), k.tcb[u] \in TcbType,
         "SUSPEND" \in k.tcb[u].stat,
         j.tcb[u] = [k.tcb[u] EXCEPT !.stat = @ \ {"SUSPEND"}],
         IsReady(j, u) <=> IsReady(k, u) \/ (j.tcb[u].stat = {} /\ j.tcb[u].dly = 0),
         Lists(j, u) = Lists(k, u), Groups(j, u) = Groups(k, u)
  PROVE  Undisturbed(k, j, {u})
<1> SUFFICES ASSUME NEW l, NEW ev, TaskOK(k, u, l, ev)
             PROVE  TaskOK(j, u, l, ev)
  BY DEF Undisturbed
<1> DEFINE c == k.tcb[u]
           d == j.tcb[u]
<1>1. /\ d.stat = c.stat \ {"SUSPEND"} /\ d.pend = c.pend /\ d.dly = c.dly
      /\ d.event = c.event /\ d.multi = c.multi /\ d.node = c.node
  BY DEF TcbType
<1>2. ASSUME l = "none"
      PROVE  WaitsForNothing(j, u)
  BY <1>1, <1>2 DEF TaskOK, WaitsForNothing
<1>3. ASSUME l \in {"SemPended", "MboxPended", "QPended"}
      PROVE  WaitsForOne(j, u, KindOf(l), ev)
  <2> DEFINE type == KindOf(l)
  <2>1. WaitsForOne(k, u, type, ev) /\ type # "UNUSED" /\ type # "SUSPEND"
    BY <1>3 DEF TaskOK, KindOf
  <2> HIDE DEF type
  <2> QED
    BY <1>1, <2>1 DEF WaitsForOne, KeepsTypes, type
<1>4. ASSUME l = "FlagPended"
      PROVE  WaitsForFlags(j, u, ev)
  <2>1. WaitsForFlags(k, u, ev)
    BY <1>4 DEF TaskOK
  <2> QED
    BY <1>1, <2>1 DEF WaitsForFlags, KeepsTypes
<1>5. l # "MultiPended"
  BY DEF TaskOK, WaitsForAny
<1> QED
  BY <1>2, <1>3, <1>4, <1>5 DEF TaskOK

LEMMA SuspendOrderly ==
  ASSUME NEW k, Sound(k), NEW t \in k.list, k.tcb[t].prio # IdlePrio
  PROVE  LET j == [Unready(k, t) EXCEPT !.tcb[t].stat = @ \cup {"SUSPEND"}] IN
         /\ Orderly(k, j, {t})
         /\ Bits(j.rdy) = Bits(k.rdy) \ {k.tcb[t].prio}
         /\ \A l, ev : l # "MultiPended" /\ TaskOK(k, t, l, ev) => TaskOK(j, t, l, ev)
<1> DEFINE p == k.tcb[t].prio
           i == Unready(k, t)
           d == [k.tcb[t] EXCEPT !.stat = @ \cup {"SUSPEND"}]
           j == [i EXCEPT !.tcb[t].stat = @ \cup {"SUSPEND"}]
<1>1. k \in Kernel /\ BitsOK(k) /\ t \in Tcb /\ k.tcb[t] \in TcbType /\ Consistent(k.rdy)
      /\ IdlePrio \in Bits(k.rdy)
  BY Fields DEF Sound, BitsOK
<1>2. Turns(k, i, Bits(k.rdy) \ {p})
  BY <1>1, UnreadyTurns
<1>3. /\ d \in TcbType /\ d.prio = p /\ d.node = k.tcb[t].node
      /\ d.stat = k.tcb[t].stat \cup {"SUSPEND"}
  BY <1>1 DEF TcbType, Statuses
<1>4. i \in Kernel /\ i.tcb = k.tcb
  BY <1>2 DEF Turns
<1> HIDE DEF i
<1>5. j = [i EXCEPT !.tcb[t] = d]
  BY <1>1, <1>4 DEF Kernel
<1> HIDE DEF j, d
<1>6. Alone(i, j, t, d)
  BY <1>1, <1>3, <1>4, <1>5, AloneIs
<1>7. /\ j \in Kernel /\ SameRest(k, j) /\ j.event = k.event /\ j.flag = k.flag
      /\ j.queue = k.queue /\ j.tcb[t] = d /\ Consistent(j.rdy)
      /\ Bits(j.rdy) = Bits(k.rdy) \ {p}
      /\ \A u \in Tcb : u # t => j.tcb[u] = k.tcb[u]
  BY <1>2, <1>6 DEF Alone, Turns, SameRest
<1>8. /\ Orderly(k, j, {t}) /\ KeepsTypes(k, j)
      /\ Lists(j, t) = Lists(k, t) /\ Groups(j, t) = Groups(k, t)
  <2>1. "FLAG" \in d.stat => "FLAG" \in k.tcb[t].stat
    BY <1>3
  <2>2. IdlePrio \in Bits(j.rdy) /\ Bits(j.rdy) \ {p} = Bits(k.rdy) \ {p}
    BY <1>1, <1>7
  <2> QED
    BY <1>3, <1>7, <2>1, <2>2, OneTcbOrderly
<1>9. ~IsReady(j, t)
  BY <1>3, <1>7 DEF IsReady
<1>10. \A l, ev : l # "MultiPended" /\ TaskOK(k, t, l, ev) => TaskOK(j, t, l, ev)
  BY <1>1, <1>7, <1>8, <1>9, SuspendOK DEF d
<1> QED
  BY <1>7, <1>8, <1>10 DEF j, i

LEMMA ResumeOrderly ==
  ASSUME NEW k, Sound(k), NEW t \in k.list, "SUSPEND" \in k.tcb[t].stat
  PROVE  LET i == [k EXCEPT !.tcb[t].stat = @ \ {"SUSPEND"}] IN
         IF i.tcb[t].stat = {} /\ i.tcb[t].dly = 0
         THEN Rouses(k, Ready(i, t)) ELSE Orderly(k, i, {}) /\ i.rdy = k.rdy
<1> DEFINE i == [k EXCEPT !.tcb[t].stat = @ \ {"SUSPEND"}]
           d == [k.tcb[t] EXCEPT !.stat = @ \ {"SUSPEND"}]
           p == k.tcb[t].prio
           back == i.tcb[t].stat = {} /\ i.tcb[t].dly = 0
<1>1. k \in Kernel /\ BitsOK(k) /\ t \in Tcb /\ k.tcb[t] \in TcbType /\ Consistent(k.rdy)
      /\ IdlePrio \in Bits(k.rdy)
  BY Fields DEF Sound, BitsOK
<1>2. /\ d \in TcbType /\ d.prio = p /\ d.node = k.tcb[t].node
      /\ "FLAG" \in d.stat => "FLAG" \in k.tcb[t].stat
  BY <1>1 DEF TcbType
<1>3. i = [k EXCEPT !.tcb[t] = d]
  BY <1>1 DEF Kernel
<1> HIDE DEF i, d
<1>4. Alone(k, i, t, d)
  BY <1>1, <1>2, <1>3, AloneIs
<1>5. ASSUME NEW j, Orderly(k, j, {t}), KeepsTypes(k, j), j.tcb = i.tcb,
             Lists(j, t) = Lists(k, t), Groups(j, t) = Groups(k, t),
             IsReady(j, t) <=> IsReady(k, t) \/ back
      PROVE  Orderly(k, j, {})
  <2>1. Undisturbed(k, j, {t})
    BY <1>1, <1>4, <1>5, ResumeOK DEF Alone, d
  <2> QED
    BY <1>5, <2>1 DEF Orderly, Undisturbed
<1>6. ASSUME ~back
      PROVE  Orderly(k, i, {}) /\ i.rdy = k.rdy
  <2>1. /\ Orderly(k, i, {t}) /\ KeepsTypes(k, i)
        /\ Lists(i, t) = Lists(k, t) /\ Groups(i, t) = Groups(k, t)
    BY <1>1, <1>2, <1>4, OneTcbOrderly DEF Alone
  <2>2. IsReady(i, t) <=> IsReady(k, t)
    BY <1>2, <1>4 DEF Alone, IsReady
  <2> QED
    BY <1>4, <1>5, <1>6, <2>1, <2>2 DEF Alone
<1>7. ASSUME back
      PROVE  Rouses(k, Ready(i, t))
  <2> DEFINE j == Ready(i, t)
  <2>1. i \in Kernel /\ Consistent(i.rdy) /\ i.rdy = k.rdy /\ i.tcb[t] = d
    BY <1>1, <1>4 DEF Alone
  <2>2. Turns(i, j, Bits(k.rdy) \cup {p})
    BY <1>1, <1>2, <2>1, ReadyTurns
  <2> HIDE DEF j
  <2>3. /\ j \in Kernel /\ SameRest(k, j) /\ j.event = k.event /\ j.flag = k.flag
        /\ j.queue = k.queue /\ j.tcb = i.tcb /\ Consistent(j.rdy)
        /\ Bits(j.rdy) = Bits(k.rdy) \cup {p}
    BY <1>4, <2>2 DEF Alone, Turns, SameRest
  <2>4. \A u \in Tcb : u # t => j.tcb[u] = k.tcb[u]
    BY <1>4, <2>3 DEF Alone
  <2>5. /\ Orderly(k, j, {t}) /\ KeepsTypes(k, j)
        /\ Lists(j, t) = Lists(k, t) /\ Groups(j, t) = Groups(k, t)
    BY <1>1, <1>2, <2>1, <2>3, <2>4, OneTcbOrderly
  <2>6. IsReady(j, t)
    BY <1>2, <2>1, <2>3 DEF IsReady
  <2>7. Orderly(k, j, {})
    BY <1>5, <1>7, <2>3, <2>5, <2>6
  <2> QED
    BY <2>3, <2>7 DEF Rouses, j
<1> QED
  BY <1>6, <1>7 DEF i

(* What a control block becomes when flags end its wait.                   *)
FlagAnswered(c, d) ==
    /\ d \in TcbType /\ d.stat = c.stat \ {"FLAG"} /\ d.pend = "OK" /\ d.dly = 0
    /\ d.event = c.event /\ d.multi = c.multi /\ d.node = NoNode /\ d.prio = c.prio

LEMMA FlagAnsweredType ==
  ASSUME NEW c \in TcbType, NEW flags \in SUBSET FlagNames
  PROVE  FlagAnswered(c, [c EXCEPT !.dly = 0, !.flagsRdy = flags, !.stat = @ \ {"FLAG"},
                                   !.pend = "OK", !.node = NoNode])
<1>1. NoNode \in NodeType
  BY DEF NoNode, NodeType
<1> QED
  BY <1>1 DEF TcbType, FlagAnswered

(* The tasks S leave the list of the group g.                              *)
FlagRouses(k, j, g, S) ==
    /\ j \in Kernel /\ SameRest(k, j) /\ j.event = k.event /\ j.queue = k.queue
    /\ \A u \in Tcb \ S : j.tcb[u] = k.tcb[u]
    /\ \A u \in S : FlagAnswered(k.tcb[u], j.tcb[u])
    /\ Consistent(j.rdy)
    /\ Bits(j.rdy) = Bits(k.rdy) \cup {j.tcb[t].prio : t \in {u \in S : j.tcb[u].stat = {}}}
    /\ \A f \in Fgp :
         /\ j.flag[f].type = k.flag[f].type /\ j.flag[f].flags = k.flag[f].flags
         /\ j.flag[f].wait = IF f = g THEN k.flag[f].wait \ S ELSE k.flag[f].wait

LEMMA FlagTaskRdyRouses ==
  ASSUME NEW k \in Kernel, Consistent(k.rdy), NEW g \in Fgp, NEW S \in SUBSET Tcb,
         NEW rdy, \A t \in S : rdy[t] \in SUBSET FlagNames
  PROVE  FlagRouses(k, OS_FlagTaskRdy(k, g, S, rdy), g, S)
<1> DEFINE tcb == [t \in Tcb |->
                     IF t \in S THEN [k.tcb[t] EXCEPT !.dly = 0, !.flagsRdy = rdy[t],
                                                      !.stat = @ \ {"FLAG"}, !.pend = "OK",
                                                      !.node = NoNode]
                                ELSE k.tcb[t]]
           flag == [k.flag EXCEPT ![g].wait = @ \ S]
           i == [k EXCEPT !.flag[g].wait = @ \ S, !.tcb = tcb]
           R == {t \in S : i.tcb[t].stat = {}}
           j == OS_FlagTaskRdy(k, g, S, rdy)
<1>1. j = ReadyAll(i, R)
  BY DEF OS_FlagTaskRdy
<1> HIDE DEF j
<1>2. /\ tcb \in [Tcb -> TcbType]
      /\ \A u \in Tcb \ S : tcb[u] = k.tcb[u]
      /\ \A u \in S : FlagAnswered(k.tcb[u], tcb[u])
  <2>1. \A u \in S : FlagAnswered(k.tcb[u],
           [k.tcb[u] EXCEPT !.dly = 0, !.flagsRdy = rdy[u], !.stat = @ \ {"FLAG"},
                            !.pend = "OK", !.node = NoNode])
    BY Fields, FlagAnsweredType
  <2>2. \A u \in S :
           [k.tcb[u] EXCEPT !.dly = 0, !.flagsRdy = rdy[u], !.stat = @ \ {"FLAG"},
                            !.pend = "OK", !.node = NoNode] \in TcbType
    BY <2>1 DEF FlagAnswered
  <2> QED
    BY <2>1, <2>2, Fields
<1> HIDE DEF tcb
<1>3. /\ flag \in [Fgp -> GroupType]
      /\ \A f \in Fgp :
           /\ flag[f].type = k.flag[f].type /\ flag[f].flags = k.flag[f].flags
           /\ flag[f].wait = IF f = g THEN k.flag[f].wait \ S ELSE k.flag[f].wait
  <2>1. k.flag[g] \in GroupType /\ k.flag[g].wait \ S \subseteq Tcb
    BY Fields
  <2>2. [k.flag[g] EXCEPT !.wait = @ \ S] \in GroupType
    BY <2>1 DEF GroupType
  <2>3. /\ flag \in [Fgp -> GroupType]
        /\ flag[g] = [k.flag[g] EXCEPT !.wait = @ \ S]
        /\ \A f \in Fgp : f # g => flag[f] = k.flag[f]
    BY <2>2, Sets
  <2> HIDE DEF flag
  <2> QED
    BY <2>1, <2>3 DEF GroupType
<1>4. i = Put(k, k.rdy, tcb, k.event, flag, k.queue)
  BY DEF Kernel, Put
<1> HIDE DEF flag, i
<1>5. /\ i \in Kernel /\ SameRest(k, i) /\ i.rdy = k.rdy /\ i.tcb = tcb
      /\ i.event = k.event /\ i.flag = flag /\ i.queue = k.queue
  BY <1>2, <1>3, <1>4, Sets, PutKernel, PutFields
<1>6. R \in SUBSET Tcb /\ R = {t \in S : tcb[t].stat = {}}
  BY <1>5
<1> HIDE DEF R
<1>7. /\ j \in Kernel /\ SameRest(i, j) /\ j.tcb = tcb /\ j.event = k.event
      /\ j.flag = flag /\ j.queue = k.queue /\ Consistent(j.rdy)
      /\ Bits(j.rdy) = Bits(k.rdy) \cup {tcb[t].prio : t \in R}
  <2>1. i \in Kernel /\ Consistent(i.rdy)
    BY <1>5
  <2>2. LET h == ReadyAll(i, R) IN
          /\ h \in Kernel /\ SameRest(i, h)
          /\ h.tcb = i.tcb /\ h.event = i.event /\ h.flag = i.flag /\ h.queue = i.queue
          /\ Consistent(h.rdy)
          /\ Bits(h.rdy) = Bits(i.rdy) \cup {i.tcb[t].prio : t \in R}
    BY <1>6, <2>1, ReadyAllFields, Zenon
  <2> QED
    BY <1>1, <1>5, <2>2
<1>8. SameRest(k, j)
  BY <1>5, <1>7 DEF SameRest
<1> QED
  BY <1>2, <1>3, <1>6, <1>7, <1>8 DEF FlagRouses, j

LEMMA FlagAnsweredOK ==
  ASSUME NEW k, NEW j, NEW u, NEW g \in Fgp, KeepsTypes(k, j), g \in Groups(k, u),
         FlagAnswered(k.tcb[u], j.tcb[u]),
         IsReady(j, u) <=> IsReady(k, u) \/ j.tcb[u].stat = {},
         Lists(j, u) = Lists(k, u), Groups(j, u) = Groups(k, u) \ {g}
  PROVE  Undisturbed(k, j, {u})
<1> SUFFICES ASSUME NEW l, NEW ev, TaskOK(k, u, l, ev)
             PROVE  TaskOK(j, u, l, ev)
  BY DEF Undisturbed
<1>1. l \notin {"none", "SemPended", "MboxPended", "QPended", "MultiPended"}
  BY DEF TaskOK, WaitsForNothing, WaitsForOne, WaitsForAny
<1>2. ASSUME l = "FlagPended"
      PROVE  WaitsForFlags(j, u, ev)
  <2>1. WaitsForFlags(k, u, ev)
    BY <1>2 DEF TaskOK
  <2>2. g = ev /\ Groups(j, u) = {}
    BY <2>1 DEF WaitsForFlags
  <2> QED
    BY <2>1, <2>2 DEF WaitsForFlags, KeepsTypes, FlagAnswered
<1> QED
  BY <1>1, <1>2 DEF TaskOK

(* The group's flags become now; the tasks of S are those they satisfy.    *)
LEMMA FlagRousesOrderly ==
  ASSUME NEW k, Sound(k), NEW g \in Fgp, k.flag[g].type = "FLAG",
         NEW i, i \in Kernel, SameRest(k, i), i.rdy = k.rdy, i.tcb = k.tcb,
         i.event = k.event, i.queue = k.queue,
         \A f \in Fgp : /\ i.flag[f].type = k.flag[f].type
                        /\ i.flag[f].wait = k.flag[f].wait
                        /\ f # g => i.flag[f].flags = k.flag[f].flags,
         NEW S, S = {t \in k.flag[g].wait :
                       Satisfied(i.flag[g].flags, k.tcb[t].node.flags, k.tcb[t].node.type)},
         NEW j, FlagRouses(i, j, g, S)
  PROVE  Rouses(k, j)
<1>1. k \in Kernel /\ PriosOK(k) /\ BitsOK(k) /\ PoolsOK(k) /\ ServedOK(k)
  BY DEF Sound
<1>2. S \subseteq k.list /\ S \subseteq Tcb /\ S \subseteq k.flag[g].wait
  BY <1>1, Fields DEF BitsOK
<1>3. /\ j \in Kernel /\ SameRest(k, j) /\ j.event = k.event /\ j.queue = k.queue
      /\ \A u \in Tcb \ S : j.tcb[u] = k.tcb[u]
      /\ \A u \in S : FlagAnswered(k.tcb[u], j.tcb[u])
      /\ Consistent(j.rdy)
      /\ Bits(j.rdy) = Bits(k.rdy) \cup {j.tcb[t].prio : t \in {u \in S : j.tcb[u].stat = {}}}
  BY DEF FlagRouses, SameRest
<1>4. \A f \in Fgp :
        /\ j.flag[f].type = k.flag[f].type /\ j.flag[f].flags = i.flag[f].flags
        /\ j.flag[f].wait = IF f = g THEN k.flag[f].wait \ S ELSE k.flag[f].wait
  BY DEF FlagRouses
<1>5. \A u \in Tcb : j.tcb[u].prio = k.tcb[u].prio
  BY <1>3 DEF FlagAnswered
<1>6. SameParts(k, j)
  BY <1>3, <1>4, <1>5 DEF SameParts, SameRest
<1>7. PriosOK(j) /\ BitsOK(j) /\ PoolsOK(j)
  <2>1. \A t \in S : k.prioTbl[j.tcb[t].prio] # Null
    BY <1>1, <1>2, <1>5 DEF PriosOK, Tcb, Null
  <2>2. \A p \in Bits(j.rdy) : k.prioTbl[p] # Null
    BY <1>1, <1>3, <2>1 DEF BitsOK
  <2>3. IdlePrio \in Bits(j.rdy)
    BY <1>1, <1>3 DEF BitsOK
  <2>4. \A x \in Ecb : Consistent(j.event[x].wait)
    BY <1>1, <1>3 DEF BitsOK
  <2>5. \A f \in Fgp : j.flag[f].wait \subseteq k.flag[f].wait
    BY <1>4
  <2> QED
    BY <1>3, <1>6, <2>2, <2>3, <2>4, <2>5, PartsKept
<1>8. KeepsTypes(k, j)
  BY <1>6 DEF SameParts, KeepsTypes
<1>9. ServedOK(j)
  <2>1. \A x \in Ecb : Exhausted(k, x) => Exhausted(j, x)
    BY <1>3 DEF Exhausted, TheRing
  <2>2. ASSUME NEW f \in Fgp, NEW t \in j.flag[f].wait
        PROVE  \/ ~Satisfied(j.flag[f].flags, j.tcb[t].node.flags, j.tcb[t].node.type)
               \/ /\ t \in k.flag[f].wait /\ j.tcb[t].node = k.tcb[t].node
                  /\ "FLAG" \in j.tcb[t].stat => "FLAG" \in k.tcb[t].stat
                  /\ j.flag[f].flags \subseteq k.flag[f].flags
    <3>1. t \in k.flag[f].wait /\ t \in Tcb
      BY <1>1, <1>4, Fields
    <3>2. CASE f = g
      <4>1. t \notin S
        BY <1>4, <3>2
      <4> QED
        BY <1>3, <1>4, <3>1, <3>2, <4>1
    <3>3. CASE f # g /\ t \in S
      <4>1. j.tcb[t].node = NoNode
        BY <1>3, <3>3 DEF FlagAnswered
      <4>2. \A x : {} \ x = {}
        OBVIOUS
      <4> QED
        BY <4>1, <4>2 DEF NoNode, Satisfied, FlagsRdy, ForSet, ForAll
    <3>4. CASE f # g /\ t \notin S
      BY <1>3, <1>4, <3>1, <3>4
    <3> QED
      BY <3>2, <3>3, <3>4
  <2> QED
    BY <1>1, <1>3, <2>1, <2>2, ServedKept
<1>10. ASSUME NEW u \in k.list
       PROVE  Undisturbed(k, j, {u})
  <2> DEFINE p == k.tcb[u].prio
  <2>1. u \in Tcb /\ j.tcb[u].prio = p /\ p \in Prio
        /\ \A t \in S : j.tcb[t].prio = p => t = u
    BY <1>1, <1>2, <1>5, Fields, OwnPriority
  <2>2. Lists(j, u) = Lists(k, u)
    BY <1>3, <2>1 DEF Lists
  <2>3. IsReady(j, u) <=> IsReady(k, u) \/ (u \in S /\ j.tcb[u].stat = {})
    BY <1>3, <2>1 DEF IsReady
  <2>4. Groups(j, u) = {f \in Groups(k, u) : ~(f = g /\ u \in S)}
    BY <1>4 DEF Groups
  <2>5. CASE u \in S
    <3>1. g \in Groups(k, u) /\ Groups(j, u) = Groups(k, u) \ {g}
      BY <1>2, <2>4, <2>5 DEF Groups
    <3> QED
      BY <1>3, <1>8, <2>2, <2>3, <2>5, <3>1, FlagAnsweredOK
  <2>6. CASE u \notin S
    <3>1. j.tcb[u] = k.tcb[u] /\ Groups(j, u) = Groups(k, u) /\ (IsReady(j, u) <=> IsReady(k, u))
      BY <1>3, <2>1, <2>3, <2>4, <2>6
    <3> QED
      BY <1>8, <2>2, <3>1, Frame
  <2> QED
    BY <2>5, <2>6
<1> QED
  BY <1>3, <1>6, <1>7, <1>9, <1>10 DEF Rouses, Orderly, Sound, Undisturbed

-----------------------------------------------------------------------------
(* The services.  A call that does not wait leaves every task where it is, *)
(* and when it makes a task ready it goes on to the scheduler.             *)

Serves(k, r) ==
    /\ Rouses(k, r.k)
    /\ r.cont \in {<< >>, << "OS_Sched" >>}
    /\ r.cont = << >> => Bits(r.k.rdy) = Bits(k.rdy)

LEMMA SameServes ==
  ASSUME NEW k, Sound(k)
  PROVE  Orderly(k, k, {}) /\ Serves(k, Done(k)) /\ Serves(k, Fails(k))
<1>1. Orderly(k, k, {})
  BY DEF Orderly, SameParts, SameRest, Undisturbed
<1> QED
  BY <1>1 DEF Serves, Rouses, Done, Fails

LEMMA FlagPostServes ==
  ASSUME NEW k, Sound(k), NEW g \in Fgp, k.flag[g].type = "FLAG",
         NEW flags \in SUBSET FlagNames, NEW opt
  PROVE  Serves(k, OSFlagPost(k, g, flags, opt))
<1> DEFINE now == IF opt = "SET" THEN k.flag[g].flags \cup flags
                                 ELSE k.flag[g].flags \ flags
           Met == {t \in k.flag[g].wait :
                     Satisfied(now, k.tcb[t].node.flags, k.tcb[t].node.type)}
           rdy == [t \in Met |-> FlagsRdy(now, k.tcb[t].node.flags, k.tcb[t].node.type)]
           flag == [k.flag EXCEPT ![g].flags = now]
           i == [k EXCEPT !.flag[g].flags = now]
           j == OS_FlagTaskRdy(i, g, Met, rdy)
           some == \E t \in Met : j.tcb[t].stat = {}
           r == OSFlagPost(k, g, flags, opt)
<1>1. r = IF some THEN Reschedules(j) ELSE Done(j)
  BY DEF OSFlagPost
<1> HIDE DEF r
<1>2. k \in Kernel /\ BitsOK(k) /\ Consistent(k.rdy)
      /\ k.flag[g] \in GroupType /\ k.flag[g].flags \subseteq FlagNames
  BY Fields DEF Sound, BitsOK, GroupType
<1>3. now \in SUBSET FlagNames
  BY <1>2
<1> HIDE DEF now
<1>4. Met \in SUBSET Tcb
  BY <1>2, Fields
<1>5. \A t \in Met : rdy[t] \in SUBSET FlagNames
  <2>1. \A t \in Tcb : k.tcb[t].node.flags \in SUBSET FlagNames
    BY <1>2, Fields DEF NodeType
  <2> QED
    BY <1>3, <1>4, <2>1 DEF FlagsRdy
<1>6. /\ flag \in [Fgp -> GroupType]
      /\ flag[g].flags = now
      /\ \A f \in Fgp : /\ flag[f].type = k.flag[f].type /\ flag[f].wait = k.flag[f].wait
                        /\ f # g => flag[f].flags = k.flag[f].flags
  <2>1. [k.flag[g] EXCEPT !.flags = now] \in GroupType
    BY <1>2, <1>3 DEF GroupType
  <2>2. /\ flag \in [Fgp -> GroupType]
        /\ flag[g] = [k.flag[g] EXCEPT !.flags = now]
        /\ \A f \in Fgp : f # g => flag[f] = k.flag[f]
    BY <1>2, <2>1, Sets
  <2> HIDE DEF flag
  <2> QED
    BY <1>2, <2>2 DEF GroupType
<1>7. i = Put(k, k.rdy, k.tcb, k.event, flag, k.queue)
  BY <1>2 DEF Kernel, Put
<1> HIDE DEF flag, i
<1>8. /\ i \in Kernel /\ SameRest(k, i) /\ i.rdy = k.rdy /\ i.tcb = k.tcb
      /\ i.event = k.event /\ i.flag = flag /\ i.queue = k.queue
  BY <1>2, <1>6, <1>7, Sets, PutKernel, PutFields
<1> HIDE DEF rdy
<1>9. FlagRouses(i, j, g, Met)
  <2>1. Consistent(i.rdy)
    BY <1>2, <1>8
  <2> HIDE DEF Met
  <2> QED
    BY <1>4, <1>5, <1>8, <2>1, FlagTaskRdyRouses
<1> HIDE DEF j
<1>10. Met = {t \in k.flag[g].wait :
               Satisfied(i.flag[g].flags, k.tcb[t].node.flags, k.tcb[t].node.type)}
  BY <1>6, <1>8
<1>11. \A f \in Fgp : /\ i.flag[f].type = k.flag[f].type
                      /\ i.flag[f].wait = k.flag[f].wait
                      /\ f # g => i.flag[f].flags = k.flag[f].flags
  BY <1>6, <1>8
<1> HIDE DEF Met
<1>12. Rouses(k, j)
  BY <1>8, <1>9, <1>10, <1>11, FlagRousesOrderly
<1>13. ~some => Bits(j.rdy) = Bits(k.rdy)
  BY <1>8, <1>9 DEF FlagRouses
<1> HIDE DEF some
<1> QED
  BY <1>1, <1>12, <1>13 DEF Serves, Reschedules, Done, r

(* Only what objects contain changes, and what tasks carry with them.      *)
LEMMA ContentsOrderly ==
  ASSUME NEW k, Sound(k), NEW j, j \in Kernel, SameRest(k, j), j.rdy = k.rdy,
         \A u \in Tcb : /\ j.tcb[u].prio = k.tcb[u].prio /\ j.tcb[u].stat = k.tcb[u].stat
                        /\ j.tcb[u].pend = k.tcb[u].pend /\ j.tcb[u].dly = k.tcb[u].dly
                        /\ j.tcb[u].event = k.tcb[u].event
                        /\ j.tcb[u].multi = k.tcb[u].multi
                        /\ j.tcb[u].node = k.tcb[u].node,
         \A e \in Ecb : /\ j.event[e].type = k.event[e].type
                        /\ j.event[e].wait = k.event[e].wait
                        /\ k.event[e].type = "Q" => j.event[e].ptr = k.event[e].ptr
                        /\ \/ Exhausted(j, e) \/ ~Waiting(k, e)
                           \/ (Exhausted(k, e) => Exhausted(j, e)),
         \A g \in Fgp : /\ j.flag[g].type = k.flag[g].type
                        /\ j.flag[g].wait = k.flag[g].wait
                        /\ j.flag[g].flags \subseteq k.flag[g].flags
  PROVE  Orderly(k, j, {}) /\ Serves(k, Done(j))
<1>1. k \in Kernel /\ BitsOK(k) /\ ServedOK(k) /\ Consistent(k.rdy)
  BY DEF Sound, BitsOK
<1>2. SameParts(k, j) /\ KeepsTypes(k, j)
  BY DEF SameParts, SameRest, KeepsTypes
<1>3. \A e \in Ecb : Consistent(j.event[e].wait)
  BY <1>1 DEF BitsOK
<1>4. PriosOK(j) /\ BitsOK(j) /\ PoolsOK(j)
  BY <1>1, <1>2, <1>3, PartsKept DEF BitsOK
<1>5. ServedOK(j)
  <2>1. \A e \in Ecb : \/ Exhausted(j, e) \/ Bits(j.event[e].wait) = {}
                       \/ /\ Bits(j.event[e].wait) \subseteq Bits(k.event[e].wait)
                          /\ Exhausted(k, e) => Exhausted(j, e)
    BY <1>3, GroupTells DEF Waiting
  <2>2. \A g \in Fgp : \A t \in j.flag[g].wait : t \in k.flag[g].wait /\ t \in Tcb
    BY <1>1, Fields
  <2> QED
    BY <1>1, <2>1, <2>2, ServedKept
<1>6. ASSUME NEW u \in k.list
      PROVE  Undisturbed(k, j, {u})
  <2>1. u \in Tcb
    BY <1>1, Fields
  <2>2. /\ IsReady(j, u) <=> IsReady(k, u)
        /\ Lists(j, u) = Lists(k, u) /\ Groups(j, u) = Groups(k, u)
    BY <2>1 DEF IsReady, Lists, Groups
  <2> QED
    BY <1>2, <2>1, <2>2, Frame
<1>7. Orderly(k, j, {})
  BY <1>2, <1>4, <1>5, <1>6 DEF Orderly, Sound, Undisturbed
<1> QED
  BY <1>7 DEF Serves, Rouses, Done

(* One event changes its contents, and is empty then or waited for by      *)
(* nobody.                                                                 *)
LEMMA EventServes ==
  ASSUME NEW k, Sound(k), NEW e \in Ecb, NEW d \in EventType,
         d.type = k.event[e].type, d.wait = k.event[e].wait,
         d.type = "Q" => d.ptr = k.event[e].ptr,
         \/ ~Waiting(k, e)
         \/ d.type = "SEM" /\ d.cnt = 0
         \/ d.type = "MBOX" /\ d.ptr = Null
  PROVE  Serves(k, Done([k EXCEPT !.event[e] = d]))
<1> DEFINE event == [k.event EXCEPT ![e] = d]
           j == [k EXCEPT !.event[e] = d]
<1>1. k \in Kernel
  BY DEF Sound
<1>2. j = Put(k, k.rdy, k.tcb, event, k.flag, k.queue)
  BY <1>1 DEF Kernel, Put
<1>3. /\ event \in [Ecb -> EventType] /\ event[e] = d
      /\ \A f \in Ecb : f # e => event[f] = k.event[f]
  BY <1>1, Sets
<1> HIDE DEF event, j
<1>4. /\ j \in Kernel /\ SameRest(k, j) /\ j.rdy = k.rdy /\ j.tcb = k.tcb
      /\ j.event = event /\ j.flag = k.flag /\ j.queue = k.queue
  BY <1>1, <1>2, <1>3, Sets, PutKernel, PutFields
<1>5. \A f \in Ecb : /\ j.event[f].type = k.event[f].type
                     /\ j.event[f].wait = k.event[f].wait
                     /\ k.event[f].type = "Q" => j.event[f].ptr = k.event[f].ptr
                     /\ \/ Exhausted(j, f) \/ ~Waiting(k, f)
                        \/ (Exhausted(k, f) => Exhausted(j, f))
  <2>1. \A f \in Ecb : f # e => (Exhausted(k, f) => Exhausted(j, f))
    BY <1>3, <1>4 DEF Exhausted, TheRing
  <2>2. Exhausted(j, e) \/ ~Waiting(k, e)
    BY <1>3, <1>4 DEF Exhausted
  <2> QED
    BY <1>3, <1>4, <2>1, <2>2
<1> QED
  BY <1>4, <1>5, ContentsOrderly DEF j

(* Nobody waits for what is there.                                         *)
LEMMA NobodyWaits ==
  ASSUME NEW k, Sound(k), NEW e \in Ecb, ~Exhausted(k, e)
  PROVE  ~Waiting(k, e)
<1>1. Consistent(k.event[e].wait) /\ EventServed(k, e)
  BY DEF Sound, BitsOK, ServedOK
<1> QED
  BY <1>1, GroupTells DEF EventServed, Waiting

LEMMA CountType ==
  ASSUME NEW d \in EventType, NEW n \in Nat
  PROVE  LET c == [d EXCEPT !.cnt = n] IN
         c \in EventType /\ c.type = d.type /\ c.wait = d.wait /\ c.ptr = d.ptr /\ c.cnt = n
  BY DEF EventType

LEMMA PtrType ==
  ASSUME NEW d \in EventType, NEW m \in Int
  PROVE  LET c == [d EXCEPT !.ptr = m] IN
         c \in EventType /\ c.type = d.type /\ c.wait = d.wait /\ c.ptr = m
  BY DEF EventType

(* Semaphores.                                                             *)
LEMMA SemCountServes ==
  ASSUME NEW k, Sound(k), NEW e \in Ecb, k.event[e].type = "SEM", NEW n \in Nat,
         ~Waiting(k, e)
  PROVE  Serves(k, Done([k EXCEPT !.event[e].cnt = n]))
<1>1. k \in Kernel /\ k.event[e] \in EventType
  BY Fields DEF Sound
<1> DEFINE d == [k.event[e] EXCEPT !.cnt = n]
<1>2. d \in EventType /\ d.type = "SEM" /\ d.wait = k.event[e].wait
  BY <1>1, CountType
<1>3. [k EXCEPT !.event[e].cnt = n] = [k EXCEPT !.event[e] = d]
  OBVIOUS
<1> HIDE DEF d
<1>4. Serves(k, Done([k EXCEPT !.event[e] = d]))
  BY <1>2, EventServes
<1> QED
  BY <1>3, <1>4

LEMMA SemTakeServes ==
  ASSUME NEW k, Sound(k), NEW e \in Ecb, k.event[e].type = "SEM", k.event[e].cnt > 0
  PROVE  Serves(k, Done([k EXCEPT !.event[e].cnt = @ - 1]))
<1>1. k.event[e].cnt \in Nat /\ k.event[e].cnt - 1 \in Nat
  <2>1. k.event[e].cnt \in Nat
    BY Fields DEF Sound
  <2> QED
    BY <2>1
<1>2. ~Waiting(k, e)
  BY <1>1, NobodyWaits DEF Exhausted
<1>3. Serves(k, Done([k EXCEPT !.event[e].cnt = k.event[e].cnt - 1]))
  BY <1>1, <1>2, SemCountServes
<1> QED
  BY <1>3

(* A call that makes tasks ready goes on to the scheduler.                 *)
LEMMA RousesServes ==
  ASSUME NEW k, NEW j, Rouses(k, j)
  PROVE  Serves(k, Reschedules(j))
  BY DEF Serves, Reschedules, Done

(* The call goes on to the scheduler and waits there for what it was       *)
(* called for.                                                             *)
GoesToWait(k, r, l, ev) ==
    /\ Orderly(k, r.k, {k.cur}) /\ TaskOK(r.k, k.cur, l, ev)
    /\ r.cont = << "OS_Sched", l >>

LEMMA BlocksGoes ==
  ASSUME NEW k, NEW j, NEW l \in {"SemPended", "MboxPended", "QPended"}, NEW e,
         Orderly(k, j, {k.cur}), WaitsForOne(j, k.cur, KindOf(l), e)
  PROVE  GoesToWait(k, Blocks(j, l), l, e)
  BY DEF GoesToWait, Blocks, Done, TaskOK

LEMMA SemAcceptServes ==
  ASSUME NEW k, Sound(k), NEW e \in Ecb, k.event[e].type = "SEM"
  PROVE  Serves(k, OSSemAccept(k, e))
<1>1. CASE k.event[e].cnt > 0
  BY <1>1, SemTakeServes DEF OSSemAccept
<1>2. CASE ~(k.event[e].cnt > 0)
  BY <1>2, SameServes DEF OSSemAccept
<1> QED
  BY <1>1, <1>2

LEMMA SemPendServes ==
  ASSUME NEW k, Idle(k), NEW e \in Ecb, k.event[e].type = "SEM", NEW timeout \in Nat
  PROVE  LET r == OSSemPend(k, e, timeout) IN
         Serves(k, r) \/ GoesToWait(k, r, "SemPended", e)
<1>1. Sound(k)
  BY DEF Idle
<1>2. CASE k.event[e].cnt > 0
  <2>1. Serves(k, Done([k EXCEPT !.event[e].cnt = @ - 1]))
    BY <1>1, <1>2, SemTakeServes
  <2> QED
    BY <1>2, <2>1 DEF OSSemPend
<1>3. CASE ~(k.event[e].cnt > 0)
  <2> DEFINE j == OS_EventTaskWait(StartsToWait(k, {"SEM"}, timeout), e)
  <2>1. k.event[e].cnt \in Nat
    BY <1>1, Fields DEF Sound
  <2>2. Exhausted(k, e)
    BY <1>3, <2>1 DEF Exhausted
  <2>3. Orderly(k, j, {k.cur}) /\ WaitsForOne(j, k.cur, "SEM", e)
    BY <2>2, WaitsOrderly DEF EventTypes
  <2>4. OSSemPend(k, e, timeout) = Blocks(j, "SemPended")
    BY <1>3 DEF OSSemPend
  <2> HIDE DEF j
  <2>5. GoesToWait(k, Blocks(j, "SemPended"), "SemPended", e)
    BY <2>3, BlocksGoes DEF KindOf
  <2> QED
    BY <2>4, <2>5
<1> QED
  BY <1>2, <1>3

LEMMA SemPostServes ==
  ASSUME NEW k, Sound(k), NEW e \in Ecb, k.event[e].type = "SEM"
  PROVE  Serves(k, OSSemPost(k, e))
<1>1. CASE Waiting(k, e)
  <2> DEFINE j == OS_EventTaskRdy(k, e, Null, "SEM", "OK")
  <2>1. Rouses(k, j)
    BY <1>1, RdyOneOrderly DEF EventTypes, Null
  <2>2. OSSemPost(k, e) = Reschedules(j)
    BY <1>1 DEF OSSemPost
  <2> QED
    BY <2>1, <2>2, RousesServes
<1>2. CASE ~Waiting(k, e) /\ k.event[e].cnt < SemMax
  <2>1. k.event[e].cnt \in Nat
    BY Fields DEF Sound
  <2>2. k.event[e].cnt + 1 \in Nat
    BY <2>1
  <2>3. Serves(k, Done([k EXCEPT !.event[e].cnt = k.event[e].cnt + 1]))
    BY <1>2, <2>2, SemCountServes
  <2> QED
    BY <1>2, <2>3 DEF OSSemPost
<1>3. CASE ~Waiting(k, e) /\ ~(k.event[e].cnt < SemMax)
  BY <1>3, SameServes DEF OSSemPost
<1> QED
  BY <1>1, <1>2, <1>3

LEMMA AbortServes ==
  ASSUME NEW k, Sound(k), NEW e \in Ecb, k.event[e].type \in EventTypes,
         NEW opt \in {"NONE", "BROADCAST"}
  PROVE  Serves(k, AbortPend(k, e, opt, k.event[e].type))
<1> DEFINE type == k.event[e].type
           one == OS_EventTaskRdy(k, e, Null, type, "ABORT")
           all == RdyAll(k, e, Null, type, "ABORT")
<1>1. CASE ~Waiting(k, e)
  BY <1>1, SameServes DEF AbortPend
<1>2. CASE Waiting(k, e) /\ opt = "BROADCAST"
  <2>1. Rouses(k, all)
    BY RdyAllOrderly DEF Null
  <2>2. AbortPend(k, e, opt, type) = Reschedules(all)
    BY <1>2 DEF AbortPend
  <2> QED
    BY <2>1, <2>2, RousesServes
<1>3. CASE Waiting(k, e) /\ opt = "NONE"
  <2>1. Rouses(k, one)
    BY <1>3, RdyOneOrderly DEF Null
  <2>2. AbortPend(k, e, opt, type) = Reschedules(one)
    BY <1>3 DEF AbortPend
  <2> QED
    BY <2>1, <2>2, RousesServes
<1> QED
  BY <1>1, <1>2, <1>3

LEMMA SemSetServes ==
  ASSUME NEW k, Sound(k), NEW e \in Ecb, k.event[e].type = "SEM", NEW cnt \in Nat
  PROVE  Serves(k, OSSemSet(k, e, cnt))
<1>1. CASE k.event[e].cnt > 0 \/ ~Waiting(k, e)
  <2>1. ~Waiting(k, e)
    <3>1. k.event[e].cnt \in Nat
      BY Fields DEF Sound
    <3> QED
      BY <1>1, <3>1, NobodyWaits DEF Exhausted
  <2>2. Serves(k, Done([k EXCEPT !.event[e].cnt = cnt]))
    BY <2>1, SemCountServes
  <2> QED
    BY <1>1, <2>2 DEF OSSemSet
<1>2. CASE ~(k.event[e].cnt > 0 \/ ~Waiting(k, e))
  BY <1>2, SameServes DEF OSSemSet
<1> QED
  BY <1>1, <1>2

(* Mailboxes.                                                              *)
LEMMA PtrServes ==
  ASSUME NEW k, Sound(k), NEW e \in Ecb, k.event[e].type = "MBOX", NEW m \in Int,
         m = Null \/ ~Waiting(k, e)
  PROVE  Serves(k, Done([k EXCEPT !.event[e].ptr = m]))
<1>1. k \in Kernel /\ k.event[e] \in EventType
  BY Fields DEF Sound
<1> DEFINE d == [k.event[e] EXCEPT !.ptr = m]
<1>2. d \in EventType /\ d.type = "MBOX" /\ d.wait = k.event[e].wait /\ d.ptr = m
  BY <1>1, PtrType
<1>3. [k EXCEPT !.event[e].ptr = m] = [k EXCEPT !.event[e] = d]
  OBVIOUS
<1> HIDE DEF d
<1>4. Serves(k, Done([k EXCEPT !.event[e] = d]))
  BY <1>2, EventServes
<1> QED
  BY <1>3, <1>4

LEMMA GivesServes ==
  ASSUME NEW k, NEW j, Serves(k, Done(j)), NEW S
  PROVE  Serves(k, Gives(j, S))
  BY DEF Serves, Done, Gives

LEMMA MboxAcceptServes ==
  ASSUME NEW k, Sound(k), NEW e \in Ecb, k.event[e].type = "MBOX"
  PROVE  Serves(k, OSMboxAccept(k, e))
<1>1. \A m \in Int : m = Null => Serves(k, Done([k EXCEPT !.event[e].ptr = m]))
  BY PtrServes
<1>2. Null \in Int
  BY DEF Null
<1>3. Serves(k, Done([k EXCEPT !.event[e].ptr = Null]))
  BY <1>1, <1>2
<1> QED
  BY <1>3, GivesServes DEF OSMboxAccept

LEMMA MboxPendServes ==
  ASSUME NEW k, Idle(k), NEW e \in Ecb, k.event[e].type = "MBOX", NEW timeout \in Nat
  PROVE  LET r == OSMboxPend(k, e, timeout) IN
         Serves(k, r) \/ GoesToWait(k, r, "MboxPended", e)
<1>1. Sound(k)
  BY DEF Idle
<1>2. CASE k.event[e].ptr # Null
  BY <1>1, <1>2, MboxAcceptServes DEF OSMboxPend
<1>3. CASE k.event[e].ptr = Null
  <2> DEFINE j == OS_EventTaskWait(StartsToWait(k, {"MBOX"}, timeout), e)
  <2>2. Exhausted(k, e)
    BY <1>3 DEF Exhausted
  <2>3. Orderly(k, j, {k.cur}) /\ WaitsForOne(j, k.cur, "MBOX", e)
    BY <2>2, WaitsOrderly DEF EventTypes
  <2>4. OSMboxPend(k, e, timeout) = Blocks(j, "MboxPended")
    BY <1>3 DEF OSMboxPend
  <2> HIDE DEF j
  <2>5. GoesToWait(k, Blocks(j, "MboxPended"), "MboxPended", e)
    BY <2>3, BlocksGoes DEF KindOf
  <2> QED
    BY <2>4, <2>5
<1> QED
  BY <1>2, <1>3

LEMMA FillMboxServes ==
  ASSUME NEW k, Sound(k), NEW e \in Ecb, k.event[e].type = "MBOX", ~Waiting(k, e),
         NEW msg \in Int
  PROVE  Serves(k, FillMbox(k, e, msg))
<1>1. CASE k.event[e].ptr # Null
  BY <1>1, SameServes DEF FillMbox
<1>2. CASE k.event[e].ptr = Null
  BY <1>2, PtrServes DEF FillMbox
<1> QED
  BY <1>1, <1>2

LEMMA MboxPostServes ==
  ASSUME NEW k, Sound(k), NEW e \in Ecb, k.event[e].type = "MBOX", NEW msg \in Int
  PROVE  Serves(k, OSMboxPost(k, e, msg))
<1>1. CASE Waiting(k, e)
  <2> DEFINE j == OS_EventTaskRdy(k, e, msg, "MBOX", "OK")
  <2>1. Rouses(k, j)
    BY <1>1, RdyOneOrderly DEF EventTypes
  <2>2. OSMboxPost(k, e, msg) = Reschedules(j)
    BY <1>1 DEF OSMboxPost
  <2> QED
    BY <2>1, <2>2, RousesServes
<1>2. CASE ~Waiting(k, e)
  BY <1>2, FillMboxServes DEF OSMboxPost
<1> QED
  BY <1>1, <1>2

(* With NO_SCHED the tasks that are ready now have to wait for the next    *)
(* scheduling point.                                                       *)
PutsOff(k, r) == Rouses(k, r.k) /\ r.cont = << >>

LEMMA MboxPostOptServes ==
  ASSUME NEW k, Sound(k), NEW e \in Ecb, k.event[e].type = "MBOX", NEW msg \in Int, NEW opt
  PROVE  LET r == OSMboxPostOpt(k, e, msg, opt) IN
         Serves(k, r) \/ ("NO_SCHED" \in opt /\ PutsOff(k, r))
<1> DEFINE one == OS_EventTaskRdy(k, e, msg, "MBOX", "OK")
           all == RdyAll(k, e, msg, "MBOX", "OK")
           j == IF "BROADCAST" \in opt THEN all ELSE one
           r == OSMboxPostOpt(k, e, msg, opt)
<1>1. CASE ~Waiting(k, e)
  BY <1>1, FillMboxServes DEF OSMboxPostOpt
<1>2. CASE Waiting(k, e)
  <2>1. Rouses(k, one)
    BY <1>2, RdyOneOrderly DEF EventTypes
  <2>2. Rouses(k, all)
    BY RdyAllOrderly DEF EventTypes
  <2>3. r = IF "NO_SCHED" \in opt THEN Done(j) ELSE Reschedules(j)
    BY <1>2 DEF OSMboxPostOpt
  <2> HIDE DEF one, all, r
  <2>4. Rouses(k, j)
    BY <2>1, <2>2
  <2> HIDE DEF j
  <2>5. PutsOff(k, Done(j)) /\ Serves(k, Reschedules(j))
    BY <2>4, RousesServes DEF PutsOff, Done
  <2> QED
    BY <2>3, <2>5 DEF r
<1> QED
  BY <1>1, <1>2

(* Queues.                                                                 *)
LEMMA RingTypes ==
  ASSUME NEW q \in RingType
  PROVE  /\ q.entries > 0 => TakeFront(q) \in RingType /\ Front(q) \in Int
         /\ FlushRing(q) \in RingType /\ FlushRing(q).entries = 0
         /\ \A m \in Int : ~Full(q) => PutBack(q, m) \in RingType
                                       /\ PutFront(q, m) \in RingType
<1>1. /\ q.in \in 0 .. QSize - 1 /\ q.out \in 0 .. QSize - 1 /\ q.entries \in 0 .. QSize
      /\ q.size = QSize /\ q.buf \in [0 .. QSize - 1 -> Int]
  BY DEF RingType
<1>2. QSize \in Nat /\ QSize > 0
  BY QAssumption
<1>3. /\ After(q.size, q.out) \in 0 .. QSize - 1 /\ After(q.size, q.in) \in 0 .. QSize - 1
      /\ Before(q.size, q.out) \in 0 .. QSize - 1
  BY <1>1, <1>2 DEF After, Before
<1>4. ASSUME q.entries > 0
      PROVE  TakeFront(q) \in RingType /\ Front(q) \in Int
  <2>1. q.entries - 1 \in 0 .. QSize
    BY <1>1, <1>2, <1>4
  <2> QED
    BY <1>1, <1>3, <2>1 DEF TakeFront, Front, RingType
<1>5. FlushRing(q) \in RingType /\ FlushRing(q).entries = 0
  <2>1. 0 \in 0 .. QSize - 1 /\ 0 \in 0 .. QSize
    BY <1>2
  <2> QED
    BY <1>1, <2>1 DEF FlushRing, RingType
<1>6. ASSUME NEW m \in Int, ~Full(q)
      PROVE  PutBack(q, m) \in RingType /\ PutFront(q, m) \in RingType
  <2>1. q.entries + 1 \in 0 .. QSize
    BY <1>1, <1>2, <1>6 DEF Full
  <2>2. /\ [q.buf EXCEPT ![q.in] = m] \in [0 .. QSize - 1 -> Int]
        /\ [q.buf EXCEPT ![Before(q.size, q.out)] = m] \in [0 .. QSize - 1 -> Int]
    BY <1>1
  <2> QED
    BY <1>1, <1>3, <2>1, <2>2 DEF PutBack, PutFront, RingType
<1> QED
  BY <1>4, <1>5, <1>6

LEMMA RingServes ==
  ASSUME NEW k, Sound(k), NEW e \in Ecb, k.event[e].type = "Q", NEW ring \in RingType,
         ring.entries = 0 \/ ~Waiting(k, e)
  PROVE  Serves(k, Done([k EXCEPT !.queue[k.event[e].ptr] = ring]))
<1> DEFINE q == k.event[e].ptr
           queue == [k.queue EXCEPT ![q] = ring]
           j == [k EXCEPT !.queue[q] = ring]
<1>1. k \in Kernel /\ PoolsOK(k) /\ q \in Qcb
  BY DEF Sound, PoolsOK
<1> HIDE DEF q
<1>2. j = Put(k, k.rdy, k.tcb, k.event, k.flag, queue)
  BY <1>1 DEF Kernel, Put
<1>3. /\ queue \in [Qcb -> RingType] /\ queue[q] = ring
      /\ \A p \in Qcb : p # q => queue[p] = k.queue[p]
  BY <1>1, Sets
<1> HIDE DEF queue, j
<1>4. /\ j \in Kernel /\ SameRest(k, j) /\ j.rdy = k.rdy /\ j.tcb = k.tcb
      /\ j.event = k.event /\ j.flag = k.flag /\ j.queue = queue
  BY <1>1, <1>2, <1>3, Sets, PutKernel, PutFields
<1>5. \A f \in Ecb : \/ Exhausted(j, f) \/ ~Waiting(k, f)
                     \/ (Exhausted(k, f) => Exhausted(j, f))
  <2>1. ASSUME NEW f \in Ecb, f # e
        PROVE  Exhausted(k, f) => Exhausted(j, f)
    <3>1. k.event[f].type = "Q" => k.event[f].ptr \in Qcb /\ k.event[f].ptr # q
      BY <1>1, <2>1 DEF PoolsOK, q
    <3> QED
      BY <1>3, <1>4, <3>1 DEF Exhausted, TheRing
  <2>2. Exhausted(j, e) \/ ~Waiting(k, e)
    BY <1>3, <1>4 DEF Exhausted, TheRing, q
  <2> QED
    BY <2>1, <2>2
<1>6. Orderly(k, j, {}) /\ Serves(k, Done(j))
  BY <1>4, <1>5, ContentsOrderly
<1> QED
  BY <1>6 DEF j, q

LEMMA TheRingType ==
  ASSUME NEW k, Sound(k), NEW e \in Ecb, k.event[e].type = "Q"
  PROVE  TheRing(k, e) \in RingType /\ TheRing(k, e).entries \in Nat
<1>1. k \in Kernel /\ k.event[e].ptr \in Qcb
  BY DEF Sound, PoolsOK
<1>2. TheRing(k, e) \in RingType
  BY <1>1, Fields DEF TheRing
<1>3. TheRing(k, e).entries \in 0 .. QSize
  BY <1>2 DEF RingType
<1> QED
  BY <1>2, <1>3, QAssumption

LEMMA TakeServes ==
  ASSUME NEW k, Sound(k), NEW e \in Ecb, k.event[e].type = "Q", TheRing(k, e).entries > 0
  PROVE  Serves(k, Take(k, e))
<1> DEFINE ring == TakeFront(TheRing(k, e))
<1>1. TheRing(k, e) \in RingType /\ TheRing(k, e).entries \in Nat
  BY TheRingType
<1>2. ring \in RingType
  BY <1>1, RingTypes
<1>3. ~Waiting(k, e)
  BY <1>1, NobodyWaits DEF Exhausted
<1>4. [k EXCEPT !.queue[k.event[e].ptr] = TakeFront(@)]
        = [k EXCEPT !.queue[k.event[e].ptr] = ring]
  BY DEF TheRing
<1> HIDE DEF ring
<1>5. Serves(k, Done([k EXCEPT !.queue[k.event[e].ptr] = ring]))
  BY <1>2, <1>3, RingServes
<1> QED
  BY <1>4, <1>5, GivesServes DEF Take

LEMMA QAcceptServes ==
  ASSUME NEW k, Sound(k), NEW e \in Ecb, k.event[e].type = "Q"
  PROVE  Serves(k, OSQAccept(k, e))
  BY TakeServes, SameServes DEF OSQAccept

LEMMA QFlushServes ==
  ASSUME NEW k, Sound(k), NEW e \in Ecb, k.event[e].type = "Q"
  PROVE  Serves(k, OSQFlush(k, e))
<1> DEFINE ring == FlushRing(TheRing(k, e))
<1>1. ring \in RingType /\ ring.entries = 0
  BY TheRingType, RingTypes
<1>2. OSQFlush(k, e) = Done([k EXCEPT !.queue[k.event[e].ptr] = ring])
  BY DEF TheRing, OSQFlush
<1> HIDE DEF ring
<1> QED
  BY <1>1, <1>2, RingServes

LEMMA QPendServes ==
  ASSUME NEW k, Idle(k), NEW e \in Ecb, k.event[e].type = "Q", NEW timeout \in Nat
  PROVE  LET r == OSQPend(k, e, timeout) IN
         Serves(k, r) \/ GoesToWait(k, r, "QPended", e)
<1>1. Sound(k)
  BY DEF Idle
<1>2. CASE TheRing(k, e).entries > 0
  BY <1>1, <1>2, TakeServes DEF OSQPend
<1>3. CASE ~(TheRing(k, e).entries > 0)
  <2> DEFINE j == OS_EventTaskWait(StartsToWait(k, {"Q"}, timeout), e)
  <2>1. TheRing(k, e).entries = 0
    BY <1>1, <1>3, TheRingType
  <2>2. Exhausted(k, e)
    BY <2>1 DEF Exhausted
  <2>3. Orderly(k, j, {k.cur}) /\ WaitsForOne(j, k.cur, "Q", e)
    BY <2>2, WaitsOrderly DEF EventTypes
  <2>4. OSQPend(k, e, timeout) = Blocks(j, "QPended")
    BY <1>3 DEF OSQPend
  <2> HIDE DEF j
  <2>5. GoesToWait(k, Blocks(j, "QPended"), "QPended", e)
    BY <2>3, BlocksGoes DEF KindOf
  <2> QED
    BY <2>4, <2>5
<1> QED
  BY <1>2, <1>3

LEMMA EnqueueServes ==
  ASSUME NEW k, Sound(k), NEW e \in Ecb, k.event[e].type = "Q", ~Waiting(k, e),
         NEW msg \in Int, NEW front \in BOOLEAN
  PROVE  Serves(k, Enqueue(k, e, msg, front))
<1>1. CASE Full(TheRing(k, e))
  BY <1>1, SameServes DEF Enqueue
<1>2. CASE ~Full(TheRing(k, e))
  <2> DEFINE back == PutBack(TheRing(k, e), msg)
             first == PutFront(TheRing(k, e), msg)
             ring == IF front THEN first ELSE back
  <2>1. back \in RingType /\ first \in RingType
    BY <1>2, TheRingType, RingTypes
  <2>2. Enqueue(k, e, msg, front) = Done([k EXCEPT !.queue[k.event[e].ptr] = ring])
    BY <1>2 DEF TheRing, Enqueue
  <2> HIDE DEF back, first
  <2>3. ring \in RingType
    BY <2>1
  <2> HIDE DEF ring
  <2> QED
    BY <2>2, <2>3, RingServes
<1> QED
  BY <1>1, <1>2

LEMMA QPostServes ==
  ASSUME NEW k, Sound(k), NEW e \in Ecb, k.event[e].type = "Q", NEW msg \in Int
  PROVE  Serves(k, OSQPost(k, e, msg)) /\ Serves(k, OSQPostFront(k, e, msg))
<1>1. CASE Waiting(k, e)
  <2> DEFINE j == OS_EventTaskRdy(k, e, msg, "Q", "OK")
  <2>1. Rouses(k, j)
    BY <1>1, RdyOneOrderly DEF EventTypes
  <2>2. OSQPost(k, e, msg) = Reschedules(j) /\ OSQPostFront(k, e, msg) = Reschedules(j)
    BY <1>1 DEF OSQPost, OSQPostFront
  <2> QED
    BY <2>1, <2>2, RousesServes
<1>2. CASE ~Waiting(k, e)
  BY <1>2, EnqueueServes DEF OSQPost, OSQPostFront
<1> QED
  BY <1>1, <1>2

LEMMA QPostOptServes ==
  ASSUME NEW k, Sound(k), NEW e \in Ecb, k.event[e].type = "Q", NEW msg \in Int, NEW opt
  PROVE  LET r == OSQPostOpt(k, e, msg, opt) IN
         Serves(k, r) \/ ("NO_SCHED" \in opt /\ PutsOff(k, r))
<1> DEFINE one == OS_EventTaskRdy(k, e, msg, "Q", "OK")
           all == RdyAll(k, e, msg, "Q", "OK")
           j == IF "BROADCAST" \in opt THEN all ELSE one
           r == OSQPostOpt(k, e, msg, opt)
<1>1. CASE ~Waiting(k, e)
  <2>1. OSQPostOpt(k, e, msg, opt) = Enqueue(k, e, msg, "FRONT" \in opt)
    BY <1>1 DEF OSQPostOpt
  <2>2. ("FRONT" \in opt) \in BOOLEAN
    OBVIOUS
  <2>3. Serves(k, Enqueue(k, e, msg, "FRONT" \in opt))
    BY <1>1, <2>2, EnqueueServes
  <2> QED
    BY <2>1, <2>3
<1>2. CASE Waiting(k, e)
  <2>1. Rouses(k, one)
    BY <1>2, RdyOneOrderly DEF EventTypes
  <2>2. Rouses(k, all)
    BY RdyAllOrderly DEF EventTypes
  <2>3. r = IF "NO_SCHED" \in opt THEN Done(j) ELSE Reschedules(j)
    BY <1>2 DEF OSQPostOpt
  <2> HIDE DEF one, all, r
  <2>4. Rouses(k, j)
    BY <2>1, <2>2
  <2> HIDE DEF j
  <2>5. PutsOff(k, Done(j)) /\ Serves(k, Reschedules(j))
    BY <2>4, RousesServes DEF PutsOff, Done
  <2> QED
    BY <2>3, <2>5 DEF r
<1> QED
  BY <1>1, <1>2

(* Several events at once.                                                 *)
LEMMA OffersIs ==
  ASSUME NEW k, Sound(k), NEW e \in Ecb, k.event[e].type \in EventTypes
  PROVE  Offers(k, e) <=> ~Exhausted(k, e)
<1>1. k \in Kernel /\ k.event[e].cnt \in Nat
  BY Fields DEF Sound
<1>2. CASE k.event[e].type = "SEM"
  BY <1>1, <1>2 DEF Offers, Exhausted
<1>3. CASE k.event[e].type = "MBOX"
  BY <1>3 DEF Offers, Exhausted
<1>4. CASE k.event[e].type = "Q"
  BY <1>4, TheRingType DEF Offers, Exhausted
<1> QED
  BY <1>2, <1>3, <1>4 DEF EventTypes

(* One unit less: what the event becomes when it has offered one.          *)
LEMMA TakenType ==
  ASSUME NEW k, Sound(k), NEW e \in Ecb, ~Exhausted(k, e)
  PROVE  /\ k.event[e].type = "SEM" =>
              LET d == [k.event[e] EXCEPT !.cnt = @ - 1] IN
              d \in EventType /\ d.type = "SEM" /\ d.wait = k.event[e].wait
         /\ k.event[e].type = "MBOX" =>
              LET d == [k.event[e] EXCEPT !.ptr = Null] IN
              d \in EventType /\ d.type = "MBOX" /\ d.wait = k.event[e].wait
<1>1. k \in Kernel /\ k.event[e] \in EventType /\ k.event[e].cnt \in Nat
  BY Fields DEF Sound
<1>2. ASSUME k.event[e].type = "SEM"
      PROVE  LET d == [k.event[e] EXCEPT !.cnt = @ - 1] IN
             d \in EventType /\ d.type = "SEM" /\ d.wait = k.event[e].wait
  <2>1. k.event[e].cnt - 1 \in Nat
    BY <1>1, <1>2 DEF Exhausted
  <2> QED
    BY <1>1, <1>2, <2>1, CountType
<1>3. ASSUME k.event[e].type = "MBOX"
      PROVE  LET d == [k.event[e] EXCEPT !.ptr = Null] IN
             d \in EventType /\ d.type = "MBOX" /\ d.wait = k.event[e].wait
  <2>1. Null \in Int
    BY DEF Null
  <2> QED
    BY <1>1, <1>3, <2>1, PtrType
<1> QED
  BY <1>2, <1>3

LEMMA TakeAllServes ==
  ASSUME NEW k, Sound(k), NEW Avail \in SUBSET Ecb,
         \A e \in Avail : k.event[e].type \in EventTypes /\ ~Exhausted(k, e)
  PROVE  Serves(k, Done(TakeAll(k, Avail)))
<1> DEFINE Given == {k.event[e].ptr : e \in {f \in Avail : k.event[f].type = "Q"}}
           event == [e \in Ecb |->
             CASE e \in Avail /\ k.event[e].type = "SEM" -> [k.event[e] EXCEPT !.cnt = @ - 1]
               [] e \in Avail /\ k.event[e].type = "MBOX" -> [k.event[e] EXCEPT !.ptr = Null]
               [] OTHER -> k.event[e]]
           queue == [q \in Qcb |-> IF q \in Given THEN TakeFront(k.queue[q]) ELSE k.queue[q]]
           j == TakeAll(k, Avail)
<1>1. k \in Kernel /\ PoolsOK(k)
  BY DEF Sound
<1>2. j = Put(k, k.rdy, k.tcb, event, k.flag, queue)
  BY <1>1 DEF Kernel, Put, TakeAll
<1>3. ASSUME NEW e \in Ecb
      PROVE  /\ event[e] \in EventType /\ event[e].type = k.event[e].type
             /\ event[e].wait = k.event[e].wait
             /\ k.event[e].type = "Q" => event[e] = k.event[e]
             /\ e \notin Avail => event[e] = k.event[e]
  <2>1. k.event[e] \in EventType
    BY <1>1, Fields
  <2>2. CASE e \in Avail /\ k.event[e].type = "SEM"
    <3> DEFINE d == [k.event[e] EXCEPT !.cnt = @ - 1]
    <3>1. event[e] = d
      BY <2>2
    <3>2. ~Exhausted(k, e)
      BY <2>2
    <3>3. d \in EventType /\ d.type = "SEM" /\ d.wait = k.event[e].wait
      BY <2>2, <3>2, TakenType
    <3> HIDE DEF event, d
    <3> QED
      BY <2>2, <3>1, <3>3
  <2>3. CASE e \in Avail /\ k.event[e].type = "MBOX"
    <3> DEFINE d == [k.event[e] EXCEPT !.ptr = Null]
    <3>1. event[e] = d
      BY <2>3
    <3>2. ~Exhausted(k, e)
      BY <2>3
    <3>3. d \in EventType /\ d.type = "MBOX" /\ d.wait = k.event[e].wait
      BY <2>3, <3>2, TakenType
    <3> HIDE DEF event, d
    <3> QED
      BY <2>3, <3>1, <3>3
  <2>4. CASE ~(e \in Avail /\ k.event[e].type \in {"SEM", "MBOX"})
    BY <2>1, <2>4
  <2> QED
    BY <2>2, <2>3, <2>4
<1>4. event \in [Ecb -> EventType]
  BY <1>3
<1>5. queue \in [Qcb -> RingType]
  <2>1. ASSUME NEW q \in Given
        PROVE  TakeFront(k.queue[q]) \in RingType
    <3>1. PICK e \in Avail : k.event[e].type = "Q" /\ q = k.event[e].ptr
      BY <2>1
    <3>2. /\ TheRing(k, e) \in RingType /\ TheRing(k, e).entries \in Nat
          /\ TheRing(k, e).entries # 0
      BY <3>1, TheRingType DEF Exhausted
    <3> QED
      BY <3>1, <3>2, RingTypes DEF TheRing
  <2> HIDE DEF Given
  <2> QED
    BY <1>1, <2>1, Sets
<1>6. \A q \in Qcb : q \notin Given => queue[q] = k.queue[q]
  OBVIOUS
<1> HIDE DEF event, queue, j
<1>7. /\ j \in Kernel /\ SameRest(k, j) /\ j.rdy = k.rdy /\ j.tcb = k.tcb
      /\ j.event = event /\ j.flag = k.flag /\ j.queue = queue
  BY <1>1, <1>2, <1>4, <1>5, Sets, PutKernel, PutFields
<1>8. ASSUME NEW e \in Ecb
      PROVE  ~Waiting(k, e) \/ (Exhausted(k, e) => Exhausted(j, e))
  <2>1. CASE e \in Avail
    BY <2>1, NobodyWaits
  <2>2. CASE e \notin Avail
    <3>1. event[e] = k.event[e]
      BY <1>3, <2>2
    <3>2. ASSUME k.event[e].type = "Q"
          PROVE  queue[k.event[e].ptr] = k.queue[k.event[e].ptr]
      <4>1. k.event[e].ptr \in Qcb /\ k.event[e].ptr \notin Given
        BY <1>1, <2>2, <3>2 DEF PoolsOK
      <4> QED
        BY <1>6, <4>1
    <3> QED
      BY <1>7, <3>1, <3>2 DEF Exhausted, TheRing
  <2> QED
    BY <2>1, <2>2
<1>9. Orderly(k, j, {}) /\ Serves(k, Done(j))
  BY <1>3, <1>7, <1>8, ContentsOrderly
<1> QED
  BY <1>9 DEF j

LEMMA PendMultiServes ==
  ASSUME NEW k, Idle(k), NEW S \in SUBSET Ecb, S # {},
         \A e \in S : k.event[e].type \in EventTypes, NEW timeout \in Nat
  PROVE  LET r == OSEventPendMulti(k, S, timeout) IN
         Serves(k, r) \/ GoesToWait(k, r, "MultiPended", S)
<1> DEFINE Avail == {e \in S : Offers(k, e)}
           stat == {k.event[e].type : e \in S} \cup {"MULTI"}
           j == OS_EventTaskWaitMulti(StartsToWait(k, stat, timeout), S)
           r == OSEventPendMulti(k, S, timeout)
<1>1. Sound(k)
  BY DEF Idle
<1>2. \A e \in S : Offers(k, e) <=> ~Exhausted(k, e)
  BY <1>1, OffersIs
<1>3. CASE Avail # {}
  <2>1. Serves(k, Done(TakeAll(k, Avail)))
    <3>1. Avail \in SUBSET Ecb
      OBVIOUS
    <3>2. \A e \in Avail : k.event[e].type \in EventTypes /\ ~Exhausted(k, e)
      BY <1>2
    <3> HIDE DEF Avail
    <3> QED
      BY <1>1, <3>1, <3>2, TakeAllServes
  <2>2. r = Gives(TakeAll(k, Avail), Messages(k, Avail))
    BY <1>3 DEF OSEventPendMulti
  <2> QED
    BY <2>1, <2>2, GivesServes
<1>4. CASE Avail = {}
  <2>1. \A e \in S : k.event[e].type \in EventTypes /\ Exhausted(k, e)
    BY <1>2, <1>4
  <2>2. Orderly(k, j, {k.cur}) /\ WaitsForAny(j, k.cur, S)
    BY <2>1, WaitsMultiOrderly
  <2>3. r = Blocks(j, "MultiPended")
    BY <1>4 DEF OSEventPendMulti
  <2> HIDE DEF j
  <2>4. GoesToWait(k, Blocks(j, "MultiPended"), "MultiPended", S)
    BY <2>2 DEF GoesToWait, Blocks, Done, TaskOK
  <2> QED
    BY <2>3, <2>4
<1> QED
  BY <1>3, <1>4

(* Flags.                                                                  *)
LEMMA FlagsChange ==
  ASSUME NEW d \in GroupType, NEW flags \in SUBSET FlagNames
  PROVE  LET c == [d EXCEPT !.flags = flags] IN
         c \in GroupType /\ c.type = d.type /\ c.wait = d.wait /\ c.flags = flags
  BY DEF GroupType

(* Flags that have been waited for to be set are taken away.               *)
LEMMA TakeFlagsIs ==
  ASSUME NEW k, Sound(k), NEW g \in Fgp, NEW c \in Wanted, c.consume => c.type \in ForSet,
         NEW tcb \in [Tcb -> TcbType],
         \A u \in Tcb : /\ tcb[u].prio = k.tcb[u].prio /\ tcb[u].stat = k.tcb[u].stat
                        /\ tcb[u].pend = k.tcb[u].pend /\ tcb[u].dly = k.tcb[u].dly
                        /\ tcb[u].event = k.tcb[u].event
                        /\ tcb[u].multi = k.tcb[u].multi /\ tcb[u].node = k.tcb[u].node,
         NEW flags \in SUBSET k.flag[g].flags
  PROVE  Serves(k, Done([k EXCEPT !.tcb = tcb, !.flag[g].flags = flags]))
<1> DEFINE flag == [k.flag EXCEPT ![g].flags = flags]
           j == [k EXCEPT !.tcb = tcb, !.flag[g].flags = flags]
<1>1. k \in Kernel /\ k.flag[g] \in GroupType /\ k.flag[g].flags \in SUBSET FlagNames
  BY Fields DEF Sound, GroupType
<1>2. j = Put(k, k.rdy, tcb, k.event, flag, k.queue)
  BY <1>1 DEF Kernel, Put
<1>3. /\ flag \in [Fgp -> GroupType]
      /\ \A f \in Fgp : /\ flag[f].type = k.flag[f].type /\ flag[f].wait = k.flag[f].wait
                        /\ flag[f].flags \subseteq k.flag[f].flags
  <2> DEFINE d == [k.flag[g] EXCEPT !.flags = flags]
  <2>1. d \in GroupType /\ d.type = k.flag[g].type /\ d.wait = k.flag[g].wait /\ d.flags = flags
    BY <1>1, FlagsChange
  <2>2. flag = [k.flag EXCEPT ![g] = d]
    OBVIOUS
  <2> HIDE DEF d, flag
  <2>3. /\ flag \in [Fgp -> GroupType] /\ flag[g] = d
        /\ \A f \in Fgp : f # g => flag[f] = k.flag[f]
    BY <1>1, <2>1, <2>2, Sets
  <2> QED
    BY <2>1, <2>3
<1> HIDE DEF flag, j
<1>4. /\ j \in Kernel /\ SameRest(k, j) /\ j.rdy = k.rdy /\ j.tcb = tcb
      /\ j.event = k.event /\ j.flag = flag /\ j.queue = k.queue
  BY <1>1, <1>2, <1>3, Sets, PutKernel, PutFields
<1>5. \A e \in Ecb : Exhausted(k, e) => Exhausted(j, e)
  BY <1>4 DEF Exhausted, TheRing
<1>6. Orderly(k, j, {}) /\ Serves(k, Done(j))
  BY <1>3, <1>4, <1>5, ContentsOrderly
<1> QED
  BY <1>6 DEF j

(* What is left when the flags that ended a wait are consumed.             *)
LEMMA ConsumedFewer ==
  ASSUME NEW flags, NEW rdy, NEW type \in ForSet
  PROVE  Consumed(flags, rdy, type) \subseteq flags
  BY DEF Consumed

LEMMA FlagsLeave ==
  ASSUME NEW k, Sound(k), NEW g \in Fgp, NEW c \in Wanted, c.consume => c.type \in ForSet
  PROVE  /\ Serves(k, Done(TakeFlags(k, g, c)))
         /\ k.cur \in k.list =>
              Serves(k, Done([TakeFlags(k, g, c) EXCEPT !.tcb[k.cur].flagsRdy =
                                FlagsRdy(k.flag[g].flags, c.flags, c.type)]))
<1> DEFINE rdy == FlagsRdy(k.flag[g].flags, c.flags, c.type)
           left == Consumed(k.flag[g].flags, rdy, c.type)
           flags == IF c.consume THEN left ELSE k.flag[g].flags
           tcb == [k.tcb EXCEPT ![k.cur].flagsRdy = rdy]
<1>1. /\ k \in Kernel /\ k.flag[g] \in GroupType /\ k.flag[g].flags \in SUBSET FlagNames
      /\ c.flags \in SUBSET FlagNames /\ c.consume \in BOOLEAN
  BY Fields DEF Sound, GroupType, Wanted
<1>2. rdy \in SUBSET FlagNames
  BY <1>1 DEF FlagsRdy
<1> HIDE DEF rdy
<1>3. flags \in SUBSET k.flag[g].flags
  BY ConsumedFewer
<1>4. /\ k = [k EXCEPT !.tcb = k.tcb, !.flag[g].flags = k.flag[g].flags]
      /\ [k EXCEPT !.flag[g].flags = left] = [k EXCEPT !.tcb = k.tcb, !.flag[g].flags = left]
  <2>1. [k.flag EXCEPT ![g].flags = k.flag[g].flags] = k.flag
    <3>1. [k.flag[g] EXCEPT !.flags = k.flag[g].flags] = k.flag[g]
      BY <1>1 DEF GroupType
    <3> QED
      BY <1>1, <3>1, Sets
  <2> HIDE DEF left
  <2> QED
    BY <1>1, <2>1 DEF Kernel
<1>5. TakeFlags(k, g, c) = [k EXCEPT !.tcb = k.tcb, !.flag[g].flags = flags]
  <2>1. CASE c.consume
    <3>1. TakeFlags(k, g, c) = [k EXCEPT !.flag[g].flags = left]
      BY <2>1 DEF TakeFlags, rdy
    <3> QED
      BY <1>4, <2>1, <3>1
  <2>2. CASE ~c.consume
    BY <1>4, <2>2 DEF TakeFlags
  <2> QED
    BY <2>1, <2>2
<1> HIDE DEF left, flags
<1>6. Serves(k, Done(TakeFlags(k, g, c)))
  <2>1. k.tcb \in [Tcb -> TcbType]
    BY <1>1, Sets
  <2>2. Serves(k, Done([k EXCEPT !.tcb = k.tcb, !.flag[g].flags = flags]))
    BY <1>3, <2>1, TakeFlagsIs
  <2> QED
    BY <1>5, <2>2
<1>7. ASSUME k.cur \in k.list
      PROVE  Serves(k, Done([TakeFlags(k, g, c) EXCEPT !.tcb[k.cur].flagsRdy = rdy]))
  <2>1. k.cur \in Tcb /\ k.tcb[k.cur] \in TcbType
    BY <1>1, <1>7, Fields
  <2> DEFINE d == [k.tcb[k.cur] EXCEPT !.flagsRdy = rdy]
  <2>2. /\ d \in TcbType /\ d.prio = k.tcb[k.cur].prio /\ d.stat = k.tcb[k.cur].stat
        /\ d.pend = k.tcb[k.cur].pend /\ d.dly = k.tcb[k.cur].dly
        /\ d.event = k.tcb[k.cur].event
        /\ d.multi = k.tcb[k.cur].multi /\ d.node = k.tcb[k.cur].node
    BY <1>2, <2>1 DEF TcbType
  <2>3. tcb = [k.tcb EXCEPT ![k.cur] = d]
    OBVIOUS
  <2> HIDE DEF d, tcb
  <2>4. /\ tcb \in [Tcb -> TcbType] /\ tcb[k.cur] = d
        /\ \A u \in Tcb : u # k.cur => tcb[u] = k.tcb[u]
    BY <1>1, <2>1, <2>2, <2>3, Sets
  <2>5. [[k EXCEPT !.tcb = k.tcb, !.flag[g].flags = flags] EXCEPT !.tcb[k.cur].flagsRdy = rdy]
           = [k EXCEPT !.tcb = tcb, !.flag[g].flags = flags]
    BY <1>1 DEF Kernel, tcb
  <2>6. \A u \in Tcb : /\ tcb[u].prio = k.tcb[u].prio /\ tcb[u].stat = k.tcb[u].stat
                       /\ tcb[u].pend = k.tcb[u].pend /\ tcb[u].dly = k.tcb[u].dly
                       /\ tcb[u].event = k.tcb[u].event
                       /\ tcb[u].multi = k.tcb[u].multi /\ tcb[u].node = k.tcb[u].node
    BY <2>2, <2>4
  <2>7. Serves(k, Done([k EXCEPT !.tcb = tcb, !.flag[g].flags = flags]))
    BY <1>3, <2>4, <2>6, TakeFlagsIs
  <2> QED
    BY <1>5, <2>5, <2>7
<1> QED
  BY <1>6, <1>7 DEF rdy

LEMMA FlagAcceptServes ==
  ASSUME NEW k, Sound(k), NEW g \in Fgp, NEW c \in Wanted, c.consume => c.type \in ForSet
  PROVE  Serves(k, OSFlagAccept(k, g, c))
  BY FlagsLeave, SameServes DEF OSFlagAccept

LEMMA FlagPendServes ==
  ASSUME NEW k, Idle(k), NEW g \in Fgp, k.flag[g].type = "FLAG", NEW c \in Wanted,
         c.consume => c.type \in ForSet
  PROVE  LET r == OSFlagPend(k, g, c) IN
         Serves(k, r) \/ GoesToWait(k, r, "FlagPended", g)
<1>1. Sound(k) /\ k.cur \in k.list
  BY DEF Idle
<1>2. CASE Satisfied(k.flag[g].flags, c.flags, c.type)
  <2>1. Serves(k, Done([TakeFlags(k, g, c) EXCEPT !.tcb[k.cur].flagsRdy =
                          FlagsRdy(k.flag[g].flags, c.flags, c.type)]))
    BY <1>1, FlagsLeave
  <2> QED
    BY <1>2, <2>1 DEF OSFlagPend
<1>3. CASE ~Satisfied(k.flag[g].flags, c.flags, c.type)
  <2> DEFINE j == OS_FlagBlock(k, g, c)
  <2>1. Orderly(k, j, {k.cur}) /\ WaitsForFlags(j, k.cur, g)
    BY <1>3, FlagWaitOrderly
  <2>2. OSFlagPend(k, g, c) = Blocks(j, "FlagPended")
    BY <1>3 DEF OSFlagPend
  <2> HIDE DEF j
  <2>3. GoesToWait(k, Blocks(j, "FlagPended"), "FlagPended", g)
    BY <2>1 DEF GoesToWait, Blocks, Done, TaskOK
  <2> QED
    BY <2>2, <2>3
<1> QED
  BY <1>2, <1>3

(* Memory.                                                                 *)
LEMMA MemServes ==
  ASSUME NEW k, Sound(k), NEW mem \in Seq(Block)
  PROVE  Serves(k, Done([k EXCEPT !.mem = mem]))
<1> DEFINE j == [k EXCEPT !.mem = mem]
<1>1. k \in Kernel
  BY DEF Sound
<1>2. /\ j \in Kernel /\ SameRest(k, j) /\ j.rdy = k.rdy /\ j.tcb = k.tcb
      /\ j.event = k.event /\ j.flag = k.flag /\ j.queue = k.queue
  BY <1>1 DEF Kernel, SameRest
<1> HIDE DEF j
<1>3. \A e \in Ecb : Exhausted(k, e) => Exhausted(j, e)
  BY <1>2 DEF Exhausted, TheRing
<1>4. Orderly(k, j, {}) /\ Serves(k, Done(j))
  BY <1>2, <1>3, ContentsOrderly
<1> QED
  BY <1>4 DEF j

LEMMA MemGetServes ==
  ASSUME NEW k, Sound(k)
  PROVE  Serves(k, OSMemGet(k))
<1>1. k.mem \in Seq(Block)
  BY DEF Sound, Kernel
<1>2. CASE k.mem # << >>
  <2>1. Tail(k.mem) \in Seq(Block)
    BY <1>1, <1>2
  <2>2. Serves(k, Done([k EXCEPT !.mem = Tail(k.mem)]))
    BY <2>1, MemServes
  <2> QED
    BY <1>2, <2>2, GivesServes DEF OSMemGet
<1>3. CASE k.mem = << >>
  BY <1>3, SameServes DEF OSMemGet
<1> QED
  BY <1>2, <1>3

LEMMA MemPutServes ==
  ASSUME NEW k, Sound(k), NEW blk \in Block
  PROVE  Serves(k, OSMemPut(k, blk))
<1>1. k.mem \in Seq(Block)
  BY DEF Sound, Kernel
<1>2. << blk >> \o k.mem \in Seq(Block)
  BY <1>1
<1>3. Serves(k, Done([k EXCEPT !.mem = << blk >> \o k.mem]))
  BY <1>2, MemServes
<1> QED
  BY <1>3, SameServes DEF OSMemPut

-----------------------------------------------------------------------------
(* Calls about another task, or the caller.                                *)

LEMMA TheTaskIs ==
  ASSUME NEW k, Sound(k), k.cur \in k.list, NEW prio \in Prio \cup {Self}, Exists(k, prio)
  PROVE  /\ TheTask(k, prio) \in k.list
         /\ prio # IdlePrio /\ k.tcb[k.cur].prio # IdlePrio =>
              k.tcb[TheTask(k, prio)].prio # IdlePrio
<1>1. PriosOK(k) /\ k \in Kernel
  BY DEF Sound
<1>2. CASE prio = Self
  BY <1>2 DEF TheTask
<1>3. CASE prio # Self
  BY <1>1, <1>3 DEF TheTask, Exists, PriosOK
<1> QED
  BY <1>2, <1>3

LEMMA DelReqServes ==
  ASSUME NEW k, Sound(k), k.cur \in k.list, NEW prio \in Prio \cup {Self}
  PROVE  Serves(k, OSTaskDelReq(k, prio))
<1>1. CASE ~Exists(k, prio)
  BY <1>1, SameServes DEF OSTaskDelReq
<1>2. CASE Exists(k, prio)
  <2> DEFINE t == TheTask(k, prio)
             d == [k.tcb[t] EXCEPT !.delReq = TRUE]
             j == [k EXCEPT !.tcb[t] = d]
  <2>1. k \in Kernel /\ t \in Tcb /\ k.tcb[t] \in TcbType
    BY <1>2, TheTaskIs, Fields DEF Sound
  <2> HIDE DEF t
  <2>2. /\ d \in TcbType /\ d.prio = k.tcb[t].prio /\ d.stat = k.tcb[t].stat
        /\ d.pend = k.tcb[t].pend /\ d.dly = k.tcb[t].dly
        /\ d.event = k.tcb[t].event
        /\ d.multi = k.tcb[t].multi /\ d.node = k.tcb[t].node
    BY <2>1 DEF TcbType
  <2>3. [k EXCEPT !.tcb[t].delReq = TRUE] = j
    OBVIOUS
  <2> HIDE DEF d
  <2>4. Alone(k, j, t, d)
    BY <2>1, <2>2, AloneIs
  <2> HIDE DEF j
  <2>5. /\ j \in Kernel /\ SameRest(k, j) /\ j.rdy = k.rdy
        /\ j.event = k.event /\ j.flag = k.flag /\ j.queue = k.queue
    BY <2>4 DEF Alone
  <2>6. \A u \in Tcb : /\ j.tcb[u].prio = k.tcb[u].prio /\ j.tcb[u].stat = k.tcb[u].stat
                       /\ j.tcb[u].pend = k.tcb[u].pend /\ j.tcb[u].dly = k.tcb[u].dly
                       /\ j.tcb[u].event = k.tcb[u].event
                       /\ j.tcb[u].multi = k.tcb[u].multi /\ j.tcb[u].node = k.tcb[u].node
    BY <2>2, <2>4 DEF Alone
  <2>7. \A e \in Ecb : Exhausted(k, e) => Exhausted(j, e)
    BY <2>5 DEF Exhausted, TheRing
  <2>8. Orderly(k, j, {}) /\ Serves(k, Done(j))
    BY <2>5, <2>6, <2>7, ContentsOrderly
  <2> QED
    BY <1>2, <2>3, <2>8 DEF OSTaskDelReq, t
<1> QED
  BY <1>1, <1>2

LEMMA ResumeServes ==
  ASSUME NEW k, Sound(k), k.cur \in k.list, NEW prio \in Prio \cup {Self}
  PROVE  Serves(k, OSTaskResume(k, prio))
<1> DEFINE t == TheTask(k, prio)
           i == [k EXCEPT !.tcb[t].stat = @ \ {"SUSPEND"}]
           r == OSTaskResume(k, prio)
<1>1. CASE ~Exists(k, prio) \/ "SUSPEND" \notin k.tcb[t].stat
  BY <1>1, SameServes DEF OSTaskResume
<1>2. CASE Exists(k, prio) /\ "SUSPEND" \in k.tcb[t].stat
  <2>1. r = IF i.tcb[t].stat = {} /\ i.tcb[t].dly = 0
            THEN Reschedules(Ready(i, t)) ELSE Done(i)
    BY <1>2 DEF OSTaskResume
  <2>2. t \in k.list
    BY <1>2, TheTaskIs
  <2> HIDE DEF t, r
  <2>3. IF i.tcb[t].stat = {} /\ i.tcb[t].dly = 0
        THEN Rouses(k, Ready(i, t)) ELSE Orderly(k, i, {}) /\ i.rdy = k.rdy
    BY <1>2, <2>2, ResumeOrderly
  <2> HIDE DEF i
  <2>4. CASE i.tcb[t].stat = {} /\ i.tcb[t].dly = 0
    BY <2>1, <2>3, <2>4, RousesServes DEF r
  <2>5. CASE ~(i.tcb[t].stat = {} /\ i.tcb[t].dly = 0)
    BY <2>1, <2>3, <2>5 DEF Serves, Rouses, Done, r
  <2> QED
    BY <2>4, <2>5
<1> QED
  BY <1>1, <1>2

LEMMA DlyResumeServes ==
  ASSUME NEW k, Sound(k), k.cur \in k.list, NEW prio \in Prio \cup {Self}
  PROVE  Serves(k, OSTimeDlyResume(k, prio))
<1> DEFINE t == TheTask(k, prio)
           i == [k EXCEPT !.tcb[t] = DelayOver(@)]
           r == OSTimeDlyResume(k, prio)
<1>1. CASE ~Exists(k, prio) \/ k.tcb[t].dly = 0
  BY <1>1, SameServes DEF OSTimeDlyResume
<1>2. CASE Exists(k, prio) /\ k.tcb[t].dly # 0
  <2>1. r = IF "SUSPEND" \in i.tcb[t].stat THEN Done(i) ELSE Reschedules(Ready(i, t))
    BY <1>2 DEF OSTimeDlyResume
  <2>2. t \in k.list
    BY <1>2, TheTaskIs
  <2> HIDE DEF t, r
  <2>3. /\ "SUSPEND" \in i.tcb[t].stat => Orderly(k, i, {}) /\ i.rdy = k.rdy
        /\ "SUSPEND" \notin i.tcb[t].stat => Rouses(k, Ready(i, t))
    BY <1>2, <2>2, DlyResumeOrderly
  <2> HIDE DEF i
  <2>4. CASE "SUSPEND" \notin i.tcb[t].stat
    BY <2>1, <2>3, <2>4, RousesServes DEF r
  <2>5. CASE "SUSPEND" \in i.tcb[t].stat
    BY <2>1, <2>3, <2>5 DEF Serves, Rouses, Done, r
  <2> QED
    BY <2>4, <2>5
<1> QED
  BY <1>1, <1>2

(* The caller goes to sleep until its delay is over.                       *)
GoesToSleep(k, r) ==
    /\ Orderly(k, r.k, {k.cur}) /\ WaitsForNothing(r.k, k.cur)
    /\ r.cont = << "OS_Sched" >>

LEMMA TimeDlyServes ==
  ASSUME NEW k, Idle(k), NEW ticks \in Nat
  PROVE  LET r == OSTimeDly(k, ticks) IN Serves(k, r) \/ GoesToSleep(k, r)
<1>1. CASE ticks = 0
  BY <1>1, SameServes DEF OSTimeDly, Idle
<1>2. CASE ticks # 0
  <2> DEFINE j == Unready([k EXCEPT !.tcb[k.cur].dly = ticks], k.cur)
  <2>1. Orderly(k, j, {k.cur}) /\ WaitsForNothing(j, k.cur)
    BY <1>2, DelayOrderly
  <2>2. OSTimeDly(k, ticks) = Reschedules(j)
    BY <1>2 DEF OSTimeDly
  <2> HIDE DEF j
  <2> QED
    BY <2>1, <2>2 DEF GoesToSleep, Reschedules, Done
<1> QED
  BY <1>1, <1>2

(* A task, perhaps the caller, is suspended: it stays where it is.         *)
Suspends(k, r) ==
    /\ Sound(r.k) /\ SameParts(k, r.k) /\ SameRest(k, r.k)
    /\ \A u \in k.list : \A l, ev :
         l # "MultiPended" /\ TaskOK(k, u, l, ev) => TaskOK(r.k, u, l, ev)
    /\ Bits(r.k.rdy) \subseteq Bits(k.rdy)
    /\ \/ r.cont = << "OS_Sched" >>
       \/ r.cont = << >> /\ (IsReady(k, k.cur) => IsReady(r.k, k.cur))

LEMMA SuspendServes ==
  ASSUME NEW k, Sound(k), k.cur \in k.list, NEW prio \in Prio \cup {Self},
         prio # IdlePrio, k.tcb[k.cur].prio # IdlePrio
  PROVE  LET r == OSTaskSuspend(k, prio) IN Serves(k, r) \/ Suspends(k, r)
<1> DEFINE t == TheTask(k, prio)
           j == [Unready(k, t) EXCEPT !.tcb[t].stat = @ \cup {"SUSPEND"}]
           r == OSTaskSuspend(k, prio)
<1>1. CASE ~Exists(k, prio)
  BY <1>1, SameServes DEF OSTaskSuspend
<1>2. CASE Exists(k, prio)
  <2>1. r = IF t = k.cur THEN Reschedules(j) ELSE Done(j)
    BY <1>2 DEF OSTaskSuspend
  <2>2. t \in k.list /\ k.tcb[t].prio # IdlePrio
    BY <1>2, TheTaskIs
  <2> HIDE DEF t, r
  <2>3. /\ Orderly(k, j, {t})
        /\ Bits(j.rdy) = Bits(k.rdy) \ {k.tcb[t].prio}
        /\ \A l, ev : l # "MultiPended" /\ TaskOK(k, t, l, ev) => TaskOK(j, t, l, ev)
    BY <2>2, SuspendOrderly
  <2> HIDE DEF j
  <2>4. /\ Sound(j) /\ SameParts(k, j) /\ SameRest(k, j)
        /\ Bits(j.rdy) \subseteq Bits(k.rdy)
    BY <2>3 DEF Orderly
  <2>5. \A u \in k.list : \A l, ev :
          l # "MultiPended" /\ TaskOK(k, u, l, ev) => TaskOK(j, u, l, ev)
    BY <2>3 DEF Orderly, Undisturbed
  <2>6. ASSUME t # k.cur, IsReady(k, k.cur)
        PROVE  IsReady(j, k.cur)
    <3>1. k.tcb[k.cur].prio # k.tcb[t].prio /\ j.tcb[k.cur].prio = k.tcb[k.cur].prio
      BY <2>2, <2>4, <2>6, OwnPriority, Fields DEF Sound, SameParts
    <3> QED
      BY <2>3, <2>6, <3>1 DEF IsReady
  <2>7. r.k = j /\ r.cont = IF t = k.cur THEN << "OS_Sched" >> ELSE << >>
    BY <2>1 DEF Reschedules, Done
  <2> QED
    BY <2>4, <2>5, <2>6, <2>7 DEF Suspends, r
<1> QED
  BY <1>1, <1>2

-----------------------------------------------------------------------------
(* Coming back from a wait.                                                *)

(* The task's control block is as before the call, and it has left the     *)
(* wait lists of the events S.                                             *)
WasEnded(c, d) ==
    /\ d \in TcbType /\ d.prio = c.prio /\ d.node = c.node /\ d.dly = c.dly
    /\ d.stat = {} /\ d.pend = "OK" /\ d.event = Null /\ d.multi = {}

Finishes(k, j, S) ==
    /\ j \in Kernel /\ SameRest(k, j) /\ j.rdy = k.rdy /\ j.flag = k.flag
    /\ j.queue = k.queue
    /\ \A u \in Tcb : u # k.cur => j.tcb[u] = k.tcb[u]
    /\ WasEnded(k.tcb[k.cur], j.tcb[k.cur])
    /\ \A f \in Ecb : f \notin S => j.event[f] = k.event[f]
    /\ \A f \in S :
         j.event[f] = [k.event[f] EXCEPT !.wait = ClearBit(@, k.tcb[k.cur].prio)]

LEMMA EndedType ==
  ASSUME NEW c \in TcbType
  PROVE  WasEnded(c, Ended(c)) /\ WasEnded(c, [Ended(c) EXCEPT !.msg = Null])
<1>1. Null \in Int
  BY DEF Null
<1> QED
  BY <1>1 DEF Ended, WasEnded, TcbType

LEMMA ClearedType ==
  ASSUME NEW d \in EventType, Consistent(d.wait), NEW p \in Prio
  PROVE  LET c == [d EXCEPT !.wait = ClearBit(@, p)] IN
         /\ c \in EventType /\ c.type = d.type /\ c.cnt = d.cnt /\ c.ptr = d.ptr
         /\ Consistent(c.wait) /\ Bits(c.wait) = Bits(d.wait) \ {p}
<1>1. Consistent(ClearBit(d.wait, p)) /\ Bits(ClearBit(d.wait, p)) = Bits(d.wait) \ {p}
  BY ClearBitRemoves
<1>2. ClearBit(d.wait, p) \in Bitmap
  BY <1>1 DEF Consistent
<1> QED
  BY <1>1, <1>2 DEF EventType

(* It has done waiting: no list and no group has it any more.              *)
ComesBack(k, r) ==
    /\ Orderly(k, r.k, {k.cur}) /\ WaitsForNothing(r.k, k.cur)
    /\ r.cont = << >> /\ r.k.rdy = k.rdy

LEMMA FinishesBack ==
  ASSUME NEW k, Sound(k), k.cur \in k.list, NEW S \in SUBSET Ecb,
         Lists(k, k.cur) \subseteq S, Groups(k, k.cur) = {},
         k.tcb[k.cur].node = NoNode, k.tcb[k.cur].dly = 0, IsReady(k, k.cur),
         NEW j, Finishes(k, j, S)
  PROVE  Orderly(k, j, {k.cur}) /\ WaitsForNothing(j, k.cur)
<1> DEFINE t == k.cur
           p == k.tcb[t].prio
<1>1. /\ k \in Kernel /\ BitsOK(k) /\ ServedOK(k) /\ t \in Tcb /\ p \in Prio
      /\ \A e \in Ecb : k.event[e] \in EventType /\ Consistent(k.event[e].wait)
  BY Fields DEF Sound, BitsOK
<1>2. /\ j \in Kernel /\ SameRest(k, j) /\ j.rdy = k.rdy /\ j.flag = k.flag
      /\ j.queue = k.queue
      /\ \A u \in Tcb : u # t => j.tcb[u] = k.tcb[u]
      /\ WasEnded(k.tcb[t], j.tcb[t])
      /\ \A f \in Ecb : f \notin S => j.event[f] = k.event[f]
      /\ \A f \in S : j.event[f] = [k.event[f] EXCEPT !.wait = ClearBit(@, p)]
  BY DEF Finishes
<1> HIDE DEF p, t
<1>3. ASSUME NEW f \in Ecb
      PROVE  /\ j.event[f].type = k.event[f].type /\ j.event[f].cnt = k.event[f].cnt
             /\ j.event[f].ptr = k.event[f].ptr
             /\ Consistent(j.event[f].wait)
             /\ Bits(j.event[f].wait) = IF f \in S THEN Bits(k.event[f].wait) \ {p}
                                                   ELSE Bits(k.event[f].wait)
  <2>1. CASE f \in S
    <3> DEFINE c == [k.event[f] EXCEPT !.wait = ClearBit(@, p)]
    <3>1. j.event[f] = c
      BY <1>2, <2>1
    <3>2. /\ c.type = k.event[f].type /\ c.cnt = k.event[f].cnt /\ c.ptr = k.event[f].ptr
          /\ Consistent(c.wait) /\ Bits(c.wait) = Bits(k.event[f].wait) \ {p}
      BY <1>1, ClearedType
    <3> HIDE DEF c
    <3> QED
      BY <2>1, <3>1, <3>2
  <2>2. CASE f \notin S
    BY <1>1, <1>2, <2>2
  <2> QED
    BY <2>1, <2>2
<1>4. j.tcb[t].prio = p /\ j.tcb[t].node = NoNode /\ j.tcb[t].dly = 0 /\ j.tcb[t].stat = {}
      /\ j.tcb[t].pend = "OK" /\ j.tcb[t].event = Null /\ j.tcb[t].multi = {}
  BY <1>2 DEF WasEnded, p, t
<1>5. \A f \in Ecb : SoloEvent(k, j, p, f)
  BY <1>1, <1>3 DEF SoloEvent, BitsOK, Sound, PoolsOK
<1>6. \A g \in Fgp : SoloGroup(k, j, t, g)
  BY <1>1, <1>2 DEF SoloGroup, Sound, PoolsOK
<1>7. Solo(k, j, t)
  BY <1>1, <1>2, <1>4, <1>5, <1>6 DEF Solo, BitsOK, p
<1>8. ServedOK(j)
  <2>1. \A e \in Ecb : /\ Bits(j.event[e].wait) \subseteq Bits(k.event[e].wait)
                       /\ Exhausted(k, e) => Exhausted(j, e)
    BY <1>2, <1>3 DEF Exhausted, TheRing
  <2>2. \A u \in Tcb : /\ j.tcb[u].node = k.tcb[u].node
                       /\ "FLAG" \in j.tcb[u].stat => "FLAG" \in k.tcb[u].stat
    BY <1>2, <1>4 DEF t
  <2>3. \A g \in Fgp : /\ j.flag[g] = k.flag[g]
                       /\ \A u \in j.flag[g].wait : u \in Tcb
    BY <1>1, <1>2, Fields
  <2> QED
    BY <1>1, <2>1, <2>2, <2>3, ServedKept
<1>9. Orderly(k, j, {t})
  BY <1>7, <1>8, SoloOrderly DEF t
<1>10. WaitsForNothing(j, t)
  <2>1. Lists(j, t) = {}
    BY <1>3, <1>4 DEF Lists, p, t
  <2>2. Groups(j, t) = {}
    BY <1>2 DEF Groups, t
  <2>3. IsReady(j, t)
    BY <1>2, <1>4 DEF IsReady, p, t
  <2> QED
    BY <1>4, <2>1, <2>2, <2>3 DEF WaitsForNothing
<1> QED
  BY <1>9, <1>10 DEF t

(* The kernel with the running task's control block and events changed.    *)
LEMMA FinishesIs ==
  ASSUME NEW k, Sound(k), k.cur \in k.list, NEW S \in SUBSET Ecb,
         NEW d, WasEnded(k.tcb[k.cur], d),
         NEW event \in [Ecb -> EventType], NEW j,
         \A f \in Ecb : f \notin S => event[f] = k.event[f],
         \A f \in S : event[f] = [k.event[f] EXCEPT !.wait = ClearBit(@, k.tcb[k.cur].prio)],
         j = Put(k, k.rdy, [k.tcb EXCEPT ![k.cur] = d], event, k.flag, k.queue)
  PROVE  Finishes(k, j, S)
<1> DEFINE tcb == [k.tcb EXCEPT ![k.cur] = d]
<1>1. k \in Kernel /\ k.cur \in Tcb /\ d \in TcbType
  BY Fields DEF Sound, WasEnded
<1>2. /\ tcb \in [Tcb -> TcbType] /\ tcb[k.cur] = d
      /\ \A u \in Tcb : u # k.cur => tcb[u] = k.tcb[u]
  BY <1>1, Sets
<1>3. j = Put(k, k.rdy, tcb, event, k.flag, k.queue)
  OBVIOUS
<1> HIDE DEF tcb
<1>4. /\ j \in Kernel /\ SameRest(k, j) /\ j.rdy = k.rdy /\ j.tcb = tcb
      /\ j.event = event /\ j.flag = k.flag /\ j.queue = k.queue
  BY <1>1, <1>2, <1>3, Sets, PutKernel, PutFields
<1> QED
  BY <1>2, <1>4 DEF Finishes

(* What a task that waits for one event finds when it runs.                *)
LEMMA WaitedForOne ==
  ASSUME NEW k, Sound(k), k.cur \in k.list, IsReady(k, k.cur),
         NEW type \in EventTypes, NEW e, WaitsForOne(k, k.cur, type, e)
  PROVE  /\ e \in Ecb /\ Groups(k, k.cur) = {}
         /\ k.tcb[k.cur].node = NoNode /\ k.tcb[k.cur].dly = 0
         /\ Lists(k, k.cur) = IF k.tcb[k.cur].pend = "TO" THEN {e} ELSE {}
  BY DEF WaitsForOne, EventTypes

(* The event control blocks after a task has taken its bit out of some.    *)
LEMMA ClearedEvents ==
  ASSUME NEW k, Sound(k), k.cur \in k.list, NEW S \in SUBSET Ecb
  PROVE  LET event == Delisted(k.event, S, k.tcb[k.cur].prio) IN
         /\ event \in [Ecb -> EventType]
         /\ \A f \in Ecb : f \notin S => event[f] = k.event[f]
         /\ \A f \in S :
              event[f] = [k.event[f] EXCEPT !.wait = ClearBit(@, k.tcb[k.cur].prio)]
<1> DEFINE p == k.tcb[k.cur].prio
           event == Delisted(k.event, S, p)
<1>1. /\ k \in Kernel /\ p \in Prio
      /\ \A e \in Ecb : k.event[e] \in EventType /\ Consistent(k.event[e].wait)
  BY Fields DEF Sound, BitsOK
<1> HIDE DEF p
<1>2. /\ event = [f \in Ecb |-> event[f]]
      /\ \A f \in Ecb : event[f] = IF f \in S THEN [k.event[f] EXCEPT !.wait = ClearBit(@, p)]
                                              ELSE k.event[f]
  BY DEF Delisted
<1> HIDE DEF event
<1>3. ASSUME NEW f \in Ecb
      PROVE  event[f] \in EventType
  <2> DEFINE c == [k.event[f] EXCEPT !.wait = ClearBit(@, p)]
  <2>1. c \in EventType
    BY <1>1, ClearedType
  <2>2. event[f] = IF f \in S THEN c ELSE k.event[f]
    BY <1>2
  <2> HIDE DEF c
  <2> QED
    BY <1>1, <2>1, <2>2
<1>4. event \in [Ecb -> EventType]
  BY <1>2, <1>3
<1> QED
  BY <1>2, <1>4 DEF event, p

(* OS_EventTaskRemove takes the bit out of one.                            *)
LEMMA ClearedEvent ==
  ASSUME NEW k, Sound(k), k.cur \in k.list, NEW e \in Ecb
  PROVE  LET event == [k.event EXCEPT ![e].wait = ClearBit(@, k.tcb[k.cur].prio)] IN
         /\ event \in [Ecb -> EventType]
         /\ \A f \in Ecb : f \notin {e} => event[f] = k.event[f]
         /\ \A f \in {e} :
              event[f] = [k.event[f] EXCEPT !.wait = ClearBit(@, k.tcb[k.cur].prio)]
<1> DEFINE p == k.tcb[k.cur].prio
           c == [k.event[e] EXCEPT !.wait = ClearBit(@, p)]
           event == [k.event EXCEPT ![e].wait = ClearBit(@, p)]
<1>1. k \in Kernel /\ p \in Prio /\ k.event[e] \in EventType /\ Consistent(k.event[e].wait)
  BY Fields DEF Sound, BitsOK
<1> HIDE DEF p
<1>2. c \in EventType
  BY <1>1, ClearedType
<1>3. event = [k.event EXCEPT ![e] = c]
  OBVIOUS
<1> HIDE DEF c, event
<1>4. /\ event \in [Ecb -> EventType] /\ event[e] = c
      /\ \A f \in Ecb : f # e => event[f] = k.event[f]
  BY <1>1, <1>2, <1>3, Sets
<1> QED
  BY <1>4 DEF c, event, p

(* The second critical section of a call that waited for one event.        *)
LEMMA AfterWaitFinishes ==
  ASSUME NEW k, Sound(k), k.cur \in k.list, IsReady(k, k.cur),
         NEW type \in EventTypes, NEW e, WaitsForOne(k, k.cur, type, e),
         NEW j, NEW d, WasEnded(k.tcb[k.cur], d),
         j = [AfterWait(k, e) EXCEPT !.tcb = [k.tcb EXCEPT ![k.cur] = d]]
  PROVE  Orderly(k, j, {k.cur}) /\ WaitsForNothing(j, k.cur)
<1> DEFINE t == k.cur
           p == k.tcb[t].prio
           tcb == [k.tcb EXCEPT ![t] = d]
           cleared == [k.event EXCEPT ![e].wait = ClearBit(@, p)]
           event == IF k.tcb[t].pend = "TO" THEN cleared ELSE k.event
           S == IF k.tcb[t].pend = "TO" THEN {e} ELSE {}
<1>1. /\ k \in Kernel /\ e \in Ecb /\ Groups(k, t) = {} /\ k.tcb[t].node = NoNode
      /\ k.tcb[t].dly = 0 /\ Lists(k, t) = S
  BY WaitedForOne DEF Sound
<1>2. j = Put(k, k.rdy, tcb, event, k.flag, k.queue)
  BY <1>1 DEF Kernel, Put, AfterWait, EndsWait, OS_EventTaskRemove
<1>3. /\ cleared \in [Ecb -> EventType]
      /\ \A f \in Ecb : f \notin {e} => cleared[f] = k.event[f]
      /\ \A f \in {e} : cleared[f] = [k.event[f] EXCEPT !.wait = ClearBit(@, p)]
  BY <1>1, ClearedEvent
<1> HIDE DEF cleared
<1>4. /\ event \in [Ecb -> EventType] /\ S \in SUBSET Ecb
      /\ \A f \in Ecb : f \notin S => event[f] = k.event[f]
      /\ \A f \in S : event[f] = [k.event[f] EXCEPT !.wait = ClearBit(@, p)]
  BY <1>1, <1>3, Sets
<1> HIDE DEF event, S
<1>5. Finishes(k, j, S)
  BY <1>2, <1>4, FinishesIs
<1> QED
  BY <1>1, <1>4, <1>5, FinishesBack

LEMMA SemPendedBack ==
  ASSUME NEW k, Sound(k), k.cur \in k.list, IsReady(k, k.cur),
         NEW e, WaitsForOne(k, k.cur, "SEM", e)
  PROVE  ComesBack(k, SemPended(k, e))
<1> DEFINE d == Ended(k.tcb[k.cur])
           j == AfterWait(k, e)
<1>1. k \in Kernel /\ k.cur \in Tcb /\ k.tcb[k.cur] \in TcbType /\ e \in Ecb
  BY Fields DEF Sound, WaitsForOne
<1>2. WasEnded(k.tcb[k.cur], d)
  BY <1>1, EndedType
<1>3. /\ j = [j EXCEPT !.tcb = [k.tcb EXCEPT ![k.cur] = d]]
      /\ j.rdy = k.rdy
  BY <1>1 DEF AfterWait, EndsWait, OS_EventTaskRemove, Kernel
<1> HIDE DEF d
<1>4. Orderly(k, j, {k.cur}) /\ WaitsForNothing(j, k.cur)
  BY <1>2, <1>3, AfterWaitFinishes DEF EventTypes
<1> HIDE DEF j
<1>5. SemPended(k, e).k = j /\ SemPended(k, e).cont = << >>
  BY DEF SemPended, Done, j
<1> QED
  BY <1>3, <1>4, <1>5 DEF ComesBack

(* A mailbox or a queue gives up the message that the post left.           *)
LEMMA MessagePendedBack ==
  ASSUME NEW k, Sound(k), k.cur \in k.list, IsReady(k, k.cur),
         NEW type \in EventTypes, NEW e, WaitsForOne(k, k.cur, type, e)
  PROVE  LET j == [AfterWait(k, e) EXCEPT !.tcb[k.cur].msg = Null] IN
         Orderly(k, j, {k.cur}) /\ WaitsForNothing(j, k.cur) /\ j.rdy = k.rdy
<1> DEFINE c == Ended(k.tcb[k.cur])
           d == [Ended(k.tcb[k.cur]) EXCEPT !.msg = Null]
           i == AfterWait(k, e)
           j == [i EXCEPT !.tcb[k.cur].msg = Null]
<1>1. k \in Kernel /\ k.cur \in Tcb /\ k.tcb[k.cur] \in TcbType /\ e \in Ecb
  BY Fields DEF Sound, WaitsForOne
<1>2. WasEnded(k.tcb[k.cur], d)
  BY <1>1, EndedType
<1>3. /\ i.tcb = [k.tcb EXCEPT ![k.cur] = c] /\ i.rdy = k.rdy
      /\ DOMAIN i = DOMAIN k
  BY <1>1 DEF AfterWait, EndsWait, OS_EventTaskRemove, Kernel
<1>4. /\ [i.tcb EXCEPT ![k.cur].msg = Null] = [k.tcb EXCEPT ![k.cur] = d]
  <2>1. [c EXCEPT !.msg = Null] = d
    OBVIOUS
  <2> HIDE DEF c, d, i
  <2> QED
    BY <1>1, <1>3, <2>1, Sets
<1> HIDE DEF c, d, i
<1>5. j = [i EXCEPT !.tcb = [k.tcb EXCEPT ![k.cur] = d]]
  BY <1>4
<1>6. j.rdy = k.rdy
  BY <1>3
<1> HIDE DEF j
<1>7. Orderly(k, j, {k.cur}) /\ WaitsForNothing(j, k.cur)
  BY <1>2, <1>5, AfterWaitFinishes DEF i
<1> QED
  BY <1>6, <1>7 DEF i, j

LEMMA MboxPendedBack ==
  ASSUME NEW k, Sound(k), k.cur \in k.list, IsReady(k, k.cur),
         NEW e, WaitsForOne(k, k.cur, "MBOX", e)
  PROVE  ComesBack(k, MboxPended(k, e))
<1> DEFINE j == [AfterWait(k, e) EXCEPT !.tcb[k.cur].msg = Null]
<1>1. Orderly(k, j, {k.cur}) /\ WaitsForNothing(j, k.cur) /\ j.rdy = k.rdy
  BY MessagePendedBack DEF EventTypes
<1> HIDE DEF j
<1>2. MboxPended(k, e).k = j /\ MboxPended(k, e).cont = << >>
  BY DEF MboxPended, Gives, Done, j
<1> QED
  BY <1>1, <1>2 DEF ComesBack

LEMMA QPendedBack ==
  ASSUME NEW k, Sound(k), k.cur \in k.list, IsReady(k, k.cur),
         NEW e, WaitsForOne(k, k.cur, "Q", e)
  PROVE  ComesBack(k, QPended(k, e))
<1> DEFINE j == [AfterWait(k, e) EXCEPT !.tcb[k.cur].msg = Null]
<1>1. Orderly(k, j, {k.cur}) /\ WaitsForNothing(j, k.cur) /\ j.rdy = k.rdy
  BY MessagePendedBack DEF EventTypes
<1> HIDE DEF j
<1>2. QPended(k, e).k = j /\ QPended(k, e).cont = << >>
  BY DEF QPended, Gives, Done, j
<1> QED
  BY <1>1, <1>2 DEF ComesBack

(* A call that waited for flags.                                           *)
LEMMA FlagPendedBack ==
  ASSUME NEW k, Sound(k), k.cur \in k.list, IsReady(k, k.cur),
         NEW g, WaitsForFlags(k, k.cur, g), NEW a \in Wanted, a.consume => a.type \in ForSet
  PROVE  ComesBack(k, FlagPended(k, g, a))
<1> DEFINE t == k.cur
           c == k.tcb[t]
           r == FlagPended(k, g, a)
<1>1. /\ k \in Kernel /\ t \in Tcb /\ c \in TcbType /\ g \in Fgp /\ k.flag[g] \in GroupType
      /\ k.flag[g].flags \in SUBSET FlagNames /\ a.consume \in BOOLEAN
      /\ c.prio \in Prio /\ k.flag[g].wait \subseteq Tcb
  BY Fields DEF Sound, WaitsForFlags, GroupType, Wanted
<1>2. /\ k.flag[g].type = "FLAG" /\ c.stat = {} /\ c.dly = 0 /\ c.pend \in {"OK", "TO"}
      /\ c.event = Null /\ c.multi = {} /\ Lists(k, t) = {}
      /\ c.pend = "TO" => c.node.grp = g /\ Groups(k, t) = {g}
      /\ c.pend = "OK" => c.node = NoNode /\ Groups(k, t) = {}
  <2>1. c.pend \in {"OK", "TO", "ABORT"}
    BY <1>1, Fields
  <2> QED
    BY <2>1 DEF WaitsForFlags
<1>3. CASE c.pend = "TO"
  <2> DEFINE d == [c EXCEPT !.node = NoNode, !.pend = "OK", !.stat = {}]
             tcb == [k.tcb EXCEPT ![t] = d]
             left == [k.flag[g] EXCEPT !.wait = @ \ {t}]
             flag == [k.flag EXCEPT ![g] = left]
             j == [OS_FlagUnlink(k, t) EXCEPT !.tcb[t].pend = "OK", !.tcb[t].stat = {}]
  <2>1. NoNode \in NodeType
    BY DEF NoNode, NodeType
  <2>2. WasEnded([c EXCEPT !.node = NoNode], d)
    <3>1. [c EXCEPT !.node = NoNode] \in TcbType
      BY <1>1, <2>1 DEF TcbType
    <3> QED
      BY <1>1, <1>2, <2>1 DEF WasEnded, TcbType
  <2>3. /\ d.prio = c.prio /\ d.node = NoNode /\ d.dly = 0 /\ d.stat = {} /\ d.pend = "OK"
        /\ d.event = Null /\ d.multi = {} /\ d \in TcbType
    BY <1>1, <1>2, <2>2 DEF WasEnded, TcbType
  <2>4. left \in GroupType /\ left.type = "FLAG" /\ left.flags = k.flag[g].flags
        /\ left.wait = k.flag[g].wait \ {t}
    BY <1>1, <1>2 DEF GroupType
  <2>5. j = Put(k, k.rdy, tcb, k.event, flag, k.queue)
    <3> DEFINE i == OS_FlagUnlink(k, t)
    <3>1. i = [k EXCEPT !.flag = flag, !.tcb = [k.tcb EXCEPT ![t].node = NoNode]]
      BY <1>1, <1>2, <1>3 DEF Kernel, OS_FlagUnlink
    <3>2. [[[k.tcb EXCEPT ![t].node = NoNode] EXCEPT ![t].pend = "OK"] EXCEPT ![t].stat = {}]
             = tcb
      BY <1>1, Sets
    <3>3. j = [i EXCEPT !.tcb = [[i.tcb EXCEPT ![t].pend = "OK"] EXCEPT ![t].stat = {}]]
      OBVIOUS
    <3> HIDE DEF i, flag, tcb, j
    <3>4. j = [k EXCEPT !.flag = flag, !.tcb = tcb]
      BY <1>1, <3>1, <3>2, <3>3 DEF Kernel
    <3> QED
      BY <1>1, <3>4 DEF Kernel, Put
  <2> HIDE DEF d, left
  <2>6. /\ tcb \in [Tcb -> TcbType] /\ tcb[t] = d
        /\ \A u \in Tcb : u # t => tcb[u] = k.tcb[u]
    BY <1>1, <2>3, Sets
  <2>7. /\ flag \in [Fgp -> GroupType] /\ flag[g] = left
        /\ \A f \in Fgp : f # g => flag[f] = k.flag[f]
    BY <1>1, <2>4, Sets
  <2> HIDE DEF tcb, flag, j
  <2>8. /\ j \in Kernel /\ SameRest(k, j) /\ j.rdy = k.rdy /\ j.tcb = tcb
        /\ j.event = k.event /\ j.flag = flag /\ j.queue = k.queue
    BY <1>1, <2>5, <2>6, <2>7, Sets, PutKernel, PutFields
  <2>9. \A f \in Fgp : /\ j.flag[f].type = k.flag[f].type
                       /\ j.flag[f].flags = k.flag[f].flags
                       /\ j.flag[f].wait = IF f = g THEN k.flag[f].wait \ {t}
                                                    ELSE k.flag[f].wait
    BY <1>2, <2>4, <2>7, <2>8
  <2>10. Solo(k, j, t)
    <3>1. \A f \in Ecb : SoloEvent(k, j, c.prio, f)
      BY <2>8, <1>1 DEF SoloEvent, BitsOK, Sound, PoolsOK
    <3>2. \A f \in Fgp : SoloGroup(k, j, t, f)
      BY <2>9 DEF SoloGroup, Sound, PoolsOK
    <3> QED
      BY <1>1, <2>3, <2>6, <2>8, <3>1, <3>2 DEF Solo, BitsOK, Sound
  <2>11. ServedOK(j)
    <3>1. \A e \in Ecb : /\ Bits(j.event[e].wait) \subseteq Bits(k.event[e].wait)
                         /\ Exhausted(k, e) => Exhausted(j, e)
      BY <2>8 DEF Exhausted, TheRing
    <3>2. \A f \in Fgp : \A u \in j.flag[f].wait :
            /\ u \in k.flag[f].wait
            /\ u # t => j.tcb[u] = k.tcb[u]
      <4>1. \A f \in Fgp : k.flag[f].wait \subseteq Tcb
        BY <1>1, Fields
      <4> QED
        BY <2>6, <2>8, <2>9, <4>1
    <3>3. \A f \in Fgp : t \notin j.flag[f].wait
      BY <1>2, <1>3, <2>9 DEF Groups
    <3>4. ServedOK(k)
      BY DEF Sound
    <3>5. \A f \in Fgp : \A u \in j.flag[f].wait :
            /\ u \in k.flag[f].wait /\ j.tcb[u].node = k.tcb[u].node
            /\ "FLAG" \in j.tcb[u].stat => "FLAG" \in k.tcb[u].stat
            /\ j.flag[f].flags \subseteq k.flag[f].flags
      BY <2>9, <3>2, <3>3
    <3> QED
      BY <3>1, <3>4, <3>5, ServedKept
  <2>12. Orderly(k, j, {t})
    BY <2>10, <2>11, SoloOrderly
  <2>13. WaitsForNothing(j, t)
    <3>1. Lists(j, t) = {}
      BY <1>2, <2>3, <2>6, <2>8 DEF Lists
    <3>2. Groups(j, t) = {}
      BY <1>2, <1>3, <2>9 DEF Groups
    <3>3. IsReady(j, t)
      BY <2>3, <2>6, <2>8 DEF IsReady
    <3> QED
      BY <2>3, <2>6, <2>8, <3>1, <3>2, <3>3 DEF WaitsForNothing
  <2>14. r = Fails(j)
    BY <1>3 DEF FlagPended, j
  <2> QED
    BY <2>8, <2>12, <2>13, <2>14 DEF ComesBack, Fails, Done
<1>4. CASE c.pend = "OK"
  <2>1. WaitsForNothing(k, t)
    BY <1>2, <1>4 DEF WaitsForNothing
  <2>2. CASE ~a.consume
    <3>1. r = Done(k)
      BY <1>4, <2>2 DEF FlagPended
    <3>2. Orderly(k, k, {t})
      BY SameServes DEF Orderly, Undisturbed
    <3> QED
      BY <2>1, <3>1, <3>2 DEF ComesBack, Done
  <2>3. CASE a.consume
    <3> DEFINE flags == Consumed(k.flag[g].flags, c.flagsRdy, a.type)
               j == [k EXCEPT !.flag[g].flags = flags]
               i == [k EXCEPT !.tcb = k.tcb, !.flag[g].flags = flags]
    <3>1. r = Done(j)
      BY <1>4, <2>3 DEF FlagPended
    <3>2. flags \in SUBSET k.flag[g].flags
      BY <2>3, ConsumedFewer
    <3>3. k.tcb \in [Tcb -> TcbType]
      BY <1>1, Sets
    <3>4. i = j /\ j.rdy = k.rdy
      BY <1>1 DEF Kernel
    <3> HIDE DEF flags
    <3>5. Serves(k, Done(i))
      BY <1>1, <3>2, <3>3, TakeFlagsIs
    <3> HIDE DEF i, j
    <3>6. Orderly(k, j, {})
      BY <3>4, <3>5 DEF Serves, Rouses, Done
    <3>7. WaitsForNothing(j, t)
      <4>1. TaskOK(k, t, "none", Null)
        BY <2>1 DEF TaskOK
      <4>2. TaskOK(j, t, "none", Null)
        BY <3>6, <4>1 DEF Orderly, Undisturbed
      <4> QED
        BY <4>2 DEF TaskOK
    <3>8. Orderly(k, j, {t})
      BY <3>6 DEF Orderly, Undisturbed
    <3> QED
      BY <3>1, <3>4, <3>7, <3>8 DEF ComesBack, Done
  <2> QED
    BY <1>1, <2>2, <2>3
<1> QED
  BY <1>2, <1>3, <1>4

(* A call that waited for several events.                                  *)
LEMMA MultiPendedBack ==
  ASSUME NEW k, Sound(k), k.cur \in k.list, IsReady(k, k.cur),
         NEW S, WaitsForAny(k, k.cur, S)
  PROVE  ComesBack(k, MultiPended(k, S))
<1> DEFINE t == k.cur
           c == k.tcb[t]
           p == c.prio
           ended == c.pend \in {"OK", "ABORT"} /\ c.event # Null
           S1 == IF ended THEN {} ELSE S
           event == Delisted(k.event, S1, p)
           d == [Ended(c) EXCEPT !.msg = Null]
           k1 == IF ended THEN k ELSE OS_EventTaskRemoveMulti(k, t, S)
           j == [EndsWait(k1, t) EXCEPT !.tcb[t].msg = Null]
           r == MultiPended(k, S)
<1>1. /\ k \in Kernel /\ t \in Tcb /\ c \in TcbType /\ S \in SUBSET Ecb /\ p \in Prio
      /\ c.pend \in {"OK", "TO", "ABORT"}
  BY Fields DEF Sound, WaitsForAny
<1>2. /\ c.dly = 0 /\ c.node = NoNode /\ Groups(k, t) = {}
      /\ Lists(k, t) = S1
      /\ c.event # Null => c.event \in S /\ k.event[c.event].type \in EventTypes
  BY <1>1 DEF WaitsForAny
<1>3. j = Put(k, k.rdy, [k.tcb EXCEPT ![t] = d], IF ended THEN k.event ELSE event,
              k.flag, k.queue)
  <2>1. CASE ended
    <3>1. j = [k EXCEPT !.tcb = [k.tcb EXCEPT ![t] = d]]
      BY <1>1, <2>1, Sets DEF EndsWait, Kernel
    <3> QED
      BY <1>1, <2>1, <3>1 DEF Kernel, Put
  <2>2. CASE ~ended
    <3>1. j = [k EXCEPT !.event = event, !.tcb = [k.tcb EXCEPT ![t] = d]]
      BY <1>1, <2>2, Sets DEF EndsWait, OS_EventTaskRemoveMulti, Kernel
    <3> QED
      BY <1>1, <2>2, <3>1 DEF Kernel, Put
  <2> QED
    BY <2>1, <2>2
<1>4. WasEnded(c, d)
  BY <1>1, EndedType
<1>5. r.k = j /\ r.cont = << >>
  <2>1. k.event[c.event].type \in {"SEM", "MBOX", "Q"} \/ c.event = Null
    BY <1>2 DEF EventTypes
  <2>2. r \in {Fails(j), Gives(j, {c.msg} \ {Null})}
    BY <2>1 DEF MultiPended
  <2> HIDE DEF j, r
  <2> QED
    BY <2>2 DEF Fails, Gives, Done
<1> HIDE DEF d, j, r
<1>6. /\ event \in [Ecb -> EventType] /\ S1 \in SUBSET Ecb
      /\ \A f \in Ecb : f \notin S1 => event[f] = k.event[f]
      /\ \A f \in S1 : event[f] = [k.event[f] EXCEPT !.wait = ClearBit(@, p)]
  <2>1. S1 \in SUBSET Ecb
    BY <1>1
  <2> HIDE DEF S1
  <2> QED
    BY <2>1, ClearedEvents
<1> DEFINE ev == IF ended THEN k.event ELSE event
<1>7. /\ ev \in [Ecb -> EventType]
      /\ \A f \in Ecb : f \notin S1 => ev[f] = k.event[f]
      /\ \A f \in S1 : ev[f] = [k.event[f] EXCEPT !.wait = ClearBit(@, p)]
  <2>1. k.event \in [Ecb -> EventType]
    BY <1>1, Sets
  <2>2. ended => S1 = {}
    OBVIOUS
  <2> HIDE DEF event, S1, ended
  <2> QED
    BY <1>6, <2>1, <2>2
<1>8. j.rdy = k.rdy
  BY <1>1, <1>3, PutFields
<1> HIDE DEF event, S1, ended, ev
<1>9. j = Put(k, k.rdy, [k.tcb EXCEPT ![t] = d], ev, k.flag, k.queue)
  BY <1>3 DEF ev
<1>10. Finishes(k, j, S1)
  BY <1>4, <1>6, <1>7, <1>9, FinishesIs
<1>11. Orderly(k, j, {t}) /\ WaitsForNothing(j, t)
  BY <1>2, <1>6, <1>10, FinishesBack
<1> QED
  BY <1>5, <1>8, <1>11 DEF ComesBack, r

-----------------------------------------------------------------------------
(* Objects that are created.                                               *)

(* A free list without its head, and with one element more.                *)
LEMMA TailOnce ==
  ASSUME NEW X, NEW s \in Seq(X), s # << >>, Once(s)
  PROVE  /\ Tail(s) \in Seq(X) /\ Head(s) \in X /\ Once(Tail(s))
         /\ Len(Tail(s)) = Len(s) - 1 /\ Len(s) \in Nat
         /\ \E i \in DOMAIN s : s[i] = Head(s)
         /\ \A i \in DOMAIN Tail(s) :
              Tail(s)[i] # Head(s) /\ \E n \in DOMAIN s : Tail(s)[i] = s[n]
<1>1. /\ Len(s) \in Nat /\ Len(s) > 0 /\ DOMAIN s = 1 .. Len(s)
      /\ Tail(s) \in Seq(X) /\ Head(s) \in X /\ Len(Tail(s)) = Len(s) - 1
      /\ DOMAIN Tail(s) = 1 .. Len(s) - 1
      /\ \A i \in 1 .. Len(s) - 1 : Tail(s)[i] = s[i + 1]
      /\ Head(s) = s[1]
  OBVIOUS
<1>2. \A i \in 1 .. Len(s) - 1 : i + 1 \in 1 .. Len(s) /\ i + 1 # 1
  BY <1>1
<1>3. 1 \in 1 .. Len(s)
  BY <1>1
<1>4. \A i, n \in 1 .. Len(s) - 1 : i + 1 = n + 1 => i = n
  BY <1>1
<1>5. Once(Tail(s))
  BY <1>1, <1>2, <1>4 DEF Once
<1>6. \A i \in DOMAIN Tail(s) :
        Tail(s)[i] # Head(s) /\ \E n \in DOMAIN s : Tail(s)[i] = s[n]
  BY <1>1, <1>2, <1>3 DEF Once
<1> QED
  BY <1>1, <1>3, <1>5, <1>6

LEMMA PushOnce ==
  ASSUME NEW X, NEW s \in Seq(X), Once(s), NEW x \in X, \A i \in DOMAIN s : s[i] # x
  PROVE  LET p == << x >> \o s IN
         /\ p \in Seq(X) /\ Once(p) /\ Len(p) = Len(s) + 1 /\ Len(s) \in Nat
         /\ \A i \in DOMAIN p : p[i] = x \/ \E n \in DOMAIN s : p[i] = s[n]
<1> DEFINE p == << x >> \o s
<1>1. /\ Len(s) \in Nat /\ DOMAIN s = 1 .. Len(s)
      /\ p \in Seq(X) /\ Len(p) = Len(s) + 1 /\ DOMAIN p = 1 .. Len(s) + 1
      /\ p[1] = x
      /\ \A i \in 2 .. Len(s) + 1 : p[i] = s[i - 1]
  OBVIOUS
<1> HIDE DEF p
<1>2. \A i \in 1 .. Len(s) + 1 : i = 1 \/ (i \in 2 .. Len(s) + 1 /\ i - 1 \in 1 .. Len(s))
  BY <1>1
<1>3. \A i, n \in 2 .. Len(s) + 1 : i - 1 = n - 1 => i = n
  BY <1>1
<1>4. Once(p)
  <2>1. \A i \in 2 .. Len(s) + 1 : i - 1 \in DOMAIN s /\ p[i] = s[i - 1] /\ p[i] # x
    <3>1. \A i \in 2 .. Len(s) + 1 : i - 1 \in 1 .. Len(s)
      BY <1>1
    <3> QED
      BY <1>1, <3>1
  <2>2. \A i, n \in 2 .. Len(s) + 1 : p[i] = p[n] => i = n
    BY <1>3, <2>1 DEF Once
  <2> QED
    BY <1>1, <1>2, <2>1, <2>2 DEF Once
<1>5. \A i \in DOMAIN p : p[i] = x \/ \E n \in DOMAIN s : p[i] = s[n]
  BY <1>1, <1>2
<1> QED
  BY <1>1, <1>4, <1>5 DEF p

(* The tasks and the ready list are as they were; what is new was not in   *)
(* use and nobody waits for it.                                            *)
SameTasks(k, j) ==
    /\ j.lock = k.lock /\ j.cur = k.cur /\ j.prioCur = k.prioCur
    /\ j.prioTbl = k.prioTbl /\ j.list = k.list /\ j.freeTcb = k.freeTcb
    /\ j.tcb = k.tcb /\ j.rdy = k.rdy

Adds(k, j) ==
    /\ Sound(j) /\ SameTasks(k, j) /\ KeepsTypes(k, j)
    /\ Undisturbed(k, j, k.list)

NewEvent(c, d) == c.type = "UNUSED" /\ d.wait = NoBits
NewGroup(c, d) == c.type = "UNUSED" /\ d.wait = {}

LEMMA AddsOrderly ==
  ASSUME NEW k, Sound(k), NEW j \in Kernel, SameTasks(k, j), PoolsOK(j),
         \A e \in Ecb : j.event[e] = k.event[e] \/ NewEvent(k.event[e], j.event[e]),
         \A g \in Fgp : j.flag[g] = k.flag[g] \/ NewGroup(k.flag[g], j.flag[g]),
         \A e \in Ecb : k.event[e].type = "Q" =>
            j.queue[k.event[e].ptr] = k.queue[k.event[e].ptr]
  PROVE  Adds(k, j)
<1>1. k \in Kernel /\ PriosOK(k) /\ BitsOK(k) /\ PoolsOK(k) /\ ServedOK(k)
  BY DEF Sound
<1>2. /\ j.lock = k.lock /\ j.cur = k.cur /\ j.prioCur = k.prioCur
      /\ j.prioTbl = k.prioTbl /\ j.list = k.list /\ j.freeTcb = k.freeTcb
      /\ j.tcb = k.tcb /\ j.rdy = k.rdy
  BY DEF SameTasks
<1>3. \A e \in Ecb : /\ Bits(j.event[e].wait) = Bits(k.event[e].wait)
                     /\ Consistent(j.event[e].wait)
                     /\ k.event[e].type # "UNUSED" => j.event[e] = k.event[e]
                     /\ j.event[e] # k.event[e] => Bits(j.event[e].wait) = {}
  BY <1>1, NoBitsEmpty DEF BitsOK, PoolsOK, NewEvent
<1>4. \A g \in Fgp : /\ j.flag[g].wait = k.flag[g].wait
                     /\ k.flag[g].type # "UNUSED" => j.flag[g] = k.flag[g]
                     /\ j.flag[g] # k.flag[g] => j.flag[g].wait = {}
  BY <1>1 DEF PoolsOK, NewGroup
<1>5. PriosOK(j)
  BY <1>1, <1>2 DEF PriosOK
<1>6. BitsOK(j)
  BY <1>1, <1>2, <1>3, <1>4 DEF BitsOK
<1>7. ServedOK(j)
  <2>1. ASSUME NEW e \in Ecb
        PROVE  EventServed(j, e)
    <3>1. CASE j.event[e] = k.event[e]
      BY <1>1, <3>1 DEF ServedOK, EventServed, Exhausted, TheRing
    <3>2. CASE j.event[e] # k.event[e]
      BY <1>3, <3>2 DEF EventServed
    <3> QED
      BY <3>1, <3>2
  <2>2. ASSUME NEW g \in Fgp
        PROVE  GroupServed(j, g)
    <3>1. CASE j.flag[g] = k.flag[g]
      BY <1>1, <1>2, <3>1 DEF ServedOK, GroupServed
    <3>2. CASE j.flag[g] # k.flag[g]
      BY <1>4, <3>2 DEF GroupServed
    <3> QED
      BY <3>1, <3>2
  <2> QED
    BY <2>1, <2>2 DEF ServedOK
<1>8. KeepsTypes(k, j)
  BY <1>3, <1>4 DEF KeepsTypes
<1>9. ASSUME NEW u \in k.list
      PROVE  Undisturbed(k, j, {u})
  <2>1. /\ IsReady(j, u) <=> IsReady(k, u)
        /\ Lists(j, u) = Lists(k, u) /\ Groups(j, u) = Groups(k, u)
    BY <1>2, <1>3, <1>4 DEF IsReady, Lists, Groups
  <2> QED
    BY <1>2, <1>8, <2>1, Frame
<1>10. Undisturbed(k, j, k.list)
  BY <1>9 DEF Undisturbed
<1> QED
  BY <1>5, <1>6, <1>7, <1>8, <1>10 DEF Adds, Sound

(* The kernel with other objects and pools.                                *)
PutPools(k, event, freeEvent, flag, freeFlag, queue, freeQ) ==
    [k EXCEPT !.event = event, !.freeEvent = freeEvent, !.flag = flag,
              !.freeFlag = freeFlag, !.queue = queue, !.freeQ = freeQ]

PoolTypes(event, freeEvent, flag, freeFlag, queue, freeQ) ==
    /\ event \in [Ecb -> EventType] /\ freeEvent \in Seq(Ecb)
    /\ flag \in [Fgp -> GroupType] /\ freeFlag \in Seq(Fgp)
    /\ queue \in [Qcb -> RingType] /\ freeQ \in Seq(Qcb)

PoolsAre(k, j, event, freeEvent, flag, freeFlag, queue, freeQ) ==
    /\ j \in Kernel /\ SameTasks(k, j)
    /\ j.event = event /\ j.freeEvent = freeEvent /\ j.flag = flag
    /\ j.freeFlag = freeFlag /\ j.queue = queue /\ j.freeQ = freeQ

LEMMA PutPoolsKernel ==
  ASSUME NEW k \in Kernel, NEW event, NEW freeEvent, NEW flag, NEW freeFlag,
         NEW queue, NEW freeQ,
         PoolTypes(event, freeEvent, flag, freeFlag, queue, freeQ)
  PROVE  PoolsAre(k, PutPools(k, event, freeEvent, flag, freeFlag, queue, freeQ),
                  event, freeEvent, flag, freeFlag, queue, freeQ)
  BY DEF PutPools, Kernel, SameTasks, PoolTypes, PoolsAre

LEMMA Pools ==
  ASSUME NEW k, Sound(k)
  PROVE  /\ k \in Kernel
         /\ k.freeEvent \in Seq(Ecb) /\ k.freeFlag \in Seq(Fgp) /\ k.freeQ \in Seq(Qcb)
         /\ k.event \in [Ecb -> EventType] /\ k.flag \in [Fgp -> GroupType]
         /\ k.queue \in [Qcb -> RingType]
         /\ Once(k.freeEvent) /\ Once(k.freeFlag) /\ Once(k.freeQ)
         /\ \A i \in DOMAIN k.freeEvent : k.event[k.freeEvent[i]].type = "UNUSED"
         /\ \A i \in DOMAIN k.freeFlag : k.flag[k.freeFlag[i]].type = "UNUSED"
         /\ \A e \in Ecb : k.event[e].type = "UNUSED" => Bits(k.event[e].wait) = {}
         /\ \A g \in Fgp : k.flag[g].type = "UNUSED" => k.flag[g].wait = {}
         /\ \A e \in Ecb : k.event[e].type = "Q" =>
              /\ k.event[e].ptr \in Qcb
              /\ \A i \in DOMAIN k.freeQ : k.freeQ[i] # k.event[e].ptr
              /\ \A f \in Ecb : k.event[f].type = "Q" /\ k.event[f].ptr = k.event[e].ptr =>
                   e = f
  BY DEF Sound, Kernel, PoolsOK

(* The control blocks in limbo stay there, but for those of E.             *)
Spares(k, j, E) == \A e \in Ecb \ E : Limbo(k, e) => Limbo(j, e)

MakesEvent(k, r, type) ==
    /\ Adds(k, r.k) /\ Spares(k, r.k, {}) /\ r.cont = << >>
    /\ r.loc \in Ecb \cup {Null}
    /\ r.ok /\ type # "Q" => r.loc \in Ecb /\ r.k.event[r.loc].type = type
    /\ k.freeEvent # << >> => r.ok \/ type = "Q"
    /\ r.k.freeFlag = k.freeFlag
    /\ Len(r.k.freeEvent) >= Len(k.freeEvent) - 1

LEMMA AddsNothing ==
  ASSUME NEW k, Sound(k), NEW type, k.freeEvent = << >>
  PROVE  Adds(k, k) /\ MakesEvent(k, Fails(k), type)
<1>1. Adds(k, k)
  BY DEF Adds, SameTasks, KeepsTypes, Undisturbed
<1>2. Len(k.freeEvent) >= Len(k.freeEvent) - 1
  OBVIOUS
<1> QED
  BY <1>1, <1>2 DEF MakesEvent, Spares, Fails, Done

LEMMA TakeEventMakes ==
  ASSUME NEW k, Sound(k), k.freeEvent # << >>, NEW type \in {"SEM", "MBOX"},
         NEW cnt \in Nat, NEW ptr \in Int
  PROVE  MakesEvent(k, Returns(TakeEvent(k, type, cnt, 0, ptr), Head(k.freeEvent)), type)
<1> DEFINE e == Head(k.freeEvent)
           new == [type |-> type, cnt |-> cnt, pip |-> 0, ptr |-> ptr, wait |-> NoBits]
           event == [k.event EXCEPT ![e] = new]
           j == TakeEvent(k, type, cnt, 0, ptr)
<1>1. /\ Tail(k.freeEvent) \in Seq(Ecb) /\ e \in Ecb /\ Once(Tail(k.freeEvent))
      /\ Len(Tail(k.freeEvent)) = Len(k.freeEvent) - 1 /\ Len(k.freeEvent) \in Nat
      /\ \E i \in DOMAIN k.freeEvent : k.freeEvent[i] = e
      /\ \A i \in DOMAIN Tail(k.freeEvent) :
           /\ Tail(k.freeEvent)[i] # e
           /\ \E n \in DOMAIN k.freeEvent : Tail(k.freeEvent)[i] = k.freeEvent[n]
  BY Pools, TailOnce
<1>2. k.event[e].type = "UNUSED"
  BY <1>1, Pools
<1>3. new \in EventType /\ new.type = type /\ new.wait = NoBits
  <2>1. NoBits \in Bitmap
    BY NoBitsEmpty DEF Consistent
  <2> QED
    BY <2>1 DEF EventType, EventTypes
<1>0. /\ k.event \in [Ecb -> EventType] /\ k.flag \in [Fgp -> GroupType]
      /\ k.freeFlag \in Seq(Fgp) /\ k.queue \in [Qcb -> RingType]
      /\ k.freeQ \in Seq(Qcb) /\ k \in Kernel
      /\ \A f \in Ecb : k.event[f].type = "UNUSED" => Bits(k.event[f].wait) = {}
  BY Pools
<1>4. j = PutPools(k, event, Tail(k.freeEvent), k.flag, k.freeFlag, k.queue, k.freeQ)
  BY <1>0 DEF Kernel, TakeEvent, PutPools
<1> HIDE DEF new, e
<1>5. /\ event \in [Ecb -> EventType] /\ event[e] = new
      /\ \A f \in Ecb : f # e => event[f] = k.event[f]
  BY <1>0, <1>1, <1>3
<1> HIDE DEF event, j
<1>6. /\ j \in Kernel /\ SameTasks(k, j) /\ j.event = event
      /\ j.freeEvent = Tail(k.freeEvent) /\ j.flag = k.flag
      /\ j.freeFlag = k.freeFlag /\ j.queue = k.queue /\ j.freeQ = k.freeQ
  <2>1. PoolTypes(event, Tail(k.freeEvent), k.flag, k.freeFlag, k.queue, k.freeQ)
    BY <1>0, <1>1, <1>5 DEF PoolTypes
  <2>2. PoolsAre(k, j, event, Tail(k.freeEvent), k.flag, k.freeFlag, k.queue, k.freeQ)
    BY <1>0, <1>4, <2>1, PutPoolsKernel
  <2> QED
    BY <2>2 DEF PoolsAre
<1>7. \A f \in Ecb : j.event[f] = k.event[f] \/ NewEvent(k.event[f], j.event[f])
  BY <1>2, <1>3, <1>5, <1>6 DEF NewEvent
<1>8. \A f \in Ecb : \/ f = e /\ j.event[f].type = type /\ Bits(j.event[f].wait) = {}
                     \/ f # e /\ j.event[f] = k.event[f]
  BY <1>3, <1>5, <1>6, NoBitsEmpty
<1>9. PoolsOK(j)
  <2>1. \A i \in DOMAIN j.freeEvent :
          j.event[j.freeEvent[i]].type = "UNUSED"
    <3>1. \A i \in DOMAIN k.freeEvent : k.freeEvent[i] \in Ecb
      BY Pools
    <3> QED
      BY <1>1, <1>6, <1>8, <3>1, Pools
  <2>2. \A f \in Ecb : j.event[f].type = "Q" => j.event[f] = k.event[f]
    BY <1>8
  <2>3. \A f \in Ecb : j.event[f].type = "Q" =>
         /\ j.event[f].ptr \in Qcb
         /\ \A i \in DOMAIN j.freeQ : j.freeQ[i] # j.event[f].ptr
         /\ \A h \in Ecb : j.event[h].type = "Q" /\ j.event[h].ptr = j.event[f].ptr =>
              f = h
    BY <1>6, <2>2, Pools
  <2>4. \A f \in Ecb : j.event[f].type = "UNUSED" => Bits(j.event[f].wait) = {}
    BY <1>0, <1>8
  <2>5. Once(j.freeEvent) /\ Once(j.freeQ) /\ Once(j.freeFlag)
    BY <1>1, <1>6, Pools
  <2>6. /\ \A i \in DOMAIN j.freeFlag : j.flag[j.freeFlag[i]].type = "UNUSED"
        /\ \A g \in Fgp : j.flag[g].type = "UNUSED" => j.flag[g].wait = {}
    BY <1>6, Pools
  <2> QED
    BY <2>1, <2>3, <2>4, <2>5, <2>6 DEF PoolsOK
<1>10. Adds(k, j)
  BY <1>6, <1>7, <1>9, AddsOrderly
<1>11. Spares(k, j, {})
  BY <1>1, <1>6, <1>8 DEF Spares, Limbo
<1>12. /\ Len(j.freeEvent) >= Len(k.freeEvent) - 1
       /\ j.event[e].type = type
  BY <1>1, <1>6, <1>8
<1> QED
  BY <1>1, <1>6, <1>10, <1>11, <1>12 DEF MakesEvent, Returns, Done, j, e

LEMMA SemCreateMakes ==
  ASSUME NEW k, Sound(k), NEW cnt \in Nat
  PROVE  MakesEvent(k, OSSemCreate(k, cnt), "SEM")
<1>1. CASE k.freeEvent = << >>
  BY <1>1, AddsNothing DEF OSSemCreate
<1>2. CASE k.freeEvent # << >>
  <2>1. Null \in Int
    BY DEF Null
  <2>2. MakesEvent(k, Returns(TakeEvent(k, "SEM", cnt, 0, Null), Head(k.freeEvent)), "SEM")
    BY <1>2, <2>1, TakeEventMakes
  <2> QED
    BY <1>2, <2>2 DEF OSSemCreate
<1> QED
  BY <1>1, <1>2

LEMMA MboxCreateMakes ==
  ASSUME NEW k, Sound(k), NEW msg \in Int
  PROVE  MakesEvent(k, OSMboxCreate(k, msg), "MBOX")
<1>1. CASE k.freeEvent = << >>
  BY <1>1, AddsNothing DEF OSMboxCreate
<1>2. CASE k.freeEvent # << >>
  <2>1. MakesEvent(k, Returns(TakeEvent(k, "MBOX", 0, 0, msg), Head(k.freeEvent)), "MBOX")
    BY <1>2, TakeEventMakes
  <2> QED
    BY <1>2, <2>1 DEF OSMboxCreate
<1> QED
  BY <1>1, <1>2

(* One more addition.                                                      *)
LEMMA AddsThen ==
  ASSUME NEW k, NEW i, NEW j, Adds(k, i), Adds(i, j)
  PROVE  Adds(k, j)
<1>1. SameTasks(k, j)
  BY DEF Adds, SameTasks
<1>2. KeepsTypes(k, j)
  BY DEF Adds, KeepsTypes
<1>3. i.list = k.list
  BY DEF Adds, SameTasks
<1>4. Undisturbed(k, j, k.list)
  BY <1>3 DEF Adds, Undisturbed
<1> QED
  BY <1>1, <1>2, <1>4 DEF Adds

(* Only the pool of event control blocks changes.                          *)
LEMMA PoolChanges ==
  ASSUME NEW k, Sound(k), NEW j \in Kernel, SameTasks(k, j),
         j.event = k.event, j.flag = k.flag, j.queue = k.queue,
         j.freeFlag = k.freeFlag, j.freeQ = k.freeQ, Once(j.freeEvent),
         \A i \in DOMAIN j.freeEvent : k.event[j.freeEvent[i]].type = "UNUSED"
  PROVE  Adds(k, j)
<1>1. PoolsOK(j)
  BY DEF PoolsOK, Sound
<1>2. \A e \in Ecb : j.event[e] = k.event[e] \/ NewEvent(k.event[e], j.event[e])
  OBVIOUS
<1>3. \A g \in Fgp : j.flag[g] = k.flag[g] \/ NewGroup(k.flag[g], j.flag[g])
  OBVIOUS
<1>4. \A e \in Ecb : k.event[e].type = "Q" =>
          j.queue[k.event[e].ptr] = k.queue[k.event[e].ptr]
  OBVIOUS
<1> QED
  BY <1>1, <1>2, <1>3, <1>4, AddsOrderly

(* A queue's control block is taken from the pool.                         *)
TakesBlock(k, r) ==
    /\ Adds(k, r.k) /\ Spares(k, r.k, {}) /\ r.loc \in Ecb
    /\ Limbo(r.k, r.loc) /\ ~Limbo(k, r.loc)
    /\ r.ok /\ r.cont = << "QCreateRing" >> /\ r.got = {}
    /\ r.k.freeFlag = k.freeFlag /\ Len(r.k.freeEvent) = Len(k.freeEvent) - 1

LEMMA QCreateTakes ==
  ASSUME NEW k, Sound(k), k.freeEvent # << >>
  PROVE  TakesBlock(k, OSQCreate(k))
<1> DEFINE e == Head(k.freeEvent)
           free == Tail(k.freeEvent)
           j == PutPools(k, k.event, free, k.flag, k.freeFlag, k.queue, k.freeQ)
<1>0. /\ k.event \in [Ecb -> EventType] /\ k.flag \in [Fgp -> GroupType]
      /\ k.freeFlag \in Seq(Fgp) /\ k.queue \in [Qcb -> RingType]
      /\ k.freeQ \in Seq(Qcb) /\ k \in Kernel
      /\ k.freeEvent \in Seq(Ecb) /\ Once(k.freeEvent)
      /\ \A i \in DOMAIN k.freeEvent : k.event[k.freeEvent[i]].type = "UNUSED"
  BY Pools
<1>1. /\ free \in Seq(Ecb) /\ e \in Ecb /\ Once(free)
      /\ Len(free) = Len(k.freeEvent) - 1
      /\ \E i \in DOMAIN k.freeEvent : k.freeEvent[i] = e
      /\ \A i \in DOMAIN free :
           /\ free[i] # e
           /\ \E n \in DOMAIN k.freeEvent : free[i] = k.freeEvent[n]
  BY <1>0, TailOnce
<1>2. OSQCreate(k) = [Returns(j, e) EXCEPT !.cont = << "QCreateRing" >>]
  <2>1. [k EXCEPT !.freeEvent = free] = j
    BY <1>0 DEF Kernel, PutPools
  <2> QED
    BY <2>1 DEF OSQCreate
<1> HIDE DEF j, free, e
<1>3. /\ j \in Kernel /\ SameTasks(k, j) /\ j.event = k.event /\ j.freeEvent = free
      /\ j.flag = k.flag /\ j.freeFlag = k.freeFlag /\ j.queue = k.queue
      /\ j.freeQ = k.freeQ
  <2>1. PoolTypes(k.event, free, k.flag, k.freeFlag, k.queue, k.freeQ)
    BY <1>0, <1>1 DEF PoolTypes
  <2>2. PoolsAre(k, j, k.event, free, k.flag, k.freeFlag, k.queue, k.freeQ)
    BY <1>0, <2>1, PutPoolsKernel DEF j
  <2> QED
    BY <2>2 DEF PoolsAre
<1>4. \A i \in DOMAIN free : k.event[free[i]].type = "UNUSED"
  BY <1>0, <1>1
<1>5. Adds(k, j)
  BY <1>1, <1>3, <1>4, PoolChanges
<1>6. Spares(k, j, {}) /\ Limbo(j, e) /\ ~Limbo(k, e)
  BY <1>0, <1>1, <1>3 DEF Spares, Limbo
<1> QED
  BY <1>1, <1>2, <1>3, <1>5, <1>6 DEF TakesBlock, Returns, Done

(* It becomes a queue with a ring of its own, or goes back to the pool.    *)
MakesRing(k, r, e) ==
    /\ Adds(k, r.k) /\ Spares(k, r.k, {e}) /\ r.cont = << >>
    /\ r.loc \in Ecb \cup {Null} /\ r.got = {}
    /\ r.k.freeFlag = k.freeFlag /\ Len(r.k.freeEvent) >= Len(k.freeEvent)

LEMMA NoRingLeft ==
  ASSUME NEW k, Sound(k), NEW e, Limbo(k, e), k.freeQ = << >>
  PROVE  MakesRing(k, QCreateRing(k, e), e)
<1> DEFINE free == << e >> \o k.freeEvent
           j == PutPools(k, k.event, free, k.flag, k.freeFlag, k.queue, k.freeQ)
<1>0. /\ k.event \in [Ecb -> EventType] /\ k.flag \in [Fgp -> GroupType]
      /\ k.freeFlag \in Seq(Fgp) /\ k.queue \in [Qcb -> RingType]
      /\ k.freeQ \in Seq(Qcb) /\ k \in Kernel
      /\ k.freeEvent \in Seq(Ecb) /\ Once(k.freeEvent)
      /\ \A i \in DOMAIN k.freeEvent : k.event[k.freeEvent[i]].type = "UNUSED"
  BY Pools
<1>1. /\ free \in Seq(Ecb) /\ Once(free) /\ Len(free) = Len(k.freeEvent) + 1
      /\ Len(k.freeEvent) \in Nat
      /\ \A i \in DOMAIN free : free[i] = e \/ \E n \in DOMAIN k.freeEvent :
                                                 free[i] = k.freeEvent[n]
  BY <1>0, PushOnce DEF Limbo
<1>2. QCreateRing(k, e) = Fails(j)
  <2>1. [k EXCEPT !.freeEvent = free] = j
    BY <1>0 DEF Kernel, PutPools
  <2> QED
    BY <2>1 DEF QCreateRing
<1> HIDE DEF j, free
<1>3. /\ j \in Kernel /\ SameTasks(k, j) /\ j.event = k.event /\ j.freeEvent = free
      /\ j.flag = k.flag /\ j.freeFlag = k.freeFlag /\ j.queue = k.queue
      /\ j.freeQ = k.freeQ
  <2>1. PoolTypes(k.event, free, k.flag, k.freeFlag, k.queue, k.freeQ)
    BY <1>0, <1>1 DEF PoolTypes
  <2>2. PoolsAre(k, j, k.event, free, k.flag, k.freeFlag, k.queue, k.freeQ)
    BY <1>0, <2>1, PutPoolsKernel DEF j
  <2> QED
    BY <2>2 DEF PoolsAre
<1>4. \A i \in DOMAIN free : k.event[free[i]].type = "UNUSED"
  BY <1>0, <1>1 DEF Limbo
<1>5. Adds(k, j)
  BY <1>1, <1>3, <1>4, PoolChanges
<1>6. Spares(k, j, {e})
  BY <1>0, <1>1, <1>3 DEF Spares, Limbo
<1>7. Len(j.freeEvent) >= Len(k.freeEvent)
  BY <1>1, <1>3
<1> QED
  BY <1>2, <1>3, <1>5, <1>6, <1>7 DEF MakesRing, Fails, Done

LEMMA NewRingType == NewRing(QSize, Null) \in RingType
<1>1. QSize \in Nat /\ QSize > 0 /\ Null \in Int
  BY QAssumption DEF Null
<1> QED
  BY <1>1 DEF NewRing, RingType

LEMMA RingLeft ==
  ASSUME NEW k, Sound(k), NEW e, Limbo(k, e), k.freeQ # << >>
  PROVE  MakesRing(k, QCreateRing(k, e), e)
<1> DEFINE q == Head(k.freeQ)
           free == Tail(k.freeQ)
           new == [type |-> "Q", cnt |-> 0, pip |-> 0, ptr |-> q, wait |-> NoBits]
           ring == NewRing(QSize, Null)
           event == [k.event EXCEPT ![e] = new]
           queue == [k.queue EXCEPT ![q] = ring]
           j == PutPools(k, event, k.freeEvent, k.flag, k.freeFlag, queue, free)
<1>0. /\ k.event \in [Ecb -> EventType] /\ k.flag \in [Fgp -> GroupType]
      /\ k.freeFlag \in Seq(Fgp) /\ k.queue \in [Qcb -> RingType]
      /\ k.freeQ \in Seq(Qcb) /\ k \in Kernel /\ Once(k.freeQ)
      /\ k.freeEvent \in Seq(Ecb) /\ Once(k.freeEvent)
      /\ \A i \in DOMAIN k.freeEvent : k.event[k.freeEvent[i]].type = "UNUSED"
      /\ e \in Ecb
  BY Pools DEF Limbo
<1>1. /\ free \in Seq(Qcb) /\ q \in Qcb /\ Once(free)
      /\ \E i \in DOMAIN k.freeQ : k.freeQ[i] = q
      /\ \A i \in DOMAIN free :
           /\ free[i] # q
           /\ \E n \in DOMAIN k.freeQ : free[i] = k.freeQ[n]
  BY <1>0, TailOnce
<1>2. QCreateRing(k, e) = Returns(j, e)
  <2>1. [k EXCEPT !.freeQ = free, !.queue[q] = ring, !.event[e] = new] = j
    BY <1>0 DEF Kernel, PutPools
  <2> QED
    BY <2>1 DEF QCreateRing
<1>3. new \in EventType /\ new.type = "Q" /\ new.ptr = q /\ new.wait = NoBits
  <2>1. NoBits \in Bitmap
    BY NoBitsEmpty DEF Consistent
  <2>2. q \in Int
    BY <1>1 DEF Qcb
  <2> QED
    BY <2>1, <2>2 DEF EventType, EventTypes
<1>4. ring \in RingType
  BY NewRingType
<1> HIDE DEF new, ring, q, free
<1>5. /\ event \in [Ecb -> EventType] /\ event[e] = new
      /\ \A f \in Ecb : f # e => event[f] = k.event[f]
  BY <1>0, <1>3
<1>6. queue \in [Qcb -> RingType]
  BY <1>0, <1>1, <1>4
<1> HIDE DEF j, event, queue
<1>7. /\ j \in Kernel /\ SameTasks(k, j) /\ j.event = event
      /\ j.freeEvent = k.freeEvent /\ j.flag = k.flag /\ j.freeFlag = k.freeFlag
      /\ j.queue = queue /\ j.freeQ = free
  <2>1. PoolTypes(event, k.freeEvent, k.flag, k.freeFlag, queue, free)
    BY <1>0, <1>1, <1>5, <1>6 DEF PoolTypes
  <2>2. PoolsAre(k, j, event, k.freeEvent, k.flag, k.freeFlag, queue, free)
    BY <1>0, <2>1, PutPoolsKernel DEF j
  <2> QED
    BY <2>2 DEF PoolsAre
<1>8. k.event[e].type = "UNUSED" /\ \A i \in DOMAIN k.freeEvent : k.freeEvent[i] # e
  BY DEF Limbo
<1>9. \A f \in Ecb : j.event[f] = k.event[f] \/ NewEvent(k.event[f], j.event[f])
  BY <1>3, <1>5, <1>7, <1>8 DEF NewEvent
<1>10. \A f \in Ecb : \/ f = e /\ j.event[f].type = "Q" /\ j.event[f].ptr = q
                      \/ f # e /\ j.event[f] = k.event[f]
  BY <1>3, <1>5, <1>7
<1>11. PoolsOK(j)
  <2>0. PoolsOK(k)
    BY DEF Sound
  <2>1. \A i \in DOMAIN j.freeEvent : j.event[j.freeEvent[i]].type = "UNUSED"
    <3>1. \A i \in DOMAIN k.freeEvent : k.freeEvent[i] \in Ecb
      BY <1>0
    <3> QED
      BY <1>0, <1>7, <1>8, <1>10, <3>1
  <2>2. \A f \in Ecb : k.event[f].type = "Q" => k.event[f].ptr # q
    BY <1>1, <2>0 DEF PoolsOK
  <2>3. \A f \in Ecb : j.event[f].type = "Q" =>
         /\ j.event[f].ptr \in Qcb
         /\ \A i \in DOMAIN j.freeQ : j.freeQ[i] # j.event[f].ptr
    BY <1>1, <1>7, <1>10, <2>0 DEF PoolsOK
  <2>4. \A f, h \in Ecb : j.event[f].type = "Q" /\ j.event[h].type = "Q"
                           /\ j.event[h].ptr = j.event[f].ptr => f = h
    BY <1>10, <2>0, <2>2 DEF PoolsOK
  <2>5. \A f \in Ecb : j.event[f].type = "UNUSED" => Bits(j.event[f].wait) = {}
    BY <1>10, <2>0 DEF PoolsOK
  <2>6. Once(j.freeEvent) /\ Once(j.freeQ) /\ Once(j.freeFlag)
    BY <1>1, <1>7, <2>0 DEF PoolsOK
  <2>7. /\ \A i \in DOMAIN j.freeFlag : j.flag[j.freeFlag[i]].type = "UNUSED"
        /\ \A g \in Fgp : j.flag[g].type = "UNUSED" => j.flag[g].wait = {}
    BY <1>7, <2>0 DEF PoolsOK
  <2> QED
    BY <2>1, <2>3, <2>4, <2>5, <2>6, <2>7 DEF PoolsOK
<1>12. Adds(k, j)
  <2>1. \A f \in Ecb : k.event[f].type = "Q" =>
          j.queue[k.event[f].ptr] = k.queue[k.event[f].ptr]
    <3>1. \A f \in Ecb : k.event[f].type = "Q" => k.event[f].ptr # q
      BY <1>1 DEF PoolsOK, Sound
    <3>2. \A p \in Qcb : p # q => queue[p] = k.queue[p]
      BY <1>0 DEF queue
    <3>3. \A f \in Ecb : k.event[f].type = "Q" => k.event[f].ptr \in Qcb
      BY DEF PoolsOK, Sound
    <3> QED
      BY <1>7, <3>1, <3>2, <3>3
  <2>2. \A g \in Fgp : j.flag[g] = k.flag[g] \/ NewGroup(k.flag[g], j.flag[g])
    BY <1>7
  <2>3. j \in Kernel /\ SameTasks(k, j)
    BY <1>7
  <2> QED
    BY <1>9, <1>11, <2>1, <2>2, <2>3, AddsOrderly
<1>13. Spares(k, j, {e})
  BY <1>7, <1>10 DEF Spares, Limbo
<1>14. Len(j.freeEvent) >= Len(k.freeEvent)
  <2>1. Len(k.freeEvent) \in Nat
    BY <1>0
  <2> QED
    BY <1>7, <2>1
<1> QED
  BY <1>0, <1>2, <1>7, <1>12, <1>13, <1>14 DEF MakesRing, Returns, Done

LEMMA QCreateRingMakes ==
  ASSUME NEW k, Sound(k), NEW e, Limbo(k, e)
  PROVE  MakesRing(k, QCreateRing(k, e), e)
  BY NoRingLeft, RingLeft

(* At the start nothing comes between the two.                             *)
LEMMA QueueMakes ==
  ASSUME NEW k, Sound(k)
  PROVE  MakesEvent(k, QMade(OSQCreate(k)), "Q")
<1>1. CASE k.freeEvent = << >>
  <2>1. OSQCreate(k) = Fails(k) /\ ~Fails(k).ok
    BY <1>1 DEF OSQCreate, Fails, Done
  <2>2. QMade(OSQCreate(k)) = Fails(k)
    BY <2>1 DEF QMade
  <2> QED
    BY <1>1, <2>2, AddsNothing
<1>2. CASE k.freeEvent # << >>
  <2> DEFINE r == OSQCreate(k)
             i == r.k
             e == r.loc
             s == QCreateRing(i, e)
  <2>1. TakesBlock(k, r)
    BY <1>2, QCreateTakes
  <2>2. QMade(r) = s
    BY <2>1 DEF QMade, TakesBlock
  <2> HIDE DEF r
  <2>3. Sound(i) /\ Limbo(i, e) /\ Adds(k, i)
    BY <2>1 DEF TakesBlock, Adds
  <2> HIDE DEF i, e
  <2>4. MakesRing(i, s, e)
    BY <2>3, QCreateRingMakes
  <2> HIDE DEF s
  <2>5. Adds(k, s.k)
    BY <2>3, <2>4, AddsThen DEF MakesRing
  <2>6. Spares(k, s.k, {})
    <3>1. ~Limbo(k, e) /\ Spares(k, i, {})
      BY <2>1 DEF TakesBlock, i, e
    <3>2. Spares(i, s.k, {e})
      BY <2>4 DEF MakesRing
    <3> QED
      BY <3>1, <3>2 DEF Spares
  <2>7. i.freeFlag = k.freeFlag /\ Len(i.freeEvent) = Len(k.freeEvent) - 1
    BY <2>1 DEF TakesBlock, i
  <2>8. /\ s.k.freeFlag = k.freeFlag
        /\ Len(s.k.freeEvent) >= Len(k.freeEvent) - 1
    BY <2>4, <2>7 DEF MakesRing
  <2> QED
    BY <2>2, <2>4, <2>5, <2>6, <2>8 DEF MakesEvent, MakesRing, r
<1> QED
  BY <1>1, <1>2

MakesGroup(k, r) ==
    /\ Adds(k, r.k) /\ Spares(k, r.k, {}) /\ r.cont = << >>
    /\ r.loc \in Fgp \cup {Null}
    /\ r.ok => r.loc \in Fgp /\ r.k.flag[r.loc].type = "FLAG"
    /\ k.freeFlag # << >> => r.ok
    /\ r.k.freeEvent = k.freeEvent
    /\ Len(r.k.freeFlag) >= Len(k.freeFlag) - 1

LEMMA FlagCreateMakes ==
  ASSUME NEW k, Sound(k), NEW flags \in SUBSET FlagNames
  PROVE  MakesGroup(k, OSFlagCreate(k, flags))
<1>1. CASE k.freeFlag = << >>
  <2>1. Adds(k, k)
    BY DEF Adds, SameTasks, KeepsTypes, Undisturbed
  <2>2. Len(k.freeFlag) >= Len(k.freeFlag) - 1
    BY <1>1
  <2>3. OSFlagCreate(k, flags) = Fails(k)
    BY <1>1 DEF OSFlagCreate
  <2> QED
    BY <1>1, <2>1, <2>2, <2>3 DEF MakesGroup, Spares, Fails, Done
<1>2. CASE k.freeFlag # << >>
  <2> DEFINE g == Head(k.freeFlag)
             free == Tail(k.freeFlag)
             new == [type |-> "FLAG", flags |-> flags, wait |-> {}]
             flag == [k.flag EXCEPT ![g] = new]
             j == PutPools(k, k.event, k.freeEvent, flag, free, k.queue, k.freeQ)
  <2>0. /\ k.event \in [Ecb -> EventType] /\ k.flag \in [Fgp -> GroupType]
        /\ k.freeFlag \in Seq(Fgp) /\ k.queue \in [Qcb -> RingType]
        /\ k.freeQ \in Seq(Qcb) /\ k \in Kernel /\ Once(k.freeFlag)
        /\ k.freeEvent \in Seq(Ecb)
        /\ \A i \in DOMAIN k.freeFlag : k.flag[k.freeFlag[i]].type = "UNUSED"
        /\ \A i \in DOMAIN k.freeFlag : k.freeFlag[i] \in Fgp
    BY Pools
  <2>1. /\ free \in Seq(Fgp) /\ g \in Fgp /\ Once(free)
        /\ Len(free) = Len(k.freeFlag) - 1 /\ Len(k.freeFlag) \in Nat
        /\ \E i \in DOMAIN k.freeFlag : k.freeFlag[i] = g
        /\ \A i \in DOMAIN free :
             /\ free[i] # g
             /\ \E n \in DOMAIN k.freeFlag : free[i] = k.freeFlag[n]
    BY <1>2, <2>0, TailOnce
  <2>2. OSFlagCreate(k, flags) = Returns(j, g)
    <3>1. [k EXCEPT !.freeFlag = free, !.flag[g] = new] = j
      BY <2>0 DEF Kernel, PutPools
    <3> QED
      BY <1>2, <3>1 DEF OSFlagCreate
  <2>3. new \in GroupType /\ new.type = "FLAG" /\ new.wait = {}
    BY DEF GroupType
  <2> HIDE DEF new, g, free
  <2>4. /\ flag \in [Fgp -> GroupType] /\ flag[g] = new
        /\ \A h \in Fgp : h # g => flag[h] = k.flag[h]
    BY <2>0, <2>1, <2>3
  <2> HIDE DEF j, flag
  <2>5. /\ j \in Kernel /\ SameTasks(k, j) /\ j.event = k.event
        /\ j.freeEvent = k.freeEvent /\ j.flag = flag /\ j.freeFlag = free
        /\ j.queue = k.queue /\ j.freeQ = k.freeQ
    <3>1. PoolTypes(k.event, k.freeEvent, flag, free, k.queue, k.freeQ)
      BY <2>0, <2>1, <2>4 DEF PoolTypes
    <3>2. PoolsAre(k, j, k.event, k.freeEvent, flag, free, k.queue, k.freeQ)
      BY <2>0, <3>1, PutPoolsKernel DEF j
    <3> QED
      BY <3>2 DEF PoolsAre
  <2>6. \A h \in Fgp : \/ h = g /\ j.flag[h] = new /\ k.flag[h].type = "UNUSED"
                       \/ h # g /\ j.flag[h] = k.flag[h]
    BY <2>0, <2>1, <2>4, <2>5
  <2>7. PoolsOK(j)
    <3>0. PoolsOK(k)
      BY DEF Sound
    <3>1. \A i \in DOMAIN j.freeFlag : j.flag[j.freeFlag[i]].type = "UNUSED"
      <4>1. \A i \in DOMAIN free :
              free[i] # g /\ free[i] \in Fgp /\ k.flag[free[i]].type = "UNUSED"
        BY <2>0, <2>1
      <4> QED
        BY <2>5, <2>6, <4>1
    <3>2. \A h \in Fgp : j.flag[h].type = "UNUSED" => j.flag[h].wait = {}
      BY <2>3, <2>6, <3>0 DEF PoolsOK
    <3>3. Once(j.freeEvent) /\ Once(j.freeQ) /\ Once(j.freeFlag)
      BY <2>1, <2>5, <3>0 DEF PoolsOK
    <3>4. /\ \A i \in DOMAIN j.freeEvent : j.event[j.freeEvent[i]].type = "UNUSED"
          /\ \A e \in Ecb : j.event[e].type = "UNUSED" => Bits(j.event[e].wait) = {}
      BY <2>5, <3>0 DEF PoolsOK
    <3>5. \A e \in Ecb : j.event[e].type = "Q" =>
           /\ j.event[e].ptr \in Qcb
           /\ \A i \in DOMAIN j.freeQ : j.freeQ[i] # j.event[e].ptr
           /\ \A f \in Ecb : j.event[f].type = "Q" /\ j.event[f].ptr = j.event[e].ptr =>
                e = f
      BY <2>5, <3>0 DEF PoolsOK
    <3> QED
      BY <3>1, <3>2, <3>3, <3>4, <3>5 DEF PoolsOK
  <2>8. Adds(k, j)
    <3>1. \A h \in Fgp : j.flag[h] = k.flag[h] \/ NewGroup(k.flag[h], j.flag[h])
      BY <2>3, <2>6 DEF NewGroup
    <3>2. \A e \in Ecb : j.event[e] = k.event[e] \/ NewEvent(k.event[e], j.event[e])
      BY <2>5
    <3>3. \A e \in Ecb : k.event[e].type = "Q" =>
              j.queue[k.event[e].ptr] = k.queue[k.event[e].ptr]
      BY <2>5
    <3>4. j \in Kernel /\ SameTasks(k, j)
      BY <2>5
    <3> QED
      BY <2>7, <3>1, <3>2, <3>3, <3>4, AddsOrderly
  <2>9. Spares(k, j, {})
    BY <2>5 DEF Spares, Limbo
  <2>10. Len(j.freeFlag) >= Len(k.freeFlag) - 1
    BY <2>1, <2>5
  <2> QED
    BY <2>1, <2>2, <2>3, <2>5, <2>6, <2>8, <2>9, <2>10 DEF MakesGroup, Returns, Done
<1> QED
  BY <1>1, <1>2

LEMMA MemCreateAdds ==
  ASSUME NEW k, Sound(k)
  PROVE  LET j == OSMemCreate(k) IN
         /\ Adds(k, j) /\ Spares(k, j, {})
         /\ j.freeEvent = k.freeEvent /\ j.freeFlag = k.freeFlag
<1> DEFINE j == OSMemCreate(k)
           mem == [i \in Block |-> i]
<1>1. mem \in Seq(Block) /\ NBlocks \in Nat
  BY MemAssumption DEF Block
<1> HIDE DEF mem
<1>2. /\ j \in Kernel /\ SameTasks(k, j)
      /\ j.event = k.event /\ j.flag = k.flag /\ j.queue = k.queue
      /\ j.freeEvent = k.freeEvent /\ j.freeFlag = k.freeFlag /\ j.freeQ = k.freeQ
  <2>1. j = [k EXCEPT !.mem = mem, !.nblks = NBlocks]
    BY DEF OSMemCreate, mem
  <2> QED
    BY <1>1, <2>1 DEF Kernel, SameTasks, Sound
<1> HIDE DEF j
<1>3. /\ Once(j.freeEvent)
      /\ \A i \in DOMAIN j.freeEvent : k.event[j.freeEvent[i]].type = "UNUSED"
  BY <1>2 DEF Sound, PoolsOK
<1>4. Adds(k, j)
  BY <1>2, <1>3, PoolChanges
<1>5. Spares(k, j, {})
  BY <1>2 DEF Spares, Limbo
<1> QED
  BY <1>2, <1>4, <1>5 DEF j

-----------------------------------------------------------------------------
(* The scheduler: another task runs, and nothing else has changed.         *)

AllSame(k, j) ==
    /\ j.rdy = k.rdy /\ j.tcb = k.tcb /\ j.prioTbl = k.prioTbl
    /\ j.list = k.list /\ j.freeTcb = k.freeTcb
    /\ j.event = k.event /\ j.freeEvent = k.freeEvent
    /\ j.flag = k.flag /\ j.freeFlag = k.freeFlag
    /\ j.queue = k.queue /\ j.freeQ = k.freeQ

(* The kernel is the same but for who runs and the scheduler's lock.       *)
Switches(k, j) == Sound(j) /\ AllSame(k, j) /\ Undisturbed(k, j, k.list)

(* The task that runs is the one of highest priority that is ready.        *)
RunsHighest(j) ==
    /\ j.cur \in j.list /\ j.prioCur = j.tcb[j.cur].prio /\ IsReady(j, j.cur)
    /\ j.prioTbl[HighestPrio(j.rdy)] = j.cur

LEMMA SwitchesIs ==
  ASSUME NEW k, Sound(k), NEW j \in Kernel, AllSame(k, j)
  PROVE  Switches(k, j)
<1>1. PriosOK(k) /\ BitsOK(k) /\ PoolsOK(k) /\ ServedOK(k)
  BY DEF Sound
<1>2. PriosOK(j)
  BY <1>1 DEF PriosOK, AllSame
<1>3. BitsOK(j)
  BY <1>1 DEF BitsOK, AllSame
<1>4. PoolsOK(j)
  BY <1>1 DEF PoolsOK, AllSame
<1>5. ServedOK(j)
  BY <1>1 DEF ServedOK, EventServed, GroupServed, Exhausted, TheRing, AllSame
<1>6. ASSUME NEW u \in k.list
      PROVE  Undisturbed(k, j, {u})
  <2>1. KeepsTypes(k, j)
    BY DEF KeepsTypes, AllSame
  <2>2. /\ IsReady(j, u) <=> IsReady(k, u)
        /\ Lists(j, u) = Lists(k, u) /\ Groups(j, u) = Groups(k, u)
        /\ j.tcb[u] = k.tcb[u]
    BY DEF IsReady, Lists, Groups, AllSame
  <2> QED
    BY <2>1, <2>2, Frame
<1> QED
  BY <1>2, <1>3, <1>4, <1>5, <1>6 DEF Switches, Sound, Undisturbed

LEMMA HighestReady ==
  ASSUME NEW k, Sound(k)
  PROVE  LET p == HighestPrio(k.rdy) IN
         /\ p \in Prio /\ p \in Bits(k.rdy) /\ k.prioTbl[p] \in k.list
         /\ k.tcb[k.prioTbl[p]].prio = p
<1>1. Consistent(k.rdy) /\ Bits(k.rdy) # {}
  BY DEF Sound, BitsOK
<1>2. HighestPrio(k.rdy) \in Bits(k.rdy)
  BY <1>1, HighestIsLeast
<1> QED
  BY <1>1, <1>2, BitsTest DEF Sound, BitsOK, PriosOK

LEMMA TakesOver ==
  ASSUME NEW k, Sound(k), NEW j,
         j = [k EXCEPT !.prioCur = OS_SchedNew(k), !.cur = k.prioTbl[OS_SchedNew(k)]]
  PROVE  Switches(k, j) /\ j.lock = k.lock /\ RunsHighest(j)
<1> DEFINE p == HighestPrio(k.rdy)
<1>1. /\ p \in Prio /\ p \in Bits(k.rdy) /\ k.prioTbl[p] \in k.list
      /\ k.tcb[k.prioTbl[p]].prio = p
  BY HighestReady
<1>2. k \in Kernel /\ k.list \subseteq Tcb
  BY Fields DEF Sound
<1>3. j = [k EXCEPT !.prioCur = p, !.cur = k.prioTbl[p]]
  BY DEF OS_SchedNew
<1> HIDE DEF p
<1>4. /\ j \in Kernel /\ AllSame(k, j) /\ j.lock = k.lock
      /\ j.cur = k.prioTbl[p] /\ j.prioCur = p
  BY <1>1, <1>2, <1>3 DEF Kernel, AllSame
<1>5. Switches(k, j)
  BY <1>4, SwitchesIs
<1>6. RunsHighest(j)
  BY <1>1, <1>4 DEF RunsHighest, AllSame, IsReady, p
<1> QED
  BY <1>4, <1>5, <1>6

LEMMA SchedSwitches ==
  ASSUME NEW k, Sound(k), k.cur \in k.list, k.prioCur = k.tcb[k.cur].prio,
         NEW j, j = OS_Sched(k) \/ j = OSIntExit(k)
  PROVE  /\ Switches(k, j) /\ j.lock = k.lock
         /\ k.lock = 0 => RunsHighest(j)
         /\ k.lock # 0 => j = k
<1>1. j = IF k.lock = 0 /\ OS_SchedNew(k) # k.prioCur
          THEN [k EXCEPT !.prioCur = OS_SchedNew(k), !.cur = k.prioTbl[OS_SchedNew(k)]]
          ELSE k
  BY DEF OS_Sched, OSIntExit
<1>2. Switches(k, k)
  <2>1. k \in Kernel /\ AllSame(k, k)
    BY DEF Sound, AllSame
  <2> QED
    BY <2>1, SwitchesIs
<1>3. CASE k.lock # 0
  BY <1>1, <1>2, <1>3
<1>4. CASE k.lock = 0 /\ OS_SchedNew(k) # k.prioCur
  BY <1>1, <1>4, TakesOver
<1>5. CASE k.lock = 0 /\ OS_SchedNew(k) = k.prioCur
  <2>1. j = k
    BY <1>1, <1>5
  <2>2. k.prioTbl[k.prioCur] = k.cur
    BY DEF Sound, PriosOK
  <2>3. RunsHighest(k)
    BY <1>5, <2>2, HighestReady DEF RunsHighest, OS_SchedNew, IsReady
  <2> QED
    BY <1>2, <1>5, <2>1, <2>3
<1> QED
  BY <1>3, <1>4, <1>5

LEMMA StartSwitches ==
  ASSUME NEW k, Sound(k)
  PROVE  LET j == OSStart(k) IN
         Switches(k, j) /\ j.lock = k.lock /\ RunsHighest(j)
<1> DEFINE j == OSStart(k)
<1>1. j = [k EXCEPT !.prioCur = OS_SchedNew(k), !.cur = k.prioTbl[OS_SchedNew(k)]]
  BY DEF OSStart
<1> HIDE DEF j
<1>2. Switches(k, j) /\ j.lock = k.lock /\ RunsHighest(j)
  BY <1>1, TakesOver
<1> QED
  BY <1>2 DEF j

(* The scheduler's lock.                                                   *)
Relocks(k, r) ==
    /\ Switches(k, r.k) /\ r.k.cur = k.cur /\ r.k.prioCur = k.prioCur

LEMMA RelocksIs ==
  ASSUME NEW k, Sound(k), NEW n \in 0 .. 255, NEW j, j = [k EXCEPT !.lock = n]
  PROVE  Switches(k, j) /\ j.cur = k.cur /\ j.prioCur = k.prioCur /\ j.lock = n
<1>1. /\ j \in Kernel /\ AllSame(k, j)
      /\ j.cur = k.cur /\ j.prioCur = k.prioCur /\ j.lock = n
  BY DEF Kernel, AllSame, Sound
<1> QED
  BY <1>1, SwitchesIs

LEMMA SchedLockRelocks ==
  ASSUME NEW k, Sound(k)
  PROVE  LET r == OSSchedLock(k) IN
         Relocks(k, r) /\ r.k.lock > 0 /\ r.cont = << >>
<1> DEFINE n == IF k.lock < 255 THEN k.lock + 1 ELSE k.lock
           j == [k EXCEPT !.lock = n]
<1>1. n \in 0 .. 255 /\ n > 0
  BY Fields DEF Sound
<1>2. OSSchedLock(k) = Done(j)
  BY DEF OSSchedLock
<1> HIDE DEF n
<1>3. Switches(k, j) /\ j.cur = k.cur /\ j.prioCur = k.prioCur /\ j.lock = n
  BY <1>1, RelocksIs
<1> HIDE DEF j
<1> QED
  BY <1>1, <1>2, <1>3 DEF Relocks, Done

LEMMA SchedUnlockRelocks ==
  ASSUME NEW k, Sound(k)
  PROVE  LET r == OSSchedUnlock(k) IN
         /\ Relocks(k, r)
         /\ \/ r.k.lock = 0 /\ r.cont = << "OS_Sched" >>
            \/ r.k.lock > 0 /\ k.lock > 0 /\ r.cont = << >>
            \/ r.k = k /\ k.lock = 0 /\ r.cont = << >>
<1>0. k.lock \in 0 .. 255
  BY Fields DEF Sound
<1>1. CASE k.lock = 0
  <2>1. k \in Kernel /\ AllSame(k, k)
    BY DEF Sound, AllSame
  <2>2. Switches(k, k)
    BY <2>1, SwitchesIs
  <2> QED
    BY <1>1, <2>2 DEF OSSchedUnlock, Relocks, Done
<1>2. CASE k.lock # 0
  <2> DEFINE n == k.lock - 1
             j == [k EXCEPT !.lock = n]
  <2>1. n \in 0 .. 255 /\ k.lock > 0
    BY <1>0, <1>2
  <2>2. Switches(k, j) /\ j.cur = k.cur /\ j.prioCur = k.prioCur /\ j.lock = n
    BY <2>1, RelocksIs
  <2>3. OSSchedUnlock(k) = IF j.lock = 0 THEN Reschedules(j) ELSE Done(j)
    BY <1>2 DEF OSSchedUnlock
  <2> HIDE DEF j, n
  <2>4. CASE n = 0
    <3>1. OSSchedUnlock(k) = Reschedules(j)
      BY <2>2, <2>3, <2>4
    <3> QED
      BY <2>2, <2>4, <3>1 DEF Relocks, Reschedules, Done
  <2>5. CASE n # 0
    <3>1. OSSchedUnlock(k) = Done(j) /\ n > 0
      BY <2>1, <2>2, <2>3, <2>5
    <3> QED
      BY <2>1, <2>2, <2>5, <3>1 DEF Relocks, Done
  <2> QED
    BY <2>4, <2>5
<1> QED
  BY <1>1, <1>2

-----------------------------------------------------------------------------
(* A task is created before any task runs.                                 *)

(* In order, but for the idle task, which may not be there yet.            *)
Founded(k) ==
    /\ k \in Kernel /\ PriosOK(k) /\ PoolsOK(k) /\ ServedOK(k)
    /\ Consistent(k.rdy)
    /\ \A p \in Bits(k.rdy) : k.prioTbl[p] # Null
    /\ \A e \in Ecb : Consistent(k.event[e].wait)
    /\ \A e \in Ecb : \A p \in Bits(k.event[e].wait) : k.prioTbl[p] # Null
    /\ \A g \in Fgp : k.flag[g].wait \subseteq k.list

LEMMA SoundIs ==
  ASSUME NEW k
  PROVE  Sound(k) <=> /\ Founded(k)
                      /\ k.prioTbl[IdlePrio] # Null /\ IdlePrio \in Bits(k.rdy)
  BY DEF Sound, Founded, BitsOK

(* Task t begins, with nothing to wait for.                                *)
Launches(k, j, t, prio) ==
    /\ Founded(j)
    /\ j.lock = k.lock /\ j.cur = k.cur /\ j.prioCur = k.prioCur
    /\ j.event = k.event /\ j.freeEvent = k.freeEvent
    /\ j.flag = k.flag /\ j.freeFlag = k.freeFlag
    /\ t \in Tcb \ k.list /\ j.list = k.list \cup {t} /\ j.freeTcb = Tail(k.freeTcb)
    /\ j.prioTbl = [k.prioTbl EXCEPT ![prio] = t]
    /\ Bits(j.rdy) = Bits(k.rdy) \cup {prio}
    /\ j.tcb[t].prio = prio /\ \A u \in Tcb : u # t => j.tcb[u] = k.tcb[u]
    /\ WaitsForNothing(j, t) /\ Undisturbed(k, j, k.list)

LEMMA NewTcbType ==
  ASSUME NEW prio \in Prio, NEW flags \in SUBSET FlagNames
  PROVE  LET c == [NewTcb EXCEPT !.prio = prio, !.flagsRdy = flags] IN
         /\ c \in TcbType /\ c.prio = prio /\ c.stat = {} /\ c.pend = "OK" /\ c.dly = 0
         /\ c.event = Null /\ c.multi = {} /\ c.node = NoNode
<1>1. NoNode \in NodeType /\ Null \in Int
  BY DEF NoNode, NodeType, Null
<1> QED
  BY <1>1 DEF NewTcb, TcbType

PutTasks(k, freeTcb, tcb, prioTbl, list, rdy) ==
    [k EXCEPT !.freeTcb = freeTcb, !.tcb = tcb, !.prioTbl = prioTbl, !.list = list,
              !.rdy = rdy]

LEMMA PutTasksKernel ==
  ASSUME NEW k \in Kernel, NEW freeTcb \in Seq(Tcb), NEW tcb \in [Tcb -> TcbType],
         NEW prioTbl \in [Prio -> Tcb \cup {Null}], NEW list \in SUBSET Tcb,
         NEW rdy \in Bitmap
  PROVE  PutTasks(k, freeTcb, tcb, prioTbl, list, rdy) \in Kernel
  BY DEF PutTasks, Kernel

LEMMA NewTaskLaunches ==
  ASSUME NEW k, Founded(k), NEW prio \in Prio, k.prioTbl[prio] = Null,
         k.freeTcb # << >>
  PROVE  Launches(k, NewTask(k, prio), Head(k.freeTcb), prio)
<1> DEFINE t == Head(k.freeTcb)
           free == Tail(k.freeTcb)
           flags == k.tcb[t].flagsRdy
           c == [NewTcb EXCEPT !.prio = prio, !.flagsRdy = flags]
           tcb == [k.tcb EXCEPT ![t] = c]
           prioTbl == [k.prioTbl EXCEPT ![prio] = t]
           list == k.list \cup {t}
           rdy == SetBit(k.rdy, prio)
           j == NewTask(k, prio)
<1>0. /\ k \in Kernel /\ k.freeTcb \in Seq(Tcb) /\ Once(k.freeTcb)
      /\ k.tcb \in [Tcb -> TcbType] /\ k.prioTbl \in [Prio -> Tcb \cup {Null}]
      /\ k.list \subseteq Tcb
      /\ \A i \in DOMAIN k.freeTcb : k.freeTcb[i] \notin k.list
  BY DEF Founded, Kernel, PriosOK
<1>1. /\ free \in Seq(Tcb) /\ t \in Tcb /\ Once(free) /\ t \notin k.list
      /\ \A i \in DOMAIN free : free[i] # t /\ free[i] \notin k.list
  BY <1>0, TailOnce
<1>2. /\ c \in TcbType /\ c.prio = prio /\ c.stat = {} /\ c.pend = "OK" /\ c.dly = 0
      /\ c.event = Null /\ c.multi = {} /\ c.node = NoNode
  <2>1. flags \in SUBSET FlagNames
    BY <1>0, <1>1 DEF TcbType
  <2> HIDE DEF flags
  <2> QED
    BY <2>1, NewTcbType
<1>3. j = [k EXCEPT !.freeTcb = free, !.tcb = tcb, !.prioTbl = prioTbl,
                    !.list = list, !.rdy = rdy]
  BY <1>0 DEF NewTask, OS_TCBInitLink, OS_TCBInitTake, Kernel
<1> HIDE DEF t, free, c
<1>4. /\ tcb \in [Tcb -> TcbType] /\ tcb[t] = c
      /\ \A u \in Tcb : u # t => tcb[u] = k.tcb[u]
  BY <1>0, <1>1, <1>2
<1>5. /\ prioTbl \in [Prio -> Tcb \cup {Null}] /\ prioTbl[prio] = t
      /\ \A p \in Prio : p # prio => prioTbl[p] = k.prioTbl[p]
  BY <1>0, <1>1
<1>6. Consistent(rdy) /\ Bits(rdy) = Bits(k.rdy) \cup {prio} /\ rdy \in Bitmap
  <2>1. Consistent(rdy) /\ Bits(rdy) = Bits(k.rdy) \cup {prio}
    BY SetBitAdds DEF Founded
  <2> QED
    BY <2>1 DEF Consistent
<1>7. list \subseteq Tcb
  BY <1>0, <1>1
<1> HIDE DEF tcb, prioTbl, rdy, j, list
<1>8. /\ j \in Kernel
      /\ j.lock = k.lock /\ j.cur = k.cur /\ j.prioCur = k.prioCur
      /\ j.event = k.event /\ j.freeEvent = k.freeEvent
      /\ j.flag = k.flag /\ j.freeFlag = k.freeFlag
      /\ j.queue = k.queue /\ j.freeQ = k.freeQ
      /\ j.list = list /\ j.freeTcb = free /\ j.prioTbl = prioTbl
      /\ j.tcb = tcb /\ j.rdy = rdy
  <2>1. /\ k \in Kernel /\ free \in Seq(Tcb) /\ tcb \in [Tcb -> TcbType]
        /\ prioTbl \in [Prio -> Tcb \cup {Null}] /\ rdy \in Bitmap
        /\ list \in SUBSET Tcb
    BY <1>0, <1>1, <1>4, <1>5, <1>6, <1>7
  <2>2. j \in Kernel
    <3>1. j = PutTasks(k, free, tcb, prioTbl, list, rdy)
      BY <1>3 DEF PutTasks
    <3> HIDE DEF list
    <3> QED
      BY <2>1, <3>1, PutTasksKernel
  <2>3. /\ j.lock = k.lock /\ j.cur = k.cur /\ j.prioCur = k.prioCur
        /\ j.event = k.event /\ j.freeEvent = k.freeEvent
        /\ j.flag = k.flag /\ j.freeFlag = k.freeFlag
        /\ j.queue = k.queue /\ j.freeQ = k.freeQ
    BY <1>3, <2>1 DEF Kernel
  <2>4. /\ j.list = list /\ j.freeTcb = free /\ j.prioTbl = prioTbl
        /\ j.tcb = tcb /\ j.rdy = rdy
    BY <1>3, <2>1 DEF Kernel
  <2> QED
    BY <2>2, <2>3, <2>4
<1> USE DEF list
<1>9. t # Null
  BY <1>1 DEF Tcb, Null
<1>10. PriosOK(k) /\ PoolsOK(k) /\ ServedOK(k)
  BY DEF Founded
<1>11. \A u \in k.list : u # t /\ u \in Tcb /\ tcb[u] = k.tcb[u] /\ tcb[u].prio # prio
  <2>1. \A u \in k.list : k.prioTbl[k.tcb[u].prio] = u /\ u # Null
    BY <1>0, <1>10 DEF PriosOK, Tcb, Null
  <2> QED
    BY <1>0, <1>1, <1>4, <2>1
<1>12. PriosOK(j)
  <2>1. \A u \in j.list : j.prioTbl[j.tcb[u].prio] = u
    <3>1. \A u \in k.list : k.tcb[u].prio \in Prio /\ k.prioTbl[k.tcb[u].prio] = u
      BY <1>0, <1>10 DEF PriosOK, TcbType
    <3> QED
      BY <1>2, <1>4, <1>5, <1>8, <1>11, <3>1
  <2>2. \A p \in Prio : j.prioTbl[p] # Null =>
          j.prioTbl[p] \in j.list /\ j.tcb[j.prioTbl[p]].prio = p
    BY <1>2, <1>4, <1>5, <1>8, <1>10, <1>11 DEF PriosOK
  <2> QED
    BY <1>1, <1>8, <2>1, <2>2 DEF PriosOK
<1>13. PoolsOK(j)
  <2>1. /\ j.event = k.event /\ j.freeEvent = k.freeEvent /\ j.flag = k.flag
        /\ j.freeFlag = k.freeFlag /\ j.freeQ = k.freeQ
    BY <1>8
  <2>2. PoolsOK(k)
    BY <1>10
  <2> QED
    BY ONLY <2>1, <2>2 DEF PoolsOK
<1>14. ServedOK(j)
  <2>1. \A e \in Ecb : EventServed(j, e)
    BY <1>8, <1>10 DEF ServedOK, EventServed, Exhausted, TheRing
  <2>2. \A g \in Fgp : GroupServed(j, g)
    <3>1. \A g \in Fgp : \A u \in k.flag[g].wait : j.tcb[u] = k.tcb[u]
      BY <1>8, <1>11 DEF Founded
    <3> QED
      BY <1>8, <1>10, <3>1 DEF ServedOK, GroupServed
  <2> QED
    BY <2>1, <2>2 DEF ServedOK
<1>15. Founded(j)
  <2>1. \A p \in Bits(j.rdy) : j.prioTbl[p] # Null
    BY <1>5, <1>6, <1>8, <1>9, BitsTest DEF Founded
  <2>2. \A e \in Ecb : \A p \in Bits(j.event[e].wait) : j.prioTbl[p] # Null
    BY <1>5, <1>8, <1>9, BitsTest DEF Founded
  <2>3. \A g \in Fgp : j.flag[g].wait \subseteq j.list
    BY <1>8 DEF Founded
  <2> QED
    BY <1>6, <1>8, <1>12, <1>13, <1>14, <2>1, <2>2, <2>3 DEF Founded
<1>16. WaitsForNothing(j, t)
  <2>1. Lists(j, t) = {}
    BY <1>2, <1>4, <1>8 DEF Lists, Founded
  <2>2. Groups(j, t) = {}
    BY <1>1, <1>8 DEF Groups, Founded
  <2>3. IsReady(j, t)
    BY <1>2, <1>4, <1>6, <1>8 DEF IsReady
  <2> QED
    BY <1>2, <1>4, <1>8, <2>1, <2>2, <2>3 DEF WaitsForNothing
<1>17. Undisturbed(k, j, k.list)
  <2>1. KeepsTypes(k, j)
    BY <1>8 DEF KeepsTypes
  <2>2. ASSUME NEW u \in k.list
        PROVE  Undisturbed(k, j, {u})
    <3>1. j.tcb[u] = k.tcb[u] /\ j.tcb[u].prio # prio
      BY <1>8, <1>11
    <3>2. /\ IsReady(j, u) <=> IsReady(k, u)
          /\ Lists(j, u) = Lists(k, u) /\ Groups(j, u) = Groups(k, u)
      BY <1>6, <1>8, <3>1 DEF IsReady, Lists, Groups
    <3> QED
      BY <2>1, <3>1, <3>2, Frame
  <2> QED
    BY <2>2 DEF Undisturbed
<1>18. Launches(k, j, t, prio)
  <2>1. /\ t \in Tcb \ k.list /\ j.list = k.list \cup {t} /\ j.freeTcb = Tail(k.freeTcb)
        /\ j.prioTbl = [k.prioTbl EXCEPT ![prio] = t]
        /\ Bits(j.rdy) = Bits(k.rdy) \cup {prio}
    BY <1>1, <1>6, <1>8 DEF free, prioTbl
  <2>2. j.tcb[t].prio = prio /\ \A u \in Tcb : u # t => j.tcb[u] = k.tcb[u]
    BY <1>2, <1>4, <1>8
  <2> QED
    BY <1>8, <1>15, <1>16, <1>17, <2>1, <2>2 DEF Launches
<1> QED
  BY <1>18 DEF j, t

(* OSTaskCreateExt creates the task or leaves the kernel as it is.         *)
LEMMA CreateExtLaunches ==
  ASSUME NEW k, Sound(k), NEW prio \in Prio, CanCreate(k, prio)
  PROVE  LET j == OSTaskCreateExt(k, prio) IN
         Sound(j) /\ Launches(k, j, Head(k.freeTcb), prio)
<1> DEFINE j == OSTaskCreateExt(k, prio)
<1>1. k.prioTbl[prio] = Null /\ k.freeTcb # << >> /\ j = NewTask(k, prio)
  BY DEF CanCreate, OSTaskCreateExt
<1>2. Founded(k) /\ k.prioTbl[IdlePrio] # Null /\ IdlePrio \in Bits(k.rdy)
  BY SoundIs
<1> HIDE DEF j
<1>3. Launches(k, j, Head(k.freeTcb), prio)
  BY <1>1, <1>2, NewTaskLaunches
<1>4. Head(k.freeTcb) # Null
  BY <1>3 DEF Launches, Tcb, Null
<1>5. IdlePrio \in Prio
  BY BitmapAssumption DEF IdlePrio, Prio
<1>6. j.prioTbl[IdlePrio] # Null /\ IdlePrio \in Bits(j.rdy)
  <2>1. k.prioTbl \in [Prio -> Tcb \cup {Null}]
    BY <1>2 DEF Founded, Kernel
  <2> QED
    BY <1>2, <1>3, <1>4, <1>5, <2>1 DEF Launches
<1> QED
  BY <1>3, <1>6, SoundIs DEF Launches, j

(* The kernel before its first task.                                       *)
Bare0 ==
    [lock |-> OS_InitMisc.lock, rdy |-> OS_InitRdyList.rdy,
     cur |-> OS_InitRdyList.cur, prioCur |-> OS_InitRdyList.prioCur,
     tcb |-> OS_InitTCBList.tcb, prioTbl |-> OS_InitTCBList.prioTbl,
     list |-> OS_InitTCBList.list, freeTcb |-> OS_InitTCBList.freeTcb,
     event |-> OS_InitEventList.event, freeEvent |-> OS_InitEventList.freeEvent,
     flag |-> OS_FlagInit.flag, freeFlag |-> OS_FlagInit.freeFlag,
     mem |-> OS_MemInit.mem, nblks |-> OS_MemInit.nblks,
     queue |-> OS_QInit.queue, freeQ |-> OS_QInit.freeQ]

LEMMA Identity ==
  ASSUME NEW n \in Nat, NEW S, S = 1 .. n
  PROVE  LET s == [i \in S |-> i] IN s \in Seq(S) /\ Len(s) = n /\ Once(s)
  BY DEF Once

LEMMA BareFields ==
  /\ Bare0 \in Kernel
  /\ Bare0.lock = 0 /\ Bare0.cur = Null /\ Bare0.list = {}
  /\ Bare0.rdy = NoBits
  /\ Bare0.prioTbl = [p \in Prio |-> Null]
  /\ Len(Bare0.freeTcb) = MaxTasks + 2 /\ Once(Bare0.freeTcb)
  /\ \A e \in Ecb : Bare0.event[e].type = "UNUSED" /\ Bare0.event[e].wait = NoBits
  /\ \A g \in Fgp : Bare0.flag[g].type = "UNUSED" /\ Bare0.flag[g].wait = {}
  /\ Len(Bare0.freeEvent) = MaxEvents /\ Once(Bare0.freeEvent)
  /\ Len(Bare0.freeFlag) = MaxFlags /\ Once(Bare0.freeFlag)
  /\ Once(Bare0.freeQ)
<1> DEFINE freeTcb == [t \in Tcb |-> t]
           freeEvent == [e \in Ecb |-> e]
           freeFlag == [g \in Fgp |-> g]
           freeQ == [q \in Qcb |-> q]
           event == [e \in Ecb |-> [type |-> "UNUSED", cnt |-> 0, pip |-> 0,
                                    ptr |-> Null, wait |-> NoBits]]
           flag == [g \in Fgp |-> [type |-> "UNUSED", flags |-> {}, wait |-> {}]]
           queue == [q \in Qcb |-> NewRing(QSize, Null)]
           tcb == [t \in Tcb |-> NewTcb]
           prioTbl == [p \in Prio |-> Null]
<1>1. /\ MaxTasks \in Nat /\ MaxEvents \in Nat /\ MaxFlags \in Nat /\ MaxQs \in Nat
      /\ MaxTasks + 2 \in Nat /\ 0 \in Prio /\ Null \in Int
  <2>1. 0 \in Prio
    BY BitmapAssumption DEF Prio
  <2>2. /\ MaxTasks \in Nat /\ MaxEvents \in Nat /\ MaxFlags \in Nat /\ MaxQs \in Nat
    BY CoreAssumption
  <2> QED
    BY <2>1, <2>2 DEF Null
<1>2. freeTcb \in Seq(Tcb) /\ Len(freeTcb) = MaxTasks + 2 /\ Once(freeTcb)
  <2>1. Tcb = 1 .. MaxTasks + 2
    BY DEF Tcb
  <2> QED
    BY <1>1, <2>1, Identity
<1>3. freeEvent \in Seq(Ecb) /\ Len(freeEvent) = MaxEvents /\ Once(freeEvent)
  BY <1>1, Identity DEF Ecb
<1>4. freeFlag \in Seq(Fgp) /\ Len(freeFlag) = MaxFlags /\ Once(freeFlag)
  BY <1>1, Identity DEF Fgp
<1>5. freeQ \in Seq(Qcb) /\ Once(freeQ)
  BY <1>1, Identity DEF Qcb
<1>6. NoBits \in Bitmap
  BY NoBitsEmpty DEF Consistent
<1>7. /\ event \in [Ecb -> EventType]
      /\ \A e \in Ecb : event[e].type = "UNUSED" /\ event[e].wait = NoBits
  BY <1>1, <1>6 DEF EventType, EventTypes
<1>8. /\ flag \in [Fgp -> GroupType]
      /\ \A g \in Fgp : flag[g].type = "UNUSED" /\ flag[g].wait = {}
  BY DEF GroupType
<1>9. queue \in [Qcb -> RingType]
  BY NewRingType
<1>10. tcb \in [Tcb -> TcbType]
  <2>1. NewTcb \in TcbType
    <3>1. NoNode \in NodeType
      BY DEF NoNode, NodeType
    <3> QED
      BY <1>1, <3>1 DEF NewTcb, TcbType
  <2> QED
    BY <2>1
<1>11. prioTbl \in [Prio -> Tcb \cup {Null}]
  OBVIOUS
<1>12. Bare0 = [lock |-> 0, rdy |-> NoBits, cur |-> Null, prioCur |-> 0, tcb |-> tcb,
                prioTbl |-> prioTbl, list |-> {}, freeTcb |-> freeTcb,
                event |-> event, freeEvent |-> freeEvent, flag |-> flag,
                freeFlag |-> freeFlag, mem |-> << >>, nblks |-> 0,
                queue |-> queue, freeQ |-> freeQ]
  BY DEF Bare0, OS_InitMisc, OS_InitRdyList, OS_InitTCBList, OS_InitEventList,
         OS_FlagInit, OS_MemInit, OS_QInit
<1> HIDE DEF freeTcb, freeEvent, freeFlag, freeQ, event, flag, queue, tcb, prioTbl
<1>13. Bare0 \in Kernel
  <2>1. << >> \in Seq(Block) /\ {} \in SUBSET Tcb /\ 0 \in Nat /\ 0 \in 0 .. 255
    OBVIOUS
  <2> QED
    BY <1>1, <1>2, <1>3, <1>4, <1>5, <1>6, <1>7, <1>8, <1>9, <1>10, <1>11, <1>12, <2>1
       DEF Kernel
<1>14. /\ Bare0.lock = 0 /\ Bare0.cur = Null /\ Bare0.list = {}
       /\ Bare0.rdy = NoBits /\ Bare0.prioTbl = prioTbl
       /\ Bare0.freeTcb = freeTcb /\ Bare0.event = event /\ Bare0.flag = flag
       /\ Bare0.freeEvent = freeEvent /\ Bare0.freeFlag = freeFlag
       /\ Bare0.freeQ = freeQ
  BY <1>12
<1> QED
  BY <1>2, <1>3, <1>4, <1>5, <1>7, <1>8, <1>13, <1>14 DEF prioTbl

LEMMA BareFounded == Founded(Bare0)
<1>1. /\ Bare0 \in Kernel /\ Bare0.list = {} /\ Bare0.rdy = NoBits
      /\ Bare0.prioTbl = [p \in Prio |-> Null]
      /\ Once(Bare0.freeTcb) /\ Once(Bare0.freeEvent) /\ Once(Bare0.freeFlag)
      /\ Once(Bare0.freeQ)
      /\ \A e \in Ecb : Bare0.event[e].type = "UNUSED" /\ Bare0.event[e].wait = NoBits
      /\ \A g \in Fgp : Bare0.flag[g].type = "UNUSED" /\ Bare0.flag[g].wait = {}
  BY BareFields
<1>2. Consistent(NoBits) /\ Bits(NoBits) = {}
  BY NoBitsEmpty
<1>3. PriosOK(Bare0)
  BY <1>1 DEF PriosOK
<1>4. PoolsOK(Bare0)
  <2>1. /\ \A i \in DOMAIN Bare0.freeEvent : Bare0.freeEvent[i] \in Ecb
        /\ \A i \in DOMAIN Bare0.freeFlag : Bare0.freeFlag[i] \in Fgp
    BY <1>1 DEF Kernel
  <2> QED
    BY <1>1, <1>2, <2>1 DEF PoolsOK
<1>5. ServedOK(Bare0)
  BY <1>1, <1>2 DEF ServedOK, EventServed, GroupServed
<1> QED
  BY <1>1, <1>2, <1>3, <1>4, <1>5 DEF Founded

(* After OSInit there are the idle task and the statistics task, and they  *)
(* wait for nothing.                                                       *)
LEMMA InitSound ==
  /\ Sound(OSInit) /\ OSInit.lock = 0 /\ OSInit.cur = Null
  /\ \A t \in OSInit.list : WaitsForNothing(OSInit, t)
  /\ Len(OSInit.freeEvent) = MaxEvents /\ Len(OSInit.freeFlag) = MaxFlags
<1> DEFINE t1 == Head(Bare0.freeTcb)
           k1 == NewTask(Bare0, IdlePrio)
           t2 == Head(k1.freeTcb)
           k2 == NewTask(k1, StatPrio)
<1>1. /\ IdlePrio \in Prio /\ StatPrio \in Prio /\ IdlePrio # StatPrio
  BY CoreAssumption, BitmapAssumption DEF IdlePrio, StatPrio, Prio
<1>2. MaxTasks \in Nat
  BY CoreAssumption
<1>3. /\ Founded(Bare0) /\ Bare0.prioTbl = [p \in Prio |-> Null]
      /\ Bare0.freeTcb \in Seq(Tcb) /\ Len(Bare0.freeTcb) = MaxTasks + 2
  BY BareFounded, BareFields DEF Kernel
<1>4. Launches(Bare0, k1, t1, IdlePrio)
  <2>1. Bare0.freeTcb # << >> /\ Bare0.prioTbl[IdlePrio] = Null
    BY <1>1, <1>2, <1>3
  <2> QED
    BY <1>1, <1>3, <2>1, NewTaskLaunches
<1>5. Len(Tail(Bare0.freeTcb)) = MaxTasks + 1 /\ Tail(Bare0.freeTcb) # << >>
  <2>1. ASSUME NEW s \in Seq(Tcb), Len(s) = MaxTasks + 2
        PROVE  Len(Tail(s)) = MaxTasks + 1 /\ Tail(s) # << >>
    <3>1. Tail(s) \in Seq(Tcb) /\ Len(Tail(s)) = Len(s) - 1
      BY <1>2, <2>1
    <3>2. Len(Tail(s)) = MaxTasks + 1 /\ Len(Tail(s)) # 0
      BY <1>2, <2>1, <3>1
    <3>3. Len(<< >>) = 0
      OBVIOUS
    <3> QED
      BY <3>2, <3>3, Zenon
  <2> QED
    BY <1>3, <2>1
<1>6. Launches(k1, k2, t2, StatPrio)
  <2>1. Founded(k1) /\ k1.freeTcb # << >> /\ k1.prioTbl[StatPrio] = Null
    BY <1>1, <1>3, <1>4, <1>5 DEF Launches
  <2> HIDE DEF k1
  <2> QED
    BY <1>1, <2>1, NewTaskLaunches
<1>7. OSInit = k2
  BY DEF OSInit, OS_InitTaskIdle, OS_InitTaskStat, Bare0
<1> HIDE DEF t1, t2, k1, k2
<1>8. Sound(k2)
  <2>1. t1 \in Tcb /\ t1 # Null
    BY <1>4 DEF Launches, Tcb, Null
  <2>2. k2.prioTbl[IdlePrio] = t1 /\ IdlePrio \in Bits(k2.rdy)
    BY <1>1, <1>3, <1>4, <1>6 DEF Launches
  <2> QED
    BY <1>6, <2>1, <2>2, SoundIs DEF Launches
<1>9. ASSUME NEW t \in k2.list
      PROVE  WaitsForNothing(k2, t)
  <2>1. CASE t = t2
    BY <1>6, <2>1 DEF Launches
  <2>2. CASE t = t1 /\ t # t2
    <3>1. t1 \in k1.list /\ WaitsForNothing(k1, t1)
      BY <1>4 DEF Launches
    <3>2. TaskOK(k1, t1, "none", Null)
      BY <3>1 DEF TaskOK
    <3>3. TaskOK(k2, t1, "none", Null)
      BY <1>6, <3>1, <3>2 DEF Launches, Undisturbed
    <3> QED
      BY <2>2, <3>3 DEF TaskOK
  <2>3. k2.list = {t1, t2}
    BY <1>4, <1>6, BareFields DEF Launches
  <2> QED
    BY <2>1, <2>2, <2>3
<1>10. /\ k2.lock = 0 /\ k2.cur = Null
       /\ Len(k2.freeEvent) = MaxEvents /\ Len(k2.freeFlag) = MaxFlags
  BY <1>4, <1>6, BareFields DEF Launches
<1> QED
  BY <1>7, <1>8, <1>9, <1>10
=============================================================================
