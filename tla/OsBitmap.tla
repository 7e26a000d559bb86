------------------------------ MODULE OsBitmap ------------------------------
(***************************************************************************)
(* The two-level bitmaps of uC/OS-II.  A set of priorities is kept as one  *)
(* byte for each row of eight priorities (OSRdyTbl, OSEventTbl) and one    *)
(* more byte that says which rows are not empty (OSRdyGrp, OSEventGrp);    *)
(* OSUnMapTbl gives the lowest bit of a byte.  A byte is modelled by the   *)
(* set of the positions of its bits.                                       *)
(***************************************************************************)
EXTENDS Integers

CONSTANT LowestPrio              \* OS_LOWEST_PRIO, at most 63 for bytes of bits

ASSUME BitmapAssumption == LowestPrio \in 0 .. 63

Prio == 0 .. LowestPrio
Row == 0 .. LowestPrio \div 8
Bit == 0 .. 7

OSTCBY(p) == p \div 8
OSTCBX(p) == p % 8

Bitmap == [grp : SUBSET Row, tbl : [Row -> SUBSET Bit]]

NoBits == [grp |-> {}, tbl |-> [y \in Row |-> {}]]

OSUnMapTbl(byte) == CHOOSE n \in byte : \A m \in byte : n <= m

SetBit(b, p) ==
    [grp |-> b.grp \cup {OSTCBY(p)},
     tbl |-> [b.tbl EXCEPT ![OSTCBY(p)] = @ \cup {OSTCBX(p)}]]

ClearBit(b, p) ==
    LET byte == b.tbl[OSTCBY(p)] \ {OSTCBX(p)} IN
    [grp |-> IF byte = {} THEN b.grp \ {OSTCBY(p)} ELSE b.grp,
     tbl |-> [b.tbl EXCEPT ![OSTCBY(p)] = byte]]

(* The same for a set of priorities: a loop over the tasks.                *)
SetBits(b, P) ==
    [grp |-> b.grp \cup {OSTCBY(p) : p \in P},
     tbl |-> [y \in Row |->
                b.tbl[y] \cup {OSTCBX(p) : p \in {q \in P : OSTCBY(q) = y}}]]

ClearBits(b, P) ==
    LET tbl == [y \in Row |->
                  b.tbl[y] \ {OSTCBX(p) : p \in {q \in P : OSTCBY(q) = y}}]
    IN [grp |-> b.grp \ {y \in {OSTCBY(p) : p \in P} : tbl[y] = {}}, tbl |-> tbl]

TestBit(b, p) == OSTCBX(p) \in b.tbl[OSTCBY(p)]

HighestPrio(b) ==
    LET y == OSUnMapTbl(b.grp) IN y * 8 + OSUnMapTbl(b.tbl[y])

(* The set of priorities that a bitmap stands for.                         *)
Bits(b) == UNION {{y * 8 + x : x \in b.tbl[y]} : y \in Row}

(* Group byte and table agree, and no bit is above the lowest priority.    *)
Consistent(b) ==
    /\ b \in Bitmap
    /\ b.grp = {y \in Row : b.tbl[y] # {}}
    /\ \A y \in Row : \A x \in b.tbl[y] : y * 8 + x \in Prio
=============================================================================
