--------------------------- MODULE InventoryProofs ---------------------------
(***************************************************************************)
(* The chunks of a file partition it, whatever file size and chunk size    *)
(* an offer names.                                                         *)
(***************************************************************************)
EXTENDS Inventory, TLAPS

LEMMA Division ==
    ASSUME NEW n \in Nat, NEW c \in Nat \ {0}
    PROVE  /\ n \div c \in Nat
           /\ n % c \in 0 .. c - 1
           /\ n = c * (n \div c) + (n % c)
OBVIOUS

LEMMA TimesIsMonotone ==
    ASSUME NEW i \in Nat, NEW k \in Nat, NEW c \in Nat, i <= k
    PROVE  i * c \in Nat /\ i * c <= k * c
OBVIOUS

LEMMA NextMultiple ==
    ASSUME NEW i \in Nat, NEW c \in Nat
    PROVE  (i + 1) * c = i * c + c /\ i * c \in Nat
OBVIOUS

Layouts == [size : 0 .. MaxLong, chunk : (0 .. MaxLong) \ {0}]

LEMMA LayoutNumbers ==
    ASSUME NEW l \in Layouts
    PROVE  /\ MaxLong \in Int
           /\ l.size \in Nat /\ l.chunk \in Nat \ {0}
           /\ l.size <= MaxLong /\ l.chunk <= MaxLong
<1>1. Radix ^ LongLength \in Int
  BY PayloadsAssumption
<1>2. QED
  BY <1>1 DEF Layouts, MaxLong

(* The number of chunks is the least that holds the file.                  *)
LEMMA CountIsLeast ==
    ASSUME NEW l \in Layouts
    PROVE  /\ ChunkCount(l) \in Nat
           /\ l.size <= ChunkCount(l) * l.chunk
           /\ \A i \in Nat : i < ChunkCount(l) => i * l.chunk \in Nat /\ i * l.chunk < l.size
           /\ ChunkCount(l) * l.chunk \in Nat
<1> DEFINE q == l.size \div l.chunk
           r == l.size % l.chunk
           c == l.chunk
           count == ChunkCount(l)
<1>1. /\ q \in Nat /\ r \in 0 .. c - 1 /\ l.size = c * q + r
      /\ c \in Nat \ {0} /\ l.size \in Nat
  BY LayoutNumbers, Division
<1>2. count = IF r = 0 THEN q ELSE q + 1
  BY DEF ChunkCount
<1> HIDE DEF q, r, c, count
<1>3. c * q = q * c /\ (q + 1) * c = q * c + c /\ q * c \in Nat
  BY <1>1, NextMultiple
<1>4. count \in Nat /\ l.size <= count * c /\ count * c \in Nat
  <2>1. CASE r = 0
    BY <1>1, <1>2, <1>3, <2>1
  <2>2. CASE r # 0
    BY <1>1, <1>2, <1>3, <2>2
  <2>3. QED
    BY <2>1, <2>2
<1>5. ASSUME NEW i \in Nat, i < count
      PROVE  i * c \in Nat /\ i * c < l.size
  <2>1. CASE r = 0
    <3>1. (i + 1) * c <= q * c
      BY <1>1, <1>2, <1>5, <2>1, TimesIsMonotone
    <3>2. QED
      BY <1>1, <1>3, <2>1, <3>1, NextMultiple
  <2>2. CASE r # 0
    <3>1. i * c <= q * c
      BY <1>1, <1>2, <1>5, <2>2, TimesIsMonotone
    <3>2. QED
      BY <1>1, <1>3, <2>2, <3>1, NextMultiple
  <2>3. QED
    BY <2>1, <2>2
<1>6. QED
  BY <1>4, <1>5 DEF c, count

(* The range of a chunk of the file, and that there is none behind them.   *)
RangeOf(l, i) == CHOOSE r \in ChunkRange(l, i) : TRUE

LEMMA RangeIsThere ==
    ASSUME NEW l \in Layouts, NEW i \in Nat, i < ChunkCount(l)
    PROVE  /\ HasChunk(l, i)
           /\ RangeOf(l, i) = [offset |-> i * l.chunk,
                               length |-> IF l.chunk < l.size - i * l.chunk THEN l.chunk
                                          ELSE l.size - i * l.chunk]
<1> DEFINE remaining == l.size - i * l.chunk
           range == [offset |-> i * l.chunk,
                     length |-> IF l.chunk < remaining THEN l.chunk ELSE remaining]
<1>1. i * l.chunk \in Nat /\ i * l.chunk < l.size
  BY CountIsLeast
<1>2. i * l.chunk <= MaxLong /\ remaining >= 0
  BY <1>1, LayoutNumbers
<1>3. ChunkRange(l, i) = {range}
  BY <1>2 DEF ChunkRange
<1>4. QED
  BY <1>3 DEF HasChunk, RangeOf

LEMMA NoneBehind ==
    ASSUME NEW l \in Layouts
    PROVE  ~HasChunk(l, ChunkCount(l))
<1>1. ~(ChunkCount(l) < ChunkCount(l))
  BY CountIsLeast
<1>2. QED
  BY <1>1 DEF HasChunk, ChunkRange

-----------------------------------------------------------------------------
LayoutInv == layout \in Layouts

LEMMA LayoutStays == Spec => []LayoutInv
<1>1. Init => LayoutInv
  BY InventoryAssumption DEF Init, LayoutInv, Layouts
<1>2. LayoutInv /\ [Next]_vars => LayoutInv'
  BY DEF LayoutInv, Next, vars, RecordVerifiedChunk, WriteChunkState, WriteTransferMetadata,
         WriteCompletionReceipt, Save, AlterDocument, Announce
<1>3. QED
  BY <1>1, <1>2, PTL DEF Spec

(* The chunks of any file lie side by side and fill it, and no computation *)
(* of a chunk of the file overflows.                                       *)
THEOREM RangesAlwaysPartition == Spec => []RangesPartition
<1>1. ASSUME LayoutInv
      PROVE  RangesPartition
  <2> DEFINE l == layout
             c == layout.chunk
             count == ChunkCount(layout)
             range(i) == CHOOSE r \in ChunkRange(layout, i) : TRUE
             end(i) == range(i).offset + range(i).length
  <2>1. /\ l \in Layouts /\ count \in Nat /\ c \in Nat \ {0} /\ l.size \in Nat
        /\ l.size <= count * c /\ count * c \in Nat
        /\ \A i \in Nat : i < count => i * c \in Nat /\ i * c < l.size
    BY <1>1, CountIsLeast, LayoutNumbers DEF LayoutInv
  <2>2. \A i \in Nat : i < count =>
          /\ HasChunk(layout, i)
          /\ range(i).offset = i * c
          /\ range(i).length = IF c < l.size - i * c THEN c ELSE l.size - i * c
    <3> SUFFICES ASSUME NEW i \in Nat, i < count
                 PROVE  /\ HasChunk(layout, i)
                        /\ range(i).offset = i * c
                        /\ range(i).length = IF c < l.size - i * c THEN c ELSE l.size - i * c
      OBVIOUS
    <3>1. /\ HasChunk(layout, i)
          /\ RangeOf(layout, i) = [offset |-> i * c,
                                   length |-> IF c < l.size - i * c THEN c ELSE l.size - i * c]
      BY <2>1, RangeIsThere
    <3>2. range(i) = RangeOf(layout, i)
      BY DEF RangeOf
    <3> HIDE DEF range
    <3>3. QED
      BY <3>1, <3>2
  <2> HIDE DEF count, range, c, l
  <2>3. \A i \in 0 .. count - 1 : HasChunk(layout, i) /\ range(i).length \in 1 .. c
    <3> TAKE i \in 0 .. count - 1
    <3>1. i \in Nat /\ i < count
      BY <2>1
    <3>2. i * c \in Nat /\ i * c < l.size
      BY <2>1, <3>1
    <3>3. QED
      BY <2>1, <2>2, <3>1, <3>2
  <2>4. \A i \in 0 .. count - 2 : range(i + 1).offset = end(i)
    <3> TAKE i \in 0 .. count - 2
    <3>1. i \in Nat /\ i < count /\ i + 1 \in Nat /\ i + 1 < count
      BY <2>1
    <3>2. /\ i * c \in Nat /\ (i + 1) * c = i * c + c
          /\ (i + 1) * c < l.size
      BY <2>1, <3>1, NextMultiple
    <3>3. range(i).length = c /\ range(i).offset = i * c
      BY <2>1, <2>2, <3>1, <3>2
    <3>4. range(i + 1).offset = (i + 1) * c
      BY <2>2, <3>1
    <3>5. QED
      BY <2>1, <3>2, <3>3, <3>4
  <2>5. CASE count = 0
    <3>1. l.size = 0
      BY <2>1, <2>5
    <3>2. QED
      BY <1>1, <2>3, <2>4, <2>5, <3>1, NoneBehind DEF RangesPartition, LayoutInv, count, range, c, l
  <2>6. CASE count # 0
    <3>1. count - 1 \in Nat /\ count - 1 < count /\ 0 < count /\ 0 \in Nat
      BY <2>1, <2>6
    <3>2. ((count - 1) + 1) * c = (count - 1) * c + c /\ (count - 1) * c \in Nat
      BY <2>1, <3>1, NextMultiple
    <3>3. (count - 1) + 1 = count
      BY <2>1
    <3>4. /\ range(count - 1).offset = (count - 1) * c
          /\ range(count - 1).length = l.size - (count - 1) * c
      BY <2>1, <2>2, <3>1, <3>2, <3>3
    <3>5. end(count - 1) = l.size
      BY <2>1, <3>2, <3>4
    <3>6. range(0).offset = 0
      BY <2>1, <2>2, <3>1
    <3>7. QED
      BY <1>1, <2>3, <2>4, <2>6, <3>5, <3>6, NoneBehind
         DEF RangesPartition, LayoutInv, count, range, c, l
  <2>7. QED
    BY <2>5, <2>6
<1>2. QED
  BY <1>1, LayoutStays, PTL
=============================================================================
