-------------------------- MODULE RingBufferProofs --------------------------
(***************************************************************************)
(* Theorems about RingBuffer, for every capacity, every set of counts and  *)
(* every bound on a run, and about MultiSource, the streams of rings, for  *)
(* every number of channels, size of block and ring, set of devices and    *)
(* graphs and bound on the calls.                                          *)
(*                                                                         *)
(* RingBuffer: a cursor is its stream position taken modulo Capacity       *)
(* (Positions), the four positions are ordered                             *)
(*    pKnown <= consumed <= cKnown <= written < pKnown + Capacity          *)
(* (Ordered), so positions that both threads touch differ by less than     *)
(* Capacity and their slots are apart (WrapApart).                         *)
(*                                                                         *)
(* MultiSource: a call walks the channels of a stream from the first to    *)
(* the last (Walks), so how far it has come is one number (At).  A ring's  *)
(* level, but for what the calls under way brought to it or took from it,  *)
(* is within one block of every other's (SlipInv).  Where a stream's calls *)
(* never met, only one of them is under way (Alone), and what it makes of  *)
(* the channels it has yet to come to is what it made of those behind it   *)
(* (SameCounts, SameFrames).                                               *)
(*                                                                         *)
(* A call does its operations in turn, and what it has left is the end of  *)
(* it (Agenda).  So the frames of a channel form one way from a device to  *)
(* a sink, in seven stages (Flow), each of which holds frames earlier than *)
(* the next (Sorted), and an operation moves frames from a stage to one    *)
(* further on; the bridge's other device is at the end of a second way     *)
(* (Crossing).  In the adapter what is on the clock device's own way is    *)
(* the block it captured, whole, or nothing (Own).                         *)
(***************************************************************************)
EXTENDS RingBuffer, MultiSource, TLAPS, WellFoundedInduction

-----------------------------------------------------------------------------
(* Arithmetic modulo Capacity.                                             *)

LEMMA DivMod ==
  \A i \in Nat : /\ i % Capacity \in 0 .. Capacity - 1
                 /\ i \div Capacity \in Nat
                 /\ i = (Capacity * (i \div Capacity)) + (i % Capacity)
  BY CapacityAssumption

LEMMA Multiples ==
  ASSUME NEW p \in Nat, NEW q \in Nat, p < q
  PROVE  Capacity * p + Capacity <= Capacity * q
<1>1. PICK d \in Nat : q = p + 1 + d
  <2>1. q - p - 1 \in Nat /\ q = p + 1 + (q - p - 1)
    OBVIOUS
  <2> QED BY <2>1
<1>2. Capacity * q = Capacity * p + Capacity + Capacity * d
  BY <1>1, CapacityAssumption
<1>3. Capacity * d \in Nat /\ Capacity * p \in Nat
  BY CapacityAssumption
<1> QED BY <1>2, <1>3, CapacityAssumption

\* A quotient and a remainder are determined by the number they make.
LEMMA DivModUnique ==
  ASSUME NEW q \in Nat, NEW r \in 0 .. Capacity - 1
  PROVE  (Capacity * q + r) % Capacity = r
<1> DEFINE i == Capacity * q + r
           p == i \div Capacity
           s == i % Capacity
<1>1. i \in Nat
  BY CapacityAssumption
<1>2. s \in 0 .. Capacity - 1 /\ p \in Nat /\ i = (Capacity * p) + s
  BY <1>1, DivMod
<1> HIDE DEF p, s
<1>3. Capacity * p \in Nat /\ Capacity * q \in Nat
  BY <1>2, CapacityAssumption
<1>4. ~(p < q)
  <2> SUFFICES ASSUME p < q PROVE FALSE
    OBVIOUS
  <2>1. Capacity * p + Capacity <= Capacity * q
    BY <1>2, Multiples
  <2> QED BY <2>1, <1>2, <1>3, CapacityAssumption
<1>5. ~(q < p)
  <2> SUFFICES ASSUME q < p PROVE FALSE
    OBVIOUS
  <2>1. Capacity * q + Capacity <= Capacity * p
    BY <1>2, Multiples
  <2> QED BY <2>1, <1>2, <1>3, CapacityAssumption
<1>6. p = q
  BY <1>2, <1>4, <1>5
<1>7. s = r
  BY <1>2, <1>3, <1>6, CapacityAssumption
<1> QED BY <1>7 DEF s

LEMMA WrapType == \A i \in Nat : Wrap(i) \in Slots
  BY DivMod DEF Wrap, Slots

LEMMA WrapSlot == \A s \in Slots : Wrap(s) = s
<1> SUFFICES ASSUME NEW s \in Slots PROVE Wrap(s) = s
  OBVIOUS
<1>1. (Capacity * 0 + s) % Capacity = s
  BY DivModUnique DEF Slots
<1>2. Capacity * 0 + s = s
  BY CapacityAssumption DEF Slots
<1> QED BY <1>1, <1>2 DEF Wrap

\* Adding before wrapping or after it makes no difference.
LEMMA WrapPlus ==
  ASSUME NEW i \in Nat, NEW j \in Nat
  PROVE  Wrap(Wrap(i) + j) = Wrap(i + j)
<1> DEFINE r == i % Capacity
           q == i \div Capacity
           s == (r + j) % Capacity
           p == (r + j) \div Capacity
<1>1. r \in 0 .. Capacity - 1 /\ q \in Nat /\ i = (Capacity * q) + r
  BY DivMod
<1>2. r + j \in Nat
  BY <1>1
<1>3. s \in 0 .. Capacity - 1 /\ p \in Nat /\ r + j = (Capacity * p) + s
  BY <1>2, DivMod
<1> HIDE DEF r, q, s, p
<1>4. Capacity * (q + p) = Capacity * q + Capacity * p
  BY <1>1, <1>3, CapacityAssumption
<1>5. Capacity * q \in Nat /\ Capacity * p \in Nat
  BY <1>1, <1>3, CapacityAssumption
<1>6. i + j = Capacity * (q + p) + s
  BY <1>1, <1>3, <1>4, <1>5, CapacityAssumption
<1>7. q + p \in Nat
  BY <1>1, <1>3
<1>8. (Capacity * (q + p) + s) % Capacity = s
  BY <1>3, <1>7, DivModUnique
<1> QED BY <1>6, <1>8 DEF Wrap, r, s

LEMMA WrapCapacity == \A i \in Nat : Wrap(i + Capacity) = Wrap(i)
<1> SUFFICES ASSUME NEW i \in Nat PROVE Wrap(i + Capacity) = Wrap(i)
  OBVIOUS
<1>1. (Capacity * 1 + 0) % Capacity = 0
  <2>1. 0 \in 0 .. Capacity - 1
    BY CapacityAssumption
  <2> QED BY <2>1, DivModUnique
<1>2. Wrap(Capacity) = 0
  BY <1>1, CapacityAssumption DEF Wrap
<1>3. Wrap(Wrap(Capacity) + i) = Wrap(Capacity + i)
  BY WrapPlus, CapacityAssumption
<1>4. Capacity + i = i + Capacity /\ 0 + i = i
  BY CapacityAssumption
<1> QED BY <1>2, <1>3, <1>4

\* Positions less than Capacity apart lie in different slots.
LEMMA WrapApart ==
  ASSUME NEW a \in Nat, NEW b \in Nat, a < b, b < a + Capacity
  PROVE  Wrap(a) # Wrap(b)
<1> SUFFICES ASSUME Wrap(a) = Wrap(b) PROVE FALSE
  OBVIOUS
<1> DEFINE q == a \div Capacity
           p == b \div Capacity
           r == Wrap(a)
<1>1. r \in 0 .. Capacity - 1 /\ q \in Nat /\ a = (Capacity * q) + r
  BY DivMod DEF Wrap
<1>2. p \in Nat /\ b = (Capacity * p) + r
  BY DivMod DEF Wrap
<1> HIDE DEF q, p, r
<1>3. Capacity * q \in Nat /\ Capacity * p \in Nat
  BY <1>1, <1>2, CapacityAssumption
<1>4. q < p
  <2> SUFFICES ASSUME ~(q < p) PROVE FALSE
    OBVIOUS
  <2>1. p < q \/ p = q
    BY <1>1, <1>2
  <2>2. p < q => Capacity * p + Capacity <= Capacity * q
    BY <1>1, <1>2, Multiples
  <2> QED BY <2>1, <2>2, <1>1, <1>2, <1>3, CapacityAssumption
<1>5. Capacity * q + Capacity <= Capacity * p
  BY <1>1, <1>2, <1>4, Multiples
<1> QED BY <1>1, <1>2, <1>3, <1>5, CapacityAssumption

\* The distance of two wrapped positions, if it is less than Capacity.
LEMMA OccupiedIsDistance ==
  ASSUME NEW a \in Nat, NEW b \in Nat, a <= b, b < a + Capacity
  PROVE  Occupied(Wrap(b), Wrap(a)) = b - a
<1>1. b - a \in Slots /\ b = a + (b - a)
  BY CapacityAssumption DEF Slots
<1>2. Wrap(a) \in Slots /\ Wrap(b) \in Slots
  BY WrapType
<1>3. Wrap(Wrap(a) + (b - a)) = Wrap(b)
  BY <1>1, WrapPlus DEF Slots
<1> DEFINE r == Wrap(a)
           d == b - a
<1>4. CASE r + d < Capacity
  <2>1. r + d \in Slots
    BY <1>1, <1>2, <1>4, CapacityAssumption DEF Slots
  <2>2. Wrap(b) = r + d
    BY <2>1, <1>3, WrapSlot
  <2>3. (Wrap(b) + Capacity) - r = d + Capacity
    BY <2>2, <1>1, <1>2, CapacityAssumption DEF Slots
  <2>4. Wrap(d + Capacity) = d
    BY <1>1, WrapCapacity, WrapSlot DEF Slots
  <2> QED BY <2>3, <2>4 DEF Occupied
<1>5. CASE r + d >= Capacity
  <2>1. (r + d) - Capacity \in Slots /\ r + d = ((r + d) - Capacity) + Capacity
    BY <1>1, <1>2, <1>5, CapacityAssumption DEF Slots
  <2>2. Wrap(b) = (r + d) - Capacity
    BY <2>1, <1>3, WrapSlot, WrapCapacity DEF Slots
  <2>3. (Wrap(b) + Capacity) - r = d
    BY <2>2, <1>1, <1>2, CapacityAssumption DEF Slots
  <2>4. Wrap(d) = d
    BY <1>1, WrapSlot
  <2> QED BY <2>3, <2>4 DEF Occupied
<1> QED BY <1>1, <1>2, <1>4, <1>5, CapacityAssumption DEF Slots

-----------------------------------------------------------------------------
(* The inductive invariant.                                                *)

\* Elements stored by a write() that has not published them yet.
InFlight == IF ppc = "copy" THEN pN ELSE 0

Ordered ==
  /\ pKnown <= consumed /\ consumed <= cKnown /\ cKnown <= written
  /\ written + InFlight <= pKnown + (Capacity - 1)

\* Every store to an index is the position it stands for, wrapped; a side can
\* still load only stores between what it has seen and the latest one.
Positions ==
  /\ wIndex = Wrap(written) /\ rIndex = Wrap(consumed)
  /\ \A s \in wStores : s.index = Wrap(s.at) /\ cKnown <= s.at /\ s.at <= written
  /\ \A s \in rStores : s.index = Wrap(s.at) /\ pKnown <= s.at /\ s.at <= consumed

ProducerInv ==
  /\ ppc = "copy" => /\ pW = Wrap(written + pN)
                     /\ pSeen = Wrap(pKnown)
                     /\ pN <= pCount
  /\ ppc # "idle" => pCount \in Counts
  /\ ppc = "short" => pN < pCount
  /\ ShortWriteFilledUp

ConsumerInv ==
  /\ cpc = "copy" => /\ cR = Wrap(consumed + Len(dst))
                     /\ cSeen = Wrap(cKnown)
                     /\ Len(dst) <= cCount
                     /\ consumed + Len(dst) <= cKnown
  /\ cpc # "idle" => cCount \in Counts
  /\ cpc = "short" => Len(dst) < cCount
  /\ cpc # "short" => consumed + promised <= cKnown
  /\ ReadsInOrder
  /\ SizeIsReadable

\* Every slot between the two threads holds the element of its position.
Contents ==
  \A k \in Nat : consumed <= k /\ k < written + InFlight => data[Wrap(k)] = k + 1

IInv == TypeOK /\ Ordered /\ Positions /\ ProducerInv /\ ConsumerInv /\ Contents

LEMMA InitIInv == Init => IInv
<1> SUFFICES ASSUME Init PROVE IInv
  OBVIOUS
<1>1. Wrap(0) = 0 /\ 0 \in Slots
  BY WrapSlot, CapacityAssumption DEF Slots
<1>2. TypeOK
  BY <1>1 DEF Init, TypeOK, Stores
<1>3. Ordered
  BY CapacityAssumption DEF Init, Ordered, InFlight
<1>4. Positions
  BY <1>1 DEF Init, Positions
<1>5. ProducerInv
  BY DEF Init, ProducerInv, ShortWriteFilledUp
<1>6. ConsumerInv
  BY DEF Init, ConsumerInv, ReadsInOrder, SizeIsReadable
<1>7. Contents
  BY DEF Init, Contents, InFlight
<1> QED BY <1>2, <1>3, <1>4, <1>5, <1>6, <1>7 DEF IInv

\* With room left, one more element fits: the position stored next is less
\* than Capacity ahead of the newest release seen.
LEMMA RoomLeft ==
  ASSUME IInv, ppc = "copy", CanStore
  PROVE  written + pN + 1 <= pKnown + (Capacity - 1)
<1>1. written + pN \in Nat /\ pKnown \in Nat
  BY DEF IInv, TypeOK
<1>2. written + pN <= pKnown + (Capacity - 1)
  BY DEF IInv, Ordered, InFlight
<1>3. pW = Wrap(written + pN) /\ pSeen = Wrap(pKnown)
  BY DEF IInv, ProducerInv
<1>4. Wrap(pW + 1) = Wrap((written + pN) + 1)
  BY <1>1, <1>3, WrapPlus
<1>5. written + pN # pKnown + (Capacity - 1)
  <2> SUFFICES ASSUME written + pN = pKnown + (Capacity - 1) PROVE FALSE
    OBVIOUS
  <2>1. (written + pN) + 1 = pKnown + Capacity
    BY <1>1, CapacityAssumption
  <2>2. Wrap(pW + 1) = pSeen
    BY <2>1, <1>1, <1>3, <1>4, WrapCapacity
  <2> QED BY <2>2 DEF CanStore
<1> QED BY <1>1, <1>2, <1>5, CapacityAssumption

\* Without room left the buffer is filled to capacity().
LEMMA NoRoomLeft ==
  ASSUME IInv, ppc = "copy", ~CanStore
  PROVE  written + pN = pKnown + (Capacity - 1)
<1>1. written + pN \in Nat /\ pKnown \in Nat
  BY DEF IInv, TypeOK
<1>2. written + pN <= pKnown + (Capacity - 1) /\ pKnown <= written + pN
  BY DEF IInv, TypeOK, Ordered, InFlight
<1>3. pW = Wrap(written + pN) /\ pSeen = Wrap(pKnown)
  BY DEF IInv, ProducerInv
<1>4. Wrap(pW + 1) = Wrap((written + pN) + 1)
  BY <1>1, <1>3, WrapPlus
<1>5. ~((written + pN) + 1 < pKnown + Capacity)
  <2> SUFFICES ASSUME (written + pN) + 1 < pKnown + Capacity PROVE FALSE
    OBVIOUS
  <2>1. Wrap(pKnown) # Wrap((written + pN) + 1)
    BY <1>1, <1>2, WrapApart
  <2> QED BY <2>1, <1>3, <1>4 DEF CanStore
<1> QED BY <1>1, <1>2, <1>5, CapacityAssumption

LEMMA MoreToLoad ==
  ASSUME IInv, cpc = "copy", CanLoad
  PROVE  consumed + Len(dst) + 1 <= cKnown
<1>1. consumed + Len(dst) \in Nat /\ cKnown \in Nat
  BY DEF IInv, TypeOK
<1>2. consumed + Len(dst) <= cKnown
  BY DEF IInv, ConsumerInv
<1>3. consumed + Len(dst) # cKnown
  BY DEF IInv, ConsumerInv, CanLoad
<1> QED BY <1>1, <1>2, <1>3

LEMMA AllLoaded ==
  ASSUME IInv, cpc = "copy", ~CanLoad
  PROVE  consumed + Len(dst) = cKnown
<1>1. consumed + Len(dst) \in Nat /\ cKnown \in Nat /\ consumed <= consumed + Len(dst)
  BY DEF IInv, TypeOK
<1>2. consumed + Len(dst) <= cKnown
  BY DEF IInv, ConsumerInv
<1>3. cKnown < consumed + Capacity
  <2>1. InFlight \in Nat /\ written \in Nat /\ pKnown \in Nat /\ consumed \in Nat
    BY DEF IInv, TypeOK, InFlight
  <2> QED BY <1>1, <2>1, CapacityAssumption DEF IInv, Ordered
<1>4. ~(consumed + Len(dst) < cKnown)
  <2> SUFFICES ASSUME consumed + Len(dst) < cKnown PROVE FALSE
    OBVIOUS
  <2>1. consumed \in Nat /\ Len(dst) \in Nat
    BY DEF IInv, TypeOK
  <2>2. Wrap(consumed + Len(dst)) # Wrap(cKnown)
    BY <1>1, <1>3, <2>1, WrapApart, CapacityAssumption
  <2>3. cR = Wrap(consumed + Len(dst)) /\ cSeen = Wrap(cKnown)
    BY DEF IInv, ConsumerInv
  <2> QED BY <2>2, <2>3 DEF CanLoad
<1> QED BY <1>1, <1>2, <1>4

-----------------------------------------------------------------------------
(* Each action preserves the invariant.                                    *)

LEMMA WriteBeginStep ==
  ASSUME IInv, NEW k \in Counts, WriteBegin(k)
  PROVE  IInv'
<1>1. PICK s \in rStores : /\ pSeen' = s.index
                           /\ pKnown' = s.at
                           /\ rStores' = {t \in rStores : t.at >= s.at}
  BY DEF WriteBegin
<1>2. s \in Stores /\ s.index = Wrap(s.at) /\ pKnown <= s.at /\ s.at <= consumed
  BY DEF IInv, TypeOK, Positions
<1>3. k \in Nat
  BY CountsAssumption
<1>4. TypeOK'
  BY <1>1, <1>2, <1>3 DEF IInv, TypeOK, WriteBegin, consVars, Stores
<1>5. Ordered'
  <2>1. written <= pKnown + (Capacity - 1)
    <3>1. InFlight = 0
      BY DEF InFlight, WriteBegin
    <3>2. written + 0 = written
      BY DEF IInv, TypeOK
    <3> QED BY <3>1, <3>2 DEF IInv, Ordered
  <2> QED BY <1>1, <1>2, <2>1, CapacityAssumption
          DEF IInv, TypeOK, Ordered, InFlight, WriteBegin, consVars, Stores
<1>6. Positions'
  BY <1>1, <1>2 DEF IInv, Positions, WriteBegin, consVars
<1>7. ProducerInv'
  BY <1>1, <1>2, <1>3 DEF IInv, TypeOK, Positions, ProducerInv, ShortWriteFilledUp, WriteBegin
<1>8. ConsumerInv'
  BY DEF IInv, ConsumerInv, ReadsInOrder, SizeIsReadable, WriteBegin, consVars
<1>9. Contents'
  BY DEF IInv, TypeOK, Contents, InFlight, WriteBegin
<1> QED BY <1>4, <1>5, <1>6, <1>7, <1>8, <1>9 DEF IInv

LEMMA WriteCopyStep ==
  ASSUME IInv, WriteCopy
  PROVE  IInv'
<1> DEFINE at == written + pN
<1>1. at \in Nat /\ written \in Nat /\ pN \in Nat /\ consumed \in Nat /\ pKnown \in Nat
  BY DEF IInv, TypeOK
<1>2. at + 1 <= pKnown + (Capacity - 1)
  BY RoomLeft DEF WriteCopy
<1>3. pW = Wrap(at) /\ pW \in Slots
  BY DEF IInv, TypeOK, ProducerInv, WriteCopy
<1>4. pW' = Wrap(at + 1) /\ pW' \in Slots
  <2>1. Wrap(pW + 1) = Wrap(at + 1)
    BY <1>1, <1>3, WrapPlus
  <2>2. pW' = Wrap(pW + 1)
    BY DEF WriteCopy
  <2> QED BY <1>1, <2>1, <2>2, WrapType
<1>5. data' = [data EXCEPT ![Wrap(at)] = at + 1]
  BY <1>3 DEF WriteCopy
<1>6. TypeOK'
  BY <1>1, <1>3, <1>4, <1>5 DEF IInv, TypeOK, WriteCopy, consVars
<1>7. Ordered'
  BY <1>1, <1>2, CapacityAssumption DEF IInv, Ordered, InFlight, WriteCopy, consVars
<1>8. Positions'
  BY DEF IInv, Positions, WriteCopy, consVars
<1>9. ProducerInv'
  <2>1. pN + 1 <= pCount
    BY DEF IInv, TypeOK, WriteCopy
  <2>2. at + 1 = written + pN'
    BY <1>1 DEF WriteCopy
  <2> QED BY <1>4, <2>1, <2>2 DEF IInv, ProducerInv, ShortWriteFilledUp, WriteCopy
<1>10. ConsumerInv'
  BY DEF IInv, ConsumerInv, ReadsInOrder, SizeIsReadable, WriteCopy, consVars
<1>11. Contents'
  <2> SUFFICES ASSUME NEW k \in Nat, consumed <= k, k < at + 1
               PROVE  data'[Wrap(k)] = k + 1
    BY <1>1 DEF Contents, InFlight, WriteCopy
  <2>1. CASE k = at
    BY <2>1, <1>3, <1>5 DEF IInv, TypeOK
  <2>2. CASE k < at
    <3>1. at < k + Capacity
      BY <1>1, <1>2, CapacityAssumption DEF IInv, TypeOK, Ordered
    <3>2. Wrap(k) # Wrap(at) /\ Wrap(k) \in Slots
      BY <1>1, <2>2, <3>1, WrapApart, WrapType
    <3>3. data[Wrap(k)] = k + 1
      BY <2>2 DEF IInv, Contents, InFlight, WriteCopy
    <3> QED BY <1>5, <3>2, <3>3 DEF IInv, TypeOK
  <2> QED BY <1>1, <2>1, <2>2
<1> QED BY <1>6, <1>7, <1>8, <1>9, <1>10, <1>11 DEF IInv

LEMMA WriteEndStep ==
  ASSUME IInv, WriteEnd
  PROVE  IInv'
<1> DEFINE at == written + pN
<1>1. at \in Nat /\ written \in Nat /\ pN \in Nat /\ pCount \in Nat /\ consumed \in Nat
  BY DEF IInv, TypeOK
<1>2. pW = Wrap(at) /\ pW \in Slots /\ pN <= pCount
  BY DEF IInv, TypeOK, ProducerInv, WriteEnd
<1>3. pN < pCount => at = pKnown + (Capacity - 1)
  BY NoRoomLeft DEF WriteEnd
<1>4. TypeOK'
  BY <1>1, <1>2 DEF IInv, TypeOK, Stores, WriteEnd, consVars
<1>5. Ordered'
  BY <1>1, CapacityAssumption DEF IInv, TypeOK, Ordered, InFlight, WriteEnd, consVars
<1>6. Positions'
  BY <1>1, <1>2 DEF IInv, TypeOK, Stores, Ordered, Positions, WriteEnd, consVars
<1>7. ProducerInv'
  BY <1>1, <1>3 DEF IInv, ProducerInv, ShortWriteFilledUp, WriteEnd
<1>8. ConsumerInv'
  BY DEF IInv, ConsumerInv, ReadsInOrder, SizeIsReadable, WriteEnd, consVars
<1>9. Contents'
  BY <1>1 DEF IInv, Contents, InFlight, WriteEnd
<1> QED BY <1>4, <1>5, <1>6, <1>7, <1>8, <1>9 DEF IInv

LEMMA WriteShortStep ==
  ASSUME IInv, WriteShort
  PROVE  IInv'
<1>1. pCount - pN \in Nat
  BY DEF IInv, TypeOK, ProducerInv, WriteShort
<1>2. TypeOK'
  BY <1>1 DEF IInv, TypeOK, WriteShort, consVars
<1>3. Ordered' /\ Positions'
  BY DEF IInv, Ordered, Positions, InFlight, WriteShort, consVars
<1>4. ProducerInv' /\ ConsumerInv'
  BY DEF IInv, ProducerInv, ShortWriteFilledUp, ConsumerInv, ReadsInOrder, SizeIsReadable,
         WriteShort, consVars
<1>5. Contents'
  BY DEF IInv, Contents, InFlight, WriteShort
<1> QED BY <1>2, <1>3, <1>4, <1>5 DEF IInv

LEMMA ReadBeginStep ==
  ASSUME IInv, NEW k \in Counts, ReadBegin(k)
  PROVE  IInv'
<1>1. PICK s \in wStores : /\ cSeen' = s.index
                           /\ cKnown' = s.at
                           /\ wStores' = {t \in wStores : t.at >= s.at}
  BY DEF ReadBegin
<1>2. s \in Stores /\ s.index = Wrap(s.at) /\ cKnown <= s.at /\ s.at <= written
  BY DEF IInv, TypeOK, Positions
<1>3. k \in Nat
  BY CountsAssumption
<1>4. TypeOK'
  BY <1>1, <1>2, <1>3 DEF IInv, TypeOK, ReadBegin, prodVars, Stores
<1>5. Ordered'
  BY <1>1, <1>2 DEF IInv, TypeOK, Ordered, InFlight, ReadBegin, prodVars, Stores
<1>6. Positions'
  BY <1>1, <1>2 DEF IInv, Positions, ReadBegin, prodVars
<1>7. ProducerInv'
  BY DEF IInv, ProducerInv, ShortWriteFilledUp, ReadBegin, prodVars
<1>8. ConsumerInv'
  <2>1. dst' = <<>> /\ Len(dst') = 0 /\ cpc' = "copy" /\ cCount' = k /\ cR' = Wrap(consumed')
    BY DEF ReadBegin, IInv, Positions
  <2>2. consumed' = consumed /\ consumed \in Nat /\ consumed + 0 = consumed /\ promised \in Nat
    BY DEF IInv, TypeOK, ReadBegin
  <2>3. consumed <= cKnown' /\ cSeen' = Wrap(cKnown')
    BY <1>1, <1>2 DEF IInv, TypeOK, Ordered, Stores
  <2>4. consumed + promised <= cKnown' /\ promised' = promised
    BY <1>1, <1>2 DEF IInv, TypeOK, ConsumerInv, ReadBegin, Stores
  <2> QED BY <1>3, <2>1, <2>2, <2>3, <2>4 DEF ConsumerInv, ReadsInOrder, SizeIsReadable
<1>9. Contents'
  BY DEF IInv, Contents, InFlight, ReadBegin, prodVars
<1> QED BY <1>4, <1>5, <1>6, <1>7, <1>8, <1>9 DEF IInv

LEMMA ReadCopyStep ==
  ASSUME IInv, ReadCopy
  PROVE  IInv'
<1> DEFINE at == consumed + Len(dst)
<1>1. at \in Nat /\ consumed \in Nat /\ Len(dst) \in Nat /\ dst \in Seq(Nat) /\ cKnown \in Nat
      /\ written \in Nat /\ InFlight \in Nat /\ cCount \in Nat
  BY DEF IInv, TypeOK, InFlight
<1>2. at + 1 <= cKnown
  BY MoreToLoad DEF ReadCopy
<1>3. cR = Wrap(at) /\ cR \in Slots
  BY DEF IInv, TypeOK, ConsumerInv, ReadCopy
<1>4. cR' = Wrap(at + 1) /\ cR' \in Slots
  <2>1. Wrap(cR + 1) = Wrap(at + 1)
    BY <1>1, <1>3, WrapPlus
  <2>2. cR' = Wrap(cR + 1)
    BY DEF ReadCopy
  <2> QED BY <1>1, <2>1, <2>2, WrapType
<1>5. data[cR] = at + 1
  <2>1. consumed <= at /\ at < written + InFlight
    BY <1>1, <1>2 DEF IInv, Ordered
  <2> QED BY <1>1, <1>3, <2>1 DEF IInv, Contents
<1>6. /\ dst' \in Seq(Nat)
      /\ Len(dst') = Len(dst) + 1
      /\ \A i \in 1..Len(dst) : dst'[i] = dst[i]
      /\ dst'[Len(dst) + 1] = at + 1
  BY <1>1, <1>5 DEF ReadCopy
<1>7. TypeOK'
  BY <1>4, <1>6 DEF IInv, TypeOK, ReadCopy, prodVars
<1>8. Ordered' /\ Positions'
  BY DEF IInv, Ordered, Positions, InFlight, ReadCopy, prodVars
<1>9. ProducerInv'
  BY DEF IInv, ProducerInv, ShortWriteFilledUp, ReadCopy, prodVars
<1>10. ConsumerInv'
  <2>1. \A i \in 1..Len(dst') : dst'[i] = consumed + i
    <3> SUFFICES ASSUME NEW i \in 1..Len(dst') PROVE dst'[i] = consumed + i
      OBVIOUS
    <3>1. CASE i = Len(dst) + 1
      <4>1. dst'[i] = at + 1
        BY <3>1, <1>6
      <4>2. at + 1 = consumed + (Len(dst) + 1)
        BY <1>1
      <4> QED BY <4>1, <4>2, <3>1
    <3>2. CASE i \in 1..Len(dst)
      BY <3>2, <1>6 DEF IInv, ConsumerInv, ReadsInOrder, ReadCopy
    <3>3. i \in 1..(Len(dst) + 1)
      BY <1>6
    <3>4. i = Len(dst) + 1 \/ i \in 1..Len(dst)
      BY <3>3, <1>1
    <3> QED BY <3>1, <3>2, <3>4
  <2>2. at + 1 = consumed + Len(dst')
    BY <1>1, <1>6
  <2>3. Len(dst') <= cCount
    BY <1>1, <1>6 DEF ReadCopy
  <2>4. cpc = "copy" /\ cpc' = "copy" /\ UNCHANGED <<consumed, cKnown, cSeen, cCount, promised>>
    BY DEF ReadCopy
  <2>5. cSeen = Wrap(cKnown) /\ consumed + promised <= cKnown /\ cCount \in Counts
    BY <2>4 DEF IInv, ConsumerInv
  <2> QED BY <1>2, <1>4, <2>1, <2>2, <2>3, <2>4, <2>5 DEF ConsumerInv, ReadsInOrder, SizeIsReadable
<1>11. Contents'
  BY DEF IInv, Contents, InFlight, ReadCopy, prodVars
<1> QED BY <1>7, <1>8, <1>9, <1>10, <1>11 DEF IInv

LEMMA ReadEndStep ==
  ASSUME IInv, ReadEnd
  PROVE  IInv'
<1> DEFINE at == consumed + Len(dst)
<1>1. at \in Nat /\ consumed \in Nat /\ Len(dst) \in Nat /\ cKnown \in Nat /\ cCount \in Nat
      /\ promised \in Nat /\ written \in Nat /\ pKnown \in Nat
  BY DEF IInv, TypeOK
<1>2. cR = Wrap(at) /\ cR \in Slots /\ at <= cKnown /\ Len(dst) <= cCount
  BY DEF IInv, TypeOK, ConsumerInv, ReadEnd
<1>3. Len(dst) < cCount => at = cKnown
  BY AllLoaded DEF ReadEnd
<1>4. TypeOK'
  BY <1>1, <1>2 DEF IInv, TypeOK, Stores, ReadEnd, prodVars
<1>5. Ordered'
  BY <1>1, <1>2 DEF IInv, Ordered, InFlight, ReadEnd, prodVars
<1>6. Positions'
  BY <1>1, <1>2 DEF IInv, TypeOK, Stores, Ordered, Positions, ReadEnd, prodVars
<1>7. ProducerInv'
  BY DEF IInv, ProducerInv, ShortWriteFilledUp, ReadEnd, prodVars
<1>8. ConsumerInv'
  <2>1. consumed + promised <= cKnown /\ cCount \in Counts
    BY DEF IInv, ConsumerInv, ReadEnd
  <2>2. CASE Len(dst) < cCount
    <3>1. promised < cCount
      BY <2>1, <2>2, <1>1, <1>3
    <3> QED BY <2>1, <2>2, <3>1, <1>1 DEF ReadEnd, ConsumerInv, ReadsInOrder, SizeIsReadable
  <2>3. CASE ~(Len(dst) < cCount)
    <3>1. cpc' = "idle" /\ promised' = 0 /\ consumed' = at /\ cKnown' = cKnown
      BY <2>3 DEF ReadEnd
    <3> QED BY <3>1, <1>1, <1>2 DEF ConsumerInv, ReadsInOrder, SizeIsReadable
  <2> QED BY <2>2, <2>3
<1>9. Contents'
  <2>1. \A k \in Nat : consumed' <= k => consumed <= k
    BY <1>1 DEF ReadEnd
  <2> QED BY <2>1 DEF IInv, Contents, InFlight, ReadEnd, prodVars
<1> QED BY <1>4, <1>5, <1>6, <1>7, <1>8, <1>9 DEF IInv

LEMMA ReadShortStep ==
  ASSUME IInv, ReadShort
  PROVE  IInv'
<1>1. cCount - Len(dst) \in Nat
  BY DEF IInv, TypeOK, ConsumerInv, ReadShort
<1>2. TypeOK'
  BY <1>1 DEF IInv, TypeOK, ReadShort, prodVars
<1>3. Ordered' /\ Positions'
  BY DEF IInv, Ordered, Positions, InFlight, ReadShort, prodVars
<1>4. ProducerInv'
  BY DEF IInv, ProducerInv, ShortWriteFilledUp, ReadShort, prodVars
<1>5. ConsumerInv'
  BY DEF IInv, TypeOK, Ordered, ConsumerInv, ReadsInOrder, SizeIsReadable, ReadShort
<1>6. Contents'
  BY DEF IInv, Contents, InFlight, ReadShort, prodVars
<1> QED BY <1>2, <1>3, <1>4, <1>5, <1>6 DEF IInv

LEMMA SizeApproxStep ==
  ASSUME IInv, SizeApprox
  PROVE  IInv'
<1>1. PICK s \in wStores : /\ cKnown' = s.at
                           /\ wStores' = {t \in wStores : t.at >= s.at}
                           /\ promised' = Occupied(s.index, rIndex)
  BY DEF SizeApprox
<1>2. s \in Stores /\ s.index = Wrap(s.at) /\ cKnown <= s.at /\ s.at <= written
  BY DEF IInv, TypeOK, Positions
<1>3. s.at \in Nat /\ consumed \in Nat /\ cKnown \in Nat /\ written \in Nat /\ pKnown \in Nat
      /\ InFlight \in Nat
  BY <1>2 DEF IInv, TypeOK, Stores, InFlight
<1>4. consumed <= s.at /\ s.at < consumed + Capacity
  BY <1>2, <1>3, CapacityAssumption DEF IInv, Ordered
<1>5. promised' = s.at - consumed
  BY <1>1, <1>2, <1>3, <1>4, OccupiedIsDistance DEF IInv, Positions
<1>6. TypeOK'
  BY <1>1, <1>3, <1>4, <1>5 DEF IInv, TypeOK, SizeApprox, prodVars
<1>7. Ordered'
  BY <1>1, <1>2, <1>3, <1>4 DEF IInv, Ordered, InFlight, SizeApprox, prodVars
<1>8. Positions'
  BY <1>1, <1>2 DEF IInv, Positions, SizeApprox, prodVars
<1>9. ProducerInv'
  BY DEF IInv, ProducerInv, ShortWriteFilledUp, SizeApprox, prodVars
<1>10. ConsumerInv'
  BY <1>1, <1>3, <1>5 DEF IInv, ConsumerInv, ReadsInOrder, SizeIsReadable, SizeApprox
<1>11. Contents'
  BY DEF IInv, Contents, InFlight, SizeApprox, prodVars
<1> QED BY <1>6, <1>7, <1>8, <1>9, <1>10, <1>11 DEF IInv

LEMMA StutterStep == IInv /\ UNCHANGED vars => IInv'
  BY DEF IInv, TypeOK, Ordered, Positions, ProducerInv, ConsumerInv, Contents, InFlight,
         ShortWriteFilledUp, ReadsInOrder, SizeIsReadable, vars, prodVars, consVars

LEMMA NextIInv == IInv /\ [Next]_vars => IInv'
<1> SUFFICES ASSUME IInv, [Next]_vars PROVE IInv'
  OBVIOUS
<1>1. CASE Producer
  BY <1>1, WriteBeginStep, WriteCopyStep, WriteEndStep, WriteShortStep DEF Producer
<1>2. CASE Consumer
  BY <1>2, ReadBeginStep, ReadCopyStep, ReadEndStep, ReadShortStep, SizeApproxStep DEF Consumer
<1>3. CASE UNCHANGED vars
  BY <1>3, StutterStep
<1> QED BY <1>1, <1>2, <1>3 DEF Next

THEOREM Invariance == Spec => []IInv
  BY InitIInv, NextIInv, PTL DEF Spec

-----------------------------------------------------------------------------
(* What the runs check, for every instance.                                *)

(* The cursors never leave the storage and every variable keeps its type.  *)
THEOREM TypeCorrect == Spec => []TypeOK
<1>1. IInv => TypeOK
  BY DEF IInv
<1> QED BY <1>1, Invariance, PTL

(* write() and read() never touch the same slot at once: the plain array   *)
(* data_ needs no lock.                                                    *)
THEOREM RaceFree == Spec => []NoSlotRace
<1>1. IInv => NoSlotRace
  <2> SUFFICES ASSUME IInv, NEW s \in Slots, ProducerStoresInto(s), ConsumerLoadsFrom(s)
               PROVE  FALSE
    BY DEF NoSlotRace
  <2> DEFINE a == consumed + Len(dst)
             b == written + pN
  <2>1. a \in Nat /\ b \in Nat /\ consumed \in Nat /\ Len(dst) \in Nat /\ written \in Nat
        /\ pN \in Nat /\ cKnown \in Nat /\ pKnown \in Nat
    BY DEF IInv, TypeOK
  <2>2. a + 1 <= cKnown /\ b + 1 <= pKnown + (Capacity - 1)
    BY MoreToLoad, RoomLeft DEF ConsumerLoadsFrom, ProducerStoresInto
  <2>3. a < b /\ b < a + Capacity
    BY <2>1, <2>2, CapacityAssumption DEF IInv, Ordered
  <2>4. Wrap(a) # Wrap(b)
    BY <2>1, <2>3, WrapApart
  <2>5. s = Wrap(b) /\ s = Wrap(a)
    BY DEF IInv, ProducerInv, ConsumerInv, ProducerStoresInto, ConsumerLoadsFrom
  <2> QED BY <2>4, <2>5
<1> QED BY <1>1, Invariance, PTL

(* read() hands over the next elements in the order write() accepted them. *)
THEOREM Fifo == Spec => []ReadsInOrder
<1>1. IInv => ReadsInOrder
  BY DEF IInv, ConsumerInv
<1> QED BY <1>1, Invariance, PTL

(* write() refuses an element only when capacity() elements are ahead of   *)
(* the newest release it has seen.                                         *)
THEOREM RefusesOnlyWhenFull == Spec => []ShortWriteFilledUp
<1>1. IInv => ShortWriteFilledUp
  BY DEF IInv, ProducerInv
<1> QED BY <1>1, Invariance, PTL

(* A consumer may rely on what its sizeApprox() returned.                  *)
THEOREM SizeApproxIsLowerBound == Spec => []SizeIsReadable
<1>1. IInv => SizeIsReadable
  BY DEF IInv, ConsumerInv
<1> QED BY <1>1, Invariance, PTL

-----------------------------------------------------------------------------
(* The refinement of SpscQueue.                                            *)

\* The queue a state stands for holds the numbers between the two positions.
LEMMA QueuedIs ==
  IInv => Queued = [i \in 1 .. (written - consumed) |-> consumed + i]
<1> SUFFICES ASSUME IInv PROVE Queued = [i \in 1 .. (written - consumed) |-> consumed + i]
  OBVIOUS
<1>1. written \in Nat /\ consumed \in Nat /\ InFlight \in Nat
  BY DEF IInv, TypeOK, InFlight
<1>2. ASSUME NEW i \in 1 .. (written - consumed)
      PROVE  data[Wrap(consumed + i - 1)] = consumed + i
  <2> DEFINE k == consumed + i - 1
  <2>1. k \in Nat /\ consumed <= k /\ k < written + InFlight /\ k + 1 = consumed + i
    BY <1>1
  <2>2. data[Wrap(k)] = k + 1
    BY <2>1 DEF IInv, Contents
  <2> QED BY <2>1, <2>2
<1> QED BY <1>2 DEF Queued

LEMMA QueueUnchanged ==
  ASSUME IInv, IInv', UNCHANGED <<written, consumed>>
  PROVE  UNCHANGED Queued
<1>1. Queued = [i \in 1 .. (written - consumed) |-> consumed + i]
  BY QueuedIs
<1>2. (IInv => Queued = [i \in 1 .. (written - consumed) |-> consumed + i])'
  BY QueuedIs, PTL
<1> QED BY <1>1, <1>2

LEMMA WriteEndIsPut ==
  ASSUME IInv, IInv', WriteEnd
  PROVE  pN \in UNION {0..k : k \in Counts} /\ Queue!Put(pN)
<1>1. written \in Nat /\ consumed \in Nat /\ pN \in Nat /\ pCount \in Nat /\ consumed <= written
      /\ pKnown \in Nat
  BY DEF IInv, TypeOK, Ordered
<1>2. pN \in 0..pCount /\ pCount \in Counts
  BY <1>1 DEF IInv, ProducerInv, WriteEnd
<1>3. written + pN <= consumed + (Capacity - 1)
  BY <1>1, CapacityAssumption DEF IInv, Ordered, InFlight, WriteEnd
<1>4. Queued = [i \in 1 .. (written - consumed) |-> consumed + i]
  BY QueuedIs
<1>5. (IInv => Queued = [i \in 1 .. (written - consumed) |-> consumed + i])'
  BY QueuedIs, PTL
<1>6. written' = written + pN /\ consumed' = consumed
  BY DEF WriteEnd
<1>7. Queued' = [i \in 1 .. ((written + pN) - consumed) |-> consumed + i]
  BY <1>5, <1>6
<1>8. Len(Queued) = written - consumed
  BY <1>1, <1>4
<1>9. Queued' = Queued \o [i \in 1..pN |-> written + i]
  BY <1>1, <1>4, <1>7
<1>10. Len(Queued) + pN <= Capacity - 1
  BY <1>1, <1>3, <1>8, CapacityAssumption
<1>11. UNCHANGED <<overruns, underruns, got>>
  BY DEF WriteEnd, consVars
<1> QED BY <1>2, <1>6, <1>9, <1>10, <1>11 DEF Queue!Put

LEMMA ReadEndIsTake ==
  ASSUME IInv, IInv', ReadEnd
  PROVE  Len(dst) \in UNION {0..k : k \in Counts} /\ Queue!Take(Len(dst))
<1> DEFINE n == Len(dst)
<1>1. written \in Nat /\ consumed \in Nat /\ n \in Nat /\ cCount \in Nat /\ dst \in Seq(Nat)
      /\ cKnown \in Nat /\ cKnown <= written
  BY DEF IInv, TypeOK, Ordered
<1>2. n \in 0..cCount /\ cCount \in Counts
  BY <1>1 DEF IInv, ConsumerInv, ReadEnd
<1>3. consumed + n <= written
  BY <1>1 DEF IInv, ConsumerInv, ReadEnd
<1>4. Queued = [i \in 1 .. (written - consumed) |-> consumed + i]
  BY QueuedIs
<1>5. (IInv => Queued = [i \in 1 .. (written - consumed) |-> consumed + i])'
  BY QueuedIs, PTL
<1>6. written' = written /\ consumed' = consumed + n
  BY DEF ReadEnd
<1>7. Queued' = [i \in 1 .. (written - (consumed + n)) |-> (consumed + n) + i]
  BY <1>5, <1>6
<1>8. Len(Queued) = written - consumed /\ n <= Len(Queued)
  BY <1>1, <1>3, <1>4
<1>9. dst = [i \in 1..n |-> consumed + i]
  BY <1>1 DEF IInv, ConsumerInv, ReadsInOrder, ReadEnd
<1>10. SubSeq(Queued, 1, n) = dst
  BY <1>1, <1>3, <1>4, <1>9
<1>11. SubSeq(Queued, n + 1, Len(Queued)) = Queued'
  <2> DEFINE l == written - consumed - n
  <2>1. l \in Nat /\ written - (consumed + n) = l /\ Len(Queued) - (n + 1) + 1 = l
    BY <1>1, <1>3, <1>8
  <2>2. SubSeq(Queued, n + 1, Len(Queued)) = [i \in 1..l |-> Queued[i + n]]
    BY <1>1, <1>3, <1>4, <1>8, <2>1
  <2>3. \A i \in 1..l : Queued[i + n] = (consumed + n) + i
    BY <1>1, <1>3, <1>4, <2>1
  <2> QED BY <2>1, <2>2, <2>3, <1>7
<1>12. UNCHANGED <<written, overruns, underruns>> /\ got' = dst
  BY DEF ReadEnd
<1> QED BY <1>2, <1>8, <1>10, <1>11, <1>12 DEF Queue!Take

LEMMA StepIsQueueStep ==
  ASSUME IInv, IInv', [Next]_vars
  PROVE  [Queue!Next]_(Queue!vars)
<1> USE DEF Queue!vars
<1>1. ASSUME NEW k \in Counts, WriteBegin(k) PROVE UNCHANGED Queue!vars
  BY <1>1, QueueUnchanged DEF WriteBegin, consVars
<1>2. CASE WriteCopy
  BY <1>2, QueueUnchanged DEF WriteCopy, consVars
<1>3. CASE WriteEnd
  BY <1>3, WriteEndIsPut DEF Queue!Next
<1>4. CASE WriteShort
  <2>1. pCount - pN \in 0..pCount /\ pCount \in Counts
    BY <1>4 DEF IInv, TypeOK, ProducerInv, WriteShort
  <2>2. Queue!Refuse(pCount - pN)
    BY <1>4, QueueUnchanged DEF Queue!Refuse, WriteShort, consVars
  <2> QED BY <2>1, <2>2 DEF Queue!Next
<1>5. ASSUME NEW k \in Counts, ReadBegin(k) PROVE UNCHANGED Queue!vars
  BY <1>5, QueueUnchanged DEF ReadBegin, prodVars
<1>6. CASE ReadCopy
  BY <1>6, QueueUnchanged DEF ReadCopy, prodVars
<1>7. CASE ReadEnd
  BY <1>7, ReadEndIsTake DEF Queue!Next
<1>8. CASE ReadShort
  <2>1. cCount - Len(dst) \in 0..cCount /\ cCount \in Counts
    BY <1>8 DEF IInv, TypeOK, ConsumerInv, ReadShort
  <2>2. Queue!Miss(cCount - Len(dst))
    BY <1>8, QueueUnchanged DEF Queue!Miss, ReadShort
  <2> QED BY <2>1, <2>2 DEF Queue!Next
<1>9. CASE SizeApprox
  BY <1>9, QueueUnchanged DEF SizeApprox, prodVars
<1>10. CASE UNCHANGED vars
  BY <1>10, QueueUnchanged DEF vars, consVars
<1> QED BY <1>1, <1>2, <1>3, <1>4, <1>5, <1>6, <1>7, <1>8, <1>9, <1>10
        DEF Next, Producer, Consumer

(* RingBuffer implements SpscQueue: seen through the slots between the two *)
(* indices it is a bounded FIFO that loses, repeats and reorders nothing.  *)
THEOREM Refinement == Spec => ImplementsQueue
<1>1. Init => Queue!Init
  <2> SUFFICES ASSUME Init PROVE Queue!Init
    OBVIOUS
  <2>1. Queued = <<>>
    BY DEF Queued, Init
  <2> QED BY <2>1 DEF Queue!Init, Init
<1>2. IInv /\ IInv' /\ [Next]_vars => [Queue!Next]_(Queue!vars)
  BY StepIsQueueStep
<1> QED BY <1>1, <1>2, Invariance, PTL DEF Spec, ImplementsQueue, Queue!Spec

-----------------------------------------------------------------------------
(* Streams: numbers and sequences.                                         *)

LEMMA StreamNumbers ==
  /\ Channels \in Nat \ {0} /\ MaxBlock \in Nat \ {0} /\ RingFrames \in Nat \ {0}
  /\ 1 \in Chans /\ Channels \in Chans
  /\ \A c \in Chans : c \in Nat /\ 1 <= c /\ c <= Channels
  BY MultiSourceAssumption DEF Chans

\* The lesser of two numbers.
LEMMA MinOfTwo ==
  ASSUME NEW a \in Int, NEW b \in Int
  PROVE  /\ Min({a, b}) \in Int /\ Min({a, b}) <= a /\ Min({a, b}) <= b
         /\ Min({a, b}) = a \/ Min({a, b}) = b
<1>1. \E x \in {a, b} : \A y \in {a, b} : x <= y
  <2>1. CASE a <= b
    BY <2>1
  <2>2. CASE b <= a
    BY <2>2
  <2> QED BY <2>1, <2>2
<1> DEFINE m == CHOOSE x \in {a, b} : \A y \in {a, b} : x <= y
<1>2. m \in {a, b} /\ \A y \in {a, b} : m <= y
  BY <1>1
<1>3. Min({a, b}) = m
  BY DEF Min
<1> HIDE DEF m
<1> QED BY <1>2, <1>3

\* The front of a sequence, its rest, and silence.
LEMMA FrontIs ==
  ASSUME NEW S, NEW q \in Seq(S), NEW n \in Nat
  PROVE  /\ Prefix(q, n) \in Seq(S) /\ Len(Prefix(q, n)) = Min({n, Len(q)})
         /\ \A k \in 1 .. Len(Prefix(q, n)) : Prefix(q, n)[k] = q[k]
<1> DEFINE m == Min({n, Len(q)})
<1>1. m \in 0 .. Len(q)
  <2>1. Len(q) \in Nat /\ n \in Int /\ Len(q) \in Int
    OBVIOUS
  <2>2. m \in Int /\ m <= n /\ m <= Len(q) /\ (m = n \/ m = Len(q))
    BY <2>1, MinOfTwo, Zenon
  <2> QED BY <2>1, <2>2
<1> HIDE DEF m
<1>2. /\ SubSeq(q, 1, m) \in Seq(S) /\ Len(SubSeq(q, 1, m)) = m
      /\ \A k \in 1 .. m : SubSeq(q, 1, m)[k] = q[k]
  BY <1>1
<1>3. Prefix(q, n) = SubSeq(q, 1, m)
  BY DEF Prefix, m
<1> QED BY <1>2, <1>3 DEF m

LEMMA RestIs ==
  ASSUME NEW S, NEW q \in Seq(S), NEW n \in Nat
  PROVE  /\ Suffix(q, n) \in Seq(S) /\ Len(Suffix(q, n)) = Len(q) - Min({n, Len(q)})
         /\ \A k \in 1 .. Len(Suffix(q, n)) : n + k \in 1 .. Len(q) /\ Suffix(q, n)[k] = q[n + k]
<1>0. Len(q) \in Nat /\ n \in Int /\ Len(q) \in Int
  OBVIOUS
<1> DEFINE m == Min({n, Len(q)})
<1>m. m \in Int /\ m <= n /\ m <= Len(q) /\ (m = n \/ m = Len(q))
  BY <1>0, MinOfTwo, Zenon
<1> HIDE DEF m
<1>1. CASE n <= Len(q)
  <2>1. m = n
    BY <1>0, <1>m, <1>1
  <2>2. /\ SubSeq(q, n + 1, Len(q)) \in Seq(S) /\ Len(SubSeq(q, n + 1, Len(q))) = Len(q) - n
        /\ \A k \in 1 .. (Len(q) - n) : SubSeq(q, n + 1, Len(q))[k] = q[n + k]
    BY <1>1
  <2> QED BY <1>0, <2>1, <2>2 DEF Suffix, m
<1>2. CASE n > Len(q)
  <2>1. m = Len(q)
    BY <1>0, <1>m, <1>2
  <2>2. SubSeq(q, n + 1, Len(q)) \in Seq(S) /\ Len(SubSeq(q, n + 1, Len(q))) = 0
    BY <1>2
  <2> QED BY <1>0, <2>1, <2>2 DEF Suffix, m
<1> QED BY <1>1, <1>2

LEMMA SilenceIs ==
  ASSUME NEW n \in Nat, NEW S, Silence \in S
  PROVE  Silent(n) \in Seq(S) /\ Len(Silent(n)) = n
  BY DEF Silent

-----------------------------------------------------------------------------
(* The calls of a thread.                                                  *)

Ops == {"push", "drain", "exec", "fill", "pop", "send", "pull", "capture", "take", "emit"}
         \X Streams \X Chans

\* The operations that walk the rings of the manager.
Walking == {"push", "drain", "fill", "pop"}

\* The thread that has an operation, and the last channel it comes to.
Owner(op, s) ==
  IF op \in {"push", "capture"} THEN Source[s]
  ELSE IF op = "pop" /\ s = 1 THEN "sink" ELSE "master"
Upto(op, s) == IF op = "pop" THEN Drained("out", s) ELSE Channels

Mine(t, a) ==
  /\ a[1] \in Walking \union {"capture"} => t = Owner(a[1], a[2])
  /\ a[1] \in Walking => a[3] <= Upto(a[1], a[2])
  /\ a[1] = "pull" => a[2] = 0

\* What comes after an operation: its next channel, or the first of another.
OnItsWay(a) == a[1] \in Walking /\ a[3] < Upto(a[1], a[2])
Follows(a, b) ==
  IF OnItsWay(a) THEN b = <<a[1], a[2], a[3] + 1>> ELSE b[3] = 1 \/ b[1] \notin Walking

Walks(t, q) ==
  \A i \in 1 .. Len(q) :
    /\ Mine(t, q[i])
    /\ i < Len(q) => Follows(q[i], q[i + 1])
    /\ i = Len(q) => ~OnItsWay(q[i])

\* A call: it starts at the first channel.
Fits(t, q) == q \in Seq(Ops) /\ Walks(t, q) /\ (q # <<>> => q[1][3] = 1)

LEMMA FitsNothing == \A t : Fits(t, <<>>)
  BY DEF Fits, Walks

LEMMA FitsBoth ==
  ASSUME NEW t, NEW p, NEW q, Fits(t, p), Fits(t, q)
  PROVE  Fits(t, p \o q)
<1> DEFINE r == p \o q
<1>1. p \in Seq(Ops) /\ q \in Seq(Ops)
  BY DEF Fits
<1>2. /\ r \in Seq(Ops) /\ Len(r) = Len(p) + Len(q) /\ Len(p) \in Nat /\ Len(q) \in Nat
      /\ \A k \in 1 .. Len(p) : r[k] = p[k]
      /\ \A k \in 1 .. Len(q) : r[Len(p) + k] = q[k]
  BY <1>1
<1>3. Walks(t, p) /\ Walks(t, q)
  BY DEF Fits
<1>4. p # <<>> => p[1][3] = 1
  BY DEF Fits
<1>5. q # <<>> => q[1][3] = 1
  BY DEF Fits
<1>6. (p = <<>> <=> Len(p) = 0) /\ (q = <<>> <=> Len(q) = 0)
  BY <1>1
<1> HIDE DEF r
<1>7. ASSUME NEW i \in 1 .. Len(r)
      PROVE  /\ Mine(t, r[i])
             /\ i < Len(r) => Follows(r[i], r[i + 1])
             /\ i = Len(r) => ~OnItsWay(r[i])
  <2>1. CASE i < Len(p)
    <3>1. i \in 1 .. Len(p) /\ i + 1 \in 1 .. Len(p) /\ r[i] = p[i] /\ r[i + 1] = p[i + 1] /\ i # Len(r)
      BY <1>2, <2>1
    <3> QED BY <1>3, <2>1, <3>1 DEF Walks
  <2>2. CASE i = Len(p)
    <3>1. i \in 1 .. Len(p) /\ r[i] = p[i] /\ Mine(t, p[i]) /\ ~OnItsWay(p[i])
      BY <1>2, <1>3, <2>2 DEF Walks
    <3>2. i < Len(r) => r[i + 1] = q[1] /\ q[1][3] = 1
      BY <1>2, <1>5, <1>6, <2>2
    <3> QED BY <3>1, <3>2 DEF Follows
  <2>3. CASE i > Len(p)
    <3> DEFINE j == i - Len(p)
    <3>1. j \in 1 .. Len(q) /\ r[i] = q[j] /\ (i < Len(r) <=> j < Len(q)) /\ (i = Len(r) <=> j = Len(q))
      BY <1>2, <2>3
    <3>2. j < Len(q) => r[i + 1] = q[j + 1]
      <4>1. Len(p) + (j + 1) = i + 1
        BY <1>2
      <4>2. \A k \in 1 .. Len(q) : r[Len(p) + k] = q[k]
        BY <1>2
      <4>3. j < Len(q) => j + 1 \in 1 .. Len(q)
        BY <1>2, <3>1
      <4> HIDE DEF j
      <4> QED BY <4>1, <4>2, <4>3
    <3> HIDE DEF j
    <3> QED BY <1>3, <3>1, <3>2 DEF Walks
  <2> QED BY <1>2, <2>1, <2>2, <2>3
<1>8. r # <<>> => r[1][3] = 1
  <2>1. CASE Len(p) = 0
    BY <1>2, <1>5, <1>6, <2>1
  <2>2. CASE Len(p) > 0
    BY <1>2, <1>4, <1>6, <2>2
  <2> QED BY <1>2, <2>1, <2>2
<1> QED BY <1>2, <1>7, <1>8 DEF Fits, Walks, r

OpNames == {"push", "drain", "exec", "fill", "pop", "send", "pull", "capture", "take", "emit"}

LEMMA EachIs ==
  ASSUME NEW op \in OpNames, NEW s \in Streams
  PROVE  /\ Each(op, s) \in Seq(Ops) /\ Len(Each(op, s)) = Channels
         /\ \A i \in 1 .. Channels : Each(op, s)[i] = <<op, s, i>>
<1>1. \A c \in Chans : <<op, s, c>> \in Ops
  BY DEF Ops, OpNames
<1> QED BY <1>1, StreamNumbers DEF Each, Chans

LEMMA FitsEach ==
  ASSUME NEW t, NEW op \in OpNames, NEW s \in Streams, NEW n \in 0 .. Channels,
         op \in Walking \union {"capture"} => t = Owner(op, s),
         op \in Walking => n = Upto(op, s), op = "pull" => s = 0
  PROVE  Fits(t, Prefix(Each(op, s), n))
<1> DEFINE e == Each(op, s)
           q == Prefix(e, n)
<1>1. e \in Seq(Ops) /\ Len(e) = Channels /\ \A i \in 1 .. Channels : e[i] = <<op, s, i>>
  BY EachIs
<1>2. n \in Nat /\ Channels \in Nat /\ n <= Channels /\ Min({n, Channels}) = n
  <2>1. n \in Nat /\ Channels \in Nat /\ n <= Channels /\ n \in Int /\ Channels \in Int
    BY StreamNumbers
  <2>2. Min({n, Channels}) <= n /\ (Min({n, Channels}) = n \/ Min({n, Channels}) = Channels)
    BY <2>1, MinOfTwo, Zenon
  <2> QED BY <2>1, <2>2
<1> HIDE DEF e
<1>3. q \in Seq(Ops) /\ Len(q) = n /\ \A k \in 1 .. n : q[k] = e[k]
  BY <1>1, <1>2, FrontIs
<1> HIDE DEF q
<1>4. \A i \in 1 .. n : q[i] = <<op, s, i>>
  BY <1>1, <1>2, <1>3
<1>5. ASSUME NEW i \in 1 .. Len(q)
      PROVE  /\ Mine(t, q[i])
             /\ i < Len(q) => Follows(q[i], q[i + 1])
             /\ i = Len(q) => ~OnItsWay(q[i])
  <2>1. q[i] = <<op, s, i>> /\ (i < n => q[i + 1] = <<op, s, i + 1>>)
    BY <1>2, <1>3, <1>4
  <2>2. Mine(t, q[i])
    BY <1>2, <1>3, <2>1 DEF Mine
  <2>3. i < Len(q) => Follows(q[i], q[i + 1])
    BY <1>2, <1>3, <2>1 DEF Follows, OnItsWay
  <2>4. i = Len(q) => ~OnItsWay(q[i])
    BY <1>2, <1>3, <2>1 DEF OnItsWay
  <2> QED BY <2>2, <2>3, <2>4
<1>6. q # <<>> => q[1][3] = 1
  BY <1>2, <1>3, <1>4
<1> QED BY <1>3, <1>5, <1>6 DEF Fits, Walks, q, e

LEMMA WholeEach ==
  ASSUME NEW op \in OpNames, NEW s \in Streams
  PROVE  Prefix(Each(op, s), Channels) = Each(op, s)
<1> DEFINE e == Each(op, s)
           q == Prefix(e, Channels)
<1>1. e \in Seq(Ops) /\ Len(e) = Channels
  BY EachIs
<1>2. Channels \in Nat /\ Min({Channels, Channels}) = Channels
  BY StreamNumbers, MinOfTwo
<1> HIDE DEF e
<1>3. q \in Seq(Ops) /\ Len(q) = Channels /\ \A k \in 1 .. Channels : q[k] = e[k]
  BY <1>1, <1>2, FrontIs
<1> HIDE DEF q
<1>4. q = e
  BY <1>1, <1>3
<1> QED BY <1>4 DEF q, e

LEMMA FitsWhole ==
  ASSUME NEW t, NEW op \in OpNames, NEW s \in Streams,
         op \in Walking \union {"capture"} => t = Owner(op, s),
         op = "pop" => Drained("out", s) = Channels, op = "pull" => s = 0
  PROVE  Fits(t, Each(op, s))
<1>1. Channels \in 0 .. Channels
  BY StreamNumbers
<1>2. op \in Walking => Channels = Upto(op, s)
  BY DEF Upto
<1> QED BY <1>1, <1>2, FitsEach, WholeEach

LEMMA FitsExec == \A t : Fits(t, <<<<"exec", 0, 1>>>>)
<1> DEFINE q == <<<<"exec", 0, 1>>>>
<1>1. <<"exec", 0, 1>> \in Ops
  BY StreamNumbers DEF Ops, Streams
<1>2. q \in Seq(Ops) /\ Len(q) = 1 /\ q[1] = <<"exec", 0, 1>>
  BY <1>1
<1> HIDE DEF q
<1>3. \A t : \A i \in 1 .. Len(q) : /\ Mine(t, q[i])
                                    /\ i < Len(q) => Follows(q[i], q[i + 1])
                                    /\ i = Len(q) => ~OnItsWay(q[i])
  BY <1>2 DEF Mine, OnItsWay, Walking
<1> QED BY <1>2, <1>3 DEF Fits, Walks, q

LEMMA FitsProcess == Fits("master", process)
<1>1. /\ Fits("master", Each("drain", 0)) /\ Fits("master", Each("drain", 1))
      /\ Fits("master", Each("fill", 0)) /\ Fits("master", Each("fill", 1))
  <2>1. \A op \in {"drain", "fill"} : \A s \in {0, 1} : op \in OpNames /\ s \in Streams /\ Owner(op, s) = "master"
    BY DEF OpNames, Streams, Owner
  <2> QED BY <2>1, FitsWhole
<1>2. Fits("master", <<<<"exec", 0, 1>>>>)
  BY FitsExec
<1>3. Fits("master", Each("drain", 0) \o Each("drain", 1))
  BY <1>1, FitsBoth
<1>4. Fits("master", (Each("drain", 0) \o Each("drain", 1)) \o <<<<"exec", 0, 1>>>>)
  BY <1>2, <1>3, FitsBoth
<1>5. Fits("master", ((Each("drain", 0) \o Each("drain", 1)) \o <<<<"exec", 0, 1>>>>) \o Each("fill", 0))
  BY <1>1, <1>4, FitsBoth
<1>6. Fits("master", (((Each("drain", 0) \o Each("drain", 1)) \o <<<<"exec", 0, 1>>>>)
                         \o Each("fill", 0)) \o Each("fill", 1))
  BY <1>1, <1>5, FitsBoth
<1> QED BY <1>6 DEF process

\* The channels a device plays, of those the manager has.
Shown == Min({device.out, Channels})

LEMMA ShownIs ==
  ASSUME device \in Devices
  PROVE  /\ device.in \in Nat /\ device.out \in Nat
         /\ Shown \in 0 .. Channels /\ Shown <= device.out /\ (Shown = device.out \/ Shown = Channels)
         /\ \A c \in Chans : c <= device.out <=> c <= Shown
         /\ \A op \in OpNames, s \in Streams : Prefix(Each(op, s), device.out) = Prefix(Each(op, s), Shown)
<1>1. device.in \in Nat /\ device.out \in Nat
  BY MultiSourceAssumption
<1>2. /\ Shown \in Int /\ Shown <= device.out /\ Shown <= Channels
      /\ (Shown = device.out \/ Shown = Channels)
  <2>1. device.out \in Int /\ Channels \in Int
    BY <1>1, StreamNumbers
  <2> QED BY <2>1, MinOfTwo, Zenon DEF Shown
<1>3. Shown \in 0 .. Channels
  BY <1>1, <1>2, StreamNumbers
<1>4. Min({Shown, Channels}) = Shown
  <2>1. Shown \in Int /\ Channels \in Int
    BY <1>3, StreamNumbers
  <2>2. /\ Min({Shown, Channels}) <= Shown
        /\ (Min({Shown, Channels}) = Shown \/ Min({Shown, Channels}) = Channels)
    BY <2>1, MinOfTwo, Zenon
  <2> QED BY <1>2, <2>1, <2>2
<1>5. ASSUME NEW op \in OpNames, NEW s \in Streams
      PROVE  Prefix(Each(op, s), device.out) = Prefix(Each(op, s), Shown)
  <2>1. Len(Each(op, s)) = Channels
    BY EachIs
  <2>2. Min({device.out, Channels}) = Min({Shown, Channels})
    BY <1>4 DEF Shown
  <2> QED BY <2>1, <2>2 DEF Prefix
<1>6. \A c \in Chans : c <= device.out <=> c <= Shown
  BY <1>1, <1>2, StreamNumbers
<1> QED BY <1>1, <1>2, <1>3, <1>5, <1>6

LEMMA FitsPump ==
  ASSUME device \in Devices
  PROVE  Fits("master", pump)
<1>1. Fits("master", Each("take", 0)) /\ Fits("master", Each("take", 1))
  <2>1. \A s \in {0, 1} : "take" \in OpNames /\ s \in Streams /\ "take" \notin Walking \union {"capture"}
    BY DEF OpNames, Streams, Walking
  <2> QED BY <2>1, FitsWhole
<1>2. Fits("master", Prefix(Each("emit", 0), device.out))
  <2>1. "emit" \in OpNames /\ 0 \in Streams /\ "emit" \notin Walking \union {"capture"}
    BY DEF OpNames, Streams, Walking
  <2>2. Shown \in 0 .. Channels /\ Prefix(Each("emit", 0), device.out) = Prefix(Each("emit", 0), Shown)
    BY <2>1, ShownIs
  <2> QED BY <2>1, <2>2, FitsEach
<1>3. Fits("master", <<<<"exec", 0, 1>>>>)
  BY FitsExec
<1>4. Fits("master", Each("take", 0) \o Each("take", 1))
  BY <1>1, FitsBoth
<1>5. Fits("master", (Each("take", 0) \o Each("take", 1)) \o <<<<"exec", 0, 1>>>>)
  BY <1>3, <1>4, FitsBoth
<1>6. Fits("master", ((Each("take", 0) \o Each("take", 1)) \o <<<<"exec", 0, 1>>>>)
                        \o Prefix(Each("emit", 0), device.out))
  BY <1>2, <1>5, FitsBoth
<1> QED BY <1>6 DEF pump

LEMMA FitsWhen ==
  ASSUME NEW t, NEW p, NEW q, Fits(t, q)
  PROVE  Fits(t, When(p, q))
  BY FitsNothing DEF When

Wirings == {"adapter", "bridge", "live"}

\* Every call of every wiring fits.
LEMMA ProgramFits ==
  ASSUME wiring \in Wirings, device \in Devices
  PROVE  \A t \in DOMAIN Program : Fits(t, Program[t])
<1>1. Shown \in 0 .. Channels
  BY ShownIs
<1>2. 0 \in Streams /\ 1 \in Streams
  BY DEF Streams
<1>3. {"push", "pop", "send", "pull", "capture"} \subseteq OpNames
  BY DEF OpNames
<1>4. Fits("source", pushInput(1))
  <2>1. Owner("push", 1) = "source"
    BY DEF Owner, Source, Streams
  <2>2. Fits("source", Each("push", 1))
    BY <1>2, <1>3, <2>1, FitsWhole
  <2> QED BY <2>2 DEF pushInput
<1>5. wiring # "live" => Fits("master", When(device.in > 0, pushInput(0)))
  <2> SUFFICES ASSUME wiring # "live" PROVE Fits("master", When(device.in > 0, pushInput(0)))
    OBVIOUS
  <2>1. Owner("push", 0) = "master"
    BY DEF Owner, Source, Streams
  <2>2. Fits("master", Each("push", 0))
    BY <1>2, <1>3, <2>1, FitsWhole
  <2> QED BY <2>2, FitsWhen DEF pushInput
<1>6. ASSUME NEW s \in Streams, NEW n \in 0 .. Channels, n = Drained("out", s), NEW t, t = Owner("pop", s)
      PROVE  Fits(t, popOutput(s, n))
  <2>1. n = Upto("pop", s)
    BY <1>6 DEF Upto
  <2> QED BY <1>3, <1>6, <2>1, FitsEach DEF popOutput
<1>7. Owner("pop", 0) = "master" /\ Owner("pop", 1) = "sink"
  BY DEF Owner
<1>8. Channels \in 0 .. Channels
  BY StreamNumbers
<1>9. CASE wiring = "adapter"
  <2>1. Program = [master |-> MasterClockAdapter, source |-> pushInput(1), sink |-> popOutput(1, Channels)]
    BY <1>9 DEF Program
  <2>2. Fits("sink", popOutput(1, Channels))
    BY <1>2, <1>6, <1>7, <1>8 DEF Drained
  <2>3. Fits("master", popOutput(0, device.out))
    <3>1. Shown = Drained("out", 0)
      BY <1>9 DEF Drained, Shown
    <3>2. Fits("master", popOutput(0, Shown))
      BY <1>1, <1>2, <1>6, <1>7, <3>1
    <3>3. popOutput(0, device.out) = popOutput(0, Shown)
      BY <1>2, <1>3, ShownIs DEF popOutput
    <3> QED BY <3>2, <3>3
  <2>4. Fits("master", When(device.out > 0, popOutput(0, device.out)))
    BY <2>3, FitsWhen
  <2>5. Fits("master", When(device.in > 0, pushInput(0)) \o process)
    BY <1>5, <1>9, FitsProcess, FitsBoth
  <2>6. Fits("master", MasterClockAdapter)
    BY <2>4, <2>5, FitsBoth DEF MasterClockAdapter
  <2> HIDE DEF MasterClockAdapter
  <2> QED BY <1>4, <2>1, <2>2, <2>6
<1>10. CASE wiring = "bridge"
  <2>1. Program = [master |-> MasterCb, deviceB |-> OutputCb]
    BY <1>10 DEF Program
  <2>2. Fits("master", popOutput(0, Channels))
    BY <1>2, <1>6, <1>7, <1>8, <1>10 DEF Drained
  <2>3. Fits("master", Each("send", 0)) /\ Fits("deviceB", Each("pull", 0))
    BY <1>2, <1>3, FitsWhole DEF Walking
  <2>4. Fits("master", When(device.in > 0, pushInput(0)) \o process)
    BY <1>5, <1>10, FitsProcess, FitsBoth
  <2>5. Fits("master", (When(device.in > 0, pushInput(0)) \o process) \o popOutput(0, Channels))
    BY <2>2, <2>4, FitsBoth
  <2>6. Fits("master", MasterCb)
    BY <2>3, <2>5, FitsBoth DEF MasterCb
  <2> QED BY <2>1, <2>3, <2>6 DEF OutputCb
<1>11. CASE wiring = "live"
  <2>1. Program = [master |-> pump, source |-> CaptureSourceAdapter(1), deviceB |-> CaptureSourceAdapter(0)]
    BY <1>11 DEF Program
  <2>2. Fits("master", pump)
    BY FitsPump
  <2>3. Owner("capture", 1) = "source" /\ Owner("capture", 0) = "deviceB"
    BY <1>11 DEF Owner, Source, Streams
  <2>4. Fits("source", Each("capture", 1)) /\ Fits("deviceB", Each("capture", 0))
    BY <1>2, <1>3, <2>3, FitsWhole
  <2> QED BY <2>1, <2>2, <2>4 DEF CaptureSourceAdapter
<1> QED BY <1>9, <1>10, <1>11 DEF Wirings

-----------------------------------------------------------------------------
(* What an operation does to a ring.                                       *)

\* The frames of n that a ring with l frames has room for, and those it has.
Fitting(l, n) == Min({n, RingFrames - l})
Present(l, n) == Min({n, l})

LEMMA FittingIs ==
  ASSUME NEW l \in Nat, NEW n \in Nat, l <= RingFrames
  PROVE  /\ Fitting(l, n) \in Nat /\ Fitting(l, n) <= n /\ l + Fitting(l, n) <= RingFrames
         /\ Fitting(l, n) = n \/ l + Fitting(l, n) = RingFrames
<1>1. n \in Int /\ RingFrames - l \in Int /\ RingFrames - l >= 0
  BY StreamNumbers
<1> DEFINE R == RingFrames - l
<1> HIDE DEF R
<1>2. Min({n, R}) \in Int /\ Min({n, R}) <= n /\ Min({n, R}) <= R /\ (Min({n, R}) = n \/ Min({n, R}) = R)
  BY <1>1, MinOfTwo, Zenon DEF R
<1> DEFINE m == Min({n, R})
<1> HIDE DEF m
<1>3. m \in Int /\ m <= n /\ m <= R /\ (m = n \/ m = R)
  BY <1>2 DEF m
<1>4. m \in Nat /\ m <= n /\ l + m <= RingFrames /\ (m = n \/ l + m = RingFrames)
  BY <1>1, <1>3, StreamNumbers DEF R
<1> QED BY <1>4 DEF m, Fitting, R

LEMMA PresentIs ==
  ASSUME NEW l \in Nat, NEW n \in Nat
  PROVE  /\ Present(l, n) \in Nat /\ Present(l, n) <= n /\ Present(l, n) <= l
         /\ Present(l, n) = n \/ Present(l, n) = l
<1>1. n \in Int /\ l \in Int
  OBVIOUS
<1>2. Min({n, l}) \in Int /\ Min({n, l}) <= n /\ Min({n, l}) <= l /\ (Min({n, l}) = n \/ Min({n, l}) = l)
  BY <1>1, MinOfTwo, Zenon
<1> DEFINE m == Min({n, l})
<1> HIDE DEF m
<1>3. m \in Int /\ m <= n /\ m <= l /\ (m = n \/ m = l)
  BY <1>2 DEF m
<1> QED BY <1>3 DEF m, Present

\* The rings and their counters.
RingsAre(S) ==
  /\ ring \in [Rings -> Seq(S)] /\ \A r \in Rings : Len(ring[r]) <= RingFrames
  /\ xruns \in [Rings -> Nat]

Others(r) == \A x \in Rings \ {r} : ring'[x] = ring[x] /\ xruns'[x] = xruns[x]

LEMMA WriteIs ==
  ASSUME NEW S, RingsAre(S), NEW r \in Rings, NEW q \in Seq(S), Write(r, q)
  PROVE  /\ RingsAre(S)' /\ Others(r)
         /\ ring'[r] = ring[r] \o Prefix(q, Fitting(Len(ring[r]), Len(q)))
         /\ Len(ring'[r]) = Len(ring[r]) + Fitting(Len(ring[r]), Len(q))
         /\ xruns'[r] = xruns[r] + Len(q) - Fitting(Len(ring[r]), Len(q))
<1> DEFINE l == Len(ring[r])
           k == Len(q)
           n == Fitting(l, k)
           p == Prefix(q, n)
<1>1. l \in Nat /\ k \in Nat /\ l <= RingFrames /\ ring[r] \in Seq(S) /\ xruns[r] \in Nat
  BY DEF RingsAre
<1>2. n \in Nat /\ n <= k /\ l + n <= RingFrames
  BY <1>1, FittingIs
<1>3. /\ ring' = [ring EXCEPT ![r] = @ \o p]
      /\ xruns' = [xruns EXCEPT ![r] = @ + k - n]
  BY DEF Write, Fitting
<1>4. p \in Seq(S) /\ Len(p) = Min({n, k})
  BY <1>2, FrontIs
<1>5. Present(k, n) = n
  BY <1>1, <1>2, PresentIs
<1>6. Len(p) = n
  BY <1>4, <1>5 DEF Present
<1> HIDE DEF p, n, k, l
<1>7. ring[r] \o p \in Seq(S) /\ Len(ring[r] \o p) = l + n
  <2>1. ASSUME NEW a \in Seq(S) PROVE a \o p \in Seq(S) /\ Len(a \o p) = Len(a) + Len(p)
    BY <1>4
  <2>2. ring[r] \o p \in Seq(S) /\ Len(ring[r] \o p) = Len(ring[r]) + Len(p)
    BY <1>1, <2>1
  <2> QED BY <1>6, <2>2 DEF l
<1>8. ring'[r] = ring[r] \o p /\ xruns'[r] = xruns[r] + k - n
  BY <1>3 DEF RingsAre
<1>9. Others(r)
  BY <1>3 DEF RingsAre, Others
<1>10. xruns[r] + k - n \in Nat
  BY <1>1, <1>2
<1>11. RingsAre(S)'
  <2>1. ring' \in [Rings -> Seq(S)] /\ xruns' \in [Rings -> Nat]
    BY <1>3, <1>7, <1>10 DEF RingsAre
  <2>2. ASSUME NEW x \in Rings PROVE Len(ring'[x]) <= RingFrames
    BY <1>2, <1>7, <1>8, <1>9 DEF RingsAre, Others
  <2> QED BY <2>1, <2>2 DEF RingsAre
<1> QED BY <1>7, <1>8, <1>9, <1>11 DEF p, n, k, l

LEMMA ReadIs ==
  ASSUME NEW S, RingsAre(S), NEW r \in Rings, NEW n \in Nat, Read(r, n)
  PROVE  /\ RingsAre(S)' /\ Others(r)
         /\ ring'[r] = Suffix(ring[r], n)
         /\ Len(ring'[r]) = Len(ring[r]) - Present(Len(ring[r]), n)
         /\ xruns'[r] = xruns[r] + n - Present(Len(ring[r]), n)
<1> DEFINE l == Len(ring[r])
           m == Present(l, n)
           q == Suffix(ring[r], n)
<1>1. l \in Nat /\ l <= RingFrames /\ ring[r] \in Seq(S) /\ xruns[r] \in Nat
  BY DEF RingsAre
<1>2. m \in Nat /\ m <= n /\ m <= l
  BY <1>1, PresentIs
<1>3. q \in Seq(S) /\ Len(q) = l - m
  BY <1>1, RestIs DEF Present
<1>4. Len(Prefix(ring[r], n)) = m
  BY <1>1, FrontIs DEF Present
<1>5. /\ ring' = [ring EXCEPT ![r] = q]
      /\ xruns' = [xruns EXCEPT ![r] = @ + n - m]
  <2>1. ring' = [ring EXCEPT ![r] = Suffix(@, n)]
    BY DEF Read
  <2>2. xruns' = [xruns EXCEPT ![r] = @ + n - Len(Prefix(ring[r], n))]
    BY DEF Read
  <2> QED BY <1>4, <2>1, <2>2
<1> HIDE DEF q, m, l
<1>6. ring'[r] = q /\ xruns'[r] = xruns[r] + n - m
  BY <1>5 DEF RingsAre
<1>7. Others(r)
  BY <1>5 DEF RingsAre, Others
<1>8. xruns[r] + n - m \in Nat
  BY <1>1, <1>2
<1>9. RingsAre(S)'
  <2>1. ring' \in [Rings -> Seq(S)] /\ xruns' \in [Rings -> Nat]
    BY <1>3, <1>5, <1>8 DEF RingsAre
  <2>2. ASSUME NEW x \in Rings PROVE Len(ring'[x]) <= RingFrames
    <3>1. CASE x = r
      <4>1. l - m <= RingFrames
        BY <1>1, <1>2, StreamNumbers
      <4> QED BY <1>3, <1>6, <3>1, <4>1
    <3>2. CASE x # r
      BY <1>7, <3>2 DEF RingsAre, Others
    <3> QED BY <3>1, <3>2
  <2> QED BY <2>1, <2>2 DEF RingsAre
<1> QED BY <1>3, <1>6, <1>7, <1>9 DEF q, m, l

LEMMA PaddedIs ==
  ASSUME NEW S, Silence \in S, RingsAre(S), NEW r \in Rings, NEW n \in Nat
  PROVE  Padded(r, n) \in Seq(S) /\ Len(Padded(r, n)) = n
<1> DEFINE l == Len(ring[r])
           m == Present(l, n)
           p == Prefix(ring[r], n)
<1>1. l \in Nat /\ ring[r] \in Seq(S)
  BY DEF RingsAre
<1>2. m \in Nat /\ m <= n
  BY <1>1, PresentIs
<1>3. p \in Seq(S) /\ Len(p) = m
  BY <1>1, FrontIs DEF Present
<1> HIDE DEF p, m, l
<1>4. n - m \in Nat
  BY <1>2
<1>5. Silent(n - m) \in Seq(S) /\ Len(Silent(n - m)) = n - m
  BY <1>4, SilenceIs
<1>6. p \o Silent(n - m) \in Seq(S) /\ Len(p \o Silent(n - m)) = n
  BY <1>2, <1>3, <1>5
<1> QED BY <1>3, <1>6 DEF Padded, p

\* A block read into a buffer of the manager, which keeps its length.
LEMMA IntoBuffer ==
  ASSUME NEW S, NEW q \in Seq(S), NEW b \in Seq(S), Len(q) <= Len(b)
  PROVE  q \o Suffix(b, Len(q)) \in Seq(S) /\ Len(q \o Suffix(b, Len(q))) = Len(b)
<1> DEFINE n == Len(q)
           w == Suffix(b, n)
<1>1. n \in Nat /\ Len(b) \in Nat /\ n <= Len(b)
  OBVIOUS
<1>2. w \in Seq(S) /\ Len(w) = Len(b) - Present(Len(b), n)
  BY <1>1, RestIs DEF Present
<1>3. Present(Len(b), n) = n
  <2> HIDE DEF n
  <2> QED BY <1>1, PresentIs
<1> HIDE DEF w
<1> QED BY <1>1, <1>2, <1>3 DEF w

-----------------------------------------------------------------------------
(* What the variables hold.                                                *)

Samples == Garbage .. Max({sent[s] : s \in Streams})
Bufs == {"in", "out"} \X Streams \X Chans
Fields == {"overlap", "oversize", "unsunk", "short", "disorder", "last"}

\* The scratches of the sources.
Scratches(S) ==
  /\ staged \in [Streams -> Nat]
  /\ stage \in [Streams \X Chans -> Seq(S)] /\ \A k \in Streams \X Chans : Len(stage[k]) = MaxBlock

\* Samples and counts.
Data(S) ==
  /\ RingsAre(S)
  /\ buf \in [Bufs -> Seq(S)] /\ \A r \in Bufs : Len(buf[r]) = MaxBlock
  /\ heard \in [Threads \X Chans -> Seq(S)]
  /\ hist = [x \in Fields |-> hist[x]]
  /\ Scratches(S)

\* The wiring and the calls under way.
Calls ==
  /\ wiring \in Wirings /\ device \in Devices
  /\ todo \in [Threads -> Seq(Ops)] /\ \A t \in Threads : Walks(t, todo[t])
  /\ frames \in [Threads -> Nat]
  /\ sent \in [Streams -> Nat] /\ \A s \in Streams : frames[Source[s]] <= sent[s]
  /\ route \in [Streams -> Streams \union {None}]

Shape == Calls /\ Data(Samples)

LEMMA TopIs ==
  ASSUME NEW f \in [Streams -> Nat]
  PROVE  /\ Max({f[s] : s \in Streams}) \in Nat
         /\ \A s \in Streams : f[s] <= Max({f[s2] : s2 \in Streams})
         /\ \E s \in Streams : f[s] = Max({f[s2] : s2 \in Streams})
<1> DEFINE T == {f[s] : s \in Streams}
           a == f[0]
           b == f[1]
<1>1. a \in Nat /\ b \in Nat /\ a \in T /\ b \in T /\ \A x \in T : x = a \/ x = b
  BY DEF Streams
<1>2. (\A x \in T : \E s \in Streams : f[s] = x) /\ \A s \in Streams : f[s] \in T
  OBVIOUS
<1> HIDE DEF T, a, b
<1>3. \E x \in T : \A y \in T : x >= y
  <2>1. CASE a >= b
    BY <1>1, <2>1
  <2>2. CASE b >= a
    BY <1>1, <2>2
  <2> QED BY <1>1, <2>1, <2>2
<1> DEFINE m == CHOOSE x \in T : \A y \in T : x >= y
<1>4. m \in T /\ \A y \in T : m >= y
  BY <1>3
<1>5. Max(T) = m
  BY DEF Max
<1> HIDE DEF m
<1>6. Max(T) \in Nat /\ Max(T) \in T /\ \A y \in T : y <= Max(T)
  BY <1>1, <1>4, <1>5
<1> QED BY <1>2, <1>6 DEF T

LEMMA SamplesAre ==
  ASSUME sent \in [Streams -> Nat]
  PROVE  /\ Silence \in Samples /\ Garbage \in Samples
         /\ \A s \in Streams : \A x \in Int : 0 <= x /\ x <= sent[s] => x \in Samples
<1> DEFINE m == Max({sent[s] : s \in Streams})
<1>1. m \in Nat /\ \A s \in Streams : sent[s] <= m
  BY TopIs
<1> HIDE DEF m
<1>2. Samples = Garbage .. m
  BY DEF Samples, m
<1> QED BY <1>1, <1>2 DEF Silence, Garbage

LEMMA ClampedIs ==
  ASSUME NEW t \in Threads, frames \in [Threads -> Nat]
  PROVE  /\ Clamped(t) \in Nat /\ Clamped(t) <= MaxBlock /\ Clamped(t) <= frames[t]
         /\ Clamped(t) = Present(MaxBlock, frames[t])
<1>1. Clamped(t) = Present(MaxBlock, frames[t])
  BY DEF Clamped, Present
<1> QED BY <1>1, StreamNumbers, PresentIs

\* The operation that is next in a call.
Heading(t) == todo[t][1]

LEMMA HeadingIs ==
  ASSUME Calls, NEW t \in Threads, todo[t] # <<>>
  PROVE  /\ Heading(t) \in Ops /\ Mine(t, Heading(t))
         /\ Heading(t) = <<Heading(t)[1], Heading(t)[2], Heading(t)[3]>>
         /\ Heading(t)[1] \in OpNames /\ Heading(t)[2] \in Streams /\ Heading(t)[3] \in Chans
         /\ Tail(todo[t]) \in Seq(Ops) /\ Walks(t, Tail(todo[t]))
         /\ Tail(todo[t]) # <<>> => Follows(Heading(t), Tail(todo[t])[1])
         /\ Tail(todo[t]) = <<>> => ~OnItsWay(Heading(t))
<1> DEFINE q == todo[t]
           u == Tail(q)
<1>1. q \in Seq(Ops) /\ q # <<>> /\ Walks(t, q)
  BY DEF Calls
<1> HIDE DEF q
<1>2. /\ Len(q) \in Nat \ {0} /\ u \in Seq(Ops) /\ Len(u) = Len(q) - 1
      /\ \A i \in 1 .. Len(u) : u[i] = q[i + 1]
      /\ u = <<>> <=> Len(u) = 0
      /\ 1 \in 1 .. Len(q) /\ q[1] \in Ops
  <2>1. Len(q) \in Nat \ {0} /\ \A i \in 1 .. Len(q) : q[i] \in Ops
    BY <1>1
  <2>2. u \in Seq(Ops) /\ Len(u) = Len(q) - 1
    BY <1>1
  <2>3. \A i \in 1 .. Len(u) : u[i] = q[i + 1]
    BY <1>1, <2>2
  <2>4. u = <<>> <=> Len(u) = 0
    BY <2>2
  <2> QED BY <2>1, <2>2, <2>3, <2>4
<1> HIDE DEF u
<1>3. Mine(t, q[1])
  BY <1>1, <1>2 DEF Walks
<1>4. u # <<>> => Follows(q[1], u[1])
  <2> SUFFICES ASSUME u # <<>> PROVE Follows(q[1], u[1])
    OBVIOUS
  <2>1. 1 < Len(q) /\ u[1] = q[2] /\ 1 + 1 = 2
    BY <1>2
  <2> QED BY <1>1, <1>2, <2>1 DEF Walks
<1>5. u = <<>> => ~OnItsWay(q[1])
  <2> SUFFICES ASSUME u = <<>> PROVE ~OnItsWay(q[1])
    OBVIOUS
  <2>1. 1 = Len(q)
    BY <1>2
  <2> QED BY <1>1, <1>2, <2>1 DEF Walks
<1>6. Walks(t, u)
  <2>1. ASSUME NEW i \in 1 .. Len(u)
        PROVE  /\ Mine(t, u[i])
               /\ i < Len(u) => Follows(u[i], u[i + 1])
               /\ i = Len(u) => ~OnItsWay(u[i])
    <3>1. i + 1 \in 1 .. Len(q) /\ u[i] = q[i + 1]
      BY <1>2
    <3>2. i < Len(u) => i + 1 < Len(q) /\ u[i + 1] = q[(i + 1) + 1]
      BY <1>2
    <3>3. i = Len(u) => i + 1 = Len(q)
      BY <1>2
    <3> QED BY <1>1, <3>1, <3>2, <3>3 DEF Walks
  <2> QED BY <2>1 DEF Walks
<1>7. /\ q[1] = <<q[1][1], q[1][2], q[1][3]>>
      /\ q[1][1] \in OpNames /\ q[1][2] \in Streams /\ q[1][3] \in Chans
  BY <1>2 DEF Ops, OpNames
<1> QED BY <1>2, <1>3, <1>4, <1>5, <1>6, <1>7 DEF Heading, q, u

\* A step of a call is one of the operations.
Operate(t, op, s, c) ==
  \/ op = "push" /\ Push(t, s, c)
  \/ op = "drain" /\ Drain(t, s, c)
  \/ op = "exec" /\ Exec(t)
  \/ op = "fill" /\ Fill(t, s, c)
  \/ op = "pop" /\ Pop(t, s, c)
  \/ op = "send" /\ Send(t, c)
  \/ op = "pull" /\ Pull(t, c)
  \/ op = "capture" /\ Capture(t, s, c)
  \/ op = "take" /\ Take(t, s, c)
  \/ op = "emit" /\ Emit(t, c)

LEMMA DoIs ==
  ASSUME Calls, NEW t \in Threads, Do(t)
  PROVE  /\ todo[t] # <<>> /\ todo' = [todo EXCEPT ![t] = Tail(@)]
         /\ UNCHANGED <<wiring, device, frames, sent, calls, route>>
         /\ Operate(t, Heading(t)[1], Heading(t)[2], Heading(t)[3])
         /\ Staging(t, Heading(t)[1], Heading(t)[2], Heading(t)[3])
<1>1. /\ todo[t] # <<>> /\ todo' = [todo EXCEPT ![t] = Tail(@)]
      /\ UNCHANGED <<wiring, device, frames, sent, calls, route>>
  BY DEF Do
<1>2. Heading(t)[1] \in OpNames
  BY <1>1, HeadingIs
<1> DEFINE op == todo[t][1][1]
           s == todo[t][1][2]
           c == todo[t][1][3]
<1>3. (CASE op = "push" -> Push(t, s, c)
       [] op = "drain" -> Drain(t, s, c)
       [] op = "exec"  -> Exec(t)
       [] op = "fill"  -> Fill(t, s, c)
       [] op = "pop"   -> Pop(t, s, c)
       [] op = "send"  -> Send(t, c)
       [] op = "pull"  -> Pull(t, c)
       [] op = "capture" -> Capture(t, s, c)
       [] op = "take"  -> Take(t, s, c)
       [] op = "emit"  -> Emit(t, c))
  BY DEF Do
<1> HIDE DEF op, s, c
<1>4. op \in OpNames
  BY <1>2 DEF Heading, op
<1>5. Operate(t, op, s, c)
  BY <1>3, <1>4 DEF Operate, OpNames
<1>6. Staging(t, op, s, c)
  BY DEF Do, op, s, c
<1> QED BY <1>1, <1>5, <1>6 DEF Heading, op, s, c

\* What a device captured.
LEMMA CapturedIs ==
  ASSUME Calls, NEW s \in Streams, NEW t, t = Source[s], NEW c \in Chans
  PROVE  Captured(t, s, c) \in Seq(Samples) /\ Len(Captured(t, s, c)) = Clamped(t)
<1>1. t \in Threads /\ frames[t] \in Nat /\ sent[s] \in Nat /\ frames[t] <= sent[s]
  BY DEF Calls, Source, Threads
<1>2. Clamped(t) \in Nat /\ Clamped(t) <= frames[t]
  BY <1>1, ClampedIs DEF Calls
<1>3. Silence \in Samples /\ \A x \in Int : 0 <= x /\ x <= sent[s] => x \in Samples
  BY SamplesAre DEF Calls
<1> DEFINE F(i) == IF c <= SourceChannels(s) THEN sent[s] - frames[t] + i ELSE Silence
<1>4. \A i \in 1 .. Clamped(t) : F(i) \in Samples
  BY <1>1, <1>2, <1>3
<1>5. Captured(t, s, c) = [i \in 1 .. Clamped(t) |-> F(i)]
  BY DEF Captured
<1> HIDE DEF F
<1> QED BY <1>2, <1>4, <1>5

Hears(S, t, c, q, met, short) ==
  /\ heard' = [heard EXCEPT ![<<t, c>>] = q] /\ heard' \in [Threads \X Chans -> Seq(S)]
  /\ hist' = [x \in Fields |-> hist'[x]]
  /\ hist'.overlap = hist.overlap \union met /\ hist'.short = hist.short \union short

LEMMA HearIs ==
  ASSUME NEW S, Data(S), NEW t \in Threads, NEW c \in Chans, NEW q \in Seq(S), NEW met, NEW short,
         Hear(t, c, q, met, short)
  PROVE  Hears(S, t, c, q, met, short)
<1>1. heard' = [heard EXCEPT ![<<t, c>>] = q]
  BY DEF Hear
<1>2. heard' \in [Threads \X Chans -> Seq(S)]
  BY <1>1 DEF Data
<1>3. \E A, B : hist' = [hist EXCEPT !.last[<<t, c>>] = A, !.disorder = B, !.overlap = @ \union met,
                                       !.short = @ \union short]
  BY DEF Hear
<1>4. PICK A, B : hist' = [hist EXCEPT !.last[<<t, c>>] = A, !.disorder = B, !.overlap = @ \union met,
                                        !.short = @ \union short]
  BY <1>3
<1>5. hist = [x \in Fields |-> hist[x]]
  BY DEF Data
<1>6. /\ hist' = [x \in Fields |-> hist'[x]]
      /\ hist'.overlap = hist.overlap \union met /\ hist'.short = hist.short \union short
  BY <1>4, <1>5 DEF Fields
<1> QED BY <1>1, <1>2, <1>6 DEF Hears

\* Which operations note that they meet another, and which they meet.
Meets(op) == CASE op = "push" -> "drain" [] op = "drain" -> "push"
               [] op = "fill" -> "pop" [] op = "pop" -> "fill"
Side(op) == IF op \in {"push", "drain"} THEN "in" ELSE "out"

\* The note of an overlap.
Noted(op, s) ==
  hist'.overlap = IF op \in Walking THEN hist.overlap \union Met(Side(op), s, Meets(op)) ELSE hist.overlap

LEMMA OverlapIs ==
  ASSUME NEW S, Data(S), NEW side, NEW s, NEW op, Overlap(side, s, op)
  PROVE  /\ hist' = [x \in Fields |-> hist'[x]]
         /\ hist'.overlap = hist.overlap \union Met(side, s, op) /\ hist'.short = hist.short
<1>1. hist = [x \in Fields |-> hist[x]]
  BY DEF Data
<1> DEFINE m == Met(side, s, op)
<1>2. hist' = [hist EXCEPT !.overlap = @ \union m]
  BY DEF Overlap
<1> HIDE DEF m
<1>3. /\ hist' = [x \in Fields |-> hist'[x]]
      /\ hist'.overlap = hist.overlap \union m /\ hist'.short = hist.short
  BY <1>1, <1>2 DEF Fields
<1> QED BY <1>3 DEF m

\* What a pull makes of a channel.
Draws(S, t, s, c) ==
  /\ Asked(t, s, c) \in Nat /\ Asked(t, s, c) <= Clamped(t)
  /\ Stage(t, s, c) \in Seq(S) /\ Len(Stage(t, s, c)) = MaxBlock
  /\ Pulled(t, s, c) \in Seq(S) /\ Len(Pulled(t, s, c)) = Clamped(t)
  /\ Short(t, s, c) \subseteq {c} /\ (c = 1 => Short(t, s, c) = {})
  /\ Short(t, s, c) = {} =>
       Pulled(t, s, c) = Prefix(ring[<<"cross", s, c>>], Asked(t, s, c)) \o Silent(Clamped(t) - Asked(t, s, c))

LEMMA PullIs ==
  ASSUME NEW S, Silence \in S, Data(S), frames \in [Threads -> Nat],
         NEW t \in Threads, NEW s \in Streams, NEW c \in Chans
  PROVE  Draws(S, t, s, c)
<1> DEFINE r == ring[<<"cross", s, c>>]
           x == IF c = 1 THEN Len(ring[<<"cross", s, 1>>]) ELSE staged[s]
           m == Clamped(t)
           n == Asked(t, s, c)
           f == Fresh(t, s, c)
           b == stage[<<s, c>>]
           g == Stage(t, s, c)
           y == Silent(m - n)
<1>1. /\ r \in Seq(S) /\ Len(r) \in Nat /\ b \in Seq(S) /\ Len(b) = MaxBlock
      /\ Len(ring[<<"cross", s, 1>>]) \in Nat /\ staged[s] \in Nat
  <2>1. <<"cross", s, c>> \in Rings /\ <<"cross", s, 1>> \in Rings /\ <<s, c>> \in Streams \X Chans
    BY StreamNumbers DEF Rings
  <2> QED BY <2>1 DEF Data, RingsAre, Scratches
<1>2. x \in Nat /\ m \in Nat /\ m <= MaxBlock /\ MaxBlock \in Nat
  BY <1>1, ClampedIs, StreamNumbers
<1>3. n = Present(x, m)
  BY DEF Asked, Present
<1>4. c = 1 => x = Len(r)
  OBVIOUS
<1>5. f = Prefix(r, n) /\ g = f \o Suffix(b, Len(f))
  BY DEF Fresh, Stage
<1>6. Pulled(t, s, c) = Prefix(g, n) \o y
  BY DEF Pulled
<1>7. Short(t, s, c) = IF Len(f) < n THEN {c} ELSE {}
  BY DEF Short
<1> HIDE DEF r, x, m, n, f, b, g, y
<1>8. n \in Nat /\ n <= m /\ n <= x
  BY <1>2, <1>3, PresentIs
<1>9. f \in Seq(S) /\ Len(f) = Present(Len(r), n) /\ Len(f) \in Nat /\ Len(f) <= n
  <2>1. f \in Seq(S) /\ Len(f) = Present(Len(r), n)
    BY <1>1, <1>5, <1>8, FrontIs DEF Present
  <2> QED BY <1>1, <1>8, <2>1, PresentIs
<1>10. g \in Seq(S) /\ Len(g) = MaxBlock
  <2>1. Len(f) <= Len(b)
    BY <1>1, <1>2, <1>8, <1>9
  <2> QED BY <1>1, <1>5, <1>9, <2>1, IntoBuffer
<1>11. Prefix(g, n) \in Seq(S) /\ Len(Prefix(g, n)) = n
  <2>1. Prefix(g, n) \in Seq(S) /\ Len(Prefix(g, n)) = Present(MaxBlock, n)
    BY <1>8, <1>10, FrontIs DEF Present
  <2>2. n <= MaxBlock
    BY <1>2, <1>8
  <2>3. Present(MaxBlock, n) = n
    <3> DEFINE p == Present(MaxBlock, n)
    <3>1. p \in Nat /\ p <= n /\ p <= MaxBlock /\ (p = n \/ p = MaxBlock)
      BY <1>2, <1>8, PresentIs, Zenon
    <3> HIDE DEF p
    <3>2. p = n
      BY <1>2, <1>8, <2>2, <3>1
    <3> QED BY <3>2 DEF p
  <2> QED BY <2>1, <2>3
<1>12. y \in Seq(S) /\ Len(y) = m - n
  <2>1. m - n \in Nat
    BY <1>2, <1>8
  <2> QED BY <2>1, SilenceIs DEF y
<1>13. Pulled(t, s, c) \in Seq(S) /\ Len(Pulled(t, s, c)) = m
  <2> DEFINE h == Prefix(g, n)
  <2>1. h \in Seq(S) /\ Len(h) = n /\ Pulled(t, s, c) = h \o y
    BY <1>6, <1>11
  <2> HIDE DEF h
  <2>2. h \o y \in Seq(S) /\ Len(h \o y) = Len(h) + Len(y)
    <3>1. y \in Seq(S) /\ h \in Seq(S)
      BY <1>12, <2>1
    <3> QED BY <3>1
  <2>3. n + (m - n) = m
    BY <1>2, <1>8
  <2> QED BY <1>12, <2>1, <2>2, <2>3
<1>14. c = 1 => Len(f) = n
  <2> SUFFICES ASSUME c = 1 PROVE Len(f) = n
    OBVIOUS
  <2>1. Present(Len(r), n) = n
    BY <1>1, <1>4, <1>8, PresentIs
  <2> QED BY <1>9, <2>1
<1>15. Short(t, s, c) \subseteq {c} /\ (c = 1 => Short(t, s, c) = {})
  BY <1>7, <1>8, <1>9, <1>14
<1>16. Short(t, s, c) = {} => Pulled(t, s, c) = Prefix(r, n) \o y
  <2> SUFFICES ASSUME Short(t, s, c) = {} PROVE Prefix(g, n) = f
    BY <1>5, <1>6
  <2>1. Len(f) = n
    <3>1. ~(Len(f) < n)
      BY <1>7
    <3> QED BY <1>8, <1>9, <3>1
  <2>2. Suffix(b, n) \in Seq(S)
    BY <1>1, <1>8, RestIs
  <2>3. g = f \o Suffix(b, n)
    BY <1>5, <2>1
  <2>4. \A k \in 1 .. n : g[k] = f[k]
    <3> DEFINE w == Suffix(b, n)
    <3> HIDE DEF w
    <3>1. w \in Seq(S) /\ g = f \o w
      BY <2>2, <2>3 DEF w
    <3> QED BY <1>9, <2>1, <3>1
  <2>5. \A k \in 1 .. n : Prefix(g, n)[k] = g[k]
    BY <1>8, <1>10, <1>11, FrontIs
  <2> DEFINE h == Prefix(g, n)
  <2> HIDE DEF h
  <2>6. h \in Seq(S) /\ Len(h) = n /\ \A k \in 1 .. n : h[k] = f[k]
    BY <1>11, <2>4, <2>5 DEF h
  <2>7. h = f
    BY <1>9, <2>1, <2>6
  <2> QED BY <2>7 DEF h
<1> QED BY <1>8, <1>10, <1>13, <1>15, <1>16 DEF Draws, r, n, g, m, y

\* A block that is read into a buffer.
LEMMA StageIs ==
  ASSUME NEW S, Data(S), NEW b \in Bufs, NEW n \in Nat, n <= MaxBlock, NEW p \in Seq(S), Len(p) = n,
         buf' = [buf EXCEPT ![b] = p \o Suffix(@, n)]
  PROVE  buf' \in [Bufs -> Seq(S)] /\ \A x \in Bufs : Len(buf'[x]) = MaxBlock
<1>1. buf \in [Bufs -> Seq(S)] /\ \A x \in Bufs : Len(buf[x]) = MaxBlock
  BY DEF Data
<1> DEFINE q == p \o Suffix(buf[b], n)
<1>3. buf[b] \in Seq(S) /\ Len(buf[b]) = MaxBlock
  BY <1>1
<1>4. q \in Seq(S) /\ Len(q) = MaxBlock
  BY <1>3, IntoBuffer
<1>5. buf' = [buf EXCEPT ![b] = q]
  OBVIOUS
<1> HIDE DEF q
<1>6. buf' \in [Bufs -> Seq(S)]
  BY <1>1, <1>4, <1>5
<1>7. ASSUME NEW x \in Bufs PROVE Len(buf'[x]) = MaxBlock
  <2>1. CASE x = b
    <3>1. buf'[x] = q
      BY <1>1, <1>5, <2>1
    <3> QED BY <1>4, <3>1
  <2>2. CASE x # b
    <3>1. buf'[x] = buf[x]
      BY <1>1, <1>5, <2>2
    <3> QED BY <1>1, <3>1
  <2> QED BY <2>1, <2>2
<1> QED BY <1>6, <1>7

LEMMA RingNames ==
  \A side \in {"in", "out"}, s \in Streams, c \in Chans :
    /\ <<side, s, c>> \in Rings /\ <<side, s, c>> \in Bufs
    /\ <<"cross", s, c>> \in Rings
  BY DEF Rings, Bufs

\* What the graph writes to its output buffers.
LEMMA ExecData ==
  ASSUME Shape, NEW t \in Threads, Exec(t)
  PROVE  /\ buf' \in [Bufs -> Seq(Samples)] /\ \A x \in Bufs : Len(buf'[x]) = MaxBlock
         /\ hist' = [x \in Fields |-> hist'[x]] /\ hist'.overlap = hist.overlap /\ hist'.short = hist.short
         /\ UNCHANGED <<ring, xruns, heard>>
<1> DEFINE S == Samples
           n == Clamped(t)
<1>1. buf \in [Bufs -> Seq(S)] /\ \A x \in Bufs : Len(buf[x]) = MaxBlock
  BY DEF Shape, Data
<1>2. n \in Nat /\ n <= MaxBlock /\ MaxBlock \in Nat
  BY ClampedIs, StreamNumbers DEF Shape, Calls
<1> DEFINE New(r) == IF r[1] = "out" /\ route[r[2]] # None
                     THEN Prefix(buf[<<"in", route[r[2]], r[3]>>], n) \o Suffix(buf[r], n)
                     ELSE buf[r]
<1>3. buf' = [r \in Bufs |-> New(r)]
  BY <1>1 DEF Exec
<1> HIDE DEF S, n
<1>4. ASSUME NEW r \in Bufs
      PROVE  New(r) \in Seq(S) /\ Len(New(r)) = MaxBlock
  <2>1. CASE r[1] = "out" /\ route[r[2]] # None
    <3> DEFINE b == buf[<<"in", route[r[2]], r[3]>>]
               p == Prefix(b, n)
    <3>1. <<"in", route[r[2]], r[3]>> \in Bufs
      <4>1. route[r[2]] \in Streams /\ r[3] \in Chans
        BY <2>1 DEF Bufs, Shape, Calls
      <4> QED BY <4>1 DEF Bufs
    <3>2. b \in Seq(S) /\ Len(b) = MaxBlock
      BY <1>1, <3>1
    <3> HIDE DEF b
    <3>3. p \in Seq(S) /\ Len(p) = Present(MaxBlock, n)
      BY <1>2, <3>2, FrontIs DEF Present
    <3>4. Present(MaxBlock, n) = n
      BY <1>2, PresentIs
    <3> HIDE DEF p
    <3>5. buf[r] \in Seq(S) /\ Len(buf[r]) = MaxBlock /\ Len(p) <= Len(buf[r])
      BY <1>1, <1>2, <3>3, <3>4
    <3>6. p \o Suffix(buf[r], Len(p)) \in Seq(S) /\ Len(p \o Suffix(buf[r], Len(p))) = MaxBlock
      BY <3>3, <3>5, IntoBuffer
    <3> QED BY <2>1, <3>3, <3>4, <3>6 DEF p, b
  <2>2. CASE ~(r[1] = "out" /\ route[r[2]] # None)
    BY <1>1, <2>2
  <2> QED BY <2>1, <2>2
<1> HIDE DEF New
<1>5. buf' \in [Bufs -> Seq(S)] /\ \A x \in Bufs : Len(buf'[x]) = MaxBlock
  BY <1>3, <1>4
<1>6. hist = [x \in Fields |-> hist[x]]
  BY DEF Shape, Data
<1>7. hist' = [hist EXCEPT !.unsunk = @ \union {s \in Streams : route[s] = None}]
  BY DEF Exec
<1>8. hist' = [x \in Fields |-> hist'[x]] /\ hist'.overlap = hist.overlap /\ hist'.short = hist.short
  BY <1>6, <1>7 DEF Fields
<1> QED BY <1>5, <1>8 DEF Exec, S

\* An operation leaves everything of its type, and notes whom it meets.
LEMMA OperateData ==
  ASSUME Shape, NEW S, S = Samples, NEW t \in Threads, todo[t] # <<>>,
         NEW op, NEW s, NEW c, Heading(t) = <<op, s, c>>, Operate(t, op, s, c), Staging(t, op, s, c)
  PROVE  /\ Data(S)' /\ Noted(op, s)
         /\ hist'.short = IF op \in {"pull", "take"} THEN hist.short \union Short(t, s, c) ELSE hist.short
<1>1. /\ RingsAre(S)
      /\ buf \in [Bufs -> Seq(S)] /\ \A r \in Bufs : Len(buf[r]) = MaxBlock
      /\ heard \in [Threads \X Chans -> Seq(S)]
      /\ hist = [x \in Fields |-> hist[x]]
      /\ Data(S) /\ Silence \in S /\ Garbage \in S /\ frames \in [Threads -> Nat]
  BY SamplesAre DEF Shape, Data, Calls
<1>2. op \in OpNames /\ s \in Streams /\ c \in Chans /\ Mine(t, <<op, s, c>>)
  BY HeadingIs DEF Shape
<1>3. Clamped(t) \in Nat /\ Clamped(t) <= MaxBlock /\ frames[t] \in Nat /\ MaxBlock \in Nat
  BY ClampedIs, StreamNumbers DEF Shape, Calls
<1>4. /\ <<"in", s, c>> \in Rings /\ <<"out", s, c>> \in Rings /\ <<"cross", s, c>> \in Rings
      /\ <<"cross", 0, c>> \in Rings
      /\ <<"in", s, c>> \in Bufs /\ <<"out", s, c>> \in Bufs /\ <<"out", 0, c>> \in Bufs
  BY <1>2 DEF Rings, Bufs, Streams
<1>5. op \in {"push", "capture"} => Captured(t, s, c) \in Seq(S)
  <2> SUFFICES ASSUME op \in {"push", "capture"} PROVE Captured(t, s, c) \in Seq(S)
    OBVIOUS
  <2>1. t = Source[s]
    BY <1>2 DEF Mine, Owner, Walking
  <2> QED BY <1>2, <2>1, CapturedIs DEF Shape
<1>6. ASSUME NEW r \in Rings, NEW q \in Seq(S), Write(r, q) PROVE RingsAre(S)'
  BY <1>1, <1>6, WriteIs
<1>7. ASSUME NEW r \in Rings, NEW n \in Nat, Read(r, n) PROVE RingsAre(S)'
  BY <1>1, <1>7, ReadIs
<1>8. ASSUME NEW r \in Rings PROVE Padded(r, Clamped(t)) \in Seq(S) /\ Len(Padded(r, Clamped(t))) = Clamped(t)
  BY <1>1, <1>3, PaddedIs
<1>0. Scratches(S)'
  <2>0. Data(S) /\ Silence \in S /\ frames \in [Threads -> Nat] /\ s \in Streams /\ c \in Chans
    BY <1>1, <1>2
  <2>1. Scratches(S) /\ <<s, c>> \in Streams \X Chans
    BY <1>1, <1>2 DEF Data
  <2>2. Asked(t, s, c) \in Nat /\ Stage(t, s, c) \in Seq(S) /\ Len(Stage(t, s, c)) = MaxBlock
    <3>1. Draws(S, t, s, c)
      BY <2>0, PullIs
    <3> QED BY <3>1 DEF Draws
  <2> DEFINE n == Asked(t, s, c)
             g == Stage(t, s, c)
  <2>3. CASE op \in {"pull", "take"}
    <3>1. staged' = [staged EXCEPT ![s] = n] /\ stage' = [stage EXCEPT ![<<s, c>>] = g]
      BY <2>3 DEF Staging
    <3> HIDE DEF n, g
    <3>2. n \in Nat /\ g \in Seq(S) /\ Len(g) = MaxBlock
      BY <2>2 DEF n, g
    <3> QED BY <2>1, <3>1, <3>2 DEF Scratches
  <2>4. CASE op \notin {"pull", "take"}
    <3>1. UNCHANGED <<staged, stage>>
      BY <2>4 DEF Staging
    <3> QED BY <2>1, <3>1 DEF Scratches
  <2> QED BY <2>3, <2>4
<1>9. \A b \in Bufs : Prefix(buf[b], Clamped(t)) \in Seq(S)
  BY <1>1, <1>3, FrontIs
<1>10. CASE op = "push" /\ Push(t, s, c)
  <2>1. RingsAre(S)'
    BY <1>4, <1>5, <1>6, <1>10 DEF Push
  <2>2. Overlap("in", s, "drain")
    BY <1>10 DEF Push
  <2>3. hist' = [x \in Fields |-> hist'[x]] /\ hist'.overlap = hist.overlap \union Met("in", s, "drain")
        /\ hist'.short = hist.short
    BY <1>1, <2>2, OverlapIs
  <2>4. UNCHANGED <<buf, heard>>
    BY <1>10 DEF Push
  <2> QED BY <1>0, <1>1, <1>10, <2>1, <2>3, <2>4 DEF Data, Noted, Side, Meets, Walking
<1>11. CASE op = "drain" /\ Drain(t, s, c)
  <2>1. RingsAre(S)'
    BY <1>3, <1>4, <1>7, <1>11 DEF Drain
  <2>2. Overlap("in", s, "push")
    BY <1>11 DEF Drain
  <2>3. hist' = [x \in Fields |-> hist'[x]] /\ hist'.overlap = hist.overlap \union Met("in", s, "push")
        /\ hist'.short = hist.short
    BY <1>1, <2>2, OverlapIs
  <2>4. /\ buf' = [buf EXCEPT ![<<"in", s, c>>] = Padded(<<"in", s, c>>, Clamped(t)) \o Suffix(@, Clamped(t))]
        /\ UNCHANGED heard
    BY <1>11 DEF Drain
  <2>5. buf' \in [Bufs -> Seq(S)] /\ \A r \in Bufs : Len(buf'[r]) = MaxBlock
    BY <1>1, <1>3, <1>4, <1>8, <2>4, StageIs
  <2> QED BY <1>0, <1>1, <1>11, <2>1, <2>3, <2>4, <2>5 DEF Data, Noted, Side, Meets, Walking
<1>12. CASE op = "exec" /\ Exec(t)
  <2>1. /\ buf' \in [Bufs -> Seq(S)] /\ \A x \in Bufs : Len(buf'[x]) = MaxBlock
        /\ hist' = [x \in Fields |-> hist'[x]] /\ hist'.overlap = hist.overlap /\ hist'.short = hist.short
        /\ UNCHANGED <<ring, xruns, heard>>
    BY <1>12, ExecData
  <2> QED BY <1>0, <1>1, <1>12, <2>1 DEF Data, Noted, Walking, RingsAre
<1>13. CASE op = "fill" /\ Fill(t, s, c)
  <2>1. RingsAre(S)'
    BY <1>4, <1>6, <1>9, <1>13 DEF Fill
  <2>2. Overlap("out", s, "pop") /\ UNCHANGED <<buf, heard>>
    BY <1>13 DEF Fill
  <2>3. hist' = [x \in Fields |-> hist'[x]] /\ hist'.overlap = hist.overlap \union Met("out", s, "pop")
        /\ hist'.short = hist.short
    BY <1>1, <2>2, OverlapIs
  <2> QED BY <1>0, <1>1, <1>13, <2>1, <2>2, <2>3 DEF Data, Noted, Side, Meets, Walking
<1>14. CASE op = "pop" /\ Pop(t, s, c)
  <2>1. RingsAre(S)'
    BY <1>3, <1>4, <1>7, <1>14 DEF Pop
  <2>2. Hear(t, c, Padded(<<"out", s, c>>, Clamped(t)), Met("out", s, "fill"), {}) /\ UNCHANGED buf
    BY <1>14 DEF Pop
  <2>3. /\ heard' \in [Threads \X Chans -> Seq(S)]
        /\ hist' = [x \in Fields |-> hist'[x]] /\ hist'.overlap = hist.overlap \union Met("out", s, "fill")
        /\ hist'.short = hist.short \union {}
    <3>1. Padded(<<"out", s, c>>, Clamped(t)) \in Seq(S)
      BY <1>4, <1>8
    <3> DEFINE q == Padded(<<"out", s, c>>, Clamped(t))
               met == Met("out", s, "fill")
    <3>2. Data(S) /\ c \in Chans /\ q \in Seq(S) /\ Hear(t, c, q, met, {})
      BY <1>1, <1>2, <2>2, <3>1
    <3> HIDE DEF q, met
    <3>3. /\ heard' \in [Threads \X Chans -> Seq(S)]
          /\ hist' = [x \in Fields |-> hist'[x]] /\ hist'.overlap = hist.overlap \union met
          /\ hist'.short = hist.short \union {}
      <4>1. Hears(S, t, c, q, met, {})
        BY <3>2, HearIs
      <4> QED BY <4>1 DEF Hears
    <3> QED BY <3>3 DEF met
  <2> QED BY <1>0, <1>1, <1>14, <2>1, <2>2, <2>3 DEF Data, Noted, Side, Meets, Walking
<1>15. CASE op = "send" /\ Send(t, c)
  <2> DEFINE n == Present(RingFrames, frames[t])
             scratch == heard[<<t, c>>]
             k == n - Len(scratch)
             more == [i \in 1 .. k |-> Garbage]
  <2>1. Write(<<"cross", 0, c>>, Prefix(scratch, n) \o more) /\ UNCHANGED <<buf, heard, hist>>
    BY <1>15 DEF Send, Present
  <2>2. n \in Nat
    BY <1>3, StreamNumbers, PresentIs
  <2>3. scratch \in Seq(S)
    BY <1>1, <1>2
  <2> HIDE DEF n, scratch
  <2>4. Prefix(scratch, n) \in Seq(S) /\ Len(scratch) \in Nat
    <3>1. Prefix(scratch, n) \in Seq(S)
      BY <2>2, <2>3, FrontIs
    <3> QED BY <2>3, <3>1
  <2>5. more \in Seq(S)
    <3>1. k \in Int
      BY <2>2, <2>4
    <3> HIDE DEF k
    <3>g. Garbage \in S
      BY <1>1
    <3>2. CASE k \in Nat
      BY <3>g, <3>2
    <3>3. CASE k < 0
      <4>1. 1 .. k = {} /\ 1 .. 0 = {}
        BY <3>1, <3>3
      <4>2. more = [i \in 1 .. 0 |-> Garbage]
        BY <4>1
      <4>3. [i \in 1 .. 0 |-> Garbage] \in Seq(S)
        BY <1>1
      <4> QED BY <4>2, <4>3
    <3> QED BY <3>1, <3>2, <3>3
  <2> HIDE DEF more
  <2>6. Prefix(scratch, n) \o more \in Seq(S)
    BY <2>4, <2>5
  <2>7. RingsAre(S)'
    BY <1>4, <1>6, <2>1, <2>6
  <2> QED BY <1>0, <1>1, <1>15, <2>1, <2>7 DEF Data, Noted, Walking
<1>16. CASE op = "pull" /\ Pull(t, c)
  <2>0. s = 0
    BY <1>2, <1>16 DEF Mine
  <2>1. /\ Asked(t, s, c) \in Nat /\ Pulled(t, s, c) \in Seq(S)
    <3>1. Draws(S, t, s, c)
      BY <1>1, <1>2, PullIs
    <3> QED BY <3>1 DEF Draws
  <2>2. Read(<<"cross", 0, c>>, Asked(t, s, c))
    BY <1>16, <2>0 DEF Pull
  <2>3. RingsAre(S)'
    BY <1>4, <1>7, <2>1, <2>2
  <2>4. Hear(t, c, Pulled(t, s, c), {}, Short(t, s, c)) /\ UNCHANGED buf
    BY <1>16, <2>0 DEF Pull
  <2>5. /\ heard' \in [Threads \X Chans -> Seq(S)]
        /\ hist' = [x \in Fields |-> hist'[x]] /\ hist'.overlap = hist.overlap \union {}
        /\ hist'.short = hist.short \union Short(t, s, c)
    <3> DEFINE q == Pulled(t, s, c)
               short == Short(t, s, c)
    <3>1. Data(S) /\ c \in Chans /\ q \in Seq(S) /\ Hear(t, c, q, {}, short)
      BY <1>1, <1>2, <2>1, <2>4
    <3> HIDE DEF q, short
    <3>2. /\ heard' \in [Threads \X Chans -> Seq(S)]
          /\ hist' = [x \in Fields |-> hist'[x]] /\ hist'.overlap = hist.overlap \union {}
          /\ hist'.short = hist.short \union short
      <4>1. Hears(S, t, c, q, {}, short)
        BY <3>1, HearIs
      <4> QED BY <4>1 DEF Hears
    <3> QED BY <3>2 DEF short
  <2> QED BY <1>0, <1>1, <1>16, <2>3, <2>4, <2>5 DEF Data, Noted, Walking
<1>17. CASE op = "capture" /\ Capture(t, s, c)
  <2>1. RingsAre(S)'
    BY <1>4, <1>5, <1>6, <1>17 DEF Capture
  <2>2. UNCHANGED <<buf, heard, hist>>
    BY <1>17 DEF Capture
  <2> QED BY <1>0, <1>1, <1>17, <2>1, <2>2 DEF Data, Noted, Walking
<1>18. CASE op = "take" /\ Take(t, s, c)
  <2>1. /\ Asked(t, s, c) \in Nat
        /\ Pulled(t, s, c) \in Seq(S) /\ Len(Pulled(t, s, c)) = Clamped(t)
    <3>1. Draws(S, t, s, c)
      BY <1>1, <1>2, PullIs
    <3> QED BY <3>1 DEF Draws
  <2>2. Read(<<"cross", s, c>>, Asked(t, s, c))
    BY <1>18 DEF Take
  <2>3. RingsAre(S)'
    BY <1>4, <1>7, <2>1, <2>2
  <2>4. buf' = [buf EXCEPT ![<<"in", s, c>>] = Pulled(t, s, c) \o Suffix(@, Clamped(t))]
    BY <1>18 DEF Take
  <2>5. buf' \in [Bufs -> Seq(S)] /\ \A r \in Bufs : Len(buf'[r]) = MaxBlock
    BY <1>1, <1>3, <1>4, <2>1, <2>4, StageIs
  <2>6. hist' = [hist EXCEPT !.short = @ \union Short(t, s, c)] /\ UNCHANGED heard
    BY <1>18 DEF Take
  <2>7. hist' = [x \in Fields |-> hist'[x]] /\ hist'.overlap = hist.overlap
        /\ hist'.short = hist.short \union Short(t, s, c)
    <3> DEFINE h == Short(t, s, c)
    <3>1. hist' = [hist EXCEPT !.short = @ \union h]
      BY <2>6
    <3> HIDE DEF h
    <3>2. hist' = [x \in Fields |-> hist'[x]] /\ hist'.overlap = hist.overlap /\ hist'.short = hist.short \union h
      BY <1>1, <3>1 DEF Fields
    <3> QED BY <3>2 DEF h
  <2> QED BY <1>0, <1>1, <1>18, <2>3, <2>5, <2>6, <2>7 DEF Data, Noted, Walking
<1>19. CASE op = "emit" /\ Emit(t, c)
  <2>1. Hear(t, c, Prefix(buf[<<"out", 0, c>>], Clamped(t)), {}, {}) /\ UNCHANGED <<ring, xruns, buf>>
    BY <1>19 DEF Emit
  <2>2. /\ heard' \in [Threads \X Chans -> Seq(S)]
        /\ hist' = [x \in Fields |-> hist'[x]] /\ hist'.overlap = hist.overlap \union {}
        /\ hist'.short = hist.short \union {}
    <3>1. Prefix(buf[<<"out", 0, c>>], Clamped(t)) \in Seq(S)
      BY <1>4, <1>9
    <3> DEFINE q == Prefix(buf[<<"out", 0, c>>], Clamped(t))
    <3>2. Data(S) /\ c \in Chans /\ q \in Seq(S) /\ Hear(t, c, q, {}, {})
      BY <1>1, <1>2, <2>1, <3>1
    <3> HIDE DEF q
    <3>3. Hears(S, t, c, q, {}, {})
      BY <3>2, HearIs
    <3> QED BY <3>3 DEF Hears
  <2> QED BY <1>0, <1>1, <1>19, <2>1, <2>2 DEF Data, Noted, Walking, RingsAre
<1> QED BY <1>10, <1>11, <1>12, <1>13, <1>14, <1>15, <1>16, <1>17, <1>18, <1>19 DEF Operate

-----------------------------------------------------------------------------
(* The type.                                                               *)

LEMMA SameWiring ==
  ASSUME UNCHANGED <<wiring, device>>
  PROVE  /\ \A op, s : Owner(op, s)' = Owner(op, s) /\ Upto(op, s)' = Upto(op, s)
         /\ \A side, s : Drained(side, s)' = Drained(side, s)
         /\ \A s : SourceChannels(s)' = SourceChannels(s)
         /\ Source' = Source
<1>1. /\ \A side, s : Drained(side, s)' = Drained(side, s)
      /\ \A s : SourceChannels(s)' = SourceChannels(s)
      /\ Source' = Source
  BY DEF Drained, SourceChannels, Source
<1> QED BY <1>1 DEF Owner, Upto

LEMMA SameWalks ==
  ASSUME UNCHANGED <<wiring, device>>
  PROVE  \A t, q : Walks(t, q)' <=> Walks(t, q)
<1>1. \A op, s : Owner(op, s)' = Owner(op, s) /\ Upto(op, s)' = Upto(op, s)
  BY SameWiring
<1>2. \A a : OnItsWay(a)' <=> OnItsWay(a)
  BY <1>1 DEF OnItsWay
<1>3. \A a, b : Follows(a, b)' <=> Follows(a, b)
  BY <1>2 DEF Follows
<1>4. \A t, a : Mine(t, a)' <=> Mine(t, a)
  BY <1>1 DEF Mine
<1> QED BY <1>2, <1>3, <1>4 DEF Walks

LEMMA InitShape == StreamInit => Shape
<1> SUFFICES ASSUME StreamInit PROVE Shape
  OBVIOUS
<1>1. sent \in [Streams -> Nat] /\ Silence \in Samples
  <2>1. sent \in [Streams -> Nat]
    BY DEF StreamInit
  <2> QED BY <2>1, SamplesAre
<1>2. \A s \in Streams : Source[s] \in Threads
  BY DEF Source, Threads
<1>3. Calls
  <2>1. wiring \in Wirings /\ device \in Devices
    BY DEF StreamInit, Wirings
  <2>2. todo = [t \in Threads |-> <<>>] /\ \A t : Walks(t, <<>>)
    BY DEF StreamInit, Walks
  <2>3. todo \in [Threads -> Seq(Ops)] /\ \A t \in Threads : Walks(t, todo[t])
    BY <2>2
  <2>4. frames \in [Threads -> Nat] /\ \A s \in Streams : frames[Source[s]] <= sent[s]
    BY <1>2 DEF StreamInit
  <2>5. route \in [Streams -> Streams \union {None}]
    BY MultiSourceAssumption DEF StreamInit
  <2> QED BY <1>1, <2>1, <2>3, <2>4, <2>5 DEF Calls
<1>4. RingsAre(Samples)
  <2>1. RingFrames \in Nat /\ ring = [r \in Rings |-> <<>>] /\ xruns = [r \in Rings |-> 0]
    BY StreamNumbers DEF StreamInit
  <2> QED BY <2>1 DEF RingsAre
<1>5. buf \in [Bufs -> Seq(Samples)] /\ \A r \in Bufs : Len(buf[r]) = MaxBlock
  <2>1. MaxBlock \in Nat
    BY StreamNumbers
  <2>2. Silent(MaxBlock) \in Seq(Samples) /\ Len(Silent(MaxBlock)) = MaxBlock
    BY <1>1, <2>1, SilenceIs
  <2>3. buf = [r \in Bufs |-> Silent(MaxBlock)]
    BY DEF StreamInit, Bufs
  <2> HIDE DEF Bufs
  <2> QED BY <2>2, <2>3
<1>6. heard \in [Threads \X Chans -> Seq(Samples)]
  BY DEF StreamInit
<1>7. hist = [x \in Fields |-> hist[x]]
  BY DEF StreamInit, Fields
<1>8. Scratches(Samples)
  <2>1. MaxBlock \in Nat
    BY StreamNumbers
  <2>2. Silent(MaxBlock) \in Seq(Samples) /\ Len(Silent(MaxBlock)) = MaxBlock
    BY <1>1, <2>1, SilenceIs
  <2>3. stage = [k \in Streams \X Chans |-> Silent(MaxBlock)] /\ staged = [s \in Streams |-> 0]
    BY DEF StreamInit
  <2> QED BY <2>2, <2>3 DEF Scratches
<1> QED BY <1>3, <1>4, <1>5, <1>6, <1>7, <1>8 DEF Shape, Data

LEMMA DoShape ==
  ASSUME Shape, NEW t \in Threads, Do(t)
  PROVE  /\ Shape' /\ Noted(Heading(t)[1], Heading(t)[2])
         /\ hist'.short = IF Heading(t)[1] \in {"pull", "take"}
                         THEN hist.short \union Short(t, Heading(t)[2], Heading(t)[3]) ELSE hist.short
<1> DEFINE op == Heading(t)[1]
           s == Heading(t)[2]
           c == Heading(t)[3]
<1>1. /\ todo[t] # <<>> /\ todo' = [todo EXCEPT ![t] = Tail(@)]
      /\ UNCHANGED <<wiring, device, frames, sent, calls, route>>
      /\ Operate(t, op, s, c) /\ Staging(t, op, s, c)
  BY DoIs DEF Shape
<1>2. Heading(t) = <<op, s, c>> /\ Tail(todo[t]) \in Seq(Ops) /\ Walks(t, Tail(todo[t]))
  BY <1>1, HeadingIs DEF Shape
<1> HIDE DEF op, s, c
<1>3. PICK S : S = Samples
  OBVIOUS
<1>4. /\ Data(S)' /\ Noted(op, s)
      /\ hist'.short = IF op \in {"pull", "take"} THEN hist.short \union Short(t, s, c) ELSE hist.short
  BY <1>1, <1>2, <1>3, OperateData
<1>5. Samples' = S
  BY <1>1, <1>3 DEF Samples
<1>6. Data(Samples)'
  BY <1>4, <1>5 DEF Data, RingsAre, Scratches
<1>7. Calls'
  <2>1. todo \in [Threads -> Seq(Ops)] /\ \A x \in Threads : Walks(x, todo[x])
    BY DEF Shape, Calls
  <2>2. todo' \in [Threads -> Seq(Ops)]
    BY <1>1, <1>2, <2>1
  <2>3. ASSUME NEW x \in Threads PROVE Walks(x, todo'[x])
    BY <1>1, <1>2, <2>1
  <2>4. UNCHANGED <<wiring, device>>
    BY <1>1
  <2>5. ASSUME NEW x \in Threads PROVE Walks(x, todo[x])'
    BY <2>3, <2>4, SameWalks
  <2>6. Source' = Source
    BY <2>4, SameWiring
  <2> QED BY <1>1, <2>2, <2>5, <2>6 DEF Shape, Calls
<1> QED BY <1>4, <1>6, <1>7 DEF Shape, op, s, c

LEMMA BeginIs ==
  ASSUME Calls, NEW t \in Threads, NEW n \in Blocks[t], Begin(t, n)
  PROVE  /\ n \in Nat /\ todo[t] = <<>> /\ todo' = [todo EXCEPT ![t] = Program[t]] /\ Fits(t, Program[t])
         /\ frames' = [frames EXCEPT ![t] = n]
         /\ sent' = [s \in Streams |-> IF Source[s] = t THEN sent[s] + n ELSE sent[s]]
         /\ UNCHANGED <<wiring, device, ring, xruns, buf, staged, stage, heard, route>>
<1>1. n \in Nat
  BY MultiSourceAssumption
<1>2. t \in DOMAIN Program
  BY DEF Begin
<1>3. Fits(t, Program[t])
  BY <1>2, ProgramFits DEF Calls
<1> QED BY <1>1, <1>3 DEF Begin

LEMMA BeginShape ==
  ASSUME Shape, NEW t \in Threads, NEW n \in Blocks[t], Begin(t, n)
  PROVE  Shape' /\ hist'.overlap = hist.overlap
<1>1. /\ n \in Nat /\ todo' = [todo EXCEPT ![t] = Program[t]] /\ Fits(t, Program[t])
      /\ frames' = [frames EXCEPT ![t] = n]
      /\ sent' = [s \in Streams |-> IF Source[s] = t THEN sent[s] + n ELSE sent[s]]
      /\ UNCHANGED <<wiring, device, ring, xruns, buf, staged, stage, heard, route>>
  BY BeginIs DEF Shape
<1>2. /\ todo \in [Threads -> Seq(Ops)] /\ \A x \in Threads : Walks(x, todo[x])
      /\ frames \in [Threads -> Nat] /\ sent \in [Streams -> Nat]
      /\ \A s \in Streams : frames[Source[s]] <= sent[s]
  BY DEF Shape, Calls
<1>3. sent' \in [Streams -> Nat] /\ frames' \in [Threads -> Nat] /\ \A s \in Streams : sent[s] <= sent'[s]
  BY <1>1, <1>2
<1>4. UNCHANGED <<wiring, device>>
  BY <1>1
<1>5. Source' = Source
  BY <1>4, SameWiring
<1>6. \A s \in Streams : Source[s] \in Threads
  BY DEF Source, Threads
<1>7. ASSUME NEW s \in Streams PROVE frames'[Source'[s]] <= sent'[s]
  <2>1. CASE Source[s] = t
    <3>1. frames'[t] = n /\ sent'[s] = sent[s] + n
      BY <1>1, <1>2, <2>1
    <3> QED BY <1>1, <1>2, <1>5, <2>1, <3>1
  <2>2. CASE Source[s] # t
    BY <1>1, <1>2, <1>5, <1>6, <2>2
  <2> QED BY <2>1, <2>2
<1>8. todo' \in [Threads -> Seq(Ops)]
  BY <1>1, <1>2 DEF Fits
<1>9. ASSUME NEW x \in Threads PROVE Walks(x, todo[x])'
  <2>1. Walks(x, todo'[x])
    BY <1>1, <1>2 DEF Fits
  <2> QED BY <1>4, <2>1, SameWalks
<1>10. Calls'
  BY <1>1, <1>3, <1>7, <1>8, <1>9 DEF Shape, Calls
<1>11. PICK S : S = Samples
  OBVIOUS
<1>12. PICK R : R = Samples'
  OBVIOUS
<1>13. S \subseteq R
  <2> DEFINE m == Max({sent[s] : s \in Streams})
             k == Max({sent'[s] : s \in Streams})
  <2>1. m \in Nat /\ \E s \in Streams : sent[s] = m
    BY <1>2, TopIs
  <2>2. k \in Nat /\ \A s \in Streams : sent'[s] <= k
    BY <1>3, TopIs
  <2>3. S = Garbage .. m /\ R = Garbage .. k
    BY <1>11, <1>12 DEF Samples
  <2> HIDE DEF m, k
  <2>4. m <= k
    BY <1>2, <1>3, <2>1, <2>2
  <2> QED BY <2>1, <2>2, <2>3, <2>4 DEF Garbage
<1>14. \A q \in Seq(S) : q \in Seq(R)
  BY <1>13
<1>15. Data(S)
  BY <1>11 DEF Shape
<1>16. /\ ring \in [Rings -> Seq(R)] /\ buf \in [Bufs -> Seq(R)] /\ heard \in [Threads \X Chans -> Seq(R)]
       /\ Scratches(R)
  BY <1>14, <1>15 DEF Data, RingsAre, Scratches
<1>17. hist' = [x \in Fields |-> hist'[x]] /\ hist'.overlap = hist.overlap
  <2>1. hist = [x \in Fields |-> hist[x]]
    BY DEF Shape, Data
  <2>2. \E A : hist' = [hist EXCEPT !.oversize = A]
    BY DEF Begin
  <2> QED BY <2>1, <2>2 DEF Fields
<1>18. Data(R)'
  BY <1>1, <1>15, <1>16, <1>17 DEF Data, RingsAre, Scratches
<1>19. Data(Samples)'
  BY <1>12, <1>18 DEF Data, RingsAre, Scratches
<1> QED BY <1>10, <1>17, <1>19 DEF Shape

LEMMA RecompileShape ==
  ASSUME Shape, Recompile
  PROVE  Shape'
<1>1. UNCHANGED <<wiring, device, todo, frames, ring, xruns, buf, staged, stage, heard, sent, calls, hist>>
  BY DEF Recompile
<1>2. route' \in [Streams -> Streams \union {None}]
  BY DEF Recompile, Shape, Calls
<1>3. Source' = Source /\ \A t, q : Walks(t, q)' <=> Walks(t, q)
  BY <1>1, SameWiring, SameWalks
<1>4. Calls'
  BY <1>1, <1>2, <1>3 DEF Shape, Calls
<1>5. Data(Samples)'
  BY <1>1 DEF Shape, Data, RingsAre, Scratches, Samples
<1> QED BY <1>4, <1>5 DEF Shape

LEMMA ShapeStutter ==
  ASSUME Shape, UNCHANGED streamVars
  PROVE  Shape'
<1>1. UNCHANGED <<wiring, device, todo, frames, ring, xruns, buf, staged, stage, heard, sent, route, hist>>
  BY DEF streamVars
<1>2. Source' = Source /\ \A t, q : Walks(t, q)' <=> Walks(t, q)
  BY <1>1, SameWiring, SameWalks
<1>3. Calls'
  BY <1>1, <1>2 DEF Shape, Calls
<1>4. Data(Samples)'
  BY <1>1 DEF Shape, Data, RingsAre, Scratches, Samples
<1> QED BY <1>3, <1>4 DEF Shape

LEMMA ShapeIsType == Shape => StreamTypeOK
<1> SUFFICES ASSUME Shape PROVE StreamTypeOK
  OBVIOUS
<1>1. RingsAre(Samples) /\ buf \in [Bufs -> Seq(Samples)] /\ \A r \in Bufs : Len(buf[r]) = MaxBlock
  BY DEF Shape, Data
<1>2. todo \in [Threads -> Seq(Ops)] /\ route \in [Streams -> Streams \union {None}]
  BY DEF Shape, Calls
<1>3. \A r \in Rings : ring[r] \in Seq(Samples) /\ Len(ring[r]) <= RingFrames
  BY <1>1 DEF RingsAre
<1>4. xruns \in [Rings -> Nat]
  BY <1>1 DEF RingsAre
<1>5. \A r \in DOMAIN buf : Len(buf[r]) = MaxBlock
  BY <1>1
<1> QED BY <1>2, <1>3, <1>4, <1>5 DEF StreamTypeOK, Samples, Ops

-----------------------------------------------------------------------------
(* How far a call has come with a stream.                                  *)

Under(op, s, t) == todo[t] # <<>> /\ Heading(t)[1] = op /\ Heading(t)[2] = s

\* The channel an operation of a stream is at.
At(op, s) == IF Under(op, s, Owner(op, s)) THEN Heading(Owner(op, s))[3] ELSE 1

LEMMA OwnerIs ==
  \A op, s : s \in Streams => Owner(op, s) \in Threads
  BY DEF Owner, Source, Threads, Streams

LEMMA AtIs ==
  ASSUME Calls, NEW op \in Walking, NEW s \in Streams
  PROVE  /\ At(op, s) \in Chans /\ (At(op, s) > 1 => At(op, s) <= Upto(op, s))
         /\ Mid(op, s) <=> At(op, s) > 1
         /\ \A t \in Threads : Under(op, s, t) => t = Owner(op, s)
<1>1. Owner(op, s) \in Threads
  BY OwnerIs
<1>2. ASSUME NEW t \in Threads, Under(op, s, t)
      PROVE  t = Owner(op, s) /\ Heading(t)[3] \in Chans /\ Heading(t)[3] <= Upto(op, s)
  <2>1. Heading(t)[3] \in Chans /\ Mine(t, Heading(t))
    BY <1>2, HeadingIs DEF Under
  <2> QED BY <1>2, <2>1 DEF Under, Mine
<1>3. At(op, s) \in Chans /\ (At(op, s) > 1 => At(op, s) <= Upto(op, s))
  BY <1>1, <1>2, StreamNumbers DEF At
<1>4. Mid(op, s) <=> \E t \in Threads : Under(op, s, t) /\ Heading(t)[3] > 1
  BY DEF Mid, Under, Heading
<1>5. Mid(op, s) <=> At(op, s) > 1
  BY <1>1, <1>2, <1>4 DEF At
<1> QED BY <1>2, <1>3, <1>5

LEMMA AtMoves ==
  ASSUME Shape, NEW t \in Threads, Do(t), NEW op \in Walking, NEW s \in Streams
  PROVE  IF Heading(t)[1] = op /\ Heading(t)[2] = s
         THEN /\ t = Owner(op, s) /\ At(op, s) = Heading(t)[3] /\ Heading(t)[3] <= Upto(op, s)
              /\ At(op, s)' = IF At(op, s) < Upto(op, s) THEN At(op, s) + 1 ELSE 1
         ELSE At(op, s)' = At(op, s)
<1>0. PICK o : o = Owner(op, s)
  OBVIOUS
<1> DEFINE a == Heading(t)
           u == Tail(todo[t])
<1>1. /\ todo[t] # <<>> /\ todo' = [todo EXCEPT ![t] = u]
      /\ UNCHANGED <<wiring, device>> /\ todo \in [Threads -> Seq(Ops)]
  BY DoIs DEF Shape, Calls
<1>2. /\ Mine(t, a) /\ a = <<a[1], a[2], a[3]>>
      /\ (u # <<>> => Follows(a, u[1])) /\ (u = <<>> => ~OnItsWay(a))
  BY <1>1, HeadingIs DEF Shape
<1>3. o \in Threads /\ Owner(op, s)' = o
  BY <1>0, <1>1, OwnerIs, SameWiring
<1>4. ASSUME NEW x \in Threads, x # t PROVE (Under(op, s, x)' <=> Under(op, s, x)) /\ Heading(x)' = Heading(x)
  BY <1>1, <1>4 DEF Under, Heading
<1>5. (Under(op, s, t)' <=> u # <<>> /\ u[1][1] = op /\ u[1][2] = s) /\ (u # <<>> => Heading(t)' = u[1])
  BY <1>1 DEF Under, Heading
<1>6. Under(op, s, t) <=> a[1] = op /\ a[2] = s
  BY <1>1 DEF Under
<1>7. \A x \in Threads : Under(op, s, x) => x = o
  BY <1>0, AtIs DEF Shape
<1>8. At(op, s)' = IF Under(op, s, o)' THEN Heading(o)'[3] ELSE 1
  BY <1>3 DEF At
<1>9. At(op, s) = IF Under(op, s, o) THEN Heading(o)[3] ELSE 1
  BY <1>0 DEF At
<1> HIDE DEF a, u
<1>10. CASE a[1] = op /\ a[2] = s
  <2>1. t = o /\ At(op, s) = a[3]
    BY <1>6, <1>7, <1>9, <1>10 DEF a
  <2>2. a[3] <= Upto(op, s)
    BY <1>2, <1>10 DEF Mine
  <2>3. CASE At(op, s) < Upto(op, s)
    <3>1. OnItsWay(a)
      BY <1>10, <2>1, <2>3 DEF OnItsWay
    <3>2. u # <<>> /\ u[1] = <<a[1], a[2], a[3] + 1>>
      BY <1>2, <3>1 DEF Follows
    <3>3. Under(op, s, t)' /\ Heading(t)' = u[1]
      BY <1>5, <1>10, <3>2
    <3>4. At(op, s)' = u[1][3]
      BY <1>8, <2>1, <3>3
    <3> QED BY <1>10, <2>1, <2>2, <2>3, <3>2, <3>4, <1>0 DEF a
  <2>4. CASE ~(At(op, s) < Upto(op, s))
    <3>1. ~OnItsWay(a)
      BY <1>10, <2>1, <2>4 DEF OnItsWay
    <3>2. u # <<>> => u[1][3] = 1 \/ u[1][1] \notin Walking
      BY <1>2, <3>1 DEF Follows
    <3>3. At(op, s)' = 1
      BY <1>5, <1>8, <2>1, <3>2
    <3> QED BY <1>10, <2>1, <2>2, <2>4, <3>3, <1>0 DEF a
  <2> QED BY <2>3, <2>4
<1>11. CASE ~(a[1] = op /\ a[2] = s)
  <2>1. CASE t = o
    <3>1. At(op, s) = 1
      BY <1>6, <1>9, <1>11, <2>1
    <3>2. u # <<>> /\ u[1][1] = op /\ u[1][2] = s => u[1][3] = 1
      <4> SUFFICES ASSUME u # <<>>, u[1][1] = op, u[1][2] = s PROVE u[1][3] = 1
        OBVIOUS
      <4>1. CASE OnItsWay(a)
        <5>1. u[1] = <<a[1], a[2], a[3] + 1>>
          BY <1>2, <4>1 DEF Follows
        <5> QED BY <1>11, <5>1
      <4>2. CASE ~OnItsWay(a)
        BY <1>2, <4>2 DEF Follows
      <4> QED BY <4>1, <4>2
    <3>3. At(op, s)' = 1
      BY <1>5, <1>8, <2>1, <3>2
    <3> QED BY <1>11, <3>1, <3>3 DEF a
  <2>2. CASE t # o
    <3>1. (Under(op, s, o)' <=> Under(op, s, o)) /\ Heading(o)' = Heading(o)
      BY <1>3, <1>4, <2>2
    <3>2. At(op, s)' = At(op, s)
      BY <1>8, <1>9, <3>1
    <3> QED BY <1>11, <3>2 DEF a
  <2> QED BY <2>1, <2>2
<1> QED BY <1>10, <1>11

\* A call that begins is at the first channel, as a thread without a call is.
LEMMA AtBegins ==
  ASSUME Shape, NEW t \in Threads, NEW n \in Blocks[t], Begin(t, n), NEW op \in Walking, NEW s \in Streams
  PROVE  /\ At(op, s)' = At(op, s)
         /\ Owner(op, s) = t => At(op, s) = 1
<1>0. PICK o : o = Owner(op, s)
  OBVIOUS
<1> DEFINE p == Program[t]
<1>1. todo[t] = <<>> /\ todo' = [todo EXCEPT ![t] = p] /\ Fits(t, p) /\ UNCHANGED <<wiring, device>>
  BY BeginIs DEF Shape
<1>2. todo \in [Threads -> Seq(Ops)] /\ o \in Threads /\ Owner(op, s)' = o
  BY <1>0, <1>1, OwnerIs, SameWiring DEF Shape, Calls
<1>3. At(op, s)' = IF Under(op, s, o)' THEN Heading(o)'[3] ELSE 1
  BY <1>2 DEF At
<1>4. At(op, s) = IF Under(op, s, o) THEN Heading(o)[3] ELSE 1
  BY <1>0 DEF At
<1> HIDE DEF p
<1>5. CASE t = o
  <2>1. At(op, s) = 1
    BY <1>1, <1>4, <1>5 DEF Under
  <2>2. Under(op, s, o)' => Heading(o)'[3] = 1
    <3>1. todo'[o] = p
      BY <1>1, <1>2, <1>5
    <3>2. p # <<>> => p[1][3] = 1
      BY <1>1 DEF Fits
    <3> QED BY <3>1, <3>2 DEF Under, Heading
  <2> QED BY <1>0, <1>3, <2>1, <2>2
<1>6. CASE t # o
  <2>1. todo'[o] = todo[o]
    BY <1>1, <1>2, <1>6
  <2>2. (Under(op, s, o)' <=> Under(op, s, o)) /\ Heading(o)' = Heading(o)
    BY <2>1 DEF Under, Heading
  <2> QED BY <1>3, <1>4, <1>6, <2>2, <1>0
<1> QED BY <1>0, <1>5, <1>6

-----------------------------------------------------------------------------
(* What a step does to the rings of the manager.                           *)

\* Ring r took what it had room for of q; n frames were asked of it.
Wrote(r, q) ==
  /\ Others(r)
  /\ ring'[r] = ring[r] \o Prefix(q, Fitting(Len(ring[r]), Len(q)))
  /\ Len(ring'[r]) = Len(ring[r]) + Fitting(Len(ring[r]), Len(q))
  /\ xruns'[r] = xruns[r] + Len(q) - Fitting(Len(ring[r]), Len(q))
Gave(r, n) ==
  /\ Others(r)
  /\ ring'[r] = Suffix(ring[r], n)
  /\ Len(ring'[r]) = Len(ring[r]) - Present(Len(ring[r]), n)
  /\ xruns'[r] = xruns[r] + n - Present(Len(ring[r]), n)

Kept(s, side) == \A c \in Chans : /\ ring'[<<side, s, c>>] = ring[<<side, s, c>>]
                                  /\ xruns'[<<side, s, c>>] = xruns[<<side, s, c>>]

LEMMA OperateRings ==
  ASSUME Shape, NEW t \in Threads, Do(t), NEW op, NEW s, NEW c, Heading(t) = <<op, s, c>>
  PROVE  /\ op = "push" => Wrote(<<"in", s, c>>, Captured(t, s, c)) /\ Len(Captured(t, s, c)) = Clamped(t)
         /\ op = "drain" => Gave(<<"in", s, c>>, Clamped(t))
         /\ op = "fill" => \E q \in Seq(Samples) : Len(q) = Clamped(t) /\ Wrote(<<"out", s, c>>, q)
         /\ op = "pop" => Gave(<<"out", s, c>>, Clamped(t))
         /\ \A side \in {"in", "out"}, x \in Streams :
              ~(op \in Walking /\ side = Side(op) /\ x = s) => Kept(x, side)
<1>1. /\ todo[t] # <<>> /\ Operate(t, op, s, c)
      /\ op \in OpNames /\ s \in Streams /\ c \in Chans /\ Mine(t, <<op, s, c>>)
  BY DoIs, HeadingIs DEF Shape
<1>2. RingsAre(Samples) /\ frames \in [Threads -> Nat]
  BY DEF Shape, Data, Calls
<1>3. Clamped(t) \in Nat /\ Clamped(t) <= MaxBlock
  BY <1>2, ClampedIs
<1>4. /\ <<"in", s, c>> \in Rings /\ <<"out", s, c>> \in Rings /\ <<"cross", s, c>> \in Rings
      /\ <<"cross", 0, c>> \in Rings /\ <<"out", s, c>> \in Bufs
      /\ \A side \in {"in", "out"}, x \in Streams, d \in Chans : <<side, x, d>> \in Rings
  BY <1>1 DEF Rings, Bufs, Streams
<1>5. ASSUME NEW r \in Rings, NEW q \in Seq(Samples), Write(r, q) PROVE Wrote(r, q)
  BY <1>2, <1>5, WriteIs DEF Wrote
<1>6. ASSUME NEW r \in Rings, NEW n \in Nat, Read(r, n) PROVE Gave(r, n)
  BY <1>2, <1>6, ReadIs DEF Gave
<1>7. ASSUME NEW r \in Rings, Others(r), NEW side \in {"in", "out"}, NEW x \in Streams,
             \A d \in Chans : <<side, x, d>> # r
      PROVE  Kept(x, side)
  BY <1>4, <1>7 DEF Others, Kept
<1>8. ASSUME UNCHANGED <<ring, xruns>> PROVE \A side, x : Kept(x, side)
  BY <1>8 DEF Kept
<1>10. CASE op = "push" /\ Push(t, s, c)
  <2>1. t = Source[s]
    BY <1>1, <1>10 DEF Mine, Owner, Walking
  <2>2. Captured(t, s, c) \in Seq(Samples) /\ Len(Captured(t, s, c)) = Clamped(t)
    BY <1>1, <2>1, CapturedIs DEF Shape
  <2>3. Wrote(<<"in", s, c>>, Captured(t, s, c))
    BY <1>4, <1>5, <1>10, <2>2 DEF Push
  <2>4. ASSUME NEW side \in {"in", "out"}, NEW x \in Streams, ~(side = "in" /\ x = s) PROVE Kept(x, side)
    BY <1>4, <1>7, <2>3, <2>4 DEF Wrote
  <2> QED BY <1>10, <2>2, <2>3, <2>4 DEF Side, Walking
<1>11. CASE op = "drain" /\ Drain(t, s, c)
  <2>1. Gave(<<"in", s, c>>, Clamped(t))
    BY <1>3, <1>4, <1>6, <1>11 DEF Drain
  <2>2. ASSUME NEW side \in {"in", "out"}, NEW x \in Streams, ~(side = "in" /\ x = s) PROVE Kept(x, side)
    BY <1>4, <1>7, <2>1, <2>2 DEF Gave
  <2> QED BY <1>11, <2>1, <2>2 DEF Side, Walking
<1>12. CASE op = "exec" /\ Exec(t)
  <2>1. UNCHANGED <<ring, xruns>>
    BY <1>12 DEF Exec
  <2> QED BY <1>8, <1>12, <2>1
<1>13. CASE op = "fill" /\ Fill(t, s, c)
  <2> DEFINE q == Prefix(buf[<<"out", s, c>>], Clamped(t))
  <2>1. buf[<<"out", s, c>>] \in Seq(Samples) /\ Len(buf[<<"out", s, c>>]) = MaxBlock
    BY <1>4 DEF Shape, Data
  <2>2. q \in Seq(Samples) /\ Len(q) = Present(MaxBlock, Clamped(t))
    BY <1>3, <2>1, FrontIs DEF Present
  <2>3. Present(MaxBlock, Clamped(t)) = Clamped(t)
    BY <1>3, StreamNumbers, PresentIs
  <2>4. Write(<<"out", s, c>>, q)
    BY <1>13 DEF Fill
  <2> HIDE DEF q
  <2>5. Wrote(<<"out", s, c>>, q)
    BY <1>4, <1>5, <2>2, <2>4
  <2>6. ASSUME NEW side \in {"in", "out"}, NEW x \in Streams, ~(side = "out" /\ x = s) PROVE Kept(x, side)
    BY <1>4, <1>7, <2>5, <2>6 DEF Wrote
  <2> QED BY <1>13, <2>2, <2>3, <2>5, <2>6 DEF Side, Walking
<1>14. CASE op = "pop" /\ Pop(t, s, c)
  <2>1. Gave(<<"out", s, c>>, Clamped(t))
    BY <1>3, <1>4, <1>6, <1>14 DEF Pop
  <2>2. ASSUME NEW side \in {"in", "out"}, NEW x \in Streams, ~(side = "out" /\ x = s) PROVE Kept(x, side)
    BY <1>4, <1>7, <2>1, <2>2 DEF Gave
  <2> QED BY <1>14, <2>1, <2>2 DEF Side, Walking
<1>15. ASSUME NEW r \in Rings, r[1] = "cross", Others(r)
       PROVE  \A side \in {"in", "out"}, x \in Streams : Kept(x, side)
  <2>1. ASSUME NEW side \in {"in", "out"}, NEW x \in Streams PROVE Kept(x, side)
    <3>1. \A d \in Chans : <<side, x, d>> # r
      BY <1>15
    <3> QED BY <1>7, <1>15, <3>1
  <2> QED BY <2>1
<1>16. CASE op = "send" /\ Send(t, c)
  <2>1. \E q : Write(<<"cross", 0, c>>, q)
    BY <1>16 DEF Send
  <2>2. Others(<<"cross", 0, c>>)
    BY <1>2, <2>1 DEF Write, Others, RingsAre
  <2> QED BY <1>4, <1>15, <1>16, <2>2
<1>17. CASE op = "pull" /\ Pull(t, c)
  <2>1. Others(<<"cross", 0, c>>)
    BY <1>2, <1>17 DEF Pull, Read, Others, RingsAre
  <2> QED BY <1>4, <1>15, <1>17, <2>1
<1>18. CASE op = "capture" /\ Capture(t, s, c)
  <2>1. Others(<<"cross", s, c>>)
    BY <1>2, <1>18 DEF Capture, Write, Others, RingsAre
  <2> QED BY <1>4, <1>15, <1>18, <2>1
<1>19. CASE op = "take" /\ Take(t, s, c)
  <2>1. Others(<<"cross", s, c>>)
    BY <1>2, <1>19 DEF Take, Read, Others, RingsAre
  <2> QED BY <1>4, <1>15, <1>19, <2>1
<1>20. CASE op = "emit" /\ Emit(t, c)
  <2>1. UNCHANGED <<ring, xruns>>
    BY <1>20 DEF Emit
  <2> QED BY <1>8, <1>20, <2>1
<1> QED BY <1>1, <1>10, <1>11, <1>12, <1>13, <1>14, <1>16, <1>17, <1>18, <1>19, <1>20 DEF Operate

-----------------------------------------------------------------------------
(* How far the rings of a stream drift apart.                              *)

\* What the calls under way have brought to a channel, and taken from it.
Brought(s, c) == IF c < At("push", s) THEN Clamped(Owner("push", s)) ELSE 0
Removed(s, c) == IF c < At("drain", s) THEN Clamped(Owner("drain", s)) ELSE 0

\* What a ring holds but for the calls under way.
Level(s, c) == (Len(ring[<<"in", s, c>>]) - Brought(s, c)) + Removed(s, c)

\* Two channels never differ by more than a block but for the calls under way.
Even(s) == \A c, d \in Chans : Level(s, c) - Level(s, d) <= MaxBlock
SlipInv == \A s \in Streams : Even(s)

LEMMA LevelIs ==
  ASSUME Shape, NEW s \in Streams, NEW c \in Chans
  PROVE  /\ Len(ring[<<"in", s, c>>]) \in Nat /\ Len(ring[<<"in", s, c>>]) <= RingFrames
         /\ Brought(s, c) \in Nat /\ Removed(s, c) \in Nat
         /\ Level(s, c) \in Int
<1>1. Len(ring[<<"in", s, c>>]) \in Nat /\ Len(ring[<<"in", s, c>>]) <= RingFrames
  <2>1. <<"in", s, c>> \in Rings
    BY RingNames
  <2>2. \A r \in Rings : ring[r] \in Seq(Samples) /\ Len(ring[r]) <= RingFrames
    BY DEF Shape, Data, RingsAre
  <2> QED BY <2>1, <2>2
<1>2. \A op : Clamped(Owner(op, s)) \in Nat
  BY OwnerIs, ClampedIs DEF Shape, Calls
<1>3. Brought(s, c) \in Nat /\ Removed(s, c) \in Nat
  BY <1>2 DEF Brought, Removed
<1> QED BY <1>1, <1>3 DEF Level

\* A block of p that comes to a ring with l frames, which n of them fit in: another ring with h frames
\* had all of it before, or is yet to get it.
LEMMA SlipWrite ==
  ASSUME NEW B \in Nat, NEW R \in Nat, NEW p \in Nat, NEW m \in Nat, p <= B, m <= B,
         NEW l \in Nat, NEW n \in Nat, l + n <= R, n <= p, n = p \/ l + n = R, NEW r \in {0, m},
         NEW h \in Nat, h <= R, NEW g \in {0, p}, NEW u \in {0, m}, g = p \/ u <= r,
         NEW x \in Int, NEW y \in Int, NEW z \in Int,
         x = (l - 0) + r, y = (h - g) + u, z = ((l + n) - p) + r, x - y <= B, y - x <= B
  PROVE  z - y <= B /\ y - z <= B
  OBVIOUS

\* A block of m that is taken from it.
LEMMA SlipRead ==
  ASSUME NEW B \in Nat, NEW p \in Nat, NEW m \in Nat, p <= B, m <= B,
         NEW l \in Nat, NEW k \in Nat, k <= m, k <= l, k = m \/ k = l, NEW r \in {0, p},
         NEW h \in Nat, NEW g \in {0, p}, NEW u \in {0, m}, u = m \/ g <= r,
         NEW x \in Int, NEW y \in Int, NEW z \in Int,
         x = (l - r) + 0, y = (h - g) + u, z = ((l - k) - r) + m, x - y <= B, y - x <= B
  PROVE  z - y <= B /\ y - z <= B
  OBVIOUS

\* The clock and the devices keep the size of their block while a call is under way.
LEMMA SameBlock ==
  ASSUME UNCHANGED <<wiring, device, frames>>
  PROVE  \A op, s : Clamped(Owner(op, s))' = Clamped(Owner(op, s))
<1>1. \A op, s : Owner(op, s)' = Owner(op, s)
  BY SameWiring
<1> QED BY <1>1 DEF Clamped

LEMMA PushSlip ==
  ASSUME Shape, NEW s \in Streams, Even(s), NEW t \in Threads, Do(t), NEW k, Heading(t) = <<"push", s, k>>
  PROVE  Even(s)'
<1>1. PICK p : p = Clamped(Owner("push", s))
  OBVIOUS
<1>2. PICK m : m = Clamped(Owner("drain", s))
  OBVIOUS
<1>3. PICK D : D = At("drain", s)
  OBVIOUS
<1>4. /\ t = Owner("push", s) /\ At("push", s) = k /\ k <= Channels
      /\ At("push", s)' = IF k < Channels THEN k + 1 ELSE 1
      /\ At("drain", s)' = D
  BY <1>3, AtMoves DEF Walking, Upto
<1>5. k \in Chans /\ D \in Chans
  BY <1>3, <1>4, AtIs DEF Shape, Walking
<1>6. Clamped(Owner("push", s))' = p /\ Clamped(Owner("drain", s))' = m
  BY <1>1, <1>2, DoIs, SameBlock DEF Shape
<1>7. p \in Nat /\ m \in Nat /\ p <= MaxBlock /\ m <= MaxBlock /\ MaxBlock \in Nat /\ RingFrames \in Nat
  BY <1>1, <1>2, OwnerIs, ClampedIs, StreamNumbers DEF Shape, Calls
<1>8. /\ Wrote(<<"in", s, k>>, Captured(t, s, k)) /\ Len(Captured(t, s, k)) = p
  BY <1>1, <1>4, OperateRings
<1> DEFINE l == Len(ring[<<"in", s, k>>])
           n == Fitting(l, p)
<1>9. /\ Len(ring'[<<"in", s, k>>]) = l + n
      /\ \A c \in Chans \ {k} : ring'[<<"in", s, c>>] = ring[<<"in", s, c>>]
  BY <1>5, <1>8, RingNames DEF Wrote, Others
<1>10. l \in Nat /\ l <= RingFrames
  BY <1>5, LevelIs
<1>11. n \in Nat /\ n <= p /\ l + n <= RingFrames /\ (n = p \/ l + n = RingFrames)
  BY <1>7, <1>10, FittingIs
<1> HIDE DEF l, n
<1>12. /\ \A c \in Chans : Brought(s, c) = IF c < k THEN p ELSE 0
       /\ \A c \in Chans : Removed(s, c) = IF c < D THEN m ELSE 0
       /\ \A c \in Chans : Brought(s, c)' = IF c < At("push", s)' THEN p ELSE 0
       /\ \A c \in Chans : Removed(s, c)' = Removed(s, c)
  BY <1>1, <1>2, <1>3, <1>4, <1>6 DEF Brought, Removed
<1> DEFINE z == IF k < Channels THEN 0 ELSE p
           After(c) == IF c = k THEN ((l + n) - p) + Removed(s, k) ELSE Level(s, c)
<1>z. \/ k < Channels /\ z = 0 /\ At("push", s)' = k + 1
      \/ k = Channels /\ z = p /\ At("push", s)' = 1
  BY <1>4, <1>5, StreamNumbers
<1> HIDE DEF z
<1>13. \A c \in Chans : c \in Nat /\ 1 <= c /\ c <= Channels /\ Removed(s, c) \in Nat /\ Level(s, c) \in Int
  BY LevelIs, StreamNumbers
<1>14. ASSUME NEW c \in Chans PROVE After(c) \in Int /\ Level(s, c)' = After(c) + z
  <2>1. Level(s, c)' = (Len(ring'[<<"in", s, c>>]) - Brought(s, c)') + Removed(s, c)
    BY <1>12 DEF Level
  <2>2. Len(ring[<<"in", s, c>>]) \in Nat
    BY LevelIs
  <2>3. CASE c = k
    <3>1. Brought(s, c)' = p - z
      <4>1. CASE k < Channels /\ z = 0 /\ At("push", s)' = k + 1
        BY <1>5, <1>7, <1>12, <1>13, <2>3, <4>1
      <4>2. CASE k = Channels /\ z = p /\ At("push", s)' = 1
        BY <1>5, <1>7, <1>12, <1>13, <2>3, <4>2
      <4> QED BY <1>z, <4>1, <4>2
    <3>2. Len(ring'[<<"in", s, c>>]) = l + n /\ Removed(s, c) \in Nat
      BY <1>7, <1>9, <1>13, <1>z, <2>3
    <3>3. After(c) = ((l + n) - p) + Removed(s, c)
      BY <2>3
    <3>4. z \in Int
      BY <1>7, <1>z
    <3> HIDE DEF After
    <3> QED BY <1>7, <1>10, <1>11, <1>13, <2>1, <3>1, <3>2, <3>3, <3>4
  <2>4. CASE c # k
    <3>1. Brought(s, c)' = Brought(s, c) - z
      <4>1. CASE k < Channels /\ z = 0 /\ At("push", s)' = k + 1
        <5>1. c < k + 1 <=> c < k
          BY <1>5, <1>13, <2>4
        <5> QED BY <1>7, <1>12, <4>1, <5>1
      <4>2. CASE k = Channels /\ z = p /\ At("push", s)' = 1
        <5>1. c < k /\ ~(c < 1)
          BY <1>13, <2>4, <4>2, StreamNumbers
        <5> QED BY <1>7, <1>12, <4>2, <5>1
      <4> QED BY <1>z, <4>1, <4>2
    <3>2. Level(s, c) = (Len(ring[<<"in", s, c>>]) - Brought(s, c)) + Removed(s, c)
      BY DEF Level
    <3>3. Brought(s, c) \in Nat /\ z \in Nat
      <4>1. Brought(s, c) \in Nat
        BY LevelIs
      <4>2. z \in Nat
        BY <1>7, <1>z
      <4> QED BY <4>1, <4>2
    <3>4. After(c) = Level(s, c)
      BY <2>4
    <3>5. ring'[<<"in", s, c>>] = ring[<<"in", s, c>>]
      BY <1>9, <2>4
    <3> HIDE DEF After
    <3> QED BY <1>13, <2>1, <2>2, <3>1, <3>2, <3>3, <3>4, <3>5
  <2> QED BY <2>3, <2>4
<1>15. ASSUME NEW d \in Chans, d # k
       PROVE  After(k) - Level(s, d) <= MaxBlock /\ Level(s, d) - After(k) <= MaxBlock
  <2> DEFINE h == Len(ring[<<"in", s, d>>])
             g == Brought(s, d)
             u == Removed(s, d)
             r == Removed(s, k)
             x == Level(s, k)
             y == Level(s, d)
  <2>1. h \in Nat /\ h <= RingFrames /\ x \in Int /\ y \in Int /\ g \in Nat /\ u \in Nat /\ r \in Nat
    BY <1>5, LevelIs
  <2>2. g \in {0, p} /\ u \in {0, m} /\ r \in {0, m}
    BY <1>5, <1>12
  <2>3. g = p \/ u <= r
    <3>1. CASE d < k
      BY <1>12, <3>1
    <3>2. CASE k < d
      BY <1>5, <1>7, <1>12, <1>13, <3>2
    <3> QED BY <1>5, <1>13, <1>15, <3>1, <3>2
  <2>4. x = (l - 0) + r
    <3>1. Brought(s, k) = 0
      <4>1. ~(k < k)
        BY <1>5, <1>13
      <4> QED BY <1>5, <1>12, <4>1
    <3> QED BY <3>1 DEF Level, l
  <2>5. y = (h - g) + u
    BY DEF Level
  <2>6. x - y <= MaxBlock /\ y - x <= MaxBlock
    BY <1>5 DEF Even
  <2>7. After(k) = ((l + n) - p) + r /\ After(k) \in Int
    BY <1>5, <1>14
  <2> HIDE DEF h, g, u, r, x, y, After
  <2>8. After(k) - y <= MaxBlock /\ y - After(k) <= MaxBlock
    BY <1>7, <1>10, <1>11, <2>1, <2>2, <2>3, <2>4, <2>5, <2>6, <2>7, SlipWrite
  <2> QED BY <2>8 DEF y
<1>16. ASSUME NEW c \in Chans, NEW d \in Chans PROVE After(c) - After(d) <= MaxBlock
  <2>1. CASE c = k /\ d = k
    BY <1>7, <1>14, <2>1
  <2>2. CASE c = k /\ d # k
    BY <1>15, <2>2
  <2>3. CASE c # k /\ d = k
    BY <1>15, <2>3
  <2>4. CASE c # k /\ d # k
    BY <2>4 DEF Even
  <2> QED BY <2>1, <2>2, <2>3, <2>4
<1>17. z \in Int
  BY <1>7, <1>z
<1> HIDE DEF After
<1>18. ASSUME NEW c \in Chans, NEW d \in Chans PROVE Level(s, c)' - Level(s, d)' <= MaxBlock
  <2>1. Level(s, c)' = After(c) + z /\ Level(s, d)' = After(d) + z /\ After(c) \in Int /\ After(d) \in Int
    BY <1>14
  <2> QED BY <1>7, <1>16, <1>17, <2>1
<1> QED BY <1>18 DEF Even

LEMMA DrainSlip ==
  ASSUME Shape, NEW s \in Streams, Even(s), NEW t \in Threads, Do(t), NEW k, Heading(t) = <<"drain", s, k>>
  PROVE  Even(s)'
<1>1. PICK p : p = Clamped(Owner("push", s))
  OBVIOUS
<1>2. PICK m : m = Clamped(Owner("drain", s))
  OBVIOUS
<1>3. PICK D : D = At("push", s)
  OBVIOUS
<1>4. /\ t = Owner("drain", s) /\ At("drain", s) = k /\ k <= Channels
      /\ At("drain", s)' = IF k < Channels THEN k + 1 ELSE 1
      /\ At("push", s)' = D
  BY <1>3, AtMoves DEF Walking, Upto
<1>5. k \in Chans /\ D \in Chans
  BY <1>3, <1>4, AtIs DEF Shape, Walking
<1>6. Clamped(Owner("push", s))' = p /\ Clamped(Owner("drain", s))' = m
  BY <1>1, <1>2, DoIs, SameBlock DEF Shape
<1>7. p \in Nat /\ m \in Nat /\ p <= MaxBlock /\ m <= MaxBlock /\ MaxBlock \in Nat /\ RingFrames \in Nat
  BY <1>1, <1>2, OwnerIs, ClampedIs, StreamNumbers DEF Shape, Calls
<1>8. Gave(<<"in", s, k>>, m)
  BY <1>2, <1>4, OperateRings
<1> DEFINE l == Len(ring[<<"in", s, k>>])
           n == Present(l, m)
<1>9. /\ Len(ring'[<<"in", s, k>>]) = l - n
      /\ \A c \in Chans \ {k} : ring'[<<"in", s, c>>] = ring[<<"in", s, c>>]
  BY <1>5, <1>8, RingNames DEF Gave, Others
<1>10. l \in Nat /\ l <= RingFrames
  BY <1>5, LevelIs
<1>11. n \in Nat /\ n <= m /\ n <= l /\ (n = m \/ n = l)
  BY <1>7, <1>10, PresentIs
<1> HIDE DEF l, n
<1>12. /\ \A c \in Chans : Removed(s, c) = IF c < k THEN m ELSE 0
       /\ \A c \in Chans : Brought(s, c) = IF c < D THEN p ELSE 0
       /\ \A c \in Chans : Removed(s, c)' = IF c < At("drain", s)' THEN m ELSE 0
       /\ \A c \in Chans : Brought(s, c)' = Brought(s, c)
  BY <1>1, <1>2, <1>3, <1>4, <1>6 DEF Brought, Removed
<1> DEFINE z == IF k < Channels THEN 0 ELSE m
           After(c) == IF c = k THEN ((l - n) - Brought(s, k)) + m ELSE Level(s, c)
<1>z. \/ k < Channels /\ z = 0 /\ At("drain", s)' = k + 1
      \/ k = Channels /\ z = m /\ At("drain", s)' = 1
  BY <1>4, <1>5, StreamNumbers
<1> HIDE DEF z
<1>13. \A c \in Chans : c \in Nat /\ 1 <= c /\ c <= Channels /\ Brought(s, c) \in Nat /\ Level(s, c) \in Int
  BY LevelIs, StreamNumbers
<1>14. ASSUME NEW c \in Chans PROVE After(c) \in Int /\ Level(s, c)' = After(c) - z
  <2>1. Level(s, c)' = (Len(ring'[<<"in", s, c>>]) - Brought(s, c)) + Removed(s, c)'
    BY <1>12 DEF Level
  <2>2. Len(ring[<<"in", s, c>>]) \in Nat
    BY LevelIs
  <2>3. CASE c = k
    <3>1. Removed(s, c)' = m - z
      <4>1. CASE k < Channels /\ z = 0 /\ At("drain", s)' = k + 1
        BY <1>5, <1>7, <1>12, <1>13, <2>3, <4>1
      <4>2. CASE k = Channels /\ z = m /\ At("drain", s)' = 1
        BY <1>5, <1>7, <1>12, <1>13, <2>3, <4>2
      <4> QED BY <1>z, <4>1, <4>2
    <3>2. Len(ring'[<<"in", s, c>>]) = l - n /\ Brought(s, c) \in Nat
      BY <1>7, <1>9, <1>13, <1>z, <2>3
    <3>3. After(c) = ((l - n) - Brought(s, c)) + m
      BY <2>3
    <3>4. z \in Int
      BY <1>7, <1>z
    <3> HIDE DEF After
    <3> QED BY <1>7, <1>10, <1>11, <1>13, <2>1, <3>1, <3>2, <3>3, <3>4
  <2>4. CASE c # k
    <3>1. Removed(s, c)' = Removed(s, c) - z
      <4>1. CASE k < Channels /\ z = 0 /\ At("drain", s)' = k + 1
        <5>1. c < k + 1 <=> c < k
          BY <1>5, <1>13, <2>4
        <5> QED BY <1>7, <1>12, <4>1, <5>1
      <4>2. CASE k = Channels /\ z = m /\ At("drain", s)' = 1
        <5>1. c < k /\ ~(c < 1)
          BY <1>13, <2>4, <4>2, StreamNumbers
        <5> QED BY <1>7, <1>12, <4>2, <5>1
      <4> QED BY <1>z, <4>1, <4>2
    <3>2. Level(s, c) = (Len(ring[<<"in", s, c>>]) - Brought(s, c)) + Removed(s, c)
      BY DEF Level
    <3>3. Removed(s, c) \in Nat /\ z \in Nat
      <4>1. Removed(s, c) \in Nat
        BY LevelIs
      <4>2. z \in Nat
        BY <1>7, <1>z
      <4> QED BY <4>1, <4>2
    <3>4. After(c) = Level(s, c)
      BY <2>4
    <3>5. ring'[<<"in", s, c>>] = ring[<<"in", s, c>>]
      BY <1>9, <2>4
    <3> HIDE DEF After
    <3> QED BY <1>13, <2>1, <2>2, <3>1, <3>2, <3>3, <3>4, <3>5
  <2> QED BY <2>3, <2>4
<1>15. ASSUME NEW d \in Chans, d # k
       PROVE  After(k) - Level(s, d) <= MaxBlock /\ Level(s, d) - After(k) <= MaxBlock
  <2> DEFINE h == Len(ring[<<"in", s, d>>])
             g == Brought(s, d)
             u == Removed(s, d)
             r == Brought(s, k)
             x == Level(s, k)
             y == Level(s, d)
  <2>1. h \in Nat /\ h <= RingFrames /\ x \in Int /\ y \in Int /\ g \in Nat /\ u \in Nat /\ r \in Nat
    BY <1>5, LevelIs
  <2>2. g \in {0, p} /\ u \in {0, m} /\ r \in {0, p}
    BY <1>5, <1>12
  <2>3. u = m \/ g <= r
    <3>1. CASE d < k
      BY <1>12, <3>1
    <3>2. CASE k < d
      BY <1>5, <1>7, <1>12, <1>13, <3>2
    <3> QED BY <1>5, <1>13, <1>15, <3>1, <3>2
  <2>4. x = (l - r) + 0
    <3>1. Removed(s, k) = 0
      <4>1. ~(k < k)
        BY <1>5, <1>13
      <4> QED BY <1>5, <1>12, <4>1
    <3> QED BY <3>1 DEF Level, l
  <2>5. y = (h - g) + u
    BY DEF Level
  <2>6. x - y <= MaxBlock /\ y - x <= MaxBlock
    BY <1>5 DEF Even
  <2>7. After(k) = ((l - n) - r) + m /\ After(k) \in Int
    BY <1>5, <1>14
  <2> HIDE DEF h, g, u, r, x, y, After
  <2>8. After(k) - y <= MaxBlock /\ y - After(k) <= MaxBlock
    BY <1>7, <1>10, <1>11, <2>1, <2>2, <2>3, <2>4, <2>5, <2>6, <2>7, SlipRead
  <2> QED BY <2>8 DEF y
<1>16. ASSUME NEW c \in Chans, NEW d \in Chans PROVE After(c) - After(d) <= MaxBlock
  <2>1. CASE c = k /\ d = k
    BY <1>7, <1>14, <2>1
  <2>2. CASE c = k /\ d # k
    BY <1>15, <2>2
  <2>3. CASE c # k /\ d = k
    BY <1>15, <2>3
  <2>4. CASE c # k /\ d # k
    BY <2>4 DEF Even
  <2> QED BY <2>1, <2>2, <2>3, <2>4
<1>17. z \in Int
  BY <1>7, <1>z
<1> HIDE DEF After
<1>18. ASSUME NEW c \in Chans, NEW d \in Chans PROVE Level(s, c)' - Level(s, d)' <= MaxBlock
  <2>1. Level(s, c)' = After(c) - z /\ Level(s, d)' = After(d) - z /\ After(c) \in Int /\ After(d) \in Int
    BY <1>14
  <2> QED BY <1>7, <1>16, <1>17, <2>1
<1> QED BY <1>18 DEF Even

\* Calls that stay where they are with a stream leave its levels.
LEMMA SlipFrame ==
  ASSUME Shape, NEW s \in Streams, Even(s), Kept(s, "in"),
         \A op \in {"push", "drain"} :
           /\ At(op, s)' = At(op, s)
           /\ Clamped(Owner(op, s))' = Clamped(Owner(op, s)) \/ At(op, s) = 1
  PROVE  Even(s)'
<1>1. \A c \in Chans : c \in Nat /\ ~(c < 1)
  BY StreamNumbers
<1>2. ASSUME NEW c \in Chans PROVE Level(s, c)' = Level(s, c)
  <2>1. Brought(s, c)' = Brought(s, c)
    BY <1>1 DEF Brought
  <2>2. Removed(s, c)' = Removed(s, c)
    BY <1>1 DEF Removed
  <2>3. ring'[<<"in", s, c>>] = ring[<<"in", s, c>>]
    BY DEF Kept
  <2> QED BY <2>1, <2>2, <2>3 DEF Level
<1> QED BY <1>2 DEF Even

LEMMA SlipDo ==
  ASSUME Shape, SlipInv, NEW t \in Threads, Do(t)
  PROVE  SlipInv'
<1> DEFINE op == Heading(t)[1]
           s == Heading(t)[2]
           k == Heading(t)[3]
<1>1. Heading(t) = <<op, s, k>> /\ s \in Streams
  BY DoIs, HeadingIs DEF Shape
<1>2. UNCHANGED <<wiring, device, frames>>
  BY DoIs DEF Shape
<1> HIDE DEF op, s, k
<1>3. ASSUME NEW x \in Streams PROVE Even(x)'
  <2>1. Even(x)
    BY DEF SlipInv
  <2>2. CASE op = "push" /\ x = s
    BY <1>1, <2>1, <2>2, PushSlip
  <2>3. CASE op = "drain" /\ x = s
    BY <1>1, <2>1, <2>3, DrainSlip
  <2>4. CASE ~(op \in {"push", "drain"} /\ x = s)
    <3>1. Kept(x, "in")
      <4>1. ~(op \in Walking /\ "in" = Side(op) /\ x = s)
        BY <2>4 DEF Side
      <4> QED BY <1>1, <4>1, OperateRings
    <3>2. ASSUME NEW o \in {"push", "drain"} PROVE At(o, x)' = At(o, x)
      <4>1. o \in Walking /\ ~(Heading(t)[1] = o /\ Heading(t)[2] = x)
        BY <1>1, <2>4 DEF Walking
      <4> QED BY <4>1, AtMoves
    <3>3. \A o : Clamped(Owner(o, x))' = Clamped(Owner(o, x))
      BY <1>2, SameBlock
    <3> QED BY <2>1, <3>1, <3>2, <3>3, SlipFrame
  <2> QED BY <2>2, <2>3, <2>4
<1> QED BY <1>3 DEF SlipInv

LEMMA SlipBegin ==
  ASSUME Shape, SlipInv, NEW t \in Threads, NEW n \in Blocks[t], Begin(t, n)
  PROVE  SlipInv'
<1>1. /\ frames' = [frames EXCEPT ![t] = n] /\ UNCHANGED <<wiring, device, ring, xruns>>
      /\ frames \in [Threads -> Nat]
  BY BeginIs DEF Shape, Calls
<1>2. ASSUME NEW s \in Streams PROVE Even(s)'
  <2>1. Even(s) /\ Kept(s, "in")
    BY <1>1 DEF SlipInv, Kept
  <2>2. ASSUME NEW op \in {"push", "drain"}
        PROVE  /\ At(op, s)' = At(op, s)
               /\ Clamped(Owner(op, s))' = Clamped(Owner(op, s)) \/ At(op, s) = 1
    <3>1. At(op, s)' = At(op, s) /\ (Owner(op, s) = t => At(op, s) = 1)
      BY AtBegins DEF Walking
    <3>2. CASE Owner(op, s) = t
      BY <3>1, <3>2
    <3>3. CASE Owner(op, s) # t
      <4>1. PICK o : o = Owner(op, s)
        OBVIOUS
      <4>2. Owner(op, s)' = o /\ o \in Threads /\ o # t
        BY <1>1, <3>3, <4>1, SameWiring, OwnerIs
      <4>3. frames'[o] = frames[o]
        BY <1>1, <4>2
      <4> QED BY <3>1, <4>1, <4>2, <4>3 DEF Clamped
    <3> QED BY <3>2, <3>3
  <2> QED BY <2>1, <2>2, SlipFrame
<1> QED BY <1>2 DEF SlipInv

LEMMA SameCalls ==
  ASSUME UNCHANGED <<wiring, device, todo, frames>>
  PROVE  \A op, s : At(op, s)' = At(op, s) /\ Clamped(Owner(op, s))' = Clamped(Owner(op, s))
<1> SUFFICES ASSUME NEW op, NEW s
             PROVE  At(op, s)' = At(op, s) /\ Clamped(Owner(op, s))' = Clamped(Owner(op, s))
  OBVIOUS
<1>1. PICK o : o = Owner(op, s)
  OBVIOUS
<1>2. Owner(op, s)' = o
  BY <1>1, SameWiring
<1>3. (Under(op, s, o)' <=> Under(op, s, o)) /\ Heading(o)' = Heading(o)
  BY DEF Under, Heading
<1> QED BY <1>1, <1>2, <1>3, SameBlock DEF At

LEMMA SlipRest ==
  ASSUME Shape, SlipInv, UNCHANGED <<wiring, device, todo, frames, ring, xruns>>
  PROVE  SlipInv'
<1>1. \A op, s : At(op, s)' = At(op, s) /\ Clamped(Owner(op, s))' = Clamped(Owner(op, s))
  BY SameCalls
<1>2. ASSUME NEW s \in Streams PROVE Even(s)'
  <2>1. Even(s) /\ Kept(s, "in")
    BY DEF SlipInv, Kept
  <2> QED BY <1>1, <2>1, SlipFrame
<1> QED BY <1>2 DEF SlipInv

\* Before the first call every operation is at the first channel, and nothing is there.
LEMMA InitAt ==
  ASSUME StreamInit, NEW op, NEW s \in Streams
  PROVE  At(op, s) = 1
<1>1. Owner(op, s) \in Threads /\ \A t \in Threads : todo[t] = <<>>
  BY OwnerIs DEF StreamInit
<1> QED BY <1>1 DEF At, Under

LEMMA InitSlip == StreamInit => SlipInv
<1> SUFFICES ASSUME StreamInit, NEW s \in Streams PROVE Even(s)
  BY DEF SlipInv
<1>0. \A c \in Chans : c \in Nat /\ ~(c < 1)
  BY StreamNumbers
<1>1. MaxBlock \in Nat /\ \A c \in Chans : c \in Nat /\ ~(c < 1) /\ <<"in", s, c>> \in Rings
  <2>1. MaxBlock \in Nat
    BY StreamNumbers
  <2>2. \A c \in Chans : <<"in", s, c>> \in Rings
    BY RingNames
  <2> QED BY <1>0, <2>1, <2>2
<1>2. ASSUME NEW c \in Chans PROVE Level(s, c) = 0
  <2>1. At("push", s) = 1 /\ At("drain", s) = 1
    BY InitAt
  <2>2. Brought(s, c) = 0 /\ Removed(s, c) = 0
    BY <1>1, <2>1 DEF Brought, Removed
  <2>3. ring[<<"in", s, c>>] = <<>>
    BY <1>1 DEF StreamInit
  <2> QED BY <2>2, <2>3 DEF Level
<1> QED BY <1>1, <1>2 DEF Even

LEMMA StreamStep ==
  ASSUME Shape, SlipInv, [StreamNext]_streamVars
  PROVE  Shape' /\ SlipInv'
<1>1. ASSUME NEW t \in Threads, NEW n \in Blocks[t], Begin(t, n) PROVE Shape' /\ SlipInv'
  BY <1>1, BeginShape, SlipBegin
<1>2. ASSUME NEW t \in Threads, Do(t) PROVE Shape' /\ SlipInv'
  BY <1>2, DoShape, SlipDo
<1>3. CASE Recompile
  <2>1. UNCHANGED <<wiring, device, todo, frames, ring, xruns>>
    BY <1>3 DEF Recompile
  <2> QED BY <1>3, <2>1, RecompileShape, SlipRest
<1>4. CASE UNCHANGED streamVars
  <2>1. UNCHANGED <<wiring, device, todo, frames, ring, xruns>>
    BY <1>4 DEF streamVars
  <2> QED BY <1>4, <2>1, ShapeStutter, SlipRest
<1> QED BY <1>1, <1>2, <1>3, <1>4 DEF StreamNext

(* What the calls, the rings and the buffers of the streams hold, and how  *)
(* far the rings drift apart, in every state of MultiSourceManager's       *)
(* clients.                                                                *)
THEOREM StreamInvariance == StreamSpec => [](Shape /\ SlipInv)
<1>1. StreamInit => Shape /\ SlipInv
  BY InitShape, InitSlip
<1>2. Shape /\ SlipInv /\ [StreamNext]_streamVars => Shape' /\ SlipInv'
  BY StreamStep
<1> QED BY <1>1, <1>2, PTL DEF StreamSpec

LEMMA SlipIsBounded == Shape /\ SlipInv => SlipWithinOneBlock
<1> SUFFICES ASSUME Shape, SlipInv, NEW s \in Streams, NEW c \in Chans, NEW d \in Chans, Resting("in", s)
             PROVE  Len(ring[<<"in", s, c>>]) - Len(ring[<<"in", s, d>>]) <= MaxBlock
  BY DEF SlipWithinOneBlock
<1>1. ASSUME NEW op \in {"push", "drain"} PROVE At(op, s) = 1
  <2>1. ~Mid(op, s)
    BY DEF Resting
  <2>2. At(op, s) \in Chans /\ (Mid(op, s) <=> At(op, s) > 1)
    BY AtIs DEF Shape, Walking
  <2>3. At(op, s) \in Nat /\ At(op, s) >= 1
    BY <2>2, StreamNumbers
  <2> QED BY <2>1, <2>2, <2>3
<1>2. ASSUME NEW x \in Chans PROVE Level(s, x) = Len(ring[<<"in", s, x>>])
  <2>1. ~(x < 1)
    BY StreamNumbers
  <2>2. Brought(s, x) = 0 /\ Removed(s, x) = 0
    BY <1>1, <2>1 DEF Brought, Removed
  <2>3. Len(ring[<<"in", s, x>>]) \in Nat
    BY LevelIs
  <2> QED BY <2>2, <2>3 DEF Level
<1>3. Level(s, c) - Level(s, d) <= MaxBlock
  BY DEF SlipInv, Even
<1> QED BY <1>2, <1>3

(* Whatever calls of pushInput and process overlap, between them the rings *)
(* of a source differ by no more than one block.                           *)
THEOREM SlipStaysWithinOneBlock == StreamSpec => []SlipWithinOneBlock
  BY StreamInvariance, SlipIsBounded, PTL

(* Rings hold no more than they can, of frames that were captured, and     *)
(* the manager's buffers keep their length.                                *)
THEOREM StreamTypeCorrect == StreamSpec => []StreamTypeOK
  BY StreamInvariance, ShapeIsType, PTL

-----------------------------------------------------------------------------
(* The channels of a stream in step.                                       *)

Sides == {"in", "out"}

\* The call that fills the rings of a stream, and the one that empties them.
Writer(side) == IF side = "in" THEN "push" ELSE "fill"
Reader(side) == IF side = "in" THEN "drain" ELSE "pop"
Block(op, s) == Clamped(Owner(op, s))

\* A call is under way and has not come to a channel yet.
Yet(op, s, c) == At(op, s) > 1 /\ c >= At(op, s)

\* What a ring holds and what it missed; what a block of n makes of that.
Is(r) == <<Len(ring[r]), xruns[r]>>
Add(v, n) == <<v[1] + Fitting(v[1], n), v[2] + n - Fitting(v[1], n)>>
Less(v, n) == <<v[1] - Present(v[1], n), v[2] + n - Present(v[1], n)>>
More(q, b) == q \o Prefix(b, Fitting(Len(q), Len(b)))

\* What the call under way will make of it.
Soon(side, s, c) ==
  IF Yet(Writer(side), s, c) THEN Add(Is(<<side, s, c>>), Block(Writer(side), s))
  ELSE IF Yet(Reader(side), s, c) THEN Less(Is(<<side, s, c>>), Block(Reader(side), s))
  ELSE Is(<<side, s, c>>)
SoonHas(s, c) ==
  IF Yet("push", s, c) THEN More(ring[<<"in", s, c>>], Captured(Owner("push", s), s, c))
  ELSE IF Yet("drain", s, c) THEN Suffix(ring[<<"in", s, c>>], Block("drain", s))
  ELSE ring[<<"in", s, c>>]

Alone(side, s) == At(Writer(side), s) = 1 \/ At(Reader(side), s) = 1
SameCounts(side, s) == \A c, d \in 1 .. Drained(side, s) : Soon(side, s, c) = Soon(side, s, d)
Heard(s) == {c \in Chans : c <= SourceChannels(s)}
SameFrames(s) == \A c, d \in Heard(s) : SoonHas(s, c) = SoonHas(s, d)
Together(side, s) == Alone(side, s) /\ SameCounts(side, s) /\ (side = "in" => SameFrames(s))

StepInv == \A side \in Sides, s \in Streams : <<side, s>> \notin hist.overlap => Together(side, s)

LEMMA WidthIs ==
  ASSUME Calls, NEW side \in Sides, NEW s \in Streams
  PROVE  /\ Drained(side, s) \in 0 .. Channels /\ 1 .. Drained(side, s) \subseteq Chans
         /\ SourceChannels(s) \in Nat
         /\ Writer(side) \in Walking /\ Reader(side) \in Walking /\ Writer(side) # Reader(side)
         /\ Upto(Writer(side), s) >= Drained(side, s) /\ Upto(Reader(side), s) >= Drained(side, s)
         /\ Upto(Writer(side), s) \in 0 .. Channels /\ Upto(Reader(side), s) \in 0 .. Channels
         /\ Upto("push", s) = Channels /\ Upto("drain", s) = Channels
<1>1. device.in \in Nat /\ Shown \in 0 .. Channels
  BY ShownIs DEF Calls
<1>2. Drained(side, s) \in 0 .. Channels
  BY <1>1, StreamNumbers DEF Drained, Shown
<1>3. SourceChannels(s) \in Nat
  BY <1>1, StreamNumbers DEF SourceChannels
<1>4. 1 .. Drained(side, s) \subseteq Chans
  BY <1>2, StreamNumbers DEF Chans
<1>5. Writer(side) \in Walking /\ Reader(side) \in Walking /\ Writer(side) # Reader(side)
  BY DEF Writer, Reader, Walking
<1>6. Upto("push", s) = Channels /\ Upto("drain", s) = Channels /\ Upto("fill", s) = Channels
      /\ Upto("pop", s) = Drained("out", s)
  BY DEF Upto
<1>7. /\ Upto(Writer(side), s) >= Drained(side, s) /\ Upto(Reader(side), s) >= Drained(side, s)
      /\ Upto(Writer(side), s) \in 0 .. Channels /\ Upto(Reader(side), s) \in 0 .. Channels
  <2>1. CASE side = "in"
    BY <1>2, <1>6, <2>1, StreamNumbers DEF Writer, Reader
  <2>2. CASE side = "out"
    BY <1>2, <1>6, <2>2, StreamNumbers DEF Writer, Reader
  <2> QED BY <2>1, <2>2 DEF Sides
<1> QED BY <1>2, <1>3, <1>4, <1>5, <1>6, <1>7

\* An operation on one ring of a stream, as its counts and frames see it.
LEMMA RingMoves ==
  ASSUME Shape, NEW side \in Sides, NEW s \in Streams, NEW t \in Threads, Do(t),
         NEW op \in {Writer(side), Reader(side)}, NEW k, Heading(t) = <<op, s, k>>
  PROVE  /\ k \in Chans /\ t = Owner(op, s)
         /\ \A c \in Chans : c # k => /\ Is(<<side, s, c>>)' = Is(<<side, s, c>>)
                                      /\ ring'[<<side, s, c>>] = ring[<<side, s, c>>]
         /\ op = Writer(side) =>
              /\ Is(<<side, s, k>>)' = Add(Is(<<side, s, k>>), Clamped(t))
              /\ side = "in" => ring'[<<side, s, k>>] = More(ring[<<side, s, k>>], Captured(t, s, k))
         /\ op = Reader(side) =>
              /\ Is(<<side, s, k>>)' = Less(Is(<<side, s, k>>), Clamped(t))
              /\ ring'[<<side, s, k>>] = Suffix(ring[<<side, s, k>>], Clamped(t))
<1> DEFINE r == <<side, s, k>>
<1>1. op \in Walking /\ Writer(side) # Reader(side)
  BY WidthIs DEF Shape
<1>2. todo[t] # <<>>
  BY DoIs DEF Shape
<1>3. k \in Chans /\ Mine(t, <<op, s, k>>)
  BY <1>2, HeadingIs DEF Shape
<1>4. t = Owner(op, s)
  BY <1>1, <1>3 DEF Mine
<1>5. \A c \in Chans : <<side, s, c>> \in Rings
  BY RingNames DEF Sides
<1>6. op = Writer(side) =>
        \E q : /\ Wrote(r, q) /\ Len(q) = Clamped(t)
               /\ side = "in" => q = Captured(t, s, k)
  <2>1. CASE side = "in"
    BY <2>1, OperateRings DEF Writer
  <2>2. CASE side = "out"
    BY <2>2, OperateRings DEF Writer
  <2> QED BY <2>1, <2>2 DEF Sides
<1>7. op = Reader(side) => Gave(r, Clamped(t))
  <2>1. CASE side = "in"
    BY <2>1, OperateRings DEF Reader
  <2>2. CASE side = "out"
    BY <2>2, OperateRings DEF Reader
  <2> QED BY <2>1, <2>2 DEF Sides
<1>8. ASSUME Others(r), NEW c \in Chans, c # k
      PROVE  Is(<<side, s, c>>)' = Is(<<side, s, c>>) /\ ring'[<<side, s, c>>] = ring[<<side, s, c>>]
  <2>1. <<side, s, c>> \in Rings \ {r}
    BY <1>5, <1>8
  <2> QED BY <1>8, <2>1 DEF Others, Is
<1>9. CASE op = Writer(side)
  <2>1. PICK q : Wrote(r, q) /\ Len(q) = Clamped(t) /\ (side = "in" => q = Captured(t, s, k))
    BY <1>6, <1>9
  <2>2. Others(r)
    BY <2>1 DEF Wrote
  <2>3. Is(r)' = Add(Is(r), Clamped(t))
    BY <2>1 DEF Wrote, Is, Add
  <2>4. ring'[r] = More(ring[r], q)
    BY <2>1 DEF Wrote, More
  <2> QED BY <1>1, <1>3, <1>4, <1>8, <1>9, <2>1, <2>2, <2>3, <2>4
<1>10. CASE op = Reader(side)
  <2>1. Gave(r, Clamped(t))
    BY <1>7, <1>10
  <2>2. Others(r)
    BY <2>1 DEF Gave
  <2>3. Is(r)' = Less(Is(r), Clamped(t))
    BY <2>1 DEF Gave, Is, Less
  <2>4. ring'[r] = Suffix(ring[r], Clamped(t))
    BY <2>1 DEF Gave
  <2> QED BY <1>1, <1>3, <1>4, <1>8, <1>10, <2>2, <2>3, <2>4
<1> QED BY <1>9, <1>10

\* A step of one call, the other being at rest: where both are, before and after.
LEMMA WalkMoves ==
  ASSUME Shape, NEW side \in Sides, NEW s \in Streams, NEW t \in Threads, Do(t),
         NEW op \in {Writer(side), Reader(side)}, NEW k, Heading(t) = <<op, s, k>>,
         <<side, s>> \notin hist'.overlap,
         NEW other, other = IF op = Writer(side) THEN Reader(side) ELSE Writer(side)
  PROVE  /\ <<side, s>> \notin hist.overlap
         /\ At(op, s) = k /\ k \in Nat /\ k >= 1
         /\ \/ At(op, s)' = k + 1
            \/ At(op, s)' = 1 /\ k >= Drained(side, s) /\ (side = "in" => k >= Channels)
         /\ At(other, s) = 1 /\ At(other, s)' = 1
<1>1. /\ op \in Walking /\ other \in Walking /\ op # other
      /\ Upto(op, s) >= Drained(side, s) /\ (side = "in" => Upto(op, s) = Channels)
  BY WidthIs DEF Shape, Writer, Reader
<1>2. Noted(op, s)
  <2>1. Heading(t)[1] = op /\ Heading(t)[2] = s
    OBVIOUS
  <2>2. Noted(Heading(t)[1], Heading(t)[2])
    BY DoShape, Zenon
  <2> QED BY <2>1, <2>2, Zenon
<1>3. hist'.overlap = hist.overlap \union Met(side, s, other)
  <2>1. Side(op) = side /\ Meets(op) = other
    BY DEF Side, Meets, Writer, Reader, Sides
  <2> QED BY <1>1, <1>2, <2>1 DEF Noted
<1>4. <<side, s>> \notin hist.overlap /\ ~Mid(other, s)
  BY <1>3 DEF Met
<1>5. At(other, s) \in Chans /\ (Mid(other, s) <=> At(other, s) > 1)
  BY <1>1, AtIs DEF Shape
<1>6. At(other, s) = 1
  <2>1. At(other, s) \in Nat /\ At(other, s) >= 1
    BY <1>5, StreamNumbers
  <2> QED BY <1>4, <1>5, <2>1
<1>7. At(other, s)' = At(other, s)
  BY <1>1, AtMoves
<1>8. At(op, s) = k /\ k <= Upto(op, s) /\ At(op, s)' = IF k < Upto(op, s) THEN k + 1 ELSE 1
  BY <1>1, AtMoves
<1>9. k \in Nat /\ k >= 1
  <2>1. todo[t] # <<>>
    BY DoIs DEF Shape
  <2>2. k \in Chans
    BY <2>1, HeadingIs DEF Shape
  <2> QED BY <2>2, StreamNumbers
<1>10. Upto(op, s) \in Int /\ Drained(side, s) \in Int /\ Channels \in Int
  <2>1. Drained(side, s) \in 0 .. Channels /\ Upto(op, s) \in 0 .. Channels
    BY WidthIs DEF Shape
  <2> QED BY <2>1, StreamNumbers
<1>11. \/ At(op, s)' = k + 1
       \/ At(op, s)' = 1 /\ k >= Drained(side, s) /\ (side = "in" => k >= Channels)
  BY <1>1, <1>8, <1>9, <1>10
<1> QED BY <1>4, <1>6, <1>7, <1>8, <1>9, <1>11

\* What the calls make of a channel, when only one of them is under way.
LEMMA SoonIs ==
  ASSUME NEW side \in Sides, NEW s, NEW c, NEW op \in {Writer(side), Reader(side)},
         NEW other, other = IF op = Writer(side) THEN Reader(side) ELSE Writer(side), At(other, s) = 1
  PROVE  Soon(side, s, c) =
           IF Yet(op, s, c)
           THEN IF op = Writer(side) THEN Add(Is(<<side, s, c>>), Block(op, s))
                ELSE Less(Is(<<side, s, c>>), Block(op, s))
           ELSE Is(<<side, s, c>>)
<1>1. ~Yet(other, s, c)
  BY DEF Yet
<1>2. Writer(side) # Reader(side)
  BY DEF Writer, Reader
<1>3. CASE op = Writer(side)
  BY <1>1, <1>2, <1>3 DEF Soon
<1>4. CASE op = Reader(side)
  BY <1>1, <1>2, <1>4 DEF Soon
<1> QED BY <1>3, <1>4

LEMMA CountsWalk ==
  ASSUME Shape, NEW side \in Sides, NEW s \in Streams, NEW t \in Threads, Do(t),
         NEW op \in {Writer(side), Reader(side)}, NEW k, Heading(t) = <<op, s, k>>,
         <<side, s>> \notin hist'.overlap, SameCounts(side, s)
  PROVE  SameCounts(side, s)'
<1> DEFINE other == IF op = Writer(side) THEN Reader(side) ELSE Writer(side)
<1>1. PICK n : n = At(op, s)'
  OBVIOUS
<1>2. PICK C : C = 1 .. Drained(side, s)
  OBVIOUS
<1>3. PICK p : p = Clamped(t)
  OBVIOUS
<1>4. /\ At(op, s) = k /\ k \in Nat /\ k >= 1
      /\ n = k + 1 \/ (n = 1 /\ k >= Drained(side, s))
      /\ At(other, s) = 1 /\ At(other, s)' = 1
  BY <1>1, WalkMoves
<1>5. UNCHANGED <<wiring, device, frames>>
  BY DoIs DEF Shape
<1>6. /\ t = Owner(op, s)
      /\ \A c \in Chans : c # k => Is(<<side, s, c>>)' = Is(<<side, s, c>>)
      /\ op = Writer(side) => Is(<<side, s, k>>)' = Add(Is(<<side, s, k>>), Clamped(t))
      /\ op = Reader(side) => Is(<<side, s, k>>)' = Less(Is(<<side, s, k>>), Clamped(t))
  BY RingMoves, SMTT(60)
<1>7. Block(op, s) = p /\ Block(op, s)' = p
  BY <1>3, <1>5, <1>6, SameBlock DEF Block
<1>8. (1 .. Drained(side, s))' = C
  BY <1>2, <1>5, SameWiring
<1>9. C \in SUBSET Nat /\ C \subseteq Chans /\ (\A c \in C : c >= 1) /\ (n = 1 => \A c \in C : c <= k)
  <2>1. Drained(side, s) \in 0 .. Channels /\ C \subseteq Chans
    BY <1>2, WidthIs DEF Shape
  <2> QED BY <1>2, <1>4, <2>1, StreamNumbers
<1> DEFINE After(v) == IF op = Writer(side) THEN Add(v, p) ELSE Less(v, p)
<1>10. \A c \in C : c = k => Is(<<side, s, c>>)' = After(Is(<<side, s, c>>))
  BY <1>3, <1>6
<1>11. \A c \in C : c # k => Is(<<side, s, c>>)' = Is(<<side, s, c>>)
  BY <1>6, <1>9
<1>12. ASSUME NEW c \in C
       PROVE  Soon(side, s, c) = IF k > 1 /\ c >= k THEN After(Is(<<side, s, c>>)) ELSE Is(<<side, s, c>>)
  BY <1>4, <1>7, SoonIs DEF Yet
<1>13. ASSUME NEW c \in C
       PROVE  Soon(side, s, c)' = IF n > 1 /\ c >= n THEN After(Is(<<side, s, c>>)') ELSE Is(<<side, s, c>>)'
  <2>1. Soon(side, s, c)' =
           IF Yet(op, s, c)'
           THEN IF op = Writer(side) THEN Add(Is(<<side, s, c>>), Block(op, s))'
                ELSE Less(Is(<<side, s, c>>), Block(op, s))'
           ELSE Is(<<side, s, c>>)'
    <3>1. ~Yet(other, s, c)'
      BY <1>4 DEF Yet
    <3>2. CASE op = Writer(side)
      BY <3>1, <3>2 DEF Soon, Writer, Reader
    <3>3. CASE op = Reader(side)
      BY <3>1, <3>3 DEF Soon, Writer, Reader
    <3> QED BY <3>2, <3>3
  <2>2. Yet(op, s, c)' <=> n > 1 /\ c >= n
    BY <1>1 DEF Yet
  <2>3. /\ Add(Is(<<side, s, c>>), Block(op, s))' = Add(Is(<<side, s, c>>)', p)
        /\ Less(Is(<<side, s, c>>), Block(op, s))' = Less(Is(<<side, s, c>>)', p)
    BY <1>7 DEF Add, Less, Fitting, Present
  <2> QED BY <2>1, <2>2, <2>3
<1> HIDE DEF After
<1>14. ASSUME NEW c \in C
       PROVE  Soon(side, s, c)' = IF c < k THEN Is(<<side, s, c>>) ELSE After(Is(<<side, s, c>>))
  <2>1. c \in Nat /\ c >= 1 /\ (n = k + 1 \/ (n = 1 /\ c <= k))
    BY <1>4, <1>9
  <2>2. CASE c < k
    <3>0. ~(n > 1 /\ c >= n) /\ c # k
      BY <1>4, <2>1, <2>2
    <3>1. Soon(side, s, c)' = Is(<<side, s, c>>)'
      BY <1>13, <3>0
    <3> QED BY <1>11, <2>2, <3>0, <3>1
  <2>3. CASE c = k
    <3>1. Soon(side, s, c)' = Is(<<side, s, c>>)'
      BY <1>4, <1>13, <2>1, <2>3
    <3> QED BY <1>4, <1>10, <2>3, <3>1
  <2>4. CASE c > k
    <3>1. Soon(side, s, c)' = After(Is(<<side, s, c>>)')
      BY <1>4, <1>13, <2>1, <2>4
    <3> QED BY <1>4, <1>11, <2>1, <2>4, <3>1
  <2> QED BY <1>4, <2>1, <2>2, <2>3, <2>4
<1>15. ASSUME NEW c \in C, NEW d \in C PROVE Soon(side, s, c)' = Soon(side, s, d)'
  <2>1. Soon(side, s, c) = Soon(side, s, d)
    BY <1>2 DEF SameCounts
  <2>2. CASE k = 1
    <3>1. ASSUME NEW x \in C
          PROVE  Soon(side, s, x) = Is(<<side, s, x>>) /\ Soon(side, s, x)' = After(Is(<<side, s, x>>))
      <4>1. ~(k > 1 /\ x >= k) /\ ~(x < k)
        BY <1>9, <2>2
      <4> QED BY <1>12, <1>14, <4>1
    <3> QED BY <2>1, <3>1
  <2>3. CASE k > 1
    <3>1. ASSUME NEW x \in C PROVE Soon(side, s, x)' = Soon(side, s, x)
      <4>0. x \in Nat /\ k \in Nat
        BY <1>4, <1>9
      <4>1. (k > 1 /\ x >= k) <=> ~(x < k)
        BY <2>3, <4>0
      <4> QED BY <1>12, <1>14, <4>1
    <3> QED BY <2>1, <3>1
  <2> QED BY <1>4, <2>2, <2>3
<1> QED BY <1>8, <1>15 DEF SameCounts

LEMMA FramesWalk ==
  ASSUME Shape, NEW s \in Streams, NEW t \in Threads, Do(t),
         NEW op \in {"push", "drain"}, NEW k, Heading(t) = <<op, s, k>>,
         <<"in", s>> \notin hist'.overlap, SameFrames(s)
  PROVE  SameFrames(s)'
<1> DEFINE other == IF op = "push" THEN "drain" ELSE "push"
           Q(c) == ring[<<"in", s, c>>]
<1>1. PICK n : n = At(op, s)'
  OBVIOUS
<1>2. PICK C : C = Heard(s)
  OBVIOUS
<1>w. "in" \in Sides /\ Writer("in") = "push" /\ Reader("in") = "drain"
  BY DEF Sides, Writer, Reader
<1>4. /\ At(op, s) = k /\ k \in Nat /\ k >= 1
      /\ n = k + 1 \/ (n = 1 /\ k >= Channels)
      /\ At(other, s) = 1 /\ At(other, s)' = 1
  <2>1. op \in {Writer("in"), Reader("in")} /\ other = IF op = Writer("in") THEN Reader("in") ELSE Writer("in")
    BY <1>w
  <2> QED BY <1>1, <1>w, <2>1, WalkMoves, SMTT(30)
<1>5. UNCHANGED <<wiring, device, frames, sent>>
  BY DoIs DEF Shape
<1>6. /\ t = Owner(op, s)
      /\ \A c \in Chans : c # k => Q(c)' = Q(c)
      /\ op = "push" => Q(k)' = More(Q(k), Captured(t, s, k))
      /\ op = "drain" => Q(k)' = Suffix(Q(k), Clamped(t))
  <2>1. op \in {Writer("in"), Reader("in")}
    BY <1>w
  <2> QED BY <1>w, <2>1, RingMoves, SMTT(30)
<1>7. /\ Owner(op, s)' = t /\ Clamped(t)' = Clamped(t) /\ Block(op, s)' = Clamped(t) /\ Block(op, s) = Clamped(t)
      /\ \A c : Captured(t, s, c)' = Captured(t, s, c)
      /\ Heard(s)' = C
  <2>1. \A x : SourceChannels(x)' = SourceChannels(x)
    BY <1>5, SameWiring
  <2>2. Owner(op, s)' = t
    BY <1>5, <1>6, SameWiring
  <2>3. Clamped(t)' = Clamped(t)
    BY <1>5 DEF Clamped
  <2>4. \A c : Captured(t, s, c)' = Captured(t, s, c)
    BY <1>5, <2>1, <2>3 DEF Captured
  <2> QED BY <1>2, <1>6, <2>1, <2>2, <2>3, <2>4 DEF Heard, Block
<1>9. ASSUME NEW c \in C PROVE c \in Chans /\ c \in Nat /\ c >= 1 /\ (n = 1 => c <= k)
  BY <1>2, <1>4, StreamNumbers DEF Heard
<1> DEFINE After(q, c) == IF op = "push" THEN More(q, Captured(t, s, c)) ELSE Suffix(q, Clamped(t))
<1>10. Q(k)' = After(Q(k), k)
  BY <1>6
<1>11. \A c \in C : c # k => Q(c)' = Q(c)
  BY <1>6, <1>9
<1>12. ASSUME NEW c
       PROVE  SoonHas(s, c) = IF k > 1 /\ c >= k THEN After(Q(c), c) ELSE Q(c)
  <2>1. (Yet(op, s, c) <=> k > 1 /\ c >= k) /\ ~Yet(other, s, c)
    BY <1>4 DEF Yet
  <2>2. CASE op = "push"
    BY <1>6, <2>1, <2>2 DEF SoonHas
  <2>3. CASE op = "drain"
    BY <1>7, <2>1, <2>3 DEF SoonHas
  <2> QED BY <2>2, <2>3
<1>13. ASSUME NEW c
       PROVE  SoonHas(s, c)' = IF n > 1 /\ c >= n THEN After(Q(c)', c) ELSE Q(c)'
  <2>1. (Yet(op, s, c)' <=> n > 1 /\ c >= n) /\ ~Yet(other, s, c)'
    BY <1>1, <1>4 DEF Yet
  <2>2. CASE op = "push"
    <3>1. More(Q(c), Captured(Owner("push", s), s, c))' = More(Q(c)', Captured(t, s, c))
      BY <1>7, <2>2 DEF More, Fitting
    <3> QED BY <2>1, <2>2, <3>1 DEF SoonHas
  <2>3. CASE op = "drain"
    <3>1. Suffix(Q(c), Block("drain", s))' = Suffix(Q(c)', Clamped(t))
      BY <1>7, <2>3 DEF Suffix
    <3> QED BY <2>1, <2>3, <3>1 DEF SoonHas
  <2> QED BY <2>2, <2>3
<1>14. ASSUME NEW c \in C, NEW d \in C, Q(c) = Q(d) PROVE After(Q(c), c) = After(Q(d), d)
  <2>1. c <= SourceChannels(s) /\ d <= SourceChannels(s)
    BY <1>2 DEF Heard
  <2>2. Captured(t, s, c) = Captured(t, s, d)
    BY <2>1 DEF Captured
  <2> QED BY <1>14, <2>2
<1> HIDE DEF After
<1>15. ASSUME NEW c \in C
       PROVE  SoonHas(s, c)' = IF c < k THEN Q(c) ELSE After(Q(c), c)
  <2>1. c \in Nat /\ c >= 1 /\ (n = k + 1 \/ (n = 1 /\ c <= k))
    BY <1>4, <1>9
  <2>2. CASE c < k
    <3>0. ~(n > 1 /\ c >= n) /\ c # k
      BY <1>4, <2>1, <2>2
    <3>1. SoonHas(s, c)' = Q(c)'
      BY <1>13, <3>0
    <3> QED BY <1>11, <2>2, <3>0, <3>1
  <2>3. CASE c = k
    <3>0. ~(n > 1 /\ c >= n) /\ ~(c < k)
      BY <1>4, <2>1, <2>3
    <3>1. SoonHas(s, c)' = Q(c)'
      BY <1>13, <3>0
    <3> QED BY <1>10, <2>3, <3>0, <3>1
  <2>4. CASE c > k
    <3>0. n > 1 /\ c >= n /\ ~(c < k) /\ c # k
      BY <1>4, <2>1, <2>4
    <3>1. SoonHas(s, c)' = After(Q(c)', c)
      BY <1>13, <3>0
    <3> QED BY <1>11, <3>0, <3>1
  <2> QED BY <1>4, <2>1, <2>2, <2>3, <2>4
<1>16. ASSUME NEW c \in C, NEW d \in C PROVE SoonHas(s, c)' = SoonHas(s, d)'
  <2>1. SoonHas(s, c) = SoonHas(s, d)
    BY <1>2 DEF SameFrames
  <2>2. CASE k = 1
    <3>1. ASSUME NEW x \in C
          PROVE  SoonHas(s, x) = Q(x) /\ SoonHas(s, x)' = After(Q(x), x)
      <4>1. ~(k > 1 /\ x >= k) /\ ~(x < k)
        BY <1>9, <2>2
      <4> QED BY <1>12, <1>15, <4>1
    <3>2. Q(c) = Q(d)
      BY <2>1, <3>1
    <3> QED BY <1>14, <3>1, <3>2
  <2>3. CASE k > 1
    <3>1. ASSUME NEW x \in C PROVE SoonHas(s, x)' = SoonHas(s, x)
      <4>0. x \in Nat /\ k \in Nat
        BY <1>4, <1>9
      <4>1. (k > 1 /\ x >= k) <=> ~(x < k)
        BY <2>3, <4>0
      <4> QED BY <1>12, <1>15, <4>1
    <3> QED BY <2>1, <3>1
  <2> QED BY <1>4, <2>2, <2>3
<1> QED BY <1>7, <1>16 DEF SameFrames

\* A call that stays where it is, with the block it has.
Waits(op, s) ==
  /\ At(op, s)' = At(op, s)
  /\ At(op, s) = 1 \/ (/\ frames'[Owner(op, s)] = frames[Owner(op, s)]
                       /\ op = "push" => sent'[s] = sent[s])

LEMMA TogetherStays ==
  ASSUME Calls, NEW side \in Sides, NEW s \in Streams, Together(side, s), Kept(s, side),
         UNCHANGED <<wiring, device>>, Waits(Writer(side), s), Waits(Reader(side), s)
  PROVE  Together(side, s)'
<1>1. /\ \A op, x : Owner(op, x)' = Owner(op, x)
      /\ Drained(side, s)' = Drained(side, s) /\ SourceChannels(s)' = SourceChannels(s)
  BY SameWiring
<1>2. \A c \in Chans : c \in Nat /\ (Yet(Writer(side), s, c)' <=> Yet(Writer(side), s, c))
                               /\ (Yet(Reader(side), s, c)' <=> Yet(Reader(side), s, c))
  BY StreamNumbers DEF Waits, Yet
<1>3. ASSUME NEW op \in {Writer(side), Reader(side)}, NEW c, Yet(op, s, c)
      PROVE  /\ Clamped(Owner(op, s))' = Clamped(Owner(op, s)) /\ Block(op, s)' = Block(op, s)
             /\ frames'[Owner(op, s)] = frames[Owner(op, s)]
             /\ op = "push" => sent'[s] = sent[s]
  <2>1. frames'[Owner(op, s)] = frames[Owner(op, s)] /\ (op = "push" => sent'[s] = sent[s])
    BY <1>3 DEF Waits, Yet
  <2>2. PICK o : o = Owner(op, s)
    OBVIOUS
  <2>3. Owner(op, s)' = o
    BY <1>1, <2>2
  <2> QED BY <2>1, <2>2, <2>3 DEF Clamped, Block
<1>4. ASSUME NEW c \in Chans PROVE Soon(side, s, c)' = Soon(side, s, c)
  <2>1. Is(<<side, s, c>>)' = Is(<<side, s, c>>)
    BY DEF Kept, Is
  <2>2. CASE Yet(Writer(side), s, c)
    <3>1. Add(Is(<<side, s, c>>), Block(Writer(side), s))' = Add(Is(<<side, s, c>>), Block(Writer(side), s))
      BY <1>3, <2>1, <2>2 DEF Add, Fitting
    <3> QED BY <1>2, <2>2, <3>1 DEF Soon, Writer, Reader
  <2>3. CASE ~Yet(Writer(side), s, c) /\ Yet(Reader(side), s, c)
    <3>1. Less(Is(<<side, s, c>>), Block(Reader(side), s))' = Less(Is(<<side, s, c>>), Block(Reader(side), s))
      BY <1>3, <2>1, <2>3 DEF Less, Present
    <3> QED BY <1>2, <2>3, <3>1 DEF Soon, Writer, Reader
  <2>4. CASE ~Yet(Writer(side), s, c) /\ ~Yet(Reader(side), s, c)
    BY <1>2, <2>1, <2>4 DEF Soon, Writer, Reader
  <2> QED BY <2>2, <2>3, <2>4
<1>5. ASSUME side = "in", NEW c \in Chans PROVE SoonHas(s, c)' = SoonHas(s, c)
  <2>1. ring'[<<"in", s, c>>] = ring[<<"in", s, c>>]
    BY <1>5 DEF Kept
  <2>w. Writer(side) = "push" /\ Reader(side) = "drain"
    BY <1>5 DEF Writer, Reader
  <2>2. CASE Yet("push", s, c)
    <3>1. PICK o : o = Owner("push", s)
      OBVIOUS
    <3>2. Owner("push", s)' = o /\ Clamped(o)' = Clamped(o) /\ frames'[o] = frames[o] /\ sent'[s] = sent[s]
      BY <1>1, <1>3, <2>w, <2>2, <3>1 DEF Clamped
    <3>3. Captured(Owner("push", s), s, c)' = Captured(o, s, c)
      BY <1>1, <3>2 DEF Captured
    <3>4. More(ring[<<"in", s, c>>], Captured(Owner("push", s), s, c))'
            = More(ring[<<"in", s, c>>], Captured(o, s, c))
      BY <2>1, <3>3 DEF More, Fitting
    <3> QED BY <1>2, <2>w, <2>2, <3>1, <3>4 DEF SoonHas
  <2>3. CASE ~Yet("push", s, c) /\ Yet("drain", s, c)
    <3>1. Suffix(ring[<<"in", s, c>>], Block("drain", s))' = Suffix(ring[<<"in", s, c>>], Block("drain", s))
      BY <1>3, <2>w, <2>1, <2>3 DEF Suffix
    <3> QED BY <1>2, <2>w, <2>3, <3>1 DEF SoonHas
  <2>4. CASE ~Yet("push", s, c) /\ ~Yet("drain", s, c)
    BY <1>2, <2>w, <2>1, <2>4 DEF SoonHas
  <2> QED BY <2>2, <2>3, <2>4
<1>6. Alone(side, s)'
  BY DEF Together, Alone, Waits, Writer, Reader
<1>7. SameCounts(side, s)'
  <2>1. PICK D : D = Drained(side, s)
    OBVIOUS
  <2>2. Drained(side, s)' = D /\ 1 .. D \subseteq Chans
    BY <1>1, <2>1, WidthIs
  <2>3. \A c, d \in 1 .. D : Soon(side, s, c) = Soon(side, s, d)
    BY <2>1 DEF Together, SameCounts
  <2>4. \A c, d \in 1 .. D : Soon(side, s, c)' = Soon(side, s, d)'
    BY <1>4, <2>2, <2>3
  <2> QED BY <2>2, <2>4 DEF SameCounts
<1>8. side = "in" => SameFrames(s)'
  <2> SUFFICES ASSUME side = "in" PROVE SameFrames(s)'
    OBVIOUS
  <2>1. PICK C : C = Heard(s)
    OBVIOUS
  <2>2. Heard(s)' = C /\ C \subseteq Chans
    BY <1>1, <2>1 DEF Heard
  <2>3. \A c, d \in C : SoonHas(s, c) = SoonHas(s, d)
    BY <2>1 DEF Together, SameFrames
  <2>4. \A c, d \in C : SoonHas(s, c)' = SoonHas(s, d)'
    BY <1>5, <2>2, <2>3
  <2> QED BY <2>2, <2>4 DEF SameFrames
<1> QED BY <1>6, <1>7, <1>8 DEF Together

LEMMA StepDo ==
  ASSUME Shape, StepInv, NEW t \in Threads, Do(t)
  PROVE  StepInv'
<1> DEFINE op == Heading(t)[1]
           s == Heading(t)[2]
           k == Heading(t)[3]
<1>1. Heading(t) = <<op, s, k>> /\ s \in Streams /\ op \in OpNames
  BY DoIs, HeadingIs DEF Shape
<1>2. UNCHANGED <<wiring, device, frames, sent>>
  BY DoIs DEF Shape
<1>3. hist'.overlap = IF op \in Walking THEN hist.overlap \union Met(Side(op), s, Meets(op)) ELSE hist.overlap
  BY DoShape DEF Noted
<1> HIDE DEF op, s, k
<1>4. ASSUME NEW side \in Sides, NEW x \in Streams, <<side, x>> \notin hist'.overlap
      PROVE  Together(side, x)'
  <2>1. Together(side, x)
    BY <1>3, <1>4 DEF StepInv
  <2>2. CASE op \in {Writer(side), Reader(side)} /\ x = s
    <3>1. Heading(t) = <<op, x, k>>
      BY <1>1, <2>2
    <3>2. SameCounts(side, x)'
      BY <1>4, <2>1, <2>2, <3>1, CountsWalk DEF Together
    <3>3. side = "in" => SameFrames(x)'
      <4>1. side = "in" => op \in {"push", "drain"}
        BY <2>2 DEF Writer, Reader
      <4> QED BY <1>4, <2>1, <3>1, <4>1, FramesWalk DEF Together
    <3>4. Alone(side, x)'
      <4>1. PICK other : other = IF op = Writer(side) THEN Reader(side) ELSE Writer(side)
        OBVIOUS
      <4>2. op \in {Writer(side), Reader(side)}
        BY <2>2
      <4>3. At(other, x)' = 1
        BY <1>4, <3>1, <4>1, <4>2, WalkMoves
      <4> QED BY <4>1, <4>3 DEF Alone, Writer, Reader
    <3> QED BY <3>2, <3>3, <3>4 DEF Together
  <2>3. CASE ~(op \in {Writer(side), Reader(side)} /\ x = s)
    <3>1. Kept(x, side)
      <4>1. ~(op \in Walking /\ side = Side(op) /\ x = s)
        BY <2>3 DEF Side, Walking, Writer, Reader, Sides
      <4> QED BY <1>1, <4>1, OperateRings DEF Sides
    <3>2. ASSUME NEW o \in {Writer(side), Reader(side)} PROVE Waits(o, x)
      <4>1. o \in Walking /\ ~(Heading(t)[1] = o /\ Heading(t)[2] = x)
        BY <1>1, <2>3 DEF Walking, Writer, Reader
      <4>2. At(o, x)' = At(o, x)
        BY <4>1, AtMoves
      <4> QED BY <1>2, <4>2 DEF Waits
    <3> QED BY <1>2, <2>1, <3>1, <3>2, TogetherStays DEF Shape
  <2> QED BY <2>2, <2>3
<1> QED BY <1>4 DEF StepInv

LEMMA StepBegin ==
  ASSUME Shape, StepInv, NEW t \in Threads, NEW n \in Blocks[t], Begin(t, n)
  PROVE  StepInv'
<1>1. /\ frames' = [frames EXCEPT ![t] = n] /\ UNCHANGED <<wiring, device, ring, xruns>>
      /\ sent' = [s \in Streams |-> IF Source[s] = t THEN sent[s] + n ELSE sent[s]]
      /\ frames \in [Threads -> Nat] /\ sent \in [Streams -> Nat]
  BY BeginIs DEF Shape, Calls
<1>2. hist'.overlap = hist.overlap
  BY BeginShape
<1>3. ASSUME NEW side \in Sides, NEW s \in Streams, <<side, s>> \notin hist.overlap
      PROVE  Together(side, s)'
  <2>1. Together(side, s) /\ Kept(s, side)
    BY <1>1, <1>3 DEF StepInv, Kept
  <2>2. ASSUME NEW op \in {Writer(side), Reader(side)} PROVE Waits(op, s)
    <3>0. op \in Walking
      BY DEF Walking, Writer, Reader
    <3>1. At(op, s)' = At(op, s) /\ (Owner(op, s) = t => At(op, s) = 1)
      BY <3>0, AtBegins
    <3>2. CASE Owner(op, s) = t
      BY <3>1, <3>2 DEF Waits
    <3>3. CASE Owner(op, s) # t
      <4>1. Owner(op, s) \in Threads
        BY OwnerIs
      <4>2. frames'[Owner(op, s)] = frames[Owner(op, s)]
        BY <1>1, <3>3, <4>1
      <4>3. op = "push" => sent'[s] = sent[s]
        BY <1>1, <3>3 DEF Owner
      <4> QED BY <3>1, <4>2, <4>3 DEF Waits
    <3> QED BY <3>2, <3>3
  <2> QED BY <1>1, <2>1, <2>2, TogetherStays DEF Shape
<1> QED BY <1>2, <1>3 DEF StepInv

LEMMA StepRest ==
  ASSUME Shape, StepInv, UNCHANGED <<wiring, device, todo, frames, sent, ring, xruns, hist>>
  PROVE  StepInv'
<1>1. \A op, s : At(op, s)' = At(op, s)
  BY SameCalls
<1>2. ASSUME NEW side \in Sides, NEW s \in Streams, <<side, s>> \notin hist.overlap
      PROVE  Together(side, s)'
  <2>1. Together(side, s) /\ Kept(s, side)
    BY <1>2 DEF StepInv, Kept
  <2>2. \A op : Waits(op, s)
    BY <1>1 DEF Waits
  <2> QED BY <2>1, <2>2, TogetherStays DEF Shape
<1> QED BY <1>2 DEF StepInv

LEMMA InitStep == StreamInit => StepInv
<1> SUFFICES ASSUME StreamInit, NEW side \in Sides, NEW s \in Streams PROVE Together(side, s)
  BY DEF StepInv
<1>1. \A op : At(op, s) = 1
  BY InitAt
<1>2. \A op, c : ~Yet(op, s, c)
  BY <1>1 DEF Yet
<1>3. Calls
  BY InitShape DEF Shape
<1>4. \A c \in Chans : ring[<<side, s, c>>] = <<>> /\ xruns[<<side, s, c>>] = 0
  BY RingNames DEF StreamInit, Sides
<1>5. \A c \in Chans : Soon(side, s, c) = <<Len(<<>>), 0>>
  BY <1>2, <1>4 DEF Soon, Is
<1>6. 1 .. Drained(side, s) \subseteq Chans
  BY <1>3, WidthIs
<1>7. SameCounts(side, s)
  BY <1>5, <1>6 DEF SameCounts
<1>8. side = "in" => SameFrames(s)
  BY <1>2, <1>4 DEF SameFrames, SoonHas, Heard
<1> QED BY <1>1, <1>7, <1>8 DEF Together, Alone

LEMMA InStepIs == Shape /\ StepInv => StreamsInStep
<1> SUFFICES ASSUME Shape, StepInv, NEW side \in Sides, NEW s \in Streams,
                    Resting(side, s), <<side, s>> \notin hist.overlap, NEW c \in 1 .. Drained(side, s)
             PROVE  /\ Len(ring[<<side, s, c>>]) = Len(ring[<<side, s, 1>>])
                    /\ xruns[<<side, s, c>>] = xruns[<<side, s, 1>>]
                    /\ side = "in" /\ c <= SourceChannels(s) => ring[<<side, s, c>>] = ring[<<side, s, 1>>]
  BY ShapeIsType DEF StreamsInStep, Sides
<1>1. Together(side, s)
  BY DEF StepInv
<1>2. ASSUME NEW op \in {Writer(side), Reader(side)} PROVE At(op, s) = 1
  <2>1. ~Mid(op, s)
    <3>1. CASE side = "in"
      BY <3>1 DEF Resting, Writer, Reader
    <3>2. CASE side = "out"
      BY <3>2 DEF Resting, Writer, Reader
    <3> QED BY <3>1, <3>2 DEF Sides
  <2>2. At(op, s) \in Chans /\ (Mid(op, s) <=> At(op, s) > 1)
    BY AtIs DEF Shape, Walking, Writer, Reader
  <2>3. At(op, s) \in Nat /\ At(op, s) >= 1
    BY <2>2, StreamNumbers
  <2> QED BY <2>1, <2>2, <2>3
<1>3. \A x : ~Yet(Writer(side), s, x) /\ ~Yet(Reader(side), s, x)
  BY <1>2 DEF Yet
<1>4. Drained(side, s) \in Nat /\ 1 .. Drained(side, s) \subseteq Chans
  BY WidthIs DEF Shape
<1>5. c \in Chans /\ c \in Nat /\ c >= 1 /\ 1 \in 1 .. Drained(side, s) /\ 1 \in Chans
  BY <1>4
<1>6. Is(<<side, s, c>>) = Is(<<side, s, 1>>)
  <2>1. \A x : Soon(side, s, x) = Is(<<side, s, x>>)
    BY <1>3 DEF Soon
  <2>2. Soon(side, s, c) = Soon(side, s, 1)
    BY <1>1, <1>5 DEF Together, SameCounts
  <2> QED BY <2>1, <2>2
<1>7. side = "in" /\ c <= SourceChannels(s) => ring[<<side, s, c>>] = ring[<<side, s, 1>>]
  <2> SUFFICES ASSUME side = "in", c <= SourceChannels(s) PROVE ring[<<"in", s, c>>] = ring[<<"in", s, 1>>]
    OBVIOUS
  <2>1. \A x : SoonHas(s, x) = ring[<<"in", s, x>>]
    BY <1>3 DEF SoonHas, Writer, Reader
  <2>2. SourceChannels(s) \in Nat
    BY WidthIs DEF Shape
  <2>3. c \in Heard(s) /\ 1 \in Heard(s)
    BY <1>5, <2>2 DEF Heard
  <2> QED BY <1>1, <2>1, <2>3 DEF Together, SameFrames
<1> QED BY <1>6, <1>7 DEF Is

LEMMA InStepStep ==
  ASSUME Shape, StepInv, [StreamNext]_streamVars
  PROVE  StepInv'
<1>1. ASSUME NEW t \in Threads, NEW n \in Blocks[t], Begin(t, n) PROVE StepInv'
  BY <1>1, StepBegin
<1>2. ASSUME NEW t \in Threads, Do(t) PROVE StepInv'
  BY <1>2, StepDo
<1>3. CASE Recompile
  <2>1. UNCHANGED <<wiring, device, todo, frames, sent, ring, xruns, hist>>
    BY <1>3 DEF Recompile
  <2> QED BY <2>1, StepRest
<1>4. CASE UNCHANGED streamVars
  <2>1. UNCHANGED <<wiring, device, todo, frames, sent, ring, xruns, hist>>
    BY <1>4 DEF streamVars
  <2> QED BY <2>1, StepRest
<1> QED BY <1>1, <1>2, <1>3, <1>4 DEF StreamNext

(* Channels of a stream whose calls never overlapped hold the same frames  *)
(* and missed as many, also when rings ran full or empty.                  *)
THEOREM StreamsStayInStep == StreamSpec => []StreamsInStep
<1>1. StreamInit => StepInv
  BY InitStep
<1>2. Shape /\ SlipInv /\ StepInv /\ [StreamNext]_streamVars => StepInv'
  BY InStepStep
<1>3. Shape /\ SlipInv /\ StepInv => StreamsInStep
  BY InStepIs
<1> QED BY <1>1, <1>2, <1>3, StreamInvariance, PTL DEF StreamSpec

-----------------------------------------------------------------------------
(* The order of a call's operations.                                       *)

Items(q) == {q[i] : i \in 1 .. Len(q)}
Graph == <<"exec", 0, 1>>

\* An operation's place in a call; one of the next channel comes after it.
Turn(a) ==
  CASE a[1] \in {"push", "capture", "pull"} -> 1
    [] a[1] \in {"drain", "take"} -> 2 + a[2]
    [] a[1] = "exec" -> 4
    [] a[1] \in {"fill", "emit"} -> 5 + a[2]
    [] a[1] = "pop" -> 7
    [] a[1] = "send" -> 8
Before(a, b) == Turn(a) < Turn(b) \/ (Turn(a) = Turn(b) /\ a[3] < b[3])
InTurn(q) == \A i, j \in 1 .. Len(q) : i < j => Before(q[i], q[j])
Goes(q, S, lo, hi) ==
  q \in Seq(Ops) /\ InTurn(q) /\ Items(q) = S /\ \A a \in S : Turn(a) \in lo .. hi

Row(op, s, n) == {<<op, s, c>> : c \in 1 .. n}

\* The operations of a thread's call.
Plan(t) ==
  CASE wiring = "live" /\ t = "master" ->
         ((Row("take", 0, Channels) \union Row("take", 1, Channels)) \union {Graph})
            \union Row("emit", 0, Shown)
    [] wiring = "live" /\ t = "source" -> Row("capture", 1, Channels)
    [] wiring = "live" /\ t = "deviceB" -> Row("capture", 0, Channels)
    [] wiring # "live" /\ t = "master" ->
         ((((((IF device.in > 0 THEN Row("push", 0, Channels) ELSE {})
            \union Row("drain", 0, Channels)) \union Row("drain", 1, Channels)) \union {Graph})
            \union Row("fill", 0, Channels)) \union Row("fill", 1, Channels))
            \union (Row("pop", 0, Drained("out", 0))
                      \union IF wiring = "bridge" THEN Row("send", 0, Channels) ELSE {})
    [] wiring = "bridge" /\ t = "deviceB" -> Row("pull", 0, Channels)
    [] wiring = "adapter" /\ t = "source" -> Row("push", 1, Channels)
    [] wiring = "adapter" /\ t = "sink" -> Row("pop", 1, Channels)
    [] OTHER -> {}

LEMMA TurnIs ==
  ASSUME NEW op \in OpNames, NEW s \in Streams, NEW c
  PROVE  Turn(<<op, s, c>>) =
           IF op \in {"push", "capture", "pull"} THEN 1
           ELSE IF op \in {"drain", "take"} THEN 2 + s
           ELSE IF op = "exec" THEN 4
           ELSE IF op \in {"fill", "emit"} THEN 5 + s
           ELSE IF op = "pop" THEN 7 ELSE 8
<1> DEFINE a == <<op, s, c>>
<1>1. a[1] = op /\ a[2] = s
  OBVIOUS
<1> HIDE DEF a
<1>2. CASE op \in {"push", "capture", "pull"}
  BY <1>1, <1>2 DEF Turn
<1>3. CASE op \in {"drain", "take"}
  BY <1>1, <1>3 DEF Turn
<1>4. CASE op = "exec"
  BY <1>1, <1>4 DEF Turn
<1>5. CASE op \in {"fill", "emit"}
  BY <1>1, <1>5 DEF Turn
<1>6. CASE op = "pop"
  BY <1>1, <1>6 DEF Turn
<1>7. CASE op = "send"
  BY <1>1, <1>7 DEF Turn
<1> QED BY <1>2, <1>3, <1>4, <1>5, <1>6, <1>7 DEF OpNames, a

LEMMA GoesNothing == \A lo, hi : Goes(<<>>, {}, lo, hi)
<1>1. <<>> \in Seq(Ops) /\ Len(<<>>) = 0
  OBVIOUS
<1>2. \A i \in 1 .. Len(<<>>) : FALSE
  BY <1>1
<1> QED BY <1>1, <1>2 DEF Goes, InTurn, Items

LEMMA GoesRow ==
  ASSUME NEW op \in OpNames, NEW s \in Streams, NEW n \in 0 .. Channels, NEW k, k = Turn(<<op, s, 1>>)
  PROVE  Goes(Prefix(Each(op, s), n), Row(op, s, n), k, k)
<1> DEFINE e == Each(op, s)
           q == Prefix(e, n)
<1>1. e \in Seq(Ops) /\ Len(e) = Channels /\ \A i \in 1 .. Channels : e[i] = <<op, s, i>>
  BY EachIs
<1>2. n \in Nat /\ Channels \in Nat /\ n <= Channels /\ Min({n, Channels}) = n
  <2>1. n \in Nat /\ Channels \in Nat /\ n <= Channels /\ n \in Int /\ Channels \in Int
    BY StreamNumbers
  <2>2. Min({n, Channels}) <= n /\ (Min({n, Channels}) = n \/ Min({n, Channels}) = Channels)
    BY <2>1, MinOfTwo, Zenon
  <2> QED BY <2>1, <2>2
<1> HIDE DEF e
<1>3. q \in Seq(Ops) /\ Len(q) = n /\ \A z \in 1 .. n : q[z] = e[z]
  BY <1>1, <1>2, FrontIs
<1> HIDE DEF q
<1>4. \A i \in 1 .. n : q[i] = <<op, s, i>>
  BY <1>1, <1>2, <1>3
<1>5. Items(q) = Row(op, s, n)
  BY <1>3, <1>4 DEF Items, Row
<1>6. \A i, j \in 1 .. n : i < j => Before(<<op, s, i>>, <<op, s, j>>)
  BY TurnIs DEF Before
<1>7. InTurn(q)
  BY <1>3, <1>4, <1>6 DEF InTurn
<1>8. \A a \in Row(op, s, n) : Turn(a) \in k .. k
  BY TurnIs DEF Row, Streams
<1> QED BY <1>3, <1>5, <1>7, <1>8 DEF Goes, q, e

LEMMA GoesWhole ==
  ASSUME NEW op \in OpNames, NEW s \in Streams, NEW k, k = Turn(<<op, s, 1>>)
  PROVE  Goes(Each(op, s), Row(op, s, Channels), k, k)
<1>1. Channels \in 0 .. Channels
  BY StreamNumbers
<1> QED BY <1>1, GoesRow, WholeEach

LEMMA GoesGraph == Goes(<<Graph>>, {Graph}, 4, 4)
<1> DEFINE q == <<Graph>>
<1>1. Graph \in Ops
  BY StreamNumbers DEF Ops, Streams, Graph
<1>2. q \in Seq(Ops) /\ Len(q) = 1 /\ q[1] = Graph
  BY <1>1
<1> HIDE DEF q
<1>3. Items(q) = {Graph}
  BY <1>2 DEF Items
<1>4. InTurn(q)
  BY <1>2 DEF InTurn
<1>5. Turn(Graph) = 4
  BY DEF Turn, Graph
<1> QED BY <1>2, <1>3, <1>4, <1>5 DEF Goes, q

LEMMA GoesBoth ==
  ASSUME NEW i \in Int, NEW j \in Int, NEW k \in Int, NEW l \in Int, i <= k, j < k, j <= l,
         NEW p, NEW q, NEW S, NEW T, Goes(p, S, i, j), Goes(q, T, k, l)
  PROVE  Goes(p \o q, S \union T, i, l)
<1> DEFINE r == p \o q
<1>1. p \in Seq(Ops) /\ q \in Seq(Ops) /\ InTurn(p) /\ InTurn(q) /\ Items(p) = S /\ Items(q) = T
  BY DEF Goes
<1>2. /\ r \in Seq(Ops) /\ Len(r) = Len(p) + Len(q) /\ Len(p) \in Nat /\ Len(q) \in Nat
      /\ \A z \in 1 .. Len(p) : r[z] = p[z]
      /\ \A z \in 1 .. Len(q) : r[Len(p) + z] = q[z]
  BY <1>1
<1> HIDE DEF r
<1>3. ASSUME NEW x \in 1 .. Len(r), x > Len(p)
      PROVE  x - Len(p) \in 1 .. Len(q) /\ r[x] = q[x - Len(p)]
  <2>1. x - Len(p) \in 1 .. Len(q) /\ Len(p) + (x - Len(p)) = x
    BY <1>2, <1>3
  <2> QED BY <1>2, <2>1
<1>4. Items(r) = S \union T
  <2>1. ASSUME NEW x \in 1 .. Len(r) PROVE r[x] \in S \union T
    <3>1. CASE x <= Len(p)
      <4>1. x \in 1 .. Len(p)
        BY <1>2, <3>1
      <4> QED BY <1>1, <1>2, <4>1 DEF Items
    <3>2. CASE x > Len(p)
      BY <1>1, <1>3, <3>2 DEF Items
    <3> QED BY <1>2, <3>1, <3>2
  <2>2. ASSUME NEW x \in 1 .. Len(p) PROVE p[x] \in Items(r)
    <3>1. x \in 1 .. Len(r)
      BY <1>2
    <3> QED BY <1>2, <3>1 DEF Items
  <2>3. ASSUME NEW x \in 1 .. Len(q) PROVE q[x] \in Items(r)
    <3>1. Len(p) + x \in 1 .. Len(r)
      BY <1>2
    <3> QED BY <1>2, <3>1 DEF Items
  <2> QED BY <1>1, <2>1, <2>2, <2>3 DEF Items
<1>5. ASSUME NEW x \in 1 .. Len(r), NEW y \in 1 .. Len(r), x < y
      PROVE  Before(r[x], r[y])
  <2>1. CASE y <= Len(p)
    <3>1. x \in 1 .. Len(p) /\ y \in 1 .. Len(p)
      BY <1>2, <1>5, <2>1
    <3> QED BY <1>1, <1>2, <1>5, <3>1 DEF InTurn
  <2>2. CASE x <= Len(p) /\ y > Len(p)
    <3>1. x \in 1 .. Len(p)
      BY <1>2, <2>2
    <3>2. r[x] \in S
      BY <1>1, <1>2, <3>1 DEF Items
    <3>3. r[y] \in T
      BY <1>1, <1>3, <2>2 DEF Items
    <3>4. Turn(r[x]) \in i .. j /\ Turn(r[y]) \in k .. l
      BY <3>2, <3>3 DEF Goes
    <3> QED BY <3>4 DEF Before
  <2>3. CASE x > Len(p)
    <3>1. y > Len(p) /\ x - Len(p) < y - Len(p)
      BY <1>2, <1>5, <2>3
    <3>2. /\ x - Len(p) \in 1 .. Len(q) /\ r[x] = q[x - Len(p)]
          /\ y - Len(p) \in 1 .. Len(q) /\ r[y] = q[y - Len(p)]
      BY <1>3, <2>3, <3>1
    <3> QED BY <1>1, <3>1, <3>2 DEF InTurn
  <2> QED BY <1>2, <2>1, <2>2, <2>3
<1>6. InTurn(r)
  BY <1>5 DEF InTurn
<1>7. \A a \in S \union T : Turn(a) \in i .. l
  <2>1. ASSUME NEW a \in S PROVE Turn(a) \in i .. l
    <3>1. Turn(a) \in i .. j
      BY DEF Goes
    <3> QED BY <3>1
  <2>2. ASSUME NEW a \in T PROVE Turn(a) \in i .. l
    <3>1. Turn(a) \in k .. l
      BY DEF Goes
    <3> QED BY <3>1
  <2> QED BY <2>1, <2>2
<1> QED BY <1>2, <1>4, <1>6, <1>7 DEF Goes, r

\* What a thread's next call does, in that order.
LEMMA ProgramGoes ==
  ASSUME wiring \in Wirings, device \in Devices
  PROVE  \A t \in DOMAIN Program : Goes(Program[t], Plan(t), 1, 8)
<1>1. Shown \in 0 .. Channels /\ Channels \in 0 .. Channels
  BY ShownIs, StreamNumbers
<1>2. 0 \in Streams /\ 1 \in Streams
  BY DEF Streams
<1>3. OpNames = {"push", "drain", "exec", "fill", "pop", "send", "pull", "capture", "take", "emit"}
  BY DEF OpNames
<1>4. /\ Turn(<<"push", 0, 1>>) = 1 /\ Turn(<<"push", 1, 1>>) = 1 /\ Turn(<<"pull", 0, 1>>) = 1
      /\ Turn(<<"capture", 0, 1>>) = 1 /\ Turn(<<"capture", 1, 1>>) = 1
      /\ Turn(<<"drain", 0, 1>>) = 2 /\ Turn(<<"drain", 1, 1>>) = 3
      /\ Turn(<<"take", 0, 1>>) = 2 /\ Turn(<<"take", 1, 1>>) = 3
      /\ Turn(<<"fill", 0, 1>>) = 5 /\ Turn(<<"fill", 1, 1>>) = 6 /\ Turn(<<"emit", 0, 1>>) = 5
      /\ Turn(<<"pop", 0, 1>>) = 7 /\ Turn(<<"pop", 1, 1>>) = 7 /\ Turn(<<"send", 0, 1>>) = 8
  BY <1>2, <1>3, TurnIs
<1>5. /\ Goes(Each("drain", 0), Row("drain", 0, Channels), 2, 2)
      /\ Goes(Each("drain", 1), Row("drain", 1, Channels), 3, 3)
      /\ Goes(Each("take", 0), Row("take", 0, Channels), 2, 2)
      /\ Goes(Each("take", 1), Row("take", 1, Channels), 3, 3)
      /\ Goes(Each("fill", 0), Row("fill", 0, Channels), 5, 5)
      /\ Goes(Each("fill", 1), Row("fill", 1, Channels), 6, 6)
      /\ Goes(Each("send", 0), Row("send", 0, Channels), 8, 8)
  BY <1>2, <1>3, <1>4, GoesWhole
<1>6. /\ Goes(Each("push", 0), Row("push", 0, Channels), 1, 1)
      /\ Goes(Each("push", 1), Row("push", 1, Channels), 1, 1)
      /\ Goes(Each("pull", 0), Row("pull", 0, Channels), 1, 1)
      /\ Goes(Each("capture", 0), Row("capture", 0, Channels), 1, 1)
      /\ Goes(Each("capture", 1), Row("capture", 1, Channels), 1, 1)
  BY <1>2, <1>3, <1>4, GoesWhole
<1>7. /\ \A n \in 0 .. Channels : Goes(Prefix(Each("emit", 0), n), Row("emit", 0, n), 5, 5)
      /\ \A n \in 0 .. Channels : Goes(Prefix(Each("pop", 0), n), Row("pop", 0, n), 7, 7)
      /\ \A n \in 0 .. Channels : Goes(Prefix(Each("pop", 1), n), Row("pop", 1, n), 7, 7)
  BY <1>2, <1>3, <1>4, GoesRow
<1>8. ASSUME NEW q, NEW S, NEW k \in 1 .. 8, Goes(q, S, k, k) PROVE Goes(q, S, 1, 8)
  BY <1>8 DEF Goes
<1>9. CASE wiring = "live"
  <2>1. Program = [master |-> pump, source |-> CaptureSourceAdapter(1), deviceB |-> CaptureSourceAdapter(0)]
    BY <1>9 DEF Program
  <2>2. DOMAIN Program = {"master", "source", "deviceB"}
    BY <2>1
  <2>3. Goes(Each("take", 0) \o Each("take", 1), Row("take", 0, Channels) \union Row("take", 1, Channels), 2, 3)
    BY <1>5, GoesBoth
  <2>4. Goes((Each("take", 0) \o Each("take", 1)) \o <<Graph>>,
             (Row("take", 0, Channels) \union Row("take", 1, Channels)) \union {Graph}, 2, 4)
    BY <2>3, GoesGraph, GoesBoth
  <2>5. Goes(((Each("take", 0) \o Each("take", 1)) \o <<Graph>>) \o Prefix(Each("emit", 0), device.out),
             ((Row("take", 0, Channels) \union Row("take", 1, Channels)) \union {Graph})
               \union Row("emit", 0, Shown), 2, 5)
    <3>1. Prefix(Each("emit", 0), device.out) = Prefix(Each("emit", 0), Shown)
      BY <1>2, <1>3, ShownIs
    <3>2. Goes(Prefix(Each("emit", 0), Shown), Row("emit", 0, Shown), 5, 5)
      BY <1>1, <1>7
    <3> QED BY <2>4, <3>1, <3>2, GoesBoth
  <2>6. Goes(pump, Plan("master"), 2, 5)
    BY <1>9, <2>5 DEF pump, Plan, Graph
  <2>7. Goes(pump, Plan("master"), 1, 8)
    BY <2>6 DEF Goes
  <2>8. Goes(CaptureSourceAdapter(1), Plan("source"), 1, 8)
    BY <1>6, <1>8, <1>9 DEF CaptureSourceAdapter, Plan
  <2>9. Goes(CaptureSourceAdapter(0), Plan("deviceB"), 1, 8)
    BY <1>6, <1>8, <1>9 DEF CaptureSourceAdapter, Plan
  <2> QED BY <2>1, <2>2, <2>7, <2>8, <2>9
<1>10. CASE wiring # "live"
  <2> DEFINE P == IF device.in > 0 THEN Row("push", 0, Channels) ELSE {}
             p == When(device.in > 0, pushInput(0))
             X == Row("pop", 0, Drained("out", 0))
             Y == IF wiring = "bridge" THEN Row("send", 0, Channels) ELSE {}
             D == Row("drain", 0, Channels) \union Row("drain", 1, Channels)
             Q == (((P \union Row("drain", 0, Channels)) \union Row("drain", 1, Channels)) \union {Graph})
             q == ((p \o Each("drain", 0)) \o Each("drain", 1)) \o <<Graph>>
             R == (Q \union Row("fill", 0, Channels)) \union Row("fill", 1, Channels)
             r == (q \o Each("fill", 0)) \o Each("fill", 1)
  <2>1. Goes(p, P, 1, 1)
    BY <1>6, GoesNothing DEF When, pushInput
  <2>2. \A n : n = Drained("out", 0) => n \in 0 .. Channels /\ Goes(popOutput(0, n), X, 7, 7)
    BY <1>1, <1>7 DEF Drained, Shown, popOutput
  <2> HIDE DEF P, p, X
  <2>3. Goes(p \o Each("drain", 0), P \union Row("drain", 0, Channels), 1, 2)
    BY <1>5, <2>1, GoesBoth
  <2>4. Goes((p \o Each("drain", 0)) \o Each("drain", 1),
             (P \union Row("drain", 0, Channels)) \union Row("drain", 1, Channels), 1, 3)
    BY <1>5, <2>3, GoesBoth
  <2>5. Goes(q, Q, 1, 4)
    BY <2>4, GoesGraph, GoesBoth
  <2> HIDE DEF q, Q
  <2>6. Goes(q \o Each("fill", 0), Q \union Row("fill", 0, Channels), 1, 5)
    BY <1>5, <2>5, GoesBoth
  <2>7. Goes(r, R, 1, 6)
    BY <1>5, <2>6, GoesBoth
  <2>8. Plan("master") = R \union (X \union Y)
    BY <1>10 DEF Plan, P, X, Q
  <2>9. r = p \o process
    <3> DEFINE x1 == Each("drain", 0)
               x2 == Each("drain", 1)
               x3 == <<Graph>>
               x4 == Each("fill", 0)
               x5 == Each("fill", 1)
    <3>1. /\ x1 \in Seq(Ops) /\ x2 \in Seq(Ops) /\ x3 \in Seq(Ops) /\ x4 \in Seq(Ops) /\ x5 \in Seq(Ops)
          /\ p \in Seq(Ops)
      BY <1>5, <2>1, GoesGraph DEF Goes
    <3>2. process = (((x1 \o x2) \o x3) \o x4) \o x5
      BY DEF process, Graph
    <3>3. ASSUME NEW u \in Seq(Ops), NEW v \in Seq(Ops), NEW w \in Seq(Ops)
          PROVE  u \o (v \o w) = (u \o v) \o w
      OBVIOUS
    <3> HIDE DEF x1, x2, x3, x4, x5
    <3>4. ASSUME NEW u \in Seq(Ops), NEW v \in Seq(Ops) PROVE u \o v \in Seq(Ops)
      OBVIOUS
    <3> DEFINE y2 == x1 \o x2
               y3 == y2 \o x3
               y4 == y3 \o x4
    <3>5. y2 \in Seq(Ops) /\ p \o y2 = (p \o x1) \o x2
      <4>1. x1 \o x2 \in Seq(Ops)
        BY <3>1, <3>4
      <4>2. p \o (x1 \o x2) = (p \o x1) \o x2
        BY <3>1, <3>3
      <4> QED BY <4>1, <4>2
    <3> HIDE DEF y2
    <3>6. y3 \in Seq(Ops) /\ p \o y3 = (p \o y2) \o x3
      <4>1. y2 \o x3 \in Seq(Ops)
        BY <3>1, <3>4, <3>5
      <4>2. p \o (y2 \o x3) = (p \o y2) \o x3
        BY <3>1, <3>3, <3>5
      <4> QED BY <4>1, <4>2
    <3> HIDE DEF y3
    <3>7. y4 \in Seq(Ops) /\ p \o y4 = (p \o y3) \o x4
      <4>1. y3 \o x4 \in Seq(Ops)
        BY <3>1, <3>4, <3>6
      <4>2. p \o (y3 \o x4) = (p \o y3) \o x4
        BY <3>1, <3>3, <3>6
      <4> QED BY <4>1, <4>2
    <3> HIDE DEF y4
    <3>8. p \o (y4 \o x5) = (p \o y4) \o x5
      BY <3>1, <3>3, <3>7
    <3> QED BY <3>2, <3>5, <3>6, <3>7, <3>8 DEF q, x1, x2, x3, x4, x5, y2, y3, y4
  <2> HIDE DEF r, R
  <2>10. CASE wiring = "adapter"
    <3>1. Program = [master |-> MasterClockAdapter, source |-> pushInput(1), sink |-> popOutput(1, Channels)]
      BY <2>10 DEF Program
    <3>2. DOMAIN Program = {"master", "source", "sink"}
      BY <3>1
    <3>3. Goes(When(device.out > 0, popOutput(0, device.out)), X, 7, 7)
      <4>1. Shown = Drained("out", 0) /\ device.out \in Nat /\ Shown <= device.out
        BY <2>10, ShownIs DEF Drained, Shown
      <4>2. CASE device.out > 0
        <5>1. popOutput(0, device.out) = popOutput(0, Shown)
          BY <1>2, <1>3, ShownIs DEF popOutput
        <5> QED BY <2>2, <4>1, <4>2, <5>1 DEF When
      <4>3. CASE ~(device.out > 0)
        <5>1. Shown = 0 /\ 1 .. 0 = {}
          BY <1>1, <4>1, <4>3
        <5>2. X = {}
          BY <4>1, <5>1 DEF X, Row
        <5> QED BY <4>3, <5>2, GoesNothing DEF When
      <4> QED BY <4>2, <4>3
    <3>4. Goes(r \o When(device.out > 0, popOutput(0, device.out)), R \union X, 1, 7)
      BY <2>7, <3>3, GoesBoth
    <3>5. Goes(MasterClockAdapter, Plan("master"), 1, 8)
      <4>1. Plan("master") = R \union X
        BY <2>8, <2>10
      <4>2. Goes(MasterClockAdapter, Plan("master"), 1, 7)
        BY <2>9, <3>4, <4>1 DEF MasterClockAdapter, p
      <4> QED BY <4>2 DEF Goes
    <3>6. Goes(pushInput(1), Plan("source"), 1, 8)
      BY <1>6, <1>8, <2>10 DEF pushInput, Plan
    <3>7. Goes(popOutput(1, Channels), Plan("sink"), 1, 8)
      BY <1>1, <1>7, <1>8, <2>10 DEF popOutput, Plan
    <3> QED BY <3>1, <3>2, <3>5, <3>6, <3>7
  <2>11. CASE wiring = "bridge"
    <3>1. Program = [master |-> MasterCb, deviceB |-> OutputCb]
      BY <2>11 DEF Program
    <3>2. DOMAIN Program = {"master", "deviceB"}
      BY <3>1
    <3>3. Goes(popOutput(0, Channels), X, 7, 7)
      <4>1. Channels = Drained("out", 0)
        BY <2>11 DEF Drained
      <4> QED BY <2>2, <4>1
    <3>4. Goes(r \o popOutput(0, Channels), R \union X, 1, 7)
      BY <2>7, <3>3, GoesBoth
    <3>5. Goes((r \o popOutput(0, Channels)) \o Each("send", 0), (R \union X) \union Row("send", 0, Channels), 1, 8)
      BY <1>5, <3>4, GoesBoth
    <3>6. (R \union X) \union Row("send", 0, Channels) = Plan("master")
      BY <2>8, <2>11
    <3>7. Goes(MasterCb, Plan("master"), 1, 8)
      BY <2>9, <3>5, <3>6 DEF MasterCb, p
    <3>8. Goes(OutputCb, Plan("deviceB"), 1, 8)
      BY <1>6, <1>8, <2>11 DEF OutputCb, Plan
    <3> QED BY <3>1, <3>2, <3>7, <3>8
  <2> QED BY <1>10, <2>10, <2>11 DEF Wirings
<1> QED BY <1>9, <1>10

Pushing == IF wiring = "live" THEN "capture" ELSE "push"
Taking == IF wiring = "live" THEN "take" ELSE "drain"
Giving == IF wiring = "live" THEN "emit" ELSE "fill"
Listener(s) == IF s = 0 THEN "master" ELSE "sink"

LEMMA RowHas ==
  \A op, s, c, o, x, n : <<op, s, c>> \in Row(o, x, n) <=> op = o /\ s = x /\ c \in 1 .. n
  BY DEF Row

\* Who has which operation.
Placed(t, op, s, c) ==
  /\ s \in Streams /\ c \in Chans
  /\ op \in {"push", "capture"} => op = Pushing /\ t = Source[s]
  /\ op \in {"drain", "take"} => op = Taking /\ t = "master"
  /\ op = "exec" => t = "master" /\ s = 0 /\ c = 1
  /\ op \in {"fill", "emit"} => op = Giving /\ t = "master" /\ (op = "emit" => s = 0)
  /\ op = "pop" => wiring # "live" /\ t = Listener(s) /\ (s = 0 => c <= Drained("out", 0))
  /\ op = "send" => wiring = "bridge" /\ t = "master" /\ s = 0
  /\ op = "pull" => wiring = "bridge" /\ t = "deviceB" /\ s = 0

LEMMA PlanIs ==
  ASSUME wiring \in Wirings, device \in Devices, NEW t, NEW op, NEW s, NEW c, <<op, s, c>> \in Plan(t)
  PROVE  Placed(t, op, s, c)
<1>1. Shown \in 0 .. Channels /\ Channels \in 0 .. Channels
  BY ShownIs, StreamNumbers
<1>2. /\ 0 \in Streams /\ 1 \in Streams /\ Chans = 1 .. Channels
      /\ 1 .. Shown \subseteq Chans /\ 1 .. Drained("out", 0) \subseteq Chans /\ 1 \in Chans
  BY <1>1, StreamNumbers DEF Streams, Chans, Drained, Shown
<1>3. <<op, s, c>> = Graph <=> op = "exec" /\ s = 0 /\ c = 1
  BY DEF Graph
<1>4. Source[0] = (IF wiring = "live" THEN "deviceB" ELSE "master") /\ Source[1] = "source"
  BY DEF Source, Streams
<1>5. CASE wiring = "live" /\ t = "master"
  <2>1. \/ op = "take" /\ (s = 0 \/ s = 1) /\ c \in 1 .. Channels
        \/ op = "exec" /\ s = 0 /\ c = 1
        \/ op = "emit" /\ s = 0 /\ c \in 1 .. Shown
    BY <1>3, <1>5, RowHas DEF Plan
  <2> QED BY <1>2, <1>5, <2>1 DEF Placed, Taking, Giving
<1>6. CASE wiring = "live" /\ t = "source"
  <2>1. op = "capture" /\ s = 1 /\ c \in 1 .. Channels
    BY <1>6, RowHas DEF Plan
  <2> QED BY <1>2, <1>4, <1>6, <2>1 DEF Placed, Pushing
<1>7. CASE wiring = "live" /\ t = "deviceB"
  <2>1. op = "capture" /\ s = 0 /\ c \in 1 .. Channels
    BY <1>7, RowHas DEF Plan
  <2> QED BY <1>2, <1>4, <1>7, <2>1 DEF Placed, Pushing
<1>8. CASE wiring # "live" /\ t = "master"
  <2>1. \/ op = "push" /\ s = 0 /\ c \in 1 .. Channels
        \/ op = "drain" /\ (s = 0 \/ s = 1) /\ c \in 1 .. Channels
        \/ op = "exec" /\ s = 0 /\ c = 1
        \/ op = "fill" /\ (s = 0 \/ s = 1) /\ c \in 1 .. Channels
        \/ op = "pop" /\ s = 0 /\ c \in 1 .. Drained("out", 0)
        \/ op = "send" /\ s = 0 /\ c \in 1 .. Channels /\ wiring = "bridge"
    <3>1. \/ <<op, s, c>> \in Row("push", 0, Channels)
          \/ <<op, s, c>> \in Row("drain", 0, Channels) \/ <<op, s, c>> \in Row("drain", 1, Channels)
          \/ <<op, s, c>> = Graph
          \/ <<op, s, c>> \in Row("fill", 0, Channels) \/ <<op, s, c>> \in Row("fill", 1, Channels)
          \/ <<op, s, c>> \in Row("pop", 0, Drained("out", 0))
          \/ <<op, s, c>> \in Row("send", 0, Channels) /\ wiring = "bridge"
      BY <1>8 DEF Plan
    <3> QED BY <1>3, <3>1, RowHas
  <2>2. Drained("out", 0) \in Int
    BY <1>1 DEF Drained, Shown
  <2> QED BY <1>2, <1>4, <1>8, <2>1, <2>2 DEF Placed, Pushing, Taking, Giving, Listener
<1>9. CASE wiring = "bridge" /\ t = "deviceB"
  <2>1. op = "pull" /\ s = 0 /\ c \in 1 .. Channels
    BY <1>9, RowHas DEF Plan
  <2> QED BY <1>2, <1>9, <2>1 DEF Placed
<1>10. CASE wiring = "adapter" /\ t = "source"
  <2>1. op = "push" /\ s = 1 /\ c \in 1 .. Channels
    BY <1>10, RowHas DEF Plan
  <2> QED BY <1>2, <1>4, <1>10, <2>1 DEF Placed, Pushing
<1>11. CASE wiring = "adapter" /\ t = "sink"
  <2>1. op = "pop" /\ s = 1 /\ c \in 1 .. Channels
    BY <1>11, RowHas DEF Plan
  <2> QED BY <1>2, <1>11, <2>1 DEF Placed, Listener
<1> QED BY <1>5, <1>6, <1>7, <1>8, <1>9, <1>10, <1>11 DEF Plan, Wirings

LEMMA PlanHas ==
  ASSUME wiring \in Wirings, device \in Devices
  PROVE  /\ Graph \in Plan("master")
         /\ \A s \in Streams, c \in Chans : <<Taking, s, c>> \in Plan("master")
         /\ wiring = "adapter" =>
              \A c \in Chans : /\ <<"fill", 0, c>> \in Plan("master")
                               /\ <<"push", 0, c>> \in Plan("master") <=> device.in > 0
                               /\ c <= device.out => <<"pop", 0, c>> \in Plan("master")
         /\ wiring = "bridge" =>
              \A c \in Chans : <<"pop", 0, c>> \in Plan("master") /\ <<"send", 0, c>> \in Plan("master")
<1>1. Shown \in 0 .. Channels /\ Channels \in Nat
  BY ShownIs, StreamNumbers
<1>2. \A c \in Chans : c \in 1 .. Channels /\ (c <= device.out => c \in 1 .. Shown)
  BY <1>1, ShownIs DEF Chans
<1>3. CASE wiring = "live"
  <2>1. Plan("master") = ((Row("take", 0, Channels) \union Row("take", 1, Channels)) \union {Graph})
                           \union Row("emit", 0, Shown)
    BY <1>3 DEF Plan
  <2>2. \A s \in Streams, c \in Chans : <<"take", s, c>> \in Plan("master")
    <3>1. \A c \in Chans : <<"take", 0, c>> \in Plan("master") /\ <<"take", 1, c>> \in Plan("master")
      BY <1>2, <2>1, RowHas
    <3> QED BY <3>1 DEF Streams
  <2> QED BY <1>3, <2>1, <2>2 DEF Taking
<1>4. CASE wiring # "live"
  <2>1. /\ Graph \in Plan("master")
        /\ Row("drain", 0, Channels) \subseteq Plan("master") /\ Row("drain", 1, Channels) \subseteq Plan("master")
        /\ Row("fill", 0, Channels) \subseteq Plan("master")
        /\ Row("pop", 0, Drained("out", 0)) \subseteq Plan("master")
        /\ device.in > 0 => Row("push", 0, Channels) \subseteq Plan("master")
        /\ wiring = "bridge" => Row("send", 0, Channels) \subseteq Plan("master")
    BY <1>4 DEF Plan
  <2>2. \A s \in Streams, c \in Chans : <<"drain", s, c>> \in Plan("master")
    <3>1. \A c \in Chans : <<"drain", 0, c>> \in Plan("master") /\ <<"drain", 1, c>> \in Plan("master")
      BY <1>2, <2>1, RowHas
    <3> QED BY <3>1 DEF Streams
  <2>3. \A c \in Chans : /\ <<"fill", 0, c>> \in Plan("master")
                         /\ device.in > 0 => <<"push", 0, c>> \in Plan("master")
                         /\ c \in 1 .. Drained("out", 0) => <<"pop", 0, c>> \in Plan("master")
                         /\ wiring = "bridge" => <<"send", 0, c>> \in Plan("master")
    BY <1>2, <2>1, RowHas
  <2>4. \A c \in Chans : <<"push", 0, c>> \in Plan("master") => device.in > 0
    <3>1. SUFFICES ASSUME NEW c \in Chans, <<"push", 0, c>> \in Plan("master"), ~(device.in > 0) PROVE FALSE
      OBVIOUS
    <3>2. \/ <<"push", 0, c>> \in Row("drain", 0, Channels) \/ <<"push", 0, c>> \in Row("drain", 1, Channels)
          \/ <<"push", 0, c>> = Graph
          \/ <<"push", 0, c>> \in Row("fill", 0, Channels) \/ <<"push", 0, c>> \in Row("fill", 1, Channels)
          \/ <<"push", 0, c>> \in Row("pop", 0, Drained("out", 0))
          \/ <<"push", 0, c>> \in Row("send", 0, Channels)
      BY <1>4, <3>1 DEF Plan
    <3>3. <<"push", 0, c>> # Graph
      BY DEF Graph
    <3> QED BY <3>2, <3>3, RowHas
  <2>5. Drained("out", 0) = IF wiring = "adapter" THEN Shown ELSE Channels
    BY DEF Drained, Shown
  <2> QED BY <1>2, <1>4, <2>1, <2>2, <2>3, <2>4, <2>5 DEF Taking
<1> QED BY <1>3, <1>4

-----------------------------------------------------------------------------
(* What a call has left to do.                                             *)

Left(t) == Items(todo[t])

\* What is left of a call is its end.
Agenda ==
  \A t \in Threads : /\ InTurn(todo[t]) /\ Left(t) \subseteq Plan(t)
                     /\ \A a \in Left(t), b \in Plan(t) : Before(a, b) => b \in Left(t)

LEMMA NotBothWays ==
  \A a, b \in Ops : ~(Before(a, b) /\ Before(b, a)) /\ ~Before(a, a)
<1> SUFFICES ASSUME NEW a \in Ops, NEW b \in Ops
             PROVE  ~(Before(a, b) /\ Before(b, a)) /\ ~Before(a, a)
  OBVIOUS
<1>1. ASSUME NEW x \in Ops PROVE Turn(x) \in Int /\ x[3] \in Int
  <2>1. /\ x = <<x[1], x[2], x[3]>> /\ x[1] \in OpNames /\ x[2] \in Streams /\ x[3] \in Chans
    BY DEF Ops, OpNames
  <2>2. x[2] \in Int /\ x[3] \in Int
    BY <2>1, StreamNumbers DEF Streams
  <2>3. Turn(<<x[1], x[2], x[3]>>) \in Int
    BY <2>1, <2>2, TurnIs
  <2> QED BY <2>1, <2>2, <2>3
<1>2. Turn(a) \in Int /\ Turn(b) \in Int /\ a[3] \in Int /\ b[3] \in Int
  BY <1>1
<1> QED BY <1>2 DEF Before

LEMMA InSeq ==
  ASSUME NEW S, NEW q \in Seq(S), q # <<>>
  PROVE  /\ Items(q) = {q[1]} \union Items(Tail(q)) /\ q[1] \in Items(q)
         /\ InTurn(q) => InTurn(Tail(q)) /\ \A a \in Items(Tail(q)) : Before(q[1], a)
<1> DEFINE u == Tail(q)
<1>1. /\ Len(q) \in Nat \ {0} /\ u \in Seq(S) /\ Len(u) = Len(q) - 1
      /\ \A i \in 1 .. Len(u) : u[i] = q[i + 1]
  OBVIOUS
<1> HIDE DEF u
<1>2. \A i \in 1 .. Len(u) : i + 1 \in 1 .. Len(q) /\ u[i] = q[i + 1] /\ 1 < i + 1
  BY <1>1
<1>3. 1 \in 1 .. Len(q)
  BY <1>1
<1>4. \A i \in 1 .. Len(q) : i = 1 \/ (i - 1 \in 1 .. Len(u) /\ q[i] = u[i - 1])
  <2> SUFFICES ASSUME NEW i \in 1 .. Len(q), i # 1 PROVE i - 1 \in 1 .. Len(u) /\ q[i] = u[i - 1]
    OBVIOUS
  <2>1. i - 1 \in 1 .. Len(u) /\ (i - 1) + 1 = i
    BY <1>1
  <2> QED BY <1>2, <2>1
<1>5. Items(q) = {q[1]} \union Items(u) /\ q[1] \in Items(q)
  <2>1. Items(q) \subseteq {q[1]} \union Items(u)
    BY <1>4 DEF Items
  <2>2. Items(u) \subseteq Items(q)
    BY <1>2 DEF Items
  <2>3. q[1] \in Items(q)
    BY <1>3 DEF Items
  <2> QED BY <2>1, <2>2, <2>3
<1>6. InTurn(q) => InTurn(u)
  <2> SUFFICES ASSUME InTurn(q), NEW i \in 1 .. Len(u), NEW j \in 1 .. Len(u), i < j PROVE Before(u[i], u[j])
    BY DEF InTurn
  <2>1. i + 1 < j + 1
    OBVIOUS
  <2> QED BY <1>2, <2>1 DEF InTurn
<1>7. InTurn(q) => \A a \in Items(u) : Before(q[1], a)
  BY <1>2, <1>3 DEF InTurn, Items
<1> QED BY <1>5, <1>6, <1>7 DEF u

LEMMA PlanSame ==
  ASSUME UNCHANGED <<wiring, device>>
  PROVE  \A t : Plan(t)' = Plan(t)
<1>1. \A side, s : Drained(side, s)' = Drained(side, s)
  BY SameWiring
<1>2. Shown' = Shown
  BY DEF Shown
<1> QED BY <1>1, <1>2 DEF Plan

\* An operation is over when it is done; nothing before it is left, and all of
\* the call that comes after it.
LEMMA DoLeft ==
  ASSUME Shape, Agenda, NEW t \in Threads, Do(t)
  PROVE  /\ Agenda'
         /\ Heading(t) \in Left(t) /\ Heading(t) \in Plan(t) /\ Left(t) \subseteq Ops
         /\ Left(t)' = Left(t) \ {Heading(t)} /\ \A x \in Threads : x # t => Left(x)' = Left(x)
         /\ \A b \in Plan(t) : Before(Heading(t), b) => b \in Left(t)'
         /\ \A b \in Ops : Before(b, Heading(t)) => b \notin Left(t)
<1> DEFINE q == todo[t]
           u == Tail(q)
           h == q[1]
<1>1. q \in Seq(Ops) /\ q # <<>> /\ todo' = [todo EXCEPT ![t] = u] /\ UNCHANGED <<wiring, device>>
      /\ todo \in [Threads -> Seq(Ops)]
  BY DoIs DEF Shape, Calls
<1>2. InTurn(q) /\ Left(t) = Items(q) /\ Items(q) \subseteq Plan(t)
  BY DEF Agenda, Left
<1> HIDE DEF q
<1>3. /\ Items(q) = {h} \union Items(u) /\ h \in Items(q)
      /\ InTurn(u) /\ \A a \in Items(u) : Before(h, a)
  BY <1>1, <1>2, InSeq
<1>4. Items(q) \subseteq Ops
  BY <1>1 DEF Items
<1> HIDE DEF u, h
<1>5. h \notin Items(u)
  BY <1>3, <1>4, NotBothWays
<1>6. todo'[t] = u /\ \A x \in Threads : x # t => todo'[x] = todo[x]
  BY <1>1
<1>7. Left(t)' = Items(u) /\ \A x \in Threads : x # t => Left(x)' = Left(x)
  BY <1>6 DEF Left
<1>8. \A x : Plan(x)' = Plan(x)
  BY <1>1, PlanSame
<1>9. \A b \in Plan(t) : Before(h, b) => b \in Items(u)
  <2> SUFFICES ASSUME NEW b \in Plan(t), Before(h, b) PROVE b \in Items(u)
    OBVIOUS
  <2>1. b \in Items(q)
    BY <1>2, <1>3 DEF Agenda
  <2>2. b # h
    BY <1>3, <1>4, NotBothWays
  <2> QED BY <1>3, <2>1, <2>2
<1>10. \A b \in Ops : Before(b, h) => b \notin Items(q)
  BY <1>3, <1>4, NotBothWays
<1>11. ASSUME NEW x \in Threads
       PROVE  /\ InTurn(todo'[x]) /\ Items(todo'[x]) \subseteq Plan(x)
              /\ \A a \in Items(todo'[x]), b \in Plan(x) : Before(a, b) => b \in Items(todo'[x])
  <2>1. CASE x = t
    <3>1. ASSUME NEW a \in Items(u), NEW b \in Plan(t), Before(a, b) PROVE b \in Items(u)
      <4>1. b \in Items(q)
        BY <1>2, <1>3, <3>1 DEF Agenda
      <4>2. b # h
        BY <1>3, <1>4, <3>1, NotBothWays
      <4> QED BY <1>3, <4>1, <4>2
    <3> QED BY <1>2, <1>3, <1>6, <2>1, <3>1
  <2>2. CASE x # t
    BY <1>6, <2>2 DEF Agenda, Left
  <2> QED BY <2>1, <2>2
<1>12. Agenda'
  BY <1>8, <1>11 DEF Agenda, Left
<1>13. Heading(t) = h
  BY DEF Heading, h, q
<1> QED BY <1>2, <1>3, <1>4, <1>5, <1>7, <1>9, <1>10, <1>12, <1>13

LEMMA BeginLeft ==
  ASSUME Shape, Agenda, NEW t \in Threads, NEW n \in Blocks[t], Begin(t, n)
  PROVE  /\ Agenda' /\ Left(t) = {} /\ Left(t)' = Plan(t)
         /\ \A x \in Threads : x # t => Left(x)' = Left(x)
<1>1. todo[t] = <<>> /\ todo' = [todo EXCEPT ![t] = Program[t]] /\ UNCHANGED <<wiring, device>>
      /\ todo \in [Threads -> Seq(Ops)]
  BY BeginIs DEF Shape, Calls
<1>2. t \in DOMAIN Program
  BY DEF Begin
<1>3. InTurn(Program[t]) /\ Items(Program[t]) = Plan(t)
  BY <1>2, ProgramGoes DEF Goes, Shape, Calls
<1>4. todo'[t] = Program[t] /\ \A x \in Threads : x # t => todo'[x] = todo[x]
  BY <1>1
<1>5. Left(t)' = Plan(t) /\ \A x \in Threads : x # t => Left(x)' = Left(x)
  BY <1>3, <1>4 DEF Left
<1>6. Items(<<>>) = {}
  BY GoesNothing DEF Goes
<1>7. \A x : Plan(x)' = Plan(x)
  BY <1>1, PlanSame
<1>8. ASSUME NEW x \in Threads
      PROVE  /\ InTurn(todo'[x]) /\ Items(todo'[x]) \subseteq Plan(x)
             /\ \A a \in Items(todo'[x]), b \in Plan(x) : Before(a, b) => b \in Items(todo'[x])
  <2>1. CASE x = t
    BY <1>3, <1>4, <2>1
  <2>2. CASE x # t
    BY <1>4, <2>2 DEF Agenda, Left
  <2> QED BY <2>1, <2>2
<1>9. Agenda'
  BY <1>7, <1>8 DEF Agenda, Left
<1> QED BY <1>1, <1>5, <1>6, <1>9 DEF Left

LEMMA RestLeft ==
  ASSUME Agenda, UNCHANGED <<wiring, device, todo>>
  PROVE  Agenda' /\ \A x : Left(x)' = Left(x)
<1>1. \A x : Plan(x)' = Plan(x)
  BY PlanSame
<1>2. \A x : Left(x)' = Left(x)
  BY DEF Left
<1> QED BY <1>1, <1>2 DEF Agenda

LEMMA InitLeft == StreamInit => Agenda
<1> SUFFICES ASSUME StreamInit PROVE Agenda
  OBVIOUS
<1>1. \A t \in Threads : todo[t] = <<>>
  BY DEF StreamInit
<1>2. InTurn(<<>>) /\ Items(<<>>) = {}
  BY GoesNothing DEF Goes
<1> QED BY <1>1, <1>2 DEF Agenda, Left

-----------------------------------------------------------------------------
(* Frames in order.                                                        *)

\* The frames in a block, and whether they come in the order captured.
Tones(q) == {q[i] : i \in {j \in 1 .. Len(q) : q[j] # Silence}}
Rising(q) == \A i, j \in 1 .. Len(q) : i < j /\ q[i] # Silence /\ q[j] # Silence => q[i] < q[j]
Precede(A, B) == \A x \in A, y \in B : x < y

LEMMA CutTones ==
  ASSUME NEW q \in Seq(Int), NEW n \in Nat, Rising(q)
  PROVE  /\ Prefix(q, n) \in Seq(Int) /\ Suffix(q, n) \in Seq(Int)
         /\ Rising(Prefix(q, n)) /\ Rising(Suffix(q, n))
         /\ Tones(Prefix(q, n)) \subseteq Tones(q) /\ Tones(Suffix(q, n)) \subseteq Tones(q)
         /\ Precede(Tones(Prefix(q, n)), Tones(Suffix(q, n)))
<1> DEFINE p == Prefix(q, n)
           r == Suffix(q, n)
           m == Min({n, Len(q)})
<1>1. Len(q) \in Nat /\ m \in Nat /\ m <= n /\ m <= Len(q)
  <2>1. Len(q) \in Nat
    OBVIOUS
  <2> QED BY <2>1, PresentIs DEF Present
<1>2. p \in Seq(Int) /\ Len(p) = m /\ \A k \in 1 .. Len(p) : p[k] = q[k]
  BY FrontIs
<1>3. r \in Seq(Int) /\ \A k \in 1 .. Len(r) : n + k \in 1 .. Len(q) /\ r[k] = q[n + k]
  BY RestIs
<1>4. Len(r) \in Nat
  BY <1>3
<1> HIDE DEF p, r, m
<1>5. \A k \in 1 .. Len(p) : k \in 1 .. Len(q) /\ k <= n
  BY <1>1, <1>2
<1>6. Rising(p)
  BY <1>2, <1>5 DEF Rising
<1>7. Rising(r)
  <2> SUFFICES ASSUME NEW i \in 1 .. Len(r), NEW j \in 1 .. Len(r), i < j, r[i] # Silence, r[j] # Silence
               PROVE  r[i] < r[j]
    BY DEF Rising
  <2>1. n + i < n + j
    OBVIOUS
  <2> QED BY <1>3, <2>1 DEF Rising
<1>8. Tones(p) \subseteq Tones(q)
  BY <1>2, <1>5 DEF Tones
<1>9. Tones(r) \subseteq Tones(q)
  BY <1>3 DEF Tones
<1>10. Precede(Tones(p), Tones(r))
  <2> SUFFICES ASSUME NEW i \in 1 .. Len(p), NEW j \in 1 .. Len(r), p[i] # Silence, r[j] # Silence
               PROVE  p[i] < r[j]
    BY DEF Precede, Tones
  <2>1. i < n + j /\ n + j \in 1 .. Len(q) /\ i \in 1 .. Len(q)
    BY <1>3, <1>5
  <2> QED BY <1>2, <1>3, <2>1 DEF Rising
<1> QED BY <1>2, <1>3, <1>6, <1>7, <1>8, <1>9, <1>10 DEF p, r

LEMMA JoinTones ==
  ASSUME NEW p \in Seq(Int), NEW q \in Seq(Int), Rising(p), Rising(q), Precede(Tones(p), Tones(q))
  PROVE  p \o q \in Seq(Int) /\ Rising(p \o q) /\ Tones(p \o q) \subseteq Tones(p) \union Tones(q)
<1> DEFINE r == p \o q
<1>1. /\ r \in Seq(Int) /\ Len(r) = Len(p) + Len(q) /\ Len(p) \in Nat /\ Len(q) \in Nat
      /\ \A k \in 1 .. Len(p) : r[k] = p[k]
      /\ \A k \in 1 .. Len(q) : r[Len(p) + k] = q[k]
  OBVIOUS
<1> HIDE DEF r
<1>2. ASSUME NEW x \in 1 .. Len(r), x > Len(p)
      PROVE  x - Len(p) \in 1 .. Len(q) /\ r[x] = q[x - Len(p)]
  <2>1. x - Len(p) \in 1 .. Len(q) /\ Len(p) + (x - Len(p)) = x
    BY <1>1, <1>2
  <2> QED BY <1>1, <2>1
<1>3. ASSUME NEW x \in 1 .. Len(r), x <= Len(p)
      PROVE  x \in 1 .. Len(p) /\ r[x] = p[x]
  BY <1>1, <1>3
<1>4. Tones(r) \subseteq Tones(p) \union Tones(q)
  <2> SUFFICES ASSUME NEW x \in 1 .. Len(r), r[x] # Silence PROVE r[x] \in Tones(p) \union Tones(q)
    BY DEF Tones
  <2>1. CASE x <= Len(p)
    BY <1>3, <2>1 DEF Tones
  <2>2. CASE x > Len(p)
    BY <1>2, <2>2 DEF Tones
  <2> QED BY <1>1, <2>1, <2>2
<1>5. Rising(r)
  <2> SUFFICES ASSUME NEW x \in 1 .. Len(r), NEW y \in 1 .. Len(r), x < y, r[x] # Silence, r[y] # Silence
               PROVE  r[x] < r[y]
    BY DEF Rising
  <2>1. CASE y <= Len(p)
    <3>1. x <= Len(p)
      BY <1>1, <2>1
    <3> QED BY <1>3, <2>1, <3>1 DEF Rising
  <2>2. CASE x <= Len(p) /\ y > Len(p)
    <3>1. r[x] \in Tones(p)
      BY <1>3, <2>2 DEF Tones
    <3>2. r[y] \in Tones(q)
      BY <1>2, <2>2 DEF Tones
    <3> QED BY <3>1, <3>2 DEF Precede
  <2>3. CASE x > Len(p)
    <3>1. y > Len(p) /\ x - Len(p) < y - Len(p)
      BY <1>1, <2>3
    <3> QED BY <1>2, <2>3, <3>1 DEF Rising
  <2> QED BY <1>1, <2>1, <2>2, <2>3
<1> QED BY <1>1, <1>4, <1>5 DEF r

LEMMA SilentTones ==
  \A n \in Nat : Silent(n) \in Seq(Int) /\ Rising(Silent(n)) /\ Tones(Silent(n)) = {}
<1> SUFFICES ASSUME NEW n \in Nat
             PROVE  Silent(n) \in Seq(Int) /\ Rising(Silent(n)) /\ Tones(Silent(n)) = {}
  OBVIOUS
<1>1. Silence \in Int
  BY DEF Silence
<1>2. Silent(n) \in Seq(Int) /\ Len(Silent(n)) = n
  BY <1>1, SilenceIs
<1>3. \A k \in 1 .. n : Silent(n)[k] = Silence
  BY DEF Silent
<1>4. Rising(Silent(n))
  BY <1>2, <1>3 DEF Rising
<1>5. Tones(Silent(n)) = {}
  BY <1>2, <1>3 DEF Tones
<1> QED BY <1>2, <1>4, <1>5

\* What is read of a ring, with silence after it.
LEMMA DrawnTones ==
  ASSUME NEW q \in Seq(Int), NEW n \in Nat, NEW m \in Nat, Rising(q)
  PROVE  /\ Prefix(q, n) \o Silent(m) \in Seq(Int) /\ Rising(Prefix(q, n) \o Silent(m)) /\ Rising(Suffix(q, n))
         /\ Tones(Prefix(q, n) \o Silent(m)) \subseteq Tones(q)
         /\ Tones(Suffix(q, n)) \subseteq Tones(q)
         /\ Precede(Tones(Prefix(q, n) \o Silent(m)), Tones(Suffix(q, n)))
<1> DEFINE p == Prefix(q, n)
           z == Silent(m)
<1>1. /\ p \in Seq(Int) /\ Rising(p) /\ Tones(p) \subseteq Tones(q)
      /\ Precede(Tones(p), Tones(Suffix(q, n)))
      /\ Rising(Suffix(q, n)) /\ Tones(Suffix(q, n)) \subseteq Tones(q)
  BY CutTones
<1>2. z \in Seq(Int) /\ Rising(z) /\ Tones(z) = {}
  BY SilentTones
<1>3. Precede(Tones(p), Tones(z))
  BY <1>2 DEF Precede
<1> HIDE DEF p, z
<1>4. p \o z \in Seq(Int) /\ Rising(p \o z) /\ Tones(p \o z) \subseteq Tones(p)
  BY <1>1, <1>2, <1>3, JoinTones
<1>5. Precede(Tones(p \o z), Tones(Suffix(q, n)))
  BY <1>1, <1>4 DEF Precede
<1> QED BY <1>1, <1>4, <1>5 DEF p, z

\* What a reader finds is the front of the ring.
LEMMA PaddedTones ==
  ASSUME NEW r, ring[r] \in Seq(Int), NEW n \in Nat, Rising(ring[r])
  PROVE  /\ Padded(r, n) \in Seq(Int) /\ Rising(Padded(r, n)) /\ Rising(Suffix(ring[r], n))
         /\ Tones(Padded(r, n)) \subseteq Tones(ring[r])
         /\ Tones(Suffix(ring[r], n)) \subseteq Tones(ring[r])
         /\ Precede(Tones(Padded(r, n)), Tones(Suffix(ring[r], n)))
<1> DEFINE p == Prefix(ring[r], n)
<1>1. n - Len(p) \in Nat
  <2>1. Len(p) = Min({n, Len(ring[r])})
    BY FrontIs
  <2>2. Len(ring[r]) \in Nat
    OBVIOUS
  <2>3. Len(p) \in Nat /\ Len(p) <= n
    BY <2>1, <2>2, PresentIs DEF Present
  <2> QED BY <2>3
<1>2. Padded(r, n) = p \o Silent(n - Len(p))
  BY DEF Padded
<1> QED BY <1>1, <1>2, DrawnTones

LEMMA CapturedTones ==
  ASSUME Calls, NEW s \in Streams, NEW c \in Chans, NEW t, t = Source[s]
  PROVE  /\ Captured(t, s, c) \in Seq(Int) /\ Len(Captured(t, s, c)) = Clamped(t)
         /\ Rising(Captured(t, s, c))
         /\ \A x \in Tones(Captured(t, s, c)) : x \in Int /\ sent[s] - frames[t] < x /\ x <= sent[s]
<1> DEFINE q == Captured(t, s, c)
           n == Clamped(t)
<1>1. t \in Threads /\ frames[t] \in Nat /\ sent[s] \in Nat /\ frames[t] <= sent[s]
  BY DEF Calls, Source, Threads
<1>2. n \in Nat /\ n <= frames[t]
  BY <1>1, ClampedIs DEF Calls
<1>3. q = [i \in 1 .. n |-> IF c <= SourceChannels(s) THEN sent[s] - frames[t] + i ELSE Silence]
  BY DEF Captured
<1> HIDE DEF q, n
<1>4. \A i \in 1 .. n : (IF c <= SourceChannels(s) THEN sent[s] - frames[t] + i ELSE Silence) \in Int
  BY <1>1, <1>2 DEF Silence
<1>5. q \in Seq(Int) /\ Len(q) = n
  BY <1>2, <1>3, <1>4
<1>6. \A i \in 1 .. n : q[i] # Silence => q[i] = sent[s] - frames[t] + i
  BY <1>3
<1>7. Rising(q)
  BY <1>1, <1>2, <1>5, <1>6 DEF Rising
<1>8. \A x \in Tones(q) : x \in Int /\ sent[s] - frames[t] < x /\ x <= sent[s]
  <2> SUFFICES ASSUME NEW i \in 1 .. n, q[i] # Silence
               PROVE  q[i] \in Int /\ sent[s] - frames[t] < q[i] /\ q[i] <= sent[s]
    BY <1>5 DEF Tones
  <2> QED BY <1>1, <1>2, <1>6
<1> QED BY <1>5, <1>7, <1>8 DEF q, n

\* A block that was put into a buffer is its front.
LEMMA FrontOfBuffer ==
  ASSUME NEW S, NEW q \in Seq(S), NEW b \in Seq(S), NEW n, n = Len(q)
  PROVE  Prefix(q \o Suffix(b, n), n) = q
<1> DEFINE w == Suffix(b, n)
           r == q \o w
<1>1. n \in Nat
  OBVIOUS
<1>2. w \in Seq(S)
  BY <1>1, RestIs
<1> HIDE DEF w
<1>3. /\ r \in Seq(S) /\ Len(r) = n + Len(w) /\ Len(w) \in Nat /\ \A k \in 1 .. n : r[k] = q[k]
  BY <1>2
<1> HIDE DEF r
<1>4. Prefix(r, n) \in Seq(S) /\ Len(Prefix(r, n)) = Min({n, Len(r)})
      /\ \A k \in 1 .. Len(Prefix(r, n)) : Prefix(r, n)[k] = r[k]
  BY <1>1, <1>3, FrontIs
<1>5. Len(r) \in Nat /\ n <= Len(r)
  BY <1>1, <1>3
<1>6. Present(Len(r), n) = n
  <2> DEFINE l == Len(r)
  <2>1. l \in Nat /\ n <= l
    BY <1>5
  <2> HIDE DEF l
  <2>2. Present(l, n) = n
    BY ONLY <1>1, <2>1, PresentIs
  <2> QED BY <2>2 DEF l
<1>7. Len(Prefix(r, n)) = n
  BY <1>4, <1>6 DEF Present
<1>8. Prefix(r, n) = q
  BY <1>3, <1>4, <1>7
<1> QED BY <1>8 DEF r, w

-----------------------------------------------------------------------------
(* What is heard.                                                          *)

LEMMA LastOfSome ==
  ASSUME NEW m \in Nat, NEW T \in SUBSET (1 .. m), T # {}
  PROVE  Max(T) \in T /\ \A x \in T : x <= Max(T)
<1> DEFINE U == {m - x : x \in T}
           R == OpToRel(<, Nat)
<1>1. U \in SUBSET Nat /\ U # {}
  OBVIOUS
<1>2. IsWellFoundedOn(R, Nat)
  BY NatLessThanWellFounded, Zenon
<1>3. \A n, k \in Nat : n < k => <<n, k>> \in R
  BY Zenon DEF OpToRel
<1> HIDE DEF R
<1>4. PICK k \in U : \A n \in U : ~(<<n, k>> \in R)
  BY <1>1, <1>2, WFMin
<1>5. PICK y \in T : k = m - y
  BY <1>4
<1>6. ASSUME NEW x \in T PROVE y >= x
  <2>1. m - x \in U /\ m - x \in Nat /\ m - y \in Nat
    OBVIOUS
  <2>2. ~(m - x < m - y)
    BY <1>3, <1>4, <1>5, <2>1
  <2> QED BY <2>2
<1> DEFINE z == CHOOSE x \in T : \A n \in T : x >= n
<1>7. z \in T /\ \A n \in T : z >= n
  BY <1>6
<1>8. Max(T) = z
  BY DEF Max
<1> HIDE DEF z
<1> QED BY <1>7, <1>8

\* A block that is heard changes what that thread heard last on that channel.
LEMMA HearKeeps ==
  ASSUME Data(Int), hist.last \in [Threads \X Chans -> Int],
         NEW t \in Threads, NEW c \in Chans, NEW q \in Seq(Int), NEW met, NEW short,
         Hear(t, c, q, met, short)
  PROVE  /\ hist'.last \in [Threads \X Chans -> Int]
         /\ \A k \in Threads \X Chans : k # <<t, c>> => hist'.last[k] = hist.last[k]
         /\ \A k : k # <<t, c>> => (k \in hist'.disorder <=> k \in hist.disorder)
         /\ hist'.unsunk = hist.unsunk /\ hist'.oversize = hist.oversize
<1> DEFINE new == {i \in DOMAIN q : q[i] # Silence}
           A == IF new = {} THEN hist.last[<<t, c>>] ELSE q[Max(new)]
           B == IF \A i \in new : q[i] > hist.last[<<t, c>>] /\ \A j \in new : j < i => q[j] < q[i]
                THEN hist.disorder ELSE hist.disorder \union {<<t, c>>}
<1>1. hist = [x \in Fields |-> hist[x]]
  BY DEF Data
<1>2. hist' = [hist EXCEPT !.last[<<t, c>>] = A, !.disorder = B, !.overlap = @ \union met,
                             !.short = @ \union short]
  BY DEF Hear
<1>3. Len(q) \in Nat /\ DOMAIN q = 1 .. Len(q) /\ \A i \in 1 .. Len(q) : q[i] \in Int
  OBVIOUS
<1>4. new # {} => Max(new) \in new
  BY <1>3, LastOfSome
<1>5. A \in Int
  BY <1>3, <1>4
<1>7. B = hist.disorder \/ B = hist.disorder \union {<<t, c>>}
  OBVIOUS
<1> HIDE DEF A, B, new
<1>6. /\ hist'.last = [hist.last EXCEPT ![<<t, c>>] = A]
      /\ hist'.unsunk = hist.unsunk /\ hist'.oversize = hist.oversize /\ hist'.disorder = B
  BY <1>1, <1>2 DEF Fields
<1> QED BY <1>5, <1>6, <1>7

\* What it heard last is from that block, and in order if the block is.
Heeds(t, c, q) ==
  /\ hist'.last[<<t, c>>] = hist.last[<<t, c>>] \/ hist'.last[<<t, c>>] \in Tones(q)
  /\ Rising(q) /\ Precede({hist.last[<<t, c>>]}, Tones(q)) =>
       /\ hist'.disorder = hist.disorder
       /\ \A x \in {hist.last[<<t, c>>]} \union Tones(q) : x <= hist'.last[<<t, c>>]

LEMMA HearTones ==
  ASSUME Data(Int), hist.last \in [Threads \X Chans -> Int],
         NEW t \in Threads, NEW c \in Chans, NEW q \in Seq(Int), NEW met, NEW short,
         Hear(t, c, q, met, short)
  PROVE  Heeds(t, c, q)
<1>a. PICK a : a = hist.last[<<t, c>>]
  OBVIOUS
<1>b. PICK b : b = hist'.last[<<t, c>>]
  OBVIOUS
<1> DEFINE new == {i \in DOMAIN q : q[i] # Silence}
           A == IF new = {} THEN a ELSE q[Max(new)]
           fine == \A i \in new : q[i] > a /\ \A j \in new : j < i => q[j] < q[i]
           B == IF fine THEN hist.disorder ELSE hist.disorder \union {<<t, c>>}
<1>1. hist = [x \in Fields |-> hist[x]]
  BY DEF Data
<1>2. hist' = [hist EXCEPT !.last[<<t, c>>] = A, !.disorder = B, !.overlap = @ \union met,
                             !.short = @ \union short]
  BY <1>a DEF Hear
<1>3. Len(q) \in Nat /\ DOMAIN q = 1 .. Len(q) /\ \A i \in 1 .. Len(q) : q[i] \in Int
  OBVIOUS
<1>4. new = {i \in 1 .. Len(q) : q[i] # Silence}
  BY <1>3
<1>5. Tones(q) = {q[i] : i \in new}
  BY <1>4 DEF Tones
<1>6. new # {} => Max(new) \in new /\ \A i \in new : i <= Max(new)
  BY <1>3, <1>4, LastOfSome
<1>7. a \in Int /\ A \in Int /\ A \in {a} \union Tones(q)
  BY <1>a, <1>3, <1>4, <1>5, <1>6
<1>8. Rising(q) /\ Precede({a}, Tones(q)) => fine
  BY <1>4, <1>5 DEF Rising, Precede
<1>9. Rising(q) /\ Precede({a}, Tones(q)) => \A x \in {a} \union Tones(q) : x <= A
  <2> SUFFICES ASSUME Rising(q), Precede({a}, Tones(q)), NEW x \in {a} \union Tones(q) PROVE x <= A
    OBVIOUS
  <2>1. CASE new = {}
    BY <1>5, <1>7, <2>1
  <2>2. CASE new # {}
    <3> DEFINE m == Max(new)
    <3>1. m \in new /\ \A i \in new : i <= m
      BY <1>6, <2>2
    <3> HIDE DEF m
    <3>2. A = q[m] /\ A \in Tones(q) /\ m \in 1 .. Len(q) /\ q[m] # Silence
      BY <1>4, <1>5, <2>2, <3>1 DEF m
    <3>3. CASE x = a
      <4>1. \A y \in Tones(q) : a < y
        BY DEF Precede
      <4>2. a < A
        BY <3>2, <4>1
      <4> HIDE DEF A
      <4> QED BY <1>7, <3>3, <4>2
    <3>4. CASE x \in Tones(q)
      <4>1. PICK i \in new : x = q[i]
        BY <1>5, <3>4
      <4>2. i <= m /\ i \in 1 .. Len(q) /\ q[i] # Silence
        BY <1>4, <3>1, <4>1
      <4>3. CASE i = m
        BY <1>7, <3>2, <4>1, <4>3
      <4>4. CASE i < m
        <5>1. q[i] < q[m]
          BY <3>2, <4>2, <4>4 DEF Rising
        <5> QED BY <1>3, <3>2, <4>1, <4>2, <5>1
      <4> QED BY <1>3, <3>2, <4>2, <4>3, <4>4
    <3> QED BY <3>3, <3>4
  <2> QED BY <2>1, <2>2
<1> HIDE DEF A, B, new, fine
<1>10. /\ hist'.last = [hist.last EXCEPT ![<<t, c>>] = A]
       /\ hist'.disorder = B
  BY <1>1, <1>2 DEF Fields
<1>11. b = A
  BY <1>b, <1>7, <1>10
<1>12. b = a \/ b \in Tones(q)
  BY <1>7, <1>11
<1>13. Rising(q) /\ Precede({a}, Tones(q)) => hist'.disorder = hist.disorder /\ \A x \in {a} \union Tones(q) : x <= b
  BY <1>8, <1>9, <1>10, <1>11 DEF B
<1> QED BY <1>a, <1>b, <1>12, <1>13 DEF Heeds

-----------------------------------------------------------------------------
(* The ways frames take.                                                   *)

Stages == 1 .. 7
InOrder(f) == \A i, j \in Stages : i < j => Precede(f[i], f[j])

\* What leaves a stage for one further on leaves later frames behind.
LEMMA ChainMoves ==
  ASSUME NEW f, InOrder(f), NEW g, NEW i \in Stages, NEW j \in Stages, i < j,
         g[i] \subseteq f[i] \union f[j], g[j] \subseteq f[j], Precede(g[i], g[j]),
         \A k \in Stages : i < k /\ k < j => g[k] = {},
         \A k \in Stages : k < i \/ k > j => g[k] \subseteq f[k]
  PROVE  InOrder(g)
<1> SUFFICES ASSUME NEW k \in Stages, NEW l \in Stages, k < l, NEW x \in g[k], NEW y \in g[l]
             PROVE  x < y
  BY DEF InOrder, Precede
<1>1. x \in f[k] \/ (k = i /\ x \in f[j])
  BY DEF Stages
<1>2. y \in f[l] \/ (l = i /\ y \in f[j])
  BY DEF Stages
<1>3. CASE x \in f[k] /\ y \in f[l]
  BY <1>3 DEF InOrder, Precede
<1>4. CASE l = i /\ y \in f[j]
  <2>1. k < j /\ x \in f[k]
    BY <1>1, <1>4 DEF Stages
  <2> QED BY <1>4, <2>1 DEF InOrder, Precede
<1>5. CASE k = i /\ x \in f[j] /\ y \in f[l]
  <2>1. l >= j
    BY <1>5 DEF Stages
  <2>2. CASE l = j
    BY <1>5, <2>2 DEF Precede
  <2>3. CASE l > j
    BY <1>5, <2>3 DEF InOrder, Precede
  <2> QED BY <2>1, <2>2, <2>3 DEF Stages
<1> QED BY <1>1, <1>2, <1>3, <1>4, <1>5

LEMMA ChainKeeps ==
  ASSUME NEW f, InOrder(f), NEW g, \A k \in Stages : g[k] \subseteq f[k]
  PROVE  InOrder(g)
  BY DEF InOrder, Precede

\* New frames come in front of those to come.
LEMMA ChainGrows ==
  ASSUME NEW f, InOrder(f), NEW g, NEW v \in Int, NEW w \in Int, NEW m \in Stages, f[m] = {v}, g[m] = {w}, v <= w,
         \A k \in Stages : k < m - 1 => g[k] \subseteq f[k],
         \A k \in Stages : k > m => g[k] = {},
         \A k \in Stages : \A x \in f[k] : x \in Int,
         \A k \in Stages : k = m - 1 => \A x \in g[k] : x \in Int /\ v <= x /\ x < w
  PROVE  InOrder(g)
<1> SUFFICES ASSUME NEW k \in Stages, NEW l \in Stages, k < l, NEW x \in g[k], NEW y \in g[l]
             PROVE  x < y
  BY DEF InOrder, Precede
<1>1. l <= m
  BY DEF Stages
<1>2. CASE l < m - 1
  <2>1. k < m - 1
    BY <1>2 DEF Stages
  <2> QED BY <1>2, <2>1 DEF InOrder, Precede
<1>3. k < m - 1 => x \in Int /\ x < v
  BY DEF InOrder, Precede, Stages
<1>4. CASE l = m - 1
  <2>1. k < m - 1 /\ y \in Int /\ v <= y
    BY <1>4
  <2> QED BY <1>3, <2>1
<1>5. CASE l = m
  <2>1. y = w
    BY <1>5
  <2>2. CASE k = m - 1
    BY <2>1, <2>2
  <2>3. CASE k < m - 1
    BY <1>3, <2>1, <2>3
  <2> QED BY <1>5, <2>2, <2>3 DEF Stages
<1> QED BY <1>1, <1>2, <1>4, <1>5 DEF Stages

\* What the clock has taken of its inputs, and what its graph made of it and no
\* ring has yet; what a device caught and has yet to push; what the bridge has
\* yet to send.
TakenIn(s, c) == Graph \in Left("master") /\ <<Taking, s, c>> \notin Left("master")
Made(o, c) == Graph \notin Left("master") /\ <<Giving, o, c>> \in Left("master")
Waiting(s, c) == <<Pushing, s, c>> \in Left(Source[s])
Popped(c) == <<"pop", 0, c>> \notin Left("master") /\ <<"send", 0, c>> \in Left("master")

\* How an operation changes that.
LEMMA MarksDo ==
  ASSUME Shape, Agenda, NEW t \in Threads, Do(t), NEW op, NEW a, NEW d, Heading(t) = <<op, a, d>>
  PROVE  /\ Placed(t, op, a, d) /\ op \in OpNames
         /\ \A s \in Streams, c \in Chans :
              /\ TakenIn(s, c)' <=> op # "exec" /\ (TakenIn(s, c) \/ (op = Taking /\ s = a /\ c = d))
              /\ op # "exec" => (Made(s, c)' <=> Made(s, c) /\ ~(op = Giving /\ s = a /\ c = d))
              /\ Waiting(s, c)' <=> Waiting(s, c) /\ ~(op = Pushing /\ s = a /\ c = d)
              /\ op = "exec" => TakenIn(s, c)
         /\ wiring = "bridge" =>
              \A c \in Chans : Popped(c)' <=> (Popped(c) \/ (op = "pop" /\ a = 0 /\ c = d)) /\ ~(op = "send" /\ c = d)
         /\ op = Giving => Made(a, d)
         /\ op = Pushing => Waiting(a, d)
         /\ op = "send" => Popped(d)
<1> DEFINE h == <<op, a, d>>
<1>1. /\ h \in Left(t) /\ h \in Plan(t) /\ Left(t) \subseteq Ops
      /\ Left(t)' = Left(t) \ {h} /\ \A x \in Threads : x # t => Left(x)' = Left(x)
      /\ \A b \in Plan(t) : Before(h, b) => b \in Left(t)'
      /\ \A b \in Ops : Before(b, h) => b \notin Left(t)
  BY DoLeft
<1>2. UNCHANGED <<wiring, device>> /\ wiring \in Wirings /\ device \in Devices
  BY DoIs DEF Shape, Calls
<1>3. Source' = Source /\ Taking' = Taking /\ Giving' = Giving /\ Pushing' = Pushing
  <2>1. Source' = Source
    BY <1>2, SameWiring
  <2> QED BY <1>2, <2>1 DEF Taking, Giving, Pushing
<1>4. h \in Ops
  BY <1>1
<1>5. op \in OpNames /\ a \in Streams /\ d \in Chans
  BY <1>4 DEF Ops, OpNames
<1>6. Placed(t, op, a, d)
  BY <1>1, <1>2, PlanIs
<1>7. \A o, s, c : h = <<o, s, c>> <=> op = o /\ a = s /\ d = c
  OBVIOUS
<1>8. /\ Graph = <<"exec", 0, 1>> /\ Graph \in Ops /\ Graph \in Plan("master")
      /\ \A s \in Streams, c \in Chans : <<Taking, s, c>> \in Ops /\ <<Taking, s, c>> \in Plan("master")
  <2>1. 0 \in Streams /\ 1 \in Chans /\ Taking \in OpNames
    BY StreamNumbers DEF Streams, Taking, OpNames
  <2> QED BY <1>2, <2>1, PlanHas DEF Graph, Ops, OpNames
<1>9. \A s \in Streams : Source[s] \in Threads
  BY DEF Source, Threads
<1>10. "master" \in Threads
  BY DEF Threads
<1>11. ASSUME NEW x \in Threads, NEW o, NEW s, NEW c
       PROVE  <<o, s, c>> \in Left(x)' <=> <<o, s, c>> \in Left(x) /\ ~(x = t /\ op = o /\ a = s /\ d = c)
  BY <1>1, <1>7
<1>12. \A c \in Chans : /\ \A s \in Streams : /\ Turn(<<Taking, s, c>>) \in {2, 3}
                                              /\ Turn(<<Giving, s, c>>) \in {5, 6}
                        /\ Turn(<<"pop", 0, c>>) = 7 /\ Turn(<<"send", 0, c>>) = 8
  <2>1. \A s \in Streams : 2 + s \in {2, 3} /\ 5 + s \in {5, 6}
    BY DEF Streams
  <2>2. 0 \in Streams
    BY DEF Streams
  <2> QED BY <2>1, <2>2, TurnIs DEF Taking, Giving, OpNames
<1>13. Turn(Graph) = 4
  BY DEF Turn, Graph
<1>14. \A s \in Streams, c \in Chans : Before(<<Taking, s, c>>, Graph) /\ Before(Graph, <<Giving, s, c>>)
  <2> SUFFICES ASSUME NEW s \in Streams, NEW c \in Chans
               PROVE  Before(<<Taking, s, c>>, Graph) /\ Before(Graph, <<Giving, s, c>>)
    OBVIOUS
  <2>1. Turn(<<Taking, s, c>>) < Turn(Graph) /\ Turn(Graph) < Turn(<<Giving, s, c>>)
    <3>1. Turn(<<Taking, s, c>>) \in {2, 3} /\ Turn(<<Giving, s, c>>) \in {5, 6}
      BY <1>12
    <3> QED BY <1>13, <3>1
  <2> QED BY <2>1 DEF Before
<1>15. \A c \in Chans : Before(<<"pop", 0, c>>, <<"send", 0, c>>)
  <2> SUFFICES ASSUME NEW c \in Chans PROVE Before(<<"pop", 0, c>>, <<"send", 0, c>>)
    OBVIOUS
  <2>1. Turn(<<"pop", 0, c>>) < Turn(<<"send", 0, c>>)
    BY <1>12
  <2> QED BY <2>1 DEF Before
<1>16. op = Taking => t = "master" /\ Graph \in Left(t)'
  BY <1>1, <1>5, <1>6, <1>8, <1>14 DEF Placed, Taking
<1>17. op = "exec" => t = "master" /\ h = Graph /\ \A s \in Streams, c \in Chans : <<Taking, s, c>> \notin Left("master")
  BY <1>1, <1>6, <1>8, <1>14 DEF Placed
<1>18. op = Giving => t = "master" /\ Graph \notin Left("master")
  BY <1>1, <1>5, <1>6, <1>8, <1>14 DEF Placed, Giving
<1>19. Giving # "exec" /\ Taking # "exec" /\ Pushing # "exec"
  BY DEF Giving, Taking, Pushing
<1>20. op = Pushing => t = Source[a]
  BY <1>6 DEF Placed, Pushing
<1>21. ASSUME NEW s \in Streams, NEW c \in Chans
       PROVE  /\ TakenIn(s, c)' <=> op # "exec" /\ (TakenIn(s, c) \/ (op = Taking /\ s = a /\ c = d))
              /\ op # "exec" => (Made(s, c)' <=> Made(s, c) /\ ~(op = Giving /\ s = a /\ c = d))
              /\ Waiting(s, c)' <=> Waiting(s, c) /\ ~(op = Pushing /\ s = a /\ c = d)
              /\ op = "exec" => TakenIn(s, c)
  <2>1. Graph \in Left("master")' <=> Graph \in Left("master") /\ ~(t = "master" /\ op = "exec" /\ a = 0 /\ d = 1)
    BY <1>8, <1>10, <1>11
  <2>2. op = "exec" => t = "master" /\ a = 0 /\ d = 1
    BY <1>6 DEF Placed
  <2>3. TakenIn(s, c)' <=> Graph \in Left("master")' /\ <<Taking, s, c>> \notin Left("master")'
    BY <1>3 DEF TakenIn
  <2>4. Made(s, c)' <=> Graph \notin Left("master")' /\ <<Giving, s, c>> \in Left("master")'
    BY <1>3 DEF Made
  <2>5. Waiting(s, c)' <=> <<Pushing, s, c>> \in Left(Source[s])'
    BY <1>3 DEF Waiting
  <2>6. <<Taking, s, c>> \in Left("master")' <=>
           <<Taking, s, c>> \in Left("master") /\ ~(t = "master" /\ op = Taking /\ a = s /\ d = c)
    BY <1>10, <1>11
  <2>7. <<Giving, s, c>> \in Left("master")' <=>
           <<Giving, s, c>> \in Left("master") /\ ~(t = "master" /\ op = Giving /\ a = s /\ d = c)
    BY <1>10, <1>11
  <2>8. <<Pushing, s, c>> \in Left(Source[s])' <=>
           <<Pushing, s, c>> \in Left(Source[s]) /\ ~(Source[s] = t /\ op = Pushing /\ a = s /\ d = c)
    <3>1. PICK x \in Threads : x = Source[s]
      BY <1>9
    <3>2. Left(Source[s]) = Left(x) /\ Left(Source[s])' = Left(x)'
      BY <1>3, <3>1 DEF Left
    <3> QED BY <1>11, <3>1, <3>2
  <2>9. TakenIn(s, c)' <=> op # "exec" /\ (TakenIn(s, c) \/ (op = Taking /\ s = a /\ c = d))
    BY <1>16, <2>1, <2>2, <2>3, <2>6 DEF TakenIn
  <2>10. op # "exec" => (Made(s, c)' <=> Made(s, c) /\ ~(op = Giving /\ s = a /\ c = d))
    BY <1>18, <2>1, <2>4, <2>7 DEF Made
  <2>11. Waiting(s, c)' <=> Waiting(s, c) /\ ~(op = Pushing /\ s = a /\ c = d)
    BY <1>20, <2>5, <2>8 DEF Waiting
  <2>12. op = "exec" => TakenIn(s, c)
    BY <1>1, <1>17 DEF TakenIn
  <2> QED BY <2>9, <2>10, <2>11, <2>12
<1>22. ASSUME wiring = "bridge", NEW c \in Chans
       PROVE  Popped(c)' <=> (Popped(c) \/ (op = "pop" /\ a = 0 /\ c = d)) /\ ~(op = "send" /\ c = d)
  <2>1. <<"pop", 0, c>> \in Left("master")' <=>
          <<"pop", 0, c>> \in Left("master") /\ ~(t = "master" /\ op = "pop" /\ a = 0 /\ d = c)
    BY <1>10, <1>11
  <2>2. <<"send", 0, c>> \in Left("master")' <=>
          <<"send", 0, c>> \in Left("master") /\ ~(t = "master" /\ op = "send" /\ a = 0 /\ d = c)
    BY <1>10, <1>11
  <2>3. op = "send" => t = "master" /\ a = 0
    BY <1>6 DEF Placed
  <2>4. op = "pop" /\ a = 0 /\ c = d => t = "master" /\ <<"send", 0, c>> \in Left("master")'
    <3> SUFFICES ASSUME op = "pop", a = 0, c = d PROVE t = "master" /\ <<"send", 0, c>> \in Left("master")'
      OBVIOUS
    <3>1. t = "master"
      BY <1>6 DEF Placed, Listener
    <3>2. <<"send", 0, c>> \in Plan("master")
      BY <1>2, <1>22, PlanHas
    <3> QED BY <1>1, <1>15, <3>1, <3>2
  <2> QED BY <2>1, <2>2, <2>3, <2>4 DEF Popped
<1>23. op = Giving => Made(a, d)
  BY <1>1, <1>18 DEF Made
<1>24. op = Pushing => Waiting(a, d)
  BY <1>1, <1>20 DEF Waiting
<1>25. op = "send" => Popped(d)
  <2> SUFFICES ASSUME op = "send" PROVE Popped(d)
    OBVIOUS
  <2>1. t = "master" /\ a = 0
    BY <1>6 DEF Placed
  <2>2. <<"pop", 0, d>> \in Ops
    BY <1>5, <2>1 DEF Ops
  <2> QED BY <1>1, <1>5, <1>15, <2>1, <2>2 DEF Popped
<1> QED BY <1>5, <1>6, <1>21, <1>22, <1>23, <1>24, <1>25

\* The ring a stream's frames wait in, and the front of a buffer, which is this
\* block.
Store(s, c) == IF wiring = "live" THEN <<"cross", s, c>> ELSE <<"in", s, c>>
ThisBlock(side, s, c) == Prefix(buf[<<side, s, c>>], Clamped("master"))

LastOK == hist.last \in [Threads \X Chans -> Int]
Apart(t, d) ==
  \A k \in Threads \X Chans : k # <<t, d>> => hist'.last[k] = hist.last[k] /\ heard'[k] = heard[k]

\* A block that is n frames of a ring and silence.
FromRing(q, r, n) == \E m \in Nat : q = Prefix(ring[r], n) \o Silent(m)

\* A block goes from a stream's ring to its buffer, or to the thread that pulls
\* it: what was in the ring, unless a channel gave less than the first.
TakesIn(t, a, d) ==
  \E n \in Nat, q \in Seq(Int) :
    /\ Read(Store(a, d), n) /\ Len(q) = Clamped(t)
    /\ buf' = [buf EXCEPT ![<<"in", a, d>>] = q \o Suffix(@, Clamped(t))]
    /\ d \notin hist'.short => FromRing(q, Store(a, d), n)
    /\ wiring # "live" => n = Clamped(t) /\ q = Padded(Store(a, d), n)
Pulls(t, d) ==
  \E n \in Nat, q \in Seq(Int) : \E met, short :
    /\ Read(<<"cross", 0, d>>, n) /\ Hear(t, d, q, met, short)
    /\ d \notin hist'.short => FromRing(q, <<"cross", 0, d>>, n)
ElseOrdered(t, d) == \A k : k # <<t, d>> => (k \in hist'.disorder <=> k \in hist.disorder)

\* Only the graph notes the streams that have no sink.
SameSinks(op) == op # "exec" => hist'.unsunk = hist.unsunk

LEMMA IntData == Shape => Data(Int)
<1> SUFFICES ASSUME Shape PROVE Data(Int)
  OBVIOUS
<1>1. Samples \subseteq Int
  BY TopIs DEF Samples, Garbage, Shape, Calls
<1>2. ASSUME NEW q \in Seq(Samples) PROVE q \in Seq(Int)
  <2>1. Len(q) \in Nat /\ q = [i \in 1 .. Len(q) |-> q[i]] /\ \A i \in 1 .. Len(q) : q[i] \in Int
    BY <1>1
  <2> QED BY <2>1
<1>3. Data(Samples)
  BY DEF Shape
<1> HIDE DEF Samples
<1> QED BY <1>2, <1>3 DEF Data, RingsAre, Scratches

\* A short channel stays one, and is never the first.
LEMMA ShortGrows ==
  ASSUME Shape, NEW t \in Threads, Do(t)
  PROVE  hist.short \subseteq hist'.short /\ (1 \notin hist.short => 1 \notin hist'.short)
<1> DEFINE op == Heading(t)[1]
           s == Heading(t)[2]
           c == Heading(t)[3]
<1>1. todo[t] # <<>>
  BY DoIs DEF Shape
<1>2. s \in Streams /\ c \in Chans
  BY <1>1, HeadingIs DEF Shape
<1>3. hist'.short = IF op \in {"pull", "take"} THEN hist.short \union Short(t, s, c) ELSE hist.short
  BY DoShape, Zenon
<1>4. Short(t, s, c) \subseteq {c} /\ (c = 1 => Short(t, s, c) = {})
  <2>1. Data(Int) /\ Silence \in Int /\ frames \in [Threads -> Nat]
    BY IntData DEF Silence, Shape, Calls
  <2>2. Draws(Int, t, s, c)
    BY <1>2, <2>1, PullIs
  <2> QED BY <2>2 DEF Draws
<1> HIDE DEF op, s, c
<1> QED BY <1>3, <1>4

\* A padded block comes from its ring.
LEMMA PaddedFromRing ==
  ASSUME Data(Int), NEW r \in Rings, NEW n \in Nat
  PROVE  FromRing(Padded(r, n), r, n)
<1>1. ring[r] \in Seq(Int)
  BY DEF Data, RingsAre
<1>2. Len(ring[r]) \in Nat
  BY <1>1
<1>3. Len(Prefix(ring[r], n)) = Min({n, Len(ring[r])})
  BY <1>1, FrontIs
<1>4. n - Len(Prefix(ring[r], n)) \in Nat
  BY <1>2, <1>3, PresentIs DEF Present
<1> QED BY <1>4 DEF Padded, FromRing

\* What an operation changes.
LEMMA DoData ==
  ASSUME Shape, LastOK, NEW t \in Threads, Do(t), NEW op, NEW a, NEW d, Heading(t) = <<op, a, d>>,
         Placed(t, op, a, d), op \in OpNames
  PROVE  /\ LastOK' /\ hist'.oversize = hist.oversize
         /\ SameSinks(op)
         /\ op = Pushing => Write(Store(a, d), Captured(t, a, d))
         /\ op = Taking => TakesIn(t, a, d)
         /\ op = "exec" => Exec(t)
         /\ op = "fill" => Write(<<"out", a, d>>, Prefix(buf[<<"out", a, d>>], Clamped(t)))
         /\ op = "pop" => /\ Read(<<"out", a, d>>, Clamped(t)) /\ Apart(t, d)
                          /\ \E met, short : Hear(t, d, Padded(<<"out", a, d>>, Clamped(t)), met, short)
         /\ op = "send" => Send(t, d)
         /\ op = "pull" => Pulls(t, d) /\ Apart(t, d)
         /\ op = "emit" => /\ ring' = ring /\ Apart(t, d)
                           /\ \E met, short : Hear(t, d, Prefix(buf[<<"out", a, d>>], Clamped(t)), met, short)
         /\ ElseOrdered(t, d)
         /\ hist.short \subseteq hist'.short /\ (1 \notin hist.short => 1 \notin hist'.short)
         /\ op \notin {Taking, "exec"} => buf' = buf
         /\ op = "exec" => ring' = ring
         /\ op \notin {"pop", "pull", "emit"} =>
              heard' = heard /\ hist'.last = hist.last /\ hist'.disorder = hist.disorder
<1>1. Operate(t, op, a, d)
  BY DoIs DEF Shape
<1>2. a \in Streams /\ d \in Chans
  BY DEF Placed
<1>3. Data(Int) /\ frames \in [Threads -> Nat] /\ Silence \in Int
  BY IntData DEF Shape, Calls, Silence
<1>4. hist = [x \in Fields |-> hist[x]]
  BY <1>3 DEF Data
<1>5. ASSUME NEW r \in Rings PROVE Padded(r, Clamped(t)) \in Seq(Int)
  BY <1>3, ClampedIs, PaddedIs DEF Data
<1>6. /\ <<"out", a, d>> \in Rings /\ <<"out", a, d>> \in Bufs /\ <<"cross", 0, d>> \in Rings
      /\ 0 \in Streams
  BY <1>2, RingNames DEF Streams
<1>7. ASSUME NEW q \in Seq(Int), NEW met, NEW short, Hear(t, d, q, met, short)
      PROVE  /\ Apart(t, d) /\ LastOK' /\ hist'.oversize = hist.oversize /\ hist'.unsunk = hist.unsunk
             /\ ElseOrdered(t, d)
  <2>1. /\ hist'.last \in [Threads \X Chans -> Int]
        /\ \A k \in Threads \X Chans : k # <<t, d>> => hist'.last[k] = hist.last[k]
        /\ \A k : k # <<t, d>> => (k \in hist'.disorder <=> k \in hist.disorder)
        /\ hist'.oversize = hist.oversize /\ hist'.unsunk = hist.unsunk
    BY <1>2, <1>3, <1>7, HearKeeps DEF LastOK
  <2>2. \A k \in Threads \X Chans : k # <<t, d>> => heard'[k] = heard[k]
    BY <1>3, <1>7 DEF Hear, Data
  <2> QED BY <2>1, <2>2 DEF LastOK, Apart, ElseOrdered
<1> DEFINE Rest == /\ hist'.last = hist.last /\ hist'.disorder = hist.disorder
                   /\ hist'.oversize = hist.oversize /\ hist'.unsunk = hist.unsunk
<1>8. ASSUME NEW side, NEW x, NEW o, Overlap(side, x, o) PROVE Rest
  <2> DEFINE m == Met(side, x, o)
  <2>1. hist' = [hist EXCEPT !.overlap = @ \union m]
    BY <1>8 DEF Overlap
  <2> HIDE DEF m
  <2> QED BY <1>4, <2>1 DEF Fields
<1>9. ASSUME hist' = hist PROVE Rest
  BY <1>9
<1>10. /\ op \in {"push", "capture"} <=> op = Pushing
       /\ op \in {"drain", "take"} <=> op = Taking
       /\ (wiring = "live" <=> Pushing = "capture") /\ (wiring # "live" <=> Pushing = "push")
       /\ (wiring = "live" <=> Taking = "take") /\ (wiring # "live" <=> Taking = "drain")
  BY DEF Placed, Pushing, Taking
<1>a. hist.short \subseteq hist'.short /\ (1 \notin hist.short => 1 \notin hist'.short)
  BY ShortGrows
<1>b. ASSUME hist'.disorder = hist.disorder PROVE ElseOrdered(t, d)
  BY <1>b DEF ElseOrdered
<1>c. /\ Asked(t, a, d) \in Nat /\ Pulled(t, a, d) \in Seq(Int) /\ Len(Pulled(t, a, d)) = Clamped(t)
      /\ op \in {"pull", "take"} /\ d \notin hist'.short =>
           FromRing(Pulled(t, a, d), <<"cross", a, d>>, Asked(t, a, d))
  <2>1. Draws(Int, t, a, d)
    BY <1>2, <1>3, PullIs
  <2>2. Heading(t)[1] = op /\ Heading(t)[2] = a /\ Heading(t)[3] = d
    OBVIOUS
  <2>3. op \in {"pull", "take"} => hist'.short = hist.short \union Short(t, a, d)
    <3>1. hist'.short = IF Heading(t)[1] \in {"pull", "take"}
                        THEN hist.short \union Short(t, Heading(t)[2], Heading(t)[3]) ELSE hist.short
      BY DoShape, Zenon
    <3> QED BY <2>2, <3>1
  <2>4. Clamped(t) - Asked(t, a, d) \in Nat
    BY <1>3, <2>1, ClampedIs DEF Draws
  <2>5. ASSUME op \in {"pull", "take"}, d \notin hist'.short
        PROVE  FromRing(Pulled(t, a, d), <<"cross", a, d>>, Asked(t, a, d))
    <3>1. Short(t, a, d) = {}
      BY <2>1, <2>3, <2>5 DEF Draws
    <3>2. Pulled(t, a, d) = Prefix(ring[<<"cross", a, d>>], Asked(t, a, d)) \o Silent(Clamped(t) - Asked(t, a, d))
      BY <2>1, <3>1 DEF Draws
    <3> QED BY <2>4, <3>2 DEF FromRing
  <2> QED BY <2>1, <2>5 DEF Draws
<1> HIDE DEF Rest
<1>11. CASE op = "push" /\ Push(t, a, d)
  <2>1. Store(a, d) = <<"in", a, d>> /\ op = Pushing /\ op # Taking
    BY <1>11 DEF Store, Placed, Pushing, Taking
  <2>2. Rest /\ Write(Store(a, d), Captured(t, a, d)) /\ UNCHANGED <<buf, heard>>
    BY <1>8, <1>11, <2>1 DEF Push
  <2>3. ElseOrdered(t, d)
    BY <1>b, <2>2 DEF Rest
  <2> QED BY <1>a, <1>11, <2>1, <2>2, <2>3 DEF LastOK, SameSinks, Rest
<1>12. CASE op = "capture" /\ Capture(t, a, d)
  <2>1. Store(a, d) = <<"cross", a, d>> /\ op = Pushing /\ op # Taking
    BY <1>12 DEF Store, Placed, Pushing, Taking
  <2>2. Rest /\ Write(Store(a, d), Captured(t, a, d)) /\ UNCHANGED <<buf, heard>>
    BY <1>9, <1>12, <2>1 DEF Capture
  <2>3. ElseOrdered(t, d)
    BY <1>b, <2>2 DEF Rest
  <2> QED BY <1>a, <1>12, <2>1, <2>2, <2>3 DEF LastOK, SameSinks, Rest
<1>13. CASE op = "drain" /\ Drain(t, a, d)
  <2>1. Store(a, d) = <<"in", a, d>> /\ op # Pushing
    BY <1>13 DEF Store, Placed, Pushing, Taking
  <2>2. Rest /\ heard' = heard
    BY <1>8, <1>13 DEF Drain
  <2>3. ElseOrdered(t, d)
    BY <1>b, <2>2 DEF Rest
  <2>4. TakesIn(t, a, d)
    <3> DEFINE q == Padded(Store(a, d), Clamped(t))
    <3>1. Store(a, d) \in Rings /\ Clamped(t) \in Nat
      BY <1>2, <1>3, <2>1, RingNames, ClampedIs
    <3>2. q \in Seq(Int) /\ Len(q) = Clamped(t) /\ FromRing(q, Store(a, d), Clamped(t))
      BY <1>3, <3>1, PaddedIs, PaddedFromRing DEF Data
    <3>3. Read(Store(a, d), Clamped(t)) /\ buf' = [buf EXCEPT ![<<"in", a, d>>] = q \o Suffix(@, Clamped(t))]
      BY <1>13, <2>1 DEF Drain
    <3>4. q = Padded(Store(a, d), Clamped(t))
      OBVIOUS
    <3> HIDE DEF q
    <3> QED BY <3>1, <3>2, <3>3, <3>4 DEF TakesIn
  <2> QED BY <1>a, <1>10, <1>13, <2>1, <2>2, <2>3, <2>4 DEF LastOK, SameSinks, Rest
<1>14. CASE op = "take" /\ Take(t, a, d)
  <2>1. Store(a, d) = <<"cross", a, d>> /\ op # Pushing /\ wiring = "live"
    BY <1>14 DEF Store, Placed, Pushing, Taking
  <2>2. Rest /\ heard' = heard
    <3> DEFINE m == Short(t, a, d)
    <3>1. hist' = [hist EXCEPT !.short = @ \union m] /\ heard' = heard
      BY <1>14 DEF Take
    <3> HIDE DEF m
    <3> QED BY <1>4, <3>1 DEF Fields, Rest
  <2>3. ElseOrdered(t, d)
    BY <1>b, <2>2 DEF Rest
  <2>4. TakesIn(t, a, d)
    <3> DEFINE q == Pulled(t, a, d)
               n == Asked(t, a, d)
    <3>1. n \in Nat /\ q \in Seq(Int) /\ Len(q) = Clamped(t)
      BY <1>c
    <3>2. d \notin hist'.short => FromRing(q, Store(a, d), n)
      BY <1>c, <1>14, <2>1
    <3>3. Read(Store(a, d), n) /\ buf' = [buf EXCEPT ![<<"in", a, d>>] = q \o Suffix(@, Clamped(t))]
      BY <1>14, <2>1 DEF Take
    <3> HIDE DEF q, n
    <3> QED BY <2>1, <3>1, <3>2, <3>3 DEF TakesIn
  <2> QED BY <1>a, <1>10, <1>14, <2>1, <2>2, <2>3, <2>4 DEF LastOK, SameSinks, Rest
<1>15. CASE op = "exec" /\ Exec(t)
  <2>1. hist' = [hist EXCEPT !.unsunk = @ \union {s \in Streams : route[s] = None}]
        /\ UNCHANGED <<ring, xruns, heard>>
    BY <1>15 DEF Exec
  <2>2. hist'.last = hist.last /\ hist'.disorder = hist.disorder /\ hist'.oversize = hist.oversize
    BY <1>4, <2>1 DEF Fields
  <2>3. op # Pushing /\ op # Taking
    BY <1>15 DEF Pushing, Taking
  <2>4. ElseOrdered(t, d)
    BY <1>b, <2>2
  <2> QED BY <1>a, <1>15, <2>1, <2>2, <2>3, <2>4 DEF LastOK, SameSinks
<1>16. CASE op = "fill" /\ Fill(t, a, d)
  <2>1. op # Pushing /\ op # Taking
    BY <1>16 DEF Pushing, Taking
  <2>2. Rest /\ Write(<<"out", a, d>>, Prefix(buf[<<"out", a, d>>], Clamped(t))) /\ UNCHANGED <<buf, heard>>
    BY <1>8, <1>16 DEF Fill
  <2>3. ElseOrdered(t, d)
    BY <1>b, <2>2 DEF Rest
  <2> QED BY <1>a, <1>16, <2>1, <2>2, <2>3 DEF LastOK, SameSinks, Rest
<1>17. CASE op = "pop" /\ Pop(t, a, d)
  <2>1. op # Pushing /\ op # Taking
    BY <1>17 DEF Pushing, Taking
  <2>2. Hear(t, d, Padded(<<"out", a, d>>, Clamped(t)), Met("out", a, "fill"), {})
        /\ Read(<<"out", a, d>>, Clamped(t)) /\ buf' = buf
    BY <1>17 DEF Pop
  <2>3. Apart(t, d) /\ LastOK' /\ hist'.oversize = hist.oversize /\ hist'.unsunk = hist.unsunk /\ ElseOrdered(t, d)
    BY <1>5, <1>6, <1>7, <2>2
  <2> QED BY <1>a, <1>17, <2>1, <2>2, <2>3 DEF SameSinks
<1>18. CASE op = "send" /\ Send(t, d)
  <2>1. op # Pushing /\ op # Taking
    BY <1>18 DEF Pushing, Taking
  <2>2. hist' = hist /\ buf' = buf /\ heard' = heard
    BY <1>18 DEF Send
  <2>3. ElseOrdered(t, d)
    BY <1>b, <2>2
  <2> QED BY <1>a, <1>18, <2>1, <2>2, <2>3 DEF LastOK, SameSinks
<1>19. CASE op = "pull" /\ Pull(t, d)
  <2>1. op # Pushing /\ op # Taking /\ a = 0
    BY <1>19 DEF Pushing, Taking, Placed
  <2> DEFINE q == Pulled(t, 0, d)
             n == Asked(t, 0, d)
             short == Short(t, 0, d)
  <2>2. Hear(t, d, q, {}, short) /\ Read(<<"cross", 0, d>>, n) /\ buf' = buf
    BY <1>19 DEF Pull
  <2>3. /\ n \in Nat /\ q \in Seq(Int)
        /\ d \notin hist'.short => FromRing(q, <<"cross", 0, d>>, n)
    BY <1>c, <1>19, <2>1
  <2> HIDE DEF q, n, short
  <2>4. Apart(t, d) /\ LastOK' /\ hist'.oversize = hist.oversize /\ hist'.unsunk = hist.unsunk /\ ElseOrdered(t, d)
    BY <1>7, <2>2, <2>3
  <2>5. Pulls(t, d)
    BY <2>2, <2>3 DEF Pulls
  <2> QED BY <1>a, <1>19, <2>1, <2>2, <2>4, <2>5 DEF SameSinks
<1>20. CASE op = "emit" /\ Emit(t, d)
  <2>1. op # Pushing /\ op # Taking /\ a = 0
    BY <1>20 DEF Pushing, Taking, Placed
  <2>2. Hear(t, d, Prefix(buf[<<"out", a, d>>], Clamped(t)), {}, {})
        /\ buf' = buf /\ ring' = ring
    BY <1>20, <2>1 DEF Emit
  <2>3. Prefix(buf[<<"out", a, d>>], Clamped(t)) \in Seq(Int)
    BY <1>3, <1>6, ClampedIs, FrontIs DEF Data
  <2>4. Apart(t, d) /\ LastOK' /\ hist'.oversize = hist.oversize /\ hist'.unsunk = hist.unsunk /\ ElseOrdered(t, d)
    BY <1>7, <2>2, <2>3
  <2> QED BY <1>a, <1>20, <2>1, <2>2, <2>4 DEF SameSinks
<1> QED BY <1>1, <1>11, <1>12, <1>13, <1>14, <1>15, <1>16, <1>17, <1>18, <1>19, <1>20 DEF Operate

\* From a device to who listens: what is still to be captured, what a device
\* caught, what its ring stores, what the clock has staged and mixed, what is
\* ready for the listener, and what it knows.  A stream that has no sink, or no
\* source, has half of the way.
Ends == Streams \union {None}
Known(o, c) == IF o \in Streams THEN {hist.last[<<Listener(o), c>>]} ELSE {}
Ready(o, c) == IF o \in Streams /\ wiring # "live" THEN Tones(ring[<<"out", o, c>>]) ELSE {}
Mixed(o, c) == IF o \in Streams /\ Made(o, c) THEN Tones(ThisBlock("out", o, c)) ELSE {}
Staged(s, c) == IF s \in Streams /\ TakenIn(s, c) THEN Tones(ThisBlock("in", s, c)) ELSE {}
Stored(s, c) == IF s \in Streams THEN Tones(ring[Store(s, c)]) ELSE {}
Caught(s, c) == IF s \in Streams /\ Waiting(s, c) THEN Tones(Captured(Source[s], s, c)) ELSE {}
Coming(s) == IF s \in Streams THEN {sent[s] + 1} ELSE {}

Flow(o, s, c) ==
  [k \in Stages |->
     IF k = 1 THEN Known(o, c) ELSE IF k = 2 THEN Ready(o, c) ELSE IF k = 3 THEN Mixed(o, c)
     ELSE IF k = 4 THEN Staged(s, c) ELSE IF k = 5 THEN Stored(s, c) ELSE IF k = 6 THEN Caught(s, c)
     ELSE Coming(s)]
Joined(o, s) == o \in Ends /\ s \in Ends /\ (o = None \/ s = None \/ route[o] = s)

\* The same from the clock to the bridge's other device.
Arrived(c) == {hist.last[<<"deviceB", c>>]}
Across(c) == Tones(ring[<<"cross", 0, c>>])
Scratch(c) == IF Popped(c) THEN Tones(heard[<<"master", c>>]) ELSE {}
Nearer(c) == {hist.last[<<"master", c>>] + 1}
Crossing(c) ==
  [k \in Stages |-> IF k = 1 THEN Arrived(c) ELSE IF k = 2 THEN Across(c)
                    ELSE IF k = 3 THEN Scratch(c) ELSE IF k = 4 THEN Nearer(c) ELSE {}]

LEMMA FlowIs ==
  ASSUME NEW o, NEW s, NEW c
  PROVE  /\ Flow(o, s, c)[1] = Known(o, c) /\ Flow(o, s, c)[2] = Ready(o, c) /\ Flow(o, s, c)[3] = Mixed(o, c)
         /\ Flow(o, s, c)[4] = Staged(s, c) /\ Flow(o, s, c)[5] = Stored(s, c) /\ Flow(o, s, c)[6] = Caught(s, c)
         /\ Flow(o, s, c)[7] = Coming(s)
  BY DEF Flow, Stages

LEMMA FlowWillBe ==
  ASSUME NEW o, NEW s, NEW c, NEW g, g = Flow(o, s, c)'
  PROVE  /\ g[1] = Known(o, c)' /\ g[2] = Ready(o, c)' /\ g[3] = Mixed(o, c)'
         /\ g[4] = Staged(s, c)' /\ g[5] = Stored(s, c)' /\ g[6] = Caught(s, c)'
         /\ g[7] = Coming(s)'
  BY DEF Flow, Stages

LEMMA CrossingIs ==
  ASSUME NEW c
  PROVE  /\ Crossing(c)[1] = Arrived(c) /\ Crossing(c)[2] = Across(c)
         /\ Crossing(c)[3] = Scratch(c) /\ Crossing(c)[4] = Nearer(c)
         /\ \A k \in Stages : k > 4 => Crossing(c)[k] = {}
  BY DEF Crossing, Stages

LEMMA CrossingWillBe ==
  ASSUME NEW c, NEW g, g = Crossing(c)'
  PROVE  /\ g[1] = Arrived(c)' /\ g[2] = Across(c)' /\ g[3] = Scratch(c)' /\ g[4] = Nearer(c)'
         /\ \A k \in Stages : k > 4 => g[k] = {}
  BY DEF Crossing, Stages

\* An operation moves frames at one place only.
LEMMA DoKeeps ==
  ASSUME Shape, Agenda, LastOK, NEW t \in Threads, Do(t), NEW op, NEW a, NEW d, Heading(t) = <<op, a, d>>
  PROVE  /\ \A o, s : Joined(o, s)' <=> Joined(o, s)
         /\ frames' = frames /\ (\A s, c : Store(s, c)' = Store(s, c)) /\ (\A x : Clamped(x)' = Clamped(x))
         /\ \A s \in Streams, c \in Chans : /\ Source[s]' = Source[s]
                                            /\ Captured(Source[s], s, c)' = Captured(Source[s], s, c)
         /\ \A s : Coming(s)' = Coming(s)
         /\ \A s \in Streams, c \in Chans :
              /\ ~(op \in {"pop", "emit"} /\ s = a /\ c = d) => Known(s, c)' = Known(s, c)
              /\ ~(op \in {"fill", "pop"} /\ s = a /\ c = d) => ring'[<<"out", s, c>>] = ring[<<"out", s, c>>]
              /\ op # "exec" => ThisBlock("out", s, c)' = ThisBlock("out", s, c)
              /\ ~(op = Taking /\ s = a /\ c = d) /\ op # "exec" => ThisBlock("in", s, c)' = ThisBlock("in", s, c)
              /\ ~(op \in {Pushing, Taking} /\ s = a /\ c = d) => ring'[Store(s, c)] = ring[Store(s, c)]
         /\ wiring = "bridge" => \A c \in Chans :
              /\ ~(op = "pull" /\ c = d) => Arrived(c)' = Arrived(c)
              /\ ~(op \in {"pull", "send"} /\ c = d) => ring'[<<"cross", 0, c>>] = ring[<<"cross", 0, c>>]
              /\ ~(op = "pop" /\ a = 0 /\ c = d) => /\ Nearer(c)' = Nearer(c)
                                                    /\ heard'[<<"master", c>>] = heard[<<"master", c>>]
<1>1. UNCHANGED <<wiring, device, frames, sent, calls, route>>
  BY DoIs DEF Shape
<1>2. Placed(t, op, a, d) /\ op \in OpNames /\ a \in Streams /\ d \in Chans
  BY MarksDo DEF Placed
<1>3. (\A s, c : Store(s, c)' = Store(s, c)) /\ \A x : Clamped(x)' = Clamped(x)
  BY <1>1 DEF Store, Clamped
<1>4. \A o, s : Joined(o, s)' <=> Joined(o, s)
  BY <1>1 DEF Joined
<1>5. ASSUME NEW s \in Streams, NEW c \in Chans
      PROVE  /\ Source[s]' = Source[s]
             /\ Captured(Source[s], s, c)' = Captured(Source[s], s, c)
  BY <1>1 DEF Source, Captured, SourceChannels, Clamped
<1>6. \A s : Coming(s)' = Coming(s)
  BY <1>1 DEF Coming
<1>7. RingsAre(Int)
  BY IntData DEF Data
<1>8. ASSUME NEW r \in Rings, (\E q : Write(r, q)) \/ (\E n : Read(r, n))
      PROVE  \A x \in Rings : x # r => ring'[x] = ring[x]
  BY <1>7, <1>8 DEF Write, Read, RingsAre
<1>9. \A s \in Streams, c \in Chans : /\ <<"in", s, c>> \in Rings /\ <<"out", s, c>> \in Rings /\ <<"cross", s, c>> \in Rings
                                     /\ Store(s, c) \in Rings /\ Store(s, c) # <<"out", s, c>>
                                     /\ <<"out", s, c>> \in Bufs /\ <<"in", s, c>> \in Bufs
  BY RingNames DEF Store
<1>10. /\ op = Pushing => Write(Store(a, d), Captured(t, a, d))
       /\ op = Taking => TakesIn(t, a, d)
       /\ op = "fill" => Write(<<"out", a, d>>, Prefix(buf[<<"out", a, d>>], Clamped(t)))
       /\ op = "pop" => Read(<<"out", a, d>>, Clamped(t)) /\ Apart(t, d)
       /\ op = "send" => Send(t, d)
       /\ op = "pull" => Pulls(t, d) /\ Apart(t, d)
       /\ op = "emit" => ring' = ring /\ Apart(t, d)
       /\ op = "exec" => ring' = ring
       /\ op \notin {Taking, "exec"} => buf' = buf
       /\ op \notin {"pop", "pull", "emit"} => heard' = heard /\ hist'.last = hist.last
  BY <1>2, DoData
<1>11. op = "send" => \E q : Write(<<"cross", 0, d>>, q)
  BY <1>10 DEF Send
<1>12. 0 \in Streams
  BY DEF Streams
<1>13. /\ op = Pushing \/ op = Taking => \A x \in Rings : x # Store(a, d) => ring'[x] = ring[x]
       /\ op \in {"fill", "pop"} => \A x \in Rings : x # <<"out", a, d>> => ring'[x] = ring[x]
       /\ op \in {"send", "pull"} => \A x \in Rings : x # <<"cross", 0, d>> => ring'[x] = ring[x]
  <2>1. op = Pushing => \A x \in Rings : x # Store(a, d) => ring'[x] = ring[x]
    BY <1>2, <1>8, <1>9, <1>10
  <2>2. op = Taking => \A x \in Rings : x # Store(a, d) => ring'[x] = ring[x]
    BY <1>2, <1>8, <1>9, <1>10 DEF TakesIn
  <2>3. op \in {"fill", "pop"} => \A x \in Rings : x # <<"out", a, d>> => ring'[x] = ring[x]
    BY <1>2, <1>8, <1>9, <1>10
  <2>4. op \in {"send", "pull"} => \A x \in Rings : x # <<"cross", 0, d>> => ring'[x] = ring[x]
    BY <1>2, <1>8, <1>9, <1>10, <1>11, <1>12 DEF Pulls
  <2> QED BY <2>1, <2>2, <2>3, <2>4
<1>14. op \in {Pushing, Taking, "fill", "pop", "send", "pull", "emit", "exec"}
  BY <1>2 DEF OpNames, Placed
<1>15. wiring = "bridge" => \A s \in Streams, c, x \in Chans : Store(s, c) # <<"cross", 0, x>>
  BY DEF Store
<1>16. op \in {"send", "pull"} => wiring = "bridge" /\ a = 0
  BY <1>2 DEF Placed
<1>17. \A s, c, x, e : /\ <<"out", s, c>> = <<"out", x, e>> <=> s = x /\ c = e
                       /\ Store(s, c) = Store(x, e) <=> s = x /\ c = e
                       /\ <<"cross", 0, c>> = <<"cross", 0, e>> <=> c = e
                       /\ Store(s, c) # <<"out", x, e>>
                       /\ <<"cross", 0, c>> # <<"out", x, e>>
  BY DEF Store
<1>18. ASSUME NEW s \in Streams, NEW c \in Chans
       PROVE  /\ ~(op \in {"fill", "pop"} /\ s = a /\ c = d) => ring'[<<"out", s, c>>] = ring[<<"out", s, c>>]
              /\ ~(op \in {Pushing, Taking} /\ s = a /\ c = d) => ring'[Store(s, c)] = ring[Store(s, c)]
  <2>1. ASSUME ~(op \in {"fill", "pop"} /\ s = a /\ c = d) PROVE ring'[<<"out", s, c>>] = ring[<<"out", s, c>>]
    <3>1. CASE op \in {"emit", "exec"}
      BY <1>10, <3>1
    <3>2. CASE op \in {Pushing, Taking}
      <4>1. <<"out", s, c>> \in Rings /\ <<"out", s, c>> # Store(a, d)
        BY <1>9 DEF Store
      <4> QED BY <1>13, <3>2, <4>1
    <3>3. CASE op \in {"fill", "pop"}
      BY <1>9, <1>13, <1>17, <2>1, <3>3
    <3>4. CASE op \in {"send", "pull"}
      BY <1>9, <1>13, <1>17, <3>4
    <3> QED BY <1>14, <3>1, <3>2, <3>3, <3>4
  <2>2. ASSUME ~(op \in {Pushing, Taking} /\ s = a /\ c = d) PROVE ring'[Store(s, c)] = ring[Store(s, c)]
    <3>1. CASE op \in {"emit", "exec"}
      BY <1>10, <3>1
    <3>2. CASE op \in {Pushing, Taking}
      <4>1. Store(s, c) \in Rings /\ Store(s, c) # Store(a, d)
        BY <1>9, <2>2, <3>2 DEF Store
      <4> QED BY <1>13, <3>2, <4>1
    <3>3. CASE op \in {"fill", "pop"}
      <4>1. Store(s, c) \in Rings /\ Store(s, c) # <<"out", a, d>>
        BY <1>9 DEF Store
      <4> QED BY <1>13, <3>3, <4>1
    <3>4. CASE op \in {"send", "pull"}
      BY <1>2, <1>9, <1>13, <1>15, <1>16, <3>4
    <3> QED BY <1>14, <3>1, <3>2, <3>3, <3>4
  <2> QED BY <2>1, <2>2
<1>19. ASSUME wiring = "bridge", NEW c \in Chans, ~(op \in {"pull", "send"} /\ c = d)
       PROVE  ring'[<<"cross", 0, c>>] = ring[<<"cross", 0, c>>]
  <2>1. CASE op \in {"emit", "exec"}
    BY <1>10, <2>1
  <2>2. CASE op \in {Pushing, Taking}
    BY <1>2, <1>9, <1>12, <1>13, <1>15, <1>19, <2>2
  <2>3. CASE op \in {"fill", "pop"}
    BY <1>9, <1>12, <1>13, <1>17, <2>3
  <2>4. CASE op \in {"send", "pull"}
    BY <1>9, <1>12, <1>13, <1>17, <1>19, <2>4
  <2> QED BY <1>14, <2>1, <2>2, <2>3, <2>4
<1>20. /\ \A s \in Streams, c \in Chans : <<Listener(s), c>> \in Threads \X Chans
       /\ \A c \in Chans : <<"deviceB", c>> \in Threads \X Chans /\ <<"master", c>> \in Threads \X Chans
  BY DEF Listener, Threads
<1>21. op \in {"pop", "emit"} => t = Listener(a)
  BY <1>2 DEF Placed, Listener
<1>22. op = "pull" => t = "deviceB"
  BY <1>2 DEF Placed
<1>23. \A s, x \in Streams : Listener(s) = Listener(x) => s = x
  BY DEF Streams, Listener
<1>24. \A s \in Streams : Listener(s) # "deviceB" /\ (Listener(s) = "master" <=> s = 0)
  BY DEF Streams, Listener
<1>25. ASSUME NEW s \in Streams, NEW c \in Chans, ~(op \in {"pop", "emit"} /\ s = a /\ c = d)
       PROVE  Known(s, c)' = Known(s, c)
  <2>1. hist'.last[<<Listener(s), c>>] = hist.last[<<Listener(s), c>>]
    <3>1. CASE op \notin {"pop", "pull", "emit"}
      BY <1>10, <3>1
    <3>2. CASE op \in {"pop", "emit"}
      <4>1. <<Listener(s), c>> # <<t, d>>
        BY <1>2, <1>21, <1>23, <1>25, <3>2
      <4> QED BY <1>10, <1>20, <3>2, <4>1 DEF Apart
    <3>3. CASE op = "pull"
      <4>1. <<Listener(s), c>> # <<t, d>>
        BY <1>22, <1>24, <3>3
      <4> QED BY <1>10, <1>20, <3>3, <4>1 DEF Apart
    <3> QED BY <3>1, <3>2, <3>3
  <2> QED BY <2>1 DEF Known, Listener
<1>26. ASSUME wiring = "bridge", NEW c \in Chans, ~(op = "pull" /\ c = d)
       PROVE  Arrived(c)' = Arrived(c)
  <2>1. hist'.last[<<"deviceB", c>>] = hist.last[<<"deviceB", c>>]
    <3>1. CASE op \notin {"pop", "pull", "emit"}
      BY <1>10, <3>1
    <3>2. CASE op \in {"pop", "emit"}
      <4>1. <<"deviceB", c>> # <<t, d>>
        BY <1>2, <1>21, <1>24, <3>2
      <4> QED BY <1>10, <1>20, <3>2, <4>1 DEF Apart
    <3>3. CASE op = "pull"
      <4>1. <<"deviceB", c>> # <<t, d>>
        BY <1>26, <3>3
      <4> QED BY <1>10, <1>20, <3>3, <4>1 DEF Apart
    <3> QED BY <3>1, <3>2, <3>3
  <2> QED BY <2>1 DEF Arrived
<1>27. ASSUME wiring = "bridge", NEW c \in Chans, ~(op = "pop" /\ a = 0 /\ c = d)
       PROVE  Nearer(c)' = Nearer(c) /\ heard'[<<"master", c>>] = heard[<<"master", c>>]
  <2>1. hist'.last[<<"master", c>>] = hist.last[<<"master", c>>] /\ heard'[<<"master", c>>] = heard[<<"master", c>>]
    <3>1. CASE op \notin {"pop", "pull", "emit"}
      BY <1>10, <3>1
    <3>2. CASE op = "pop"
      <4>1. <<"master", c>> # <<t, d>>
        BY <1>2, <1>21, <1>24, <1>27, <3>2
      <4> QED BY <1>10, <1>20, <3>2, <4>1 DEF Apart
    <3>3. CASE op = "pull"
      <4>1. <<"master", c>> # <<t, d>>
        BY <1>22, <3>3
      <4> QED BY <1>10, <1>20, <3>3, <4>1 DEF Apart
    <3>4. CASE op = "emit"
      BY <1>2, <1>27, <3>4 DEF Placed, Giving
    <3> QED BY <3>1, <3>2, <3>3, <3>4
  <2> QED BY <2>1 DEF Nearer
<1>28. ASSUME NEW s \in Streams, NEW c \in Chans, op # "exec"
       PROVE  /\ ThisBlock("out", s, c)' = ThisBlock("out", s, c)
              /\ ~(op = Taking /\ s = a /\ c = d) => ThisBlock("in", s, c)' = ThisBlock("in", s, c)
  <2>1. buf'[<<"out", s, c>>] = buf[<<"out", s, c>>]
        /\ (~(op = Taking /\ s = a /\ c = d) => buf'[<<"in", s, c>>] = buf[<<"in", s, c>>])
    <3>1. CASE op # Taking
      BY <1>10, <1>28, <3>1
    <3>2. CASE op = Taking
      <4>0. PICK b : buf' = [buf EXCEPT ![<<"in", a, d>>] = b \o Suffix(@, Clamped(t))]
        BY <1>10, <3>2 DEF TakesIn
      <4> DEFINE q == b \o Suffix(buf[<<"in", a, d>>], Clamped(t))
      <4>1. buf' = [buf EXCEPT ![<<"in", a, d>>] = q]
        BY <4>0
      <4> HIDE DEF q
      <4>2. buf \in [Bufs -> Seq(Int)]
        BY IntData DEF Data
      <4> QED BY <1>9, <3>2, <4>1, <4>2
    <3> QED BY <3>1, <3>2
  <2> QED BY <1>3, <2>1 DEF ThisBlock
<1> QED BY <1>1, <1>3, <1>4, <1>5, <1>6, <1>18, <1>19, <1>25, <1>26, <1>27, <1>28

\* What each operation does to the frames at its place.
Moved(op, a, d) ==
  /\ op = Pushing => Stored(a, d)' \subseteq Stored(a, d) \union Caught(a, d)
  /\ op = Taking => /\ Staged(a, d)' \subseteq Stored(a, d) /\ Stored(a, d)' \subseteq Stored(a, d)
                    /\ Precede(Staged(a, d)', Stored(a, d)')
  /\ op = "fill" => Ready(a, d)' \subseteq Ready(a, d) \union Mixed(a, d)
  /\ op = "pop" => /\ Known(a, d)' \subseteq Known(a, d) \union Ready(a, d) /\ Ready(a, d)' \subseteq Ready(a, d)
                   /\ Precede(Known(a, d)', Ready(a, d)')
  /\ op = "emit" => Known(a, d)' \subseteq Known(a, d) \union Mixed(a, d)

LEMMA FlowStep ==
  ASSUME Shape, Agenda, LastOK, NEW t \in Threads, Do(t), NEW op, NEW a, NEW d, Heading(t) = <<op, a, d>>,
         op # "exec", NEW o \in Ends, NEW s \in Ends, NEW c \in Chans, c = d => Moved(op, a, d),
         InOrder(Flow(o, s, c))
  PROVE  InOrder(Flow(o, s, c))'
<1>1. Placed(t, op, a, d) /\ op \in OpNames /\ a \in Streams /\ d \in Chans
  BY MarksDo DEF Placed
<1>2. ASSUME NEW e \in Streams
      PROVE  /\ TakenIn(e, c)' <=> TakenIn(e, c) \/ (op = Taking /\ e = a /\ c = d)
             /\ Made(e, c)' <=> Made(e, c) /\ ~(op = Giving /\ e = a /\ c = d)
             /\ Waiting(e, c)' <=> Waiting(e, c) /\ ~(op = Pushing /\ e = a /\ c = d)
  <2>1. TakenIn(e, c)' <=> op # "exec" /\ (TakenIn(e, c) \/ (op = Taking /\ e = a /\ c = d))
    BY MarksDo
  <2>2. op # "exec" => (Made(e, c)' <=> Made(e, c) /\ ~(op = Giving /\ e = a /\ c = d))
    BY MarksDo
  <2>3. Waiting(e, c)' <=> Waiting(e, c) /\ ~(op = Pushing /\ e = a /\ c = d)
    BY MarksDo
  <2> QED BY <2>1, <2>2, <2>3
<1>3. /\ \A e \in Streams : /\ Source[e]' = Source[e]
                            /\ Captured(Source[e], e, c)' = Captured(Source[e], e, c)
      /\ \A e : Coming(e)' = Coming(e)
      /\ \A e : Store(e, c)' = Store(e, c)
  BY DoKeeps
<1>4. \A e \in Streams :
        /\ ~(op \in {"pop", "emit"} /\ e = a /\ c = d) => Known(e, c)' = Known(e, c)
        /\ ~(op \in {"fill", "pop"} /\ e = a /\ c = d) => ring'[<<"out", e, c>>] = ring[<<"out", e, c>>]
        /\ ThisBlock("out", e, c)' = ThisBlock("out", e, c)
        /\ ~(op = Taking /\ e = a /\ c = d) => ThisBlock("in", e, c)' = ThisBlock("in", e, c)
        /\ ~(op \in {Pushing, Taking} /\ e = a /\ c = d) => ring'[Store(e, c)] = ring[Store(e, c)]
  BY DoKeeps
<1>5. UNCHANGED wiring
  BY DoIs DEF Shape
<1>6. /\ ~(op \in {"pop", "emit"} /\ o = a /\ c = d) => Known(o, c)' = Known(o, c)
      /\ ~(op \in {"fill", "pop"} /\ o = a /\ c = d) => Ready(o, c)' = Ready(o, c)
      /\ Mixed(o, c)' \subseteq Mixed(o, c)
      /\ op = Giving /\ o = a /\ c = d => Mixed(o, c)' = {}
  <2>1. CASE o \in Streams
    <3>1. ~(op \in {"fill", "pop"} /\ o = a /\ c = d) => Ready(o, c)' = Ready(o, c)
      BY <1>4, <1>5, <2>1 DEF Ready, Tones
    <3>2. Tones(ThisBlock("out", o, c))' = Tones(ThisBlock("out", o, c))
      BY <1>4, <2>1 DEF Tones
    <3>3. Mixed(o, c)' \subseteq Mixed(o, c) /\ (op = Giving /\ o = a /\ c = d => Mixed(o, c)' = {})
      BY <1>2, <2>1, <3>2 DEF Mixed
    <3> QED BY <1>4, <2>1, <3>1, <3>3
  <2>2. CASE o \notin Streams
    BY <1>1, <2>2 DEF Known, Ready, Mixed
  <2> QED BY <2>1, <2>2
<1>7. /\ ~(op = Taking /\ s = a /\ c = d) => Staged(s, c)' = Staged(s, c)
      /\ ~(op \in {Pushing, Taking} /\ s = a /\ c = d) => Stored(s, c)' = Stored(s, c)
      /\ Caught(s, c)' \subseteq Caught(s, c)
      /\ op = Pushing /\ s = a /\ c = d => Caught(s, c)' = {}
  <2>1. CASE s \in Streams
    <3>1. ~(op = Taking /\ s = a /\ c = d) => Staged(s, c)' = Staged(s, c)
      <4> SUFFICES ASSUME ~(op = Taking /\ s = a /\ c = d) PROVE Staged(s, c)' = Staged(s, c)
        OBVIOUS
      <4>1. Tones(ThisBlock("in", s, c))' = Tones(ThisBlock("in", s, c))
        BY <1>4, <2>1 DEF Tones
      <4>2. TakenIn(s, c)' <=> TakenIn(s, c)
        BY <1>2, <2>1
      <4> QED BY <2>1, <4>1, <4>2 DEF Staged
    <3>2. ~(op \in {Pushing, Taking} /\ s = a /\ c = d) => Stored(s, c)' = Stored(s, c)
      BY <1>3, <1>4, <2>1 DEF Stored
    <3>3. Tones(Captured(Source[s], s, c))' = Tones(Captured(Source[s], s, c))
      BY <1>3, <2>1 DEF Tones
    <3>4. Caught(s, c)' \subseteq Caught(s, c) /\ (op = Pushing /\ s = a /\ c = d => Caught(s, c)' = {})
      <4>1. Waiting(s, c)' <=> Waiting(s, c) /\ ~(op = Pushing /\ s = a /\ c = d)
        BY <1>2, <2>1
      <4> QED BY <2>1, <3>3, <4>1 DEF Caught
    <3> QED BY <3>1, <3>2, <3>4
  <2>2. CASE s \notin Streams
    BY <1>1, <2>2 DEF Staged, Stored, Caught
  <2> QED BY <2>1, <2>2
<1>8. Coming(s)' = Coming(s)
  BY <1>3
<1>9. PICK g : g = Flow(o, s, c)'
  OBVIOUS
<1>10. PICK f : f = Flow(o, s, c)
  OBVIOUS
<1>11. /\ g[1] = Known(o, c)' /\ g[2] = Ready(o, c)' /\ g[3] = Mixed(o, c)'
       /\ g[4] = Staged(s, c)' /\ g[5] = Stored(s, c)' /\ g[6] = Caught(s, c)'
       /\ g[7] = Coming(s)'
  BY <1>9, FlowWillBe
<1>12. /\ f[1] = Known(o, c) /\ f[2] = Ready(o, c) /\ f[3] = Mixed(o, c)
       /\ f[4] = Staged(s, c) /\ f[5] = Stored(s, c) /\ f[6] = Caught(s, c)
       /\ f[7] = Coming(s)
  BY <1>10, FlowIs
<1>13. InOrder(f)
  BY <1>10
<1>14. Pushing # Taking /\ Pushing \notin {"fill", "pop", "emit"} /\ Taking \notin {"fill", "pop", "emit"}
       /\ (op \in {"fill", "emit"} => op = Giving) /\ Giving \in {"fill", "emit"}
       /\ (op = "emit" => wiring = "live")
  BY <1>1 DEF Pushing, Taking, Giving, Placed
<1>15. InOrder(g)
  <2>1. CASE op = Pushing /\ s = a /\ c = d
    <3>0. g[6] = {}
      BY <1>7, <1>11, <2>1
    <3>1. g[5] \subseteq f[5] \union f[6] /\ \A k \in Stages : k < 5 \/ k > 6 => g[k] \subseteq f[k]
      BY <1>6, <1>7, <1>8, <1>11, <1>12, <1>14, <2>1 DEF Moved, Stages
    <3>2. Precede(g[5], g[6]) /\ g[6] \subseteq f[6]
      BY <3>0 DEF Precede
    <3>3. 5 \in Stages /\ 6 \in Stages /\ \A k \in Stages : ~(5 < k /\ k < 6)
      BY DEF Stages
    <3> QED BY ONLY <1>13, <3>1, <3>2, <3>3, ChainMoves
  <2>2. CASE op = Taking /\ s = a /\ c = d
    <3>1. g[4] \subseteq f[4] \union f[5] /\ g[5] \subseteq f[5] /\ Precede(g[4], g[5])
          /\ \A k \in Stages : k < 4 \/ k > 5 => g[k] \subseteq f[k]
      BY <1>6, <1>7, <1>8, <1>11, <1>12, <1>14, <2>2 DEF Moved, Stages
    <3>2. 4 \in Stages /\ 5 \in Stages /\ \A k \in Stages : ~(4 < k /\ k < 5)
      BY DEF Stages
    <3> QED BY <1>13, <3>1, <3>2, ChainMoves
  <2>3. CASE op = "fill" /\ o = a /\ c = d
    <3>0. g[3] = {}
      BY <1>6, <1>11, <1>14, <2>3
    <3>1. g[2] \subseteq f[2] \union f[3] /\ \A k \in Stages : k < 2 \/ k > 3 => g[k] \subseteq f[k]
      BY <1>6, <1>7, <1>8, <1>11, <1>12, <1>14, <2>3 DEF Moved, Stages
    <3>2. Precede(g[2], g[3]) /\ g[3] \subseteq f[3]
      BY <3>0 DEF Precede
    <3>3. 2 \in Stages /\ 3 \in Stages /\ \A k \in Stages : ~(2 < k /\ k < 3)
      BY DEF Stages
    <3> QED BY ONLY <1>13, <3>1, <3>2, <3>3, ChainMoves
  <2>4. CASE op = "pop" /\ o = a /\ c = d
    <3>1. g[1] \subseteq f[1] \union f[2] /\ g[2] \subseteq f[2] /\ Precede(g[1], g[2])
          /\ \A k \in Stages : k < 1 \/ k > 2 => g[k] \subseteq f[k]
      BY <1>6, <1>7, <1>8, <1>11, <1>12, <1>14, <2>4 DEF Moved, Stages
    <3>2. 1 \in Stages /\ 2 \in Stages /\ \A k \in Stages : ~(1 < k /\ k < 2)
      BY DEF Stages
    <3> QED BY <1>13, <3>1, <3>2, ChainMoves
  <2>5. CASE op = "emit" /\ o = a /\ c = d
    <3>0. g[3] = {}
      BY <1>6, <1>11, <1>14, <2>5
    <3>1. g[1] \subseteq f[1] \union f[3] /\ \A k \in Stages : k < 1 \/ k > 3 => g[k] \subseteq f[k]
      BY <1>6, <1>7, <1>8, <1>11, <1>12, <1>14, <2>5 DEF Moved, Stages
    <3>2. Precede(g[1], g[3]) /\ g[3] \subseteq f[3]
      BY <3>0 DEF Precede
    <3>3. g[2] = {}
      BY <1>5, <1>11, <1>14, <2>5 DEF Ready
    <3>4. 1 \in Stages /\ 3 \in Stages /\ \A k \in Stages : 1 < k /\ k < 3 => k = 2
      BY DEF Stages
    <3>5. \A k \in Stages : 1 < k /\ k < 3 => g[k] = {}
      BY <3>3, <3>4
    <3> QED BY ONLY <1>13, <3>1, <3>2, <3>4, <3>5, ChainMoves
  <2>6. CASE ~(c = d /\ ((op \in {Pushing, Taking} /\ s = a) \/ (op \in {"fill", "pop", "emit"} /\ o = a)))
    <3>1. \A k \in Stages : g[k] \subseteq f[k]
      BY <1>6, <1>7, <1>8, <1>11, <1>12, <2>6 DEF Stages
    <3> QED BY <1>13, <3>1, ChainKeeps
  <2> QED BY <2>1, <2>2, <2>3, <2>4, <2>5, <2>6
<1>16. InOrder(Flow(o, s, c))' <=> InOrder(Flow(o, s, c)')
  BY DEF InOrder, Precede
<1> QED BY <1>9, <1>15, <1>16

\* Rings and blocks with frames in order.
RiseAt(s, c) ==
  /\ Rising(ring[<<"out", s, c>>]) /\ Rising(ring[Store(s, c)])
  /\ Made(s, c) => Rising(ThisBlock("out", s, c))
  /\ TakenIn(s, c) => Rising(ThisBlock("in", s, c))
Straight(op, a, d) ==
  /\ op \in {Pushing, Taking} => Rising(ring[Store(a, d)])'
  /\ op = Taking => Rising(ThisBlock("in", a, d))'
  /\ op \in {"fill", "pop"} => Rising(ring[<<"out", a, d>>])'

LEMMA RiseStep ==
  ASSUME Shape, Agenda, LastOK, NEW t \in Threads, Do(t), NEW op, NEW a, NEW d, Heading(t) = <<op, a, d>>,
         op # "exec", NEW s \in Streams, NEW c \in Chans, c = d => Straight(op, a, d), RiseAt(s, c)
  PROVE  RiseAt(s, c)'
<1>1. \A e, x : Store(e, x)' = Store(e, x)
  BY DoKeeps
<1>2. TakenIn(s, c)' <=> op # "exec" /\ (TakenIn(s, c) \/ (op = Taking /\ s = a /\ c = d))
  BY MarksDo
<1>3. op # "exec" => (Made(s, c)' <=> Made(s, c) /\ ~(op = Giving /\ s = a /\ c = d))
  BY MarksDo
<1>4. /\ ~(op \in {"fill", "pop"} /\ s = a /\ c = d) => ring'[<<"out", s, c>>] = ring[<<"out", s, c>>]
      /\ ThisBlock("out", s, c)' = ThisBlock("out", s, c)
      /\ ~(op = Taking /\ s = a /\ c = d) => ThisBlock("in", s, c)' = ThisBlock("in", s, c)
      /\ ~(op \in {Pushing, Taking} /\ s = a /\ c = d) => ring'[Store(s, c)] = ring[Store(s, c)]
  BY DoKeeps
<1>5. Rising(ring[<<"out", s, c>>])'
  <2>1. CASE op \in {"fill", "pop"} /\ s = a /\ c = d
    BY <2>1 DEF Straight
  <2>2. CASE ~(op \in {"fill", "pop"} /\ s = a /\ c = d)
    BY <1>4, <2>2 DEF RiseAt, Rising
  <2> QED BY <2>1, <2>2
<1>6. Rising(ring[Store(s, c)])'
  <2>1. CASE op \in {Pushing, Taking} /\ s = a /\ c = d
    BY <2>1 DEF Straight
  <2>2. CASE ~(op \in {Pushing, Taking} /\ s = a /\ c = d)
    <3>1. ring[Store(s, c)]' = ring[Store(s, c)]
      BY <1>1, <1>4, <2>2
    <3> QED BY <3>1 DEF RiseAt, Rising
  <2> QED BY <2>1, <2>2
<1>7. Made(s, c)' => Rising(ThisBlock("out", s, c))'
  BY <1>3, <1>4 DEF RiseAt, Rising
<1>8. TakenIn(s, c)' => Rising(ThisBlock("in", s, c))'
  <2>1. CASE op = Taking /\ s = a /\ c = d
    BY <2>1 DEF Straight
  <2>2. CASE ~(op = Taking /\ s = a /\ c = d)
    <3>1. TakenIn(s, c)' => TakenIn(s, c)
      BY <1>2, <2>2
    <3>2. ThisBlock("in", s, c)' = ThisBlock("in", s, c)
      BY <1>4, <2>2
    <3> QED BY <3>1, <3>2 DEF RiseAt, Rising
  <2> QED BY <2>1, <2>2
<1> QED BY <1>5, <1>6, <1>7, <1>8 DEF RiseAt

\* The same on the bridge.
CrossAt(c) ==
  /\ InOrder(Crossing(c)) /\ Rising(ring[<<"cross", 0, c>>])
  /\ Popped(c) => Rising(heard[<<"master", c>>]) /\ Len(heard[<<"master", c>>]) = Clamped("master")
Crossed(op, a, d) ==
  /\ op = "pop" /\ a = 0 =>
       /\ Rising(heard[<<"master", d>>])' /\ Len(heard[<<"master", d>>])' = Clamped("master")
       /\ Precede({hist.last[<<"master", d>>]}, Tones(heard[<<"master", d>>])')
       /\ \A x \in {hist.last[<<"master", d>>]} \union Tones(heard[<<"master", d>>])' : x <= hist'.last[<<"master", d>>]
  /\ op = "send" => Across(d)' \subseteq Across(d) \union Scratch(d)
  /\ op = "pull" => /\ Arrived(d)' \subseteq Arrived(d) \union Across(d) /\ Across(d)' \subseteq Across(d)
                    /\ Precede(Arrived(d)', Across(d)')
  /\ op \in {"send", "pull"} => Rising(ring[<<"cross", 0, d>>])'

LEMMA TonesAreInt == \A q \in Seq(Int) : Tones(q) \subseteq Int
  BY DEF Tones

LEMMA CrossStep ==
  ASSUME Shape, Agenda, LastOK, NEW t \in Threads, Do(t), NEW op, NEW a, NEW d, Heading(t) = <<op, a, d>>,
         wiring = "bridge", NEW c \in Chans, c = d => Crossed(op, a, d), CrossAt(c)
  PROVE  CrossAt(c)'
<1>1. Popped(c)' <=> (Popped(c) \/ (op = "pop" /\ a = 0 /\ c = d)) /\ ~(op = "send" /\ c = d)
  BY MarksDo
<1>2. /\ ~(op = "pull" /\ c = d) => Arrived(c)' = Arrived(c)
      /\ ~(op \in {"pull", "send"} /\ c = d) => ring'[<<"cross", 0, c>>] = ring[<<"cross", 0, c>>]
      /\ ~(op = "pop" /\ a = 0 /\ c = d) => Nearer(c)' = Nearer(c) /\ heard'[<<"master", c>>] = heard[<<"master", c>>]
  BY DoKeeps
<1>3. Clamped("master")' = Clamped("master")
  BY DoKeeps
<1>4. Rising(ring[<<"cross", 0, c>>])'
  <2>1. CASE op \in {"send", "pull"} /\ c = d
    BY <2>1 DEF Crossed
  <2>2. CASE ~(op \in {"send", "pull"} /\ c = d)
    BY <1>2, <2>2 DEF CrossAt, Rising
  <2> QED BY <2>1, <2>2
<1>5. Popped(c)' => Rising(heard[<<"master", c>>])' /\ Len(heard[<<"master", c>>])' = Clamped("master")'
  <2>1. CASE op = "pop" /\ a = 0 /\ c = d
    BY <1>3, <2>1 DEF Crossed
  <2>2. CASE ~(op = "pop" /\ a = 0 /\ c = d)
    BY <1>1, <1>2, <1>3, <2>2 DEF CrossAt, Rising
  <2> QED BY <2>1, <2>2
<1>6. ~(op \in {"pull", "send"} /\ c = d) => Across(c)' = Across(c)
  BY <1>2 DEF Across, Tones
<1>7. ~(op = "pop" /\ a = 0 /\ c = d) => Scratch(c)' \subseteq Scratch(c)
  BY <1>1, <1>2 DEF Scratch, Tones
<1>8. op = "send" /\ c = d => Scratch(c)' = {}
  BY <1>1 DEF Scratch
<1>9. PICK g : g = Crossing(c)'
  OBVIOUS
<1>10. PICK f : f = Crossing(c)
  OBVIOUS
<1>11. /\ g[1] = Arrived(c)' /\ g[2] = Across(c)' /\ g[3] = Scratch(c)' /\ g[4] = Nearer(c)'
       /\ \A k \in Stages : k > 4 => g[k] = {}
  BY <1>9, CrossingWillBe
<1>12. /\ f[1] = Arrived(c) /\ f[2] = Across(c) /\ f[3] = Scratch(c) /\ f[4] = Nearer(c)
       /\ \A k \in Stages : k > 4 => f[k] = {}
  BY <1>10, CrossingIs
<1>13. InOrder(f)
  BY <1>10 DEF CrossAt
<1>14. \A k \in Stages : k \in {1, 2, 3, 4} \/ k > 4
  BY DEF Stages
<1>15. InOrder(g)
  <2>1. CASE op = "send" /\ c = d
    <3>0. g[3] = {}
      BY <1>8, <1>11, <2>1
    <3>1. g[2] \subseteq f[2] \union f[3] /\ \A k \in Stages : k < 2 \/ k > 3 => g[k] \subseteq f[k]
      BY <1>2, <1>11, <1>12, <1>14, <2>1 DEF Crossed
    <3>2. Precede(g[2], g[3]) /\ g[3] \subseteq f[3]
      BY <3>0 DEF Precede
    <3>3. 2 \in Stages /\ 3 \in Stages /\ \A k \in Stages : ~(2 < k /\ k < 3)
      BY DEF Stages
    <3> QED BY ONLY <1>13, <3>1, <3>2, <3>3, ChainMoves
  <2>2. CASE op = "pull" /\ c = d
    <3>1. g[1] \subseteq f[1] \union f[2] /\ g[2] \subseteq f[2] /\ Precede(g[1], g[2])
          /\ \A k \in Stages : k < 1 \/ k > 2 => g[k] \subseteq f[k]
      BY <1>2, <1>7, <1>11, <1>12, <1>14, <2>2 DEF Crossed
    <3>2. 1 \in Stages /\ 2 \in Stages /\ \A k \in Stages : ~(1 < k /\ k < 2)
      BY DEF Stages
    <3> QED BY <1>13, <3>1, <3>2, ChainMoves
  <2>3. CASE op = "pop" /\ a = 0 /\ c = d
    <3> DEFINE v == hist.last[<<"master", c>>] + 1
               w == hist'.last[<<"master", c>>] + 1
               T == Tones(heard[<<"master", c>>])'
    <3>1. <<"master", c>> \in Threads \X Chans /\ <<"deviceB", c>> \in Threads \X Chans
      BY DEF Threads
    <3>2. LastOK'
      <4>1. Placed(t, op, a, d) /\ op \in OpNames
        BY MarksDo
      <4> QED BY <4>1, DoData
    <3>3. v \in Int /\ w \in Int /\ hist.last[<<"master", c>>] \in Int /\ hist'.last[<<"master", c>>] \in Int
      BY <3>1, <3>2 DEF LastOK
    <3>4. \A k \in Stages : \A x \in f[k] : x \in Int
      <4>1. ring[<<"cross", 0, c>>] \in Seq(Int) /\ heard[<<"master", c>>] \in Seq(Int)
        <5>1. <<"cross", 0, c>> \in Rings
          BY RingNames DEF Streams
        <5> QED BY <3>1, <5>1, IntData DEF Data, RingsAre
      <4>2. Across(c) \subseteq Int /\ Scratch(c) \subseteq Int
        BY <4>1, TonesAreInt DEF Across, Scratch
      <4>3. Arrived(c) \subseteq Int /\ Nearer(c) \subseteq Int
        BY <3>1, <3>3 DEF Arrived, Nearer, LastOK
      <4> QED BY <1>12, <1>14, <4>2, <4>3
    <3>5. f[4] = {v} /\ g[4] = {w}
      BY <1>11, <1>12 DEF Nearer
    <3>6. v <= w
      <4>1. hist.last[<<"master", c>>] <= hist'.last[<<"master", c>>]
        BY <2>3 DEF Crossed
      <4> QED BY <3>3, <4>1
    <3>7. \A x \in g[3] : x \in Int /\ v <= x /\ x < w
      <4>1. heard'[<<"master", c>>] \in Seq(Int)
        <5>1. Shape'
          BY DoShape
        <5>2. Shape' => Data(Int)'
          BY IntData, PTL
        <5> QED BY <3>1, <5>1, <5>2 DEF Data
      <4>2. \A x \in T : x \in Int
        BY <4>1, TonesAreInt
      <4>3. g[3] \subseteq T
        BY <1>11 DEF Scratch
      <4>4. \A x \in T : hist.last[<<"master", c>>] < x /\ x <= hist'.last[<<"master", c>>]
        BY <2>3 DEF Crossed, Precede
      <4> HIDE DEF T
      <4> QED BY <3>3, <4>2, <4>3, <4>4
    <3>8. g[1] \subseteq f[1] /\ g[2] \subseteq f[2]
      BY <1>2, <1>6, <1>11, <1>12, <2>3
    <3> HIDE DEF v, w
    <3>9. \A k \in Stages : k < 4 - 1 => g[k] \subseteq f[k]
      <4>1. \A k \in Stages : k < 4 - 1 => k = 1 \/ k = 2
        BY DEF Stages
      <4> QED BY <3>8, <4>1
    <3>10. \A k \in Stages : k = 4 - 1 => \A x \in g[k] : x \in Int /\ v <= x /\ x < w
      BY ONLY <3>7
    <3>11. 4 \in Stages
      BY DEF Stages
    <3>12. \A k \in Stages : k > 4 => g[k] = {}
      BY <1>11
    <3>13. v \in Int /\ w \in Int
      BY <3>3 DEF v, w
    <3> QED BY ONLY <1>13, <3>13, <3>4, <3>5, <3>6, <3>9, <3>10, <3>11, <3>12, ChainGrows
  <2>4. CASE ~(c = d /\ (op \in {"send", "pull"} \/ (op = "pop" /\ a = 0)))
    <3>1. \A k \in Stages : g[k] \subseteq f[k]
      BY <1>2, <1>6, <1>7, <1>11, <1>12, <1>14, <2>4
    <3> QED BY <1>13, <3>1, ChainKeeps
  <2> QED BY <2>1, <2>2, <2>3, <2>4
<1>16. InOrder(Crossing(c))' <=> InOrder(Crossing(c)')
  BY DEF InOrder, Precede
<1> QED BY <1>4, <1>5, <1>9, <1>15, <1>16 DEF CrossAt

\* A ring keeps its frames in order.
LEMMA WriteTones ==
  ASSUME RingsAre(Int), NEW r \in Rings, NEW q \in Seq(Int), Write(r, q),
         Rising(ring[r]), Rising(q), Precede(Tones(ring[r]), Tones(q))
  PROVE  Rising(ring'[r]) /\ Tones(ring'[r]) \subseteq Tones(ring[r]) \union Tones(q)
<1> DEFINE n == Fitting(Len(ring[r]), Len(q))
           p == Prefix(q, n)
<1>1. ring[r] \in Seq(Int) /\ Len(ring[r]) \in Nat /\ Len(ring[r]) <= RingFrames /\ Len(q) \in Nat
  BY DEF RingsAre
<1>2. n \in Nat
  BY <1>1, FittingIs
<1>3. ring'[r] = ring[r] \o p
  BY WriteIs
<1> HIDE DEF n
<1>4. p \in Seq(Int) /\ Rising(p) /\ Tones(p) \subseteq Tones(q)
  BY <1>2, CutTones
<1> HIDE DEF p
<1>5. Precede(Tones(ring[r]), Tones(p))
  BY <1>4 DEF Precede
<1>6. Rising(ring[r] \o p) /\ Tones(ring[r] \o p) \subseteq Tones(ring[r]) \union Tones(p)
  BY <1>1, <1>4, <1>5, JoinTones
<1> QED BY <1>3, <1>4, <1>6

LEMMA ReadTones ==
  ASSUME RingsAre(Int), NEW r \in Rings, NEW n \in Nat, Read(r, n), Rising(ring[r]),
         NEW q, FromRing(q, r, n)
  PROVE  /\ Rising(q) /\ Rising(ring'[r])
         /\ Tones(q) \subseteq Tones(ring[r]) /\ Tones(ring'[r]) \subseteq Tones(ring[r])
         /\ Precede(Tones(q), Tones(ring'[r]))
<1>1. ring[r] \in Seq(Int) /\ Silence \in Int
  BY DEF RingsAre, Silence
<1>2. ring'[r] = Suffix(ring[r], n)
  BY ReadIs
<1>3. PICK m \in Nat : q = Prefix(ring[r], n) \o Silent(m)
  BY DEF FromRing
<1> QED BY <1>1, <1>2, <1>3, DrawnTones

\* Two stages of a way.
LEMMA FlowPairs ==
  ASSUME NEW o, NEW s, NEW c, InOrder(Flow(o, s, c))
  PROVE  /\ Precede(Known(o, c), Ready(o, c)) /\ Precede(Ready(o, c), Mixed(o, c))
         /\ Precede(Known(o, c), Mixed(o, c)) /\ Precede(Stored(s, c), Caught(s, c))
<1>1. /\ Flow(o, s, c)[1] = Known(o, c) /\ Flow(o, s, c)[2] = Ready(o, c) /\ Flow(o, s, c)[3] = Mixed(o, c)
      /\ Flow(o, s, c)[5] = Stored(s, c) /\ Flow(o, s, c)[6] = Caught(s, c)
  BY FlowIs
<1>2. 1 \in Stages /\ 2 \in Stages /\ 3 \in Stages /\ 5 \in Stages /\ 6 \in Stages /\ 1 < 2 /\ 2 < 3 /\ 1 < 3 /\ 5 < 6
  BY DEF Stages
<1> QED BY <1>1, <1>2 DEF InOrder

LEMMA PushPlace ==
  ASSUME Shape, Agenda, LastOK, NEW t \in Threads, Do(t), NEW a, NEW d, Heading(t) = <<Pushing, a, d>>,
         Precede(Stored(a, d), Caught(a, d)), RiseAt(a, d)
  PROVE  Stored(a, d)' \subseteq Stored(a, d) \union Caught(a, d) /\ Rising(ring[Store(a, d)])'
<1> DEFINE r == Store(a, d)
           q == Captured(t, a, d)
<1>1. Placed(t, Pushing, a, d) /\ Pushing \in OpNames /\ Waiting(a, d)
  BY MarksDo
<1>2. a \in Streams /\ d \in Chans /\ t = Source[a]
  BY <1>1 DEF Placed, Pushing
<1>3. Write(r, q)
  BY <1>1, DoData
<1>4. q \in Seq(Int) /\ Rising(q)
  BY <1>2, CapturedTones DEF Shape
<1>5. r \in Rings /\ RingsAre(Int)
  BY <1>2, RingNames, IntData DEF Store, Data
<1>6. Stored(a, d) = Tones(ring[r]) /\ Caught(a, d) = Tones(q) /\ Rising(ring[r])
  BY <1>1, <1>2 DEF Stored, Caught, RiseAt
<1>7. Store(a, d)' = r
  BY DoKeeps
<1> HIDE DEF r, q
<1>8. Rising(ring'[r]) /\ Tones(ring'[r]) \subseteq Tones(ring[r]) \union Tones(q)
  BY <1>3, <1>4, <1>5, <1>6, WriteTones
<1>9. ring[Store(a, d)]' = ring'[r]
  BY <1>7
<1>10. Stored(a, d)' = Tones(ring'[r])
  BY <1>2, <1>9 DEF Stored, Tones
<1>11. Rising(ring[Store(a, d)])'
  BY <1>8, <1>9 DEF Rising
<1> QED BY <1>6, <1>8, <1>10, <1>11

LEMMA TakePlace ==
  ASSUME Shape, Agenda, LastOK, NEW t \in Threads, Do(t), NEW a, NEW d, Heading(t) = <<Taking, a, d>>,
         RiseAt(a, d), d \notin hist'.short
  PROVE  /\ Staged(a, d)' \subseteq Stored(a, d) /\ Stored(a, d)' \subseteq Stored(a, d)
         /\ Precede(Staged(a, d)', Stored(a, d)')
         /\ Rising(ring[Store(a, d)])' /\ Rising(ThisBlock("in", a, d))'
<1> DEFINE r == Store(a, d)
           n == Clamped("master")
           b == buf[<<"in", a, d>>]
<1>1. Placed(t, Taking, a, d) /\ Taking \in OpNames
  BY MarksDo
<1>2. a \in Streams /\ d \in Chans /\ t = "master"
  BY <1>1 DEF Placed, Taking
<1>3. PICK k \in Nat, q \in Seq(Int) :
        /\ Read(r, k) /\ Len(q) = n /\ FromRing(q, r, k)
        /\ buf' = [buf EXCEPT ![<<"in", a, d>>] = q \o Suffix(b, n)]
  <2>1. TakesIn(t, a, d)
    BY <1>1, DoData
  <2> QED BY <1>2, <2>1 DEF TakesIn
<1>4. r \in Rings /\ RingsAre(Int) /\ buf \in [Bufs -> Seq(Int)] /\ <<"in", a, d>> \in Bufs
  BY <1>2, RingNames, IntData DEF Store, Data
<1>5. n \in Nat
  BY <1>2, ClampedIs DEF Shape, Calls
<1>6. Stored(a, d) = Tones(ring[r]) /\ Rising(ring[r])
  BY <1>2 DEF Stored, RiseAt
<1>7. Store(a, d)' = r /\ Clamped("master")' = n
  BY DoKeeps
<1>8. b \in Seq(Int)
  BY <1>4
<1> HIDE DEF r, n, b
<1>9. /\ q \in Seq(Int) /\ Len(q) = n
      /\ Rising(q) /\ Rising(ring'[r])
      /\ Tones(q) \subseteq Tones(ring[r]) /\ Tones(ring'[r]) \subseteq Tones(ring[r])
      /\ Precede(Tones(q), Tones(ring'[r]))
  BY <1>3, <1>4, <1>6, ReadTones
<1>10. ring[Store(a, d)]' = ring'[r]
  BY <1>7
<1>11. Stored(a, d)' = Tones(ring'[r])
  BY <1>2, <1>10 DEF Stored, Tones
<1>12. buf'[<<"in", a, d>>] = q \o Suffix(b, n)
  BY <1>3, <1>4
<1>13. ThisBlock("in", a, d)' = q
  <2>1. ThisBlock("in", a, d)' = Prefix(q \o Suffix(b, n), n)
    BY <1>7, <1>12 DEF ThisBlock
  <2> QED BY <1>8, <1>9, <2>1, FrontOfBuffer
<1>14. Staged(a, d)' \subseteq Tones(q)
  BY <1>13 DEF Staged, Tones
<1>15. Precede(Staged(a, d)', Stored(a, d)')
  BY <1>9, <1>11, <1>14 DEF Precede
<1>16. Rising(ring[Store(a, d)])' /\ Rising(ThisBlock("in", a, d))'
  BY <1>9, <1>10, <1>13 DEF Rising
<1> QED BY <1>6, <1>9, <1>11, <1>14, <1>15, <1>16

LEMMA FillPlace ==
  ASSUME Shape, Agenda, LastOK, NEW t \in Threads, Do(t), NEW a, NEW d, Heading(t) = <<"fill", a, d>>,
         Precede(Ready(a, d), Mixed(a, d)), RiseAt(a, d)
  PROVE  Ready(a, d)' \subseteq Ready(a, d) \union Mixed(a, d) /\ Rising(ring[<<"out", a, d>>])'
<1> DEFINE r == <<"out", a, d>>
           q == ThisBlock("out", a, d)
<1>1. Placed(t, "fill", a, d) /\ "fill" \in OpNames /\ ("fill" = Giving => Made(a, d))
  BY MarksDo
<1>2. a \in Streams /\ d \in Chans /\ t = "master" /\ Giving = "fill" /\ wiring # "live"
  BY <1>1 DEF Placed, Giving
<1>3. Write(r, q)
  <2>1. Write(r, Prefix(buf[r], Clamped(t)))
    BY <1>1, DoData
  <2> QED BY <1>2, <2>1 DEF ThisBlock
<1>4. r \in Rings /\ r \in Bufs /\ RingsAre(Int) /\ buf \in [Bufs -> Seq(Int)]
  BY <1>2, RingNames, IntData DEF Data
<1>5. q \in Seq(Int)
  <2>1. Clamped("master") \in Nat /\ buf[r] \in Seq(Int)
    BY <1>2, <1>4, ClampedIs DEF Shape, Calls
  <2> QED BY <2>1, FrontIs DEF ThisBlock
<1>6. Ready(a, d) = Tones(ring[r]) /\ Mixed(a, d) = Tones(q) /\ Rising(ring[r]) /\ Rising(q)
  BY <1>1, <1>2 DEF Ready, Mixed, RiseAt
<1> HIDE DEF q
<1>7. Rising(ring'[r]) /\ Tones(ring'[r]) \subseteq Tones(ring[r]) \union Tones(q)
  BY <1>3, <1>4, <1>5, <1>6, WriteTones
<1>8. Ready(a, d)' \subseteq Tones(ring'[r])
  BY DEF Ready, Tones
<1>9. Rising(ring[r])'
  BY <1>7 DEF Rising
<1> QED BY <1>6, <1>7, <1>8, <1>9

LEMMA PopPlace ==
  ASSUME Shape, Agenda, LastOK, NEW t \in Threads, Do(t), NEW a, NEW d, Heading(t) = <<"pop", a, d>>,
         Precede(Known(a, d), Ready(a, d)), RiseAt(a, d)
  PROVE  /\ Known(a, d)' \subseteq Known(a, d) \union Ready(a, d) /\ Ready(a, d)' \subseteq Ready(a, d)
         /\ Precede(Known(a, d)', Ready(a, d)')
         /\ Rising(ring[<<"out", a, d>>])' /\ hist'.disorder = hist.disorder
         /\ heard'[<<t, d>>] \in Seq(Int) /\ Rising(heard'[<<t, d>>]) /\ Len(heard'[<<t, d>>]) = Clamped(t)
         /\ Precede({hist.last[<<t, d>>]}, Tones(heard'[<<t, d>>]))
         /\ \A x \in {hist.last[<<t, d>>]} \union Tones(heard'[<<t, d>>]) : x <= hist'.last[<<t, d>>]
<1> DEFINE r == <<"out", a, d>>
           n == Clamped(t)
           q == Padded(r, n)
           v == hist.last[<<t, d>>]
           w == hist'.last[<<t, d>>]
<1>1. Placed(t, "pop", a, d) /\ "pop" \in OpNames
  BY MarksDo
<1>2. a \in Streams /\ d \in Chans /\ t = Listener(a) /\ wiring # "live"
  BY <1>1 DEF Placed
<1>3. Read(r, n) /\ \E met, short : Hear(t, d, q, met, short)
  BY <1>1, DoData
<1>4. r \in Rings /\ RingsAre(Int) /\ Data(Int)
  BY <1>2, RingNames, IntData DEF Data
<1>5. n \in Nat
  BY ClampedIs DEF Shape, Calls
<1>6. Known(a, d) = {v} /\ Ready(a, d) = Tones(ring[r]) /\ Rising(ring[r])
  BY <1>2 DEF Known, Ready, RiseAt
<1> HIDE DEF n
<1>7. /\ q \in Seq(Int) /\ Len(q) = n /\ Rising(q) /\ Rising(ring'[r])
      /\ Tones(q) \subseteq Tones(ring[r]) /\ Tones(ring'[r]) \subseteq Tones(ring[r])
      /\ Precede(Tones(q), Tones(ring'[r]))
  <2>1. FromRing(q, r, n)
    BY <1>4, <1>5, PaddedFromRing
  <2>2. q \in Seq(Int) /\ Len(q) = n
    BY <1>4, <1>5, PaddedIs DEF RingsAre, Silence
  <2> HIDE DEF q
  <2> QED BY <1>3, <1>4, <1>5, <1>6, <2>1, <2>2, ReadTones
<1> HIDE DEF q
<1>8. Precede({v}, Tones(q))
  BY <1>6, <1>7 DEF Precede
<1>9. PICK met, short : Hear(t, d, q, met, short)
  BY <1>3
<1>10. hist.last \in [Threads \X Chans -> Int]
  BY DEF LastOK
<1>11. w \in {v} \union Tones(q) /\ hist'.disorder = hist.disorder /\ \A x \in {v} \union Tones(q) : x <= w
  <2>1. t \in Threads /\ d \in Chans /\ q \in Seq(Int) /\ Data(Int)
    BY <1>2, <1>4, <1>7
  <2>2. Heeds(t, d, q)
    BY ONLY <1>9, <1>10, <2>1, HearTones
  <2> QED BY <1>7, <1>8, <2>2 DEF Heeds
<1>12. heard'[<<t, d>>] = q
  BY <1>2, <1>4, <1>9 DEF Hear, Data
<1>13. UNCHANGED wiring
  BY DoIs DEF Shape
<1>14. Known(a, d)' = {w}
  BY <1>2 DEF Known, Listener
<1>15. Ready(a, d)' = Tones(ring'[r])
  BY <1>2, <1>13 DEF Ready, Tones
<1> HIDE DEF v, w
<1>16. Precede({w}, Tones(ring'[r]))
  <2>1. Precede({v}, Tones(ring'[r]))
    BY <1>6, <1>7 DEF Precede
  <2> QED BY <1>7, <1>11, <2>1 DEF Precede
<1>17. Rising(ring[r])'
  BY <1>7 DEF Rising
<1>18. /\ Known(a, d)' \subseteq Known(a, d) \union Ready(a, d) /\ Ready(a, d)' \subseteq Ready(a, d)
       /\ Precede(Known(a, d)', Ready(a, d)')
  BY <1>6, <1>7, <1>11, <1>14, <1>15, <1>16
<1>19. /\ heard'[<<t, d>>] \in Seq(Int) /\ Rising(heard'[<<t, d>>]) /\ Len(heard'[<<t, d>>]) = n
       /\ Precede({v}, Tones(heard'[<<t, d>>]))
       /\ \A x \in {v} \union Tones(heard'[<<t, d>>]) : x <= w
  BY <1>7, <1>8, <1>11, <1>12
<1> QED BY <1>11, <1>17, <1>18, <1>19 DEF v, w, n

LEMMA EmitPlace ==
  ASSUME Shape, Agenda, LastOK, NEW t \in Threads, Do(t), NEW a, NEW d, Heading(t) = <<"emit", a, d>>,
         Precede(Known(a, d), Mixed(a, d)), RiseAt(a, d)
  PROVE  Known(a, d)' \subseteq Known(a, d) \union Mixed(a, d) /\ hist'.disorder = hist.disorder
<1> DEFINE q == ThisBlock("out", a, d)
           v == hist.last[<<t, d>>]
           w == hist'.last[<<t, d>>]
<1>1. Placed(t, "emit", a, d) /\ "emit" \in OpNames /\ ("emit" = Giving => Made(a, d))
  BY MarksDo
<1>2. a \in Streams /\ d \in Chans /\ t = "master" /\ a = 0 /\ Giving = "emit" /\ t = Listener(a)
  BY <1>1 DEF Placed, Giving, Listener
<1>3. \E met, short : Hear(t, d, q, met, short)
  <2>1. \E met, short : Hear(t, d, Prefix(buf[<<"out", a, d>>], Clamped(t)), met, short)
    BY <1>1, DoData
  <2> QED BY <1>2, <2>1 DEF ThisBlock
<1>4. Data(Int) /\ <<"out", a, d>> \in Bufs
  BY <1>2, RingNames, IntData
<1>5. q \in Seq(Int)
  <2>1. Clamped("master") \in Nat /\ buf[<<"out", a, d>>] \in Seq(Int)
    BY <1>2, <1>4, ClampedIs DEF Shape, Calls, Data
  <2> QED BY <2>1, FrontIs DEF ThisBlock
<1>6. Known(a, d) = {v} /\ Mixed(a, d) = Tones(q) /\ Rising(q)
  BY <1>1, <1>2 DEF Known, Mixed, RiseAt
<1> HIDE DEF q
<1>7. PICK met, short : Hear(t, d, q, met, short)
  BY <1>3
<1>8. hist.last \in [Threads \X Chans -> Int]
  BY DEF LastOK
<1>9. w \in {v} \union Tones(q) /\ hist'.disorder = hist.disorder
  <2>1. t \in Threads /\ d \in Chans /\ q \in Seq(Int) /\ Data(Int)
    BY <1>2, <1>4, <1>5
  <2>2. Heeds(t, d, q)
    BY ONLY <1>7, <1>8, <2>1, HearTones
  <2> QED BY <1>6, <2>2 DEF Heeds
<1>10. Known(a, d)' = {w}
  BY <1>2 DEF Known, Listener
<1> QED BY <1>6, <1>9, <1>10

\* The operation that is next finds its place in order.
LEMMA MovedIs ==
  ASSUME Shape, Agenda, LastOK, NEW t \in Threads, Do(t), NEW op, NEW a, NEW d, Heading(t) = <<op, a, d>>,
         InOrder(Flow(None, a, d)), InOrder(Flow(a, None, d)), RiseAt(a, d), d \notin hist'.short
  PROVE  Moved(op, a, d) /\ Straight(op, a, d) /\ (op # "pull" => hist'.disorder = hist.disorder)
<1>1. Placed(t, op, a, d) /\ op \in OpNames
  BY MarksDo
<1>2. Precede(Stored(a, d), Caught(a, d))
  BY FlowPairs
<1>3. Precede(Known(a, d), Ready(a, d)) /\ Precede(Ready(a, d), Mixed(a, d)) /\ Precede(Known(a, d), Mixed(a, d))
  BY FlowPairs
<1>4. op = Pushing => Stored(a, d)' \subseteq Stored(a, d) \union Caught(a, d) /\ Rising(ring[Store(a, d)])'
  BY <1>2, PushPlace
<1>5. op = Taking => /\ Staged(a, d)' \subseteq Stored(a, d) /\ Stored(a, d)' \subseteq Stored(a, d)
                     /\ Precede(Staged(a, d)', Stored(a, d)')
                     /\ Rising(ring[Store(a, d)])' /\ Rising(ThisBlock("in", a, d))'
  BY TakePlace
<1>6. op = "fill" => Ready(a, d)' \subseteq Ready(a, d) \union Mixed(a, d) /\ Rising(ring[<<"out", a, d>>])'
  BY <1>3, FillPlace
<1>7. op = "pop" => /\ Known(a, d)' \subseteq Known(a, d) \union Ready(a, d) /\ Ready(a, d)' \subseteq Ready(a, d)
                    /\ Precede(Known(a, d)', Ready(a, d)')
                    /\ Rising(ring[<<"out", a, d>>])' /\ hist'.disorder = hist.disorder
  <2> SUFFICES ASSUME op = "pop"
               PROVE  /\ Known(a, d)' \subseteq Known(a, d) \union Ready(a, d) /\ Ready(a, d)' \subseteq Ready(a, d)
                      /\ Precede(Known(a, d)', Ready(a, d)')
                      /\ Rising(ring[<<"out", a, d>>])' /\ hist'.disorder = hist.disorder
    OBVIOUS
  <2>1. Heading(t) = <<"pop", a, d>>
    OBVIOUS
  <2> QED BY <1>3, <2>1, PopPlace
<1>8. op = "emit" => Known(a, d)' \subseteq Known(a, d) \union Mixed(a, d) /\ hist'.disorder = hist.disorder
  <2> SUFFICES ASSUME op = "emit"
               PROVE  Known(a, d)' \subseteq Known(a, d) \union Mixed(a, d) /\ hist'.disorder = hist.disorder
    OBVIOUS
  <2>1. Heading(t) = <<"emit", a, d>>
    OBVIOUS
  <2> QED BY <1>3, <2>1, EmitPlace
<1>9. Moved(op, a, d)
  BY <1>4, <1>5, <1>6, <1>7, <1>8 DEF Moved
<1>10. Straight(op, a, d)
  BY <1>4, <1>5, <1>6, <1>7 DEF Straight
<1>11. op \notin {"pop", "pull", "emit"} => hist'.disorder = hist.disorder
  BY <1>1, DoData
<1> QED BY <1>7, <1>8, <1>9, <1>10, <1>11

LEMMA CrossPairs ==
  ASSUME NEW c, InOrder(Crossing(c))
  PROVE  Precede(Arrived(c), Across(c)) /\ Precede(Across(c), Scratch(c))
<1>1. Crossing(c)[1] = Arrived(c) /\ Crossing(c)[2] = Across(c) /\ Crossing(c)[3] = Scratch(c)
  BY CrossingIs
<1>2. 1 \in Stages /\ 2 \in Stages /\ 3 \in Stages /\ 1 < 2 /\ 2 < 3
  BY DEF Stages
<1> QED BY <1>1, <1>2 DEF InOrder

LEMMA PullPlace ==
  ASSUME Shape, Agenda, LastOK, NEW t \in Threads, Do(t), NEW a, NEW d, Heading(t) = <<"pull", a, d>>,
         CrossAt(d), d \notin hist'.short
  PROVE  /\ Arrived(d)' \subseteq Arrived(d) \union Across(d) /\ Across(d)' \subseteq Across(d)
         /\ Precede(Arrived(d)', Across(d)')
         /\ Rising(ring[<<"cross", 0, d>>])' /\ hist'.disorder = hist.disorder
<1> DEFINE r == <<"cross", 0, d>>
           v == hist.last[<<t, d>>]
           w == hist'.last[<<t, d>>]
<1>1. Placed(t, "pull", a, d) /\ "pull" \in OpNames
  BY MarksDo
<1>2. d \in Chans /\ t = "deviceB" /\ 0 \in Streams
  BY <1>1 DEF Placed, Streams
<1>p. PICK n \in Nat, q \in Seq(Int) :
        \E met, short : Read(r, n) /\ Hear(t, d, q, met, short) /\ FromRing(q, r, n)
  <2>1. Pulls(t, d)
    BY <1>1, DoData
  <2> QED BY <2>1 DEF Pulls
<1>3. PICK met, short : Read(r, n) /\ Hear(t, d, q, met, short) /\ FromRing(q, r, n)
  BY <1>p
<1>4. r \in Rings /\ RingsAre(Int) /\ Data(Int)
  BY <1>2, RingNames, IntData DEF Data
<1>6. Arrived(d) = {v} /\ Across(d) = Tones(ring[r]) /\ Rising(ring[r]) /\ Precede({v}, Tones(ring[r]))
  <2>1. Precede(Arrived(d), Across(d))
    BY CrossPairs DEF CrossAt
  <2> QED BY <1>2, <2>1 DEF Arrived, Across, CrossAt
<1>7. /\ Rising(q) /\ Rising(ring'[r])
      /\ Tones(q) \subseteq Tones(ring[r]) /\ Tones(ring'[r]) \subseteq Tones(ring[r])
      /\ Precede(Tones(q), Tones(ring'[r]))
  BY <1>3, <1>4, <1>6, ReadTones
<1>8. Precede({v}, Tones(q))
  BY <1>6, <1>7 DEF Precede
<1>10. hist.last \in [Threads \X Chans -> Int]
  BY DEF LastOK
<1>11. w \in {v} \union Tones(q) /\ hist'.disorder = hist.disorder
  <2>1. t \in Threads /\ d \in Chans /\ q \in Seq(Int) /\ Data(Int)
    BY <1>2, <1>3, <1>4
  <2>2. Heeds(t, d, q)
    BY ONLY <1>3, <1>10, <2>1, HearTones
  <2> QED BY <1>7, <1>8, <2>2 DEF Heeds
<1>12. Arrived(d)' = {w} /\ Across(d)' = Tones(ring'[r])
  BY <1>2 DEF Arrived, Across, Tones
<1> HIDE DEF v, w
<1>13. Precede({w}, Tones(ring'[r]))
  <2>1. Precede({v}, Tones(ring'[r]))
    BY <1>6, <1>7 DEF Precede
  <2> QED BY <1>7, <1>11, <2>1 DEF Precede
<1>14. Rising(ring[r])'
  BY <1>7 DEF Rising
<1> QED BY <1>6, <1>7, <1>11, <1>12, <1>13, <1>14

\* The bridge's scratch holds all of a block that is not too long for it.
LEMMA SendPlace ==
  ASSUME Shape, Agenda, LastOK, NEW t \in Threads, Do(t), NEW a, NEW d, Heading(t) = <<"send", a, d>>,
         CrossAt(d), frames["master"] <= MaxBlock
  PROVE  Across(d)' \subseteq Across(d) \union Scratch(d) /\ Rising(ring[<<"cross", 0, d>>])'
<1> DEFINE r == <<"cross", 0, d>>
           h == heard[<<"master", d>>]
           n == Min({frames["master"], RingFrames})
           p == Prefix(h, n)
           z == [i \in 1 .. n - Len(h) |-> Garbage]
<1>1. Placed(t, "send", a, d) /\ "send" \in OpNames /\ Popped(d)
  BY MarksDo
<1>2. d \in Chans /\ t = "master" /\ 0 \in Streams /\ "master" \in Threads
  BY <1>1 DEF Placed, Streams
<1>3. Write(r, p \o z)
  <2>1. Send(t, d)
    BY <1>1, DoData
  <2> QED BY <1>2, <2>1 DEF Send
<1>4. r \in Rings /\ RingsAre(Int) /\ h \in Seq(Int)
  BY <1>2, RingNames, IntData DEF Data
<1>5. Rising(h) /\ Len(h) = Clamped("master") /\ Across(d) = Tones(ring[r]) /\ Scratch(d) = Tones(h)
      /\ Rising(ring[r]) /\ Precede(Tones(ring[r]), Tones(h))
  <2>1. Precede(Across(d), Scratch(d))
    BY CrossPairs DEF CrossAt
  <2> QED BY <1>1, <2>1 DEF CrossAt, Across, Scratch
<1>6. n \in Nat /\ n <= frames["master"] /\ Clamped("master") = frames["master"] /\ frames["master"] \in Nat
  <2>1. PICK m : m = frames["master"]
    OBVIOUS
  <2>2. m \in Nat /\ m <= MaxBlock
    BY <1>2, <2>1 DEF Shape, Calls
  <2>3. n = Present(RingFrames, m) /\ Clamped("master") = Present(MaxBlock, m)
    BY <2>1 DEF Present, Clamped
  <2>4. Present(RingFrames, m) \in Nat /\ Present(RingFrames, m) <= m
    BY <2>2, StreamNumbers, PresentIs
  <2>5. Present(MaxBlock, m) = m
    <3>1. MaxBlock \in Nat
      BY StreamNumbers
    <3>2. /\ Present(MaxBlock, m) \in Nat /\ Present(MaxBlock, m) <= m
          /\ Present(MaxBlock, m) = m \/ Present(MaxBlock, m) = MaxBlock
      BY <2>2, <3>1, PresentIs
    <3> QED BY <2>2, <3>1, <3>2
  <2> HIDE DEF n
  <2> QED BY <2>1, <2>2, <2>3, <2>4, <2>5
<1>8. z = <<>>
  <2>1. n - Len(h) <= 0 /\ n - Len(h) \in Int
    <3> HIDE DEF n, h
    <3> QED BY <1>5, <1>6
  <2>2. PICK m : m = n - Len(h)
    OBVIOUS
  <2>3. 1 .. m = 1 .. 0
    BY <2>1, <2>2
  <2>4. [i \in 1 .. m |-> Garbage] = [i \in 1 .. 0 |-> Garbage]
    BY <2>3
  <2>5. [i \in 1 .. 0 |-> Garbage] = <<>>
    OBVIOUS
  <2> QED BY <2>2, <2>4, <2>5
<1> HIDE DEF n, h, z
<1>9. p \in Seq(Int) /\ Rising(p) /\ Tones(p) \subseteq Tones(h)
  BY <1>4, <1>5, <1>6, CutTones
<1> HIDE DEF p
<1>10. p \o z = p
  BY <1>8, <1>9
<1>11. Precede(Tones(ring[r]), Tones(p))
  BY <1>5, <1>9 DEF Precede
<1>12. Write(r, p)
  BY <1>3, <1>10
<1>13. Rising(ring'[r]) /\ Tones(ring'[r]) \subseteq Tones(ring[r]) \union Tones(p)
  BY <1>4, <1>5, <1>9, <1>11, <1>12, WriteTones
<1>14. Across(d)' = Tones(ring'[r])
  BY DEF Across, Tones
<1>15. Rising(ring[r])'
  BY <1>13 DEF Rising
<1> QED BY <1>5, <1>9, <1>13, <1>14, <1>15

LEMMA CrossedIs ==
  ASSUME Shape, Agenda, LastOK, NEW t \in Threads, Do(t), NEW op, NEW a, NEW d, Heading(t) = <<op, a, d>>,
         CrossAt(d), frames["master"] <= MaxBlock, InOrder(Flow(a, None, d)), RiseAt(a, d),
         d \notin hist'.short
  PROVE  Crossed(op, a, d) /\ (op = "pull" => hist'.disorder = hist.disorder)
<1>1. Placed(t, op, a, d) /\ op \in OpNames
  BY MarksDo
<1>2. op = "pull" => /\ Arrived(d)' \subseteq Arrived(d) \union Across(d) /\ Across(d)' \subseteq Across(d)
                     /\ Precede(Arrived(d)', Across(d)')
                     /\ Rising(ring[<<"cross", 0, d>>])' /\ hist'.disorder = hist.disorder
  <2> SUFFICES ASSUME op = "pull"
               PROVE  /\ Arrived(d)' \subseteq Arrived(d) \union Across(d) /\ Across(d)' \subseteq Across(d)
                      /\ Precede(Arrived(d)', Across(d)')
                      /\ Rising(ring[<<"cross", 0, d>>])' /\ hist'.disorder = hist.disorder
    OBVIOUS
  <2>1. Heading(t) = <<"pull", a, d>>
    OBVIOUS
  <2> QED BY <2>1, PullPlace
<1>3. op = "send" => Across(d)' \subseteq Across(d) \union Scratch(d) /\ Rising(ring[<<"cross", 0, d>>])'
  BY SendPlace
<1>4. op = "pop" /\ a = 0 =>
         /\ Rising(heard[<<"master", d>>])' /\ Len(heard[<<"master", d>>])' = Clamped("master")
         /\ Precede({hist.last[<<"master", d>>]}, Tones(heard[<<"master", d>>])')
         /\ \A x \in {hist.last[<<"master", d>>]} \union Tones(heard[<<"master", d>>])' : x <= hist'.last[<<"master", d>>]
  <2> SUFFICES ASSUME op = "pop", a = 0
               PROVE  /\ Rising(heard[<<"master", d>>])' /\ Len(heard[<<"master", d>>])' = Clamped("master")
                      /\ Precede({hist.last[<<"master", d>>]}, Tones(heard[<<"master", d>>])')
                      /\ \A x \in {hist.last[<<"master", d>>]} \union Tones(heard[<<"master", d>>])' :
                           x <= hist'.last[<<"master", d>>]
    OBVIOUS
  <2>1. Heading(t) = <<"pop", a, d>> /\ Precede(Known(a, d), Ready(a, d))
    BY FlowPairs
  <2>2. t = "master"
    BY <1>1 DEF Placed, Listener
  <2>3. /\ Rising(heard'[<<t, d>>]) /\ Len(heard'[<<t, d>>]) = Clamped(t)
        /\ Precede({hist.last[<<t, d>>]}, Tones(heard'[<<t, d>>]))
        /\ \A x \in {hist.last[<<t, d>>]} \union Tones(heard'[<<t, d>>]) : x <= hist'.last[<<t, d>>]
    BY <2>1, PopPlace
  <2>4. Tones(heard[<<"master", d>>])' = Tones(heard'[<<"master", d>>])
        /\ (Rising(heard[<<"master", d>>])' <=> Rising(heard'[<<"master", d>>]))
    BY DEF Tones, Rising
  <2> QED BY <2>2, <2>3, <2>4
<1> QED BY <1>2, <1>3, <1>4 DEF Crossed

\* The graph makes its outputs of the inputs the clock has taken.
LEMMA ExecPlace ==
  ASSUME Shape, Agenda, LastOK, NEW t \in Threads, Do(t), NEW a, NEW d, Heading(t) = <<"exec", a, d>>,
         NEW o \in Streams, NEW c \in Chans, route[o] # None
  PROVE  ThisBlock("out", o, c)' = ThisBlock("in", route[o], c) /\ route[o] \in Streams
<1> DEFINE n == Clamped("master")
           x == <<"out", o, c>>
           y == <<"in", route[o], c>>
           p == Prefix(buf[y], n)
<1>1. Placed(t, "exec", a, d) /\ "exec" \in OpNames
  BY MarksDo
<1>2. t = "master"
  BY <1>1 DEF Placed
<1>3. Exec(t)
  BY <1>1, DoData
<1>4. route[o] \in Streams
  BY DEF Shape, Calls
<1>5. x \in Bufs /\ y \in Bufs /\ buf \in [Bufs -> Seq(Int)] /\ \A r \in Bufs : Len(buf[r]) = MaxBlock
  BY <1>4, RingNames, IntData DEF Data
<1>6. n \in Nat /\ n <= MaxBlock /\ MaxBlock \in Nat
  BY <1>2, ClampedIs, StreamNumbers DEF Shape, Calls
<1>7. buf' = [r \in DOMAIN buf |->
                IF r[1] = "out" /\ route[r[2]] # None
                THEN Prefix(buf[<<"in", route[r[2]], r[3]>>], n) \o Suffix(buf[r], n)
                ELSE buf[r]]
  BY <1>2, <1>3 DEF Exec
<1>8. buf'[x] = p \o Suffix(buf[x], n)
  BY <1>5, <1>7
<1>9. n' = n
  BY DoKeeps
<1>10. ThisBlock("in", route[o], c) = p
  BY DEF ThisBlock
<1>11. ThisBlock("out", o, c)' = Prefix(p \o Suffix(buf[x], n), n)
  BY <1>8, <1>9 DEF ThisBlock
<1>12. buf[x] \in Seq(Int) /\ buf[y] \in Seq(Int) /\ Len(buf[y]) = MaxBlock
  BY <1>5
<1> HIDE DEF n, x, y
<1>13. p \in Seq(Int) /\ Len(p) = Present(MaxBlock, n)
  BY <1>6, <1>12, FrontIs DEF Present
<1>14. Len(p) = n
  <2>1. /\ Present(MaxBlock, n) \in Nat /\ Present(MaxBlock, n) <= n
        /\ Present(MaxBlock, n) = n \/ Present(MaxBlock, n) = MaxBlock
    BY <1>6, PresentIs
  <2> QED BY <1>6, <1>13, <2>1
<1> HIDE DEF p
<1>15. Prefix(p \o Suffix(buf[x], n), n) = p
  BY <1>12, <1>13, <1>14, FrontOfBuffer
<1> QED BY <1>4, <1>10, <1>11, <1>15

LEMMA ExecStep ==
  ASSUME Shape, Agenda, LastOK, NEW t \in Threads, Do(t), NEW a, NEW d, Heading(t) = <<"exec", a, d>>,
         \A o \in Streams : route[o] # None, NEW c \in Chans,
         \A o \in Ends, s \in Ends : Joined(o, s) => InOrder(Flow(o, s, c)),
         NEW o \in Ends, NEW s \in Ends, Joined(o, s)
  PROVE  InOrder(Flow(o, s, c))'
<1>1. Placed(t, "exec", a, d)
  BY MarksDo
<1>2. \A e \in Streams : ~TakenIn(e, c)' /\ TakenIn(e, c) /\ (Waiting(e, c)' <=> Waiting(e, c))
  <2>1. "exec" # Pushing
    BY DEF Pushing
  <2> QED BY <2>1, MarksDo
<1>3. /\ \A e \in Streams : /\ Source[e]' = Source[e]
                            /\ Captured(Source[e], e, c)' = Captured(Source[e], e, c)
      /\ \A e : Coming(e)' = Coming(e)
      /\ \A e : Store(e, c)' = Store(e, c)
  BY DoKeeps
<1>4. "exec" \notin {"pop", "emit", "fill", Pushing, Taking}
  BY DEF Pushing, Taking
<1>5. \A e \in Streams : /\ Known(e, c)' = Known(e, c)
                         /\ ring'[<<"out", e, c>>] = ring[<<"out", e, c>>]
                         /\ ring'[Store(e, c)] = ring[Store(e, c)]
  BY <1>4, DoKeeps
<1>6. UNCHANGED wiring
  BY DoIs DEF Shape
<1>7. Known(o, c)' = Known(o, c) /\ Ready(o, c)' = Ready(o, c)
  <2>1. CASE o \in Streams
    BY <1>5, <1>6, <2>1 DEF Ready, Tones
  <2>2. CASE o \notin Streams
    BY <2>2 DEF Known, Ready
  <2> QED BY <2>1, <2>2
<1>8. Staged(s, c)' = {} /\ Stored(s, c)' = Stored(s, c) /\ Caught(s, c)' = Caught(s, c) /\ Coming(s)' = Coming(s)
  <2>1. CASE s \in Streams
    <3>1. ring[Store(s, c)]' = ring[Store(s, c)]
      BY <1>3, <1>5, <2>1
    <3>2. Stored(s, c)' = Stored(s, c)
      BY <3>1 DEF Stored, Tones
    <3>3. Tones(Captured(Source[s], s, c))' = Tones(Captured(Source[s], s, c))
      BY <1>3, <2>1 DEF Tones
    <3>4. Caught(s, c)' = Caught(s, c)
      <4>1. Waiting(s, c)' <=> Waiting(s, c)
        BY <1>2, <2>1
      <4> QED BY <3>3, <4>1 DEF Caught
    <3> QED BY <1>2, <1>3, <2>1, <3>2, <3>4 DEF Staged
  <2>2. CASE s \notin Streams
    BY <2>2 DEF Staged, Stored, Caught, Coming
  <2> QED BY <2>1, <2>2
<1>9. PICK g : g = Flow(o, s, c)'
  OBVIOUS
<1>10. /\ g[1] = Known(o, c)' /\ g[2] = Ready(o, c)' /\ g[3] = Mixed(o, c)'
       /\ g[4] = Staged(s, c)' /\ g[5] = Stored(s, c)' /\ g[6] = Caught(s, c)'
       /\ g[7] = Coming(s)'
  BY <1>9, FlowWillBe
<1>11. \A k \in Stages : k \in {1, 2, 3, 4, 5, 6, 7}
  BY DEF Stages
<1>12. InOrder(g)
  <2>1. CASE o \in Streams
    <3>1. PICK e : e = route[o]
      OBVIOUS
    <3>2. e \in Streams /\ e # None
      BY <2>1, <3>1 DEF Shape, Calls
    <3>3. PICK f : f = Flow(o, e, c)
      OBVIOUS
    <3>4. InOrder(f)
      <4>1. Joined(o, e) /\ e \in Ends
        BY <3>1, <3>2 DEF Joined, Ends
      <4> QED BY <3>3, <4>1
    <3>5. /\ f[1] = Known(o, c) /\ f[2] = Ready(o, c) /\ f[3] = Mixed(o, c)
          /\ f[4] = Staged(e, c) /\ f[5] = Stored(e, c) /\ f[6] = Caught(e, c)
          /\ f[7] = Coming(e)
      BY <3>3, FlowIs
    <3>6. s = e \/ s = None
      BY <2>1, <3>1 DEF Joined, None, Streams
    <3>7. g[5] \subseteq f[5] /\ g[6] \subseteq f[6] /\ g[7] \subseteq f[7]
      <4>1. CASE s = e
        BY <1>8, <1>10, <3>5, <4>1
      <4>2. CASE s = None
        <5>1. None \notin Streams
          BY DEF None, Streams
        <5>2. g[5] = {} /\ g[6] = {} /\ g[7] = {}
          BY <1>8, <1>10, <4>2, <5>1 DEF Stored, Caught, Coming
        <5> QED BY <5>2
      <4> QED BY <3>6, <4>1, <4>2
    <3>8. g[3] \subseteq f[4]
      <4>1. ThisBlock("out", o, c)' = ThisBlock("in", e, c)
        BY <2>1, <3>1, ExecPlace
      <4>2. Mixed(o, c)' \subseteq Tones(ThisBlock("in", e, c))
        BY <4>1 DEF Mixed, Tones
      <4>3. Staged(e, c) = Tones(ThisBlock("in", e, c))
        BY <1>2, <3>2 DEF Staged
      <4> QED BY <1>10, <3>5, <4>2, <4>3
    <3>9. g[4] = {}
      BY <1>8, <1>10
    <3>10. Precede(g[3], g[4]) /\ g[4] \subseteq f[4] /\ g[3] \subseteq f[3] \union f[4]
      BY <3>8, <3>9 DEF Precede
    <3>11. g[1] \subseteq f[1] /\ g[2] \subseteq f[2]
      BY <1>7, <1>10, <3>5
    <3>12. \A k \in Stages : k < 3 \/ k > 4 => g[k] \subseteq f[k]
      BY <1>11, <3>7, <3>11
    <3>13. 3 \in Stages /\ 4 \in Stages /\ 3 < 4 /\ \A k \in Stages : ~(3 < k /\ k < 4)
      BY DEF Stages
    <3> QED BY ONLY <3>4, <3>10, <3>12, <3>13, ChainMoves
  <2>2. CASE o \notin Streams
    <3>1. PICK f : f = Flow(o, s, c)
      OBVIOUS
    <3>2. InOrder(f)
      BY <3>1
    <3>3. /\ f[1] = Known(o, c) /\ f[2] = Ready(o, c) /\ f[3] = Mixed(o, c)
          /\ f[4] = Staged(s, c) /\ f[5] = Stored(s, c) /\ f[6] = Caught(s, c)
          /\ f[7] = Coming(s)
      BY <3>1, FlowIs
    <3>4. g[3] = {}
      BY <1>10, <2>2 DEF Mixed
    <3>5. \A k \in Stages : g[k] \subseteq f[k]
      <4>1. g[1] \subseteq f[1] /\ g[2] \subseteq f[2] /\ g[3] \subseteq f[3] /\ g[4] \subseteq f[4]
        BY <1>7, <1>8, <1>10, <3>3, <3>4
      <4>2. g[5] \subseteq f[5] /\ g[6] \subseteq f[6] /\ g[7] \subseteq f[7]
        BY <1>8, <1>10, <3>3
      <4> QED BY <1>11, <4>1, <4>2
    <3> QED BY ONLY <3>2, <3>5, ChainKeeps
  <2> QED BY <2>1, <2>2
<1>13. InOrder(Flow(o, s, c))' <=> InOrder(Flow(o, s, c)')
  BY DEF InOrder, Precede
<1> QED BY <1>9, <1>12, <1>13

LEMMA ExecRise ==
  ASSUME Shape, Agenda, LastOK, NEW t \in Threads, Do(t), NEW a, NEW d, Heading(t) = <<"exec", a, d>>,
         \A o \in Streams : route[o] # None, NEW c \in Chans, \A s \in Streams : RiseAt(s, c),
         NEW s \in Streams
  PROVE  RiseAt(s, c)'
<1>1. \A e \in Streams : ~TakenIn(e, c)' /\ TakenIn(e, c)
  BY MarksDo
<1>2. \A e : Store(e, c)' = Store(e, c)
  BY DoKeeps
<1>3. "exec" \notin {"pop", "emit", "fill", Pushing, Taking}
  BY DEF Pushing, Taking
<1>4. ring'[<<"out", s, c>>] = ring[<<"out", s, c>>] /\ ring'[Store(s, c)] = ring[Store(s, c)]
  BY <1>3, DoKeeps
<1>5. ring[Store(s, c)]' = ring[Store(s, c)]
  BY <1>2, <1>4
<1>6. Rising(ring[<<"out", s, c>>])' /\ Rising(ring[Store(s, c)])'
  BY <1>4, <1>5 DEF RiseAt, Rising
<1>7. Rising(ThisBlock("out", s, c))'
  <2>1. PICK e : e = route[s]
    OBVIOUS
  <2>2. ThisBlock("out", s, c)' = ThisBlock("in", e, c) /\ e \in Streams
    BY <2>1, ExecPlace
  <2>3. Rising(ThisBlock("in", e, c))
    BY <1>1, <2>2 DEF RiseAt
  <2> QED BY <2>2, <2>3 DEF Rising
<1> QED BY <1>1, <1>6, <1>7 DEF RiseAt

LEMMA FlowOfInt ==
  ASSUME Shape, LastOK, NEW o \in Ends, NEW s \in Ends, NEW c \in Chans
  PROVE  \A k \in Stages : \A x \in Flow(o, s, c)[k] : x \in Int
<1>1. /\ RingsAre(Int) /\ buf \in [Bufs -> Seq(Int)] /\ frames \in [Threads -> Nat] /\ sent \in [Streams -> Nat]
  BY IntData DEF Data, Shape, Calls
<1>2. "master" \in Threads /\ Clamped("master") \in Nat
  BY ClampedIs DEF Shape, Calls, Threads
<1>3. ASSUME NEW e \in Streams, NEW side \in {"in", "out"} PROVE ThisBlock(side, e, c) \in Seq(Int)
  <2>1. buf[<<side, e, c>>] \in Seq(Int)
    BY <1>1, RingNames
  <2> QED BY <1>2, <2>1, FrontIs DEF ThisBlock
<1>4. ASSUME NEW e \in Streams
      PROVE  ring[<<"out", e, c>>] \in Seq(Int) /\ ring[Store(e, c)] \in Seq(Int)
  BY <1>1, RingNames DEF RingsAre, Store
<1>5. Known(o, c) \subseteq Int
  <2>1. ASSUME o \in Streams PROVE <<Listener(o), c>> \in Threads \X Chans
    BY DEF Listener, Threads
  <2> QED BY <2>1 DEF Known, LastOK
<1>6. Ready(o, c) \subseteq Int
  BY <1>4, TonesAreInt DEF Ready
<1>7. Mixed(o, c) \subseteq Int
  BY <1>3, TonesAreInt DEF Mixed
<1>8. Staged(s, c) \subseteq Int
  BY <1>3, TonesAreInt DEF Staged
<1>9. Stored(s, c) \subseteq Int
  BY <1>4, TonesAreInt DEF Stored
<1>10. Caught(s, c) \subseteq Int
  <2>1. ASSUME s \in Streams PROVE Captured(Source[s], s, c) \in Seq(Int)
    BY <2>1, CapturedTones DEF Shape
  <2> QED BY <2>1, TonesAreInt DEF Caught
<1>11. Coming(s) \subseteq Int
  BY <1>1 DEF Coming
<1>12. \A k \in Stages : k \in {1, 2, 3, 4, 5, 6, 7}
  BY DEF Stages
<1>13. PICK f : f = Flow(o, s, c)
  OBVIOUS
<1>14. /\ f[1] = Known(o, c) /\ f[2] = Ready(o, c) /\ f[3] = Mixed(o, c)
       /\ f[4] = Staged(s, c) /\ f[5] = Stored(s, c) /\ f[6] = Caught(s, c)
       /\ f[7] = Coming(s)
  BY <1>13, FlowIs
<1> QED BY <1>5, <1>6, <1>7, <1>8, <1>9, <1>10, <1>11, <1>12, <1>13, <1>14

\* Frames in order, wherever they are, as long as every stream has its sink, the
\* clock's blocks fit, and no pull found less of the channel than of the first.
Fine(c) == hist.unsunk = {} /\ ~hist.oversize /\ c \notin hist.short
Orderly(c) == \A t \in Threads : <<t, c>> \notin hist.disorder
Sorted(c) ==
  /\ Orderly(c) /\ frames["master"] <= MaxBlock
  /\ \A o \in Ends, s \in Ends : Joined(o, s) => InOrder(Flow(o, s, c))
  /\ \A s \in Streams : RiseAt(s, c)
  /\ wiring = "bridge" => CrossAt(c)
OrderInv == LastOK /\ 1 \notin hist.short /\ \A c \in Chans : Fine(c) => Sorted(c)

LEMMA DoOrder ==
  ASSUME Shape, Agenda, OrderInv, NEW t \in Threads, Do(t)
  PROVE  OrderInv'
<1>1. PICK op, a, d : Heading(t) = <<op, a, d>>
  BY DoIs, HeadingIs DEF Shape
<1>2. Placed(t, op, a, d) /\ op \in OpNames /\ a \in Streams /\ d \in Chans
  BY <1>1, MarksDo DEF OrderInv, Placed
<1>3. LastOK /\ LastOK' /\ hist'.oversize = hist.oversize /\ (op # "exec" => hist'.unsunk = hist.unsunk)
  <2>1. LastOK
    BY DEF OrderInv
  <2>2. LastOK' /\ hist'.oversize = hist.oversize
    BY <1>1, <1>2, <2>1, DoData
  <2>3. op # "exec" => hist'.unsunk = hist.unsunk
    <3>1. SameSinks(op)
      BY <1>1, <1>2, <2>1, DoData
    <3> QED BY <3>1 DEF SameSinks
  <2> QED BY <2>1, <2>2, <2>3
<1>4. op = "exec" => hist'.unsunk = hist.unsunk \union {s \in Streams : route[s] = None}
  <2> SUFFICES ASSUME op = "exec" PROVE hist'.unsunk = hist.unsunk \union {s \in Streams : route[s] = None}
    OBVIOUS
  <2>1. Exec(t)
    BY <1>1, <1>2, <1>3, DoData
  <2>2. PICK N : N = {s \in Streams : route[s] = None}
    OBVIOUS
  <2>3. hist' = [hist EXCEPT !.unsunk = @ \union N]
    BY <2>1, <2>2 DEF Exec
  <2>4. hist = [x \in Fields |-> hist[x]]
    BY DEF Shape, Data
  <2> QED BY <2>2, <2>3, <2>4 DEF Fields
<1>s. hist.short \subseteq hist'.short /\ 1 \notin hist'.short /\ ElseOrdered(t, d)
  <2>1. 1 \notin hist.short
    BY DEF OrderInv
  <2>2. hist.short \subseteq hist'.short /\ (1 \notin hist.short => 1 \notin hist'.short)
    BY <1>1, <1>2, <1>3, DoData
  <2>3. ElseOrdered(t, d)
    BY <1>1, <1>2, <1>3, DoData
  <2> QED BY <2>1, <2>2, <2>3
<1> SUFFICES ASSUME NEW c \in Chans, Fine(c)' PROVE Sorted(c)'
  BY <1>3, <1>s DEF OrderInv
<1>5. Fine(c) /\ Sorted(c) /\ c \notin hist'.short /\ (op = "exec" => \A s \in Streams : route[s] # None)
  BY <1>3, <1>4, <1>s DEF Fine, OrderInv
<1>6. frames' = frames /\ wiring' = wiring /\ \A o, s : Joined(o, s)' <=> Joined(o, s)
  BY <1>1, <1>3, DoKeeps, DoIs DEF Shape
<1>7. ASSUME c = d
      PROVE  InOrder(Flow(None, a, d)) /\ InOrder(Flow(a, None, d)) /\ RiseAt(a, d) /\ d \notin hist'.short
  BY <1>2, <1>5, <1>7 DEF Sorted, Joined, Ends
<1>8. ASSUME c = d
      PROVE  Moved(op, a, d) /\ Straight(op, a, d) /\ (op # "pull" => hist'.disorder = hist.disorder)
  <2>1. InOrder(Flow(None, a, d)) /\ InOrder(Flow(a, None, d)) /\ RiseAt(a, d) /\ d \notin hist'.short
    BY <1>7, <1>8
  <2> QED BY <1>1, <1>3, <2>1, MovedIs
<1>9. ASSUME wiring = "bridge", c = d
      PROVE  Crossed(op, a, d) /\ (op = "pull" => hist'.disorder = hist.disorder)
  <2>1. CrossAt(d) /\ frames["master"] <= MaxBlock
    BY <1>5, <1>9 DEF Sorted
  <2>2. InOrder(Flow(a, None, d)) /\ RiseAt(a, d) /\ d \notin hist'.short
    BY <1>7, <1>9
  <2> QED BY <1>1, <1>3, <2>1, <2>2, CrossedIs
<1>10. Orderly(c)'
  <2>1. op = "pull" => wiring = "bridge"
    BY <1>2 DEF Placed
  <2>2. c = d => hist'.disorder = hist.disorder
    BY <1>8, <1>9, <2>1
  <2>3. ASSUME c # d, NEW x \in Threads PROVE <<x, c>> \in hist'.disorder <=> <<x, c>> \in hist.disorder
    BY <1>s, <2>3 DEF ElseOrdered
  <2>4. Orderly(c)
    BY <1>5 DEF Sorted
  <2> QED BY <2>2, <2>3, <2>4 DEF Orderly
<1>11. ASSUME NEW o \in Ends, NEW s \in Ends, Joined(o, s) PROVE InOrder(Flow(o, s, c))'
  <2>1. InOrder(Flow(o, s, c)) /\ \A x \in Ends, y \in Ends : Joined(x, y) => InOrder(Flow(x, y, c))
    BY <1>5, <1>11 DEF Sorted
  <2>2. CASE op = "exec"
    <3>1. Heading(t) = <<"exec", a, d>>
      BY <1>1, <2>2
    <3> QED BY <1>3, <1>5, <1>11, <2>1, <2>2, <3>1, ExecStep
  <2>3. CASE op # "exec"
    BY <1>1, <1>3, <1>8, <2>1, <2>3, FlowStep
  <2> QED BY <2>2, <2>3
<1>12. ASSUME NEW s \in Streams PROVE RiseAt(s, c)'
  <2>1. RiseAt(s, c) /\ \A e \in Streams : RiseAt(e, c)
    BY <1>5 DEF Sorted
  <2>2. CASE op = "exec"
    <3>1. Heading(t) = <<"exec", a, d>>
      BY <1>1, <2>2
    <3> QED BY <1>3, <1>5, <2>1, <2>2, <3>1, ExecRise
  <2>3. CASE op # "exec"
    BY <1>1, <1>3, <1>8, <2>1, <2>3, RiseStep
  <2> QED BY <2>2, <2>3
<1>13. ASSUME wiring = "bridge" PROVE CrossAt(c)'
  <2>1. CrossAt(c)
    BY <1>5, <1>13 DEF Sorted
  <2> QED BY <1>1, <1>3, <1>9, <1>13, <2>1, CrossStep
<1> QED BY <1>5, <1>6, <1>10, <1>11, <1>12, <1>13 DEF Sorted

\* What a call that begins finds, and what it still has to do.
LEMMA BeginMarks ==
  ASSUME Shape, Agenda, NEW t \in Threads, NEW n \in Blocks[t], Begin(t, n)
  PROVE  /\ Source' = Source /\ (\A s, c : Store(s, c)' = Store(s, c))
         /\ \A s \in Streams, c \in Chans :
              /\ TakenIn(s, c)' => TakenIn(s, c) /\ t # "master"
              /\ Made(s, c)' => Made(s, c) /\ t # "master"
              /\ Source[s] = t => ~Waiting(s, c)
              /\ Source[s] # t => (Waiting(s, c)' <=> Waiting(s, c))
         /\ wiring = "bridge" => \A c \in Chans : Popped(c)' => Popped(c) /\ t # "master"
<1>1. /\ UNCHANGED <<wiring, device>> /\ wiring \in Wirings /\ device \in Devices
  BY BeginIs DEF Shape, Calls
<1>2. Left(t) = {} /\ Left(t)' = Plan(t) /\ \A x \in Threads : x # t => Left(x)' = Left(x)
  BY BeginLeft
<1>3. Source' = Source /\ Taking' = Taking /\ Giving' = Giving /\ Pushing' = Pushing
  <2>1. Source' = Source
    BY <1>1, SameWiring
  <2> QED BY <1>1, <2>1 DEF Taking, Giving, Pushing
<1>4. \A s, c : Store(s, c)' = Store(s, c)
  BY <1>1 DEF Store
<1>5. /\ Graph \in Plan("master")
      /\ \A s \in Streams, c \in Chans : <<Taking, s, c>> \in Plan("master")
      /\ wiring = "bridge" => \A c \in Chans : <<"pop", 0, c>> \in Plan("master")
  BY <1>1, PlanHas
<1>6. "master" \in Threads /\ \A s \in Streams : Source[s] \in Threads
  BY DEF Threads, Source
<1>7. ASSUME NEW s \in Streams, NEW c \in Chans
      PROVE  /\ TakenIn(s, c)' => TakenIn(s, c) /\ t # "master"
             /\ Made(s, c)' => Made(s, c) /\ t # "master"
  <2>1. CASE t = "master"
    BY <1>2, <1>3, <1>5, <2>1 DEF TakenIn, Made
  <2>2. CASE t # "master"
    BY <1>2, <1>3, <1>6, <2>2 DEF TakenIn, Made
  <2> QED BY <2>1, <2>2
<1>8. ASSUME NEW s \in Streams, NEW c \in Chans
      PROVE  /\ Source[s] = t => ~Waiting(s, c)
             /\ Source[s] # t => (Waiting(s, c)' <=> Waiting(s, c))
  <2>1. PICK x \in Threads : x = Source[s]
    BY <1>6
  <2>2. Left(Source[s]) = Left(x) /\ Left(Source[s])' = Left(x)'
    BY <1>3, <2>1 DEF Left
  <2> QED BY <1>2, <1>3, <2>1, <2>2 DEF Waiting
<1>9. ASSUME wiring = "bridge", NEW c \in Chans PROVE Popped(c)' => Popped(c) /\ t # "master"
  BY <1>2, <1>5, <1>6, <1>9 DEF Popped
<1> QED BY <1>3, <1>4, <1>7, <1>8, <1>9

\* A device captures frames later than all before.
CaughtLate ==
  \A s \in Streams, c \in Chans :
    \A y \in Tones(Captured(Source[s], s, c)) : y \in Int /\ sent[s] - frames[Source[s]] < y /\ y <= sent[s]

LEMMA CaughtIsLate == Calls => CaughtLate
  BY CapturedTones DEF CaughtLate

LEMMA BeginCaught ==
  ASSUME Shape, Agenda, NEW t \in Threads, NEW n \in Blocks[t], Begin(t, n), NEW s \in Streams, NEW c \in Chans
  PROVE  /\ Source[s] # t => Caught(s, c)' = Caught(s, c) /\ Coming(s)' = Coming(s)
         /\ Source[s] = t => /\ sent[s] <= sent'[s] /\ sent[s] \in Int /\ sent'[s] \in Int
                             /\ \A x \in Caught(s, c)' : x \in Int /\ sent[s] + 1 <= x /\ x < sent'[s] + 1
<1>1. /\ n \in Nat /\ frames' = [frames EXCEPT ![t] = n]
      /\ sent' = [x \in Streams |-> IF Source[x] = t THEN sent[x] + n ELSE sent[x]]
      /\ UNCHANGED <<wiring, device>>
  BY BeginIs DEF Shape
<1>2. frames \in [Threads -> Nat] /\ sent \in [Streams -> Nat] /\ Source[s] \in Threads
  BY DEF Shape, Calls, Source, Threads
<1>3. Source' = Source /\ (Source[s] # t => (Waiting(s, c)' <=> Waiting(s, c)))
  BY BeginMarks
<1>4. PICK x \in Threads : x = Source[s]
  BY <1>2
<1>5. ASSUME x # t PROVE Caught(s, c)' = Caught(s, c) /\ Coming(s)' = Coming(s)
  <2>1. frames'[x] = frames[x] /\ sent'[s] = sent[s]
    BY <1>1, <1>2, <1>4, <1>5
  <2>2. Captured(x, s, c)' = Captured(x, s, c)
    <3>1. Clamped(x)' = Clamped(x) /\ SourceChannels(s)' = SourceChannels(s)
      BY <1>1, <2>1 DEF Clamped, SourceChannels
    <3> QED BY <2>1, <3>1 DEF Captured
  <2>3. Captured(Source[s], s, c)' = Captured(x, s, c)' /\ Captured(Source[s], s, c) = Captured(x, s, c)
    BY <1>3, <1>4 DEF Captured, Clamped
  <2>4. Tones(Captured(Source[s], s, c))' = Tones(Captured(Source[s], s, c))
    BY <2>2, <2>3 DEF Tones
  <2> QED BY <1>3, <1>4, <1>5, <2>1, <2>4 DEF Caught, Coming
<1>6. ASSUME x = t
      PROVE  /\ sent[s] <= sent'[s] /\ sent[s] \in Int /\ sent'[s] \in Int
             /\ \A y \in Caught(s, c)' : y \in Int /\ sent[s] + 1 <= y /\ y < sent'[s] + 1
  <2>1. frames'[x] = n /\ sent'[s] = sent[s] + n /\ sent[s] \in Nat
    BY <1>1, <1>2, <1>4, <1>6
  <2>2. Calls'
    BY BeginShape DEF Shape
  <2>3. \A y \in Tones(Captured(x, s, c)') : y \in Int /\ sent'[s] - frames'[x] < y /\ y <= sent'[s]
    <3>1. \A y \in Tones(Captured(x, s, c))' : y \in Int /\ sent'[s] - frames'[x] < y /\ y <= sent'[s]
      <4>1. Calls' => CaughtLate'
        BY CaughtIsLate, PTL
      <4>2. \A y \in Tones(Captured(Source[s], s, c))' : y \in Int /\ sent'[s] - frames'[Source'[s]] < y /\ y <= sent'[s]
        BY <2>2, <4>1 DEF CaughtLate
      <4>3. Source'[s] = x /\ Tones(Captured(Source[s], s, c))' = Tones(Captured(x, s, c))'
        BY <1>3, <1>4 DEF Tones, Captured, Clamped
      <4> QED BY <4>2, <4>3
    <3>2. Tones(Captured(x, s, c))' = Tones(Captured(x, s, c)')
      BY DEF Tones
    <3> QED BY <3>1, <3>2
  <2>4. Caught(s, c)' \subseteq Tones(Captured(x, s, c)')
    <3>1. Captured(Source[s], s, c)' = Captured(x, s, c)'
      BY <1>3, <1>4 DEF Captured, Clamped
    <3> QED BY <3>1 DEF Caught, Tones
  <2>5. ASSUME NEW y \in Caught(s, c)' PROVE y \in Int /\ sent[s] + 1 <= y /\ y < sent'[s] + 1
    <3>1. y \in Int /\ sent'[s] - frames'[x] < y /\ y <= sent'[s]
      BY <2>3, <2>4
    <3> QED BY <1>1, <2>1, <3>1
  <2> QED BY <1>1, <2>1, <2>5
<1> QED BY <1>4, <1>5, <1>6

LEMMA BeginKeeps ==
  ASSUME Shape, NEW t \in Threads, NEW n \in Blocks[t], Begin(t, n)
  PROVE  /\ UNCHANGED <<wiring, device, ring, xruns, buf, staged, stage, heard, route>>
         /\ hist'.short = hist.short /\ hist'.last = hist.last /\ hist'.disorder = hist.disorder /\ hist'.unsunk = hist.unsunk
         /\ hist'.oversize <=> hist.oversize \/ (t = "master" /\ n > MaxBlock)
         /\ t = "master" => frames'["master"] = n
         /\ t # "master" => frames'["master"] = frames["master"] /\ Clamped("master")' = Clamped("master")
<1>1. UNCHANGED <<wiring, device, ring, xruns, buf, staged, stage, heard, route>> /\ frames' = [frames EXCEPT ![t] = n]
  BY BeginIs DEF Shape
<1>2. hist = [x \in Fields |-> hist[x]] /\ frames \in [Threads -> Nat] /\ "master" \in Threads
  BY DEF Shape, Data, Calls, Threads
<1>3. hist' = [hist EXCEPT !.oversize = @ \/ (t = "master" /\ n > MaxBlock)]
  BY DEF Begin
<1>4. /\ hist'.short = hist.short /\ hist'.last = hist.last /\ hist'.disorder = hist.disorder /\ hist'.unsunk = hist.unsunk
      /\ hist'.oversize = (hist.oversize \/ (t = "master" /\ n > MaxBlock))
  BY <1>2, <1>3 DEF Fields
<1>5. t = "master" => frames'["master"] = n
  BY <1>1, <1>2
<1>6. t # "master" => frames'["master"] = frames["master"]
  BY <1>1, <1>2
<1> QED BY <1>1, <1>4, <1>5, <1>6 DEF Clamped

LEMMA BeginFlow ==
  ASSUME Shape, Agenda, LastOK, NEW t \in Threads, NEW n \in Blocks[t], Begin(t, n),
         NEW o \in Ends, NEW s \in Ends, NEW c \in Chans, InOrder(Flow(o, s, c))
  PROVE  InOrder(Flow(o, s, c))'
<1>1. /\ UNCHANGED <<wiring, device, ring, xruns, buf, staged, stage, heard, route>> /\ hist'.last = hist.last
      /\ t # "master" => Clamped("master")' = Clamped("master")
  BY BeginKeeps
<1>2. \A e \in Streams : /\ TakenIn(e, c)' => TakenIn(e, c) /\ t # "master"
                         /\ Made(e, c)' => Made(e, c) /\ t # "master"
                         /\ Store(e, c)' = Store(e, c)
  BY BeginMarks
<1>3. \A side, e : t # "master" => ThisBlock(side, e, c)' = ThisBlock(side, e, c)
  BY <1>1 DEF ThisBlock
<1>4. Known(o, c)' = Known(o, c) /\ Ready(o, c)' = Ready(o, c)
  BY <1>1 DEF Known, Listener, Ready, Tones
<1>5. Mixed(o, c)' \subseteq Mixed(o, c)
  <2> SUFFICES ASSUME o \in Streams, Made(o, c)' PROVE Mixed(o, c)' \subseteq Mixed(o, c)
    BY DEF Mixed
  <2>1. Made(o, c) /\ ThisBlock("out", o, c)' = ThisBlock("out", o, c)
    BY <1>2, <1>3
  <2> QED BY <2>1 DEF Mixed, Tones
<1>6. Staged(s, c)' \subseteq Staged(s, c)
  <2> SUFFICES ASSUME s \in Streams, TakenIn(s, c)' PROVE Staged(s, c)' \subseteq Staged(s, c)
    BY DEF Staged
  <2>1. TakenIn(s, c) /\ ThisBlock("in", s, c)' = ThisBlock("in", s, c)
    BY <1>2, <1>3
  <2> QED BY <2>1 DEF Staged, Tones
<1>7. Stored(s, c)' = Stored(s, c)
  <2> SUFFICES ASSUME s \in Streams PROVE Stored(s, c)' = Stored(s, c)
    BY DEF Stored
  <2>1. ring[Store(s, c)]' = ring[Store(s, c)]
    BY <1>1, <1>2
  <2> QED BY <2>1 DEF Stored, Tones
<1>8. PICK g : g = Flow(o, s, c)'
  OBVIOUS
<1>9. PICK f : f = Flow(o, s, c)
  OBVIOUS
<1>10. /\ g[1] = Known(o, c)' /\ g[2] = Ready(o, c)' /\ g[3] = Mixed(o, c)'
       /\ g[4] = Staged(s, c)' /\ g[5] = Stored(s, c)' /\ g[6] = Caught(s, c)'
       /\ g[7] = Coming(s)'
  BY <1>8, FlowWillBe
<1>11. /\ f[1] = Known(o, c) /\ f[2] = Ready(o, c) /\ f[3] = Mixed(o, c)
       /\ f[4] = Staged(s, c) /\ f[5] = Stored(s, c) /\ f[6] = Caught(s, c)
       /\ f[7] = Coming(s)
  BY <1>9, FlowIs
<1>12. InOrder(f)
  BY <1>9
<1>13. g[1] \subseteq f[1] /\ g[2] \subseteq f[2] /\ g[3] \subseteq f[3] /\ g[4] \subseteq f[4] /\ g[5] \subseteq f[5]
  BY <1>4, <1>5, <1>6, <1>7, <1>10, <1>11
<1>14. \A k \in Stages : k \in {1, 2, 3, 4, 5, 6, 7}
  BY DEF Stages
<1>15. InOrder(g)
  <2>1. CASE s \in Streams /\ Source[s] = t
    <3>1. PICK v, w : v = sent[s] + 1 /\ w = sent'[s] + 1
      OBVIOUS
    <3>2. /\ sent[s] <= sent'[s] /\ sent[s] \in Int /\ sent'[s] \in Int
          /\ \A x \in Caught(s, c)' : x \in Int /\ sent[s] + 1 <= x /\ x < sent'[s] + 1
      BY <2>1, BeginCaught
    <3>3. v \in Int /\ w \in Int /\ v <= w
      BY <3>1, <3>2
    <3>4. f[7] = {v} /\ g[7] = {w}
      BY <1>10, <1>11, <2>1, <3>1 DEF Coming
    <3>5. \A k \in Stages : k = 7 - 1 => \A x \in g[k] : x \in Int /\ v <= x /\ x < w
      <4>1. \A x \in g[6] : x \in Int /\ v <= x /\ x < w
        BY <1>10, <3>1, <3>2
      <4> QED BY ONLY <4>1
    <3>6. \A k \in Stages : k < 7 - 1 => g[k] \subseteq f[k]
      <4>1. \A k \in Stages : k < 7 - 1 => k \in {1, 2, 3, 4, 5}
        BY DEF Stages
      <4> QED BY <1>13, <4>1
    <3>7. \A k \in Stages : k > 7 => g[k] = {}
      BY DEF Stages
    <3>8. \A k \in Stages : \A x \in f[k] : x \in Int
      BY <1>9, FlowOfInt
    <3>9. 7 \in Stages
      BY DEF Stages
    <3> QED BY ONLY <1>12, <3>3, <3>4, <3>5, <3>6, <3>7, <3>8, <3>9, ChainGrows
  <2>2. CASE ~(s \in Streams /\ Source[s] = t)
    <3>1. Caught(s, c)' = Caught(s, c) /\ Coming(s)' = Coming(s)
      <4>1. CASE s \in Streams
        BY <2>2, <4>1, BeginCaught
      <4>2. CASE s \notin Streams
        BY <4>2 DEF Caught, Coming
      <4> QED BY <4>1, <4>2
    <3>2. g[6] \subseteq f[6] /\ g[7] \subseteq f[7]
      BY <1>10, <1>11, <3>1
    <3>3. \A k \in Stages : g[k] \subseteq f[k]
      BY <1>13, <1>14, <3>2
    <3> QED BY ONLY <1>12, <3>3, ChainKeeps
  <2> QED BY <2>1, <2>2
<1>16. InOrder(Flow(o, s, c))' <=> InOrder(Flow(o, s, c)')
  BY DEF InOrder, Precede
<1> QED BY <1>8, <1>15, <1>16

LEMMA BeginOrder ==
  ASSUME Shape, Agenda, OrderInv, NEW t \in Threads, NEW n \in Blocks[t], Begin(t, n)
  PROVE  OrderInv'
<1>1. /\ UNCHANGED <<wiring, device, ring, xruns, buf, staged, stage, heard, route>>
      /\ hist'.short = hist.short /\ hist'.last = hist.last /\ hist'.disorder = hist.disorder /\ hist'.unsunk = hist.unsunk
      /\ hist'.oversize <=> hist.oversize \/ (t = "master" /\ n > MaxBlock)
      /\ t = "master" => frames'["master"] = n
      /\ t # "master" => frames'["master"] = frames["master"] /\ Clamped("master")' = Clamped("master")
  BY BeginKeeps
<1>2. LastOK /\ LastOK' /\ 1 \notin hist'.short
  BY <1>1 DEF OrderInv, LastOK
<1> SUFFICES ASSUME NEW c \in Chans, Fine(c)' PROVE Sorted(c)'
  BY <1>2 DEF OrderInv
<1>3. Sorted(c) /\ ~(t = "master" /\ n > MaxBlock)
  BY <1>1 DEF OrderInv, Fine
<1>4. n \in Nat /\ MaxBlock \in Nat
  BY BeginIs, StreamNumbers DEF Shape
<1>5. frames'["master"] <= MaxBlock
  BY <1>1, <1>3, <1>4 DEF Sorted
<1>6. ASSUME NEW o \in Ends, NEW s \in Ends, Joined(o, s)' PROVE InOrder(Flow(o, s, c))'
  <2>1. Joined(o, s)
    BY <1>1, <1>6 DEF Joined
  <2>2. InOrder(Flow(o, s, c))
    BY <1>3, <2>1 DEF Sorted
  <2> QED BY <1>2, <2>2, BeginFlow
<1>7. ASSUME NEW s \in Streams PROVE RiseAt(s, c)'
  <2>1. RiseAt(s, c)
    BY <1>3 DEF Sorted
  <2>2. /\ TakenIn(s, c)' => TakenIn(s, c) /\ t # "master"
        /\ Made(s, c)' => Made(s, c) /\ t # "master"
        /\ Store(s, c)' = Store(s, c)
    BY BeginMarks
  <2>3. ring[Store(s, c)]' = ring[Store(s, c)]
    BY <1>1, <2>2
  <2>4. \A side : t # "master" => ThisBlock(side, s, c)' = ThisBlock(side, s, c)
    BY <1>1 DEF ThisBlock
  <2>5. Rising(ring[<<"out", s, c>>])' /\ Rising(ring[Store(s, c)])'
    <3>1. Rising(ring[<<"out", s, c>>])'
      BY <1>1, <2>1 DEF RiseAt, Rising
    <3>2. Rising(ring[Store(s, c)])'
      BY <2>1, <2>3 DEF RiseAt, Rising
    <3> QED BY <3>1, <3>2
  <2>6. Made(s, c)' => Rising(ThisBlock("out", s, c))'
    BY <2>1, <2>2, <2>4 DEF RiseAt, Rising
  <2>7. TakenIn(s, c)' => Rising(ThisBlock("in", s, c))'
    BY <2>1, <2>2, <2>4 DEF RiseAt, Rising
  <2> QED BY <2>5, <2>6, <2>7 DEF RiseAt
<1>8. ASSUME wiring = "bridge" PROVE CrossAt(c)'
  <2>1. CrossAt(c)
    BY <1>3, <1>8 DEF Sorted
  <2>2. Popped(c)' => Popped(c) /\ t # "master"
    BY <1>8, BeginMarks
  <2>3. Rising(ring[<<"cross", 0, c>>])'
    BY <1>1, <2>1 DEF CrossAt, Rising
  <2>4. Popped(c)' => Rising(heard[<<"master", c>>])' /\ Len(heard[<<"master", c>>])' = Clamped("master")'
    BY <1>1, <2>1, <2>2 DEF CrossAt, Rising
  <2>5. Arrived(c)' = Arrived(c) /\ Nearer(c)' = Nearer(c)
    BY <1>1 DEF Arrived, Nearer
  <2>6. Across(c)' = Across(c) /\ Scratch(c)' \subseteq Scratch(c)
    BY <1>1, <2>2 DEF Across, Scratch, Tones
  <2>7. PICK g : g = Crossing(c)'
    OBVIOUS
  <2>8. PICK f : f = Crossing(c)
    OBVIOUS
  <2>9. /\ g[1] = Arrived(c)' /\ g[2] = Across(c)' /\ g[3] = Scratch(c)' /\ g[4] = Nearer(c)'
        /\ \A k \in Stages : k > 4 => g[k] = {}
    BY <2>7, CrossingWillBe
  <2>10. f[1] = Arrived(c) /\ f[2] = Across(c) /\ f[3] = Scratch(c) /\ f[4] = Nearer(c)
    BY <2>8, CrossingIs
  <2>11. \A k \in Stages : k \in {1, 2, 3, 4} \/ k > 4
    BY DEF Stages
  <2>12. \A k \in Stages : g[k] \subseteq f[k]
    BY <2>5, <2>6, <2>9, <2>10, <2>11
  <2>13. InOrder(f)
    BY <2>1, <2>8 DEF CrossAt
  <2>14. InOrder(g)
    BY ONLY <2>12, <2>13, ChainKeeps
  <2>15. InOrder(Crossing(c))' <=> InOrder(Crossing(c)')
    BY DEF InOrder, Precede
  <2> QED BY <2>3, <2>4, <2>7, <2>14, <2>15 DEF CrossAt
<1>9. Orderly(c)'
  BY <1>1, <1>3 DEF Sorted, Orderly
<1> QED BY <1>1, <1>5, <1>6, <1>7, <1>8, <1>9 DEF Sorted

\* A graph without a sink takes no frame out of order.
LEMMA RestOrder ==
  ASSUME OrderInv, UNCHANGED <<wiring, device, todo, frames, ring, buf, heard, sent, hist>>,
         \A o \in Streams : route'[o] \in {route[o], None}
  PROVE  OrderInv'
<1>1. \A x : Left(x)' = Left(x)
  BY DEF Left
<1>2. Source' = Source /\ Taking' = Taking /\ Giving' = Giving /\ Pushing' = Pushing
  BY DEF Source, Taking, Giving, Pushing
<1>3. \A s, c : /\ (TakenIn(s, c)' <=> TakenIn(s, c)) /\ (Made(s, c)' <=> Made(s, c))
                /\ (Popped(c)' <=> Popped(c)) /\ Store(s, c)' = Store(s, c)
  BY <1>1, <1>2 DEF TakenIn, Made, Popped, Store
<1>4. \A t : Clamped(t)' = Clamped(t)
  BY DEF Clamped
<1>5. \A side, s, c : ThisBlock(side, s, c)' = ThisBlock(side, s, c)
  BY <1>4 DEF ThisBlock
<1>6. ASSUME NEW s, NEW c
      PROVE  /\ Known(s, c)' = Known(s, c) /\ Ready(s, c)' = Ready(s, c)
             /\ Stored(s, c)' = Stored(s, c) /\ Coming(s)' = Coming(s)
  <2>1. Stored(s, c)' = Stored(s, c)
    <3>1. ring[Store(s, c)]' = ring[Store(s, c)]
      BY <1>3
    <3> QED BY <3>1 DEF Stored, Tones
  <2>2. Ready(s, c)' = Ready(s, c)
    BY DEF Ready, Tones
  <2>3. Known(s, c)' = Known(s, c) /\ Coming(s)' = Coming(s)
    BY DEF Known, Listener, Coming
  <2> QED BY <2>1, <2>2, <2>3
<1>7. \A s, c : Mixed(s, c)' = Mixed(s, c) /\ Staged(s, c)' = Staged(s, c)
  BY <1>3, <1>5 DEF Mixed, Staged, Tones
<1>8. ASSUME NEW s, NEW c PROVE Caught(s, c)' = Caught(s, c)
  <2>1. SourceChannels(s)' = SourceChannels(s)
    BY DEF SourceChannels
  <2>2. Captured(Source[s], s, c)' = Captured(Source[s], s, c)
    BY <1>2, <1>4, <2>1 DEF Captured
  <2>3. Waiting(s, c)' <=> Waiting(s, c)
    BY <1>1, <1>2 DEF Waiting
  <2> QED BY <2>2, <2>3 DEF Caught, Tones
<1>9. ASSUME NEW o, NEW s, NEW c PROVE InOrder(Flow(o, s, c))' <=> InOrder(Flow(o, s, c))
  <2>1. Flow(o, s, c)' = Flow(o, s, c)
    BY <1>6, <1>7, <1>8 DEF Flow
  <2> QED BY <2>1 DEF InOrder, Precede
<1>10. ASSUME NEW o \in Ends, NEW s \in Ends, Joined(o, s)' PROVE Joined(o, s)
  BY <1>10 DEF Joined, Ends
<1>11. ASSUME NEW s, NEW c, RiseAt(s, c) PROVE RiseAt(s, c)'
  BY <1>3, <1>5, <1>11 DEF RiseAt, Rising
<1>12. ASSUME NEW c, CrossAt(c) PROVE CrossAt(c)'
  <2>1. Arrived(c)' = Arrived(c) /\ Across(c)' = Across(c) /\ Scratch(c)' = Scratch(c) /\ Nearer(c)' = Nearer(c)
    BY <1>3 DEF Arrived, Across, Scratch, Nearer, Tones
  <2>2. Crossing(c)' = Crossing(c)
    BY <2>1 DEF Crossing
  <2>3. InOrder(Crossing(c))'
    BY <1>12, <2>2 DEF CrossAt, InOrder, Precede
  <2>4. Rising(ring[<<"cross", 0, c>>])'
    BY <1>12 DEF CrossAt, Rising
  <2>5. Popped(c)' => Rising(heard[<<"master", c>>])' /\ Len(heard[<<"master", c>>])' = Clamped("master")'
    BY <1>3, <1>4, <1>12 DEF CrossAt, Rising
  <2> QED BY <2>3, <2>4, <2>5 DEF CrossAt
<1>13. LastOK' /\ 1 \notin hist'.short /\ \A c : Fine(c)' <=> Fine(c)
  BY DEF OrderInv, LastOK, Fine
<1>14. ASSUME NEW c \in Chans, Sorted(c) PROVE Sorted(c)'
  <2>1. Orderly(c)' /\ frames'["master"] <= MaxBlock
    BY <1>14 DEF Sorted, Orderly
  <2>2. ASSUME NEW o \in Ends, NEW s \in Ends, Joined(o, s)' PROVE InOrder(Flow(o, s, c))'
    BY <1>9, <1>10, <1>14, <2>2 DEF Sorted
  <2>3. ASSUME NEW s \in Streams PROVE RiseAt(s, c)'
    BY <1>11, <1>14 DEF Sorted
  <2>4. ASSUME wiring = "bridge" PROVE CrossAt(c)'
    BY <1>12, <1>14, <2>4 DEF Sorted
  <2> QED BY <2>1, <2>2, <2>3, <2>4 DEF Sorted
<1> QED BY <1>13, <1>14 DEF OrderInv

LEMMA InitOrder == StreamInit => OrderInv
<1> SUFFICES ASSUME StreamInit PROVE OrderInv
  OBVIOUS
<1>1. /\ ring = [r \in Rings |-> <<>>] /\ hist.last = [k \in Threads \X Chans |-> 0]
      /\ hist.disorder = {} /\ hist.short = {} /\ frames = [t \in Threads |-> 0] /\ sent = [s \in Streams |-> 0]
  BY DEF StreamInit
<1>2. "master" \in Threads /\ MaxBlock \in Nat /\ \A s \in Streams : Source[s] \in Threads /\ Listener(s) \in Threads
  BY StreamNumbers DEF Threads, Source, Listener
<1>3. \A t \in Threads : Left(t) = {}
  <2>1. \A t \in Threads : todo[t] = <<>>
    BY DEF StreamInit
  <2>2. Items(<<>>) = {}
    BY GoesNothing DEF Goes
  <2> QED BY <2>1, <2>2 DEF Left
<1>4. \A s \in Streams : \A c : ~TakenIn(s, c) /\ ~Made(s, c) /\ ~Waiting(s, c) /\ ~Popped(c)
  BY <1>2, <1>3 DEF TakenIn, Made, Waiting, Popped
<1>5. Rising(<<>>) /\ Tones(<<>>) = {}
  <2>1. 1 .. Len(<<>>) = {}
    OBVIOUS
  <2> QED BY <2>1 DEF Rising, Tones
<1>6. \A s \in Streams, c \in Chans : /\ ring[<<"out", s, c>>] = <<>> /\ ring[Store(s, c)] = <<>>
                                     /\ ring[<<"cross", s, c>>] = <<>>
  BY <1>1, RingNames DEF Store
<1>7. LastOK
  BY <1>1 DEF LastOK
<1>8. ASSUME NEW o \in Ends, NEW s \in Ends, NEW c \in Chans PROVE InOrder(Flow(o, s, c))
  <2>1. Known(o, c) \subseteq {0}
    BY <1>1, <1>2 DEF Known
  <2>2. Coming(s) \subseteq {1}
    BY <1>1 DEF Coming
  <2>3. Ready(o, c) = {} /\ Mixed(o, c) = {} /\ Staged(s, c) = {} /\ Stored(s, c) = {} /\ Caught(s, c) = {}
    BY <1>4, <1>5, <1>6 DEF Ready, Mixed, Staged, Stored, Caught
  <2>4. PICK f : f = Flow(o, s, c)
    OBVIOUS
  <2>5. /\ f[1] \subseteq {0} /\ f[2] = {} /\ f[3] = {} /\ f[4] = {} /\ f[5] = {} /\ f[6] = {} /\ f[7] \subseteq {1}
    BY <2>1, <2>2, <2>3, <2>4, FlowIs
  <2>6. InOrder(f)
    BY <2>5 DEF InOrder, Precede, Stages
  <2> QED BY <2>4, <2>6
<1>9. ASSUME NEW c \in Chans PROVE CrossAt(c)
  <2>1. 0 \in Streams /\ <<"deviceB", c>> \in Threads \X Chans /\ <<"master", c>> \in Threads \X Chans
    BY DEF Streams, Threads
  <2>2. Arrived(c) = {0} /\ Across(c) = {} /\ Scratch(c) = {} /\ Nearer(c) = {1}
    <3>1. Arrived(c) = {0} /\ Nearer(c) = {0 + 1}
      BY <1>1, <2>1 DEF Arrived, Nearer
    <3>2. Across(c) = {}
      BY <1>5, <1>6, <2>1 DEF Across
    <3>3. Scratch(c) = {}
      BY <1>4, <2>1 DEF Scratch
    <3> QED BY <3>1, <3>2, <3>3
  <2>3. PICK f : f = Crossing(c)
    OBVIOUS
  <2>4. f[1] = {0} /\ f[2] = {} /\ f[3] = {} /\ f[4] = {1} /\ \A k \in Stages : k > 4 => f[k] = {}
    BY <2>2, <2>3, CrossingIs
  <2>5. InOrder(f)
    BY <2>4 DEF InOrder, Precede, Stages
  <2> QED BY <1>4, <1>5, <1>6, <2>1, <2>3, <2>5 DEF CrossAt
<1>10. ASSUME NEW s \in Streams, NEW c \in Chans PROVE RiseAt(s, c)
  BY <1>4, <1>5, <1>6 DEF RiseAt
<1>11. frames["master"] <= MaxBlock
  BY <1>1, <1>2
<1>12. \A c \in Chans : Orderly(c)
  BY <1>1 DEF Orderly
<1> QED BY <1>1, <1>7, <1>8, <1>9, <1>10, <1>11, <1>12 DEF OrderInv, Sorted

LEMMA AgendaStep ==
  ASSUME Shape, Agenda, [StreamNext]_streamVars
  PROVE  Agenda'
<1>1. ASSUME NEW t \in Threads, NEW n \in Blocks[t], Begin(t, n) PROVE Agenda'
  BY <1>1, BeginLeft
<1>2. ASSUME NEW t \in Threads, Do(t) PROVE Agenda'
  BY <1>2, DoLeft
<1>3. CASE Recompile
  <2>1. UNCHANGED <<wiring, device, todo>>
    BY <1>3 DEF Recompile
  <2> QED BY <2>1, RestLeft
<1>4. CASE UNCHANGED streamVars
  <2>1. UNCHANGED <<wiring, device, todo>>
    BY <1>4 DEF streamVars
  <2> QED BY <2>1, RestLeft
<1> QED BY <1>1, <1>2, <1>3, <1>4 DEF StreamNext

LEMMA OrderStep ==
  ASSUME Shape, Agenda, OrderInv, [StreamNext]_streamVars
  PROVE  OrderInv'
<1>1. ASSUME NEW t \in Threads, NEW n \in Blocks[t], Begin(t, n) PROVE OrderInv'
  BY <1>1, BeginOrder
<1>2. ASSUME NEW t \in Threads, Do(t) PROVE OrderInv'
  BY <1>2, DoOrder
<1>3. CASE Recompile
  <2>1. UNCHANGED <<wiring, device, todo, frames, ring, buf, heard, sent, hist>>
    BY <1>3 DEF Recompile
  <2>2. \A o \in Streams : route'[o] \in {route[o], None}
    BY <1>3 DEF Recompile, Shape, Calls
  <2> QED BY <2>1, <2>2, RestOrder
<1>4. CASE UNCHANGED streamVars
  <2>1. UNCHANGED <<wiring, device, todo, frames, ring, buf, heard, sent, hist, route>>
    BY <1>4 DEF streamVars
  <2> QED BY <2>1, RestOrder
<1> QED BY <1>1, <1>2, <1>3, <1>4 DEF StreamNext

-----------------------------------------------------------------------------
(* The adapter hears what it captures.                                     *)

LEMMA SameSequence ==
  ASSUME NEW S, NEW p \in Seq(S), NEW q \in Seq(S), Len(p) = Len(q), \A k \in 1 .. Len(p) : p[k] = q[k]
  PROVE  p = q
  OBVIOUS

LEMMA NoSequence ==
  ASSUME NEW S, NEW q \in Seq(S), Len(q) = 0
  PROVE  q = <<>>
  OBVIOUS

LEMMA WholeFront ==
  ASSUME NEW S, NEW q \in Seq(S), NEW n \in Nat, Len(q) <= n
  PROVE  Prefix(q, n) = q /\ Suffix(q, n) = <<>>
<1> DEFINE m == Min({n, Len(q)})
<1>1. Len(q) \in Nat
  OBVIOUS
<1>2. m = Len(q)
  <2>1. /\ Present(Len(q), n) \in Nat /\ Present(Len(q), n) <= n /\ Present(Len(q), n) <= Len(q)
        /\ Present(Len(q), n) = n \/ Present(Len(q), n) = Len(q)
    BY <1>1, PresentIs
  <2>2. m = Present(Len(q), n)
    BY DEF Present
  <2> HIDE DEF m
  <2> QED BY <1>1, <2>1, <2>2
<1>3. /\ Prefix(q, n) \in Seq(S) /\ Len(Prefix(q, n)) = m
      /\ \A k \in 1 .. Len(Prefix(q, n)) : Prefix(q, n)[k] = q[k]
  BY FrontIs
<1>4. Suffix(q, n) \in Seq(S) /\ Len(Suffix(q, n)) = Len(q) - m
  BY RestIs
<1> HIDE DEF m
<1>5. Prefix(q, n) = q
  BY <1>2, <1>3, SameSequence
<1>6. Len(Suffix(q, n)) = 0
  BY <1>1, <1>2, <1>4
<1> QED BY <1>4, <1>5, <1>6, NoSequence

\* A block goes through an empty ring whole.
LEMMA WriteEmpty ==
  ASSUME RingsAre(Int), NEW r \in Rings, NEW q \in Seq(Int), Write(r, q), ring[r] = <<>>, Len(q) <= RingFrames
  PROVE  ring'[r] = q
<1> DEFINE l == Len(ring[r])
           n == Fitting(l, Len(q))
<1>1. l = 0 /\ Len(q) \in Nat
  OBVIOUS
<1>2. RingFrames \in Nat
  BY StreamNumbers
<1>3. /\ n \in Nat /\ n <= Len(q)
      /\ n = Len(q) \/ l + n = RingFrames
  BY <1>1, <1>2, FittingIs
<1>4. ring'[r] = ring[r] \o Prefix(q, n)
  BY WriteIs
<1> HIDE DEF n, l
<1>5. n = Len(q)
  BY <1>1, <1>2, <1>3
<1>6. Prefix(q, n) = q
  BY <1>1, <1>5, WholeFront
<1> QED BY <1>4, <1>6

LEMMA ReadWhole ==
  ASSUME RingsAre(Int), NEW r \in Rings, NEW n \in Nat, Len(ring[r]) = n
  PROVE  Padded(r, n) = ring[r] /\ (Read(r, n) => ring'[r] = <<>>)
<1>1. ring[r] \in Seq(Int)
  BY DEF RingsAre
<1>2. Prefix(ring[r], n) = ring[r] /\ Suffix(ring[r], n) = <<>>
  BY <1>1, WholeFront
<1>3. Silent(n - n) = <<>>
  <2>1. n - n = 0 /\ 1 .. 0 = {}
    OBVIOUS
  <2> QED BY <2>1 DEF Silent
<1>4. Padded(r, n) = ring[r]
  <2>1. Padded(r, n) = ring[r] \o Silent(n - n)
    BY <1>2 DEF Padded
  <2>2. ring[r] \o <<>> = ring[r]
    BY <1>1
  <2> QED BY <1>3, <2>1, <2>2
<1> QED BY <1>2, <1>4, ReadIs

LEMMA ReadNothing ==
  ASSUME RingsAre(Int), NEW r \in Rings, NEW n \in Nat, ring[r] = <<>>
  PROVE  Padded(r, n) = Silent(n) /\ (Read(r, n) => ring'[r] = <<>>)
<1>1. <<>> \in Seq(Int) /\ Len(<<>>) <= n /\ Len(<<>>) = 0
  OBVIOUS
<1>2. Prefix(ring[r], n) = <<>> /\ Suffix(ring[r], n) = <<>>
  BY <1>1, WholeFront
<1>3. Silent(n) \in Seq(Int)
  BY SilenceIs DEF Silence
<1>4. Padded(r, n) = Silent(n)
  <2>1. n - 0 = n
    OBVIOUS
  <2> QED BY <1>1, <1>2, <1>3, <2>1 DEF Padded
<1> QED BY <1>2, <1>4, ReadIs

-----------------------------------------------------------------------------
\* What the clock device captured in this block, on its way back to it.
MyBlock(c) == Captured("master", 0, c)
Due(op, c) == <<op, 0, c>> \in Left("master")
OwnIn(c) ==
  ring[<<"in", 0, c>>] = IF device.in > 0 /\ ~Due("push", c) /\ Due("drain", c) THEN MyBlock(c) ELSE <<>>
OwnTaken(c) == TakenIn(0, c) => ThisBlock("in", 0, c) = MyBlock(c)
OwnMade(c) == Made(0, c) /\ route[0] = 0 => ThisBlock("out", 0, c) = MyBlock(c)
OwnOut(c) ==
  c <= device.out =>
    IF ~Due("fill", c) /\ Due("pop", c)
    THEN Len(ring[<<"out", 0, c>>]) = Clamped("master") /\ (route[0] = 0 => ring[<<"out", 0, c>>] = MyBlock(c))
    ELSE ring[<<"out", 0, c>>] = <<>>
OwnHeard(c) ==
  c <= device.out /\ ~Due("pop", c) /\ calls["master"] > 0 /\ route[0] = 0 => heard[<<"master", c>>] = MyBlock(c)
Own(c) == OwnIn(c) /\ OwnTaken(c) /\ OwnMade(c) /\ OwnOut(c) /\ OwnHeard(c)
OwnInv == wiring = "adapter" => \A c \in Chans : Own(c)

\* What an operation leaves alone in the adapter.
LEMMA AdapterMarks ==
  ASSUME Shape, Agenda, wiring = "adapter", NEW t \in Threads, Do(t), NEW op, NEW a, NEW d, Heading(t) = <<op, a, d>>,
         NEW c \in Chans
  PROVE  /\ Placed(t, op, a, d) /\ op \in {"push", "drain", "exec", "fill", "pop"}
         /\ a = 0 => t = "master"
         /\ \A o : Due(o, c)' <=> Due(o, c) /\ ~(o = op /\ a = 0 /\ c = d)
         /\ TakenIn(0, c)' <=> op # "exec" /\ (TakenIn(0, c) \/ (op = "drain" /\ a = 0 /\ c = d))
         /\ op # "exec" => (Made(0, c)' <=> Made(0, c) /\ ~(op = "fill" /\ a = 0 /\ c = d))
         /\ op = "exec" => TakenIn(0, c)
         /\ op = "fill" => Made(a, d)
<1>1. 0 \in Streams /\ "master" \in Threads /\ Pushing = "push" /\ Taking = "drain" /\ Giving = "fill"
  BY DEF Streams, Threads, Pushing, Taking, Giving
<1>2. Placed(t, op, a, d) /\ op \in OpNames
  BY MarksDo
<1>3. op \in {"push", "drain", "exec", "fill", "pop"}
  BY <1>1, <1>2 DEF Placed, OpNames
<1>4. a = 0 => t = "master"
  <2>1. Source[0] = "master" /\ Listener(0) = "master"
    BY <1>1 DEF Source, Listener
  <2> QED BY <1>2, <1>3, <2>1 DEF Placed
<1>5. ASSUME NEW o PROVE Due(o, c)' <=> Due(o, c) /\ ~(o = op /\ a = 0 /\ c = d)
  <2>1. Left(t)' = Left(t) \ {Heading(t)} /\ \A x \in Threads : x # t => Left(x)' = Left(x)
    BY DoLeft
  <2>2. Heading(t) = <<o, 0, c>> <=> o = op /\ a = 0 /\ c = d
    OBVIOUS
  <2>3. CASE t = "master"
    BY <2>1, <2>2, <2>3 DEF Due
  <2>4. CASE t # "master"
    BY <1>1, <1>4, <2>1, <2>4 DEF Due
  <2> QED BY <2>3, <2>4
<1>6. TakenIn(0, c)' <=> op # "exec" /\ (TakenIn(0, c) \/ (op = Taking /\ 0 = a /\ c = d))
  BY <1>1, MarksDo
<1>7. op # "exec" => (Made(0, c)' <=> Made(0, c) /\ ~(op = Giving /\ 0 = a /\ c = d))
  BY <1>1, MarksDo
<1>8. op = "exec" => TakenIn(0, c)
  BY <1>1, MarksDo
<1>9. op = Giving => Made(a, d)
  BY MarksDo
<1> QED BY <1>1, <1>2, <1>3, <1>4, <1>5, <1>6, <1>7, <1>8, <1>9

\* The master's operations of a channel come in this order, and none is left out.
LEMMA AdapterTurns ==
  ASSUME Shape, Agenda, wiring = "adapter", NEW t \in Threads, Do(t), NEW op, NEW d, Heading(t) = <<op, 0, d>>
  PROVE  /\ op = "push" => device.in > 0 /\ Due("push", d) /\ Due("drain", d)
         /\ op = "drain" => ~Due("push", d) /\ Due("drain", d)
         /\ op = "fill" => Due("fill", d) /\ (d <= device.out => Due("pop", d))
         /\ op = "pop" => ~Due("fill", d) /\ Due("pop", d) /\ d <= device.out
<1>1. /\ Heading(t) \in Left(t) /\ Heading(t) \in Plan(t) /\ Left(t) \subseteq Ops
      /\ Left(t)' = Left(t) \ {Heading(t)}
      /\ \A b \in Plan(t) : Before(Heading(t), b) => b \in Left(t)'
      /\ \A b \in Ops : Before(b, Heading(t)) => b \notin Left(t)
  BY DoLeft
<1>2. Heading(t) \in Ops
  BY <1>1
<1>3. d \in Chans /\ 0 \in Streams
  BY <1>2 DEF Ops, Streams
<1>4. t = "master" /\ Placed(t, op, 0, d)
  BY <1>3, AdapterMarks
<1>5. wiring \in Wirings /\ device \in Devices
  BY DEF Shape, Calls
<1>6. /\ <<"drain", 0, d>> \in Plan("master") /\ <<"fill", 0, d>> \in Plan("master")
      /\ <<"push", 0, d>> \in Plan("master") <=> device.in > 0
      /\ d <= device.out => <<"pop", 0, d>> \in Plan("master")
  <2>1. Taking = "drain"
    BY DEF Taking
  <2> QED BY <1>3, <1>5, <2>1, PlanHas
<1>7. {"push", "drain", "fill", "pop"} \subseteq OpNames
  BY DEF OpNames
<1>8. /\ <<"push", 0, d>> \in Ops /\ <<"fill", 0, d>> \in Ops
  BY <1>3 DEF Ops
<1>9. /\ Turn(<<"push", 0, d>>) = 1 /\ Turn(<<"drain", 0, d>>) = 2
      /\ Turn(<<"fill", 0, d>>) = 5 /\ Turn(<<"pop", 0, d>>) = 7
  BY <1>3, <1>7, TurnIs
<1>10. /\ Before(<<"push", 0, d>>, <<"drain", 0, d>>)
       /\ Before(<<"fill", 0, d>>, <<"pop", 0, d>>)
  BY <1>9 DEF Before
<1>11. op = "push" => device.in > 0 /\ Due("push", d) /\ Due("drain", d)
  BY <1>1, <1>4, <1>6, <1>10 DEF Due
<1>12. op = "drain" => ~Due("push", d) /\ Due("drain", d)
  BY <1>1, <1>4, <1>8, <1>10 DEF Due
<1>13. op = "fill" => Due("fill", d) /\ (d <= device.out => Due("pop", d))
  BY <1>1, <1>4, <1>6, <1>10 DEF Due
<1>14. op = "pop" => ~Due("fill", d) /\ Due("pop", d)
  BY <1>1, <1>4, <1>8, <1>10 DEF Due
<1>15. op = "pop" => d <= device.out
  <2>1. op = "pop" => d <= Shown
    BY <1>4 DEF Placed, Drained, Shown
  <2>2. d <= device.out <=> d <= Shown
    BY <1>3, <1>5, ShownIs
  <2> QED BY <2>1, <2>2
<1> QED BY <1>11, <1>12, <1>13, <1>14, <1>15

LEMMA OwnKeeps ==
  ASSUME Shape, Agenda, LastOK, wiring = "adapter", NEW t \in Threads, Do(t), NEW op, NEW a, NEW d,
         Heading(t) = <<op, a, d>>, NEW c \in Chans
  PROVE  /\ MyBlock(c)' = MyBlock(c) /\ Clamped("master")' = Clamped("master")
         /\ UNCHANGED <<wiring, device, route, calls>>
         /\ ~(op \in {"push", "drain"} /\ a = 0 /\ c = d) => ring'[<<"in", 0, c>>] = ring[<<"in", 0, c>>]
         /\ ~(op \in {"fill", "pop"} /\ a = 0 /\ c = d) => ring'[<<"out", 0, c>>] = ring[<<"out", 0, c>>]
         /\ op # "exec" => ThisBlock("out", 0, c)' = ThisBlock("out", 0, c)
         /\ ~(op = "drain" /\ a = 0 /\ c = d) /\ op # "exec" => ThisBlock("in", 0, c)' = ThisBlock("in", 0, c)
         /\ ~(op = "pop" /\ a = 0 /\ c = d) => heard'[<<"master", c>>] = heard[<<"master", c>>]
<1>1. UNCHANGED <<wiring, device, route, calls>>
  BY DoIs DEF Shape
<1>2. 0 \in Streams /\ Source[0] = "master" /\ Pushing = "push" /\ Taking = "drain" /\ Store(0, c) = <<"in", 0, c>>
  BY DEF Streams, Source, Pushing, Taking, Store
<1>3. Clamped("master")' = Clamped("master")
  BY DoKeeps
<1>4. MyBlock(c)' = MyBlock(c)
  <2>1. Captured(Source[0], 0, c)' = Captured(Source[0], 0, c) /\ Source[0]' = Source[0]
    BY <1>2, DoKeeps
  <2>2. MyBlock(c) = Captured(Source[0], 0, c) /\ MyBlock(c)' = Captured(Source[0], 0, c)'
    BY <1>2, <2>1 DEF MyBlock, Captured, Clamped
  <2> QED BY <2>1, <2>2
<1>5. /\ ~(op \in {"fill", "pop"} /\ 0 = a /\ c = d) => ring'[<<"out", 0, c>>] = ring[<<"out", 0, c>>]
      /\ op # "exec" => ThisBlock("out", 0, c)' = ThisBlock("out", 0, c)
      /\ ~(op = Taking /\ 0 = a /\ c = d) /\ op # "exec" => ThisBlock("in", 0, c)' = ThisBlock("in", 0, c)
      /\ ~(op \in {Pushing, Taking} /\ 0 = a /\ c = d) => ring'[Store(0, c)] = ring[Store(0, c)]
  BY <1>2, DoKeeps
<1>6. ~(op = "pop" /\ a = 0 /\ c = d) => heard'[<<"master", c>>] = heard[<<"master", c>>]
  <2> SUFFICES ASSUME ~(op = "pop" /\ a = 0 /\ c = d) PROVE heard'[<<"master", c>>] = heard[<<"master", c>>]
    OBVIOUS
  <2>1. Placed(t, op, a, d) /\ op \in OpNames
    BY MarksDo
  <2>2. op \in {"push", "drain", "exec", "fill", "pop"}
    BY AdapterMarks
  <2>3. CASE op # "pop"
    <3>1. op \notin {"pop", "pull", "emit"} => heard' = heard
      BY <2>1, DoData
    <3> QED BY <2>2, <2>3, <3>1
  <2>4. CASE op = "pop"
    <3>1. op = "pop" => Apart(t, d)
      BY <2>1, DoData
    <3>2. a \in Streams /\ t = Listener(a)
      BY <2>1, <2>4 DEF Placed
    <3>3. <<"master", c>> # <<t, d>>
      BY <2>4, <3>2 DEF Listener
    <3>4. <<"master", c>> \in Threads \X Chans
      BY DEF Threads
    <3> QED BY <2>4, <3>1, <3>3, <3>4 DEF Apart
  <2> QED BY <2>3, <2>4
<1> QED BY <1>1, <1>2, <1>3, <1>4, <1>5, <1>6

LEMMA MyBlockIs ==
  ASSUME Shape, wiring = "adapter", NEW c \in Chans
  PROVE  /\ MyBlock(c) \in Seq(Int) /\ Len(MyBlock(c)) = Clamped("master")
         /\ Clamped("master") \in Nat /\ Clamped("master") <= MaxBlock
         /\ ~(device.in > 0) => MyBlock(c) = Silent(Clamped("master"))
<1>1. 0 \in Streams /\ "master" = Source[0] /\ "master" \in Threads
  BY DEF Streams, Source, Threads
<1>2. Captured("master", 0, c) \in Seq(Int) /\ Len(Captured("master", 0, c)) = Clamped("master")
  BY <1>1, CapturedTones DEF Shape
<1>3. Clamped("master") \in Nat /\ Clamped("master") <= MaxBlock
  BY <1>1, ClampedIs DEF Shape, Calls
<1>4. ~(device.in > 0) => MyBlock(c) = Silent(Clamped("master"))
  <2> SUFFICES ASSUME ~(device.in > 0) PROVE MyBlock(c) = Silent(Clamped("master"))
    OBVIOUS
  <2>1. device.in \in Nat
    BY MultiSourceAssumption DEF Shape, Calls
  <2>2. SourceChannels(0) = device.in
    BY DEF SourceChannels
  <2>3. c \in Nat /\ 1 <= c
    BY StreamNumbers
  <2>4. ~(c <= SourceChannels(0))
    BY <2>1, <2>2, <2>3
  <2> QED BY <2>4 DEF MyBlock, Captured, Silent
<1> QED BY <1>2, <1>3, <1>4 DEF MyBlock

\* Each operation of the block, where it works.
LEMMA OwnPush ==
  ASSUME Shape, Agenda, LastOK, wiring = "adapter", MaxBlock <= RingFrames, NEW t \in Threads, Do(t), NEW c \in Chans,
         Heading(t) = <<"push", 0, c>>, OwnIn(c)
  PROVE  OwnIn(c)'
<1>1. t = "master" /\ Placed(t, "push", 0, c)
  BY AdapterMarks
<1>2. device.in > 0 /\ Due("push", c) /\ Due("drain", c)
  BY AdapterTurns
<1>3. \A o : Due(o, c)' <=> Due(o, c) /\ ~(o = "push" /\ 0 = 0 /\ c = c)
  BY AdapterMarks
<1>4. MyBlock(c)' = MyBlock(c) /\ UNCHANGED device
  BY OwnKeeps
<1>5. ring[<<"in", 0, c>>] = <<>>
  BY <1>2 DEF OwnIn
<1>6. Write(<<"in", 0, c>>, MyBlock(c))
  <2>1. "push" = Pushing /\ Store(0, c) = <<"in", 0, c>> /\ "push" \in OpNames
    BY DEF Pushing, Store, OpNames
  <2>2. Write(Store(0, c), Captured(t, 0, c))
    BY <1>1, <2>1, DoData
  <2> QED BY <1>1, <2>1, <2>2 DEF MyBlock
<1>7. <<"in", 0, c>> \in Rings /\ RingsAre(Int)
  BY RingNames, IntData DEF Data, Streams
<1>8. MyBlock(c) \in Seq(Int) /\ Len(MyBlock(c)) <= RingFrames
  <2>1. MyBlock(c) \in Seq(Int) /\ Len(MyBlock(c)) = Clamped("master") /\ Clamped("master") \in Nat /\ Clamped("master") <= MaxBlock
    BY MyBlockIs
  <2> QED BY <2>1, StreamNumbers
<1>9. ring'[<<"in", 0, c>>] = MyBlock(c)
  BY <1>5, <1>6, <1>7, <1>8, WriteEmpty
<1>10. Due("drain", c)' /\ ~Due("push", c)'
  BY <1>2, <1>3
<1> QED BY <1>2, <1>4, <1>9, <1>10 DEF OwnIn

LEMMA OwnDrain ==
  ASSUME Shape, Agenda, LastOK, wiring = "adapter", NEW t \in Threads, Do(t), NEW c \in Chans,
         Heading(t) = <<"drain", 0, c>>, OwnIn(c)
  PROVE  OwnIn(c)' /\ OwnTaken(c)'
<1> DEFINE r == <<"in", 0, c>>
           n == Clamped("master")
           b == buf[r]
<1>1. t = "master" /\ Placed(t, "drain", 0, c)
  BY AdapterMarks
<1>2. ~Due("push", c) /\ Due("drain", c)
  BY AdapterTurns
<1>3. ~Due("drain", c)'
  BY AdapterMarks
<1>4. MyBlock(c)' = MyBlock(c) /\ n' = n
  BY OwnKeeps
<1>5. ring[r] = IF device.in > 0 THEN MyBlock(c) ELSE <<>>
  BY <1>2 DEF OwnIn
<1>6. Read(r, n) /\ buf' = [buf EXCEPT ![r] = Padded(r, n) \o Suffix(b, n)]
  <2>1. "drain" = Taking /\ Store(0, c) = r /\ "drain" \in OpNames
    BY DEF Taking, Store, OpNames
  <2>2. TakesIn(t, 0, c)
    BY <1>1, <2>1, DoData
  <2>3. wiring # "live"
    OBVIOUS
  <2>4. PICK k \in Nat, q \in Seq(Int) :
          /\ Read(Store(0, c), k) /\ buf' = [buf EXCEPT ![<<"in", 0, c>>] = q \o Suffix(@, Clamped(t))]
          /\ k = Clamped(t) /\ q = Padded(Store(0, c), k)
    BY <2>2, <2>3 DEF TakesIn
  <2> QED BY <1>1, <2>1, <2>4
<1>7. r \in Rings /\ r \in Bufs /\ RingsAre(Int) /\ buf \in [Bufs -> Seq(Int)]
  BY RingNames, IntData DEF Data, Streams
<1>8. /\ MyBlock(c) \in Seq(Int) /\ Len(MyBlock(c)) = n /\ n \in Nat
      /\ ~(device.in > 0) => MyBlock(c) = Silent(n)
  BY MyBlockIs
<1>9. buf'[r] = Padded(r, n) \o Suffix(b, n) /\ b \in Seq(Int)
  BY <1>6, <1>7
<1>10. ThisBlock("in", 0, c)' = Prefix(buf'[r], n)
  BY <1>4 DEF ThisBlock
<1> HIDE DEF r, n, b
<1>11. Padded(r, n) = MyBlock(c) /\ ring'[r] = <<>>
  <2>1. CASE device.in > 0
    <3>1. Len(ring[r]) = n /\ ring[r] = MyBlock(c)
      BY <1>5, <1>8, <2>1
    <3> QED BY <1>6, <1>7, <1>8, <3>1, ReadWhole
  <2>2. CASE ~(device.in > 0)
    <3>1. ring[r] = <<>> /\ MyBlock(c) = Silent(n)
      BY <1>5, <1>8, <2>2
    <3> QED BY <1>6, <1>7, <1>8, <3>1, ReadNothing
  <2> QED BY <2>1, <2>2
<1>12. Prefix(buf'[r], n) = MyBlock(c)
  <2>1. PICK q \in Seq(Int) : q = MyBlock(c)
    BY <1>8
  <2>2. n = Len(q)
    BY <1>8, <2>1
  <2>3. Prefix(q \o Suffix(b, n), n) = q
    BY <1>9, <2>2, FrontOfBuffer
  <2> QED BY <1>9, <1>11, <2>1, <2>3
<1>13. OwnTaken(c)'
  BY <1>4, <1>10, <1>12 DEF OwnTaken
<1>14. OwnIn(c)'
  BY <1>3, <1>11 DEF OwnIn, r
<1> QED BY <1>13, <1>14

LEMMA OwnFill ==
  ASSUME Shape, Agenda, LastOK, wiring = "adapter", MaxBlock <= RingFrames, NEW t \in Threads, Do(t), NEW c \in Chans,
         Heading(t) = <<"fill", 0, c>>, OwnMade(c), OwnOut(c)
  PROVE  OwnOut(c)'
<1> DEFINE r == <<"out", 0, c>>
           n == Clamped("master")
           q == ThisBlock("out", 0, c)
<1>1. t = "master" /\ Placed(t, "fill", 0, c)
  BY AdapterMarks
<1>2. Due("fill", c) /\ (c <= device.out => Due("pop", c))
  BY AdapterTurns
<1>3. ~Due("fill", c)' /\ (Due("pop", c)' <=> Due("pop", c))
  BY AdapterMarks
<1>4. MyBlock(c)' = MyBlock(c) /\ n' = n /\ UNCHANGED <<device, route>>
  BY OwnKeeps
<1>5. Made(0, c)
  BY AdapterMarks
<1>6. Write(r, q)
  <2>1. "fill" \in OpNames
    BY DEF OpNames
  <2>2. Write(<<"out", 0, c>>, Prefix(buf[<<"out", 0, c>>], Clamped(t)))
    BY <1>1, <2>1, DoData
  <2> QED BY <1>1, <2>2 DEF ThisBlock
<1>7. r \in Rings /\ r \in Bufs /\ RingsAre(Int) /\ buf \in [Bufs -> Seq(Int)] /\ \A x \in Bufs : Len(buf[x]) = MaxBlock
  BY RingNames, IntData DEF Data, Streams
<1>8. n \in Nat /\ n <= MaxBlock /\ MaxBlock \in Nat /\ RingFrames \in Nat
  BY MyBlockIs, StreamNumbers
<1>9. buf[r] \in Seq(Int) /\ Len(buf[r]) = MaxBlock
  BY <1>7
<1>10. q \in Seq(Int) /\ Len(q) = n
  <2>1. q = Prefix(buf[r], n)
    BY DEF ThisBlock
  <2> HIDE DEF q, r, n
  <2>2. Prefix(buf[r], n) \in Seq(Int) /\ Len(Prefix(buf[r], n)) = Present(MaxBlock, n)
    BY <1>8, <1>9, FrontIs DEF Present
  <2>3. /\ Present(MaxBlock, n) \in Nat /\ Present(MaxBlock, n) <= n
        /\ Present(MaxBlock, n) = n \/ Present(MaxBlock, n) = MaxBlock
    BY <1>8, PresentIs
  <2> QED BY <1>8, <2>1, <2>2, <2>3
<1>11. ASSUME c <= device.out PROVE ring'[r] = q
  <2>1. ring[r] = <<>>
    BY <1>2, <1>11 DEF OwnOut
  <2>2. Len(q) <= RingFrames
    BY <1>8, <1>10
  <2> HIDE DEF q, r, n
  <2> QED BY <1>6, <1>7, <1>10, <2>1, <2>2, WriteEmpty
<1>12. route[0] = 0 => q = MyBlock(c)
  BY <1>5 DEF OwnMade
<1>13. c <= device.out => Len(ring'[r]) = n' /\ (route'[0] = 0 => ring'[r] = MyBlock(c)')
  BY <1>4, <1>10, <1>11, <1>12
<1> HIDE DEF q, n
<1>14. c <= device'.out => Due("pop", c)' /\ ~Due("fill", c)'
  BY <1>2, <1>3, <1>4
<1> QED BY <1>4, <1>13, <1>14 DEF OwnOut, n

LEMMA OwnPop ==
  ASSUME Shape, Agenda, LastOK, wiring = "adapter", NEW t \in Threads, Do(t), NEW c \in Chans,
         Heading(t) = <<"pop", 0, c>>, OwnOut(c)
  PROVE  OwnOut(c)' /\ OwnHeard(c)'
<1> DEFINE r == <<"out", 0, c>>
           n == Clamped("master")
<1>1. t = "master" /\ Placed(t, "pop", 0, c)
  BY AdapterMarks
<1>2. ~Due("fill", c) /\ Due("pop", c) /\ c <= device.out
  BY AdapterTurns
<1>3. ~Due("pop", c)'
  BY AdapterMarks
<1>4. MyBlock(c)' = MyBlock(c) /\ UNCHANGED <<device, route>>
  BY OwnKeeps
<1>5. Read(r, n) /\ \E met, short : Hear(t, c, Padded(r, n), met, short)
  <2>1. "pop" \in OpNames
    BY DEF OpNames
  <2>2. Read(<<"out", 0, c>>, Clamped(t)) /\ \E met, short : Hear(t, c, Padded(<<"out", 0, c>>, Clamped(t)), met, short)
    BY <1>1, <2>1, DoData
  <2> QED BY <1>1, <2>2
<1>6. r \in Rings /\ RingsAre(Int) /\ n \in Nat
  BY RingNames, IntData, MyBlockIs DEF Data, Streams
<1>7. Len(ring[r]) = n /\ (route[0] = 0 => ring[r] = MyBlock(c))
  BY <1>2 DEF OwnOut
<1>8. heard'[<<"master", c>>] = Padded(r, n)
  <2>1. heard \in [Threads \X Chans -> Seq(Int)] /\ <<"master", c>> \in Threads \X Chans
    BY IntData DEF Data, Threads
  <2>2. heard' = [heard EXCEPT ![<<"master", c>>] = Padded(r, n)]
    BY <1>1, <1>5 DEF Hear
  <2> QED BY <2>1, <2>2
<1> HIDE DEF n
<1>9. Padded(r, n) = ring[r] /\ ring'[r] = <<>>
  <2> HIDE DEF r
  <2> QED BY <1>5, <1>6, <1>7, ReadWhole
<1>10. OwnOut(c)'
  BY <1>3, <1>9 DEF OwnOut
<1>11. OwnHeard(c)'
  BY <1>4, <1>7, <1>8, <1>9 DEF OwnHeard
<1> QED BY <1>10, <1>11

LEMMA OwnExec ==
  ASSUME Shape, Agenda, LastOK, wiring = "adapter", NEW t \in Threads, Do(t), NEW a, NEW d,
         Heading(t) = <<"exec", a, d>>, NEW c \in Chans, OwnTaken(c)
  PROVE  OwnMade(c)' /\ OwnTaken(c)'
<1>1. /\ ~TakenIn(0, c)' /\ TakenIn(0, c)
  BY AdapterMarks
<1>2. MyBlock(c)' = MyBlock(c) /\ UNCHANGED route
  BY OwnKeeps
<1>3. ASSUME route[0] = 0 PROVE ThisBlock("out", 0, c)' = MyBlock(c)
  <2>1. PICK o \in Streams : o = 0
    BY DEF Streams
  <2>2. route[o] # None
    BY <1>3, <2>1 DEF None
  <2>3. ThisBlock("out", o, c)' = ThisBlock("in", route[o], c)
    BY <2>2, ExecPlace
  <2>4. ThisBlock("in", route[o], c) = MyBlock(c)
    BY <1>1, <1>3, <2>1 DEF OwnTaken
  <2> QED BY <2>1, <2>3, <2>4
<1> QED BY <1>1, <1>2, <1>3 DEF OwnMade, OwnTaken

LEMMA OwnDo ==
  ASSUME Shape, Agenda, LastOK, wiring = "adapter", MaxBlock <= RingFrames, NEW t \in Threads, Do(t),
         NEW op, NEW a, NEW d, Heading(t) = <<op, a, d>>, NEW c \in Chans, Own(c)
  PROVE  Own(c)'
<1>1. op \in {"push", "drain", "exec", "fill", "pop"}
  BY AdapterMarks
<1>2. \A o : Due(o, c)' <=> Due(o, c) /\ ~(o = op /\ a = 0 /\ c = d)
  BY AdapterMarks
<1>3. /\ TakenIn(0, c)' <=> op # "exec" /\ (TakenIn(0, c) \/ (op = "drain" /\ a = 0 /\ c = d))
      /\ op # "exec" => (Made(0, c)' <=> Made(0, c) /\ ~(op = "fill" /\ a = 0 /\ c = d))
  BY AdapterMarks
<1>4. /\ MyBlock(c)' = MyBlock(c) /\ Clamped("master")' = Clamped("master")
      /\ UNCHANGED <<device, route, calls>>
      /\ ~(op \in {"push", "drain"} /\ a = 0 /\ c = d) => ring'[<<"in", 0, c>>] = ring[<<"in", 0, c>>]
      /\ ~(op \in {"fill", "pop"} /\ a = 0 /\ c = d) => ring'[<<"out", 0, c>>] = ring[<<"out", 0, c>>]
      /\ op # "exec" => ThisBlock("out", 0, c)' = ThisBlock("out", 0, c)
      /\ ~(op = "drain" /\ a = 0 /\ c = d) /\ op # "exec" => ThisBlock("in", 0, c)' = ThisBlock("in", 0, c)
      /\ ~(op = "pop" /\ a = 0 /\ c = d) => heard'[<<"master", c>>] = heard[<<"master", c>>]
  BY OwnKeeps
<1>5. OwnIn(c) /\ OwnTaken(c) /\ OwnMade(c) /\ OwnOut(c) /\ OwnHeard(c)
  BY DEF Own
<1>6. OwnIn(c)'
  <2>1. CASE op = "push" /\ a = 0 /\ c = d
    BY <1>5, <2>1, OwnPush
  <2>2. CASE op = "drain" /\ a = 0 /\ c = d
    BY <1>5, <2>2, OwnDrain
  <2>3. CASE ~(op \in {"push", "drain"} /\ a = 0 /\ c = d)
    <3>1. (Due("push", c)' <=> Due("push", c)) /\ (Due("drain", c)' <=> Due("drain", c))
      BY <1>2, <2>3
    <3> QED BY <1>4, <1>5, <2>3, <3>1 DEF OwnIn
  <2> QED BY <2>1, <2>2, <2>3
<1>7. OwnTaken(c)'
  <2>1. CASE op = "exec"
    BY <1>3, <2>1 DEF OwnTaken
  <2>2. CASE op = "drain" /\ a = 0 /\ c = d
    BY <1>5, <2>2, OwnDrain
  <2>3. CASE op # "exec" /\ ~(op = "drain" /\ a = 0 /\ c = d)
    BY <1>3, <1>4, <1>5, <2>3 DEF OwnTaken
  <2> QED BY <2>1, <2>2, <2>3
<1>8. OwnMade(c)'
  <2>1. CASE op = "exec"
    BY <1>5, <2>1, OwnExec
  <2>2. CASE op # "exec"
    BY <1>3, <1>4, <1>5, <2>2 DEF OwnMade
  <2> QED BY <2>1, <2>2
<1>9. OwnOut(c)'
  <2>1. CASE op = "fill" /\ a = 0 /\ c = d
    BY <1>5, <2>1, OwnFill
  <2>2. CASE op = "pop" /\ a = 0 /\ c = d
    BY <1>5, <2>2, OwnPop
  <2>3. CASE ~(op \in {"fill", "pop"} /\ a = 0 /\ c = d)
    <3>1. (Due("fill", c)' <=> Due("fill", c)) /\ (Due("pop", c)' <=> Due("pop", c))
      BY <1>2, <2>3
    <3> QED BY <1>4, <1>5, <2>3, <3>1 DEF OwnOut
  <2> QED BY <2>1, <2>2, <2>3
<1>10. OwnHeard(c)'
  <2>1. CASE op = "pop" /\ a = 0 /\ c = d
    BY <1>5, <2>1, OwnPop
  <2>2. CASE ~(op = "pop" /\ a = 0 /\ c = d)
    <3>1. Due("pop", c)' <=> Due("pop", c)
      BY <1>2, <2>2
    <3> QED BY <1>4, <1>5, <2>2, <3>1 DEF OwnHeard
  <2> QED BY <2>1, <2>2
<1> QED BY <1>6, <1>7, <1>8, <1>9, <1>10 DEF Own

LEMMA OwnBegin ==
  ASSUME Shape, Agenda, wiring = "adapter", NEW t \in Threads, NEW n \in Blocks[t], Begin(t, n),
         NEW c \in Chans, Own(c)
  PROVE  Own(c)'
<1>1. UNCHANGED <<wiring, device, ring, xruns, buf, staged, stage, heard, route>>
  BY BeginKeeps
<1>2. Left(t) = {} /\ Left(t)' = Plan(t) /\ \A x \in Threads : x # t => Left(x)' = Left(x)
  BY BeginLeft
<1>3. 0 \in Streams /\ "master" \in Threads /\ Source[0] = "master"
  BY DEF Streams, Threads, Source
<1>4. /\ TakenIn(0, c)' => TakenIn(0, c) /\ t # "master"
      /\ Made(0, c)' => Made(0, c) /\ t # "master"
  BY <1>3, BeginMarks
<1>5. OwnIn(c) /\ OwnTaken(c) /\ OwnMade(c) /\ OwnOut(c) /\ OwnHeard(c)
  BY DEF Own
<1>6. CASE t = "master"
  <2>1. \A o : ~Due(o, c)
    BY <1>2, <1>6 DEF Due
  <2>2. ring[<<"in", 0, c>>] = <<>> /\ (c <= device.out => ring[<<"out", 0, c>>] = <<>>)
    BY <1>5, <2>1 DEF OwnIn, OwnOut
  <2>3. wiring \in Wirings /\ device \in Devices
    BY DEF Shape, Calls
  <2>4. /\ <<"fill", 0, c>> \in Plan("master")
        /\ <<"push", 0, c>> \in Plan("master") <=> device.in > 0
        /\ c <= device.out => <<"pop", 0, c>> \in Plan("master")
    BY <2>3, PlanHas
  <2>5. Due("fill", c)' /\ (Due("push", c)' <=> device.in > 0) /\ (c <= device.out => Due("pop", c)')
    BY <1>2, <1>6, <2>4 DEF Due
  <2>6. OwnIn(c)'
    BY <1>1, <2>2, <2>5 DEF OwnIn
  <2>7. OwnTaken(c)' /\ OwnMade(c)'
    BY <1>4, <1>6 DEF OwnTaken, OwnMade
  <2>8. OwnOut(c)' /\ OwnHeard(c)'
    BY <1>1, <2>2, <2>5 DEF OwnOut, OwnHeard
  <2> QED BY <2>6, <2>7, <2>8 DEF Own
<1>7. CASE t # "master"
  <2>1. frames'["master"] = frames["master"] /\ Clamped("master")' = Clamped("master")
    BY <1>7, BeginKeeps
  <2>2. sent'[0] = sent[0]
    <3>1. sent' = [s \in Streams |-> IF Source[s] = t THEN sent[s] + n ELSE sent[s]]
      BY BeginIs DEF Shape
    <3> QED BY <1>3, <1>7, <3>1
  <2>3. calls'["master"] = calls["master"]
    BY <1>7 DEF Begin
  <2>4. MyBlock(c)' = MyBlock(c)
    <3>1. SourceChannels(0)' = SourceChannels(0)
      BY <1>1 DEF SourceChannels
    <3> QED BY <2>1, <2>2, <3>1 DEF MyBlock, Captured
  <2>5. \A o : Due(o, c)' <=> Due(o, c)
    BY <1>2, <1>3, <1>7 DEF Due
  <2>6. ThisBlock("in", 0, c)' = ThisBlock("in", 0, c) /\ ThisBlock("out", 0, c)' = ThisBlock("out", 0, c)
    BY <1>1, <2>1 DEF ThisBlock
  <2>7. OwnIn(c)'
    BY <1>1, <1>5, <2>4, <2>5 DEF OwnIn
  <2>8. OwnTaken(c)' /\ OwnMade(c)'
    BY <1>1, <1>4, <1>5, <2>4, <2>6 DEF OwnTaken, OwnMade
  <2>9. OwnOut(c)'
    BY <1>1, <1>5, <2>1, <2>4, <2>5 DEF OwnOut
  <2>10. OwnHeard(c)'
    BY <1>1, <1>5, <2>3, <2>4, <2>5 DEF OwnHeard
  <2> QED BY <2>7, <2>8, <2>9, <2>10 DEF Own
<1> QED BY <1>6, <1>7

\* Nothing is bound to a stream any more between two blocks.
LEMMA OwnRest ==
  ASSUME wiring = "adapter", UNCHANGED <<wiring, device, todo, frames, ring, buf, heard, sent, calls>>,
         route'[0] \in {route[0], None}, NEW c \in Chans, Own(c)
  PROVE  Own(c)'
<1>1. \A o : Due(o, c)' <=> Due(o, c)
  BY DEF Due, Left
<1>2. MyBlock(c)' = MyBlock(c) /\ Clamped("master")' = Clamped("master")
  BY DEF MyBlock, Captured, Clamped, SourceChannels
<1>3. \A side : ThisBlock(side, 0, c)' = ThisBlock(side, 0, c)
  BY <1>2 DEF ThisBlock
<1>4. (TakenIn(0, c)' <=> TakenIn(0, c)) /\ (Made(0, c)' <=> Made(0, c))
  BY DEF TakenIn, Made, Left, Taking, Giving
<1>5. route'[0] = 0 => route[0] = 0
  BY DEF None
<1>6. OwnIn(c) /\ OwnTaken(c) /\ OwnMade(c) /\ OwnOut(c) /\ OwnHeard(c)
  BY DEF Own
<1>7. OwnIn(c)'
  BY <1>1, <1>2, <1>6 DEF OwnIn
<1>8. OwnTaken(c)' /\ OwnMade(c)'
  BY <1>2, <1>3, <1>4, <1>5, <1>6 DEF OwnTaken, OwnMade
<1>9. OwnOut(c)'
  BY <1>1, <1>2, <1>5, <1>6 DEF OwnOut
<1>10. OwnHeard(c)'
  BY <1>1, <1>2, <1>5, <1>6 DEF OwnHeard
<1> QED BY <1>7, <1>8, <1>9, <1>10 DEF Own

LEMMA InitOwn == StreamInit => OwnInv
<1> SUFFICES ASSUME StreamInit, NEW c \in Chans PROVE Own(c)
  BY DEF OwnInv
<1>1. Left("master") = {}
  <2>1. todo["master"] = <<>>
    BY DEF StreamInit, Threads
  <2>2. Items(<<>>) = {}
    BY GoesNothing DEF Goes
  <2> QED BY <2>1, <2>2 DEF Left
<1>2. 0 \in Streams /\ "master" \in Threads
  BY DEF Streams, Threads
<1>3. ring[<<"in", 0, c>>] = <<>> /\ ring[<<"out", 0, c>>] = <<>>
  BY <1>2, RingNames DEF StreamInit
<1>4. ~(calls["master"] > 0)
  BY <1>2 DEF StreamInit
<1>5. ~TakenIn(0, c) /\ ~Made(0, c) /\ \A o : ~Due(o, c)
  BY <1>1 DEF TakenIn, Made, Due
<1> QED BY <1>3, <1>4, <1>5 DEF Own, OwnIn, OwnTaken, OwnMade, OwnOut, OwnHeard

LEMMA OwnStep ==
  ASSUME MaxBlock <= RingFrames, Shape, Agenda, OrderInv, OwnInv, [StreamNext]_streamVars
  PROVE  OwnInv'
<1>1. LastOK
  BY DEF OrderInv
<1>2. ASSUME NEW t \in Threads, NEW n \in Blocks[t], Begin(t, n) PROVE OwnInv'
  <2>1. UNCHANGED wiring
    BY <1>2, BeginKeeps
  <2> QED BY <1>2, <2>1, OwnBegin DEF OwnInv
<1>3. ASSUME NEW t \in Threads, Do(t) PROVE OwnInv'
  <2>1. UNCHANGED wiring
    BY <1>3, DoIs DEF Shape
  <2>2. PICK op, a, d : Heading(t) = <<op, a, d>>
    BY <1>3, DoIs, HeadingIs DEF Shape
  <2> QED BY <1>1, <1>3, <2>1, <2>2, OwnDo DEF OwnInv
<1>4. CASE Recompile
  <2>1. UNCHANGED <<wiring, device, todo, frames, ring, buf, heard, sent, calls>>
    BY <1>4 DEF Recompile
  <2>2. route'[0] \in {route[0], None}
    BY <1>4 DEF Recompile, Shape, Calls, Streams
  <2> QED BY <2>1, <2>2, OwnRest DEF OwnInv
<1>5. CASE UNCHANGED streamVars
  <2>1. UNCHANGED <<wiring, device, todo, frames, ring, buf, heard, sent, calls, route>>
    BY <1>5 DEF streamVars
  <2> QED BY <2>1, OwnRest DEF OwnInv
<1> QED BY <1>2, <1>3, <1>4, <1>5 DEF StreamNext

LEMMA HeardIs ==
  ASSUME Shape, OrderInv, OwnInv
  PROVE  HeardAsCaptured
<1>1. \A t \in Threads, c \in Chans :
        <<t, c>> \in hist.disorder => hist.unsunk # {} \/ hist.oversize \/ c \in hist.short \ {1}
  BY DEF OrderInv, Fine, Sorted, Orderly
<1>2. ASSUME wiring = "adapter", todo["master"] = <<>>, calls["master"] > 0, route[0] = 0,
             NEW c \in 1 .. Min({device.out, Channels})
      PROVE  heard[<<"master", c>>] = Captured("master", 0, c)
  <2>0. Shown = Min({device.out, Channels}) /\ Shown \in 0 .. Channels /\ Shown <= device.out /\ device.out \in Nat
    BY ShownIs DEF Shape, Calls, Shown
  <2>1. c \in 1 .. Shown /\ Channels \in Nat
    BY <2>0, StreamNumbers
  <2>2. c \in Chans /\ c <= device.out
    <3> HIDE DEF Shown
    <3> QED BY <2>0, <2>1 DEF Chans
  <2>3. Items(<<>>) = {}
    BY GoesNothing DEF Goes
  <2>4. ~Due("pop", c)
    BY <1>2, <2>3 DEF Due, Left
  <2> QED BY <1>2, <2>2, <2>4 DEF OwnInv, Own, OwnHeard, MyBlock
<1> QED BY <1>1, <1>2 DEF HeardAsCaptured

(* Every sink hears the frames of a channel in the order they were         *)
(* captured, but for the pulls that found less of it than of the first,    *)
(* and the clock device hears in each block what it captured in that       *)
(* block, for all channels, blocks, devices, graphs and interleavings of   *)
(* the streams' threads, if a ring holds at least one block:               *)
(* MultiSourceManager makes its rings of maxBlock frames unless it is told *)
(* otherwise.                                                              *)
THEOREM SinksHearWhatWasCaptured ==
  ASSUME MaxBlock <= RingFrames
  PROVE  StreamSpec => []HeardAsCaptured
<1>1. StreamInit => Agenda /\ OrderInv /\ OwnInv
  BY InitLeft, InitOrder, InitOwn
<1>2. Shape /\ SlipInv /\ Agenda /\ OrderInv /\ OwnInv /\ [StreamNext]_streamVars => Agenda' /\ OrderInv' /\ OwnInv'
  BY AgendaStep, OrderStep, OwnStep
<1>3. Shape /\ SlipInv /\ Agenda /\ OrderInv /\ OwnInv => HeardAsCaptured
  BY HeardIs
<1> QED BY <1>1, <1>2, <1>3, StreamInvariance, PTL DEF StreamSpec

(* However small the rings are, no sink hears a frame of the first channel *)
(* twice or after a later one, as long as the graph has a sink for every   *)
(* stream and the clock's blocks fit the scratch; nor one of another       *)
(* channel, as long as no ResamplingSource::pull() found fewer frames of   *)
(* that channel than of the first, which it does not look at.              *)
THEOREM SinksHearInOrder ==
  StreamSpec => [](\A t \in Threads, c \in Chans :
                     <<t, c>> \in hist.disorder => hist.unsunk # {} \/ hist.oversize \/ c \in hist.short \ {1})
<1>1. StreamInit => Agenda /\ OrderInv
  BY InitLeft, InitOrder
<1>2. Shape /\ SlipInv /\ Agenda /\ OrderInv /\ [StreamNext]_streamVars => Agenda' /\ OrderInv'
  BY AgendaStep, OrderStep
<1>3. OrderInv => \A t \in Threads, c \in Chans :
                    <<t, c>> \in hist.disorder => hist.unsunk # {} \/ hist.oversize \/ c \in hist.short \ {1}
  BY DEF OrderInv, Fine, Sorted, Orderly
<1> QED BY <1>1, <1>2, <1>3, StreamInvariance, PTL DEF StreamSpec

=============================================================================
