----------------------------- MODULE RingBuffer -----------------------------
(***************************************************************************)
(* io::RingBuffer<T> (include/aiudio/io/ring_buffer.hpp): one producer     *)
(* thread in write() or push(), one consumer thread in read(), pop() or    *)
(* sizeApprox(), two atomic indices and no lock.  push() and pop() are the *)
(* calls with count = 1.                                                   *)
(*                                                                         *)
(* The atomics are acquire/release, not sequentially consistent: a load of *)
(* the OTHER side's index may return any store to it that is not older     *)
(* than one this side has already seen (coherence).  rStores and wStores   *)
(* hold those stores, each with the stream position it stands for.         *)
(*                                                                         *)
(* The k-th element ever accepted is the number k, so a slot's content     *)
(* says which element it holds.  written, consumed, pKnown, cKnown and the *)
(* "at" of a store are positions in that stream: ghosts, which no guard    *)
(* reads except to bound a run (MaxOffered, MaxMissed).                    *)
(***************************************************************************)
EXTENDS Integers, Sequences

CONSTANTS Capacity,     \* capacity_: the slots, a power of two
          Counts,       \* the counts a call may be made with
          MaxOffered,   \* bound: elements offered to the buffer in a run
          MaxMissed     \* bound: elements asked for and not there

ASSUME CapacityAssumption == Capacity \in Nat \ {0}
ASSUME CountsAssumption == Counts \subseteq Nat
ASSUME BoundsAssumption == MaxOffered \in Nat /\ MaxMissed \in Nat

VARIABLES
  data,                 \* data_: slot -> element
  wIndex, rIndex,       \* write_.index, read_.index: the latest store
  wStores, rStores,     \* the stores the other side may still load
  overruns, underruns,  \* write_.xruns, read_.xruns
  ppc, pW, pSeen, pN, pCount,        \* producer in write(): w, r, n, count
  cpc, cR, cSeen, dst, cCount, got,  \* consumer in read(): r, w, dst, count
  promised,             \* the consumer's last sizeApprox(), until its next read()
  written, consumed,    \* ghost: elements published, elements released
  pKnown, cKnown        \* ghost: the newest other index seen, as a position

prodVars == <<ppc, pW, pSeen, pN, pCount, pKnown>>
consVars == <<cpc, cR, cSeen, dst, cCount, got, promised, cKnown>>
vars == <<data, wIndex, rIndex, wStores, rStores, overruns, underruns,
          prodVars, consVars, written, consumed>>

Slots == 0 .. Capacity - 1

Stores == [index : Slots, at : Nat]

\* roundUpPow2: what the constructor makes capacity_ from minCapacity + 1.
RoundUpPow2(n) ==
  LET powers == {2^i : i \in 0..n}
  IN CHOOSE p \in powers : p >= n /\ \A q \in powers : q >= n => p <= q

\* i & mask_, capacity_ being a power of two.
Wrap(i) == i % Capacity

Init ==
  /\ data = [s \in Slots |-> 0]
  /\ wIndex = 0 /\ wStores = {[index |-> 0, at |-> 0]}
  /\ rIndex = 0 /\ rStores = {[index |-> 0, at |-> 0]}
  /\ overruns = 0 /\ underruns = 0
  /\ ppc = "idle" /\ pW = 0 /\ pSeen = 0 /\ pN = 0 /\ pCount = 0 /\ pKnown = 0
  /\ cpc = "idle" /\ cR = 0 /\ cSeen = 0 /\ dst = <<>> /\ cCount = 0
  /\ got = <<>> /\ promised = 0 /\ cKnown = 0
  /\ written = 0 /\ consumed = 0

-----------------------------------------------------------------------------
(* The producer: write(src, count), and push as count = 1.                 *)

\* Own index relaxed; the consumer's index acquired, once for the whole call.
WriteBegin(k) ==
  /\ ppc = "idle"
  /\ written + overruns + k <= MaxOffered
  /\ \E s \in rStores :
       /\ pSeen' = s.index
       /\ pKnown' = s.at
       /\ rStores' = {t \in rStores : t.at >= s.at}
  /\ pW' = wIndex
  /\ pN' = 0
  /\ pCount' = k
  /\ ppc' = "copy"
  /\ UNCHANGED <<data, wIndex, rIndex, wStores, overruns, underruns, consVars,
                 written, consumed>>

\* Mutant: every slot is usable, so a full ring looks empty.
BugNoReservedSlot == pW # pSeen \/ pN = 0

\* The loop's test for room: storing must not make the indices equal.
CanStore == Wrap(pW + 1) # pSeen

WriteCopy ==
  /\ ppc = "copy" /\ pN < pCount /\ CanStore
  /\ data' = [data EXCEPT ![pW] = written + pN + 1]
  /\ pW' = Wrap(pW + 1)
  /\ pN' = pN + 1
  /\ UNCHANGED <<wIndex, rIndex, wStores, rStores, overruns, underruns, ppc, pSeen,
                 pCount, pKnown, consVars, written, consumed>>

\* The release store publishes every copied element at once.
WriteEnd ==
  /\ ppc = "copy" /\ ~(pN < pCount /\ CanStore)
  /\ wIndex' = pW
  /\ written' = written + pN
  /\ wStores' = wStores \union {[index |-> pW, at |-> written + pN]}
  /\ ppc' = IF pN < pCount THEN "short" ELSE "idle"
  /\ UNCHANGED <<data, rIndex, rStores, overruns, underruns, pW, pSeen, pN, pCount,
                 pKnown, consVars, consumed>>

WriteShort ==
  /\ ppc = "short"
  /\ overruns' = overruns + (pCount - pN)
  /\ ppc' = "idle"
  /\ UNCHANGED <<data, wIndex, rIndex, wStores, rStores, underruns, pW, pSeen, pN,
                 pCount, pKnown, consVars, written, consumed>>

-----------------------------------------------------------------------------
(* The consumer: read(dst, count), pop as count = 1, and sizeApprox(),     *)
(* which in this program only a ring's consumer calls.                     *)

ReadBegin(k) ==
  /\ cpc = "idle"
  /\ underruns + k <= MaxMissed
  /\ \E s \in wStores :
       /\ cSeen' = s.index
       /\ cKnown' = s.at
       /\ wStores' = {t \in wStores : t.at >= s.at}
  /\ cR' = rIndex
  /\ dst' = <<>>
  /\ cCount' = k
  /\ cpc' = "copy"
  /\ UNCHANGED <<data, wIndex, rIndex, rStores, overruns, underruns, prodVars, got,
                 promised, written, consumed>>

CanLoad == cR # cSeen                   \* the loop's test for "not empty"

\* Mutant: each slot is released before its element has been copied out.
BugReleaseBeforeCopy ==
  /\ cpc = "copy" /\ Len(dst) < cCount /\ CanLoad
  /\ dst' = Append(dst, data[cR])
  /\ cR' = Wrap(cR + 1)
  /\ rStores' = rStores \union {[index |-> Wrap(cR + 2), at |-> consumed + Len(dst) + 2]}
  /\ UNCHANGED <<data, wIndex, rIndex, wStores, overruns, underruns, prodVars, cpc,
                 cSeen, cCount, got, promised, cKnown, written, consumed>>

ReadCopy ==
  /\ cpc = "copy" /\ Len(dst) < cCount /\ CanLoad
  /\ dst' = Append(dst, data[cR])
  /\ cR' = Wrap(cR + 1)
  /\ UNCHANGED <<data, wIndex, rIndex, wStores, rStores, overruns, underruns, prodVars,
                 cpc, cSeen, cCount, got, promised, cKnown, written, consumed>>

\* Mutant: the whole request is released, also what was not there.
BugReleaseAll ==
  /\ cpc = "copy" /\ ~(Len(dst) < cCount /\ CanLoad)
  /\ rIndex' = Wrap(rIndex + cCount)
  /\ consumed' = consumed + cCount
  /\ rStores' = rStores \union {[index |-> Wrap(rIndex + cCount), at |-> consumed + cCount]}
  /\ got' = dst
  /\ cpc' = IF Len(dst) < cCount THEN "short" ELSE "idle"
  /\ promised' = IF Len(dst) < cCount THEN promised ELSE 0
  /\ UNCHANGED <<data, wIndex, wStores, overruns, underruns, prodVars, cR, cSeen, dst,
                 cCount, cKnown, written>>

\* The release store frees every copied slot at once.
ReadEnd ==
  /\ cpc = "copy" /\ ~(Len(dst) < cCount /\ CanLoad)
  /\ rIndex' = cR
  /\ consumed' = consumed + Len(dst)
  /\ rStores' = rStores \union {[index |-> cR, at |-> consumed + Len(dst)]}
  /\ got' = dst
  /\ cpc' = IF Len(dst) < cCount THEN "short" ELSE "idle"
  /\ promised' = IF Len(dst) < cCount THEN promised ELSE 0
  /\ UNCHANGED <<data, wIndex, wStores, overruns, underruns, prodVars, cR, cSeen, dst,
                 cCount, cKnown, written>>

ReadShort ==
  /\ cpc = "short"
  /\ underruns' = underruns + (cCount - Len(dst))
  /\ cpc' = "idle"
  /\ promised' = 0
  /\ UNCHANGED <<data, wIndex, rIndex, wStores, rStores, overruns, prodVars, cR, cSeen,
                 dst, cCount, got, cKnown, written, consumed>>

\* Mutant: the reserved slot is counted as an element.
BugCountsReservedSlot(w, r) == IF w = r THEN 0 ELSE Wrap((w + Capacity) - r) + 1

\* (w - r) & mask_, unsigned: the difference taken around the ring.
Occupied(w, r) == Wrap((w + Capacity) - r)

SizeApprox ==
  /\ cpc = "idle"
  /\ \E s \in wStores :
       /\ cKnown' = s.at
       /\ wStores' = {t \in wStores : t.at >= s.at}
       /\ promised' = Occupied(s.index, rIndex)
  /\ UNCHANGED <<data, wIndex, rIndex, rStores, overruns, underruns, prodVars, cpc, cR,
                 cSeen, dst, cCount, got, written, consumed>>

-----------------------------------------------------------------------------
Producer == (\E k \in Counts : WriteBegin(k)) \/ WriteCopy \/ WriteEnd \/ WriteShort
Consumer == \/ \E k \in Counts : ReadBegin(k)
            \/ ReadCopy \/ ReadEnd \/ ReadShort \/ SizeApprox

Next == Producer \/ Consumer

Spec == Init /\ [][Next]_vars

-----------------------------------------------------------------------------
(* Properties.                                                             *)

\* Every variable has its type; in particular no cursor leaves the storage.
TypeOK ==
  /\ data \in [Slots -> Nat]
  /\ wIndex \in Slots /\ rIndex \in Slots
  /\ wStores \subseteq Stores /\ rStores \subseteq Stores
  /\ overruns \in Nat /\ underruns \in Nat
  /\ ppc \in {"idle", "copy", "short"} /\ cpc \in {"idle", "copy", "short"}
  /\ pW \in Slots /\ pSeen \in Slots /\ pN \in Nat /\ pCount \in Nat
  /\ cR \in Slots /\ cSeen \in Slots /\ cCount \in Nat
  /\ dst \in Seq(Nat) /\ got \in Seq(Nat)
  /\ promised \in Nat
  /\ written \in Nat /\ consumed \in Nat /\ pKnown \in Nat /\ cKnown \in Nat

ProducerStoresInto(s) == ppc = "copy" /\ pN < pCount /\ CanStore /\ s = pW
ConsumerLoadsFrom(s) == cpc = "copy" /\ Len(dst) < cCount /\ CanLoad /\ s = cR

\* data_ is not atomic: no slot is ever about to be stored into by write() and
\* loaded from by read() at the same time, whichever indices they have seen.
NoSlotRace == \A s \in Slots : ~(ProducerStoresInto(s) /\ ConsumerLoadsFrom(s))

\* What read() has copied so far is the next elements in the order write()
\* accepted them: none lost, repeated, reordered, or overwritten on the way.
ReadsInOrder == cpc = "copy" => \A i \in 1..Len(dst) : dst[i] = consumed + i

\* write() comes up short only after filling the buffer to capacity(), counted
\* from the newest release it has seen: no element is refused while there is room.
ShortWriteFilledUp ==
  ppc = "short" => written = pKnown + (Capacity - 1)

\* What sizeApprox() reported can be read: a later read() by the same thread
\* falls short only of a larger count, however stale its own index load is.
SizeIsReadable == cpc = "short" => cCount > promised

\* The published, unread elements, as they stand in their slots.
Queued == [i \in 1 .. (written - consumed) |-> data[Wrap(consumed + i - 1)]]

Queue == INSTANCE SpscQueue WITH
  Room <- Capacity - 1, Batches <- UNION {0..k : k \in Counts},
  queue <- Queued, accepted <- written, refused <- overruns, missed <- underruns

\* The buffer implements the bounded FIFO: each release store is one Put or
\* Take, each shortfall one Refuse or Miss, and copying disturbs nothing.
ImplementsQueue == Queue!Spec
=============================================================================
