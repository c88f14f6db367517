-------------------------- MODULE WavRecorderProofs --------------------------
(***************************************************************************)
(* Theorems about WavRecorder, for every number of channels, every size of *)
(* ring, chunk and block, and every bound on a run.                        *)
(*                                                                         *)
(* Nothing lost: what is accepted only moves along Stream, from the ring   *)
(* to the drain to what the writer is given, and a block is later than all *)
(* of it (Orderly), so appending to the ring keeps the order, unless       *)
(* start() met a block in flight (Straggler).  The writer takes whole      *)
(* frames (WholeMoves), and as long as nothing was refused every block     *)
(* went in whole (Unbroken), so what it was given ends with a frame; the   *)
(* file is that or, on a full disk, its beginning (Kept).                  *)
(* The final drain: a block left in the air by stop() is all late (Airborne), *)
(* and a look that finds less than a frame after the request (LastLook)    *)
(* is followed by late samples only.                                       *)
(* The tap a recorder sits in, LiveMultiSource, follows at the end,        *)
(* for any number of recordings.                                           *)
(***************************************************************************)
EXTENDS WavRecorder, LiveMultiSource, FiniteSetTheorems, WellFoundedInduction, TLAPS

-----------------------------------------------------------------------------
(* The inductive invariant.                                                *)

\* A sequence of samples in the order of their frames and channels.
Ordered(s) == \A k \in 1 .. Len(s) - 1 : Before(s[k], s[k + 1])

\* A sequence that is whole frames, one after the other.
Whole(s) == \E q \in Nat : Len(s) = Channels * q
Framed(s) ==
  /\ Whole(s)
  /\ \A k \in 1 .. Len(s) :
       /\ s[k][2] = ((k - 1) % Channels) + 1
       /\ k % Channels # 0 => s[k][1] = s[k + 1][1]

\* A block is later than what was accepted before it, and none of it is accepted
\* before it is written.
Orderly ==
  /\ Ordered(block) /\ Framed(block)
  /\ \A k \in 1 .. Len(block) : block[k][1] <= pushed
  /\ ~stray => /\ Ordered(Stream)
               /\ \A j \in 1 .. Len(Stream) : Stream[j][1] <= pushed
               /\ \A j \in 1 .. Len(Stream), k \in 1 .. Len(block) : Stream[j][1] < block[k][1]

\* A block of an earlier recording was in flight when this one started.
Straggler ==
  /\ ours <= recordings
  /\ ppc = "write" /\ ours # recordings => stray
  /\ ppc = "idle" => block = <<>>

\* The writer moves whole frames, and no more than there are.
WholeMoves ==
  /\ Whole(written) /\ Whole(drain)
  /\ wpc # "write" => drain = <<>>
  /\ wpc = "read" => Channels * avail <= Len(ring)

\* What was accepted adds up, and is whole frames while nothing was refused.
Unbroken ==
  /\ Len(Stream) + overruns = offered
  /\ overruns = 0 /\ ~stray => Framed(Stream)

\* What the file has of what the writer was given and counted.
Kept == FileIsPrefix /\ Len(written) = Channels * framesWritten

\* Where the threads are when the recorder is stopped or not started.
Threads ==
  /\ stopping => stopRequested
  /\ stopRequested => ~active /\ cpc \in {"joining", "idle"}
  /\ cpc # "idle" => ~active
  /\ recordings = 0 => ~stopRequested /\ ~active /\ cpc = "idle"
  /\ ~active /\ cpc = "idle" => wpc \in {"none", "done"}
  /\ wpc = "none" => recordings = 0
  /\ wpc = "done" => stopRequested

\* After stop() has disarmed, a block in the air is late.
Airborne ==
  ~active /\ cpc # "arm" /\ recordings > 0 =>
    Garbage[1] \in late /\ \A k \in 1 .. Len(block) : block[k][1] \in late

\* The samples of the ring that stop() has to wait for.
Due == {k \in 1 .. Len(ring) : ring[k][1] \notin late}

\* Once the writer has looked after the request, they are less than a frame.
LastLook == wpc = "done" \/ (wpc = "empty" /\ stopping) => Cardinality(Due) < Channels

StreamInv == TypeOK /\ Orderly /\ Straggler /\ WholeMoves /\ Unbroken /\ Kept
DrainInv == Threads /\ Airborne /\ LastLook
IInv == StreamInv /\ DrainInv

-----------------------------------------------------------------------------
(* The capacity of the ring: roundUpPow2 always finds a power of two.      *)

\* Adding one and the same new element to sets is one to one.
LEMMA AddIsInjective ==
  ASSUME NEW s, NEW t, NEW e, e \notin s, e \notin t, s \union {e} = t \union {e}
  PROVE  s = t
  OBVIOUS

\* Exponentiation is not known to the provers: 2^k is how many subsets k things have.
LEMMA NextPower ==
  ASSUME NEW k \in Nat
  PROVE  2^(k + 1) = 2^k + 2^k /\ 2^k \in Nat
<1> DEFINE e == k + 1
<1> DEFINE A == SUBSET (1..k)
<1> DEFINE B == {s \union {e} : s \in A}
<1> DEFINE f == [s \in A |-> s \union {e}]
<1>1. /\ IsFiniteSet(1..k) /\ Cardinality(1..k) = k
      /\ IsFiniteSet(1..e) /\ Cardinality(1..e) = e
  BY FS_Interval
<1>2. IsFiniteSet(A) /\ Cardinality(A) = 2^k
  BY <1>1, FS_SUBSET
<1>3. Cardinality(SUBSET (1..e)) = 2^e
  BY <1>1, FS_SUBSET
<1>4. 1..e = (1..k) \union {e} /\ e \notin 1..k
  OBVIOUS
<1> HIDE DEF e
<1>5. \A s \in A : e \notin s
  BY <1>4
<1>6. f \in Bijection(A, B)
  <2>1. \A s, t \in A : f[s] = f[t] => s = t
    <3> SUFFICES ASSUME NEW s \in A, NEW t \in A, f[s] = f[t] PROVE s = t
      OBVIOUS
    <3>1. s \union {e} = t \union {e} /\ e \notin s /\ e \notin t
      BY <1>5
    <3> QED BY <3>1, AddIsInjective
  <2>2. f \in [A -> B]
    OBVIOUS
  <2>3. \A b \in B : \E s \in A : f[s] = b
    OBVIOUS
  <2> HIDE DEF f, A, B
  <2> QED BY <2>1, <2>2, <2>3 DEF Bijection, Injection, Surjection, IsInjective
<1>7. IsFiniteSet(B) /\ Cardinality(B) = Cardinality(A)
  BY <1>2, <1>6, FS_Bijection DEF ExistsBijection
<1>8. A \intersect B = {}
  BY <1>5
<1>9. SUBSET (1..e) = A \union B
  <2>1. ASSUME NEW s \in SUBSET (1..e), e \in s PROVE s \in B
    <3>1. s \ {e} \in A /\ s = (s \ {e}) \union {e}
      BY <1>4, <2>1
    <3> QED BY <3>1
  <2>2. ASSUME NEW s \in SUBSET (1..e), e \notin s PROVE s \in A
    BY <1>4, <2>2
  <2>3. \A s \in A : s \union {e} \in SUBSET (1..e) /\ s \in SUBSET (1..e)
    BY <1>4
  <2>4. \A b \in B : \E s \in A : b = s \union {e}
    OBVIOUS
  <2> HIDE DEF A, B
  <2> QED BY <2>1, <2>2, <2>3, <2>4
<1> HIDE DEF A, B, f
<1>10. Cardinality(A \union B) = Cardinality(A) + Cardinality(B) - Cardinality(A \intersect B)
  BY <1>2, <1>7, FS_Union
<1>11. Cardinality(A) \in Nat /\ Cardinality({}) = 0
  <2>1. Cardinality(A) \in Nat
    BY <1>2, FS_CardinalityType
  <2> QED BY <2>1, FS_EmptySet
<1>12. 2^e = Cardinality(A) + Cardinality(A)
  <2>1. 2^e = Cardinality(A \union B)
    BY <1>3, <1>9
  <2>2. Cardinality(A \intersect B) = 0
    BY <1>8, <1>11
  <2>3. Cardinality(A \union B) = Cardinality(A) + Cardinality(A)
    BY <1>7, <1>10, <1>11, <2>2
  <2> QED BY <2>1, <2>3
<1> QED BY <1>2, <1>11, <1>12 DEF e

LEMMA LeastNatural ==
  ASSUME NEW T \in SUBSET Nat, T # {}
  PROVE  \E m \in T : \A n \in T : m <= n
<1> DEFINE R == OpToRel(<, Nat)
<1>1. IsWellFoundedOn(R, Nat)
  BY NatLessThanWellFounded, Zenon
<1>2. \A n, m \in Nat : n < m => <<n, m>> \in R
  BY Zenon DEF OpToRel
<1> HIDE DEF R
<1>3. PICK m \in T : \A n \in T : ~(<<n, m>> \in R)
  BY <1>1, WFMin
<1>4. ASSUME NEW n \in T PROVE m <= n
  <2>1. ~(n < m)
    BY <1>2, <1>3
  <2> QED BY <2>1
<1> QED BY <1>4

\* Induction, over a set rather than a predicate.
LEMMA Induction ==
  ASSUME NEW T \in SUBSET Nat, 0 \in T, \A n \in T : n + 1 \in T
  PROVE  T = Nat
<1> SUFFICES ASSUME Nat \ T # {} PROVE FALSE
  OBVIOUS
<1>1. PICK m \in Nat \ T : \A n \in Nat \ T : m <= n
  BY LeastNatural
<1>2. m # 0 /\ m - 1 \in Nat /\ m - 1 \in T
  BY <1>1
<1> QED BY <1>1, <1>2

\* A power of two lies above n and not above 2 n.
LEMMA PowerAbove ==
  ASSUME NEW n \in Nat \ {0}
  PROVE  \E k \in 1..n : n < 2^k /\ 2^k <= 2 * n
<1> DEFINE T == {m \in Nat : m = 0 \/ \E k \in 1..m : m < 2^k /\ 2^k <= 2 * m}
<1>1. ASSUME NEW m \in T PROVE m + 1 \in T
  <2>1. CASE m = 0
    <3>1. \E k \in 1..1 : 1 < 2^k /\ 2^k <= 2 * 1
      <4>1. 1 \in 1..1 /\ 1 < 2^1 /\ 2^1 <= 2 * 1
        OBVIOUS
      <4> WITNESS 1 \in 1..1
      <4> QED BY <4>1
    <3>2. 1 \in T
      BY <3>1
    <3> QED BY <2>1, <3>2
  <2>2. CASE m # 0
    <3>1. PICK k \in 1..m : m < 2^k /\ 2^k <= 2 * m
      BY <2>2
    <3>2. 2^(k + 1) = 2^k + 2^k /\ 2^k \in Nat
      BY NextPower
    <3>3. CASE m + 1 < 2^k
      <4>1. k \in 1..(m + 1) /\ 2^k <= 2 * (m + 1)
        BY <3>1, <3>2
      <4> QED BY <3>3, <4>1
    <3>4. CASE ~(m + 1 < 2^k)
      <4> DEFINE p == 2^k
      <4> DEFINE q == 2^(k + 1)
      <4>1. p \in Nat /\ q = p + p /\ m < p /\ p <= 2 * m /\ ~(m + 1 < p)
        BY <3>1, <3>2, <3>4
      <4> HIDE DEF p, q
      <4>2. k + 1 \in 1..(m + 1) /\ m + 1 < q /\ q <= 2 * (m + 1)
        BY <4>1
      <4> QED BY <4>2 DEF q
    <3> QED BY <3>3, <3>4
  <2> QED BY <2>1, <2>2
<1>2. T = Nat
  <2>1. T \in SUBSET Nat /\ 0 \in T
    OBVIOUS
  <2> HIDE DEF T
  <2> QED BY <1>1, <2>1, Induction
<1> QED BY <1>2

\* The ring has room for every frame that was asked for.
LEMMA RoomIsNat == Room \in Nat /\ Channels * RingFrames <= Room
<1> DEFINE asked == Channels * RingFrames
           P == {2^k : k \in 1..asked}
           fits(p) == p \in P /\ asked < p /\ p <= 2 * asked
           slots == CHOOSE p \in P : asked < p /\ p <= 2 * asked
<1>1. asked \in Nat \ {0}
  BY SizesAssumption
<1> HIDE DEF asked
<1>2. PICK k \in 1..asked : asked < 2^k /\ 2^k <= 2 * asked
  BY <1>1, PowerAbove
<1>3. 2^k \in P
  OBVIOUS
<1>4. slots \in P /\ asked < slots
  <2> HIDE DEF P
  <2> QED BY <1>2, <1>3
<1>5. \A p \in P : p \in Nat
  <2> SUFFICES ASSUME NEW j \in 1..asked PROVE 2^j \in Nat
    OBVIOUS
  <2>1. j \in Nat
    BY <1>1
  <2> QED BY <2>1, NextPower
<1>6. Room = slots - 1
  BY DEF Room, asked
<1> HIDE DEF P, slots
<1>7. slots - 1 \in Nat /\ asked <= slots - 1
  BY <1>1, <1>4, <1>5
<1> QED BY <1>6, <1>7 DEF asked

-----------------------------------------------------------------------------
(* Frames: quotients and remainders by the number of channels.             *)

LEMMA DivMod ==
  ASSUME NEW i \in Nat
  PROVE  /\ i % Channels \in 0 .. Channels - 1
         /\ i \div Channels \in Nat
         /\ i = (Channels * (i \div Channels)) + (i % Channels)
  BY SizesAssumption

LEMMA Multiples ==
  ASSUME NEW p \in Nat, NEW q \in Nat, p < q
  PROVE  Channels * p + Channels <= Channels * q
<1>1. PICK d \in Nat : q = p + 1 + d
  <2>1. q - p - 1 \in Nat /\ q = p + 1 + (q - p - 1)
    OBVIOUS
  <2> QED BY <2>1
<1>2. Channels * q = Channels * p + Channels + Channels * d
  BY <1>1, SizesAssumption
<1>3. Channels * d \in Nat /\ Channels * p \in Nat
  BY SizesAssumption
<1> QED BY <1>2, <1>3, SizesAssumption

\* A quotient and a remainder are determined by the number they make.
LEMMA DivModUnique ==
  ASSUME NEW q \in Nat, NEW r \in 0 .. Channels - 1, NEW i, i = Channels * q + r
  PROVE  i \in Nat /\ i \div Channels = q /\ i % Channels = r
<1> DEFINE p == i \div Channels
           s == i % Channels
<1>1. i \in Nat
  BY SizesAssumption
<1>2. s \in 0 .. Channels - 1 /\ p \in Nat /\ i = (Channels * p) + s
  BY <1>1, DivMod
<1> HIDE DEF p, s
<1>3. Channels * p \in Nat /\ Channels * q \in Nat
  BY <1>2, SizesAssumption
<1>4. ~(p < q)
  <2> SUFFICES ASSUME p < q PROVE FALSE
    OBVIOUS
  <2>1. Channels * p + Channels <= Channels * q
    BY <1>2, Multiples
  <2> QED BY <2>1, <1>2, <1>3, SizesAssumption
<1>5. ~(q < p)
  <2> SUFFICES ASSUME q < p PROVE FALSE
    OBVIOUS
  <2>1. Channels * q + Channels <= Channels * p
    BY <1>2, Multiples
  <2> QED BY <2>1, <1>2, <1>3, SizesAssumption
<1>6. p = q
  BY <1>2, <1>4, <1>5
<1>7. s = r
  BY <1>2, <1>3, <1>6, SizesAssumption
<1> QED BY <1>1, <1>6, <1>7 DEF p, s

\* Whole frames in front do not move a sample to another channel.
LEMMA ShiftMod ==
  ASSUME NEW q \in Nat, NEW m \in Nat, NEW i, i = Channels * q + m
  PROVE  i % Channels = m % Channels
<1> DEFINE p == m \div Channels
           r == m % Channels
<1>1. p \in Nat /\ r \in 0 .. Channels - 1 /\ m = Channels * p + r
  BY DivMod
<1> HIDE DEF p, r
<1>2. Channels * (q + p) = Channels * q + Channels * p
  BY <1>1, SizesAssumption
<1>3. Channels * q \in Nat /\ Channels * p \in Nat
  BY <1>1, SizesAssumption
<1>4. i = Channels * (q + p) + r
  BY <1>1, <1>2, <1>3
<1>5. q + p \in Nat
  BY <1>1
<1> QED BY <1>1, <1>4, <1>5, DivModUnique DEF r

\* The next sample is the next channel of the frame or the first of the next frame.
LEMMA NextSample ==
  ASSUME NEW k \in Nat \ {0}
  PROVE  /\ (k - 1) \div Channels \in Nat /\ (k - 1) % Channels \in 0 .. Channels - 1
         /\ k % Channels # 0 => /\ k \div Channels = (k - 1) \div Channels
                                /\ k % Channels = ((k - 1) % Channels) + 1
         /\ k % Channels = 0 => k \div Channels = (k - 1) \div Channels + 1
<1> DEFINE p == (k - 1) \div Channels
           r == (k - 1) % Channels
<1>1. p \in Nat /\ r \in 0 .. Channels - 1 /\ k - 1 = Channels * p + r
  BY DivMod
<1> HIDE DEF p, r
<1>2. Channels * p \in Nat /\ Channels \in Nat \ {0}
  BY <1>1, SizesAssumption
<1>3. CASE r = Channels - 1
  <2>1. Channels * (p + 1) = Channels * p + Channels
    BY <1>1, SizesAssumption
  <2>2. k = Channels * (p + 1) + 0
    BY <1>1, <1>2, <1>3, <2>1
  <2>3. p + 1 \in Nat /\ 0 \in 0 .. Channels - 1
    BY <1>1, <1>2
  <2>4. k \div Channels = p + 1 /\ k % Channels = 0
    BY <2>2, <2>3, DivModUnique
  <2> QED BY <1>1, <2>4 DEF p, r
<1>4. CASE r # Channels - 1
  <2>1. k = Channels * p + (r + 1) /\ r + 1 \in 0 .. Channels - 1 /\ r + 1 # 0
    BY <1>1, <1>2, <1>4
  <2>2. k \div Channels = p /\ k % Channels = r + 1
    BY <1>1, <2>1, DivModUnique
  <2> QED BY <1>1, <2>1, <2>2 DEF p, r
<1> QED BY <1>3, <1>4

-----------------------------------------------------------------------------
(* Sequences.                                                              *)

LEMMA JoinIs ==
  ASSUME NEW S, NEW s \in Seq(S), NEW t \in Seq(S)
  PROVE  /\ s \o t \in Seq(S) /\ Len(s \o t) = Len(s) + Len(t)
         /\ Len(s) \in Nat /\ Len(t) \in Nat
         /\ \A k \in 1 .. Len(s) : (s \o t)[k] = s[k]
         /\ \A k \in 1 .. Len(t) : (s \o t)[Len(s) + k] = t[k]
  OBVIOUS

LEMMA JoinCovers ==
  ASSUME NEW S, NEW s \in Seq(S), NEW t \in Seq(S), NEW k \in 1 .. Len(s \o t)
  PROVE  \/ k \in 1 .. Len(s) /\ (s \o t)[k] = s[k]
         \/ k - Len(s) \in 1 .. Len(t) /\ (s \o t)[k] = t[k - Len(s)]
  OBVIOUS

LEMMA SameSequence ==
  ASSUME NEW S, NEW s \in Seq(S), NEW t \in Seq(S), Len(s) = Len(t),
         \A k \in 1 .. Len(s) : s[k] = t[k]
  PROVE  s = t
  OBVIOUS

LEMMA PrefixIs ==
  ASSUME NEW S, NEW t \in Seq(S), NEW n \in 0 .. Len(t)
  PROVE  /\ SubSeq(t, 1, n) \in Seq(S) /\ Len(SubSeq(t, 1, n)) = n
         /\ \A k \in 1 .. n : SubSeq(t, 1, n)[k] = t[k]
  OBVIOUS

LEMMA SuffixIs ==
  ASSUME NEW S, NEW t \in Seq(S), NEW n \in 0 .. Len(t)
  PROVE  /\ SubSeq(t, n + 1, Len(t)) \in Seq(S) /\ Len(SubSeq(t, n + 1, Len(t))) = Len(t) - n
         /\ \A k \in 1 .. (Len(t) - n) : SubSeq(t, n + 1, Len(t))[k] = t[n + k]
  OBVIOUS

LEMMA WholePrefix ==
  ASSUME NEW S, NEW t \in Seq(S)
  PROVE  SubSeq(t, 1, Len(t)) = t
<1>1. Len(t) \in 0 .. Len(t)
  OBVIOUS
<1> QED BY <1>1, PrefixIs, SameSequence

\* A sequence is its front and its rest.
LEMMA Rejoin ==
  ASSUME NEW S, NEW t \in Seq(S), NEW n \in 0 .. Len(t)
  PROVE  SubSeq(t, 1, n) \o SubSeq(t, n + 1, Len(t)) = t
<1> DEFINE a == SubSeq(t, 1, n)
           b == SubSeq(t, n + 1, Len(t))
<1>1. a \in Seq(S) /\ Len(a) = n /\ \A k \in 1 .. n : a[k] = t[k]
  BY PrefixIs
<1>2. b \in Seq(S) /\ Len(b) = Len(t) - n /\ \A k \in 1 .. (Len(t) - n) : b[k] = t[n + k]
  BY SuffixIs
<1>3. Len(t) \in Nat /\ n \in Nat /\ n <= Len(t) /\ n + (Len(t) - n) = Len(t)
  OBVIOUS
<1> HIDE DEF a, b
<1>4. /\ a \o b \in Seq(S) /\ Len(a \o b) = Len(t)
      /\ \A k \in 1 .. n : (a \o b)[k] = a[k]
      /\ \A k \in 1 .. (Len(t) - n) : (a \o b)[n + k] = b[k]
  BY <1>1, <1>2, <1>3, JoinIs
<1>5. ASSUME NEW k \in 1 .. Len(t) PROVE (a \o b)[k] = t[k]
  <2>1. CASE k <= n
    <3>1. k \in 1 .. n
      BY <2>1
    <3> QED BY <1>1, <1>4, <3>1
  <2>2. CASE n < k
    <3> DEFINE j == k - n
    <3>1. j \in 1 .. (Len(t) - n) /\ k = n + j
      BY <1>3, <2>2
    <3> HIDE DEF j
    <3> QED BY <1>2, <1>4, <3>1
  <2>3. k \in Nat
    BY <1>3
  <2>4. k <= n \/ n < k
    BY <1>3, <2>3
  <2> QED BY <2>1, <2>2, <2>4
<1>6. a \o b = t
  BY <1>4, <1>5, SameSequence
<1> QED BY <1>6 DEF a, b

LEMMA JoinEmpty ==
  ASSUME NEW S, NEW s \in Seq(S)
  PROVE  s \o <<>> = s
<1>1. <<>> \in Seq(S) /\ Len(<<>>) = 0
  OBVIOUS
<1>2. s \o <<>> \in Seq(S) /\ Len(s \o <<>>) = Len(s)
  BY <1>1, JoinIs
<1>3. \A k \in 1 .. Len(s) : (s \o <<>>)[k] = s[k]
  BY <1>1, JoinIs
<1> QED BY <1>2, <1>3, SameSequence

LEMMA JoinAssoc ==
  ASSUME NEW S, NEW s \in Seq(S), NEW t \in Seq(S), NEW u \in Seq(S)
  PROVE  (s \o t) \o u = s \o (t \o u)
<1> DEFINE a == (s \o t) \o u
           b == s \o (t \o u)
<1>1. /\ s \o t \in Seq(S) /\ t \o u \in Seq(S)
      /\ Len(s \o t) = Len(s) + Len(t) /\ Len(t \o u) = Len(t) + Len(u)
      /\ Len(s) \in Nat /\ Len(t) \in Nat /\ Len(u) \in Nat
  BY JoinIs
<1>2. a \in Seq(S) /\ b \in Seq(S) /\ Len(a) = Len(s) + Len(t) + Len(u) /\ Len(b) = Len(a)
  BY <1>1, JoinIs
<1>3. ASSUME NEW k \in 1 .. Len(a) PROVE a[k] = b[k]
  <2>1. CASE k <= Len(s)
    <3>1. k \in 1 .. Len(s) /\ k \in 1 .. Len(s \o t)
      BY <1>1, <2>1
    <3>2. a[k] = (s \o t)[k] /\ (s \o t)[k] = s[k] /\ b[k] = s[k]
      BY <1>1, <3>1, JoinIs
    <3> QED BY <3>2
  <2>2. CASE Len(s) < k /\ k <= Len(s) + Len(t)
    <3> DEFINE j == k - Len(s)
    <3>1. j \in 1 .. Len(t) /\ j \in 1 .. Len(t \o u) /\ k \in 1 .. Len(s \o t) /\ k = Len(s) + j
      BY <1>1, <2>2
    <3> HIDE DEF j
    <3>2. a[k] = (s \o t)[k] /\ (s \o t)[Len(s) + j] = t[j]
      BY <1>1, <3>1, JoinIs
    <3>3. b[Len(s) + j] = (t \o u)[j] /\ (t \o u)[j] = t[j]
      BY <1>1, <3>1, JoinIs
    <3> QED BY <3>1, <3>2, <3>3
  <2>3. CASE Len(s) + Len(t) < k
    <3> DEFINE j == k - Len(s) - Len(t)
               l == Len(t) + j
    <3>1. /\ j \in 1 .. Len(u) /\ l \in 1 .. Len(t \o u) /\ l = Len(t) + j
          /\ k = Len(s \o t) + j /\ k = Len(s) + l
      BY <1>1, <1>2, <2>3
    <3> HIDE DEF j, l
    <3>2. a[Len(s \o t) + j] = u[j]
      BY <1>1, <3>1, JoinIs
    <3>3. b[Len(s) + l] = (t \o u)[l] /\ (t \o u)[Len(t) + j] = u[j]
      BY <1>1, <3>1, JoinIs
    <3> QED BY <3>1, <3>2, <3>3
  <2> QED BY <1>1, <2>1, <2>2, <2>3
<1> HIDE DEF a, b
<1>4. a = b
  BY <1>2, <1>3, SameSequence
<1> QED BY <1>4 DEF a, b

-----------------------------------------------------------------------------
(* Sequences of samples.                                                   *)

LEMMA SampleIs ==
  ASSUME NEW s \in Seq(Samples), NEW k \in 1 .. Len(s)
  PROVE  s[k] \in Samples /\ s[k][1] \in 0 .. MaxFrames /\ s[k][2] \in 0 .. Channels
  BY DEF Samples

LEMMA EmptyIs == /\ <<>> \in Seq(Samples) /\ Len(<<>>) = 0
                 /\ Ordered(<<>>) /\ Whole(<<>>) /\ Framed(<<>>)
<1>1. <<>> \in Seq(Samples) /\ Len(<<>>) = 0 /\ Channels * 0 = 0
  BY SizesAssumption
<1>2. Whole(<<>>)
  BY <1>1 DEF Whole
<1> QED BY <1>1, <1>2 DEF Ordered, Framed

LEMMA OrderedJoin ==
  ASSUME NEW s \in Seq(Samples), NEW t \in Seq(Samples), Ordered(s), Ordered(t),
         \A j \in 1 .. Len(s), k \in 1 .. Len(t) : s[j][1] < t[k][1]
  PROVE  Ordered(s \o t)
<1>1. /\ Len(s \o t) = Len(s) + Len(t) /\ Len(s) \in Nat /\ Len(t) \in Nat
      /\ \A k \in 1 .. Len(s) : (s \o t)[k] = s[k]
      /\ \A k \in 1 .. Len(t) : (s \o t)[Len(s) + k] = t[k]
  BY JoinIs
<1> DEFINE u == s \o t
<1> HIDE DEF u
<1>2. ASSUME NEW k \in 1 .. Len(u) - 1 PROVE Before(u[k], u[k + 1])
  <2>1. CASE k + 1 <= Len(s)
    <3>1. k \in 1 .. Len(s) - 1 /\ k \in 1 .. Len(s) /\ k + 1 \in 1 .. Len(s)
      BY <1>1, <2>1 DEF u
    <3> QED BY <1>1, <3>1 DEF u, Ordered
  <2>2. CASE k = Len(s)
    <3>1. k \in 1 .. Len(s) /\ 1 \in 1 .. Len(t)
      BY <1>1, <2>2 DEF u
    <3>2. u[k] = s[k] /\ u[k + 1] = t[1]
      BY <1>1, <2>2, <3>1 DEF u
    <3> QED BY <3>1, <3>2 DEF Before
  <2>3. CASE Len(s) < k
    <3> DEFINE j == k - Len(s)
    <3>1. /\ j \in 1 .. Len(t) - 1 /\ j \in 1 .. Len(t) /\ j + 1 \in 1 .. Len(t)
          /\ k = Len(s) + j /\ k + 1 = Len(s) + (j + 1)
      BY <1>1, <2>3 DEF u
    <3> HIDE DEF j
    <3>2. u[Len(s) + j] = t[j] /\ u[Len(s) + (j + 1)] = t[j + 1]
      BY <1>1, <3>1 DEF u
    <3>3. Before(t[j], t[j + 1])
      BY <3>1 DEF Ordered
    <3> QED BY <3>1, <3>2, <3>3
  <2>4. k \in Nat
    BY <1>1 DEF u
  <2> QED BY <1>1, <2>1, <2>2, <2>3, <2>4
<1> QED BY <1>2 DEF u, Ordered

LEMMA OrderedPrefix ==
  ASSUME NEW t \in Seq(Samples), Ordered(t), NEW n \in 0 .. Len(t)
  PROVE  Ordered(SubSeq(t, 1, n))
<1> DEFINE u == SubSeq(t, 1, n)
<1>1. Len(u) = n /\ \A k \in 1 .. n : u[k] = t[k]
  BY PrefixIs
<1>2. Len(t) \in Nat
  OBVIOUS
<1> HIDE DEF u
<1>3. \A k \in 1 .. Len(u) - 1 : k \in 1 .. n /\ k + 1 \in 1 .. n /\ k \in 1 .. Len(t) - 1
  BY <1>1, <1>2
<1>4. \A k \in 1 .. Len(u) - 1 : Before(u[k], u[k + 1])
  BY <1>1, <1>3 DEF Ordered
<1> QED BY <1>4 DEF Ordered, u

LEMMA WholeJoin ==
  ASSUME NEW s \in Seq(Samples), NEW t \in Seq(Samples), Whole(s), Whole(t)
  PROVE  Whole(s \o t)
<1>1. PICK p \in Nat : Len(s) = Channels * p
  BY DEF Whole
<1>2. PICK q \in Nat : Len(t) = Channels * q
  BY DEF Whole
<1>3. Channels * (p + q) = Channels * p + Channels * q /\ p + q \in Nat
  BY SizesAssumption
<1>4. Len(s \o t) = Len(s) + Len(t)
  BY JoinIs
<1>5. Len(s \o t) = Channels * (p + q)
  BY <1>1, <1>2, <1>3, <1>4
<1> QED BY <1>3, <1>5 DEF Whole

\* Every sample of whole frames but a last channel has its successor.
LEMMA WholeGoesOn ==
  ASSUME NEW s \in Seq(Samples), Whole(s), NEW k \in 1 .. Len(s), k % Channels # 0
  PROVE  k + 1 \in 1 .. Len(s)
<1>1. PICK q \in Nat : Len(s) = Channels * q
  BY DEF Whole
<1>2. Len(s) \in Nat
  OBVIOUS
<1>3. ASSUME k = Len(s) PROVE FALSE
  <2>1. Channels * q \in Nat /\ k = Channels * q + 0 /\ 0 \in 0 .. Channels - 1
    BY <1>1, <1>2, <1>3, SizesAssumption
  <2> QED BY <2>1, DivModUnique
<1> QED BY <1>2, <1>3

LEMMA FramedJoin ==
  ASSUME NEW s \in Seq(Samples), NEW t \in Seq(Samples), Framed(s), Framed(t)
  PROVE  Framed(s \o t)
<1> DEFINE u == s \o t
<1>1. /\ u \in Seq(Samples) /\ Len(u) = Len(s) + Len(t) /\ Len(s) \in Nat /\ Len(t) \in Nat
      /\ \A k \in 1 .. Len(s) : u[k] = s[k]
      /\ \A k \in 1 .. Len(t) : u[Len(s) + k] = t[k]
  BY JoinIs
<1>2. Whole(u)
  BY WholeJoin DEF Framed
<1> HIDE DEF u
<1>3. PICK q \in Nat : Len(s) = Channels * q
  BY DEF Framed, Whole
<1>4. ASSUME NEW k \in 1 .. Len(u)
      PROVE  /\ u[k][2] = ((k - 1) % Channels) + 1
             /\ k % Channels # 0 => u[k][1] = u[k + 1][1]
  <2>1. CASE k <= Len(s)
    <3>1. k \in 1 .. Len(s) /\ u[k] = s[k]
      BY <1>1, <2>1
    <3>2. k % Channels # 0 => u[k + 1] = s[k + 1]
      BY <1>1, <3>1, WholeGoesOn DEF Framed
    <3> QED BY <3>1, <3>2 DEF Framed
  <2>2. CASE Len(s) < k
    <3> DEFINE j == k - Len(s)
    <3>1. /\ j \in 1 .. Len(t) /\ j \in Nat /\ j - 1 \in Nat
          /\ k = Len(s) + j /\ k - 1 = Len(s) + (j - 1) /\ k + 1 = Len(s) + (j + 1)
      BY <1>1, <2>2
    <3> HIDE DEF j
    <3>2. k = Channels * q + j /\ k - 1 = Channels * q + (j - 1)
      BY <1>3, <3>1
    <3>3. k % Channels = j % Channels
      BY <3>1, <3>2, ShiftMod
    <3>4. (k - 1) % Channels = (j - 1) % Channels
      BY <3>1, <3>2, ShiftMod
    <3>5. u[k] = t[j]
      BY <1>1, <3>1
    <3>6. ASSUME j % Channels # 0 PROVE u[k + 1] = t[j + 1] /\ t[j][1] = t[j + 1][1]
      <4>1. j + 1 \in 1 .. Len(t)
        BY <3>1, <3>6, WholeGoesOn DEF Framed
      <4> QED BY <1>1, <3>1, <3>6, <4>1 DEF Framed
    <3>7. t[j][2] = ((j - 1) % Channels) + 1
      BY <3>1 DEF Framed
    <3> QED BY <3>3, <3>4, <3>5, <3>6, <3>7
  <2> QED BY <1>1, <2>1, <2>2
<1> QED BY <1>2, <1>4 DEF Framed, u

\* The front of whole frames that is whole frames itself.
LEMMA FramedFront ==
  ASSUME NEW s \in Seq(Samples), NEW t \in Seq(Samples), Framed(s \o t), Whole(s)
  PROVE  Framed(s)
<1> DEFINE u == s \o t
<1>1. /\ Len(u) = Len(s) + Len(t) /\ Len(s) \in Nat /\ Len(t) \in Nat
      /\ \A k \in 1 .. Len(s) : u[k] = s[k]
  BY JoinIs
<1>2. Framed(u)
  OBVIOUS
<1> HIDE DEF u
<1>3. ASSUME NEW k \in 1 .. Len(s)
      PROVE  /\ s[k][2] = ((k - 1) % Channels) + 1
             /\ k % Channels # 0 => s[k][1] = s[k + 1][1]
  <2>1. k \in 1 .. Len(u) /\ u[k] = s[k]
    BY <1>1
  <2>2. k % Channels # 0 => u[k + 1] = s[k + 1]
    BY <1>1, WholeGoesOn
  <2> QED BY <1>2, <2>1, <2>2 DEF Framed
<1> QED BY <1>3 DEF Framed

\* What pushBlock() interleaves: whole frames in order, the frames that are asked for.
LEMMA InterleaveIs ==
  ASSUME NEW first \in Nat \ {0}, NEW frames \in Nat, first + frames - 1 <= MaxFrames
  PROVE  LET b == Interleave(first, frames) IN
           /\ b \in Seq(Samples) /\ Framed(b) /\ Ordered(b)
           /\ \A k \in 1 .. Len(b) : first <= b[k][1] /\ b[k][1] <= first + frames - 1
<1> DEFINE n == frames * Channels
           b == Interleave(first, frames)
           p(k) == (k - 1) \div Channels
           r(k) == (k - 1) % Channels
<1>1. n \in Nat /\ n = Channels * frames
  BY SizesAssumption
<1>2. b = [k \in 1 .. n |-> <<first + p(k), r(k) + 1>>]
  BY DEF Interleave
<1> HIDE DEF n, b
<1>3. \A k \in 1 .. n : k \in Nat \ {0} /\ k - 1 \in Nat
  BY <1>1
<1>4. ASSUME NEW k \in 1 .. n PROVE p(k) \in 0 .. frames - 1 /\ r(k) \in 0 .. Channels - 1
  <2>1. p(k) \in Nat /\ r(k) \in 0 .. Channels - 1 /\ k - 1 = Channels * p(k) + r(k)
    BY <1>3, DivMod
  <2> DEFINE q == p(k)
  <2> HIDE DEF q
  <2>2. ~(frames <= q)
    <3> SUFFICES ASSUME frames <= q PROVE FALSE
      OBVIOUS
    <3>1. Channels * frames <= Channels * q
      <4>1. CASE frames = q
        <5>1. Channels * q \in Nat
          BY <2>1, SizesAssumption DEF q
        <5> QED BY <4>1, <5>1
      <4>2. CASE frames < q
        <5>1. Channels * frames + Channels <= Channels * q
          BY <2>1, <4>2, Multiples DEF q
        <5>2. Channels * q \in Nat /\ Channels * frames \in Nat /\ Channels \in Nat
          BY <2>1, SizesAssumption DEF q
        <5> QED BY <5>1, <5>2
      <4> QED BY <2>1, <4>1, <4>2 DEF q
    <3>2. k - 1 = Channels * q + r(k) /\ r(k) \in Nat /\ Channels * q \in Nat
      BY <2>1, SizesAssumption DEF q
    <3> QED BY <1>1, <1>3, <3>1, <3>2
  <2> QED BY <2>1, <2>2 DEF q
<1>5. \A k \in 1 .. n : b[k] = <<first + p(k), r(k) + 1>>
  BY <1>2
<1> HIDE DEF p, r
<1>6. \A k \in 1 .. n : first <= first + p(k) /\ first + p(k) <= first + frames - 1
  BY <1>4
<1>7. b \in Seq(Samples) /\ Len(b) = n
  <2>1. \A k \in 1 .. n : <<first + p(k), r(k) + 1>> \in Samples
    <3> SUFFICES ASSUME NEW k \in 1 .. n PROVE <<first + p(k), r(k) + 1>> \in Samples
      OBVIOUS
    <3>1. first + p(k) \in 0 .. MaxFrames /\ r(k) + 1 \in 0 .. Channels
      BY <1>4, <1>6, SizesAssumption, BoundsAssumption
    <3> QED BY <3>1 DEF Samples
  <2> QED BY <1>1, <1>2, <2>1 DEF p, r
<1>8. \A k \in 1 .. Len(b) : b[k][1] = first + p(k) /\ b[k][2] = r(k) + 1
  BY <1>5, <1>7
<1>9. Framed(b)
  <2>1. Whole(b)
    BY <1>1, <1>7 DEF Whole
  <2>2. ASSUME NEW k \in 1 .. Len(b), k % Channels # 0 PROVE b[k][1] = b[k + 1][1]
    <3>1. k \in Nat \ {0} /\ k + 1 \in 1 .. Len(b) /\ (k + 1) - 1 = k
      BY <1>3, <1>7, <2>1, <2>2, WholeGoesOn
    <3>2. k \div Channels = p(k)
      BY <2>2, <3>1, NextSample DEF p
    <3>3. p(k + 1) = k \div Channels
      BY <3>1 DEF p
    <3> QED BY <1>8, <3>1, <3>2, <3>3
  <2>3. \A k \in 1 .. Len(b) : b[k][2] = ((k - 1) % Channels) + 1
    BY <1>8 DEF r
  <2> QED BY <2>1, <2>2, <2>3 DEF Framed
<1>10. Ordered(b)
  <2> SUFFICES ASSUME NEW k \in 1 .. Len(b) - 1 PROVE Before(b[k], b[k + 1])
    BY DEF Ordered
  <2>1. /\ k \in 1 .. Len(b) /\ k + 1 \in 1 .. Len(b) /\ k \in Nat \ {0} /\ (k + 1) - 1 = k
        /\ k \in 1 .. n /\ k + 1 \in 1 .. n
    BY <1>1, <1>7
  <2>2. p(k + 1) = k \div Channels /\ r(k + 1) = k % Channels
    BY <2>1 DEF p, r
  <2>3. \/ p(k + 1) = p(k) /\ r(k + 1) = r(k) + 1
        \/ p(k + 1) = p(k) + 1
    BY <2>1, <2>2, NextSample DEF p, r
  <2>4. /\ b[k][1] = first + p(k) /\ b[k + 1][1] = first + p(k + 1)
        /\ b[k][2] = r(k) + 1 /\ b[k + 1][2] = r(k + 1) + 1
    BY <1>8, <2>1
  <2>5. p(k) \in Nat /\ r(k) \in Nat
    BY <1>4, <2>1, SizesAssumption
  <2> QED BY <2>3, <2>4, <2>5 DEF Before
<1> QED BY <1>6, <1>7, <1>8, <1>9, <1>10 DEF b

-----------------------------------------------------------------------------
(* What is accepted, on its way to the file.                               *)

LEMMA StreamIs ==
  ASSUME TypeOK
  PROVE  /\ written \o drain \in Seq(Samples) /\ Stream \in Seq(Samples)
         /\ Len(Stream) = Len(written) + Len(drain) + Len(ring)
         /\ Len(written) \in Nat /\ Len(drain) \in Nat /\ Len(ring) \in Nat
<1>1. written \in Seq(Samples) /\ drain \in Seq(Samples) /\ ring \in Seq(Samples)
  BY DEF TypeOK
<1>2. written \o drain \in Seq(Samples) /\ Len(written \o drain) = Len(written) + Len(drain)
  BY <1>1, JoinIs
<1>3. Stream \in Seq(Samples) /\ Len(Stream) = Len(written \o drain) + Len(ring)
  BY <1>1, <1>2, JoinIs DEF Stream
<1> QED BY <1>1, <1>2, <1>3

\* What joins the ring joins the stream.
LEMMA StreamJoin ==
  ASSUME TypeOK, NEW part \in Seq(Samples)
  PROVE  (written \o drain) \o (ring \o part) = Stream \o part
<1> DEFINE lead == written \o drain
<1>1. lead \in Seq(Samples)
  BY StreamIs
<1>2. ring \in Seq(Samples)
  BY DEF TypeOK
<1> HIDE DEF lead
<1>3. (lead \o ring) \o part = lead \o (ring \o part)
  BY <1>1, <1>2, JoinAssoc
<1> QED BY <1>3 DEF Stream, lead

LEMMA LeastIs ==
  ASSUME NEW m \in Nat, NEW n \in Nat
  PROVE  /\ Least(m, n) \in Nat /\ Least(m, n) <= m /\ Least(m, n) <= n
         /\ Least(m, n) = m \/ Least(m, n) = n
  BY DEF Least

LEMMA InitStream == Init => StreamInv
<1> SUFFICES ASSUME Init PROVE StreamInv
  OBVIOUS
<1>1. /\ written = <<>> /\ file = <<>> /\ framesWritten = 0 /\ drain = <<>> /\ ring = <<>> /\ block = <<>>
      /\ overruns = 0 /\ offered = 0 /\ pushed = 0 /\ recordings = 0 /\ ours = 0
  BY DEF Init
<1>2. TypeOK
  <2>1. <<>> \in Seq(Samples) /\ Len(<<>>) <= Room /\ 0 \in 0 .. Room
    BY RoomIsNat, EmptyIs
  <2>2. 0 \in 0 .. MaxRecordings /\ 0 \in 0 .. MaxFrames /\ 0 \in Nat
    BY BoundsAssumption
  <2> QED BY <2>1, <2>2 DEF Init, TypeOK
<1>3. Stream = <<>>
  BY <1>1, EmptyIs, JoinEmpty DEF Stream
<1>4. Kept
  <2>1. Channels * 0 = 0
    BY SizesAssumption
  <2> QED BY <1>1, <2>1, EmptyIs DEF Kept, FileIsPrefix
<1>5. Orderly /\ Unbroken
  BY <1>1, <1>3, EmptyIs DEF Orderly, Unbroken
<1>6. WholeMoves /\ Straggler
  BY <1>1, EmptyIs DEF Init, WholeMoves, Straggler
<1> QED BY <1>2, <1>4, <1>5, <1>6 DEF StreamInv

\* Steps that leave the samples where they are.
LEMMA StreamFrame ==
  ASSUME StreamInv, TypeOK', UNCHANGED <<ring, overruns, offered, pushVars, drain, file, full, written, framesWritten, stray,
                                recordings>>,
         wpc' # "write" => drain = <<>>,
         wpc' = "read" => Channels * avail' <= Len(ring)
  PROVE  StreamInv'
<1>1. Stream' = Stream
  BY DEF Stream
<1>2. Kept'
  BY DEF StreamInv, Kept, FileIsPrefix
<1> QED BY <1>1, <1>2 DEF StreamInv, Orderly, Straggler, WholeMoves, Unbroken, pushVars

LEMMA StartStream ==
  ASSUME StreamInv, Start
  PROVE  StreamInv'
<1>1. /\ written' = <<>> /\ file' = <<>> /\ framesWritten' = 0
      /\ drain' = <<>> /\ ring' = <<>> /\ overruns' = 0 /\ offered' = 0 /\ wpc' = "top"
      /\ recordings' = recordings + 1 /\ stray' = (ppc = "write") /\ UNCHANGED pushVars
  BY DEF Start
<1>2. TypeOK'
  <2>1. <<>> \in Seq(Samples) /\ Len(<<>>) <= Room /\ 0 \in 0 .. Room
    BY RoomIsNat, EmptyIs
  <2>2. recordings' \in 0 .. MaxRecordings
    BY BoundsAssumption DEF StreamInv, TypeOK, Start
  <2> QED BY <2>1, <2>2 DEF StreamInv, TypeOK, Start, pushVars
<1>3. Stream' = <<>>
  BY <1>1, EmptyIs, JoinEmpty DEF Stream
<1>4. Kept'
  <2>1. Channels * 0 = 0
    BY SizesAssumption
  <2> QED BY <1>1, <2>1, EmptyIs DEF Kept, FileIsPrefix
<1>5. Orderly' /\ Unbroken'
  BY <1>1, <1>3, EmptyIs DEF StreamInv, Orderly, Unbroken, pushVars
<1>6. WholeMoves'
  BY <1>1, EmptyIs DEF WholeMoves
<1>7. Straggler'
  <2>1. recordings \in Nat /\ ours \in Nat
    BY DEF StreamInv, TypeOK
  <2>2. ours' = ours /\ ppc' = ppc /\ block' = block /\ ours <= recordings
    BY <1>1 DEF StreamInv, Straggler, pushVars
  <2>3. ppc' = "write" => stray'
    BY <1>1, <2>2
  <2> QED BY <1>1, <2>1, <2>2, <2>3 DEF StreamInv, Straggler
<1> QED BY <1>2, <1>4, <1>5, <1>6, <1>7 DEF StreamInv

LEMMA ControlStream ==
  ASSUME StreamInv, Arm \/ Disarm \/ RequestStop \/ Join
  PROVE  StreamInv'
<1>1. UNCHANGED <<ringVars, recordings, stray, pushVars, writerVars>>
  BY DEF Arm, Disarm, RequestStop, Join
<1>2. late' \subseteq 0 .. MaxFrames
  <2>1. late' = late \/ late' = {block[k][1] : k \in 1 .. Len(block)} \union {Garbage[1]}
    BY DEF Arm, Disarm, RequestStop, Join
  <2>2. block \in Seq(Samples) /\ late \subseteq 0 .. MaxFrames
    BY DEF StreamInv, TypeOK
  <2>3. \A k \in 1 .. Len(block) : block[k][1] \in 0 .. MaxFrames
    BY <2>2, SampleIs
  <2>4. {block[k][1] : k \in 1 .. Len(block)} \union {Garbage[1]} \subseteq 0 .. MaxFrames
    BY <2>3, BoundsAssumption DEF Garbage
  <2> QED BY <2>1, <2>2, <2>4
<1>3. /\ active' \in BOOLEAN /\ stopRequested' \in BOOLEAN
      /\ cpc' \in {"idle", "arm", "disarmed", "joining"}
  BY DEF StreamInv, TypeOK, Arm, Disarm, RequestStop, Join
<1>4. TypeOK'
  BY <1>1, <1>2, <1>3 DEF StreamInv, TypeOK, ringVars, pushVars, writerVars
<1> QED BY <1>1, <1>4, StreamFrame DEF StreamInv, WholeMoves, ringVars, pushVars, writerVars

LEMMA PushBeginStream ==
  ASSUME StreamInv, NEW n \in BlockSizes, PushBegin(n)
  PROVE  StreamInv'
<1> DEFINE frames == Least(n, ChunkFrames)
           b == Interleave(pushed + 1, frames)
<1>1. /\ block' = b /\ pushed' = pushed + frames /\ pushed + frames <= MaxFrames
      /\ UNCHANGED <<ringVars, ctlVars, writerVars>>
      /\ ours' = recordings /\ ppc' = "write"
  BY DEF PushBegin
<1>2. frames \in Nat /\ pushed \in Nat
  <2>1. n \in Nat /\ ChunkFrames \in Nat /\ pushed \in Nat
    BY SizesAssumption, BoundsAssumption DEF StreamInv, TypeOK
  <2> QED BY <2>1, LeastIs
<1> HIDE DEF frames
<1>3. /\ b \in Seq(Samples) /\ Framed(b) /\ Ordered(b)
      /\ \A k \in 1 .. Len(b) : pushed + 1 <= b[k][1] /\ b[k][1] <= pushed + 1 + frames - 1
  <2> DEFINE first == pushed + 1
  <2>1. first \in Nat \ {0} /\ first + frames - 1 <= MaxFrames /\ b = Interleave(first, frames)
    BY <1>1, <1>2, BoundsAssumption
  <2> HIDE DEF first, b
  <2>2. /\ b \in Seq(Samples) /\ Framed(b) /\ Ordered(b)
        /\ \A k \in 1 .. Len(b) : first <= b[k][1] /\ b[k][1] <= first + frames - 1
    BY <1>2, <2>1, InterleaveIs
  <2> QED BY <2>2 DEF first
<1> HIDE DEF b
<1>4. TypeOK'
  BY <1>1, <1>2, <1>3, BoundsAssumption
  DEF StreamInv, TypeOK, ringVars, ctlVars, writerVars
<1>5. Stream' = Stream
  BY <1>1 DEF Stream, ringVars, writerVars
<1>6. Orderly'
  <2>1. ASSUME ~stray, NEW j \in 1 .. Len(Stream) PROVE Stream[j][1] <= pushed /\ Stream[j][1] \in Nat
    <3>1. Stream[j][1] \in 0 .. MaxFrames
      BY StreamIs, SampleIs DEF StreamInv
    <3> QED BY <2>1, <3>1 DEF StreamInv, Orderly
  <2>2. ASSUME NEW k \in 1 .. Len(b)
        PROVE  b[k][1] \in Nat /\ pushed < b[k][1] /\ b[k][1] <= pushed + frames
    <3>1. b[k][1] \in 0 .. MaxFrames
      BY <1>3, SampleIs
    <3> QED BY <1>2, <1>3, <3>1
  <2>3. ~stray => Ordered(Stream)
    BY DEF StreamInv, Orderly
  <2>4. ~stray => \A j \in 1 .. Len(Stream) : Stream[j][1] <= pushed + frames
    BY <1>2, <2>1
  <2>5. ~stray => \A j \in 1 .. Len(Stream), k \in 1 .. Len(b) : Stream[j][1] < b[k][1]
    BY <1>2, <2>1, <2>2
  <2>6. stray' = stray
    BY <1>1 DEF ctlVars
  <2> QED BY <1>1, <1>3, <1>5, <2>2, <2>3, <2>4, <2>5, <2>6 DEF Orderly
<1>7. WholeMoves' /\ Unbroken' /\ Kept'
  BY <1>1, <1>5 DEF StreamInv, WholeMoves, Unbroken, Kept, FileIsPrefix, ringVars, ctlVars, writerVars
<1>8. Straggler'
  BY <1>1 DEF StreamInv, TypeOK, Straggler, ctlVars
<1> QED BY <1>4, <1>6, <1>7, <1>8 DEF StreamInv

\* The ring takes a block, or the front of it.
LEMMA AcceptStream ==
  ASSUME StreamInv, NEW samples \in Seq(Samples), Len(samples) = Len(block), Accept(samples),
         samples = block \/ stray,
         block' = <<>>, ppc' = "idle", UNCHANGED <<ctlVars, ours, pushed, writerVars>>
  PROVE  StreamInv'
<1> DEFINE T == Taken
           part == SubSeq(samples, 1, T)
<1>1. TypeOK
  BY DEF StreamInv
<1>2. /\ block \in Seq(Samples) /\ ring \in Seq(Samples) /\ Len(block) \in Nat /\ Len(ring) \in Nat
      /\ Room \in Nat /\ Len(ring) <= Room /\ overruns \in Nat /\ offered \in Nat
  BY <1>1, RoomIsNat DEF TypeOK
<1>3. Room - Len(ring) \in Nat
  BY <1>2
<1>4. T \in 0 .. Len(block) /\ T <= Room - Len(ring)
  <2>1. T = Least(Len(block), Room - Len(ring))
    BY DEF Taken
  <2> HIDE DEF T
  <2> QED BY <1>2, <1>3, <2>1, LeastIs
<1> HIDE DEF T
<1>5. part \in Seq(Samples) /\ Len(part) = T /\ \A k \in 1 .. T : part[k] = samples[k]
  BY <1>2, <1>4, PrefixIs
<1>6. ring' = ring \o part
  BY DEF T, Accept
<1>7. ~stray => Ordered(part)
  BY <1>2, <1>4, OrderedPrefix DEF StreamInv, Orderly
<1>8. T = Len(block) => part = samples
  BY <1>2, WholePrefix
<1> HIDE DEF part
<1>9. ring' \in Seq(Samples) /\ Len(ring') = Len(ring) + T
  BY <1>2, <1>5, <1>6, JoinIs
<1>10. TypeOK'
  <2>1. Len(ring') <= Room /\ overruns' \in Nat /\ offered' \in Nat
    <3>1. overruns' = overruns + (Len(block) - T) /\ offered' = offered + Len(block)
      BY DEF T, Accept
    <3> QED BY <1>2, <1>4, <1>9, <3>1
  <2> QED BY <1>1, <1>9, <2>1, EmptyIs DEF TypeOK, ctlVars, writerVars
<1>11. Stream' = Stream \o part
  <2>1. Stream' = (written \o drain) \o (ring \o part)
    BY <1>6 DEF Stream, writerVars
  <2> QED BY <1>1, <1>5, <2>1, StreamJoin
<1>12. Stream \in Seq(Samples) /\ Len(Stream) \in Nat
  BY <1>1, StreamIs
<1>13. Orderly'
  <2> SUFFICES ASSUME ~stray
               PROVE  /\ Ordered(Stream \o part)
                      /\ \A j \in 1 .. Len(Stream \o part) : (Stream \o part)[j][1] <= pushed
    BY <1>11, EmptyIs DEF Orderly, ctlVars
  <2>1. \A j \in 1 .. T : j \in 1 .. Len(block) /\ part[j] = block[j]
    BY <1>2, <1>4, <1>5
  <2>2. \A j \in 1 .. Len(Stream), k \in 1 .. Len(part) : Stream[j][1] < part[k][1]
    BY <1>5, <2>1 DEF StreamInv, Orderly
  <2>3. Ordered(Stream \o part)
    BY <1>5, <1>7, <1>12, <2>2, OrderedJoin DEF StreamInv, Orderly
  <2>4. ASSUME NEW j \in 1 .. Len(Stream \o part) PROVE (Stream \o part)[j][1] <= pushed
    <3>1. CASE j \in 1 .. Len(Stream) /\ (Stream \o part)[j] = Stream[j]
      BY <3>1 DEF StreamInv, Orderly
    <3>2. CASE j - Len(Stream) \in 1 .. Len(part) /\ (Stream \o part)[j] = part[j - Len(Stream)]
      BY <1>5, <2>1, <3>2 DEF StreamInv, Orderly
    <3> QED BY <1>5, <1>12, <3>1, <3>2, JoinCovers
  <2> QED BY <2>3, <2>4
<1>14. Unbroken'
  <2>1. Len(Stream \o part) = Len(Stream) + T
    BY <1>5, <1>12, JoinIs
  <2>2. overruns' = overruns + (Len(block) - T) /\ offered' = offered + Len(block)
    BY DEF T, Accept
  <2>3. Len(Stream) + overruns = offered
    BY DEF StreamInv, Unbroken
  <2>4. Len(Stream \o part) + overruns' = offered'
    <3> DEFINE l == Len(Stream)
               m == Len(block)
    <3>1. l \in Nat /\ m \in Nat /\ T \in Nat /\ overruns \in Nat /\ l + overruns = offered
      BY <1>2, <1>4, <1>12, <2>3
    <3> HIDE DEF l, m
    <3>2. (l + T) + (overruns + (m - T)) = offered + m
      BY <3>1
    <3> QED BY <2>1, <2>2, <3>2 DEF l, m
  <2>5. ASSUME overruns' = 0, ~stray PROVE Framed(Stream \o part)
    <3>1. overruns = 0 /\ T = Len(block)
      BY <1>2, <1>4, <2>2, <2>5
    <3>2. Framed(Stream) /\ Framed(block) /\ part = block
      BY <1>8, <2>5, <3>1 DEF StreamInv, Unbroken, Orderly
    <3> QED BY <1>2, <1>12, <3>2, FramedJoin
  <2> QED BY <1>11, <2>4, <2>5 DEF Unbroken, ctlVars
<1>15. WholeMoves'
  <2>1. UNCHANGED <<written, drain, wpc, avail>>
    BY DEF writerVars
  <2>2. wpc = "read" => Channels * avail <= Len(ring) + T
    <3>1. Channels * avail \in Int
      BY <1>1, SizesAssumption DEF TypeOK
    <3> QED BY <1>2, <1>4, <3>1 DEF StreamInv, WholeMoves
  <2> QED BY <1>9, <2>1, <2>2 DEF StreamInv, WholeMoves
<1>16. Kept' /\ Straggler'
  BY DEF StreamInv, Kept, FileIsPrefix, Straggler, ctlVars, writerVars
<1> QED BY <1>10, <1>13, <1>14, <1>15, <1>16 DEF StreamInv

\* Overwriting samples keeps their number and their type.
LEMMA SpoiltIs ==
  ASSUME NEW s \in Seq(Samples), NEW t \in Spoilt(s)
  PROVE  /\ t \in Seq(Samples) /\ Len(t) = Len(s)
         /\ \A k \in 1 .. Len(s) : t[k] = Garbage \/ t[k] = s[k]
<1>1. PICK K \in SUBSET DOMAIN s : t = [k \in DOMAIN s |-> IF k \in K THEN Garbage ELSE s[k]]
  BY DEF Spoilt
<1>2. DOMAIN s = 1 .. Len(s) /\ Len(s) \in Nat /\ \A k \in 1 .. Len(s) : s[k] \in Samples
  OBVIOUS
<1>3. Garbage \in Samples
  BY SizesAssumption, BoundsAssumption DEF Garbage, Samples
<1>4. t \in [1 .. Len(s) -> Samples]
  BY <1>1, <1>2, <1>3
<1>5. t \in Seq(Samples) /\ Len(t) = Len(s)
  BY <1>2, <1>4
<1> QED BY <1>1, <1>2, <1>5

LEMMA PushStream ==
  ASSUME StreamInv, PushWrite \/ PushStale
  PROVE  StreamInv'
<1>1. block' = <<>> /\ ppc' = "idle"
  BY DEF PushWrite, PushStale
<1>2. /\ block \in Seq(Samples) /\ ring \in Seq(Samples) /\ drain \in Seq(Samples)
  BY DEF StreamInv, TypeOK
<1>3. CASE PushWrite
  BY <1>2, <1>3, AcceptStream DEF PushWrite
<1>4. CASE PushStale
  <2>1. stray /\ UNCHANGED <<ctlVars, ours, pushed, wpc, stopping, avail, file, full, written, framesWritten>>
    BY <1>4 DEF PushStale, StreamInv, Straggler
  <2>2. ASSUME NEW samples \in Spoilt(block), Accept(samples), UNCHANGED drain PROVE StreamInv'
    <3>1. samples \in Seq(Samples) /\ Len(samples) = Len(block)
      BY <1>2, SpoiltIs
    <3> QED BY <1>1, <2>1, <2>2, <3>1, AcceptStream DEF writerVars
  <2>3. CASE ring' \in Spoilt(ring) /\ drain' \in Spoilt(drain) /\ UNCHANGED <<overruns, offered>>
    <3>1. /\ ring' \in Seq(Samples) /\ Len(ring') = Len(ring)
          /\ drain' \in Seq(Samples) /\ Len(drain') = Len(drain)
      BY <1>2, <2>3, SpoiltIs
    <3>2. TypeOK'
      BY <1>1, <2>1, <2>3, <3>1, EmptyIs DEF StreamInv, TypeOK, ctlVars
    <3>3. Len(Stream') = Len(Stream)
      <4>1. Len(Stream') = Len(written) + Len(drain') + Len(ring')
        <5>1. written \in Seq(Samples) /\ Stream' = (written \o drain') \o ring'
          BY <2>1 DEF StreamInv, TypeOK, Stream
        <5>2. written \o drain' \in Seq(Samples) /\ Len(written \o drain') = Len(written) + Len(drain')
          BY <3>1, <5>1, JoinIs
        <5> DEFINE lead == written \o drain'
        <5>3. lead \in Seq(Samples) /\ Len(lead) = Len(written) + Len(drain')
          BY <5>2
        <5> HIDE DEF lead
        <5>4. Len(lead \o ring') = Len(lead) + Len(ring')
          BY <3>1, <5>3, JoinIs
        <5> QED BY <5>1, <5>3, <5>4 DEF lead
      <4>2. Len(Stream) = Len(written) + Len(drain) + Len(ring)
        BY StreamIs DEF StreamInv
      <4> QED BY <2>1, <3>1, <4>1, <4>2
    <3>4. Orderly' /\ Unbroken' /\ Straggler' /\ Kept'
      BY <1>1, <2>1, <2>3, <3>3, EmptyIs
      DEF StreamInv, Orderly, Unbroken, Straggler, Kept, FileIsPrefix, ctlVars
    <3>5. WholeMoves'
      <4>1. drain = <<>> => drain' = <<>>
        BY <1>2, <3>1
      <4> QED BY <2>1, <3>1, <4>1 DEF StreamInv, WholeMoves, Whole
    <3> QED BY <3>2, <3>4, <3>5 DEF StreamInv
  <2> QED BY <1>4, <2>2, <2>3 DEF PushStale
<1> QED BY <1>3, <1>4

LEMMA LookStream ==
  ASSUME StreamInv, WriterTop \/ WriterSize \/ WriterEmpty
  PROVE  StreamInv'
<1>1. UNCHANGED <<ring, overruns, offered, pushVars, drain, file, full, written, framesWritten, stray, recordings>>
  BY DEF WriterTop, WriterSize, WriterEmpty, ringVars, ctlVars
<1>2. CASE WriterSize
  <2>1. avail' = Len(ring) \div Channels /\ Len(ring) \in Nat /\ wpc' # "write" /\ drain = <<>>
    BY <1>2, StreamIs DEF WriterSize, StreamInv, WholeMoves
  <2> DEFINE q == Len(ring) \div Channels
             r == Len(ring) % Channels
  <2>2. q \in Nat /\ r \in Nat /\ Len(ring) = Channels * q + r
    <3>1. q \in Nat /\ r \in 0 .. Channels - 1 /\ Len(ring) = Channels * q + r
      BY <2>1, DivMod
    <3> HIDE DEF q, r
    <3> QED BY <3>1, SizesAssumption
  <2>3. avail' = q
    BY <2>1
  <2> HIDE DEF q, r
  <2>4. Channels * q \in Nat /\ q <= Channels * q
    BY <2>2, SizesAssumption
  <2>5. Len(ring) <= Room /\ Room \in Nat
    BY RoomIsNat DEF StreamInv, TypeOK
  <2>6. avail' \in 0 .. Room /\ Channels * avail' <= Len(ring)
    BY <2>2, <2>3, <2>4, <2>5
  <2>7. TypeOK'
    BY <1>2, <2>6 DEF WriterSize, StreamInv, TypeOK, ringVars, ctlVars, pushVars
  <2> QED BY <1>1, <2>1, <2>6, <2>7, StreamFrame
<1>3. CASE WriterTop \/ WriterEmpty
  <2>1. wpc' \notin {"read", "write"} /\ drain = <<>>
    BY <1>3 DEF WriterTop, WriterEmpty, StreamInv, WholeMoves
  <2>2. TypeOK'
    BY <1>3 DEF WriterTop, WriterEmpty, StreamInv, TypeOK, ringVars, ctlVars, pushVars
  <2> QED BY <1>1, <2>1, <2>2, StreamFrame
<1> QED BY <1>2, <1>3

LEMMA ReadStream ==
  ASSUME StreamInv, WriterRead
  PROVE  StreamInv'
<1> DEFINE m == Least(avail, ChunkFrames)
           n == Channels * m
           front == SubSeq(ring, 1, n)
           rest == SubSeq(ring, n + 1, Len(ring))
<1>1. TypeOK /\ ring \in Seq(Samples) /\ written \in Seq(Samples) /\ avail \in Nat /\ Len(ring) \in Nat
  BY RoomIsNat DEF StreamInv, TypeOK
<1>2. /\ drain' = front /\ ring' = rest /\ wpc' = "write" /\ drain = <<>>
      /\ UNCHANGED <<overruns, offered, ctlVars, pushVars, stopping, avail, file, full, written, framesWritten>>
  BY DEF WriterRead, StreamInv, WholeMoves
<1>3. m \in Nat /\ m <= avail
  BY <1>1, LeastIs, SizesAssumption
<1> HIDE DEF m
<1>4. n \in 0 .. Len(ring)
  <2>1. Channels * avail <= Len(ring)
    BY DEF WriterRead, StreamInv, WholeMoves
  <2>2. Channels * m \in Nat /\ Channels * avail \in Nat /\ Channels \in Nat
    BY <1>1, <1>3, SizesAssumption
  <2>3. Channels * m <= Channels * avail
    <3>1. CASE m = avail
      BY <2>2, <3>1
    <3>2. CASE m < avail
      <4>1. Channels * m + Channels <= Channels * avail
        BY <1>1, <1>3, <3>2, Multiples
      <4> QED BY <2>2, <4>1
    <3> QED BY <1>1, <1>3, <3>1, <3>2
  <2> QED BY <1>1, <2>1, <2>2, <2>3
<1>5. Whole(front)
  <2>1. Len(front) = n
    BY <1>1, <1>4, PrefixIs
  <2> QED BY <1>3, <2>1 DEF Whole
<1> HIDE DEF n
<1>6. front \in Seq(Samples) /\ Len(front) = n /\ \A k \in 1 .. n : front[k] = ring[k]
  BY <1>1, <1>4, PrefixIs
<1>7. /\ rest \in Seq(Samples) /\ Len(rest) = Len(ring) - n
      /\ \A k \in 1 .. (Len(ring) - n) : rest[k] = ring[n + k]
  BY <1>1, <1>4, SuffixIs
<1> HIDE DEF front, rest
<1>8. front \o rest = ring
  BY <1>1, <1>4, Rejoin DEF front, rest
<1>9. Stream' = Stream
  <2>1. Stream' = (written \o front) \o rest
    BY <1>2 DEF Stream
  <2>2. (written \o front) \o rest = written \o ring
    <3>1. written \in Seq(Samples) /\ front \in Seq(Samples) /\ rest \in Seq(Samples)
      BY <1>1, <1>6, <1>7
    <3>2. (written \o front) \o rest = written \o (front \o rest)
      BY <3>1, JoinAssoc
    <3> QED BY <1>8, <3>2
  <2>3. Stream = written \o ring
    BY <1>1, <1>2, JoinEmpty DEF Stream
  <2> QED BY <2>1, <2>2, <2>3
<1>10. TypeOK'
  <2>1. Len(ring') <= Room
    <3>1. Len(ring) <= Room /\ Room \in Nat
      BY <1>1, RoomIsNat DEF TypeOK
    <3> QED BY <1>1, <1>2, <1>4, <1>7, <3>1
  <2> QED BY <1>1, <1>2, <1>6, <1>7, <2>1 DEF TypeOK, ctlVars, pushVars
<1>11. Orderly' /\ Unbroken' /\ Straggler' /\ Kept'
  BY <1>2, <1>9 DEF StreamInv, Orderly, Unbroken, Straggler, Kept, FileIsPrefix, pushVars, ctlVars
<1>12. WholeMoves'
  BY <1>2, <1>5 DEF StreamInv, WholeMoves
<1> QED BY <1>10, <1>11, <1>12 DEF StreamInv

LEMMA WriteStream ==
  ASSUME StreamInv, WriterWrite
  PROVE  StreamInv'
<1> DEFINE frames == Len(drain) \div Channels
           given == SubSeq(drain, 1, frames * Channels)
<1>1. /\ TypeOK /\ ring \in Seq(Samples) /\ written \in Seq(Samples) /\ drain \in Seq(Samples)
      /\ file \in Seq(Samples) /\ framesWritten \in Nat /\ Len(drain) \in Nat
  BY DEF StreamInv, TypeOK
<1>2. /\ written' = written \o given
      /\ framesWritten' = framesWritten + frames /\ drain' = <<>> /\ wpc' = "top"
      /\ UNCHANGED <<ringVars, ctlVars, pushVars, stopping, avail>>
      /\ \/ ~full /\ file' = file \o given /\ UNCHANGED full
         \/ /\ ~full /\ full' = TRUE
            /\ \E room \in 0 .. Len(given) - 1 : file' = file \o SubSeq(given, 1, room)
         \/ full /\ UNCHANGED <<file, full>>
  BY DEF WriterWrite
<1>3. PICK q \in Nat : Len(drain) = Channels * q
  BY DEF StreamInv, WholeMoves, Whole
<1>4. frames = q
  <2>1. Len(drain) = Channels * q + 0 /\ 0 \in 0 .. Channels - 1
    BY <1>3, SizesAssumption
  <2> QED BY <2>1, DivModUnique
<1>5. given = drain
  <2>1. frames * Channels = Len(drain)
    BY <1>3, <1>4, SizesAssumption
  <2> QED BY <1>1, <2>1, WholePrefix
<1> HIDE DEF frames, given
<1>6. /\ written' \in Seq(Samples) /\ Whole(written') /\ Len(written') = Len(written) + Len(drain)
      /\ \A k \in 1 .. Len(written) : written'[k] = written[k]
      /\ \A k \in 1 .. Len(drain) : written'[Len(written) + k] = drain[k]
  BY <1>1, <1>2, <1>5, JoinIs, WholeJoin DEF StreamInv, WholeMoves
<1>7. Stream' = Stream
  <2>1. Stream' = (written' \o <<>>) \o ring
    BY <1>2 DEF Stream, ringVars
  <2> QED BY <1>2, <1>5, <1>6, <2>1, JoinEmpty DEF Stream
\* What the file has got: all of the drain, the beginning of it, or nothing.
<1>8. /\ file' \in Seq(Samples) /\ full' \in BOOLEAN
      /\ \E room \in 0 .. Len(drain) :
           /\ Len(file') = Len(file) + room
           /\ \A k \in 1 .. Len(file) : file'[k] = file[k]
           /\ \A k \in 1 .. room : file'[Len(file) + k] = drain[k]
           /\ room # 0 => ~full
           /\ full' \/ (~full /\ room = Len(drain))
  <2>1. CASE ~full /\ file' = file \o given /\ UNCHANGED full
    <3>1. /\ file' = file \o drain /\ full' = full
          /\ Len(file \o drain) = Len(file) + Len(drain) /\ file \o drain \in Seq(Samples)
          /\ \A k \in 1 .. Len(file) : (file \o drain)[k] = file[k]
          /\ \A k \in 1 .. Len(drain) : (file \o drain)[Len(file) + k] = drain[k]
      BY <1>1, <1>5, <2>1, JoinIs
    <3>2. full' \in BOOLEAN /\ Len(drain) \in 0 .. Len(drain)
      BY <1>1, <3>1 DEF TypeOK
    <3> DEFINE m == Len(drain)
    <3>3. /\ Len(file') = Len(file) + m
          /\ \A k \in 1 .. Len(file) : file'[k] = file[k]
          /\ \A k \in 1 .. m : file'[Len(file) + k] = drain[k]
          /\ ~full
      BY <2>1, <3>1
    <3>4. m \in 0 .. Len(drain) /\ m = Len(drain)
      BY <3>2
    <3> HIDE DEF m
    <3> QED BY <3>1, <3>2, <3>3, <3>4
  <2>2. ASSUME ~full, full' = TRUE, NEW room \in 0 .. Len(given) - 1, file' = file \o SubSeq(given, 1, room)
        PROVE  /\ file' \in Seq(Samples) /\ full' \in BOOLEAN
               /\ \E m \in 0 .. Len(drain) :
                    /\ Len(file') = Len(file) + m
                    /\ \A k \in 1 .. Len(file) : file'[k] = file[k]
                    /\ \A k \in 1 .. m : file'[Len(file) + k] = drain[k]
                    /\ m # 0 => ~full
                    /\ full' \/ (~full /\ m = Len(drain))
    <3> DEFINE part == SubSeq(drain, 1, room)
    <3>1. room \in 0 .. Len(drain)
      BY <1>1, <1>5, <2>2
    <3>2. part \in Seq(Samples) /\ Len(part) = room /\ \A k \in 1 .. room : part[k] = drain[k]
      BY <1>1, <3>1, PrefixIs
    <3>3. file' = file \o part
      BY <1>5, <2>2
    <3> HIDE DEF part
    <3>4. /\ file' \in Seq(Samples) /\ Len(file') = Len(file) + room
          /\ \A k \in 1 .. Len(file) : file'[k] = file[k]
          /\ \A k \in 1 .. room : file'[Len(file) + k] = drain[k]
      <4>1. /\ Len(file \o part) = Len(file) + Len(part) /\ file \o part \in Seq(Samples)
            /\ \A k \in 1 .. Len(file) : (file \o part)[k] = file[k]
            /\ \A k \in 1 .. Len(part) : (file \o part)[Len(file) + k] = part[k]
        BY <1>1, <3>2, JoinIs
      <4> QED BY <3>2, <3>3, <4>1
    <3> QED BY <2>2, <3>1, <3>4
  <2>3. CASE full /\ UNCHANGED <<file, full>>
    <3>1. 0 \in 0 .. Len(drain) /\ Len(file) \in Nat
      BY <1>1
    <3> QED BY <1>1, <2>3, <3>1 DEF TypeOK
  <2> QED BY <1>2, <2>1, <2>2, <2>3
<1>9. Kept'
  <2>1. PICK room \in 0 .. Len(drain) :
           /\ Len(file') = Len(file) + room
           /\ \A k \in 1 .. Len(file) : file'[k] = file[k]
           /\ \A k \in 1 .. room : file'[Len(file) + k] = drain[k]
           /\ room # 0 => ~full
           /\ full' \/ (~full /\ room = Len(drain))
    BY <1>8
  <2>2. /\ Len(file) \in Nat /\ Len(written) \in Nat /\ Len(file) <= Len(written)
        /\ full \/ Len(file) = Len(written)
        /\ \A k \in 1 .. Len(file) : file[k] = written[k]
    BY <1>1 DEF StreamInv, Kept, FileIsPrefix
  <2>3. Len(file') <= Len(written')
    BY <1>1, <1>6, <2>1, <2>2
  <2>4. ASSUME NEW k \in 1 .. Len(file') PROVE file'[k] = written'[k]
    <3>1. CASE k <= Len(file)
      <4>1. k \in 1 .. Len(file) /\ k \in 1 .. Len(written)
        BY <2>2, <3>1
      <4> QED BY <1>6, <2>1, <2>2, <4>1
    <3>2. CASE Len(file) < k
      <4> DEFINE j == k - Len(file)
      <4>1. j \in 1 .. room /\ k = Len(file) + j /\ room # 0
        BY <2>1, <2>2, <3>2
      <4> HIDE DEF j
      <4>2. Len(file) = Len(written) /\ j \in 1 .. Len(drain)
        BY <1>1, <2>1, <2>2, <4>1
      <4> QED BY <1>6, <2>1, <4>1, <4>2
    <3>3. k \in Nat
      BY <2>1, <2>2
    <3> QED BY <2>2, <3>1, <3>2, <3>3
  <2>5. full' \/ Len(file') = Len(written')
    BY <1>6, <2>1, <2>2
  <2>6. Len(written') = Channels * framesWritten'
    <3>1. Len(written) = Channels * framesWritten
      BY DEF StreamInv, Kept
    <3>2. Channels * (framesWritten + q) = Channels * framesWritten + Channels * q
      BY <1>1, SizesAssumption
    <3> QED BY <1>2, <1>3, <1>4, <1>6, <3>1, <3>2
  <2> QED BY <2>3, <2>4, <2>5, <2>6 DEF Kept, FileIsPrefix
<1>10. TypeOK'
  <2>1. framesWritten' \in Nat
    BY <1>1, <1>2, <1>4
  <2> QED BY <1>1, <1>2, <1>6, <1>8, <2>1, EmptyIs DEF TypeOK, ringVars, ctlVars, pushVars
<1>11. Orderly' /\ Unbroken' /\ Straggler'
  BY <1>2, <1>7 DEF StreamInv, Orderly, Unbroken, Straggler, ringVars, pushVars, ctlVars
<1>12. WholeMoves'
  BY <1>2, <1>6, EmptyIs DEF WholeMoves
<1> QED BY <1>9, <1>10, <1>11, <1>12 DEF StreamInv

LEMMA StreamStep == StreamInv /\ [Next]_vars => StreamInv'
<1> SUFFICES ASSUME StreamInv, [Next]_vars PROVE StreamInv'
  OBVIOUS
<1>1. CASE UNCHANGED vars
  <2>1. TypeOK'
    BY <1>1 DEF StreamInv, TypeOK, vars, ringVars, ctlVars, pushVars, writerVars
  <2> QED BY <1>1, <2>1, StreamFrame
          DEF StreamInv, WholeMoves, vars, ringVars, ctlVars, pushVars, writerVars
<1>2. CASE Control
  BY <1>2, StartStream, ControlStream DEF Control, Stopping
<1>3. CASE Audio
  BY <1>3, PushBeginStream, PushStream DEF Audio
<1>4. CASE Writer
  BY <1>4, LookStream, ReadStream, WriteStream DEF Writer
<1> QED BY <1>1, <1>2, <1>3, <1>4 DEF Next

-----------------------------------------------------------------------------
(* The last look before stop() returns.                                    *)

LEMMA DueIsFinite ==
  ASSUME TypeOK
  PROVE  IsFiniteSet(Due) /\ Cardinality(Due) \in Nat /\ Cardinality(Due) <= Len(ring)
<1>1. Len(ring) \in Nat
  BY DEF TypeOK
<1>2. IsFiniteSet(1 .. Len(ring)) /\ Cardinality(1 .. Len(ring)) = Len(ring)
  <2>1. ASSUME NEW n \in Nat PROVE IsFiniteSet(1 .. n) /\ Cardinality(1 .. n) = n
    BY FS_Interval
  <2> QED BY <1>1, <2>1
<1>3. Due \in SUBSET (1 .. Len(ring))
  BY DEF Due
<1>4. IsFiniteSet(Due) /\ Cardinality(Due) <= Cardinality(1 .. Len(ring))
  BY <1>2, <1>3, FS_Subset
<1>5. Cardinality(Due) \in Nat
  BY <1>4, FS_CardinalityType
<1> QED BY <1>2, <1>4, <1>5

LEMMA InitDrain == Init => DrainInv
  BY DEF Init, DrainInv, Threads, Airborne, LastLook

\* Steps that neither look nor push.
LEMMA DrainFrame ==
  ASSUME DrainInv, Threads', UNCHANGED <<recordings, active, late, ring, block>>,
         cpc' = "arm" \/ cpc # "arm",
         wpc' = "done" \/ (wpc' = "empty" /\ stopping') => wpc = "done" \/ (wpc = "empty" /\ stopping)
  PROVE  DrainInv'
<1>1. Due' = Due
  BY DEF Due
<1> QED BY <1>1 DEF DrainInv, Airborne, LastLook

LEMMA ControlDrain ==
  ASSUME TypeOK, DrainInv, Control
  PROVE  DrainInv'
<1>1. CASE Start
  BY <1>1, BoundsAssumption DEF Start, DrainInv, Threads, Airborne, LastLook, pushVars, TypeOK
<1>2. CASE Arm
  BY <1>2 DEF Arm, DrainInv, Threads, Airborne, LastLook, ringVars, pushVars, writerVars
<1>3. CASE Disarm
  <2>1. Threads'
    BY <1>3 DEF Disarm, DrainInv, Threads, ringVars, pushVars, writerVars
  <2>2. Airborne'
    BY <1>3 DEF Disarm, Airborne, pushVars
  <2>3. LastLook'
    BY <1>3 DEF Disarm, DrainInv, Threads, LastLook, writerVars
  <2> QED BY <2>1, <2>2, <2>3 DEF DrainInv
<1>4. CASE RequestStop
  <2>1. Threads'
    BY <1>4 DEF RequestStop, DrainInv, Threads, writerVars
  <2> QED BY <1>4, <2>1, DrainFrame DEF RequestStop, ringVars, pushVars, writerVars
<1>5. CASE Join
  <2>1. Threads'
    BY <1>5 DEF Join, DrainInv, Threads, ringVars, writerVars
  <2> QED BY <1>5, <2>1, DrainFrame DEF Join, ringVars, pushVars, writerVars
<1> QED BY <1>1, <1>2, <1>3, <1>4, <1>5 DEF Control, Stopping

LEMMA PushBeginDrain ==
  ASSUME DrainInv, NEW n \in BlockSizes, PushBegin(n)
  PROVE  DrainInv'
<1>1. /\ active /\ UNCHANGED <<ring, recordings, active, stopRequested, cpc, late>>
      /\ UNCHANGED <<wpc, stopping>>
  BY DEF PushBegin, ringVars, ctlVars, writerVars
<1>2. Due' = Due
  BY <1>1 DEF Due
<1> QED BY <1>1, <1>2 DEF DrainInv, Threads, Airborne, LastLook

\* What arrives after the last look is late.
LEMMA PushDrain ==
  ASSUME TypeOK, DrainInv, PushWrite \/ PushStale
  PROVE  DrainInv'
<1>1. /\ block' = <<>>
      /\ UNCHANGED <<recordings, active, stopRequested, cpc, late, wpc, stopping>>
  BY DEF PushWrite, PushStale, ctlVars, writerVars
<1>2. Threads'
  BY <1>1 DEF DrainInv, Threads
<1>3. Airborne'
  BY <1>1 DEF DrainInv, Airborne
<1>4. LastLook'
  <2> SUFFICES ASSUME wpc = "done" \/ (wpc = "empty" /\ stopping) PROVE Due' \subseteq Due
    <3> SUFFICES ASSUME wpc = "done" \/ (wpc = "empty" /\ stopping), Due' \subseteq Due
                 PROVE  Cardinality(Due') < Channels
      BY <1>1 DEF LastLook
    <3>1. IsFiniteSet(Due') /\ Cardinality(Due') <= Cardinality(Due)
      BY DueIsFinite, FS_Subset
    <3>2. Cardinality(Due') \in Nat
      BY <3>1, FS_CardinalityType
    <3>3. Cardinality(Due) \in Nat /\ Cardinality(Due) < Channels
      BY DueIsFinite DEF DrainInv, LastLook
    <3> QED BY <3>1, <3>2, <3>3, SizesAssumption
  <2>1. \A k \in 1 .. Len(block) : block[k][1] \in late
    <3>1. recordings \in Nat
      BY DEF TypeOK
    <3>2. stopRequested /\ ~active /\ cpc # "arm" /\ recordings > 0
      BY <3>1 DEF DrainInv, Threads
    <3> QED BY <3>2 DEF DrainInv, Airborne
  <2>2. Garbage[1] \in late
    <3>1. recordings \in Nat
      BY DEF TypeOK
    <3>2. stopRequested /\ ~active /\ cpc # "arm" /\ recordings > 0
      BY <3>1 DEF DrainInv, Threads
    <3> QED BY <3>2 DEF DrainInv, Airborne
  <2>3. block \in Seq(Samples) /\ ring \in Seq(Samples)
    BY DEF TypeOK
  <2>4. ASSUME NEW samples \in Seq(Samples), Len(samples) = Len(block), Accept(samples),
               \A k \in 1 .. Len(samples) : samples[k] = Garbage \/ samples[k] = block[k]
        PROVE  Due' \subseteq Due
    <3> DEFINE T == Taken
               part == SubSeq(samples, 1, T)
    <3>1. Len(block) \in Nat /\ Room - Len(ring) \in Nat
      BY RoomIsNat DEF TypeOK
    <3>2. T \in 0 .. Len(samples)
      BY <2>4, <3>1, LeastIs DEF Taken
    <3> HIDE DEF T
    <3>3. part \in Seq(Samples) /\ Len(part) = T /\ \A k \in 1 .. T : part[k] = samples[k]
      BY <3>2, PrefixIs
    <3>4. \A k \in 1 .. Len(part) : part[k][1] \in late
      <4>1. \A k \in 1 .. T : k \in 1 .. Len(samples) /\ k \in 1 .. Len(block)
        BY <2>4, <3>1, <3>2
      <4> QED BY <2>1, <2>2, <2>4, <3>3, <4>1
    <3>5. ring' = ring \o part
      BY <2>4 DEF T, Accept
    <3> HIDE DEF part
    <3> SUFFICES ASSUME NEW k \in Due' PROVE k \in Due
      OBVIOUS
    <3>6. k \in 1 .. Len(ring \o part) /\ (ring \o part)[k][1] \notin late
      BY <1>1, <3>5 DEF Due
    <3>7. ~(k - Len(ring) \in 1 .. Len(part) /\ (ring \o part)[k] = part[k - Len(ring)])
      BY <3>4, <3>6
    <3>8. k \in 1 .. Len(ring) /\ (ring \o part)[k] = ring[k]
      BY <2>3, <3>3, <3>6, <3>7, JoinCovers
    <3> QED BY <3>6, <3>8 DEF Due
  <2>5. CASE PushWrite
    BY <2>3, <2>4, <2>5 DEF PushWrite
  <2>6. ASSUME NEW samples \in Spoilt(block), Accept(samples) PROVE Due' \subseteq Due
    BY <2>3, <2>4, <2>6, SpoiltIs
  <2>7. CASE ring' \in Spoilt(ring)
    BY <1>1, <2>2, <2>3, <2>7, SpoiltIs DEF Due
  <2> QED BY <2>5, <2>6, <2>7 DEF PushStale
<1> QED BY <1>2, <1>3, <1>4 DEF DrainInv

LEMMA WriterDrain ==
  ASSUME TypeOK, DrainInv, Writer
  PROVE  DrainInv'
<1>1. UNCHANGED <<recordings, active, stopRequested, cpc, late, block>>
  BY DEF Writer, WriterTop, WriterSize, WriterEmpty, WriterRead, WriterWrite, ctlVars, pushVars
<1>2. Threads'
  BY <1>1 DEF DrainInv, Threads, Writer, WriterTop, WriterSize, WriterEmpty, WriterRead, WriterWrite
<1>3. Airborne'
  BY <1>1 DEF DrainInv, Airborne
<1>4. LastLook'
  <2>1. CASE WriterSize
    <3>1. ring' = ring /\ Due' = Due
      BY <1>1, <2>1 DEF WriterSize, ringVars, Due
    <3>2. ASSUME wpc' \notin {"read"} PROVE Len(ring) < Channels
      <4>1. Len(ring) \in Nat /\ Len(ring) \div Channels = 0
        BY <2>1, <3>2 DEF WriterSize, TypeOK
      <4>2. /\ Len(ring) % Channels \in 0 .. Channels - 1
            /\ Len(ring) = (Channels * (Len(ring) \div Channels)) + (Len(ring) % Channels)
        BY <4>1, DivMod
      <4>3. Len(ring) = (Channels * 0) + (Len(ring) % Channels)
        BY <4>1, <4>2
      <4> QED BY <4>1, <4>2, <4>3, SizesAssumption
    <3>3. ASSUME wpc' \notin {"read"} PROVE Cardinality(Due) < Channels
      <4>1. Len(ring) \in Nat /\ Channels \in Nat
        BY SizesAssumption DEF TypeOK
      <4> QED BY <3>2, <3>3, <4>1, DueIsFinite
    <3> QED BY <3>1, <3>3 DEF LastLook
  <2>2. CASE WriterEmpty
    <3>1. Due' = Due
      BY <1>1, <2>2 DEF WriterEmpty, ringVars, Due
    <3> QED BY <2>2, <3>1 DEF WriterEmpty, DrainInv, LastLook
  <2>3. CASE WriterTop \/ WriterRead \/ WriterWrite
    BY <2>3 DEF WriterTop, WriterRead, WriterWrite, LastLook
  <2> QED BY <2>1, <2>2, <2>3 DEF Writer
<1> QED BY <1>2, <1>3, <1>4 DEF DrainInv

LEMMA DrainStep == TypeOK /\ DrainInv /\ [Next]_vars => DrainInv'
<1> SUFFICES ASSUME TypeOK, DrainInv, [Next]_vars PROVE DrainInv'
  OBVIOUS
<1>1. CASE UNCHANGED vars
  BY <1>1, DrainFrame DEF vars, ringVars, ctlVars, pushVars, writerVars, DrainInv, Threads
<1>2. CASE Control
  BY <1>2, ControlDrain
<1>3. CASE Audio
  BY <1>3, PushBeginDrain, PushDrain DEF Audio
<1>4. CASE Writer
  BY <1>4, WriterDrain
<1> QED BY <1>1, <1>2, <1>3, <1>4 DEF Next

-----------------------------------------------------------------------------
(* The theorems.                                                           *)

\* Samples keep their order and their frames on the way to the file, and the threads
\* stop in the order that lets the ring be drained.
THEOREM Invariance == Spec => []IInv
<1>1. Init => IInv
  BY InitStream, InitDrain DEF IInv
<1>2. IInv /\ [Next]_vars => IInv'
  BY StreamStep, DrainStep DEF IInv, StreamInv
<1> QED BY <1>1, <1>2, PTL DEF Spec

\* Every variable keeps its type, and the ring never holds more than it has room for.
THEOREM TypeCorrect == Spec => []TypeOK
  BY Invariance, PTL DEF IInv, StreamInv

\* Every sample pushBlock() offered to the ring is counted as an overrun or handed to the
\* file, which is that or, on a full disk, its beginning; each once, in order and, without
\* overruns, in whole frames, unless start() met a block in flight.
THEOREM RecordsEverything == Spec => []NothingLost
<1>1. IInv => NothingLost
  <2> SUFFICES ASSUME StreamInv PROVE NothingLost
    BY DEF IInv
  <2>1. ASSUME overruns = 0, ~stray PROVE Framed(written)
    <3>1. Framed((written \o drain) \o ring)
      BY <2>1 DEF StreamInv, Unbroken, Stream
    <3>2. /\ written \in Seq(Samples) /\ drain \in Seq(Samples) /\ ring \in Seq(Samples)
          /\ written \o drain \in Seq(Samples)
      BY StreamIs DEF StreamInv, TypeOK
    <3>3. Whole(written) /\ Whole(drain)
      BY DEF StreamInv, WholeMoves
    <3>4. Framed(written \o drain)
      BY <3>1, <3>2, <3>3, WholeJoin, FramedFront
    <3> QED BY <3>2, <3>3, <3>4, FramedFront
  <2> QED BY <2>1 DEF StreamInv, Unbroken, Orderly, Ordered, Framed, Kept, NothingLost, WholeFrames
<1> QED BY <1>1, Invariance, PTL

\* When stop() has returned, the file was given all that pushBlock() brought before the call,
\* short of a frame that the full ring cut.
THEOREM DrainsBeforeReturn == Spec => []FinalDrain
<1>1. IInv => FinalDrain
  <2> SUFFICES ASSUME StreamInv, DrainInv, cpc = "idle", ~active, recordings > 0
               PROVE  Cardinality(Due) < Channels
    BY DEF IInv, FinalDrain, Due
  <2>1. recordings # 0
    OBVIOUS
  <2> QED BY <2>1 DEF DrainInv, Threads, LastLook
<1> QED BY <1>1, Invariance, PTL

-----------------------------------------------------------------------------
(* The recorder in its place: the recording tap of LiveMultiSource, which  *)
(* makes, starts, stops and replaces recorders while blocks go through it, *)
(* for any number of recordings.                                           *)

\* Recorders are made in the order of their numbers.
Numbered ==
  /\ recorder <= made
  /\ \A r \in Recorders : r > made <=> life[r] = "unmade"

\* While recording_ is set no call is under way, and the recorder is armed.
Published == recording = 1 => call = "idle" /\ recorder # 0 /\ life[recorder] = "armed"

\* A call under way has a recorder, in the state the call has brought it to.
UnderWay ==
  /\ call # "idle" => recorder # 0
  /\ call = "start" => life[recorder] = "made"
  /\ call = "publish" => life[recorder] = "armed"

\* A block that is no straggler is in the tap of the recording that is on.
InTap ==
  /\ pump \in {"follow", "push"} /\ straggler = "no" => recording = 1
  /\ pump = "push" /\ straggler = "no" => held = recorder

\* The recording that is on since a block began is the one it will be, or is, in.
Spans ==
  /\ span # 0 => recording = 1 /\ span = recorder /\ straggler = "no"
  /\ pump = "end" /\ span # 0 => took = span

TapInv == TapTypeOK /\ Numbered /\ Published /\ UnderWay /\ InTap /\ Spans

-----------------------------------------------------------------------------
LEMMA InitTap ==
  ASSUME TapInit
  PROVE  TapInv
  BY MaxRecordersAssumption
     DEF TapInit, TapInv, TapTypeOK, Recorders, Exists, Numbered,
         Published, UnderWay, InTap, Spans

\* What a step of pump() leaves alone.
LEMMA PumpTap ==
  ASSUME TapInv, PumpStep
  PROVE  TapInv'
<1> USE MaxRecordersAssumption
<1> USE DEF TapInv, Numbered, Published, UnderWay, controlVars
<1>1. CASE PumpBegin
  BY <1>1 DEF PumpBegin, TapTypeOK, Exists, InTap, Spans
<1>2. CASE TapTest
  BY <1>2 DEF TapTest, TapTypeOK, Exists, InTap, Spans
<1>3. CASE TapFollow
  BY <1>3 DEF TapFollow, TapTypeOK, Exists, InTap, Spans
<1>4. CASE TapPush
  <2>1. took' \in 0 .. MaxRecorders
    BY <1>4 DEF TapPush, TapTypeOK
  <2>2. span # 0 => took' = span
    <3>1. span # 0 => held = recorder /\ held \in Recorders /\ life[held] = "armed"
      BY <1>4 DEF TapPush, InTap, Spans, TapTypeOK, Recorders
    <3> QED BY <1>4, <3>1 DEF TapPush, Exists, Spans
  <2> QED BY <1>4, <2>1, <2>2 DEF TapPush, TapTypeOK, Exists, InTap, Spans
<1>5. CASE PumpEnd
  BY <1>5 DEF PumpEnd, TapTypeOK, Exists, InTap, Spans
<1> QED BY <1>1, <1>2, <1>3, <1>4, <1>5 DEF PumpStep

\* What a step of recordToWav() or stopRecording() does to the recorders.
LEMMA ControlTap ==
  ASSUME TapInv, CallStep
  PROVE  TapInv'
<1> USE MaxRecordersAssumption
<1> USE DEF TapInv, Recorders, pumpVars
<1>1. CASE RecordMake
  BY <1>1 DEF RecordMake, MayRecord, Replaced, TapTypeOK, Exists,
              Numbered, Published, UnderWay, InTap, Spans
<1>2. CASE RecordFail
  BY <1>2 DEF RecordFail, TapTypeOK, Exists, Numbered,
              Published, UnderWay, InTap, Spans
<1>3. CASE RecordStart
  BY <1>3 DEF RecordStart, TapTypeOK, Exists, Numbered,
              Published, UnderWay, InTap, Spans
<1>4. CASE RecordPublish
  BY <1>4 DEF RecordPublish, TapTypeOK, Exists, Numbered,
              Published, UnderWay, InTap, Spans
<1>5. CASE StopClear
  BY <1>5 DEF StopClear, TapTypeOK, Exists, Numbered,
              Published, UnderWay, InTap, Spans
<1>6. CASE StopRecorder
  BY <1>6 DEF StopRecorder, TapTypeOK, Exists, Numbered,
              Published, UnderWay, InTap, Spans
<1> QED BY <1>1, <1>2, <1>3, <1>4, <1>5, <1>6 DEF CallStep

LEMMA NextTap ==
  ASSUME TapInv, [TapNext]_tapVars
  PROVE  TapInv'
<1>1. CASE TapNext
  BY <1>1, ControlTap, PumpTap DEF TapNext
<1>2. CASE UNCHANGED tapVars
  BY <1>2 DEF TapInv, TapTypeOK, Exists, Numbered, Published, UnderWay, InTap, Spans,
              tapVars, controlVars, pumpVars
<1> QED BY <1>1, <1>2

\* The invariant holds in every state.
THEOREM TapInvariance == TapSpec => []TapInv
<1>1. TapInit => TapInv
  BY InitTap
<1>2. TapInv /\ [TapNext]_tapVars => TapInv'
  BY NextTap
<1> QED BY <1>1, <1>2, PTL DEF TapSpec

\* No recorder is leaked, and none exists that recorder_ does not point to.
THEOREM TapTypeCorrect == TapSpec => []TapTypeOK
<1>1. TapInv => TapTypeOK
  BY DEF TapInv
<1> QED BY <1>1, TapInvariance, PTL

\* A block in the tap is safe unless stopRecording() came after its test.
THEOREM SafeInTap == TapSpec => []SafeUnlessStopped
<1>1. TapInv => SafeUnlessStopped
  BY DEF TapInv, TapTypeOK, Published, InTap, SafeUnlessStopped, Exists, Recorders
<1> QED BY <1>1, TapInvariance, PTL

\* No block of a recording is missed.
THEOREM Complete == TapSpec => []NothingMissed
<1>1. TapInv => NothingMissed
  BY DEF TapInv, Spans, NothingMissed
<1> QED BY <1>1, TapInvariance, PTL
=============================================================================
