------------------------ MODULE ResamplingSourceProofs ------------------------
(***************************************************************************)
(* Proofs about ResamplingSource, for any number of channels, any ring and *)
(* staging size and any mix of push and pull sizes.                        *)
(*                                                                         *)
(* How far the channels drift apart is a balance of what each ring holds,  *)
(* what was read of it and what the push under way still brings (Balance). *)
(* What the first channel plays is what is left of it, in order, on the    *)
(* way through ring and stage (LeadInv).  That the others hold the same is *)
(* said of the rings as they will be when the call under way is over       *)
(* (RingAfter, StageAfter), which the steps of a call leave as they are.   *)
(***************************************************************************)
EXTENDS ResamplingSource, TLAPS

-----------------------------------------------------------------------------
(* Numbers and sequences.                                                  *)

\* Taking the same from both sides.
LEMMA TakeFromBoth ==
  ASSUME NEW a \in Int, NEW b \in Int, NEW p \in Int, NEW q \in Int, NEW m \in Int, NEW k \in Int,
         a + p = b + q + m
  PROVE  (a - k) + p = b + q + (m - k)
  OBVIOUS

\* The first n elements of a sequence: its type and its length.
LEMMA PrefixFacts ==
  ASSUME NEW S, NEW s \in Seq(S), NEW n \in 0 .. Len(s)
  PROVE  Prefix(s, n) \in Seq(S) /\ Len(Prefix(s, n)) = n
  BY DEF Prefix

\* What is left of a sequence without its first n elements.
LEMMA SuffixFacts ==
  ASSUME NEW S, NEW s \in Seq(S), NEW n \in 0 .. Len(s)
  PROVE  Suffix(s, n) \in Seq(S) /\ Len(Suffix(s, n)) = Len(s) - n
  BY DEF Suffix

\* Concatenation.
LEMMA ConcatFacts ==
  ASSUME NEW S, NEW s \in Seq(S), NEW t \in Seq(S)
  PROVE  s \o t \in Seq(S) /\ Len(s \o t) = Len(s) + Len(t)
  OBVIOUS

\* The slots a short read leaves alone.
LEMMA StaleFacts ==
  ASSUME NEW n \in Nat
  PROVE  /\ Untouched(n) \in Seq(0 .. MaxPushed)
         /\ Len(Untouched(n)) = n
  BY SizesAssumption DEF Stale, Untouched

-----------------------------------------------------------------------------
(* The invariant.                                                          *)

\* Staging while a read is under way: channels before cch have their share already.
StageInv ==
  /\ \A c \in Chans : Len(stage[c]) = IF cpc = "read" /\ cch > 1 /\ c >= cch
                                       THEN Len(stage[1]) - toRead ELSE Len(stage[1])
  /\ cpc = "read" => /\ toRead > 0 /\ Len(stage[cch]) + toRead <= StageCap
                     /\ cch = 1 => toRead <= Len(rings[1])
  /\ cpc # "read" => cch = 1

\* The block in hand is what is left to write from pch on.
PushInv ==
  /\ Len(block) <= LongestPush /\ (ppc = "idle" => pch = 1 /\ block = <<>>)

NoOverrun == \A c \in Chans : overruns[c] = 0

\* Frames of the block at hand that ring c has still to get.
Pending(c) == IF ppc = "write" /\ c >= pch THEN Len(block) ELSE 0

\* Frames that this pull has read from channel 1 and not yet from c.
Behind(c) == IF cpc = "read" /\ cch > 1 /\ c >= cch THEN toRead ELSE 0

\* A push at its longest.
MaxSkew == Least(LongestPush, RingFrames)

\* What ring c holds more than ring 1 is what was read from it less, but for the block
\* that is on its way into it; and reads of c trail by one push at most, but for the
\* read under way.
Balance(c) ==
  /\ Len(rings[c]) + Pending(c) = Len(rings[1]) + Pending(1) + lag[c]
  /\ lag[c] - Behind(c) \in 0 .. MaxSkew

IInv == TypeOK /\ StageInv /\ PushInv /\ (NoOverrun => \A c \in Chans : Balance(c))

-----------------------------------------------------------------------------
\* Channels are numbered from 1 to Channels.
LEMMA OneIsAChannel ==
  /\ 1 \in Chans /\ Channels \in Nat
  /\ \A c \in Chans : c \in Nat /\ 1 <= c /\ c <= Channels
  BY ChannelsAssumption DEF Chans

\* The constants that are numbers.
LEMMA Numbers ==
  /\ RingFrames \in Nat /\ Room \in Nat /\ StageCap \in Nat
  /\ LongestPush \in Nat /\ MaxPushed \in Nat /\ MaxUnderruns \in Nat
  BY RoomAssumption, SizesAssumption

\* What the type says of every channel, in terms of lengths.
LEMMA ChannelFacts ==
  ASSUME TypeOK
  PROVE  \A c \in Chans :
           /\ rings[c] \in Seq(1 .. MaxPushed) /\ Len(rings[c]) \in Nat /\ Len(rings[c]) <= Room
           /\ stage[c] \in Seq(0 .. MaxPushed) /\ Len(stage[c]) \in Nat /\ Len(stage[c]) <= StageCap
           /\ lag[c] \in Int /\ overruns[c] \in Nat
  BY DEF TypeOK

\* The longest skew.
LEMMA MaxSkewFacts ==
  MaxSkew \in Nat /\ (\A n \in Nat : n <= LongestPush /\ n <= RingFrames => n <= MaxSkew)
<1>1. MaxSkew = IF LongestPush <= RingFrames THEN LongestPush ELSE RingFrames
  BY DEF MaxSkew, Least
<1> QED BY <1>1, Numbers

\* The invariant holds before the first call.
LEMMA InitIInv == Init => IInv
<1> SUFFICES ASSUME Init PROVE IInv
  OBVIOUS
<1> USE Numbers, OneIsAChannel
<1>1. TypeOK
  BY DEF Init, TypeOK
<1>2. StageInv /\ PushInv
  BY DEF Init, StageInv, PushInv
<1>3. \A c \in Chans : Balance(c)
  BY MaxSkewFacts DEF Init, Balance, Pending, Behind
<1> QED BY <1>1, <1>2, <1>3 DEF IInv

-----------------------------------------------------------------------------
(* push().                                                                 *)

LEMMA PushBeginStep == ASSUME IInv, NEW n \in PushSizes, PushBegin(n) PROVE IInv'
<1> USE Numbers, OneIsAChannel
<1> DEFINE m == Least(n, RingFrames)
<1>0. TypeOK /\ StageInv /\ PushInv /\ (NoOverrun => \A c \in Chans : Balance(c))
  BY DEF IInv
<1>1. m \in Nat /\ m <= RingFrames /\ m <= LongestPush
  <2>1. n \in Nat /\ n <= LongestPush
    BY SizesAssumption
  <2>2. m = IF n <= RingFrames THEN n ELSE RingFrames
    BY DEF Least
  <2> HIDE DEF m
  <2> QED BY <2>1, <2>2
<1>2. /\ ppc = "idle" /\ pushed + m <= MaxPushed
      /\ block' = [k \in 1 .. m |-> pushed + k] /\ pushed' = pushed + m
      /\ ppc' = "write" /\ pch' = 1
      /\ meetings' = IF cpc = "idle" THEN meetings ELSE "once"
      /\ UNCHANGED <<rings, overruns, pullVars>>
  BY DEF PushBegin
<1> HIDE DEF m
<1>3. block' \in Seq(1 .. MaxPushed) /\ Len(block') = m /\ pushed' \in 0 .. MaxPushed
  <2>1. pushed \in 0 .. MaxPushed
    BY <1>0 DEF TypeOK
  <2> QED BY <1>1, <1>2, <2>1
<1>4. TypeOK'
  BY <1>0, <1>1, <1>2, <1>3 DEF TypeOK, pullVars
<1>5. StageInv' /\ PushInv'
  BY <1>0, <1>1, <1>2, <1>3 DEF StageInv, PushInv, pullVars
<1>6. ASSUME NoOverrun', NEW c \in Chans PROVE Balance(c)'
  <2>1. Balance(c)
    BY <1>0, <1>2, <1>6 DEF NoOverrun
  <2>2. Pending(c) = 0 /\ Pending(1) = 0 /\ Behind(c)' = Behind(c)
    BY <1>2 DEF Pending, Behind, pullVars
  <2>3. Pending(c)' = m /\ Pending(1)' = m
    BY <1>2, <1>3 DEF Pending
  <2>4. Len(rings[c]) \in Nat /\ Len(rings[1]) \in Nat /\ lag[c] \in Int
    BY <1>0, ChannelFacts
  <2>5. Len(rings[c]) = Len(rings[1]) + lag[c] /\ lag[c] - Behind(c) \in 0 .. MaxSkew
    BY <2>1, <2>2, <2>4 DEF Balance
  <2>6. Len(rings[c]) + m = Len(rings[1]) + m + lag[c]
    BY <1>1, <2>4, <2>5
  <2>7. rings' = rings /\ lag' = lag
    BY <1>2 DEF pullVars
  <2> QED BY <2>2, <2>3, <2>5, <2>6, <2>7 DEF Balance
<1> QED BY <1>4, <1>5, <1>6 DEF IInv

LEMMA PushChannelStep == ASSUME IInv, PushChannel PROVE IInv'
<1> USE Numbers, OneIsAChannel
<1> DEFINE n == Least(Len(block), Room - Len(rings[pch]))
<1>0. TypeOK /\ StageInv /\ PushInv /\ (NoOverrun => \A c \in Chans : Balance(c))
  BY DEF IInv
<1>f. \A c \in Chans : /\ Len(rings[c]) \in Nat /\ Len(rings[c]) <= Room
                       /\ Len(stage[c]) \in Nat /\ Len(stage[c]) <= StageCap
                       /\ lag[c] \in Int /\ overruns[c] \in Nat
  BY <1>0, ChannelFacts
<1>1. /\ pch \in Chans /\ block \in Seq(1 .. MaxPushed) /\ rings[pch] \in Seq(1 .. MaxPushed)
      /\ Len(rings[pch]) \in 0 .. Room /\ Len(block) \in Nat
      /\ n \in 0 .. Len(block) /\ n \in Nat /\ Len(rings[pch]) + n <= Room
  <2>1. pch \in Chans /\ block \in Seq(1 .. MaxPushed) /\ Len(block) \in Nat
    BY <1>0 DEF TypeOK
  <2>2. Len(rings[pch]) \in Nat /\ Room - Len(rings[pch]) \in Nat
    BY <1>f, <2>1
  <2>3. n \in Int /\ n <= Len(block) /\ n <= Room - Len(rings[pch]) /\ n >= 0
    <3> DEFINE free == Room - Len(rings[pch])
    <3>1. n = IF Len(block) <= free THEN Len(block) ELSE free
      BY DEF Least
    <3>2. free \in Nat
      BY <2>2
    <3> HIDE DEF n, free
    <3>3. n \in Int /\ n <= Len(block) /\ n <= free /\ n >= 0
      BY <2>1, <3>1, <3>2
    <3> QED BY <3>3 DEF free
  <2> HIDE DEF n
  <2>4. Len(rings[pch]) \in Nat /\ Len(rings[pch]) <= Room /\ rings[pch] \in Seq(1 .. MaxPushed)
    BY <1>0, <2>1, ChannelFacts
  <2> QED BY <2>1, <2>3, <2>4
<1>2. /\ rings' = [rings EXCEPT ![pch] = @ \o Prefix(block, n)]
      /\ overruns' = [overruns EXCEPT ![pch] = @ + (Len(block) - n)]
      /\ ppc = "write"
  BY DEF PushChannel
<1>3. /\ rings[pch] \o Prefix(block, n) \in Seq(1 .. MaxPushed)
      /\ Len(rings[pch] \o Prefix(block, n)) = Len(rings[pch]) + n
  <2>1. Prefix(block, n) \in Seq(1 .. MaxPushed) /\ Len(Prefix(block, n)) = n
    BY <1>1, PrefixFacts
  <2> HIDE DEF n
  <2> QED BY <1>1, <2>1, ConcatFacts
<1> HIDE DEF n
<1>t. rings' \in [Chans -> Seq(1 .. MaxPushed)]
  BY <1>0, <1>1, <1>2, <1>3 DEF TypeOK
<1>4. /\ Len(rings'[pch]) = Len(rings[pch]) + n
      /\ \A c \in Chans : c # pch => rings'[c] = rings[c]
  BY <1>0, <1>1, <1>2, <1>3 DEF TypeOK
<1>5. /\ overruns' \in [Chans -> Nat]
      /\ \A c \in Chans : overruns'[c] = IF c = pch THEN overruns[c] + (Len(block) - n)
                                                    ELSE overruns[c]
  <2>1. overruns[pch] + (Len(block) - n) \in Nat
    BY <1>f, <1>1
  <2>2. overruns \in [Chans -> Nat]
    BY <1>0 DEF TypeOK
  <2> QED BY <1>1, <1>2, <2>1, <2>2
<1>6. /\ ppc' \in {"idle", "write"} /\ pch' \in Chans
      /\ pch < Channels => pch' = pch + 1 /\ ppc' = "write" /\ block' = block
      /\ ~(pch < Channels) => pch' = 1 /\ ppc' = "idle" /\ block' = <<>>
      /\ block' \in Seq(1 .. MaxPushed) /\ Len(block') <= Len(block) /\ Len(block') \in Nat
  <2>1. CASE pch < Channels
    <3>1. pch' = pch + 1 /\ ppc' = "write" /\ block' = block
      BY <1>2, <2>1 DEF PushChannel
    <3>2. pch + 1 \in Chans
      BY <1>1, <2>1 DEF Chans
    <3> QED BY <1>1, <2>1, <3>1, <3>2
  <2>2. CASE ~(pch < Channels)
    <3>1. pch' = 1 /\ ppc' = "idle" /\ block' = <<>>
      BY <2>2 DEF PushChannel
    <3> QED BY <1>1, <2>2, <3>1
  <2> QED BY <2>1, <2>2
<1>7. UNCHANGED <<pushed, pullVars, meetings>>
  BY DEF PushChannel
<1>8. TypeOK'
  <2>1. \A c \in Chans : Len(rings'[c]) <= Room
    BY <1>f, <1>1, <1>4
  <2>2. Len(block') <= RingFrames
    BY <1>0, <1>1, <1>6 DEF TypeOK
  <2> QED BY <1>0, <1>t, <1>5, <1>6, <1>7, <2>1, <2>2 DEF TypeOK, pullVars
<1>9. StageInv' /\ PushInv'
  <2>1. Len(rings[1]) <= Len(rings'[1])
    BY <1>f, <1>1, <1>4
  <2>2. Len(rings[1]) \in Nat /\ Len(rings'[1]) \in Nat /\ toRead \in Nat
    BY <1>0, <1>f, <1>t DEF TypeOK
  <2>3. StageInv'
    BY <1>0, <1>f, <1>7, <2>1, <2>2 DEF StageInv, pullVars
  <2>4. Len(block') \in Nat
    BY <1>6
  <2> QED BY <1>0, <1>f, <1>1, <1>2, <1>6, <2>3, <2>4 DEF PushInv
<1>10. ASSUME NoOverrun', NEW c \in Chans PROVE Balance(c)'
  <2>1. n = Len(block) /\ NoOverrun
    <3>1. \A d \in Chans : IF d = pch THEN overruns[d] + (Len(block) - n) = 0 ELSE overruns[d] = 0
      BY <1>5, <1>10 DEF NoOverrun
    <3>2. overruns[pch] = 0 /\ n = Len(block)
      <4>1. overruns[pch] + (Len(block) - n) = 0
        BY <1>1, <3>1
      <4>2. overruns[pch] \in Nat
        BY <1>f, <1>1
      <4> QED BY <1>1, <4>1, <4>2
    <3> QED BY <3>1, <3>2 DEF NoOverrun
  <2>2. Balance(c)
    BY <1>0, <2>1
  <2>2a. Len(block) \in Nat
    BY <1>1
  <2>3. /\ Len(rings[c]) \in Nat /\ Len(rings[1]) \in Nat /\ lag[c] \in Int /\ toRead \in Nat
        /\ c = pch => Len(rings'[c]) = Len(rings[c]) + Len(block)
        /\ c # pch => Len(rings'[c]) = Len(rings[c])
        /\ 1 = pch => Len(rings'[1]) = Len(rings[1]) + Len(block)
        /\ 1 # pch => Len(rings'[1]) = Len(rings[1])
    <3>1. toRead \in Nat
      BY <1>0 DEF TypeOK
    <3> QED BY <1>f, <1>1, <1>4, <2>1, <3>1
  <2>4. /\ Pending(c) \in Nat /\ Pending(1) \in Nat /\ c \in Nat
        /\ c >= pch => Pending(c) = Len(block)
        /\ ~(c >= pch) => Pending(c) = 0
        /\ pch = 1 => Pending(1) = Len(block)
        /\ pch # 1 => Pending(1) = 0
    BY <1>1, <1>2 DEF Pending
  <2>5. /\ pch < Channels /\ c > pch => Pending(c)' = Len(block)
        /\ ~(pch < Channels /\ c > pch) => Pending(c)' = 0
        /\ Pending(1)' = 0
    <3>1. CASE pch < Channels
      <4>1. pch' = pch + 1 /\ ppc' = "write" /\ block' = block
        BY <1>6, <3>1
      <4> QED BY <1>1, <2>4, <3>1, <4>1 DEF Pending
    <3>2. CASE ~(pch < Channels)
      <4>1. ppc' = "idle"
        BY <1>6, <3>2
      <4> QED BY <3>2, <4>1 DEF Pending
    <3> QED BY <3>1, <3>2
  <2>6. Len(rings[c]) + Pending(c) = Len(rings[1]) + Pending(1) + lag[c]
    BY <2>2 DEF Balance
  <2>7. c > pch => pch < Channels
    BY <1>1, <2>4
  <2>8. Len(rings'[c]) + Pending(c)' = Len(rings'[1]) + Pending(1)' + lag[c]
    <3>1. CASE pch = 1 /\ c = 1
      <4>1. /\ Len(rings'[c]) = Len(rings'[1]) /\ Pending(c)' = Pending(1)'
            /\ Len(rings[c]) = Len(rings[1]) /\ Pending(c) = Pending(1)
            /\ Len(rings'[1]) \in Nat /\ Pending(1)' \in Nat
        BY <1>1, <2>2a, <2>3, <2>5, <3>1
      <4>2. lag[c] = 0
        BY <2>3, <2>4, <2>6, <4>1
      <4> QED BY <4>1, <4>2
    <3>2. CASE pch = 1 /\ c > 1
      <4>1. /\ Len(rings'[c]) = Len(rings[c]) /\ Pending(c)' = Len(block)
            /\ Len(rings'[1]) = Len(rings[1]) + Len(block) /\ Pending(1)' = 0
            /\ Pending(c) = Len(block) /\ Pending(1) = Len(block)
        BY <2>3, <2>4, <2>5, <2>7, <3>2
      <4> QED BY <2>2a, <2>3, <2>6, <4>1
    <3>3. CASE pch # 1 /\ c = pch
      <4>1. /\ Len(rings'[c]) = Len(rings[c]) + Len(block) /\ Pending(c)' = 0
            /\ Len(rings'[1]) = Len(rings[1]) /\ Pending(1)' = 0
            /\ Pending(c) = Len(block) /\ Pending(1) = 0
        BY <1>1, <2>3, <2>4, <2>5, <3>3
      <4> QED BY <2>2a, <2>3, <2>6, <4>1
    <3>4. CASE pch # 1 /\ c # pch
      <4>1. /\ Len(rings'[c]) = Len(rings[c]) /\ Pending(c)' = Pending(c)
            /\ Len(rings'[1]) = Len(rings[1]) /\ Pending(1)' = Pending(1)
        BY <1>1, <2>3, <2>4, <2>5, <2>7, <3>4
      <4> QED BY <2>2a, <2>3, <2>6, <4>1
    <3> QED BY <1>1, <2>4, <3>1, <3>2, <3>3, <3>4
  <2> QED BY <1>7, <2>2, <2>8 DEF Balance, Behind, pullVars
<1> QED BY <1>8, <1>9, <1>10 DEF IInv

-----------------------------------------------------------------------------
(* pull().                                                                 *)

LEMMA PullBeginStep ==
  ASSUME IInv, NEW m \in Blocks, NEW want \in Wants, PullBegin(m, want) PROVE IInv'
<1> USE Numbers, OneIsAChannel
<1>0. TypeOK /\ StageInv /\ PushInv /\ (NoOverrun => \A c \in Chans : Balance(c))
  BY DEF IInv
<1>f. \A c \in Chans : /\ Len(rings[c]) \in Nat /\ Len(rings[c]) <= Room
                       /\ Len(stage[c]) \in Nat /\ Len(stage[c]) <= StageCap
                       /\ lag[c] \in Int /\ overruns[c] \in Nat
  BY <1>0, ChannelFacts
<1>1. /\ cpc = "idle" /\ frames' = m /\ toRead' = ToStage(want) /\ cch' = 1
      /\ cpc' = IF ToStage(want) > 0 THEN "read" ELSE "resample"
      /\ meetings' = IF ppc = "idle" THEN meetings ELSE "once"
      /\ UNCHANGED <<rings, overruns, pushVars, stage, underruns, consumed, last, lag>>
  BY DEF PullBegin
<1>2. /\ Len(rings[1]) \in Nat /\ Len(stage[1]) \in 0 .. StageCap
  BY <1>0, <1>f DEF TypeOK
<1>3. /\ ToStage(want) \in 0 .. StageCap /\ ToStage(want) <= Len(rings[1])
      /\ Len(stage[1]) + ToStage(want) <= StageCap
  <2> DEFINE k == Least(want, StageCap - Len(stage[1]))
  <2>1. want \in Nat /\ StageCap - Len(stage[1]) \in Nat
    BY <1>2, SizesAssumption
  <2>2. k \in Nat /\ k <= StageCap - Len(stage[1])
    <3> DEFINE free == StageCap - Len(stage[1])
    <3>1. k = IF want <= free THEN want ELSE free
      BY DEF Least
    <3> HIDE DEF k, free
    <3>2. free \in Nat
      BY <2>1 DEF free
    <3>3. k \in Nat /\ k <= free
      BY <2>1, <3>1, <3>2
    <3> QED BY <3>3 DEF free
  <2>3. ToStage(want) = IF k <= Len(rings[1]) THEN k ELSE Len(rings[1])
    BY DEF ToStage, Least
  <2> HIDE DEF k
  <2>4. /\ ToStage(want) \in Nat /\ ToStage(want) <= k /\ ToStage(want) <= Len(rings[1])
    BY <1>2, <2>2, <2>3
  <2> QED BY <1>2, <2>2, <2>4
<1>4. TypeOK'
  BY <1>0, <1>f, <1>1, <1>3 DEF TypeOK, pushVars
<1>5. StageInv' /\ PushInv'
  BY <1>0, <1>f, <1>1, <1>2, <1>3 DEF StageInv, PushInv, pushVars
<1>6. NoOverrun' => \A c \in Chans : Balance(c)'
  <2>1. \A c \in Chans : Behind(c) = 0 /\ Behind(c)' = 0
    BY <1>1 DEF Behind
  <2>2. \A c \in Chans : Pending(c)' = Pending(c)
    BY <1>1 DEF Pending, pushVars
  <2> QED BY <1>0, <1>f, <1>1, <2>1, <2>2 DEF NoOverrun, Balance, pushVars
<1> QED BY <1>4, <1>5, <1>6 DEF IInv

LEMMA PullReadStep == ASSUME IInv, PullRead PROVE IInv'
<1> USE Numbers, OneIsAChannel
<1> DEFINE n == CanRead(cch)
           short == Untouched(toRead - n)
<1>0. TypeOK /\ StageInv /\ PushInv /\ (NoOverrun => \A c \in Chans : Balance(c))
  BY DEF IInv
<1>f. \A c \in Chans : /\ Len(rings[c]) \in Nat /\ Len(rings[c]) <= Room
                       /\ Len(stage[c]) \in Nat /\ Len(stage[c]) <= StageCap
                       /\ lag[c] \in Int /\ overruns[c] \in Nat
  BY <1>0, ChannelFacts
<1>1. /\ cpc = "read" /\ cch \in Chans /\ toRead \in Nat /\ toRead > 0
      /\ Len(stage[cch]) + toRead <= StageCap
      /\ rings[cch] \in Seq(1 .. MaxPushed) /\ stage[cch] \in Seq(0 .. MaxPushed)
      /\ Len(rings[cch]) \in Nat /\ Len(stage[cch]) \in Nat
  BY <1>0, <1>f DEF PullRead, TypeOK, StageInv
<1>2. /\ n \in 0 .. Len(rings[cch]) /\ n \in Nat /\ n <= toRead
      /\ n = toRead \/ n = Len(rings[cch])
      /\ cch = 1 => n = toRead
  <2>1. n = IF toRead <= Len(rings[cch]) THEN toRead ELSE Len(rings[cch])
    BY DEF CanRead, Least
  <2>2. cch = 1 => toRead <= Len(rings[1])
    BY <1>0, <1>1 DEF StageInv
  <2> HIDE DEF n
  <2> QED BY <1>1, <2>1, <2>2
<1>3. /\ stage' = [stage EXCEPT ![cch] = @ \o Prefix(rings[cch], n) \o short]
      /\ rings' = [rings EXCEPT ![cch] = Suffix(@, n)]
      /\ lag' = IF cch = 1 THEN [c \in Chans |-> IF c = 1 THEN 0 ELSE lag[c] + n]
                ELSE [lag EXCEPT ![cch] = @ - n]
      /\ IF cch < Channels THEN cch' = cch + 1 /\ UNCHANGED cpc
         ELSE cch' = 1 /\ cpc' = "resample"
      /\ UNCHANGED <<overruns, pushVars, frames, toRead, underruns, consumed, last, meetings>>
  BY DEF PullRead
<1> HIDE DEF n
<1>4. /\ Suffix(rings[cch], n) \in Seq(1 .. MaxPushed)
      /\ Len(Suffix(rings[cch], n)) = Len(rings[cch]) - n
  BY <1>1, <1>2, SuffixFacts
<1>5. /\ stage[cch] \o Prefix(rings[cch], n) \o short \in Seq(0 .. MaxPushed)
      /\ Len(stage[cch] \o Prefix(rings[cch], n) \o short) = Len(stage[cch]) + toRead
  <2>1. Prefix(rings[cch], n) \in Seq(0 .. MaxPushed) /\ Len(Prefix(rings[cch], n)) = n
    <3>1. rings[cch] \in Seq(0 .. MaxPushed)
      BY <1>1
    <3> QED BY <1>1, <1>2, <3>1, PrefixFacts
  <2>2. short \in Seq(0 .. MaxPushed) /\ Len(short) = toRead - n
    <3>1. toRead - n \in Nat
      BY <1>1, <1>2
    <3> QED BY <3>1, StaleFacts
  <2> HIDE DEF short
  <2>3. /\ stage[cch] \o Prefix(rings[cch], n) \in Seq(0 .. MaxPushed)
        /\ Len(stage[cch] \o Prefix(rings[cch], n)) = Len(stage[cch]) + n
    BY <1>1, <2>1, ConcatFacts
  <2>4. /\ (stage[cch] \o Prefix(rings[cch], n)) \o short \in Seq(0 .. MaxPushed)
        /\ Len((stage[cch] \o Prefix(rings[cch], n)) \o short) =
             Len(stage[cch] \o Prefix(rings[cch], n)) + Len(short)
    BY <2>2, <2>3, ConcatFacts
  <2>5. (Len(stage[cch]) + n) + (toRead - n) = Len(stage[cch]) + toRead
    BY <1>1, <1>2
  <2> QED BY <2>2, <2>3, <2>4, <2>5
<1> HIDE DEF short
<1>k. /\ rings' \in [Chans -> Seq(1 .. MaxPushed)] /\ stage' \in [Chans -> Seq(0 .. MaxPushed)]
      /\ Len(rings'[cch]) = Len(rings[cch]) - n /\ Len(stage'[cch]) = Len(stage[cch]) + toRead
      /\ \A c \in Chans : c # cch => rings'[c] = rings[c] /\ stage'[c] = stage[c]
  <2> DEFINE r == Suffix(rings[cch], n)
             t == stage[cch] \o Prefix(rings[cch], n) \o short
  <2>1. rings \in [Chans -> Seq(1 .. MaxPushed)] /\ stage \in [Chans -> Seq(0 .. MaxPushed)]
    BY <1>0 DEF TypeOK
  <2>2. rings' = [rings EXCEPT ![cch] = r] /\ stage' = [stage EXCEPT ![cch] = t]
    BY <1>3
  <2>3. /\ r \in Seq(1 .. MaxPushed) /\ Len(r) = Len(rings[cch]) - n
        /\ t \in Seq(0 .. MaxPushed) /\ Len(t) = Len(stage[cch]) + toRead
    BY <1>4, <1>5
  <2> HIDE DEF r, t
  <2> QED BY <1>1, <2>1, <2>2, <2>3
<1>6. /\ Len(rings'[cch]) = Len(rings[cch]) - n /\ Len(stage'[cch]) = Len(stage[cch]) + toRead
      /\ \A c \in Chans : c # cch => rings'[c] = rings[c] /\ stage'[c] = stage[c]
  BY <1>k
<1>7. /\ lag' \in [Chans -> Int] /\ cch' \in Chans /\ cpc' \in {"read", "resample"}
  <2>1. lag' \in [Chans -> Int]
    <3>1. lag \in [Chans -> Int] /\ n \in Int
      BY <1>0, <1>1, <1>2 DEF TypeOK
    <3>2. CASE cch = 1
      BY <1>3, <1>f, <3>1, <3>2
    <3>3. CASE cch # 1
      BY <1>1, <1>3, <1>f, <3>1, <3>3
    <3> QED BY <3>2, <3>3
  <2>2. CASE cch < Channels
    <3>1. cch + 1 \in Chans
      BY <1>1, <2>2 DEF Chans
    <3> QED BY <1>1, <1>3, <2>1, <2>2, <3>1
  <2>3. CASE ~(cch < Channels)
    BY <1>3, <2>1, <2>3
  <2> QED BY <2>2, <2>3
<1>s. \A c \in Chans :
        /\ cch > 1 /\ c >= cch => Len(stage[c]) = Len(stage[1]) - toRead
        /\ ~(cch > 1 /\ c >= cch) => Len(stage[c]) = Len(stage[1])
  BY <1>0, <1>1 DEF StageInv
<1>v. ASSUME NEW c \in Chans
      PROVE  /\ c >= cch + 1 => Len(stage'[c]) = Len(stage'[1]) - toRead
             /\ ~(c >= cch + 1) => Len(stage'[c]) = Len(stage'[1])
  <2>1. c \in Nat /\ cch \in Nat /\ c >= 1 /\ cch >= 1
    BY <1>1
  <2>2. Len(stage[c]) \in Nat /\ Len(stage[1]) \in Nat /\ Len(stage[cch]) \in Nat
    BY <1>1, <1>f
  <2>3. /\ cch > 1 /\ c >= cch => Len(stage[c]) = Len(stage[1]) - toRead
        /\ ~(cch > 1 /\ c >= cch) => Len(stage[c]) = Len(stage[1])
    BY <1>s
  <2>4. /\ c = cch => Len(stage'[c]) = Len(stage[c]) + toRead
        /\ c # cch => Len(stage'[c]) = Len(stage[c])
        /\ 1 = cch => Len(stage'[1]) = Len(stage[1]) + toRead
        /\ 1 # cch => Len(stage'[1]) = Len(stage[1])
    BY <1>6
  <2>5. toRead \in Nat
    BY <1>1
  <2> QED BY <2>1, <2>2, <2>3, <2>4, <2>5
<1>9. StageInv'
  <2>1. CASE cch < Channels
    <3>1. cch' = cch + 1 /\ cpc' = "read" /\ toRead' = toRead
      BY <1>1, <1>3, <2>1
    <3>2. ASSUME NEW c \in Chans
          PROVE  /\ c >= cch + 1 => Len(stage'[c]) = Len(stage'[1]) - toRead
                 /\ ~(c >= cch + 1) => Len(stage'[c]) = Len(stage'[1])
      BY <1>v
    <3>3. Len(stage'[cch + 1]) + toRead <= StageCap
      <4>1. cch + 1 \in Chans /\ cch + 1 # cch
        BY <1>1, <2>1 DEF Chans
      <4>2. Len(stage'[cch + 1]) = Len(stage[cch + 1])
        BY <1>6, <4>1
      <4>3. Len(stage[cch + 1]) = Len(stage[cch])
        <5>1. cch \in Nat /\ cch >= 1 /\ cch + 1 > 1
          BY <1>1
        <5>2. /\ cch > 1 => Len(stage[cch + 1]) = Len(stage[1]) - toRead
              /\ ~(cch > 1) => Len(stage[cch + 1]) = Len(stage[1])
          BY <1>s, <4>1, <5>1
        <5>3. /\ cch > 1 => Len(stage[cch]) = Len(stage[1]) - toRead
              /\ ~(cch > 1) => Len(stage[cch]) = Len(stage[1])
          BY <1>s, <1>1, <5>1
        <5> QED BY <5>2, <5>3
      <4> QED BY <1>1, <4>2, <4>3
    <3>4. cch + 1 > 1 /\ cch + 1 # 1 /\ toRead > 0
      BY <1>1
    <3> QED BY <3>1, <3>2, <3>3, <3>4 DEF StageInv
  <2>2. CASE ~(cch < Channels)
    <3>1. cch' = 1 /\ cpc' = "resample" /\ cch = Channels
      BY <1>1, <1>3, <2>2
    <3>2. ASSUME NEW c \in Chans PROVE Len(stage'[c]) = Len(stage'[1])
      <4>1. c \in Nat /\ ~(c >= cch + 1)
        BY <1>1, <3>1
      <4> QED BY <1>v, <4>1
    <3> QED BY <3>1, <3>2 DEF StageInv
  <2> QED BY <2>1, <2>2
<1>10. TypeOK'
  <2>1. \A c \in Chans : Len(rings'[c]) <= Room
    <3>1. Len(rings[cch]) - n <= Room
      BY <1>1, <1>2, <1>f
    <3> QED BY <1>f, <1>1, <1>6, <3>1
  <2>2. \A c \in Chans : Len(stage'[c]) <= StageCap
    BY <1>f, <1>1, <1>6
  <2>3. cpc' # "read" => \A c \in Chans : Len(stage'[c]) = Len(stage'[1])
    BY <1>6, <1>9 DEF StageInv
  <2> QED BY <1>0, <1>3, <1>k, <1>7, <2>1, <2>2, <2>3 DEF TypeOK, pushVars
<1>11. PushInv'
  BY <1>0, <1>f, <1>3 DEF PushInv, pushVars
<1>12. ASSUME NoOverrun', NEW c \in Chans PROVE Balance(c)'
  <2>1. Balance(c) /\ Balance(1)
    BY <1>0, <1>f, <1>3, <1>12 DEF NoOverrun
  <2>2. Pending(c)' = Pending(c) /\ Pending(1)' = Pending(1)
    BY <1>3 DEF Pending, pushVars
  <2>3. Pending(c) \in 0 .. MaxSkew /\ Pending(1) \in Nat /\ MaxSkew \in Nat
    <3>1. Len(block) \in Nat /\ Len(block) <= LongestPush /\ Len(block) <= RingFrames
      BY <1>0 DEF TypeOK, PushInv
    <3>2. Len(block) <= MaxSkew /\ MaxSkew \in Nat
      BY <3>1, MaxSkewFacts
    <3>3. Pending(c) \in {0, Len(block)} /\ Pending(1) \in {0, Len(block)}
      BY DEF Pending
    <3> QED BY <3>1, <3>2, <3>3
  <2>4. /\ c = cch => Len(rings'[c]) = Len(rings[c]) - n
        /\ c # cch => Len(rings'[c]) = Len(rings[c])
        /\ 1 = cch => Len(rings'[1]) = Len(rings[1]) - n
        /\ 1 # cch => Len(rings'[1]) = Len(rings[1])
        /\ Len(rings[c]) \in Nat /\ Len(rings[1]) \in Nat /\ lag[c] \in Int
    BY <1>6, <1>f
  <2>5. lag'[c] = IF cch = 1 THEN (IF c = 1 THEN 0 ELSE lag[c] + n)
                  ELSE (IF c = cch THEN lag[c] - n ELSE lag[c])
    BY <1>0, <1>f, <1>1, <1>3 DEF TypeOK
  <2>6. /\ c > cch => Behind(c)' = toRead
        /\ ~(c > cch) => Behind(c)' = 0
    <3>1. CASE cch < Channels
      <4>1. cpc' = "read" /\ cch' = cch + 1 /\ cch + 1 > 1 /\ (c >= cch + 1 <=> c > cch)
            /\ toRead' = toRead
        BY <1>1, <1>3, <3>1
      <4> QED BY <4>1 DEF Behind
    <3>2. CASE ~(cch < Channels)
      <4>1. cpc' = "resample" /\ ~(c > cch)
        BY <1>1, <1>3, <3>2
      <4> QED BY <4>1 DEF Behind
    <3> QED BY <3>1, <3>2
  <2>7. /\ cch > 1 /\ c >= cch => Behind(c) = toRead
        /\ ~(cch > 1 /\ c >= cch) => Behind(c) = 0
    BY <1>1 DEF Behind
  <2>e. Len(rings[c]) + Pending(c) = Len(rings[1]) + Pending(1) + lag[c]
    BY <2>1 DEF Balance
  <2>a. lag[c] - Behind(c) \in 0 .. MaxSkew
    BY <2>1 DEF Balance
  <2>b. cch \in Nat /\ c \in Nat /\ cch >= 1 /\ c >= 1
    BY <1>1
  <2>c. /\ Len(rings[c]) \in Nat /\ Len(rings[1]) \in Nat /\ lag[c] \in Int /\ n \in Nat
        /\ Pending(c) \in Nat /\ Pending(1) \in Nat
    BY <1>2, <2>3, <2>4
  <2>8. Len(rings'[c]) + Pending(c) = Len(rings'[1]) + Pending(1) + lag'[c]
    <3>1. lag[1] \in Int
      BY <1>f
    <3>2. CASE cch = 1 /\ c = 1
      BY <1>1, <1>2, <2>3, <2>4, <2>5, <3>2
    <3>3. CASE cch = 1 /\ c # 1
      <4>1. /\ Len(rings'[c]) = Len(rings[c]) /\ Len(rings'[1]) = Len(rings[1]) - n
            /\ lag'[c] = lag[c] + n
        BY <2>4, <2>5, <3>3
      <4> QED BY <2>c, <2>e, <4>1
    <3>4. CASE cch # 1 /\ c = cch
      <4>1. /\ Len(rings'[c]) = Len(rings[c]) - n /\ Len(rings'[1]) = Len(rings[1])
            /\ lag'[c] = lag[c] - n
        BY <2>4, <2>5, <3>4
      <4>2. (Len(rings[c]) - n) + Pending(c) = Len(rings[1]) + Pending(1) + (lag[c] - n)
        <5> DEFINE a == Len(rings[c])
                   b == Len(rings[1])
                   p == Pending(c)
                   q == Pending(1)
                   m == lag[c]
        <5>1. /\ a \in Int /\ b \in Int /\ p \in Int /\ q \in Int /\ m \in Int /\ n \in Int
              /\ a + p = b + q + m
          BY <2>c, <2>e
        <5> HIDE DEF a, b, p, q, m
        <5>2. (a - n) + p = b + q + (m - n)
          BY <5>1, TakeFromBoth
        <5> QED BY <5>2 DEF a, b, p, q, m
      <4> QED BY <4>1, <4>2
    <3>5. CASE cch # 1 /\ c # cch
      BY <1>1, <1>2, <2>3, <2>4, <2>5, <2>e, <3>5
    <3> QED BY <3>2, <3>3, <3>4, <3>5
  <2>9. lag'[c] - Behind(c)' \in 0 .. MaxSkew
    <3>1. CASE c # cch /\ cch = 1
      <4>1. Behind(c) = 0 /\ Behind(c)' = toRead /\ lag'[c] = lag[c] + toRead
        BY <1>2, <2>5, <2>6, <2>7, <2>b, <3>1
      <4>2. lag[c] - 0 \in 0 .. MaxSkew
        BY <2>a, <4>1
      <4>3. (lag[c] + toRead) - toRead = lag[c] - 0
        BY <1>1, <2>c
      <4> QED BY <4>1, <4>2, <4>3
    <3>2. CASE c # cch /\ cch # 1
      <4>1. lag'[c] = lag[c] /\ Behind(c)' = Behind(c)
        BY <2>5, <2>6, <2>7, <2>b, <3>2
      <4> QED BY <2>a, <4>1
    <3>3. CASE c = cch /\ cch = 1
      <4>1. lag'[c] = 0 /\ Behind(c)' = 0
        BY <2>5, <2>6, <2>b, <3>3
      <4> QED BY <2>3, <4>1
    <3>4. CASE c = cch /\ cch # 1
      <4>1. lag'[c] = lag[c] - n /\ Behind(c)' = 0 /\ Behind(c) = toRead
        BY <2>5, <2>6, <2>7, <2>b, <3>4
      <4>2. lag[c] - toRead \in 0 .. MaxSkew
        BY <2>a, <4>1
      <4>3. CASE n = toRead
        <5>1. lag'[c] = lag[c] - toRead
          BY <4>1, <4>3
        <5>2. (lag[c] - toRead) - 0 = lag[c] - toRead
          BY <4>2
        <5> QED BY <4>1, <4>2, <5>1, <5>2
      <4>4. CASE n = Len(rings[cch])
        <5>1. Len(rings'[c]) = 0 /\ Len(rings'[1]) = Len(rings[1])
          BY <2>4, <3>4, <4>4
        <5>2. 0 + Pending(c) = Len(rings[1]) + Pending(1) + (lag[c] - n)
          BY <2>8, <4>1, <5>1
        <5>3. toRead \in Nat /\ n <= toRead
          BY <1>1, <1>2
        <5>4. lag[c] - n \in 0 .. MaxSkew
          <6> DEFINE x == lag[c] - n
          <6>1. x \in Int /\ x >= 0
            BY <2>c, <4>2, <5>3
          <6>2. Pending(c) = Len(rings[1]) + Pending(1) + x
            BY <2>c, <5>2, <6>1
          <6> HIDE DEF x
          <6>3. x \in 0 .. MaxSkew
            BY <2>3, <2>c, <6>1, <6>2
          <6> QED BY <6>3 DEF x
        <5>5. (lag[c] - n) - 0 = lag[c] - n
          BY <2>c
        <5> QED BY <4>1, <5>4, <5>5
      <4> QED BY <1>2, <4>3, <4>4
    <3> QED BY <3>1, <3>2, <3>3, <3>4
  <2> QED BY <2>2, <2>8, <2>9 DEF Balance
<1> QED BY <1>9, <1>10, <1>11, <1>12 DEF IInv

LEMMA ResampleStep ==
  ASSUME IInv, NEW n \in Nat, NEW gap \in Nat, Resample(n, gap) PROVE IInv'
<1> USE Numbers, OneIsAChannel
<1>0. TypeOK /\ StageInv /\ PushInv /\ (NoOverrun => \A c \in Chans : Balance(c))
  BY DEF IInv
<1>f. \A c \in Chans : /\ Len(rings[c]) \in Nat /\ Len(rings[c]) <= Room
                       /\ Len(stage[c]) \in Nat /\ Len(stage[c]) <= StageCap
                       /\ lag[c] \in Int /\ overruns[c] \in Nat
  BY <1>0, ChannelFacts
<1>1. /\ cpc = "resample" /\ n <= Len(stage[1]) /\ underruns + gap <= MaxUnderruns
      /\ stage' = Shift(n) /\ consumed' = consumed + n /\ last' = (IF n = 0 THEN last ELSE stage[1][n])
      /\ underruns' = underruns + gap
      /\ cpc' = "idle" /\ frames' = 0 /\ toRead' = 0
      /\ UNCHANGED <<rings, overruns, pushVars, cch, lag, meetings>>
  BY DEF Resample
<1>2. \A c \in Chans : stage[c] \in Seq(0 .. MaxPushed) /\ Len(stage[c]) = Len(stage[1])
                       /\ Len(stage[c]) \in 0 .. StageCap
  BY <1>0, <1>f, <1>1 DEF TypeOK
<1>3. /\ stage' \in [Chans -> Seq(0 .. MaxPushed)]
      /\ \A c \in Chans : Len(stage'[c]) = Len(stage[1]) - n
  <2>1. \A c \in Chans : Suffix(stage[c], n) \in Seq(0 .. MaxPushed)
                         /\ Len(Suffix(stage[c], n)) = Len(stage[1]) - n
    <3>1. \A c \in Chans : n \in 0 .. Len(stage[c])
      BY <1>1, <1>2
    <3> QED BY <1>2, <3>1, SuffixFacts
  <2> QED BY <1>1, <2>1 DEF Shift
<1>4. TypeOK'
  <2>1. \A c \in Chans : Len(stage'[c]) <= StageCap /\ Len(stage'[c]) = Len(stage'[1])
    BY <1>2, <1>3
  <2>2. consumed' \in Nat /\ underruns' \in 0 .. MaxUnderruns
    BY <1>0, <1>1 DEF TypeOK
  <2>3. stage' \in [Chans -> Seq(0 .. MaxPushed)]
    BY <1>3
  <2>4. frames' \in Blocks \union {0} /\ toRead' \in 0 .. StageCap
    BY <1>1
  <2>5. last' \in 0 .. MaxPushed
    <3>1. CASE n = 0
      BY <1>0, <1>1, <3>1 DEF TypeOK
    <3>2. CASE n # 0
      <4>1. n \in 1 .. Len(stage[1]) /\ stage[1] \in Seq(0 .. MaxPushed)
        BY <1>1, <1>2, <3>2
      <4>2. stage[1][n] \in 0 .. MaxPushed
        BY <4>1
      <4> QED BY <1>1, <3>2, <4>2
    <3> QED BY <3>1, <3>2
  <2> QED BY <1>0, <1>1, <2>1, <2>2, <2>3, <2>4, <2>5 DEF TypeOK, pushVars
<1>5. StageInv' /\ PushInv'
  <2>1. StageInv'
    BY <1>0, <1>f, <1>1, <1>2, <1>3 DEF StageInv
  <2> QED BY <1>0, <1>f, <1>1, <2>1 DEF PushInv, pushVars
<1>6. NoOverrun' => \A c \in Chans : Balance(c)'
  <2>1. \A c \in Chans : Behind(c) = 0 /\ Behind(c)' = 0
    BY <1>1 DEF Behind
  <2>2. \A c \in Chans : Pending(c)' = Pending(c)
    BY <1>1 DEF Pending, pushVars
  <2> QED BY <1>0, <1>f, <1>1, <2>1, <2>2 DEF NoOverrun, Balance, pushVars
<1> QED BY <1>4, <1>5, <1>6 DEF IInv

-----------------------------------------------------------------------------
LEMMA NextIInv == IInv /\ [Next]_vars => IInv'
<1> SUFFICES ASSUME IInv, [Next]_vars PROVE IInv'
  OBVIOUS
<1>1. CASE Device
  BY <1>1, PushBeginStep, PushChannelStep DEF Device
<1>2. CASE Engine
  BY <1>2, SizesAssumption, PullBeginStep, PullReadStep, ResampleStep DEF Engine
<1>3. CASE UNCHANGED vars
  BY <1>3 DEF IInv, TypeOK, StageInv, PushInv, NoOverrun, Balance, Pending, Behind,
              vars, pushVars, pullVars
<1> QED BY <1>1, <1>2, <1>3 DEF Next

\* The balance of the rings and all it rests on hold in every state.
THEOREM Invariance == Spec => []IInv
  BY InitIInv, NextIInv, PTL DEF Spec

\* Every variable keeps its type; no read writes beyond a staging buffer.
THEOREM TypeCorrect == Spec => []TypeOK
<1>1. IInv => TypeOK
  BY DEF IInv
<1> QED BY <1>1, Invariance, PTL

\* Until a ring overflows, a channel trails the first by one push at most, however
\* often pulls come in the middle of pushes: the skew does not add up.
THEOREM SkewDoesNotAddUp == Spec => []LagWithinOnePush
<1>1. IInv => LagWithinOnePush
  <2> SUFFICES ASSUME IInv, NoOverrun, cpc # "read", NEW c \in Chans
               PROVE lag[c] \in 0 .. MaxSkew
    BY DEF LagWithinOnePush, NoOverrun, MaxSkew
  <2>1. Balance(c) /\ lag[c] \in Int
    BY DEF IInv, TypeOK
  <2> QED BY <2>1 DEF Balance, Behind
<1> QED BY <1>1, Invariance, PTL

-----------------------------------------------------------------------------
(* The frames on their way through channel 1: sequences.                   *)

LEMMA JoinIs ==
  ASSUME NEW S, NEW s \in Seq(S), NEW t \in Seq(S)
  PROVE  /\ s \o t \in Seq(S) /\ Len(s \o t) = Len(s) + Len(t)
         /\ Len(s) \in Nat /\ Len(t) \in Nat
         /\ \A k \in 1 .. Len(s) : (s \o t)[k] = s[k]
         /\ \A k \in 1 .. Len(t) : (s \o t)[Len(s) + k] = t[k]
  OBVIOUS

LEMMA JoinCovers ==
  ASSUME NEW S, NEW s \in Seq(S), NEW t \in Seq(S), NEW k \in 1 .. Len(s \o t)
  PROVE  \/ k \in 1 .. Len(s) /\ (s \o t)[k] = s[k]
         \/ k - Len(s) \in 1 .. Len(t) /\ (s \o t)[k] = t[k - Len(s)]
  OBVIOUS

LEMMA SameSequence ==
  ASSUME NEW S, NEW s \in Seq(S), NEW t \in Seq(S), Len(s) = Len(t),
         \A k \in 1 .. Len(s) : s[k] = t[k]
  PROVE  s = t
  OBVIOUS

LEMMA PrefixIs ==
  ASSUME NEW S, NEW t \in Seq(S), NEW n \in 0 .. Len(t)
  PROVE  /\ SubSeq(t, 1, n) \in Seq(S) /\ Len(SubSeq(t, 1, n)) = n
         /\ \A k \in 1 .. n : SubSeq(t, 1, n)[k] = t[k]
  OBVIOUS

LEMMA SuffixIs ==
  ASSUME NEW S, NEW t \in Seq(S), NEW n \in 0 .. Len(t)
  PROVE  /\ SubSeq(t, n + 1, Len(t)) \in Seq(S) /\ Len(SubSeq(t, n + 1, Len(t))) = Len(t) - n
         /\ \A k \in 1 .. (Len(t) - n) : SubSeq(t, n + 1, Len(t))[k] = t[n + k]
  OBVIOUS

LEMMA WholeSequence ==
  ASSUME NEW S, NEW t \in Seq(S)
  PROVE  SubSeq(t, 1, Len(t)) = t
<1>1. Len(t) \in 0 .. Len(t)
  OBVIOUS
<1> QED BY <1>1, PrefixIs, SameSequence

\* A sequence is its front and its rest.
LEMMA Rejoin ==
  ASSUME NEW S, NEW t \in Seq(S), NEW n \in 0 .. Len(t)
  PROVE  SubSeq(t, 1, n) \o SubSeq(t, n + 1, Len(t)) = t
<1> DEFINE a == SubSeq(t, 1, n)
           b == SubSeq(t, n + 1, Len(t))
<1>1. a \in Seq(S) /\ Len(a) = n /\ \A k \in 1 .. n : a[k] = t[k]
  BY PrefixIs
<1>2. b \in Seq(S) /\ Len(b) = Len(t) - n /\ \A k \in 1 .. (Len(t) - n) : b[k] = t[n + k]
  BY SuffixIs
<1>3. Len(t) \in Nat /\ n \in Nat /\ n <= Len(t) /\ n + (Len(t) - n) = Len(t)
  OBVIOUS
<1> HIDE DEF a, b
<1>4. /\ a \o b \in Seq(S) /\ Len(a \o b) = Len(t)
      /\ \A k \in 1 .. n : (a \o b)[k] = a[k]
      /\ \A k \in 1 .. (Len(t) - n) : (a \o b)[n + k] = b[k]
  BY <1>1, <1>2, <1>3, JoinIs
<1>5. ASSUME NEW k \in 1 .. Len(t) PROVE (a \o b)[k] = t[k]
  <2>1. CASE k <= n
    <3>1. k \in 1 .. n
      BY <2>1
    <3> QED BY <1>1, <1>4, <3>1
  <2>2. CASE n < k
    <3> DEFINE j == k - n
    <3>1. j \in 1 .. (Len(t) - n) /\ k = n + j
      BY <1>3, <2>2
    <3> HIDE DEF j
    <3> QED BY <1>2, <1>4, <3>1
  <2>3. k \in Nat
    BY <1>3
  <2>4. k <= n \/ n < k
    BY <1>3, <2>3
  <2> QED BY <2>1, <2>2, <2>4
<1>6. a \o b = t
  BY <1>4, <1>5, SameSequence
<1> QED BY <1>6 DEF a, b

LEMMA JoinAssoc ==
  ASSUME NEW S, NEW s \in Seq(S), NEW t \in Seq(S), NEW u \in Seq(S)
  PROVE  (s \o t) \o u = s \o (t \o u)
<1> DEFINE a == (s \o t) \o u
           b == s \o (t \o u)
<1>1. /\ s \o t \in Seq(S) /\ t \o u \in Seq(S)
      /\ Len(s \o t) = Len(s) + Len(t) /\ Len(t \o u) = Len(t) + Len(u)
      /\ Len(s) \in Nat /\ Len(t) \in Nat /\ Len(u) \in Nat
  BY JoinIs
<1>2. a \in Seq(S) /\ b \in Seq(S) /\ Len(a) = Len(s) + Len(t) + Len(u) /\ Len(b) = Len(a)
  BY <1>1, JoinIs
<1>3. ASSUME NEW k \in 1 .. Len(a) PROVE a[k] = b[k]
  <2>1. CASE k <= Len(s)
    <3>1. k \in 1 .. Len(s) /\ k \in 1 .. Len(s \o t)
      BY <1>1, <2>1
    <3>2. a[k] = (s \o t)[k] /\ (s \o t)[k] = s[k] /\ b[k] = s[k]
      BY <1>1, <3>1, JoinIs
    <3> QED BY <3>2
  <2>2. CASE Len(s) < k /\ k <= Len(s) + Len(t)
    <3> DEFINE j == k - Len(s)
    <3>1. j \in 1 .. Len(t) /\ j \in 1 .. Len(t \o u) /\ k \in 1 .. Len(s \o t) /\ k = Len(s) + j
      BY <1>1, <2>2
    <3> HIDE DEF j
    <3>2. a[k] = (s \o t)[k] /\ (s \o t)[Len(s) + j] = t[j]
      BY <1>1, <3>1, JoinIs
    <3>3. b[Len(s) + j] = (t \o u)[j] /\ (t \o u)[j] = t[j]
      BY <1>1, <3>1, JoinIs
    <3> QED BY <3>1, <3>2, <3>3
  <2>3. CASE Len(s) + Len(t) < k
    <3> DEFINE j == k - Len(s) - Len(t)
               l == Len(t) + j
    <3>1. /\ j \in 1 .. Len(u) /\ l \in 1 .. Len(t \o u) /\ l = Len(t) + j
          /\ k = Len(s \o t) + j /\ k = Len(s) + l
      BY <1>1, <1>2, <2>3
    <3> HIDE DEF j, l
    <3>2. a[Len(s \o t) + j] = u[j]
      BY <1>1, <3>1, JoinIs
    <3>3. b[Len(s) + l] = (t \o u)[l] /\ (t \o u)[Len(t) + j] = u[j]
      BY <1>1, <3>1, JoinIs
    <3> QED BY <3>1, <3>2, <3>3
  <2> QED BY <1>1, <2>1, <2>2, <2>3
<1> HIDE DEF a, b
<1>4. a = b
  BY <1>2, <1>3, SameSequence
<1> QED BY <1>4 DEF a, b

\* The elements of s rise, and lie above a and up to b.
Between(s, a, b) ==
  /\ \A i, j \in 1 .. Len(s) : i < j => s[i] < s[j]
  /\ \A i \in 1 .. Len(s) : a < s[i] /\ s[i] <= b

LEMMA BetweenJoin ==
  ASSUME NEW s \in Seq(Int), NEW t \in Seq(Int), NEW a \in Int, NEW m \in Int, NEW b \in Int,
         a <= m, m <= b, Between(s, a, m), Between(t, m, b)
  PROVE  Between(s \o t, a, b)
<1> DEFINE u == s \o t
<1>1. \A k \in 1 .. Len(u) : \/ k \in 1 .. Len(s) /\ u[k] = s[k]
                             \/ k - Len(s) \in 1 .. Len(t) /\ u[k] = t[k - Len(s)]
  BY JoinCovers
<1>2. /\ \A i \in 1 .. Len(s) : s[i] \in Int /\ a < s[i] /\ s[i] <= m
      /\ \A i \in 1 .. Len(t) : t[i] \in Int /\ m < t[i] /\ t[i] <= b
  BY DEF Between
<1>3. /\ \A i, j \in 1 .. Len(s) : i < j => s[i] < s[j]
      /\ \A i, j \in 1 .. Len(t) : i < j => t[i] < t[j]
  BY DEF Between
<1>4. Len(s) \in Nat /\ Len(u) \in Nat
  BY JoinIs
<1> HIDE DEF u
<1>5. ASSUME NEW k \in 1 .. Len(u) PROVE a < u[k] /\ u[k] <= b
  <2>1. CASE k \in 1 .. Len(s) /\ u[k] = s[k]
    BY <1>2, <2>1
  <2>2. CASE k - Len(s) \in 1 .. Len(t) /\ u[k] = t[k - Len(s)]
    <3> DEFINE h == k - Len(s)
    <3>1. h \in 1 .. Len(t) /\ u[k] = t[h]
      BY <2>2
    <3> HIDE DEF h
    <3> QED BY <1>2, <3>1
  <2> QED BY <1>1, <2>1, <2>2
<1>6. ASSUME NEW i \in 1 .. Len(u), NEW j \in 1 .. Len(u), i < j PROVE u[i] < u[j]
  <2> DEFINE g == i - Len(s)
             h == j - Len(s)
  <2>1. /\ i \in Nat /\ j \in Nat /\ g \in Int /\ h \in Int
        /\ g < h /\ (j <= Len(s) => i <= Len(s))
    BY <1>4, <1>6
  <2>2. /\ \/ i \in 1 .. Len(s) /\ u[i] = s[i]
           \/ g \in 1 .. Len(t) /\ u[i] = t[g]
        /\ \/ j \in 1 .. Len(s) /\ u[j] = s[j]
           \/ h \in 1 .. Len(t) /\ u[j] = t[h]
    BY <1>1
  <2>3. h \in 1 .. Len(t) => ~(j <= Len(s))
    BY <1>4
  <2>4. g \in 1 .. Len(t) => ~(i <= Len(s))
    BY <1>4
  <2>5. j \in 1 .. Len(s) => j <= Len(s)
    OBVIOUS
  <2> HIDE DEF g, h
  <2>6. CASE i \in 1 .. Len(s) /\ u[i] = s[i] /\ j \in 1 .. Len(s) /\ u[j] = s[j]
    BY <1>3, <1>6, <2>6
  <2>7. CASE i \in 1 .. Len(s) /\ u[i] = s[i] /\ h \in 1 .. Len(t) /\ u[j] = t[h]
    BY <1>2, <2>7
  <2>8. CASE g \in 1 .. Len(t) /\ u[i] = t[g] /\ h \in 1 .. Len(t) /\ u[j] = t[h]
    BY <1>3, <2>1, <2>8
  <2> QED BY <2>1, <2>2, <2>3, <2>4, <2>5, <2>6, <2>7, <2>8
<1>7. Between(u, a, b)
  BY <1>5, <1>6 DEF Between
<1> QED BY <1>7 DEF u

LEMMA BetweenPrefix ==
  ASSUME NEW s \in Seq(Int), NEW n \in 0 .. Len(s), NEW a, NEW b, Between(s, a, b)
  PROVE  Between(SubSeq(s, 1, n), a, b)
<1> DEFINE u == SubSeq(s, 1, n)
<1>1. Len(u) = n /\ \A k \in 1 .. n : u[k] = s[k] /\ k \in 1 .. Len(s)
  BY PrefixIs
<1> HIDE DEF u
<1>2. Between(u, a, b)
  BY <1>1 DEF Between
<1> QED BY <1>2 DEF u

\* Without its first n elements a rising sequence lies above the n-th.
LEMMA BetweenSuffix ==
  ASSUME NEW s \in Seq(Int), NEW n \in 1 .. Len(s), NEW a, NEW b, Between(s, a, b)
  PROVE  Between(SubSeq(s, n + 1, Len(s)), s[n], b)
<1> DEFINE u == SubSeq(s, n + 1, Len(s))
<1>0. n \in 0 .. Len(s) /\ Len(s) \in Nat /\ n \in Nat
  OBVIOUS
<1>1. Len(u) = Len(s) - n /\ \A k \in 1 .. (Len(s) - n) : u[k] = s[n + k]
  BY <1>0, SuffixIs
<1> HIDE DEF u
<1>2. ASSUME NEW k \in 1 .. Len(u) PROVE s[n] < u[k] /\ u[k] <= b
  <2> DEFINE h == n + k
  <2>1. h \in 1 .. Len(s) /\ n < h /\ u[k] = s[h]
    BY <1>0, <1>1
  <2> HIDE DEF h
  <2> QED BY <2>1 DEF Between
<1>3. ASSUME NEW i \in 1 .. Len(u), NEW j \in 1 .. Len(u), i < j PROVE u[i] < u[j]
  <2> DEFINE g == n + i
             h == n + j
  <2>0. /\ i \in 1 .. (Len(s) - n) /\ u[i] = s[g]
        /\ j \in 1 .. (Len(s) - n) /\ u[j] = s[h]
    BY <1>1
  <2>1. g \in 1 .. Len(s) /\ h \in 1 .. Len(s) /\ g < h
    BY <1>0, <1>3, <2>0
  <2> HIDE DEF g, h
  <2> QED BY <2>0, <2>1 DEF Between
<1>4. Between(u, s[n], b)
  BY <1>2, <1>3 DEF Between
<1> QED BY <1>4 DEF u

\* A joint moves, the whole does not: what is read goes from one part to the other.
LEMMA MoveJoint ==
  ASSUME NEW S, NEW s \in Seq(S), NEW t \in Seq(S), NEW n \in 0 .. Len(t)
  PROVE  (s \o SubSeq(t, 1, n)) \o SubSeq(t, n + 1, Len(t)) = s \o t
<1> DEFINE a == SubSeq(t, 1, n)
           b == SubSeq(t, n + 1, Len(t))
<1>0. a \in Seq(S) /\ b \in Seq(S)
  BY PrefixIs, SuffixIs
<1>1. a \o b = t
  BY Rejoin
<1> HIDE DEF a, b
<1>2. (s \o a) \o b = s \o (a \o b)
  BY <1>0, JoinAssoc
<1>3. (s \o a) \o b = s \o t
  BY <1>1, <1>2
<1> QED BY <1>3 DEF a, b

\* Dropping from the first part is dropping from the whole.
LEMMA DropFirst ==
  ASSUME NEW s \in Seq(Int), NEW t \in Seq(Int), NEW n \in 0 .. Len(s)
  PROVE  SubSeq(s, n + 1, Len(s)) \o t = SubSeq(s \o t, n + 1, Len(s \o t))
<1> DEFINE b == SubSeq(s, n + 1, Len(s))
           w == s \o t
           x == b \o t
           y == SubSeq(w, n + 1, Len(w))
<1>1. /\ b \in Seq(Int) /\ Len(b) = Len(s) - n /\ \A k \in 1 .. (Len(s) - n) : b[k] = s[n + k]
      /\ w \in Seq(Int) /\ Len(w) = Len(s) + Len(t)
      /\ Len(s) \in Nat /\ Len(t) \in Nat /\ n \in Nat /\ n <= Len(s)
      /\ \A k \in 1 .. Len(s) : w[k] = s[k]
      /\ \A k \in 1 .. Len(t) : w[Len(s) + k] = t[k]
  BY SuffixIs, JoinIs
<1>2. n \in 0 .. Len(w)
  BY <1>1
<1> HIDE DEF b, w
<1>3. /\ y \in Seq(Int) /\ Len(y) = Len(w) - n /\ \A k \in 1 .. (Len(w) - n) : y[k] = w[n + k]
  BY <1>1, <1>2, SuffixIs
<1>b. b \in Seq(Int)
  BY <1>1
<1>4. /\ x \in Seq(Int) /\ Len(x) = Len(b) + Len(t)
      /\ \A k \in 1 .. Len(b) : x[k] = b[k]
      /\ \A k \in 1 .. Len(t) : x[Len(b) + k] = t[k]
  BY <1>b, JoinIs
<1> HIDE DEF x, y
<1>l. /\ Len(b) = Len(s) - n /\ Len(w) = Len(s) + Len(t) /\ Len(x) = Len(b) + Len(t)
      /\ Len(s) \in Nat /\ Len(t) \in Nat /\ n \in Nat /\ n <= Len(s)
  BY <1>1, <1>4
<1>5. Len(x) = Len(y)
  BY <1>1, <1>3, <1>4
<1>6. ASSUME NEW k \in 1 .. Len(x) PROVE x[k] = y[k]
  <2>1. CASE k <= Len(s) - n
    <3> DEFINE h == n + k
    <3>1. /\ k \in 1 .. Len(b) /\ k \in 1 .. (Len(s) - n) /\ h \in 1 .. Len(s)
          /\ k \in 1 .. (Len(w) - n)
      BY <1>l, <2>1
    <3>2. x[k] = b[k] /\ b[k] = s[h] /\ y[k] = w[h]
      BY <1>1, <1>3, <1>4, <3>1
    <3> HIDE DEF h
    <3> QED BY <1>1, <3>1, <3>2
  <2>2. CASE Len(s) - n < k
    <3> DEFINE h == k - (Len(s) - n)
    <3>1. /\ h \in 1 .. Len(t) /\ k = Len(b) + h /\ k \in 1 .. (Len(w) - n)
          /\ n + k = Len(s) + h
      BY <1>l, <2>2
    <3> HIDE DEF h
    <3>2. x[Len(b) + h] = t[h] /\ w[Len(s) + h] = t[h] /\ y[k] = w[n + k]
      BY <1>1, <1>3, <1>4, <3>1
    <3> QED BY <3>1, <3>2
  <2>3. k \in Int /\ Len(s) - n \in Int
    BY <1>1
  <2>4. k <= Len(s) - n \/ Len(s) - n < k
    BY <2>3
  <2> QED BY <2>1, <2>2, <2>4
<1>7. x = y
  BY <1>3, <1>4, <1>5, <1>6, SameSequence
<1> QED BY <1>7 DEF x, y, b, w

\* A short read that is not short leaves no slot alone.
LEMMA NothingUntouched == Untouched(0) = <<>>
<1>1. /\ Untouched(0) \in Seq(0 .. MaxPushed) /\ Len(Untouched(0)) = 0
      /\ <<>> \in Seq(0 .. MaxPushed) /\ Len(<<>>) = 0
  BY StaleFacts
<1>2. \A k \in 1 .. Len(Untouched(0)) : Untouched(0)[k] = <<>>[k]
  BY <1>1
<1> QED BY <1>1, <1>2, SameSequence

LEMMA JoinEmpty ==
  ASSUME NEW S, NEW s \in Seq(S)
  PROVE  s \o <<>> = s
<1>1. <<>> \in Seq(S) /\ Len(<<>>) = 0
  OBVIOUS
<1>2. s \o <<>> \in Seq(S) /\ Len(s \o <<>>) = Len(s)
  BY <1>1, JoinIs
<1>3. \A k \in 1 .. Len(s) : (s \o <<>>)[k] = s[k]
  BY <1>1, JoinIs
<1> QED BY <1>2, <1>3, SameSequence

-----------------------------------------------------------------------------
(* The frames on their way through channel 1: the invariant.               *)

\* Frames that channel 1 was offered so far.
Offered == pushed - Pending(1)

\* What was offered is consumed, on its way or dropped; what is on its way rises, from
\* beyond the last frame consumed to the last one offered, beyond which the block
\* in hand begins.
LeadInv ==
  /\ Between(Lead, last, Offered) /\ last <= Offered
  /\ consumed + Len(Lead) + overruns[1] = Offered
  /\ ppc = "write" => Between(block, pushed - Len(block), pushed)

LEMMA LeadIs ==
  ASSUME TypeOK
  PROVE  /\ stage[1] \in Seq(Int) /\ rings[1] \in Seq(Int) /\ block \in Seq(Int)
         /\ Lead \in Seq(Int) /\ Len(Lead) = Len(stage[1]) + Len(rings[1]) /\ Len(Lead) \in Nat
         /\ Len(stage[1]) \in Nat /\ Len(rings[1]) \in Nat /\ Len(block) \in Nat
         /\ pushed \in Nat /\ consumed \in Nat /\ last \in Nat /\ overruns[1] \in Nat
         /\ Pending(1) \in {0, Len(block)} /\ Offered \in Int
<1>1. /\ stage[1] \in Seq(0 .. MaxPushed) /\ rings[1] \in Seq(1 .. MaxPushed)
      /\ overruns[1] \in Nat
  BY OneIsAChannel, ChannelFacts
<1>2. stage[1] \in Seq(Int) /\ rings[1] \in Seq(Int)
  BY <1>1, Numbers
<1>3. block \in Seq(1 .. MaxPushed) /\ pushed \in Nat /\ consumed \in Nat /\ last \in Nat
  BY Numbers DEF TypeOK
<1>b. block \in Seq(1 .. MaxPushed)
  BY <1>3
<1>4. block \in Seq(Int) /\ Len(block) \in Nat
  BY <1>b, Numbers
<1>5. Lead \in Seq(Int) /\ Len(Lead) = Len(stage[1]) + Len(rings[1])
      /\ Len(stage[1]) \in Nat /\ Len(rings[1]) \in Nat
  BY <1>2, JoinIs DEF Lead
<1>8. Len(Lead) \in Nat
  <2> DEFINE l == Len(Lead)
             a == Len(stage[1])
             b == Len(rings[1])
  <2>1. l = a + b /\ a \in Nat /\ b \in Nat
    BY <1>5
  <2> HIDE DEF l, a, b
  <2>2. l \in Nat
    BY <2>1
  <2> QED BY <2>2 DEF l
<1>6. Pending(1) \in {0, Len(block)}
  BY DEF Pending
<1>7. Offered \in Int
  BY <1>3, <1>4, <1>6 DEF Offered
<1> QED BY <1>1, <1>2, <1>3, <1>4, <1>5, <1>6, <1>7, <1>8

LEMMA InitLead == Init => LeadInv
<1> SUFFICES ASSUME Init PROVE LeadInv
  OBVIOUS
<1>1. /\ stage[1] = <<>> /\ rings[1] = <<>> /\ overruns[1] = 0 /\ pushed = 0 /\ consumed = 0
      /\ last = 0 /\ ppc = "idle"
  BY OneIsAChannel DEF Init
<1>2. <<>> \in Seq(Int) /\ Len(<<>>) = 0
  OBVIOUS
<1>3. Lead = <<>>
  BY <1>1, <1>2, JoinEmpty DEF Lead
<1>4. Offered = 0
  BY <1>1 DEF Offered, Pending
<1>5. Between(<<>>, 0, 0)
  BY <1>2 DEF Between
<1> QED BY <1>1, <1>2, <1>3, <1>4, <1>5 DEF LeadInv

\* Steps that leave channel 1 and the block alone.
LEMMA LeadFrame ==
  ASSUME LeadInv, Lead' = Lead, Offered' = Offered,
         UNCHANGED <<last, consumed, overruns[1]>>,
         ppc' = "write" => ppc = "write" /\ UNCHANGED <<block, pushed>>
  PROVE  LeadInv'
  BY DEF LeadInv

LEMMA PushBeginLead == ASSUME TypeOK, LeadInv, NEW n \in PushSizes, PushBegin(n) PROVE LeadInv'
<1> DEFINE m == Least(n, RingFrames)
<1>1. m \in Nat
  BY SizesAssumption, Numbers DEF Least
<1>2. /\ ppc = "idle" /\ ppc' = "write" /\ pch' = 1 /\ pushed' = pushed + m
      /\ block' = [k \in 1 .. m |-> pushed + k]
      /\ UNCHANGED <<rings, overruns, pullVars>>
  BY DEF PushBegin
<1>3. pushed \in Nat
  BY LeadIs
<1> HIDE DEF m
<1>4. Len(block') = m /\ \A k \in 1 .. m : block'[k] = pushed + k
  BY <1>1, <1>2
<1>5. Between(block', pushed, pushed + m)
  BY <1>1, <1>3, <1>4 DEF Between
<1>6. Offered = pushed /\ Offered' = pushed /\ pushed' - Len(block') = pushed
  BY <1>1, <1>2, <1>3, <1>4 DEF Offered, Pending
<1>7. Lead' = Lead /\ UNCHANGED <<last, consumed, overruns>>
  BY <1>2 DEF Lead, pullVars
<1> QED BY <1>2, <1>5, <1>6, <1>7 DEF LeadInv

LEMMA PushChannelLead == ASSUME TypeOK, LeadInv, PushChannel PROVE LeadInv'
<1> DEFINE n == Least(Len(block), Room - Len(rings[1]))
           p == Prefix(block, n)
<1>0. /\ stage[1] \in Seq(Int) /\ rings[1] \in Seq(Int) /\ block \in Seq(Int)
      /\ Lead \in Seq(Int) /\ Len(Lead) \in Nat /\ Len(block) \in Nat
      /\ pushed \in Nat /\ consumed \in Nat /\ last \in Nat /\ overruns[1] \in Nat
  BY LeadIs
<1>1. /\ ppc = "write" /\ pch \in Chans /\ 1 \in Chans
      /\ rings \in [Chans -> Seq(1 .. MaxPushed)] /\ overruns \in [Chans -> Nat]
      /\ UNCHANGED <<pushed, pullVars>>
      /\ ppc' = "write" => block' = block
      /\ Pending(1)' = 0
  <2>1. /\ ppc = "write" /\ pch \in Chans /\ 1 \in Chans
        /\ rings \in [Chans -> Seq(1 .. MaxPushed)] /\ overruns \in [Chans -> Nat]
        /\ UNCHANGED <<pushed, pullVars>>
    BY OneIsAChannel DEF PushChannel, TypeOK
  <2>2. CASE pch < Channels
    <3>1. pch' = pch + 1 /\ block' = block
      BY <2>2 DEF PushChannel
    <3>2. ~(1 >= pch')
      BY <2>1, <3>1, OneIsAChannel
    <3> QED BY <2>1, <3>1, <3>2 DEF Pending
  <2>3. CASE ~(pch < Channels)
    <3>1. ppc' = "idle"
      BY <2>3 DEF PushChannel
    <3> QED BY <2>1, <3>1 DEF Pending
  <2> QED BY <2>1, <2>2, <2>3
<1>2. Offered' = pushed /\ pushed' = pushed /\ last' = last /\ consumed' = consumed
      /\ stage' = stage
  BY <1>0, <1>1 DEF Offered, pullVars
<1>3. CASE pch = 1
  <2>1. n \in 0 .. Len(block)
    <3> DEFINE free == Room - Len(rings[1])
    <3>1. free \in Nat
      BY <1>1, ChannelFacts, Numbers
    <3>2. n = IF Len(block) <= free THEN Len(block) ELSE free
      BY DEF Least
    <3> HIDE DEF n, free
    <3> QED BY <1>0, <3>1, <3>2
  <2>2. rings'[1] = rings[1] \o p /\ overruns'[1] = overruns[1] + (Len(block) - n)
    BY <1>1, <1>3 DEF PushChannel
  <2>3. p \in Seq(Int) /\ Len(p) = n /\ Between(block, pushed - Len(block), pushed)
    BY <1>0, <1>1, <2>1, PrefixIs DEF Prefix, LeadInv
  <2>4. Between(p, pushed - Len(block), pushed)
    BY <1>0, <2>1, <2>3, BetweenPrefix DEF Prefix
  <2>5. Offered = pushed - Len(block)
    BY <1>1, <1>3 DEF Offered, Pending
  <2> DEFINE w == pushed - Len(block)
  <2>6. w \in Int /\ w <= pushed /\ last <= w /\ Between(Lead, last, w)
        /\ consumed + Len(Lead) + overruns[1] = w
    BY <1>0, <2>5 DEF LeadInv
  <2> HIDE DEF n, p, w
  <2>7. Lead' = Lead \o p
    <3>1. Lead' = stage[1] \o (rings[1] \o p)
      BY <1>2, <2>2 DEF Lead
    <3> DEFINE s == stage[1]
               t == rings[1]
    <3>2. s \in Seq(Int) /\ t \in Seq(Int) /\ p \in Seq(Int)
      BY <1>0, <2>3
    <3>3. Lead = s \o t /\ Lead' = s \o (t \o p)
      BY <3>1 DEF Lead
    <3> HIDE DEF s, t
    <3>4. (s \o t) \o p = s \o (t \o p)
      BY <3>2, JoinAssoc
    <3> QED BY <3>3, <3>4
  <2>8. Between(p, w, pushed)
    BY <2>4 DEF w
  <2>9. Between(Lead \o p, last, pushed)
    BY <1>0, <2>3, <2>6, <2>8, BetweenJoin
  <2>10. Len(Lead \o p) = Len(Lead) + n
    BY <1>0, <2>3, JoinIs
  <2>11. consumed + (Len(Lead) + n) + (overruns[1] + (Len(block) - n)) = pushed
    <3> DEFINE l == Len(Lead)
               b == Len(block)
    <3>1. /\ n \in Int /\ l \in Int /\ b \in Int /\ consumed \in Int /\ pushed \in Int
          /\ overruns[1] \in Int /\ consumed + l + overruns[1] = pushed - b
      BY <1>0, <2>1, <2>6 DEF w
    <3> HIDE DEF l, b
    <3>2. consumed + (l + n) + (overruns[1] + (b - n)) = pushed
      BY <3>1
    <3> QED BY <3>2 DEF l, b
  <2>12. last <= pushed
    BY <1>0, <2>6
  <2> QED BY <1>1, <1>2, <2>2, <2>3, <2>7, <2>9, <2>10, <2>11, <2>12 DEF LeadInv
<1>4. CASE pch # 1
  <2>1. rings'[1] = rings[1] /\ overruns'[1] = overruns[1]
    BY <1>1, <1>4 DEF PushChannel
  <2>2. Offered = pushed
    <3>1. ~(1 >= pch)
      BY <1>1, <1>4, OneIsAChannel
    <3> QED BY <1>0, <3>1 DEF Offered, Pending
  <2>3. Lead' = Lead
    BY <1>2, <2>1 DEF Lead
  <2> QED BY <1>1, <1>2, <2>1, <2>2, <2>3, LeadFrame
<1> QED BY <1>3, <1>4

LEMMA PullReadLead == ASSUME TypeOK, StageInv, LeadInv, PullRead PROVE LeadInv'
<1>0. /\ cch \in Chans /\ 1 \in Chans
      /\ rings \in [Chans -> Seq(1 .. MaxPushed)] /\ stage \in [Chans -> Seq(0 .. MaxPushed)]
  BY OneIsAChannel DEF TypeOK
<1>n. stage[1] \in Seq(Int) /\ rings[1] \in Seq(Int) /\ Len(rings[1]) \in Nat
  BY LeadIs
<1>r. toRead \in Nat
  BY Numbers DEF TypeOK
<1>1. Offered' = Offered /\ UNCHANGED <<last, consumed, overruns, ppc, block, pushed>>
  BY DEF PullRead, Offered, Pending, pushVars
<1>2. CASE cch = 1
  <2>1. toRead \in 0 .. Len(rings[1])
    BY <1>2, <1>n, <1>r DEF StageInv, PullRead
  <2>2. CanRead(1) = toRead /\ toRead - toRead = 0
    BY <1>n, <1>r, <2>1 DEF CanRead, Least
  <2> DEFINE p == Prefix(rings[1], toRead)
             q == Suffix(rings[1], toRead)
  <2>3. stage'[1] = stage[1] \o p \o Untouched(0) /\ rings'[1] = q
    BY <1>0, <1>2, <2>2 DEF PullRead
  <2>4. p \in Seq(Int)
    BY <1>n, <2>1, PrefixIs DEF Prefix
  <2>5. (stage[1] \o p) \o q = Lead
    BY <1>n, <2>1, MoveJoint DEF Prefix, Suffix, Lead
  <2> HIDE DEF p, q
  <2>6. stage[1] \o p \in Seq(Int)
    BY <1>n, <2>4, JoinIs
  <2>7. stage'[1] = stage[1] \o p
    BY <2>3, <2>6, NothingUntouched, JoinEmpty
  <2>8. Lead' = Lead
    BY <2>3, <2>5, <2>7 DEF Lead
  <2> QED BY <1>1, <2>8, LeadFrame
<1>3. CASE cch # 1
  <2>1. rings'[1] = rings[1] /\ stage'[1] = stage[1]
    BY <1>0, <1>3 DEF PullRead
  <2>2. Lead' = Lead
    BY <2>1 DEF Lead
  <2> QED BY <1>1, <2>2, LeadFrame
<1> QED BY <1>2, <1>3

LEMMA ResampleLead ==
  ASSUME TypeOK, LeadInv, NEW n \in Nat, NEW gap \in Nat, Resample(n, gap) PROVE LeadInv'
<1>0. /\ stage[1] \in Seq(Int) /\ rings[1] \in Seq(Int) /\ Lead \in Seq(Int)
      /\ Len(Lead) = Len(stage[1]) + Len(rings[1]) /\ Len(Lead) \in Nat
      /\ Len(stage[1]) \in Nat /\ Len(rings[1]) \in Nat
      /\ consumed \in Nat /\ last \in Nat /\ overruns[1] \in Nat /\ Offered \in Int
  BY LeadIs
<1>c. /\ Len(Lead) = Len(stage[1]) + Len(rings[1]) /\ Len(stage[1]) \in Nat
      /\ Len(rings[1]) \in Nat /\ Len(Lead) \in Nat
  BY <1>0
<1>1. /\ n \in 0 .. Len(stage[1]) /\ stage' = Shift(n) /\ rings' = rings /\ consumed' = consumed + n
      /\ n = 0 => last' = last
      /\ n # 0 => last' = stage[1][n]
      /\ Offered' = Offered /\ UNCHANGED <<overruns, ppc, block, pushed>>
  BY <1>0 DEF Resample, Offered, Pending, pushVars
<1>2. stage'[1] = SubSeq(stage[1], n + 1, Len(stage[1]))
  BY <1>1, OneIsAChannel DEF Shift, Suffix
<1>3. Lead' = SubSeq(Lead, n + 1, Len(Lead))
  BY <1>0, <1>1, <1>2, DropFirst DEF Lead
<1>d. n \in 0 .. Len(stage[1])
  BY <1>1
<1>4. n \in 0 .. Len(Lead)
  <2> DEFINE l == Len(Lead)
             a == Len(stage[1])
             b == Len(rings[1])
  <2>1. l = a + b /\ a \in Nat /\ b \in Nat /\ n \in 0 .. a
    BY <1>c, <1>d
  <2> HIDE DEF l, a, b
  <2>2. n \in 0 .. l
    BY <2>1
  <2> QED BY <2>2 DEF l
<1>5. Lead' \in Seq(Int) /\ Len(Lead') = Len(Lead) - n
  BY <1>0, <1>3, <1>4, SuffixIs
<1>6. (consumed + n) + (Len(Lead) - n) + overruns[1] = Offered
  <2> DEFINE l == Len(Lead)
  <2>1. /\ l \in Int /\ consumed \in Int /\ overruns[1] \in Int
        /\ consumed + l + overruns[1] = Offered
    <3>1. consumed + Len(Lead) + overruns[1] = Offered
      BY DEF LeadInv
    <3>2. Len(Lead) \in Nat /\ consumed \in Nat /\ overruns[1] \in Nat
      BY <1>0
    <3> QED BY <3>1, <3>2
  <2> HIDE DEF l
  <2>2. (consumed + n) + (l - n) + overruns[1] = Offered
    BY <2>1
  <2> QED BY <2>2 DEF l
<1>7. Between(Lead', last', Offered) /\ last' <= Offered
  <2>1. CASE n = 0
    <3>1. Lead' = SubSeq(Lead, 1, Len(Lead))
      BY <1>3, <2>1
    <3>2. Lead' = Lead
      BY <1>0, <3>1, WholeSequence
    <3> QED BY <1>1, <2>1, <3>2 DEF LeadInv
  <2>2. CASE n # 0
    <3>1. n \in 1 .. Len(Lead) /\ n \in 1 .. Len(stage[1])
      BY <1>4, <1>d, <2>2
    <3>2. Lead[n] = stage[1][n]
      BY <1>0, <3>1, JoinIs DEF Lead
    <3>3. Between(Lead, last, Offered)
      BY DEF LeadInv
    <3>4. Between(Lead', Lead[n], Offered)
      BY <1>0, <1>3, <3>1, <3>3, BetweenSuffix
    <3>5. Lead[n] <= Offered
      BY <3>1, <3>3 DEF Between
    <3> QED BY <1>1, <2>2, <3>2, <3>4, <3>5
  <2> QED BY <2>1, <2>2
<1> QED BY <1>1, <1>5, <1>6, <1>7 DEF LeadInv

LEMMA LeadStep == TypeOK /\ StageInv /\ LeadInv /\ [Next]_vars => LeadInv'
<1> SUFFICES ASSUME TypeOK, StageInv, LeadInv, [Next]_vars PROVE LeadInv'
  OBVIOUS
<1>1. CASE Device
  BY <1>1, PushBeginLead, PushChannelLead DEF Device
<1>2. ASSUME NEW n \in Blocks, NEW want \in Wants, PullBegin(n, want) PROVE LeadInv'
  <2>1. UNCHANGED <<stage, rings, overruns, last, consumed, ppc, pch, block, pushed>>
    BY <1>2 DEF PullBegin, pushVars
  <2>2. Lead' = Lead /\ Offered' = Offered
    BY <2>1 DEF Lead, Offered, Pending
  <2> QED BY <2>1, <2>2, LeadFrame
<1>3. CASE Engine
  BY <1>2, <1>3, Numbers, PullReadLead, ResampleLead DEF Engine
<1>4. CASE UNCHANGED vars
  <2>1. UNCHANGED <<stage, rings, overruns, last, consumed, ppc, pch, block, pushed>>
    BY <1>4 DEF vars, pushVars, pullVars
  <2>2. Lead' = Lead /\ Offered' = Offered
    BY <2>1 DEF Lead, Offered, Pending
  <2> QED BY <2>1, <2>2, LeadFrame
<1> QED BY <1>1, <1>3, <1>4 DEF Next

-----------------------------------------------------------------------------
(* The channels of a stream whose pushes and pulls never met.              *)

\* Ring c once the push under way has written to it.
Taken(c) == rings[c] \o Prefix(block, Least(Len(block), Room - Len(rings[c])))

\* Ring c and staging buffer c once the pull under way has read from it.
Drawn(c) == Suffix(rings[c], CanRead(c))
Staged(c) == stage[c] \o Prefix(rings[c], CanRead(c)) \o Untouched(toRead - CanRead(c))

\* What the call under way will leave in channel c.
RingAfter(c) ==
  IF ppc = "write" /\ c >= pch THEN Taken(c)
  ELSE IF cpc = "read" /\ c >= cch THEN Drawn(c) ELSE rings[c]
StageAfter(c) == IF cpc = "read" /\ c >= cch THEN Staged(c) ELSE stage[c]

\* One call at a time, and it will leave all channels alike.
Together ==
  meetings = "never" =>
    /\ ppc = "idle" \/ cpc = "idle"
    /\ \A c \in Chans : RingAfter(c) = RingAfter(1) /\ StageAfter(c) = StageAfter(1)

LEMMA InitTogether == Init => Together
<1> SUFFICES ASSUME Init PROVE Together
  OBVIOUS
<1>1. ppc = "idle" /\ cpc = "idle"
  BY DEF Init
<1>2. \A c \in Chans : rings[c] = <<>> /\ stage[c] = <<>>
  BY DEF Init
<1> QED BY <1>1, <1>2, OneIsAChannel DEF Together, RingAfter, StageAfter

\* Steps that leave what will be.
LEMMA TogetherFrame ==
  ASSUME Together, meetings' = meetings,
         ppc' = "idle" \/ cpc' = "idle" \/ (ppc' = ppc /\ cpc' = cpc),
         \A c \in Chans : RingAfter(c)' = RingAfter(c) /\ StageAfter(c)' = StageAfter(c)
  PROVE  Together'
<1> SUFFICES ASSUME meetings = "never"
             PROVE  /\ ppc' = "idle" \/ cpc' = "idle"
                    /\ \A c \in Chans : /\ RingAfter(c)' = RingAfter(1)'
                                        /\ StageAfter(c)' = StageAfter(1)'
  BY DEF Together
<1>1. ppc = "idle" \/ cpc = "idle"
  BY DEF Together
<1>2. \A c \in Chans : RingAfter(c) = RingAfter(1) /\ StageAfter(c) = StageAfter(1)
  BY DEF Together
<1> QED BY <1>1, <1>2, OneIsAChannel

LEMMA PushBeginTogether == ASSUME Together, NEW n \in PushSizes, PushBegin(n) PROVE Together'
<1>1. /\ ppc = "idle" /\ ppc' = "write" /\ pch' = 1
      /\ UNCHANGED <<rings, stage, cpc, cch, toRead>>
      /\ meetings' = "never" => meetings = "never" /\ cpc = "idle"
  BY DEF PushBegin, pullVars
<1> SUFFICES ASSUME meetings' = "never"
             PROVE  /\ cpc' = "idle"
                    /\ \A c \in Chans : /\ RingAfter(c)' = RingAfter(1)'
                                        /\ StageAfter(c)' = StageAfter(1)'
  BY DEF Together
<1>2. meetings = "never" /\ cpc = "idle" /\ cpc' = "idle"
  BY <1>1
<1>3. ASSUME NEW c \in Chans PROVE rings[c] = rings[1] /\ stage[c] = stage[1]
  <2>1. RingAfter(c) = RingAfter(1) /\ StageAfter(c) = StageAfter(1)
    BY <1>2 DEF Together
  <2> QED BY <1>1, <1>2, <2>1 DEF RingAfter, StageAfter
<1>4. \A c \in Chans : RingAfter(c)' = Taken(c)' /\ StageAfter(c)' = stage[c]
  BY <1>1, <1>2, OneIsAChannel DEF RingAfter, StageAfter
<1>5. \A c \in Chans : Taken(c)' = Taken(1)'
  BY <1>1, <1>3 DEF Taken
<1> QED BY <1>2, <1>3, <1>4, <1>5, OneIsAChannel

LEMMA PushChannelTogether == ASSUME TypeOK, Together, PushChannel PROVE Together'
<1>1. /\ ppc = "write" /\ pch \in Chans /\ rings \in [Chans -> Seq(1 .. MaxPushed)]
      /\ UNCHANGED <<stage, cpc, cch, toRead, meetings>>
      /\ rings' = [rings EXCEPT ![pch] = Taken(pch)]
  BY DEF TypeOK, PushChannel, pullVars, Taken
<1>2. CASE meetings # "never"
  BY <1>1, <1>2 DEF Together
<1>3. CASE meetings = "never"
  <2>1. cpc = "idle" /\ cpc' = "idle"
    BY <1>1, <1>3 DEF Together
  <2>2. ASSUME NEW c \in Chans PROVE RingAfter(c)' = RingAfter(c) /\ StageAfter(c)' = StageAfter(c)
    <3>0. c \in Nat /\ pch \in Nat /\ pch <= Channels /\ c <= Channels /\ Channels \in Nat
      BY <1>1, OneIsAChannel
    <3>1. StageAfter(c)' = StageAfter(c)
      BY <1>1, <2>1 DEF StageAfter
    <3>2. /\ c # pch => rings'[c] = rings[c]
          /\ c = pch => rings'[c] = Taken(c)
      BY <1>1
    <3>3. /\ c >= pch => RingAfter(c) = Taken(c)
          /\ ~(c >= pch) => RingAfter(c) = rings[c]
      BY <1>1, <2>1 DEF RingAfter
    <3>4. /\ c > pch => pch' = pch + 1 /\ ppc' = "write" /\ block' = block /\ c >= pch + 1
          /\ ~(c > pch) => ppc' = "idle" \/ ~(c >= pch')
      <4>1. pch < Channels => pch' = pch + 1 /\ ppc' = "write" /\ block' = block
        BY DEF PushChannel
      <4>2. ~(pch < Channels) => ppc' = "idle"
        BY DEF PushChannel
      <4>3. c > pch => pch < Channels /\ c >= pch + 1
        BY <3>0
      <4>4. ~(c > pch) => ~(c >= pch + 1)
        BY <3>0
      <4> QED BY <4>1, <4>2, <4>3, <4>4
    <3>5. CASE c > pch
      <4>1. RingAfter(c)' = Taken(c)'
        BY <3>4, <3>5 DEF RingAfter
      <4>2. Taken(c)' = Taken(c)
        <5>1. rings'[c] = rings[c] /\ block' = block
          BY <3>0, <3>2, <3>4, <3>5
        <5> QED BY <5>1 DEF Taken
      <4>3. c >= pch
        BY <3>0, <3>5
      <4> QED BY <3>1, <3>3, <4>1, <4>2, <4>3
    <3>6. CASE ~(c > pch)
      <4>1. RingAfter(c)' = rings'[c]
        BY <2>1, <3>4, <3>6 DEF RingAfter
      <4>2. c = pch \/ ~(c >= pch)
        BY <3>0, <3>6
      <4>3. c = pch => c >= pch
        BY <3>0
      <4> QED BY <3>0, <3>1, <3>2, <3>3, <4>1, <4>2, <4>3
    <3> QED BY <3>5, <3>6
  <2> QED BY <1>1, <2>1, <2>2, TogetherFrame
<1> QED BY <1>2, <1>3

LEMMA PullBeginTogether ==
  ASSUME Together, NEW n \in Blocks, NEW want \in Wants, PullBegin(n, want) PROVE Together'
<1>1. /\ cpc = "idle" /\ cpc' \in {"read", "resample"} /\ cch' = 1
      /\ UNCHANGED <<rings, stage, ppc, pch, block>>
      /\ meetings' = "never" => meetings = "never" /\ ppc = "idle"
  BY DEF PullBegin, pushVars
<1> SUFFICES ASSUME meetings' = "never"
             PROVE  /\ ppc' = "idle"
                    /\ \A c \in Chans : /\ RingAfter(c)' = RingAfter(1)'
                                        /\ StageAfter(c)' = StageAfter(1)'
  BY DEF Together
<1>2. meetings = "never" /\ ppc = "idle" /\ ppc' = "idle"
  BY <1>1
<1>3. ASSUME NEW c \in Chans PROVE rings'[c] = rings'[1] /\ stage'[c] = stage'[1]
  <2>1. RingAfter(c) = RingAfter(1) /\ StageAfter(c) = StageAfter(1)
    BY <1>2 DEF Together
  <2> QED BY <1>1, <1>2, <2>1 DEF RingAfter, StageAfter
<1>4. CASE cpc' = "read"
  <2>1. \A c \in Chans : RingAfter(c)' = Drawn(c)' /\ StageAfter(c)' = Staged(c)'
    BY <1>1, <1>2, <1>4, OneIsAChannel DEF RingAfter, StageAfter
  <2>2. \A c \in Chans : Drawn(c)' = Drawn(1)' /\ Staged(c)' = Staged(1)'
    BY <1>3 DEF Drawn, Staged, CanRead
  <2> QED BY <1>2, <2>1, <2>2, OneIsAChannel
<1>5. CASE cpc' # "read"
  <2>1. \A c \in Chans : RingAfter(c)' = rings'[c] /\ StageAfter(c)' = stage'[c]
    BY <1>2, <1>5 DEF RingAfter, StageAfter
  <2> QED BY <1>2, <1>3, <2>1, OneIsAChannel
<1> QED BY <1>4, <1>5

LEMMA PullReadTogether == ASSUME TypeOK, Together, PullRead PROVE Together'
<1>1. /\ cpc = "read" /\ cch \in Chans
      /\ rings \in [Chans -> Seq(1 .. MaxPushed)] /\ stage \in [Chans -> Seq(0 .. MaxPushed)]
      /\ UNCHANGED <<ppc, pch, block, toRead, meetings>>
      /\ rings' = [rings EXCEPT ![cch] = Drawn(cch)]
      /\ stage' = [stage EXCEPT ![cch] = Staged(cch)]
  BY DEF TypeOK, PullRead, pushVars, Drawn, Staged
<1>2. CASE meetings # "never"
  BY <1>1, <1>2 DEF Together
<1>3. CASE meetings = "never"
  <2>1. ppc = "idle" /\ ppc' = "idle"
    BY <1>1, <1>3 DEF Together
  <2>2. ASSUME NEW c \in Chans PROVE RingAfter(c)' = RingAfter(c) /\ StageAfter(c)' = StageAfter(c)
    <3>0. c \in Nat /\ cch \in Nat /\ cch <= Channels /\ c <= Channels /\ Channels \in Nat
      BY <1>1, OneIsAChannel
    <3>2. /\ c # cch => rings'[c] = rings[c] /\ stage'[c] = stage[c]
          /\ c = cch => rings'[c] = Drawn(c) /\ stage'[c] = Staged(c)
      BY <1>1
    <3>3. /\ c >= cch => RingAfter(c) = Drawn(c) /\ StageAfter(c) = Staged(c)
          /\ ~(c >= cch) => RingAfter(c) = rings[c] /\ StageAfter(c) = stage[c]
      BY <1>1, <2>1 DEF RingAfter, StageAfter
    <3>4. /\ c > cch => cch' = cch + 1 /\ cpc' = "read" /\ c >= cch + 1
          /\ ~(c > cch) => cpc' # "read" \/ ~(c >= cch')
      <4>1. cch < Channels => cch' = cch + 1 /\ cpc' = "read"
        BY <1>1 DEF PullRead
      <4>2. ~(cch < Channels) => cpc' = "resample"
        BY DEF PullRead
      <4>3. c > cch => cch < Channels /\ c >= cch + 1
        BY <3>0
      <4>4. ~(c > cch) => ~(c >= cch + 1)
        BY <3>0
      <4> QED BY <4>1, <4>2, <4>3, <4>4
    <3>5. CASE c > cch
      <4>1. RingAfter(c)' = Drawn(c)' /\ StageAfter(c)' = Staged(c)'
        BY <2>1, <3>4, <3>5 DEF RingAfter, StageAfter
      <4>2. Drawn(c)' = Drawn(c) /\ Staged(c)' = Staged(c)
        <5>1. rings'[c] = rings[c] /\ stage'[c] = stage[c] /\ toRead' = toRead
          BY <1>1, <3>0, <3>2, <3>5
        <5> QED BY <5>1 DEF Drawn, Staged, CanRead
      <4>3. c >= cch
        BY <3>0, <3>5
      <4> QED BY <3>3, <4>1, <4>2, <4>3
    <3>6. CASE ~(c > cch)
      <4>1. RingAfter(c)' = rings'[c] /\ StageAfter(c)' = stage'[c]
        BY <2>1, <3>4, <3>6 DEF RingAfter, StageAfter
      <4>2. c = cch \/ ~(c >= cch)
        BY <3>0, <3>6
      <4>3. c = cch => c >= cch
        BY <3>0
      <4> QED BY <3>0, <3>2, <3>3, <4>1, <4>2, <4>3
    <3> QED BY <3>5, <3>6
  <2> QED BY <1>1, <2>1, <2>2, TogetherFrame
<1> QED BY <1>2, <1>3

LEMMA ResampleTogether ==
  ASSUME Together, NEW n \in Nat, NEW gap \in Nat, Resample(n, gap) PROVE Together'
<1>1. /\ cpc = "resample" /\ cpc' = "idle" /\ stage' = Shift(n)
      /\ UNCHANGED <<rings, ppc, pch, block, meetings>>
  BY DEF Resample, pushVars
<1> SUFFICES ASSUME meetings = "never"
             PROVE  \A c \in Chans : /\ RingAfter(c)' = RingAfter(1)'
                                     /\ StageAfter(c)' = StageAfter(1)'
  BY <1>1 DEF Together
<1>2. ppc = "idle"
  BY <1>1 DEF Together
<1>3. ASSUME NEW c \in Chans PROVE rings[c] = rings[1] /\ stage[c] = stage[1]
  <2>1. RingAfter(c) = RingAfter(1) /\ StageAfter(c) = StageAfter(1)
    BY DEF Together
  <2> QED BY <1>1, <1>2, <2>1 DEF RingAfter, StageAfter
<1>4. \A c \in Chans : RingAfter(c)' = rings[c] /\ StageAfter(c)' = Suffix(stage[c], n)
  BY <1>1, <1>2 DEF RingAfter, StageAfter, Shift
<1> QED BY <1>3, <1>4, OneIsAChannel

LEMMA TogetherStep == TypeOK /\ Together /\ [Next]_vars => Together'
<1> SUFFICES ASSUME TypeOK, Together, [Next]_vars PROVE Together'
  OBVIOUS
<1>1. CASE Device
  BY <1>1, PushBeginTogether, PushChannelTogether DEF Device
<1>2. CASE Engine
  BY <1>2, Numbers, PullBeginTogether, PullReadTogether, ResampleTogether DEF Engine
<1>3. CASE UNCHANGED vars
  BY <1>3 DEF vars, pushVars, pullVars, Together, RingAfter, StageAfter, Taken, Drawn, Staged,
              CanRead
<1> QED BY <1>1, <1>2, <1>3 DEF Next

-----------------------------------------------------------------------------
\* What the first channel and the lock-step of the others rest on holds in every state.
THEOREM LeadInvariance == Spec => [](LeadInv /\ Together)
<1>1. IInv => TypeOK /\ StageInv
  BY DEF IInv
<1>2. IInv /\ LeadInv /\ Together /\ [Next]_vars => LeadInv' /\ Together'
  BY <1>1, LeadStep, TogetherStep
<1>3. Init => LeadInv /\ Together
  BY InitLead, InitTogether
<1> QED BY <1>2, <1>3, Invariance, PTL DEF Spec

\* For any ring, any staging buffer and any pushes and pulls, overlapping as they may:
\* the first channel plays every frame it did not count as overrun once and in order,
\* and as long as no push met a pull the other channels hold what it holds.
THEOREM LeadStaysIntact == Spec => []LeadIntact
<1>1. IInv /\ LeadInv /\ Together => LeadIntact
  <2> SUFFICES ASSUME IInv, LeadInv, Together PROVE LeadIntact
    OBVIOUS
  <2>1. TypeOK
    BY DEF IInv
  <2>2. Lead \in Seq(Int) /\ Len(Lead) \in Nat /\ Between(Lead, last, Offered)
    BY <2>1, LeadIs DEF LeadInv
  <2>3. \A k \in 1 .. Len(Lead) - 1 : Lead[k] < Lead[k + 1]
    <3>1. \A k \in 1 .. Len(Lead) - 1 :
            k \in 1 .. Len(Lead) /\ k + 1 \in 1 .. Len(Lead) /\ k < k + 1
      BY <2>2
    <3> QED BY <2>2, <3>1 DEF Between
  <2>4. Lead # <<>> => Lead[1] > last
    <3> SUFFICES ASSUME Lead # <<>> PROVE last < Lead[1]
      BY <2>1, <2>2, LeadIs
    <3>1. Len(Lead) # 0
      BY <2>2, SameSequence
    <3>2. 1 \in 1 .. Len(Lead)
      BY <2>2, <3>1
    <3> QED BY <2>2, <3>2 DEF Between
  <2>5. Pending(1) = IF ppc = "write" /\ pch = 1 THEN Len(block) ELSE 0
    <3>0. pch \in Nat /\ 1 <= pch
      BY <2>1, OneIsAChannel DEF TypeOK
    <3>1. 1 >= pch <=> pch = 1
      BY <3>0
    <3> QED BY <3>1 DEF Pending
  <2>6. consumed + Len(Lead) + overruns[1] =
          pushed - (IF ppc = "write" /\ pch = 1 THEN Len(block) ELSE 0)
    BY <2>5 DEF LeadInv, Offered
  <2>7. ASSUME meetings = "never", Quiet, NEW c \in Chans
        PROVE  rings[c] = rings[1] /\ stage[c] = stage[1]
    <3>1. RingAfter(c) = RingAfter(1) /\ StageAfter(c) = StageAfter(1)
      BY <2>7 DEF Together
    <3> QED BY <2>7, <3>1 DEF Quiet, RingAfter, StageAfter
  <2> QED BY <2>3, <2>4, <2>6, <2>7 DEF LeadIntact
<1> QED BY <1>1, Invariance, LeadInvariance, PTL
=============================================================================
