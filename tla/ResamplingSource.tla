--------------------------- MODULE ResamplingSource ---------------------------
(***************************************************************************)
(* io::ResamplingSource (include/aiudio/io/resampling_source.hpp,          *)
(* src/io/resampling_source.cpp): a device thread pushes blocks at its own *)
(* rate, the engine pulls blocks at the engine's, through one ring per     *)
(* channel and a staging buffer in front of the resampler.                 *)
(*                                                                         *)
(* Each ring is a RingBuffer, abstracted to the bounded FIFO it implements *)
(* (SpscQueue), but a stream has several and neither side touches them at  *)
(* once: a push writes channel after channel, a pull reads channel after   *)
(* channel, and the two interleave.  A sample is the number of its frame.  *)
(* The servo and the interpolation are reduced to how many frames a pull   *)
(* asks for and how many it consumes.                                      *)
(***************************************************************************)
EXTENDS Integers, Sequences

CONSTANTS
  Channels,      \* channels_
  RingFrames,    \* ringCap, the longest push
  Room,          \* what a ring of that size takes
  StageCap,      \* stageCap_
  PushSizes,     \* frames a push may bring
  LongestPush,   \* the most of them
  Blocks,        \* frames a pull may be asked for
  Wants,         \* engineFrames * ratio + 8, over the ratios of the servo
  MaxPushed,     \* bound: frames pushed
  MaxUnderruns   \* bound: frames a pull could not produce

ASSUME ChannelsAssumption == Channels \in Nat \ {0}
ASSUME RoomAssumption == RingFrames \in Nat \ {0} /\ Room \in Nat /\ RingFrames <= Room
ASSUME SizesAssumption ==
  /\ LongestPush \in Nat /\ PushSizes \subseteq 1 .. LongestPush
  /\ Blocks \subseteq Nat \ {0} /\ Wants \subseteq Nat
  /\ StageCap \in Nat /\ MaxPushed \in Nat /\ MaxUnderruns \in Nat

VARIABLES
  rings,                   \* rings_, by channel
  overruns,                \* their overrun counts
  ppc, block, pch,         \* device thread in push()
  stage,                   \* stage_, by channel: the staged_ frames in use
  cpc, cch, frames, toRead, \* engine thread in pull()
  underruns,
  pushed, consumed,        \* ghost: frames pushed, frames the resampler took
  last,                    \* ghost: the last of them, on channel 1
  lag,                     \* ghost: frames by which reads of a channel trail channel 1
  meetings                 \* ghost: have a push and a pull overlapped, "never" or "once"

pushVars == <<ppc, block, pch, pushed>>
pullVars == <<cpc, cch, frames, toRead, stage, underruns, consumed, last, lag>>
vars == <<rings, overruns, pushVars, pullVars, meetings>>

Chans == 1 .. Channels
Stale == 0          \* what a staging slot holds that a short read left alone
Untouched(n) == [k \in 1 .. n |-> Stale]
Least(m, n) == IF m <= n THEN m ELSE n
Prefix(s, n) == SubSeq(s, 1, n)
Suffix(s, n) == SubSeq(s, n + 1, Len(s))

Init ==
  /\ rings = [c \in Chans |-> <<>>] /\ overruns = [c \in Chans |-> 0]
  /\ ppc = "idle" /\ block = <<>> /\ pch = 1 /\ pushed = 0
  /\ stage = [c \in Chans |-> <<>>] /\ underruns = 0
  /\ cpc = "idle" /\ cch = 1 /\ frames = 0 /\ toRead = 0
  /\ consumed = 0 /\ last = 0 /\ lag = [c \in Chans |-> 0] /\ meetings = "never"

-----------------------------------------------------------------------------
(* push(), on the thread of the source's device.                           *)

PushBegin(n) ==
  /\ ppc = "idle" /\ pushed + Least(n, RingFrames) <= MaxPushed
  /\ block' = [k \in 1 .. Least(n, RingFrames) |-> pushed + k]
  /\ pushed' = pushed + Least(n, RingFrames)
  /\ ppc' = "write" /\ pch' = 1
  /\ meetings' = IF cpc = "idle" THEN meetings ELSE "once"
  /\ UNCHANGED <<rings, overruns, pullVars>>

\* rings_[c]->write(): what fits, the rest is counted as overrun.
PushChannel ==
  /\ ppc = "write"
  /\ LET n == Least(Len(block), Room - Len(rings[pch])) IN
       /\ rings' = [rings EXCEPT ![pch] = @ \o Prefix(block, n)]
       /\ overruns' = [overruns EXCEPT ![pch] = @ + (Len(block) - n)]
  /\ IF pch < Channels
     THEN pch' = pch + 1 /\ UNCHANGED <<ppc, block>>
     ELSE pch' = 1 /\ ppc' = "idle" /\ block' = <<>>
  /\ UNCHANGED <<pushed, pullVars, meetings>>

-----------------------------------------------------------------------------
(* pull(), on the engine's thread.                                         *)

\* How many frames to stage: as many as the block needs, as there is room for,
\* and as channel 1 holds.
ToStage(want) == Least(Least(want, StageCap - Len(stage[1])), Len(rings[1]))

PullBegin(n, want) ==
  /\ cpc = "idle"
  /\ frames' = n /\ toRead' = ToStage(want)
  /\ cpc' = IF ToStage(want) > 0 THEN "read" ELSE "resample"
  /\ cch' = 1
  /\ meetings' = IF ppc = "idle" THEN meetings ELSE "once"
  /\ UNCHANGED <<rings, overruns, pushVars, stage, underruns, consumed, last, lag>>

\* Mutant: a ring that holds less than asked for is left alone.
BugAllOrNothing(c) == IF Len(rings[c]) < toRead THEN 0 ELSE toRead

\* rings_[c]->read(): what there is.
CanRead(c) == Least(toRead, Len(rings[c]))

\* A channel that is short keeps what its staging slots held, yet counts as read.
PullRead ==
  /\ cpc = "read"
  /\ LET n == CanRead(cch) IN
       /\ stage' = [stage EXCEPT ![cch] =
            @ \o Prefix(rings[cch], n) \o Untouched(toRead - n)]
       /\ rings' = [rings EXCEPT ![cch] = Suffix(@, n)]
       /\ lag' = IF cch = 1 THEN [c \in Chans |-> IF c = 1 THEN 0 ELSE lag[c] + n]
                 ELSE [lag EXCEPT ![cch] = @ - n]
  /\ IF cch < Channels THEN cch' = cch + 1 /\ UNCHANGED cpc
     ELSE cch' = 1 /\ cpc' = "resample"
  /\ UNCHANGED <<overruns, pushVars, frames, toRead, underruns, consumed, last, meetings>>

\* Mutant: the tail stays where it is and the front is used again.
BugNoShift(n) == [c \in Chans |-> Prefix(stage[c], Len(stage[c]) - n)]

\* The unconsumed tail moves to the front of every staging buffer.
Shift(n) == [c \in Chans |-> Suffix(stage[c], n)]

\* The resampler takes n staged frames and fills the block, or takes all and leaves
\* a gap of silence at its end.
Resample(n, gap) ==
  /\ cpc = "resample" /\ n <= Len(stage[1])
  /\ gap <= frames /\ (gap > 0 => n = Len(stage[1]))
  /\ underruns + gap <= MaxUnderruns
  /\ stage' = Shift(n)
  /\ last' = IF n = 0 THEN last ELSE stage[1][n]
  /\ consumed' = consumed + n /\ underruns' = underruns + gap
  /\ cpc' = "idle" /\ frames' = 0 /\ toRead' = 0
  /\ UNCHANGED <<rings, overruns, pushVars, cch, lag, meetings>>

-----------------------------------------------------------------------------
Device == (\E n \in PushSizes : PushBegin(n)) \/ PushChannel
Engine ==
  \/ \E n \in Blocks, want \in Wants : PullBegin(n, want)
  \/ PullRead
  \/ \E n \in 0 .. StageCap, gap \in 0 .. MaxUnderruns : Resample(n, gap)

Next == Device \/ Engine

Spec == Init /\ [][Next]_vars

-----------------------------------------------------------------------------
(* Properties.                                                             *)

\* Every variable has its type; staging stays inside its buffer and holds as much
\* of every channel, but for the read under way.
TypeOK ==
  /\ rings \in [Chans -> Seq(1 .. MaxPushed)] /\ \A c \in Chans : Len(rings[c]) <= Room
  /\ overruns \in [Chans -> Nat] /\ ppc \in {"idle", "write"}
  /\ block \in Seq(1 .. MaxPushed) /\ Len(block) <= RingFrames /\ pch \in Chans
  /\ stage \in [Chans -> Seq(0 .. MaxPushed)] /\ \A c \in Chans : Len(stage[c]) <= StageCap
  /\ cpc # "read" => \A c \in Chans : Len(stage[c]) = Len(stage[1])
  /\ cpc \in {"idle", "read", "resample"} /\ cch \in Chans
  /\ frames \in Blocks \union {0} /\ toRead \in 0 .. StageCap
  /\ underruns \in 0 .. MaxUnderruns /\ pushed \in 0 .. MaxPushed /\ consumed \in Nat
  /\ last \in 0 .. MaxPushed
  /\ lag \in [Chans -> Int] /\ meetings \in {"never", "once"}

\* What one call did to all channels: no push and no pull is half way.
Quiet == ppc = "idle" /\ cpc # "read"

\* The first channel, which the others are read by, loses nothing but what it
\* counted as overrun, and stays in order: nothing stale is played on it, and
\* nothing twice. The others are in lock-step with it as long as no push and no pull
\* have overlapped, whatever was dropped and however short the reads were.
Lead == stage[1] \o rings[1]
LeadIntact ==
  /\ \A k \in 1 .. Len(Lead) - 1 : Lead[k] < Lead[k + 1]
  /\ Lead # <<>> => Lead[1] > last
  /\ consumed + Len(Lead) + overruns[1] =
       pushed - (IF ppc = "write" /\ pch = 1 THEN Len(block) ELSE 0)
  /\ meetings = "never" /\ Quiet => \A c \in Chans : rings[c] = rings[1] /\ stage[c] = stage[1]

\* Pulls that come in the middle of a push leave the later channels behind, but never
\* by more than the longest push, however many there are: while no ring overflows the
\* skew between the channels of a stream does not add up.
LagWithinOnePush ==
  (\A c \in Chans : overruns[c] = 0) /\ cpc # "read" =>
    \A c \in Chans : lag[c] \in 0 .. Least(LongestPush, RingFrames)

=============================================================================
