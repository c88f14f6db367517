----------------------------- MODULE WavRecorder -----------------------------
(***************************************************************************)
(* io::WavRecorder (include/aiudio/io/wav_recorder.hpp,                    *)
(* src/io/wav_recorder.cpp): the audio thread pushes interleaved blocks    *)
(* into a ring, a writer thread polls the ring and writes whole frames to  *)
(* the file, the control thread starts and stops the recording.            *)
(*                                                                         *)
(* The ring is a RingBuffer of samples, abstracted to the bounded FIFO it  *)
(* implements (SpscQueue): a write takes what fits and counts the rest.    *)
(* Only the stopping test reads the queue between the threads' own steps,  *)
(* so a read or a write of the ring is one step.  A sample is its frame's  *)
(* number and its channel.  The disk may be full: then the file keeps a    *)
(* part of what write() was given and nothing after it, while framesWritten_ *)
(* goes on counting.  A start() with a block of the recording before still *)
(* in pushBlock() replaces the ring and the scratch under it: PushStale    *)
(* has what may come of that.  All recordings have one number of channels. *)
(***************************************************************************)
EXTENDS Integers, Sequences, FiniteSets

CONSTANTS
  Channels,        \* channels_
  RingFrames,      \* ringFrames, as asked for
  ChunkFrames,     \* chunkFrames_: the writer's and the interleaver's scratch
  BlockSizes,      \* frames a pushBlock() may bring
  MaxFrames,       \* bound: frames pushed in a run
  MaxRecordings    \* bound: successful start() calls

ASSUME SizesAssumption ==
  /\ Channels \in Nat \ {0} /\ RingFrames \in Nat \ {0} /\ ChunkFrames \in Nat \ {0}
  /\ BlockSizes \subseteq Nat \ {0}
ASSUME BoundsAssumption == MaxFrames \in Nat /\ MaxRecordings \in Nat

VARIABLES
  recordings,      \* start() calls that succeeded; with 0 there is no ring_
  ring, overruns,  \* ring_ and its overrunCount(), in samples
  active, stopRequested, framesWritten,
  file, full,      \* samples in the WAV of the recording at hand; the disk had no room
  written,         \* ghost: samples handed to writer_->write()
  cpc,             \* control thread
  ppc, block, ours,            \* audio thread in pushBlock(); ours: recording it is for
  wpc, stopping, avail, drain, \* writer thread
  pushed,          \* ghost: frames that entered pushBlock() while it was armed
  offered,         \* ghost: samples handed to this recording's ring
  late,            \* ghost: frames of the block in flight when stop() disarmed
  stray            \* ghost: start() replaced the ring under a block in flight

ringVars == <<ring, overruns, offered>>
ctlVars == <<recordings, active, stopRequested, cpc, late, stray>>
pushVars == <<ppc, block, ours, pushed>>
writerVars == <<wpc, stopping, avail, drain, file, full, written, framesWritten>>
vars == <<ringVars, ctlVars, pushVars, writerVars>>

\* A sample of frame 0 is none that was pushed.
Samples == (0 .. MaxFrames) \X (0 .. Channels)
Garbage == <<0, 0>>

\* A sequence any samples of which may have been overwritten.
Spoilt(s) == {[k \in DOMAIN s |-> IF k \in K THEN Garbage ELSE s[k]] : K \in SUBSET DOMAIN s}

\* What a RingBuffer asked for Channels * RingFrames samples can hold: the next
\* power of two less the slot it keeps free.
Room ==
  LET asked == Channels * RingFrames
      slots == CHOOSE p \in {2^k : k \in 1..asked} : asked < p /\ p <= 2 * asked
  IN slots - 1

Least(m, n) == IF m <= n THEN m ELSE n

\* Frame-major order of the frames first, first + 1, ...
Interleave(first, frames) ==
  [k \in 1..(frames * Channels) |->
     <<first + ((k - 1) \div Channels), ((k - 1) % Channels) + 1>>]

Init ==
  /\ recordings = 0 /\ ring = <<>> /\ overruns = 0 /\ offered = 0
  /\ active = FALSE /\ stopRequested = FALSE /\ framesWritten = 0
  /\ file = <<>> /\ full = FALSE /\ written = <<>>
  /\ cpc = "idle" /\ late = {} /\ stray = FALSE
  /\ ppc = "idle" /\ block = <<>> /\ ours = 0 /\ pushed = 0
  /\ wpc = "none" /\ stopping = FALSE /\ avail = 0 /\ drain = <<>>

-----------------------------------------------------------------------------
(* The control thread.                                                     *)

\* start() of a file that opens, up to the spawn of the writer thread.  A file
\* that does not open leaves no recording behind.
Start ==
  /\ cpc = "idle" /\ ~active /\ recordings < MaxRecordings
  /\ recordings' = recordings + 1
  /\ ring' = <<>> /\ overruns' = 0 /\ offered' = 0
  /\ stopRequested' = FALSE /\ framesWritten' = 0
  /\ file' = <<>> /\ full' = FALSE /\ written' = <<>>
  /\ late' = {} /\ stray' = (ppc = "write")
  /\ wpc' = "top" /\ stopping' = FALSE /\ avail' = 0 /\ drain' = <<>>
  /\ cpc' = "arm"
  /\ UNCHANGED <<active, pushVars>>

Arm ==
  /\ cpc = "arm"
  /\ active' = TRUE /\ cpc' = "idle"
  /\ UNCHANGED <<ringVars, recordings, stopRequested, late, stray, pushVars, writerVars>>

\* stop(): no more blocks.
Disarm ==
  /\ cpc = "idle" /\ active
  /\ active' = FALSE /\ cpc' = "disarmed"
  /\ late' = {block[k][1] : k \in 1..Len(block)} \union {Garbage[1]}
  /\ UNCHANGED <<ringVars, recordings, stopRequested, stray, pushVars, writerVars>>

\* Mutant: the writer is never told.
BugNoRequest ==
  /\ cpc = "disarmed"
  /\ cpc' = "joining"
  /\ UNCHANGED <<ringVars, recordings, active, stopRequested, late, stray, pushVars, writerVars>>

RequestStop ==
  /\ cpc = "disarmed"
  /\ stopRequested' = TRUE /\ cpc' = "joining"
  /\ UNCHANGED <<ringVars, recordings, active, late, stray, pushVars, writerVars>>

\* thread_.join() returns and the file is finalized.
Join ==
  /\ cpc = "joining" /\ wpc = "done"
  /\ cpc' = "idle"
  /\ UNCHANGED <<ringVars, recordings, active, stopRequested, late, stray, pushVars, writerVars>>

-----------------------------------------------------------------------------
(* The audio thread.                                                       *)

\* pushBlock() finds the recorder armed and interleaves the block; it does
\* nothing when the recorder is not armed.
PushBegin(n) ==
  /\ ppc = "idle" /\ active
  /\ LET frames == Least(n, ChunkFrames) IN
       /\ pushed + frames <= MaxFrames
       /\ block' = Interleave(pushed + 1, frames)
       /\ pushed' = pushed + frames
  /\ ours' = recordings /\ ppc' = "write"
  /\ UNCHANGED <<ringVars, ctlVars, writerVars>>

\* What a ring with the given contents takes of the block: all that fits, even
\* when that ends within a frame.
Taken == Least(Len(block), Room - Len(ring))

\* ring_->write() of what is in the scratch.
Accept(samples) ==
  /\ ring' = ring \o SubSeq(samples, 1, Taken)
  /\ overruns' = overruns + (Len(samples) - Taken)
  /\ offered' = offered + Len(samples)

PushWrite ==
  /\ ppc = "write" /\ ours = recordings
  /\ Accept(block)
  /\ ppc' = "idle" /\ block' = <<>>
  /\ UNCHANGED <<ctlVars, ours, pushed, writerVars>>

\* start() has replaced ring_ and cleared interleave_ under a block of a recording
\* before.  What is in the scratch may be spoilt; it goes to the new ring, or through
\* the old one into freed memory, which may be what the new recording got.
PushStale ==
  /\ ppc = "write" /\ ours # recordings
  /\ \/ /\ \E samples \in Spoilt(block) : Accept(samples)
        /\ UNCHANGED drain
     \/ /\ ring' \in Spoilt(ring) /\ drain' \in Spoilt(drain)
        /\ UNCHANGED <<overruns, offered>>
  /\ ppc' = "idle" /\ block' = <<>>
  /\ UNCHANGED <<ctlVars, ours, pushed, wpc, stopping, avail, file, full, written, framesWritten>>

-----------------------------------------------------------------------------
(* The writer thread, writerLoop().                                        *)

WriterTop ==
  /\ wpc = "top"
  /\ stopping' = stopRequested /\ wpc' = "size"
  /\ UNCHANGED <<ringVars, ctlVars, pushVars, avail, drain, file, full, written, framesWritten>>

WriterSize ==
  /\ wpc = "size"
  /\ avail' = Len(ring) \div Channels
  /\ wpc' = IF avail' = 0 THEN "empty" ELSE "read"
  /\ UNCHANGED <<ringVars, ctlVars, pushVars, stopping, drain, file, full, written, framesWritten>>

\* Mutant: stopRequested_ is looked at after the ring.
BugLooksLate ==
  /\ wpc = "empty"
  /\ wpc' = IF stopRequested THEN "done" ELSE "top"
  /\ UNCHANGED <<ringVars, ctlVars, pushVars, stopping, avail, drain, file, full, written, framesWritten>>

\* Nothing there: the end if the stop was requested before the look, else a nap.
WriterEmpty ==
  /\ wpc = "empty"
  /\ wpc' = IF stopping THEN "done" ELSE "top"
  /\ UNCHANGED <<ringVars, ctlVars, pushVars, stopping, avail, drain, file, full, written, framesWritten>>

\* Mutant: everything in the ring is read, a frame that has not ended included.
BugReadsAll ==
  /\ wpc = "read"
  /\ drain' = ring /\ ring' = <<>>
  /\ wpc' = "write"
  /\ UNCHANGED <<overruns, offered, ctlVars, pushVars, stopping, avail, file, full, written, framesWritten>>

WriterRead ==
  /\ wpc = "read"
  /\ LET n == Channels * Least(avail, ChunkFrames) IN
       /\ drain' = SubSeq(ring, 1, n)
       /\ ring' = SubSeq(ring, n + 1, Len(ring))
  /\ wpc' = "write"
  /\ UNCHANGED <<overruns, offered, ctlVars, pushVars, stopping, avail, file, full, written, framesWritten>>

\* Whole frames only go into the file, all of them or, once, what the disk has room for;
\* they are counted in any case.
WriterWrite ==
  /\ wpc = "write"
  /\ LET frames == Len(drain) \div Channels
         given == SubSeq(drain, 1, frames * Channels)
     IN /\ written' = written \o given
        /\ framesWritten' = framesWritten + frames
        /\ \/ ~full /\ file' = file \o given /\ UNCHANGED full
           \/ /\ ~full /\ full' = TRUE
              /\ \E room \in 0 .. Len(given) - 1 : file' = file \o SubSeq(given, 1, room)
           \/ full /\ UNCHANGED <<file, full>>
  /\ drain' = <<>> /\ wpc' = "top"
  /\ UNCHANGED <<ringVars, ctlVars, pushVars, stopping, avail>>

-----------------------------------------------------------------------------
Stopping == RequestStop \/ Join
Control == Start \/ Arm \/ Disarm \/ Stopping
Audio == (\E n \in BlockSizes : PushBegin(n)) \/ PushWrite \/ PushStale
Writer == WriterTop \/ WriterSize \/ WriterEmpty \/ WriterRead \/ WriterWrite

Next == Control \/ Audio \/ Writer

\* The writer thread runs until it returns, and a control thread that has
\* entered stop() goes on with it.  Nobody has to call start, stop or pushBlock.
Spec == Init /\ [][Next]_vars /\ WF_vars(Writer) /\ WF_vars(Stopping)

-----------------------------------------------------------------------------
(* Properties.                                                             *)

\* Every variable has its type, and the ring never holds more than it can.
TypeOK ==
  /\ recordings \in 0 .. MaxRecordings
  /\ ring \in Seq(Samples) /\ Len(ring) <= Room
  /\ overruns \in Nat /\ offered \in Nat
  /\ active \in BOOLEAN /\ stopRequested \in BOOLEAN /\ framesWritten \in Nat
  /\ file \in Seq(Samples) /\ full \in BOOLEAN /\ written \in Seq(Samples)
  /\ cpc \in {"idle", "arm", "disarmed", "joining"} /\ late \subseteq 0 .. MaxFrames
  /\ stray \in BOOLEAN
  /\ ppc \in {"idle", "write"} /\ block \in Seq(Samples) /\ ours \in 0 .. MaxRecordings
  /\ pushed \in 0 .. MaxFrames
  /\ wpc \in {"none", "top", "size", "empty", "read", "write", "done"}
  /\ stopping \in BOOLEAN /\ avail \in 0 .. Room /\ drain \in Seq(Samples)

\* What has been accepted: handed to the file, on its way there, and in the ring.
Stream == written \o drain \o ring

Before(a, b) == a[1] < b[1] \/ (a[1] = b[1] /\ a[2] < b[2])

\* When stop() has returned, whatever pushBlock() brought before stop() was called has
\* been handed to the file, short of a frame that the full ring cut; only a block that
\* was in flight when stop() disarmed can be left behind in the ring.
FinalDrain ==
  cpc = "idle" /\ ~active /\ recordings > 0 =>
    Cardinality({k \in 1 .. Len(ring) : ring[k][1] \notin late}) < Channels

\* Every Channels samples are one frame, channel by channel.
WholeFrames ==
  \A k \in 1 .. Len(written) :
    /\ written[k][2] = ((k - 1) % Channels) + 1
    /\ k % Channels # 0 => written[k][1] = written[k + 1][1]

\* The file is what the writer was given, or, on a full disk, its beginning.
FileIsPrefix ==
  /\ Len(file) <= Len(written) /\ \A k \in 1 .. Len(file) : file[k] = written[k]
  /\ full \/ Len(file) = Len(written)

\* Every sample offered to the ring is on its way to the file, handed to it, or counted:
\* the writer, which reads whole frames of a ring that may end within one, loses none, and
\* only a full disk keeps less than framesWritten_ says. Unless start() replaced the ring
\* under a block in flight, the blocks and their frames and channels keep their order, nothing
\* comes twice, and a recording whose ring was never full consists of whole frames.
NothingLost ==
  /\ TypeOK /\ FileIsPrefix
  /\ Len(written) = Channels * framesWritten
  /\ Len(Stream) + overruns = offered
  /\ ~stray => /\ \A k \in 1 .. Len(Stream) - 1 : Before(Stream[k], Stream[k + 1])
               /\ overruns = 0 => WholeFrames

\* stop() returns: the writer thread finds the stop request and an empty ring.
StopReturns == cpc = "joining" ~> cpc = "idle"

=============================================================================
