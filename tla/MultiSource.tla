----------------------------- MODULE MultiSource -----------------------------
(***************************************************************************)
(* How streams of several threads meet at one clock.  Three wirings:       *)
(* MasterClockAdapter over a MultiSourceManager ("adapter": one device is  *)
(* clock, source and sink of stream 0, while stream 1 is fed and drained   *)
(* by threads of its own); CrossClockBridge ("bridge": stream 0 comes from *)
(* device A, the clock, and goes to device B, on another clock, through a  *)
(* ring); LiveMultiSource ("live": two devices on their own clocks push,   *)
(* the clock device pulls both and plays).                                 *)
(*                                                                         *)
(* Each (stream, channel) has a ring of its own, and every call walks the  *)
(* channels one after another: a thread is a list of ring operations, one  *)
(* channel each, atomic as module RingBuffer shows a ring's operations to  *)
(* be.  A sample is the number of the frame its device captured, Silence,  *)
(* or Garbage (memory nobody wrote).  The graph passes each input stream   *)
(* to the output streams that `route' names; what nodes do to samples is   *)
(* module SignalNodes' concern.                                           *)
(***************************************************************************)
EXTENDS Integers, Sequences, FiniteSetsExt, SequencesExt

CONSTANTS
  Channels,    \* channels_ of the manager
  MaxBlock,    \* maxBlock_
  RingFrames,  \* frames a ring holds
  Blocks,      \* Blocks[t]: block sizes thread t asks for
  Devices,     \* clock devices: how many channels in, how many out
  Routes,      \* graphs: the input stream each output stream hears
  MaxCalls     \* bound: calls of each thread

VARIABLES
  wiring,   \* "adapter", "bridge" or "live"
  device,   \* channels of the clock device: [in, out]
  todo,     \* per thread: the operations its call has left
  frames,   \* per thread: frames of that call
  ring,     \* ring[<<side, stream, channel>>]
  xruns,    \* per ring: frames that did not fit (out) or were not there (in)
  buf,      \* inBufs_ and outBufs_
  staged,   \* per stream: staged_, the frames the pull under way got of the first channel
  stage,    \* stage[<<stream, channel>>]: stage_, the scratch of its ResamplingSource
  heard,    \* the block each sink or the scratch received last
  sent,     \* frames captured per stream
  calls,    \* calls each thread has begun
  route,    \* route[output stream]: the input stream its sink hears, or None
  hist      \* what happened before, for the properties only

streamVars == <<wiring, device, todo, frames, ring, xruns, buf, staged, stage, heard, sent,
                calls, route, hist>>

Silence == 0
Garbage == -1
None == 2
Streams == {0, 1}
Chans == 1 .. Channels
Threads == {"master", "source", "sink", "deviceB"}

Rings == {"in", "out", "cross"} \X Streams \X Chans
ASSUME MultiSourceAssumption ==
  /\ {Channels, MaxBlock, RingFrames} \subseteq Nat \ {0}
  /\ Blocks \in [Threads -> SUBSET (Nat \ {0})]
  /\ Devices \subseteq [in : Nat, out : Nat]
  /\ Routes \subseteq [Streams -> Streams \cup {None}]
  /\ MaxCalls \in Nat

Prefix(q, n) == SubSeq(q, 1, Min({n, Len(q)}))
Suffix(q, n) == SubSeq(q, n + 1, Len(q))
Silent(n) == [i \in 1..n |-> Silence]

----------------------------------------------------------------------------
(* The calls, as lists of operations.                                      *)

Each(op, s) == [c \in Chans |-> <<op, s, c>>]

pushInput(s) == Each("push", s)
popOutput(s, n) == Prefix(Each("pop", s), n)   \* the channels both have
process == Each("drain", 0) \o Each("drain", 1) \o <<<<"exec", 0, 1>>>>
             \o Each("fill", 0) \o Each("fill", 1)

\* A device without input pushes nothing, one without output pops nothing.
When(p, ops) == IF p THEN ops ELSE <<>>

MasterClockAdapter ==
  When(device.in > 0, pushInput(0)) \o process \o When(device.out > 0, popOutput(0, device.out))
MasterCb == When(device.in > 0, pushInput(0)) \o process \o popOutput(0, Channels) \o Each("send", 0)
OutputCb == Each("pull", 0)
CaptureSourceAdapter(s) == Each("capture", s)
pump == Each("take", 0) \o Each("take", 1) \o <<<<"exec", 0, 1>>>>
          \o Prefix(Each("emit", 0), device.out)

\* The threads of each wiring and what one call of each does.
Program ==
  CASE wiring = "adapter" -> [master |-> MasterClockAdapter, source |-> pushInput(1),
                              sink |-> popOutput(1, Channels)]
    [] wiring = "bridge"  -> [master |-> MasterCb, deviceB |-> OutputCb]
    [] wiring = "live"    -> [master |-> pump, source |-> CaptureSourceAdapter(1),
                              deviceB |-> CaptureSourceAdapter(0)]
Source == [s \in Streams |-> IF s = 1 THEN "source" ELSE IF wiring = "live" THEN "deviceB" ELSE "master"]

Begin(t, n) ==
  /\ t \in DOMAIN Program /\ todo[t] = <<>>
  /\ todo' = [todo EXCEPT ![t] = Program[t]]
  /\ frames' = [frames EXCEPT ![t] = n]
  /\ calls[t] < MaxCalls
  /\ calls' = [calls EXCEPT ![t] = @ + 1]
  /\ sent' = [s \in Streams |-> IF Source[s] = t THEN sent[s] + n ELSE sent[s]]
  /\ hist' = [hist EXCEPT !.oversize = @ \/ (t = "master" /\ n > MaxBlock)]
  /\ UNCHANGED <<wiring, device, ring, xruns, buf, staged, stage, heard, route>>

----------------------------------------------------------------------------
(* One operation of thread t on stream s, channel c.                       *)

Clamped(t) == Min({frames[t], MaxBlock})

\* RingBuffer::write takes what fits and counts the rest; read() gives what is
\* there and counts the rest.
Write(r, q) ==
  LET n == Min({Len(q), RingFrames - Len(ring[r])}) IN
  /\ ring' = [ring EXCEPT ![r] = @ \o Prefix(q, n)]
  /\ xruns' = [xruns EXCEPT ![r] = @ + Len(q) - n]

Read(r, n) ==
  /\ ring' = [ring EXCEPT ![r] = Suffix(@, n)]
  /\ xruns' = [xruns EXCEPT ![r] = @ + n - Len(Prefix(ring[r], n))]

\* What a reader finds, with silence for what is missing.
Padded(r, n) == Prefix(ring[r], n) \o Silent(n - Len(Prefix(ring[r], n)))

\* Another thread is between two channels of stream s in such an operation.
Mid(op, s) == \E t \in Threads : todo[t] # <<>> /\ todo[t][1][1] = op
                /\ todo[t][1][2] = s /\ todo[t][1][3] > 1
Met(side, s, op) == IF Mid(op, s) THEN {<<side, s>>} ELSE {}
Overlap(side, s, op) == hist' = [hist EXCEPT !.overlap = @ \cup Met(side, s, op)]

\* The block the source of stream s captured; it may have fewer channels.
SourceChannels(s) == IF s = 0 /\ wiring # "live" THEN device.in ELSE Channels
Captured(t, s, c) ==
  [i \in 1..Clamped(t) |-> IF c <= SourceChannels(s) THEN sent[s] - frames[t] + i ELSE Silence]

\* Mutant: channels the source does not have are not written.
PushPresent(t, s, c) ==
  /\ IF c <= SourceChannels(s) THEN Write(<<"in", s, c>>, Captured(t, s, c)) ELSE UNCHANGED <<ring, xruns>>
  /\ Overlap("in", s, "drain")
  /\ UNCHANGED <<buf, heard>>
Push(t, s, c) ==
  /\ Write(<<"in", s, c>>, Captured(t, s, c))
  /\ Overlap("in", s, "drain")
  /\ UNCHANGED <<buf, heard>>

\* Mutants: what a short block leaves is kept; the first channel's ring serves
\* all channels.
DrainStale(t, s, c) ==
  LET r == <<"in", s, c>> IN
  /\ Read(r, Clamped(t))
  /\ buf' = [buf EXCEPT ![r] = Prefix(ring[r], Clamped(t)) \o Suffix(@, Len(Prefix(ring[r], Clamped(t))))]
  /\ Overlap("in", s, "push")
  /\ UNCHANGED heard
DrainFirst(t, s, c) ==
  LET r == <<"in", s, 1>> IN
  /\ Read(r, Clamped(t))
  /\ buf' = [buf EXCEPT ![<<"in", s, c>>] = Padded(r, Clamped(t)) \o Suffix(@, Clamped(t))]
  /\ Overlap("in", s, "push")
  /\ UNCHANGED heard
Drain(t, s, c) ==
  LET r == <<"in", s, c>> IN
  /\ Read(r, Clamped(t))
  /\ buf' = [buf EXCEPT ![r] = Padded(r, Clamped(t)) \o Suffix(@, Clamped(t))]
  /\ Overlap("in", s, "push")
  /\ UNCHANGED heard

\* A stream no sink is bound to keeps the block before in its buffer.
Exec(t) ==
  /\ buf' = [r \in DOMAIN buf |->
               IF r[1] = "out" /\ route[r[2]] # None
               THEN Prefix(buf[<<"in", route[r[2]], r[3]>>], Clamped(t)) \o Suffix(buf[r], Clamped(t))
               ELSE buf[r]]
  /\ hist' = [hist EXCEPT !.unsunk = @ \cup {s \in Streams : route[s] = None}]
  /\ UNCHANGED <<ring, xruns, heard>>

Fill(t, s, c) ==
  /\ Write(<<"out", s, c>>, Prefix(buf[<<"out", s, c>>], Clamped(t)))
  /\ Overlap("out", s, "pop")
  /\ UNCHANGED <<buf, heard>>

\* Thread t gets block q on channel c: frames must come in the order captured.
\* `met' and `short' are what else the properties are to remember.
Hear(t, c, q, met, short) ==
  LET new == {i \in DOMAIN q : q[i] # Silence} IN
  /\ heard' = [heard EXCEPT ![<<t, c>>] = q]
  /\ hist' = [hist EXCEPT
       !.last[<<t, c>>] = IF new = {} THEN @ ELSE q[Max(new)],
       !.disorder = IF \A i \in new : q[i] > hist.last[<<t, c>>] /\ \A j \in new : j < i => q[j] < q[i]
                    THEN @ ELSE @ \cup {<<t, c>>},
       !.overlap = @ \cup met,
       !.short = @ \cup short]

Pop(t, s, c) ==
  LET r == <<"out", s, c>> IN
  /\ Read(r, Clamped(t))
  /\ Hear(t, c, Padded(r, Clamped(t)), Met("out", s, "fill"), {})
  /\ UNCHANGED buf

\* push() of the bridge's ring takes the frames of the device's block, the
\* scratch holds MaxBlock of them; zero_ bounds it to the ring.
Send(t, c) ==
  LET n == Min({frames[t], RingFrames})
      scratch == heard[<<t, c>>]
  IN /\ Write(<<"cross", 0, c>>, Prefix(scratch, n) \o [i \in 1 .. n - Len(scratch) |-> Garbage])
     /\ UNCHANGED <<buf, heard, hist>>

\* ResamplingSource::pull(), at ratio 1 and without the resampler's taps: the first
\* channel is asked for what it has, the others for as many frames as it gave.
Asked(t, s, c) == Min({Clamped(t), IF c = 1 THEN Len(ring[<<"cross", s, 1>>]) ELSE staged[s]})
Fresh(t, s, c) == Prefix(ring[<<"cross", s, c>>], Asked(t, s, c))

\* What is missing of them is not noticed: what was staged there before is heard again.
Stage(t, s, c) == Fresh(t, s, c) \o Suffix(stage[<<s, c>>], Len(Fresh(t, s, c)))
Pulled(t, s, c) == Prefix(Stage(t, s, c), Asked(t, s, c)) \o Silent(Clamped(t) - Asked(t, s, c))
Short(t, s, c) == IF Len(Fresh(t, s, c)) < Asked(t, s, c) THEN {c} ELSE {}
Staging(t, op, s, c) ==
  IF op \in {"pull", "take"}
  THEN /\ staged' = [staged EXCEPT ![s] = Asked(t, s, c)]
       /\ stage' = [stage EXCEPT ![<<s, c>>] = Stage(t, s, c)]
  ELSE UNCHANGED <<staged, stage>>

Pull(t, c) ==
  /\ Read(<<"cross", 0, c>>, Asked(t, 0, c))
  /\ Hear(t, c, Pulled(t, 0, c), {}, Short(t, 0, c))
  /\ UNCHANGED buf

\* The live wiring: push() of a source's ring by its device, pull() of both
\* rings and the copy to the device's buffer by the clock.
Capture(t, s, c) ==
  /\ Write(<<"cross", s, c>>, Captured(t, s, c))
  /\ UNCHANGED <<buf, heard, hist>>

Take(t, s, c) ==
  /\ Read(<<"cross", s, c>>, Asked(t, s, c))
  /\ buf' = [buf EXCEPT ![<<"in", s, c>>] = Pulled(t, s, c) \o Suffix(@, Clamped(t))]
  /\ hist' = [hist EXCEPT !.short = @ \cup Short(t, s, c)]
  /\ UNCHANGED heard

Emit(t, c) == Hear(t, c, Prefix(buf[<<"out", 0, c>>], Clamped(t)), {}, {}) /\ UNCHANGED <<ring, xruns, buf>>

Do(t) ==
  /\ todo[t] # <<>>
  /\ LET s == todo[t][1][2]  c == todo[t][1][3] IN
     CASE todo[t][1][1] = "push"  -> Push(t, s, c)
       [] todo[t][1][1] = "drain" -> Drain(t, s, c)
       [] todo[t][1][1] = "exec"  -> Exec(t)
       [] todo[t][1][1] = "fill"  -> Fill(t, s, c)
       [] todo[t][1][1] = "pop"   -> Pop(t, s, c)
       [] todo[t][1][1] = "send"  -> Send(t, c)
       [] todo[t][1][1] = "pull"  -> Pull(t, c)
       [] todo[t][1][1] = "capture" -> Capture(t, s, c)
       [] todo[t][1][1] = "take"  -> Take(t, s, c)
       [] todo[t][1][1] = "emit"  -> Emit(t, c)
  /\ Staging(t, todo[t][1][1], todo[t][1][2], todo[t][1][3])
  /\ todo' = [todo EXCEPT ![t] = Tail(@)]
  /\ UNCHANGED <<wiring, device, frames, sent, calls, route>>

\* The control thread installs a graph in which nothing is bound to stream s
\* (between blocks: a block looks at the schedule once).
Recompile ==
  /\ todo["master"] = <<>>
  /\ None \notin {route[s] : s \in Streams}   \* bound: one recompile
  /\ \E s \in Streams : route' = [route EXCEPT ![s] = None]
  /\ UNCHANGED <<wiring, device, todo, frames, ring, xruns, buf, staged, stage, heard, sent, calls, hist>>

----------------------------------------------------------------------------
StreamInit ==
  /\ wiring \in {"adapter", "bridge", "live"}
  /\ device \in Devices
  /\ todo = [t \in Threads |-> <<>>]
  /\ frames = [t \in Threads |-> 0]
  /\ ring = [r \in Rings |-> <<>>]
  /\ xruns = [r \in Rings |-> 0]
  /\ buf = [r \in {"in", "out"} \X Streams \X Chans |-> Silent(MaxBlock)]
  /\ staged = [s \in Streams |-> 0]
  /\ stage = [k \in Streams \X Chans |-> Silent(MaxBlock)]
  /\ heard = [k \in Threads \X Chans |-> <<>>]
  /\ sent = [s \in Streams |-> 0]
  /\ calls = [t \in Threads |-> 0]
  /\ route \in Routes
  /\ hist = [overlap |-> {}, oversize |-> FALSE, unsunk |-> {}, short |-> {}, disorder |-> {},
             last |-> [k \in Threads \X Chans |-> 0]]

StreamNext ==
  \/ \E t \in Threads : \E n \in Blocks[t] : Begin(t, n)
  \/ \E t \in Threads : Do(t)
  \/ Recompile

StreamSpec == StreamInit /\ [][StreamNext]_streamVars
-----------------------------------------------------------------------------
(* Rings hold no more than they can, of frames that were captured.         *)
StreamTypeOK ==
  /\ \A r \in Rings : ring[r] \in Seq(Garbage .. Max({sent[s] : s \in Streams})) /\ Len(ring[r]) <= RingFrames
  /\ xruns \in [Rings -> Nat]
  /\ todo \in [Threads -> Seq({"push", "drain", "exec", "fill", "pop", "send", "pull",
                                  "capture", "take", "emit"} \X Streams \X Chans)]
  /\ route \in [Streams -> Streams \cup {None}]
  /\ \A r \in DOMAIN buf : Len(buf[r]) = MaxBlock

Drained(side, s) == IF side = "out" /\ s = 0 /\ wiring = "adapter" THEN Min({device.out, Channels}) ELSE Channels
Resting(side, s) ==
  ~ \E op \in IF side = "in" THEN {"push", "drain"} ELSE {"fill", "pop"} : Mid(op, s)

(* The channels of a stream stay in step, and the counters of its first    *)
(* channel speak for all of them, unless a push and a drain of the stream  *)
(* (a fill and a pop) ran at the same time; also when rings run full or    *)
(* empty.  A device narrower than the manager never drains its last rings. *)
StreamsInStep ==
  /\ StreamTypeOK
  /\ \A side \in {"in", "out"}, s \in Streams :
       Resting(side, s) /\ <<side, s>> \notin hist.overlap =>
         \A c \in 1 .. Drained(side, s) :
           /\ Len(ring[<<side, s, c>>]) = Len(ring[<<side, s, 1>>])
           /\ xruns[<<side, s, c>>] = xruns[<<side, s, 1>>]
           /\ side = "in" /\ c <= SourceChannels(s) => ring[<<side, s, c>>] = ring[<<side, s, 1>>]

(* Whatever overlaps, the rings of a source's channels never drift further *)
(* apart than one block: a shortfall of one channel is made up for at the  *)
(* next.                                                                   *)
SlipWithinOneBlock ==
  \A s \in Streams, c, d \in Chans :
    Resting("in", s) => Len(ring[<<"in", s, c>>]) - Len(ring[<<"in", s, d>>]) <= MaxBlock

(* Every sink hears the frames of a channel in the order they were         *)
(* captured, none twice, in all wirings and for all losses, as long as the *)
(* graph has a sink for every stream (else the last block is pushed again  *)
(* and again) and the clock's blocks fit the bridge's scratch; a channel   *)
(* after the first, as long as no pull() found fewer frames of it than of  *)
(* the first.  The clock device hears in each block what it captured in    *)
(* that block: its own rings, which hold a block, are empty between        *)
(* blocks, so the adapter adds no latency, whatever the other streams do.  *)
HeardAsCaptured ==
  /\ \A t \in Threads, c \in Chans :
       <<t, c>> \in hist.disorder => hist.unsunk # {} \/ hist.oversize \/ c \in hist.short \ {1}
  /\ wiring = "adapter" /\ todo["master"] = <<>> /\ calls["master"] > 0 /\ route[0] = 0 =>
       \A c \in 1 .. Min({device.out, Channels}) : heard[<<"master", c>>] = Captured("master", 0, c)

=============================================================================
