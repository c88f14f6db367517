----------------------------- MODULE SignalNodes -----------------------------
(***************************************************************************)
(* The node library (include/aiudio/graph/*_node.hpp) inside a compiled    *)
(* graph: what each node makes of its channels, how long it holds them,    *)
(* and how GraphExecutor::process() plays a source through two branches,   *)
(* the delays of compile() and a join to a sink, one block after another.  *)
(*                                                                         *)
(* A sample is the set of input samples <<channel, frame>> that it is made *)
(* of; the empty set is silence.  How much of each, the tail of a filter   *)
(* and the shape of a nonlinearity are left out.  A node is a record: the  *)
(* way it reads channels, the width channelLayout() gives it (0: that of   *)
(* its input), its latencyFrames(), the channels and the frames it holds,  *)
(* and its parameters.                                                     *)
(***************************************************************************)
EXTENDS Integers, FiniteSets, SequencesExt, FiniteSetsExt

CONSTANTS
  Class,      \* kind -> the node record, with the constructor's arguments
  Setups,    \* bound: [a, b, join: sequences of kinds, device: channels,
              \*        map: a mode of mapChannels(), "": not called]
  Channels,       \* numChannels of compile()
  Rates,      \* sample rates of compile()
  MaxBlock,   \* maxBlock of compile()
  Blocks,     \* bound: numFrames of a callback
  Values,     \* bound: values of setParam()
  MaxFrames,  \* bound: frames the device delivers
  MaxEdits, MaxCompiles

ASSUME NodesAssumption ==
  /\ Channels \in Nat \ {0} /\ MaxBlock \in Nat \ {0} /\ MaxFrames \in Nat
  /\ Rates \subseteq Nat \ {0} /\ Blocks \subseteq Nat \ {0} /\ Values \subseteq Int
  /\ MaxEdits \in Nat /\ MaxCompiles \in Nat

\* What the constructors of the library make, below.
Routes == {"own", "gain", "width", "first", "mono", "matrix", "line", "lookahead", "echo", "tone"}
Slot == [lo : Int, hi : Int, init : Int, forgets : BOOLEAN, ignores : BOOLEAN]
IsNode(nd) ==
  /\ nd \in [route : Routes, width : Nat, params : Seq(Slot), latency : Nat, chans : Nat, depth : Nat]
  /\ \A k \in DOMAIN nd.params : nd.params[k].init \in nd.params[k].lo .. nd.params[k].hi
  /\ nd.route = "mono" => nd.width = 1
  /\ nd.route = "line" => nd.depth = nd.latency
  /\ nd.route = "lookahead" => nd.depth = IF nd.latency > 0 THEN nd.latency + 1 ELSE 0
  /\ nd.route = "echo" => /\ nd.latency = 0 /\ nd.depth > 0 /\ Len(nd.params) = 3
                          /\ nd.params[1].lo = 0 /\ nd.params[1].forgets
  /\ nd.route \notin {"line", "lookahead", "echo"} => nd.latency = 0 /\ nd.depth = 0
Modes == {"", "Auto", "Copy", "DuplicateMono", "DownmixToMono"}

ASSUME ClassAssumption == \A k \in DOMAIN Class : IsNode(Class[k])
ASSUME SetupsAssumption ==
  Setups \subseteq [a : Seq(DOMAIN Class), b : Seq(DOMAIN Class), join : Seq(DOMAIN Class),
                    device : Nat \ {0}, map : Modes]

Far == 1000                  \* beyond every value of setParam()
Stale == <<-1, 0>>           \* what an earlier block left in a buffer
Tone == <<-2, 0>>            \* what a generator makes
Dry == 0                     \* a mix of 0.0, and of 1.0; between them lies 1
Wet == 2
Unwritten == {-1}            \* the channels a node reads for one it does not write
Silence(n) == [f \in 1 .. n |-> {}]
Chans(k) == 0 .. k - 1

-----------------------------------------------------------------------------
(* Parameters.                                                             *)

\* An atomic: setParam() clamps to [lo, hi]; prepare() leaves it alone.
Atomic(lo, hi, init) ==
  [lo |-> lo, hi |-> hi, init |-> init, forgets |-> FALSE, ignores |-> FALSE]

\* A SmoothedValue, or a plain atomic that prepare() stores the constructor's
\* argument to again.
Smoothed(lo, hi, init) == [Atomic(lo, hi, init) EXCEPT !.forgets = TRUE]

\* A value below lo is dropped and the old one kept.
Checked(lo, init) == [Atomic(lo, Far, init) EXCEPT !.ignores = TRUE]

Clamp(slot, old, v) ==
  IF v < slot.lo THEN IF slot.ignores THEN old ELSE slot.lo
  ELSE IF v > slot.hi THEN slot.hi ELSE v

-----------------------------------------------------------------------------
(* The node classes.                                                       *)

Plain(route, width, params) ==
  [route |-> route, width |-> width, params |-> params, latency |-> 0, chans |-> 0, depth |-> 0]
Holding(node, chans, depth) == [node EXCEPT !.chans = chans, !.depth = depth]

GainNode(gain) == Plain("gain", 0, <<Atomic(-Far, Far, gain)>>)
WaveshaperNode == Plain("own", 0, <<Smoothed(0, Far, 1), Smoothed(0, 1, 1)>>)
GateNode ==
  Plain("own", 0, <<Atomic(-Far, Far, -1), Atomic(0, Far, 1), Atomic(0, Far, 2), Atomic(-Far, Far, -2)>>)
DcBlockerNode == Plain("own", 0, <<>>)
\* Without a design helper called, setParam() does nothing.
BiquadNode(designed) ==
  Plain("own", 0, IF designed THEN <<Atomic(-Far, Far, 2), Checked(1, 1), Atomic(-Far, Far, 0)>>
                  ELSE <<>>)
ParametricEqNode(bands) ==
  Plain("own", 0, FlattenSeq([b \in 1 .. bands |-> BiquadNode(TRUE).params]))
MeterNode == Plain("own", 0, <<>>)
NeuralNode == Plain("own", 0, <<>>)
StereoWidthNode(width) == Plain("width", 0, <<Smoothed(0, Far, width)>>)
PanNode == Plain("first", 2, <<Smoothed(-1, 1, 0)>>)
UpmixNode(out) == Plain("first", out, <<>>)

DownmixNode == Plain("mono", 1, <<>>)
\* Square, gains_ the identity matrix.
ChannelMatrixNode(ch) ==
  Plain("matrix", ch, [k \in 1 .. ch * ch |-> Atomic(-Far, Far, IF (k - 1) % (ch + 1) = 0 THEN 1 ELSE 0)])
LatencyNode(frames, ch) ==
  Holding([Plain("line", 0, <<>>) EXCEPT !.latency = frames], ch, frames)
\* The look-ahead ring has one slot more than the look-ahead.
CompressorNode(look, ch) ==
  Holding([Plain("lookahead", 0, <<Atomic(-Far, Far, -1), Atomic(1, Far, 2), Atomic(0, Far, 1),
                                   Atomic(0, Far, 1), Atomic(-Far, Far, 0)>>) EXCEPT !.latency = look],
          ch, IF look > 0 THEN look + 1 ELSE 0)
\* depth: maxDelaySec_; the ring's length follows from the sample rate.
DelayNode(seconds, frames, feedback, mix, ch) ==
  Holding(Plain("echo", 0, <<Smoothed(0, Far, frames), Smoothed(0, 1, feedback), Smoothed(Dry, Wet, mix)>>),
          ch, seconds)
OscillatorNode == Plain("tone", 0, <<Smoothed(0, Far, 1), Smoothed(-Far, Far, 1)>>)
NoiseNode == Plain("tone", 0, <<Smoothed(-Far, Far, 1)>>)
MixerNode == Plain("own", 0, <<Smoothed(-Far, Far, 1), Smoothed(-Far, Far, 1)>>)

-----------------------------------------------------------------------------
(* What output channel c of a node is made of: channels of an input that   *)
(* is iw wide, for an output that is ow wide.                              *)

\* Channel c itself, silence where the input is narrower.
Own(iw, c) == {c} \cap 0 .. iw - 1

GainReads(p, iw, c) == IF p[1] = 0 THEN {} ELSE Own(iw, c)

\* Mid and side of the first two channels, unless there are not two.
WidthReads(p, iw, ow, c) ==
  IF c > 1 \/ iw < 2 \/ ow < 2 \/ p[1] = 1 THEN Own(iw, c) ELSE {0, 1}

\* gains_[c * inCh_ + i], for a square matrix of ch channels.
MatrixReads(p, ch, iw, c) ==
  IF c >= ch THEN {} ELSE {i \in Chans(iw) \cap Chans(ch) : p[c * ch + i + 1] # 0}

Reads(nd, p, iw, ow, c) ==
  CASE nd.route = "own" -> Own(iw, c)
    [] nd.route = "gain" -> GainReads(p, iw, c)
    [] nd.route = "width" -> WidthReads(p, iw, ow, c)
    [] nd.route = "first" -> Own(iw, 0)
    [] nd.route = "mono" -> IF c = 0 THEN 0 .. iw - 1 ELSE Unwritten
    [] nd.route = "matrix" -> MatrixReads(p, nd.width, iw, c)
    [] nd.route = "line" -> IF nd.depth > 0 /\ c >= nd.chans THEN {} ELSE Own(iw, c)
    [] nd.route \in {"lookahead", "echo"} -> Own(iw, c)
    [] nd.route = "tone" -> {}

\* The channels of a plane, mixed into one.
Mixed(plane, from, n) ==
  [f \in 1 .. n |-> UNION {IF i = -1 THEN {Stale} ELSE plane[i][f] : i \in from}]

\* A ring that is read and then written in place: the frames it holds, oldest
\* first, come out before the block.  The second part is what it holds after.
Through(held, x) ==
  LET all == held \o x
  IN [out |-> SubSeq(all, 1, Len(x)), held |-> SubSeq(all, Len(x) + 1, Len(all))]

Cap(nd, rate) == Max({nd.depth * rate + 1, 2})

\* DelayNode::process(): the slot `delay` behind the one to write is read, so a
\* delay of 0 reads the slot about to be written, the oldest.
Blend(mix, x, delayed) == (IF mix = Wet THEN {} ELSE x) \union (IF mix = Dry THEN {} ELSE delayed)
Echo(delay, feedback, mix, held, x) ==
  LET at == IF delay = 0 THEN 1 ELSE Len(held) - delay + 1
      ring[f \in 0 .. Len(x)] ==
        IF f = 0 THEN held
        ELSE Append(Tail(ring[f - 1]), IF feedback = 0 THEN x[f] ELSE x[f] \union ring[f - 1][at])
  IN [out |-> [f \in 1 .. Len(x) |-> Blend(mix, x[f], ring[f - 1][at])], held |-> ring[Len(x)]]

\* Channel c of a node that holds frames: what comes out and what it holds then.
Hold(nd, p, held, x) ==
  IF nd.route = "echo" THEN Echo(p[1], p[2], p[3], held, x) ELSE Through(held, x)

\* Mutant: channelLayout() is not asked.
BugWidthAfter(nd, iw) == iw

WidthAfter(nd, iw) == IF nd.width > 0 THEN nd.width ELSE iw

\* process() of one node, for the plane `in` of its input: what becomes of the
\* channels that it holds, what comes out, and what it holds then.
Holds(nd, p, mem, in, n) ==
  LET iw == Cardinality(DOMAIN in)
      ow == WidthAfter(nd, iw)
  IN [c \in DOMAIN mem \cap Chans(ow) |-> Hold(nd, p, mem[c], Mixed(in, Reads(nd, p, iw, ow, c), n))]
NodeProcess(nd, p, mem, in, n) ==
  LET iw == Cardinality(DOMAIN in)
      ow == WidthAfter(nd, iw)
      holds == Holds(nd, p, mem, in, n)
  IN [c \in Chans(ow) |->
       IF nd.route = "tone" THEN [f \in 1 .. n |-> {Tone}]
       ELSE IF c \in DOMAIN mem THEN holds[c].out
       ELSE Mixed(in, Reads(nd, p, iw, ow, c), n)]
HeldAfter(nd, p, mem, in, n) ==
  LET holds == Holds(nd, p, mem, in, n)
  IN [c \in DOMAIN mem |-> IF c \in DOMAIN holds THEN holds[c].held ELSE mem[c]]

-----------------------------------------------------------------------------
(* The compiled graph: source -> branch a and source -> branch b, both ->   *)
(* join -> sink.  The join is a mixer, or a sum where wiring.join is empty.  *)

VARIABLES
  wiring,    \* the graph's nodes; does not change
  rate,      \* sample rate of the active schedule, 0: none
  par,       \* branch or join -> position -> values of the node's parameters
  mem,       \* branch -> position -> channel -> frames held, oldest first
  comp,      \* branch -> channel -> frames the join's compensating delay holds
  frame,     \* frames the device has delivered
  played,    \* ghost: the delivered frames the schedule has rendered, in order
  out,       \* the device's output buffers of the last block
  edited,    \* ghost: a parameter changed since compile()
  edits, compiles
nodesVars == <<wiring, rate, par, mem, comp, frame, played, out, edited, edits, compiles>>

Branches == {"a", "b"}
Chains == Branches \union {"join"}
Node(b, i) == Class[wiring[b][i]]
Places == UNION {{<<b, i>> : i \in 1 .. Len(wiring[b])} : b \in Chains}

\* Widths after each position of a branch; a generator has the host's width.
Widths(b) ==
  LET width[i \in 0 .. Len(wiring[b])] ==
        IF i = 0 THEN Channels ELSE WidthAfter(Node(b, i), width[i - 1])
  IN width
WidthAt(b, i) == Widths(b)[i - 1]
BranchWidth(b) == Widths(b)[Len(wiring[b])]

\* The latencies on the way to each position.
Latencies(b) ==
  LET latency[i \in 0 .. Len(wiring[b])] ==
        IF i = 0 THEN 0 ELSE latency[i - 1] + Node(b, i).latency
  IN latency
BranchLatency(b) == Latencies(b)[Len(wiring[b])]
LatencyFrames == Max({BranchLatency(b) : b \in Branches})

\* Mutant: the earlier branch is not delayed.
BugCompDelay(b) == 0

CompDelay(b) == LatencyFrames - BranchLatency(b)

\* What prepare() leaves in a node's rings.
Cleared(nd, r) ==
  LET len == IF nd.route = "echo" THEN Cap(nd, r) ELSE nd.depth
  IN IF nd.depth = 0 THEN [c \in {} |-> <<>>] ELSE [c \in Chans(nd.chans) |-> Silence(len)]

\* Mutant: delay_ is stored before cap_ is known.
BugReset(nd, p, r) == [i \in DOMAIN p |-> IF nd.params[i].forgets THEN nd.params[i].init ELSE p[i]]

\* What prepare() leaves in its parameters.
Reset(nd, p, r) ==
  [i \in DOMAIN p |->
    IF ~nd.params[i].forgets THEN p[i]
    ELSE IF nd.route = "echo" /\ i = 1 THEN Min({nd.params[i].init, Cap(nd, r) - 1})
    ELSE nd.params[i].init]

NodesInit ==
  /\ wiring \in Setups
  /\ par = [b \in Chains |-> [i \in 1 .. Len(wiring[b]) |->
             [k \in DOMAIN Node(b, i).params |-> Node(b, i).params[k].init]]]
  /\ mem = [b \in Branches |-> [i \in 1 .. Len(wiring[b]) |-> [c \in {} |-> <<>>]]]
  /\ comp = [b \in Branches |-> [c \in {} |-> <<>>]]
  /\ rate = 0 /\ frame = 0 /\ played = <<>>
  /\ out = [c \in Chans(wiring.device) |-> <<>>]
  /\ edited = FALSE /\ edits = 0 /\ compiles = 0

\* compile(): every node is prepared again and the new schedule has delay lines
\* of its own.
Compile(r) ==
  /\ compiles < MaxCompiles
  /\ rate' = r /\ compiles' = compiles + 1
  /\ par' = [b \in Chains |-> [i \in 1 .. Len(wiring[b]) |-> Reset(Node(b, i), par[b][i], r)]]
  /\ mem' = [b \in Branches |-> [i \in 1 .. Len(wiring[b]) |-> Cleared(Node(b, i), r)]]
  /\ comp' = [b \in Branches |-> [c \in Chans(BranchWidth(b)) |-> Silence(CompDelay(b))]]
  /\ played' = <<>> /\ edited' = FALSE
  /\ UNCHANGED <<wiring, frame, out, edits>>

\* setParam(), by the node's owner or from the command queue before a block.
\* Before the first prepare() a delay has no ring to be clamped to.
SetParam(b, i, k, v) ==
  LET nd == Node(b, i)
      set == Clamp(nd.params[k], par[b][i][k], v)
      inRing == IF nd.route = "echo" /\ k = 1 /\ rate > 0 THEN Min({set, Cap(nd, rate) - 1}) ELSE set
  IN /\ edits < MaxEdits
     /\ par' = [par EXCEPT ![b][i][k] = inRing]
     /\ edits' = edits + 1 /\ edited' = TRUE
     /\ UNCHANGED <<wiring, rate, mem, comp, frame, played, out, compiles>>

\* What Auto stands for, from sc channels to dc.
Resolved(mode, sc, dc) ==
  IF mode # "Auto" THEN mode
  ELSE IF sc = 1 /\ dc > 1 THEN "DuplicateMono"
  ELSE IF dc = 1 /\ sc > 1 THEN "DownmixToMono"
  ELSE "Copy"

\* mapChannels(): the source channels that make channel c of the destination.
MapChannels(mode, sc, dc, c) ==
  CASE Resolved(mode, sc, dc) = "DuplicateMono" -> Own(sc, 0)
    [] Resolved(mode, sc, dc) = "DownmixToMono" -> IF c = 0 THEN Chans(sc) ELSE {}
    [] Resolved(mode, sc, dc) = "Copy" -> Own(sc, c)

\* The device's channels in channel c of the graph: mapped by the application at
\* the edge, or SourceNode::process() alone, silent beyond the device's.
Input(c) ==
  IF wiring.map = "" THEN Own(wiring.device, c) ELSE MapChannels(wiring.map, wiring.device, Channels, c)
SourceNode(n) ==
  [c \in Chans(Channels) |-> [f \in 1 .. n |-> {<<i, frame + f>> : i \in Input(c)}]]

\* One branch of the schedule: the planes between its nodes, and what these hold.
Planes(b, n) ==
  LET plane[i \in 0 .. Len(wiring[b])] ==
        IF i = 0 THEN SourceNode(n)
        ELSE NodeProcess(Node(b, i), par[b][i], mem[b][i], plane[i - 1], n)
  IN plane
Branch(b, n) ==
  LET plane == Planes(b, n)
  IN [plane |-> plane[Len(wiring[b])],
      mem |-> [i \in 1 .. Len(wiring[b]) |->
                HeldAfter(Node(b, i), par[b][i], mem[b][i], plane[i - 1], n)]]

\* Mutant: the delay line starts each block from its beginning.
BugDelayLine(held, x) == [out |-> SubSeq(held \o x, 1, Len(x)), held |-> held]

\* DelayLine::process() of one channel, for the delay it was prepared with.
DelayLine(held, x) == Through(held, x)

\* SumNode::process().
SumNode(planes, n) ==
  [c \in Chans(Max({BranchWidth(b) : b \in Branches})) |->
    [f \in 1 .. n |-> UNION {IF c \in DOMAIN planes[b] THEN planes[b][c][f] ELSE {} : b \in Branches}]]

\* The branches a mixer's gains let through; a gain on its way to 0 counts as 0.
Audible ==
  {b \in Branches : wiring.join # <<>> => par["join"][1][IF b = "a" THEN 1 ELSE 2] # 0}

\* MixerNode::process().
MixerNodeProcess(planes, n) ==
  SumNode([b \in Branches |-> IF b \in Audible THEN planes[b] ELSE [c \in {} |-> <<>>]], n)

\* SinkNode::process(): the device's channels, silence where the graph is narrower.
\* What is over maxBlock is silent.
SinkNode(plane, n, frames) ==
  [c \in Chans(wiring.device) |->
    (IF c \in DOMAIN plane THEN plane[c] ELSE Silence(n)) \o Silence(frames - n)]

\* GraphExecutor::process() for one callback.
Process(frames) ==
  /\ frame + frames <= MaxFrames
  /\ frame' = frame + frames
  /\ UNCHANGED <<wiring, rate, par, edited, edits, compiles>>
  /\ IF rate = 0 THEN /\ out' = [c \in Chans(wiring.device) |-> Silence(frames)]
                      /\ UNCHANGED <<mem, comp, played>>
     ELSE LET n == Min({frames, MaxBlock})
              done == [b \in Branches |-> Branch(b, n)]
              late == [b \in Branches |->
                        [c \in DOMAIN comp[b] |-> DelayLine(comp[b][c], done[b].plane[c])]]
              planes == [b \in Branches |-> [c \in DOMAIN comp[b] |-> late[b][c].out]]
          IN /\ mem' = [b \in Branches |-> done[b].mem]
             /\ comp' = [b \in Branches |-> [c \in DOMAIN comp[b] |-> late[b][c].held]]
             /\ played' = played \o [f \in 1 .. n |-> frame + f]
             /\ out' = SinkNode(MixerNodeProcess(planes, n), n, frames)

NodesNext ==
  \/ \E r \in Rates : Compile(r)
  \/ \E q \in Places : \E k \in DOMAIN Node(q[1], q[2]).params, v \in Values :
       SetParam(q[1], q[2], k, v)
  \/ \E n \in Blocks : Process(n)

NodesSpec == NodesInit /\ [][NodesNext]_nodesVars

-----------------------------------------------------------------------------
(* Properties.                                                             *)

Samples == SUBSET ({Tone, Stale} \union (Chans(wiring.device) \X (1 .. MaxFrames)))

\* Every ring has its length and holds samples; parameters are within their slots.
NodesTypeOK ==
  /\ wiring \in Setups /\ rate \in Rates \union {0} /\ frame \in 0 .. MaxFrames
  /\ edits \in 0 .. MaxEdits /\ compiles \in 0 .. MaxCompiles /\ edited \in BOOLEAN
  /\ \A c \in DOMAIN out : \A f \in DOMAIN out[c] : out[c][f] \in Samples
  /\ \A b \in Branches : rate > 0 => \A c \in Chans(BranchWidth(b)) : Len(comp[b][c]) = CompDelay(b)
  /\ \A q \in Places : LET nd == Node(q[1], q[2]) IN
       /\ rate > 0 /\ q[1] \in Branches => \A c \in DOMAIN mem[q[1]][q[2]] :
            Len(mem[q[1]][q[2]][c]) = IF nd.route = "echo" THEN Cap(nd, rate) ELSE nd.depth
       /\ \A k \in DOMAIN nd.params : par[q[1]][q[2]][k] \in nd.params[k].lo .. nd.params[k].hi

\* The delay that process() subtracts from a ring position is less than the ring
\* is long, whatever sample rate compile() was last called with and whenever the
\* delay was set: otherwise w + cap_ - delay wraps below zero.
DelayInsideRing ==
  /\ NodesTypeOK
  /\ rate > 0 => \A q \in Places :
       LET nd == Node(q[1], q[2]) IN nd.route = "echo" => par[q[1]][q[2]][1] < Cap(nd, rate)

\* The widths that channelLayout() announces and the channels that process()
\* writes agree along every chain: no frame of an earlier block, which a port's
\* buffer still holds, is ever heard.
NothingStale == \A c \in DOMAIN out : \A f \in DOMAIN out[c] : Stale \notin out[c][f]

\* Reference: the ways from output channel c of a branch back to channels of its
\* source, with the frames each takes, for a schedule that has rendered k frames.
\* An echo is as late as delay_node.hpp:20 says, "delay length in frames", and
\* with feedback comes back after every such length.
Returns(delay, feedback, k) ==
  {delay} \union (IF feedback = 0 THEN {} ELSE {m \in 1 .. k : delay > 0 /\ m % delay = 0})
Lags(nd, p, c, k) ==
  IF nd.depth = 0 \/ c >= nd.chans THEN {0}
  ELSE IF nd.route # "echo" THEN {nd.depth}
  ELSE Blend(p[3], {0}, Returns(p[1], p[2], k))
Back(b, i, ways, k) ==
  LET nd == Node(b, i)
      reads(c) == Reads(nd, par[b][i], WidthAt(b, i), WidthAt(b, i + 1), c)
  IN UNION {reads(w[1]) \X {w[2] + l : l \in Lags(nd, par[b][i], w[1], k)} : w \in ways}
Ways(b, c, k) ==
  FoldRight(LAMBDA i, ways : Back(b, i, ways, k), [i \in 1 .. Len(wiring[b]) |-> i],
            IF c < BranchWidth(b) THEN {<<c, CompDelay(b)>>} ELSE {})
Expected(c, k) ==
  UNION {{<<i, played[k - w[2]]>> : i \in Input(w[1])} :
           w \in {u \in UNION {Ways(b, c, k) : b \in Audible} : u[2] < k}}

\* The frames of the last block that were rendered: out[c][j] is frame played[k].
Rendered ==
  IF played = <<>> \/ Last(played) <= frame - Len(out[0]) THEN {}
  ELSE {k \in DOMAIN played : played[k] > frame - Len(out[0])}
Sample(c, k) == out[c][played[k] - (frame - Len(out[0]))] \ {Tone}

\* An audible echo with a delay of 0: it does not come at once but as late as its
\* ring is long, against delay_node.hpp:20 and the range from 0 of :33.
Undelayed(b) ==
  \E i \in 1 .. Len(wiring[b]) : Node(b, i).route = "echo" /\ par[b][i][1] = 0 /\ par[b][i][3] # Dry

\* However the stream is cut into blocks, and whatever nodes, compensation and
\* recompilations are in it, an output sample is made of exactly the input
\* samples that the nodes' routes and documented delays name, none from another
\* block, none missing.  A change of a parameter counts from the next compile(),
\* and an audible delay of 0 is let off.
BlocksDoNotShow ==
  ~edited /\ (\A b \in Branches : ~Undelayed(b)) => \A c \in DOMAIN out, k \in Rendered : Sample(c, k) = Expected(c, k)

Compresses(b) == \E i \in 1 .. Len(wiring[b]) : Node(b, i).route = "lookahead" /\ Node(b, i).depth > 0
Echoes(b) == \E i \in 1 .. Len(wiring[b]) : Node(b, i).route = "echo"

\* Branches without a look-ahead or an echo recombine in phase, edited or not:
\* all that a sample is made of was delivered latencyFrames() frames before it.
InPhase ==
  (\A b \in Branches : ~Compresses(b) /\ ~Echoes(b)) =>
    \A c \in DOMAIN out, k \in Rendered : \A s \in Sample(c, k) :
      k > LatencyFrames /\ s[2] = played[k - LatencyFrames]

\* compressor_node.hpp:4: "With lookahead > 0 the signal is delayed by that many
\* frames", here of the first channel; the ring holds one frame more, so a
\* compressed branch is late by one.
CompressorDelaysByLookahead ==
  (\A b \in Branches : ~Echoes(b)) =>
    \A k \in Rendered : \A s \in Sample(0, k) : k > LatencyFrames /\ s[2] = played[k - LatencyFrames]
=============================================================================
