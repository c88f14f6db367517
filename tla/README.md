# Verification of aiudio

TLA+ models of the concurrent core of aiudio, the TLC runs that check them and
the TLAPS proofs about them. Paths are relative to the root of the repository.

## The system

aiudio renders a graph of audio nodes in real time. Four kinds of threads meet
in it: the **audio thread** (a device's IOProc, or a test that pumps blocks),
which must neither lock nor allocate; the **control thread** (Python, a UI or an
agent), which edits the graph, compiles it and starts and stops things;
**source threads**, other devices' IOProcs with clocks of their own; and the
**writer thread** of a recording. They share no lock. What they share is

* lock-free single-producer single-consumer rings (samples, parameter commands),
* one atomic pointer to the compiled schedule and one atomic block counter,
* a few atomic flags (`active_`, `stopRequested_`, `recording_`, `disconnected_`).

### Inventory

| Component | State | Operations | Hard part | Correct when |
|---|---|---|---|---|
| `io/ring_buffer.hpp` | slots, two atomic indices, two counters | push, write, pop, read, sizeApprox | two threads on one array, acquire/release only | FIFO, no slot shared, refuses only when full |
| `graph/graph_executor` | `active_`, `retired_`, `renderCount_`, command ring | compile, process, postParam | swap under a running block, deferred free | no use after free, no leak, commands in order and in time |
| `graph/graph`, `build()` | nodes with tombstones, edges | addNode, connect, disconnect, removeNode, validate, build | arbitrary edit sequences | cycle check exact, topological schedule, branches in phase |
| `io/wav_recorder` | ring, flags, writer thread | start, pushBlock, stop | in-flight block at stop, full ring, restart | conservation, order, final drain, stop returns |
| `graph/live_multi_source.hpp` | sources, recorder tap | addSource, pump, recordToWav, stopRecording | tap against replacement of the recorder | pump never uses a dead recorder |
| `io/resampling_source` | one ring per channel, staging | push, pull | channels read one after another | channels stay aligned |
| `graph/multi_source_manager`, `cross_clock_bridge`, `master_clock_adapter` | one ring per stream and channel, buffers per stream | pushInput, process, popOutput; two callbacks | four threads, channels walked one after another | channels in step, heard in order, silence where nothing came |
| `io/coreaudio_*_backend` | device, aggregate, IOProc, scratch, listener, flags | open, start, stop, destructor, block, listener | re-open, any HAL call fails, device dies | nothing left behind, silent after stop, death reported once |
| `graph/*_node.hpp`, `delay_line`, `channel_map` | rings, cursors, smoothed parameters | channelLayout, prepare, setParam, process | widths announced and written by different rules, blocks of any size | a sample is what routes and delays name, block sizes do not show |
| `io/wav_file`, `io/offline_backend` | header, cursor, byte count | open, start, read, write, finalize | full disk, program ends before finalize, copies of copies | a file claims only what is in it |
| `aiudio.workbench`, `aiudio.server`, `aiudio.agent` | session, log, redo stack, clients, lock | actions, undo, redo, load, sync, chat, tune, broadcast | coroutines around awaits, workers on threads, slow or leaving clients | log replays to the graph, clients converge, ids hold |
| bindings, differentiable layer, tuning numerics, web UI | glue, numeric or view | | | covered by the repository's own tests |

Messages between components: the control thread calls `compile` and `postParam`
on the executor; the audio thread calls `process`, which calls every node;
`MultiSourceManager::process` drains its rings, calls the executor and fills its output
rings; `LiveMultiSource::pump` pulls its sources, calls the executor and pushes into
the recorder; a backend calls back from the device's IO thread and from the HAL's
notification thread. Nothing signals back to the control thread but counters and flags.
The workbench server is a process of its own kind: one event loop, one lock, worker threads
for the agent and the tuner.

## Plan

1. `RingBuffer`, with `SpscQueue` as its abstract specification; everything else
   uses the queue. **done, checked and proved**
2. `GraphExecutor`: swap, reclaim, commands. **done, checked and proved**
3. `WavRecorder` over the abstract queue. **done, checked and proved but for liveness**
4. `GraphSchedule`: the algorithms of `build()` and `validate()`. **done, checked and proved**
5. `ResamplingSource`: the per-channel rings of a stream and their alignment. **done,
   checked and proved**
6. `LiveMultiSource`: the recording tap. **done, checked and proved**
7. `DeviceBackend`: open, start, stop, disconnect, re-open, over the objects of the HAL.
   **done, checked and proved but for liveness**
8. `MultiSource`: manager, master-clock adapter, cross-clock bridge and live pump. **done, checked and
   proved**
9. `SignalNodes`: the node library in a compiled graph. **done, checked and proved but for the
   blocks**
10. `WavFile`: files and the offline backend. **done, checked and proved**
11. `GraphSession` and `Workbench`: log, undo and redo; server coroutines. **done, checked and
    proved**

What is left is the proof of `BlocksDoNotShow` of `SignalNodes`.

## Modules

### RingBuffer, SpscQueue

`RingBuffer` follows `ring_buffer.hpp` at the grain of one atomic access or one
slot copy. `ppc`/`pW`/`pSeen`/`pN` are the locals of `write()`, `cpc`/`cR`/`cSeen`/`dst`
those of `read()`. An atomic is not a plain variable: `wStores` and `rStores` hold the
stores the other side may still load, so an acquire load may return an old one, as
the C++ memory model allows, but never one older than it has seen. The k-th element
ever accepted is the number k; with that, order, loss and duplication are visible in
the data. `SpscQueue` is the promise, a bounded FIFO that takes and gives batches
atomically; the refinement maps the queue's content to the published, unreleased slots.

### GraphExecutor

A schedule is the number of the `compile()` that built it. `cpc` walks the control
thread through `compile()`: `CompileBegin` (build), `PrepareNode` per node, `Install`
(the exchange), `Retire` (the stamp), `ReclaimBegin`, `SweepFree`/`SweepKeep`, `CompileEnd`.
`apc` walks the audio thread through `process()`: `BlockBegin` (the acquire load),
`Drain` once per command, `DrainEnd`, `BlockEnd` (the counter). Commands travel
through the abstract queue. Node instances are pairs of a Graph and an id, because ids
are per Graph and a rebuilt Graph has the same ids for other nodes. `DestroyGraph` is
the owner's side of the documented rule that the Graph of an installed schedule must
outlive its use; the model lets the owner go exactly as far as `pendingRetired()` and the last
`compile()` tell it. `PostParam` asks nothing of the id it is given, as the code does not. A command is
the node's id and its number; the ghost `log` keeps which schedule was installed when it was posted and
which one the block ran on that took it, `cleared` what had been taken when `prepare()` last set a node
back. `BlockReflectsCommands` says that a block renders with every command for its nodes accepted before
it began, but for those that `Missed` names. The two counters and the pointer are sequentially
consistent here.

### WavRecorder

The ring is the abstract queue of samples, with the room the power-of-two rounding
gives it. `cpc` is the control thread in `start()` and `stop()`, `ppc` the audio thread in
`pushBlock()`, `wpc` the writer loop, which loads the stop flag before the ring's size.
`PushStale` is a block of the last recording that is still in `pushBlock()` when `start()` destroys the
ring and clears the scratch under it. Any part of what it brings may be spoilt by then (`Spoilt`, `Garbage`), and it
reaches the new ring, or freed memory that the new ring or the writer's buffer has got; `stray` remembers that it
happened. `written` is what `write()` was given, `file` what the disk has of it: `WriterWrite` may find the disk
full, after which nothing more is kept and `framesWritten_` goes on.

### GraphSchedule

The state is a graph, the actions its edits. A loop of `build()` is a function of the rounds done:
`Kahn` takes a node from the stack a round, `OutWidth` and `OutLat` go along its order; `CompFrames`
is what they leave to delay. The properties compare them with reference definitions (`Acyclic`, `WaysTo`)
that share nothing with the loops. `HasCycle` is the three-colour search of `validate()`: `hasCycleFrom()`
calls itself, so `Search` is the function of how deep its calls may nest, which is as many slots as there are.
An instance says which graphs the edits begin with (`Wirings`), for the run all that an edge at most per
input port makes; the edits then add what `validate()` must refuse.

### ResamplingSource

One ring per channel, each the abstract queue, with room for the longest push. `ppc` and
`pch` walk the device's thread through `push()`, a channel a step; `cpc` and `cch` walk the
engine's through `pull()`: `PullBegin` decides how much to stage from the first ring, `PullRead`
reads a channel, `Resample` consumes and shifts. Servo and interpolation are whatever they
ask for (`Wants`) and consume. `Stale` stands for the samples that a short read leaves in
the staging buffer. `lag` counts the frames by which the reads of a channel trail the first,
`meetings` remembers whether a push and a pull have ever overlapped.

### LiveMultiSource

The recorder is a number and a stage of its life. `call` is the control thread in
`recordToWav()` and `stopRecording()`, `pump` the master device's in `pump()`, which tests the
flag, follows the pointer and pushes in three steps. `straggler` marks a block whose
test came before a `stopRecording()`, `span` the recording that was on since the block
began. What the recorder does with a block is `WavRecorder`'s.

### DeviceBackend

The object (`b`), the HAL (`hal`, external) and three threads. `open()` and the destructor are
lists of steps (`OutputOpen`, `DuplexClose`, ...), one per call into the HAL, so that a block, a
death or the listener comes in between; a step that fails empties the list, as the early return
does. `BlockBegin` computes what the IOProc moves from the members `open()` left and the format
the device has now. `CheckAlive` and `notifyDisconnect` are the two halves of
`handleDeviceAliveChanged()`. `hist` remembers what the properties let off: an `open()` of a
backend that was running (`live`, `stale`) or that held something (`held`), and a notification of
the device before that was past its check when `open()` cleared the flag (`overlap`).
A notification that is still under way when the destructor has run reads an object that is gone: it may
find anything, and what it calls is not looked at.

### MultiSource

A thread is a list of ring operations (`todo`), one channel each, because every call of the manager
walks its channels; `Begin` lets a thread enter a call with a block size, `Do` takes the next
operation. `MasterClockAdapter`, `MasterCb`/`OutputCb` (the two halves of the bridge) and `pump` are the
lists of the three callbacks, in the code's order. A sample is the number of the frame the device
captured, so what a sink hears tells order, loss and repetition. `Recompile` takes a sink away, after
which its output buffer keeps its last block. `Pull` and `Take` are `ResamplingSource::pull()` at a ratio of one: the
first channel's ring says how much is `Asked` of all of them, and where a ring has less the staging
buffer (`stage`) keeps what it held, which is played again (`Stage`, `Pulled`). `hist.short` names the channels this
has happened to. `hist.overlap` remembers which streams were
pushed and drained, or filled and popped, at once: the bridge's and the pump's other rings do not count.

### SignalNodes

A node is a record: how it reads channels, the width it announces, its latency, what it holds and its
parameters, one operator per class of the library, with the constructor's arguments. `Compile` is
`compile()` with `prepare()` on every node and the compensation of `build()`; `Process` renders one
callback in blocks of at most `maxBlock` through two branches, a join and a sink. A sample is the set
of input samples it is made of. `IsNode` is what the constructors make, and what `SetupsAssumption` and
`ClassAssumption` ask of a node. `Expected` computes the same set from the wiring alone, going back from
the output channel through routes and delays, and shares no loop with `Process`. The delays it goes by are those that
are documented, and an echo's mix is all dry, all wet or between (`Blend`).

### WavFile

Two files, a reader, a writer and `OfflineBackend::start()` as a loop of `Render` steps. `Write` may find the
disk full, after which nothing more is kept while the byte count goes on; `Crash` ends the program
anywhere; `Reuse` renders the output of one backend with the next. `Round` and
`Clamped` are the encoder's arithmetic. A sample is a multiple of a part of a 16-bit step, so a float input lies between
steps and its first encoding has a rounding error of its own. A crash can only end a rendering with its
process: `start()` runs to its end without throwing, so no destructor finalizes half a rendering.

### GraphSession, Workbench

`GraphSession` has the actions, `Apply`, `Undo` (a replay of a shorter log) and `Redo`, and the document
with its two conversions. `Workbench` runs one coroutine per client over it. A coroutine changes place
only where the code awaits: `loop` names the one that goes on because it has not come to an await.
The lock is the queue of those who asked for it. `Send` takes what a transport can take at once and waits if
the client is `Slow`; `Deliver` and `SendRaises` are what happens to it. What need not wait is over before
anything else happens (`Settled`), a send to a client that has gone while others still wait for it
included: that one raises at once, ahead of them. A worker (`WorkEdit`) runs
at any time, also between the reading of the nodes (`ReadNodes`) and of the edges (`ReadEdges`) of a document,
because these are read outside the lock. The order in which the set of clients is iterated is
external. It is one and the same for up to four sockets: a CPython set moves its elements only when the fifth
is added, and `SocketsAssumption` stops before that. What a worker raises is an error reply if the code
catches it (`TuneRaises`) and the end of the connection if not (`WorkRaises`, `SendRaises`, `ReadRaises`); a send that
fails before the `try` of `ws_endpoint` leaves its socket a member.

## Runs

All runs but that of the tap say `CHECK_DEADLOCK FALSE`: the bounds on frames, blocks,
calls and messages stop every behaviour in the end, and the threads may stop too.
Type invariants are part of a property where they are not proved.

| Run | Instance | Shows |
|---|---|---|
| `ringbuffer` | 4 slots, calls of 1, 2 and 4 elements, 9 offered | `NoSlotRace`, `ShortWriteFilledUp`, `SizeIsReadable`, `ImplementsQueue` |
| `executor` | 2 ids, 2 Graphs, 3 schedules, queue of 2, 2 blocks | `NoUseAfterFree`, `SchedulesAccounted`, `NodesOutliveBlocks`, `BlockReflectsCommands`, `CommandsApplyInOrder` |
| `schedule` | 5 nodes, every wiring, then edits | `GraphSound`, `ScheduleInOrder`, `BranchesInPhase`, `LatencyIsLongest` |
| `recorder` | stereo, ring of 7 samples, blocks of 1 and 2 frames, 6 frames, 2 recordings, a disk that may fill up | `NothingLost`, `FinalDrain`, `StopReturns` |
| `resampling` | 2 channels, rings of 3, staging of 4, pushes of 1 and 2, 7 frames | `LeadIntact`, `LagWithinOnePush` |
| `tap` | 3 recorders, any number of blocks | `SafeUnlessStopped`, `NothingMissed` |
| `backend` | 3 classes, 2 devices, layouts of one buffer of 2, two of 1, and 2 and 1 channels, 2 block sizes, 2 opens | `HalInStep`, `StopSilences`, `DisconnectIsReal`, `BlocksFit`, `StartBegins`, `DeathReported` |
| `multisource` | 3 wirings, 2 streams of 2 channels, devices of 1 and of 3, rings of 3 frames, blocks of 2 (and 3 at the clock), 2 calls per thread | `StreamsInStep`, `SlipWithinOneBlock`, `HeardAsCaptured` |
| `nodes` | 11 wirings, `numChannels` 2, `maxBlock` 2, callbacks of 1 and 3 frames, 5 frames, 1 edit, 2 compiles, 2 sample rates | `DelayInsideRing`, `NothingStale`, `BlocksDoNotShow`, `InPhase` |
| `nodes_lookahead` | same | violation of `CompressorDelaysByLookahead` |
| `wav` | 3 inputs of 1 to 3 stereo frames, full scale of 8 steps of 4 parts, 18 for 2^32, blocks of 1 and 2, 4 copies | `FramesAreBacked`, `FileIsTheRendering`, `CopiesStayClose` |
| `workbench` | 3 clients (one slow, two leaving, one joining), one message each, 2 edits per worker | `LogRebuildsGraph`, `SavedIsLoaded`, `ClientsConverge`, `AgentIdsHold` |

Why the bounds are enough. *Ring*: nine elements wrap three usable slots three times
and every cursor meets every other; a call of 4 is larger than the ring. *Executor*: three
schedules are what can be alive at once (installed, rendering, waiting), two blocks
separate a schedule retired before a block from one retired during it, two commands fill
the queue. *Schedule*: a source, a node with latency and a down-mix, two mixers and a sink
give a fan-in behind a fan-in; the added edges are the ones `validate()` must refuse.
*Recorder*: six frames fill the ring, which ends within a frame, drain it and leave some
for a second recording, which a block of the first may reach. *Resampling*: seven frames overflow rings of three, staging of four
is shorter than what two pulls want, and wants of 1 and 3 leave a tail or read short.
*Tap*: the third recorder is made while the second is stopped and the first destroyed.
*Backend*: the second open finds whatever the first left, on the same or the other device;
interleaved, planar and aggregate layouts each take a path of their own in the IOProc. `BlocksFit` lets
one thing off by name: a device whose first buffer, by which frames are counted, is wider than another
and whose block size has changed since `open()`.
*MultiSource*: the clock device is narrower or wider than the manager, a block of 3 exceeds `maxBlock` and
two blocks of 2 overflow a ring of 3, so losses happen between the channels of one call. *Nodes*: every class
appears in a wiring with a route, width or delay that tells it apart; a callback of 3 is cut in
two, five frames pass the longest delay, the second compile may change the sample rate.
*WavFile*: one wrap of the size field, a file shorter than a block, samples between steps, at full scale and
beyond, four copies to add up the error of.
*Workbench*: an edit, a load or a sync, and a chat meet in every order at the lock, while
they wait to send, and while a document is read; the first session has a removed node, a
parallel edge and something to redo; the edit that removes node 1 is refused unless a load has
numbered the nodes anew.

### Fairness

Two runs have liveness properties. In `recorder`, `WF(Writer)`: the writer thread runs until it
returns (`wav_recorder.cpp:49-73`), it is an operating-system thread that only sleeps; and
`WF(Stopping)`: a control thread inside `stop()` goes on. In `backend`, `WF(CheckAlive)` and
`WF(notifyDisconnect)`: the HAL's notification thread delivers a notification it has and the
listener takes no lock. Nobody is assumed to call anything.

### Where code and documentation disagree

`nodes_lookahead` shows one as a violation: `compressor_node.hpp:3-6` says that the signal is
delayed by the look-ahead and that `latencyFrames()` reports it, but the ring has one entry
more (`:73`) and is read before it is written at the same place (`:109-110`), so the
signal comes one frame later than the branches compensated for it.

Others met while modelling. The models contain each, and the properties say how far it goes:

* `node.hpp:39` says `prepare()` is "Called once before processing starts";
  `graph_executor.cpp:226` calls it on every live node of the graph being compiled, also when the
  audio thread is rendering it (`PrepareNode` while `apc = "render"`).
* `graph_executor.hpp:68-71` promises a parameter change at the top of the next block and names
  the full queue as the only loss. A block that loaded the old schedule drains commands
  posted after `compile()` returned (`graph_executor.cpp:296-300`) and discards those for ids it does
  not have; the next block renders without them. `BlockReflectsCommands` names exactly these
  (`Missed`): without that name it is violated.
* `wav_recorder.hpp:12` says a full ring drops blocks. `RingBuffer` holds 2^k - 1 samples and takes
  what fits, so with two channels a frame is cut and the next block starts on the wrong
  channel; `NothingLost` promises whole frames only while nothing overflowed.
* `wav_recorder.hpp:55` calls `framesWritten()` the "Frames actually written to the file". On a full disk it counts what
  the file has not got (`wav_recorder.cpp:70-71`). `NothingLost` says of the file that it is what the writer was
  given or its beginning, and `FinalDrain` speaks of what was handed to the file.
* `start()` may follow a `stop()` while a block is still in `pushBlock()`; it destroys the ring that the block is about to write
  to and clears its scratch (`wav_recorder.cpp:20-22`). Nothing is claimed of the order of a recording this
  happened to, as `stray` says.
* `resampling_source.hpp:51-53` says that `pull()` fills an underrun with silence. It does so by the count of
  the first channel; another that has less plays what its staging buffer held before (`resampling_source.cpp:76-77`).
  `HeardAsCaptured` leaves out the channels after the first that a pull found short (`hist.short`).
* `delay_node.hpp:20` calls the parameter "delay length in frames", from 0 (`:33`). The slot is read before it is
  written (`:78-86`), so a delay of 0 comes out as late as the ring is long. `BlocksDoNotShow` measures by the documented
  delay and lets an audible 0 off by name (`Undelayed`); the wiring `same` violates it otherwise.
* `resampling_source.cpp:66-68` says the rings stay in lock-step because `push()` writes all channels
  together. It writes them in turn, on another thread: a `pull()` in between reads a block of the
  first channel and none of the second. `LeadIntact` promises lock-step without an overlap,
  `LagWithinOnePush` bounds the lag with one. The manager's rings have the same
  shape (`StreamsInStep`, `SlipWithinOneBlock`).
* `live_multi_source.hpp:213-215` says a recorder is destroyed only with its owner.
  `recordToWav()` destroys the one before (`:114`), and a block that tested `recording_` before the
  stop may still be about to use it; `SafeUnlessStopped` names exactly that block.
* A backend that is opened again while it runs keeps `running_`: `start()` then answers
  true for an IOProc nobody started, and `stop()` stops the new one only (`StartBegins`, `StopSilences`).
* A chat edits the session that was there when it was received (`app.py:122`); after a load nobody sees those
  edits. An author who leaves before the reply, or an agent that raises, ends the coroutine before
  the broadcast (`app.py:169-170`, `:123`), and the other clients keep the old document. A
  broadcast that waits for a client that goes may be overtaken by a newer one. `ClientsConverge` lets these off by name.
* `app.py:137-143` answers some exceptions of the tuner with an error; a node that it has no counterpart of raises another
  (`diff/nodes.py:60`) and ends the connection. Five and more sockets may be iterated in
  different orders by two broadcasts that are under way at once (`app.py:40`), so the older one may then come last; the
  model stops at four.

## Proofs

`RingBufferProofs` proves every property of the `ringbuffer` run, type correctness and that
elements are read in order (`ReadsInOrder`), for every capacity,
every set of batch sizes and every bound. The inductive invariant says where each cursor
stands as a stream position (`Positions`), which element each slot holds (`Contents`), what
the two threads have in hand (`ProducerInv`, `ConsumerInv`, `InFlight`) and that every store still
visible is between what the other side has seen and what is published (`Ordered`).
Stated properties alone are not inductive: that no slot is shared follows from both
sides being within one capacity of each other, which needs the positions.

The rest of `RingBufferProofs` is about `MultiSource`, the streams of such rings: it proves
`SlipWithinOneBlock`, `StreamsInStep`, `HeardAsCaptured` and type correctness, in every wiring, for any number of channels, any
blocks and rings, any devices and any graphs. A call walks the channels of a stream
in order (`Walks`, which every call of every wiring does, `ProgramFits`), and each walk has one thread (`Owner`), so a
number says how far it has come (`At`). Neither property is inductive, as they speak of rings at rest. For the
slip: the levels of two rings, but for the block that a push under way has brought to the one
(`Brought`) and a drain has taken from it (`Removed`), differ by one block at most; a ring that
refuses or lacks part of a block is as full or as empty as a ring can be, so it moves towards the others (`SlipWrite`,
`SlipRead`). For the step: as long as no overlap was noted one of the two calls is at rest (`Alone`), and
the channels it has yet to come to will be like those behind it (`SameCounts`, `SameFrames`); a second call that
starts to walk past the first channel notes the overlap, on either side.

`HeardAsCaptured` says what was heard, so its invariant is about all frames that will be. What a call has left to do is
the end of it (`Agenda`): between two operations one knows which buffers hold this block and which the
one before. The frames of a channel are then on one way of seven stages, from those to come, the block
captured and not pushed, the ring, the input buffer, the output buffer and its ring to what the sink heard last (`Flow`),
and all of a stage are earlier than all of the stage before it (`Sorted`). An operation moves frames from one stage to a
later one and leaves only later frames behind (`ChainMoves`, `FlowStep`); a call that begins makes new
ones at the start, later than any (`ChainGrows`). Stream and sink are joined by the graph, which may lose
the sink of a stream between two blocks; from then on the buffer of that output is pushed again, and with
a clock's block longer than the scratch the bridge sends memory nobody wrote: with either nothing is claimed, nor of a channel that a pull found short (`Fine`), as in the property. The
order is kept for each channel by itself (`Sorted`), so one that was short does not spoil the others. The
second device of the bridge is at the end of a way of its own, four stages from what the clock heard (`Crossing`). For the
clock that hears itself, each place of its own way holds the block it captured, whole, or nothing (`Own`). This
needs rings of at least one block, which is the hypothesis of `SinksHearWhatWasCaptured`:
`MultiSourceManager` gives its rings `maxBlock` frames unless it is told otherwise
(`multi_source_manager.cpp:15`) and every caller in the repository asks for more; it does not refuse less. The order needs no such hypothesis (`SinksHearInOrder`).

`GraphExecutorProofs` proves every property of the `executor` run and type correctness, for any ids, queue
and bounds. The argument: the schedule a block
holds is installed, or in `compile()`'s hands between the exchange and the stamp, or in
`retired_` with a stamp no smaller than the number of blocks finished (`Located`,
`Stamped`); the sweep frees only smaller stamps, and what it compares with never exceeds
that number. A new schedule and the installed one are nowhere else (`Fresh`, `Installed`), `retired_` has
none twice and none that is freed (`Apart`), so the places can be counted (`Complete`, `Counted`), which is
`SchedulesAccounted`; what the sweep has passed it could not free (`Swept`). Commands are numbered in the
order of the queue (`Numbered`), so no instance has applied one newer than any that waits. A command that was taken
holds at every node of the schedule it was taken on, unless it was undone (`Applied`). For a node the taking schedule
did not have, schedules are ordered in time: blocks and posts see them as they were built (`InTime`), and a node that two of them
share is in all between (`History`); so a node the block plays was either not there yet when the command was posted,
or the block that took it had begun before the swap, which is `Missed`.

`GraphScheduleProofs` proves `GraphSound`, `ScheduleInOrder`, `BranchesInPhase` and `LatencyIsLongest`, for
any kinds of nodes and any graph that edits lead to. Its loops are functions, so what they compute is
proved by induction over their rounds (`Rounds`, `LoopIn`). The search for a cycle is right as long as no
more nodes are white than calls may still nest (`RightTo`): there is a way to a node that is searched from all
that is gray, so an edge back to one of these is a cycle, as what it reaches has no first node (`WayBack`); no edge
leads out of what is black, and it has no cycle (`Searched`). In a round of Kahn's algorithm every node has as
many edges counted as lead to it from nodes not yet in order, and one without is on the stack or in the
order, once (`Sound`); what drives a node in the order is in front of it (`InOrder`). A round per slot
empties the stack, as the order cannot be longer; the nodes left out then have all an edge from each
other, which is a cycle. A table filled in along that order satisfies its equation at every node when the loop ends,
as nothing that drives a node is filled in after it (`Settles`). By induction along the order all ways
to a node take as long as the latest of its inputs, and one of them without being delayed (`Phased`).

The end of `GraphScheduleProofs` is about `SignalNodes`, the nodes that such a graph plays: it proves `DelayInsideRing`,
`NothingStale`, `InPhase` and type correctness, for any node classes, branches, devices, rates and blocks. The
invariant (`NodesInv`) is that every ring has its length and holds samples of the device, never what a buffer was
left with, and that a delay is shorter than the ring of the rate compiled for (`Rings`, `Parameters`). A
node keeps that because what it reads for a channel is in its input whenever the channel is one it announces
(`ReadsIn`), through loops over nodes and frames that are functions like those of `build()` (`PlanesAre`, `EchoIs`).
`InPhase` speaks of what is heard and is not inductive: what is held at a node is as late as the latencies of
the nodes before it, what waits in a delay line as late as its branch (`RingsInStep`). A ring in place delays
by its length (`Shifts`), so a block leaves the k-th node with the latencies of the first k (`PlanesInStep`), and
both branches reach the join with `latencyFrames()` (`SinkInStep`). `compile()` clears all of it.

`WavRecorderProofs` proves `NothingLost`, `FinalDrain` and type correctness, for any number of channels and any
ring, chunk and block. What is accepted only moves along from the ring to the drain to what is handed to the file, and
a block is later than all of it (`Orderly`) unless it is of a recording before (`Straggler`); the file keeps a
beginning of it, all of it while the disk has room (`Kept`); the writer takes whole frames (`WholeMoves`), and as
long as nothing was refused every block went in whole (`Unbroken`), so the file ends with a frame.
For the drain: after `stop()` has disarmed only late blocks are in the air (`Airborne`), and a look at the
ring that finds less than a frame after the request is followed by late samples only (`LastLook`); this
needs the writer to load the request before the size, as it does.

`ResamplingSourceProofs` proves type correctness, `LagWithinOnePush` and `LeadIntact`, for any number of
channels. For the lag the strengthening is a balance (`Balance`): what a ring holds more than the
first is what was read from it less, but for the part of the block on its way; and reads
trail by one push at most, but for the read under way. The bound alone is not
inductive, because a short read adds what the ring lacked, which only the balance relates
to the push that is half way. `StageInv` says the same of the staging buffers. For `LeadIntact`, what is left
of the first channel is in order and adds up with what was consumed and refused (`LeadInv`), and
the rings as they will be after the call under way (`RingAfter`, `StageAfter`) are equal as long as no
push has met a pull (`Together`). The rings as they are differ in the middle of a call, so equality
itself is not inductive.

`WavRecorderProofs` also proves all properties of the `tap` run, for any number of recordings: while the flag is set no call is under way (`Published`), so a block that has seen it and
was not overtaken by a stop is in the recording that is on (`InTap`, `Spans`).

`DeviceBackendProofs` proves every safety property of the `backend` run for any
devices, any layouts of buffers and any number of opens. What is left of the call in progress tells how far it is
(`Phase`), and each conjunct of the invariant is a fact about object and HAL that holds through
some phases: deaf from `unlisten` to `listen` (`Listening`), without IOProc and aggregate until the
steps that make them (`Holding`), silent while `open()` runs (`Playing`, `Sounding`), truthful once the
flag has been cleared (`Reported`). The stated properties speak of a call that is over and are
not inductive: `open()` changes the device first and the listener last. For `BlocksFit` the object's
channels and frames are those of the format it saw last (`Known`), and the channels of a layout are a
fold that is unfolded along the sequence of its buffers.

`WavFileProofs` proves every property of the `wav` run for any number of channels, any size of
the header's field and any input. While a rendering is under way the header has no size and,
until the stream fails, the bytes counted are those of the body (`Counted`); so what `finalize()`
patches in is there (`Backed`). That the blocks of the loop join to one rendering is
`RenderingJoins`. A copy is the file before it encoded sample by sample (`Copying`); the first encoding moves a
sample by up to a step and a half, up to half of full scale by up to a step (`FirstClose`); from then on it is on a
step, where an encoding moves it by one step at most and up to half of full scale not at all (`StepsAgain`,
`NearStill`), so the distance to the first input grows by a step per 16-bit file (`Sourced`).

`WorkbenchProofs` proves every property of the `workbench` run and type correctness, for up to four clients and any
first log, documents and messages. Four is what makes the order of a broadcast one order; the steps themselves
do not count clients. `Without`, `Replay` and `FromDocument` are folds; the first part of the module shows
that such a fold is a function of the sequence, with its value on an empty one and on one longer by an
element, and the rest is induction along sequences. `LogRebuildsGraph` is not inductive: it says nothing of
the ids of nodes that are undone, which a redo brings back. A session is therefore taken as its log
followed by what can be redone (`Whole`), of which undo and redo only move the border; the whole
replays without an error and every node of it is known by its id (`Named`), so the same holds of every
beginning of it, because slots are only ever added (`Sound`). That holds of a session loaded from any document too
(`Loading`). `AgentIdsHold` is about the server: the lock is a queue of distinct coroutines that wait or
work, and one that works is its head (`LocksOK`); a coroutine has at most one message on its way, so a
delivery wakes its sender and never one that waits or works (`TidyOK`); so nobody but the agent edits
a session while it works, and its own edits keep the id of its last node (`AgentsOK`). `SavedIsLoaded` needs three things of a session:
its records are those of its live nodes, their kinds are known, and no edge hangs on a node that is gone
(`Tied`, which every action keeps, so every replay has it). The ids of a document then increase, a load
gives its k-th node the id k, and `Rank`, which counts the ids up to one, is that same k (`DocumentClimbs`,
`RankIs`); the nodes are filled in one after another (`NodesFilled`), then the edges are wired between them
(`EdgesWired`), none of them refused.

`ClientsConverge` says nothing until all is quiet, so its invariant (`CastInv`) is about the documents that
are still under way. Every broadcast goes round the clients in one order (`TripOK`), and a transport takes what it
was sent in turn; so of two broadcasts the one behind, by the client it is at or in the queue there
(`Behind`), has still to reach every client that the other has (`FlowOK`). To keep this, a broadcast must not
pass one in front of it: it moves only when its message is the first in that queue, or does not wait at all, and
then no other such message is about (`OneOK`, `LoopOK`) and the rest wait at clients that are not forgotten
(`MetOK`); where one waits at a client that is forgotten, `overtake` is noted and nothing more is claimed. A
document is read in two halves without an await between them, so a new broadcast is behind every other and
has today's document. Hence, once every change has been read, the last of the broadcasts has today's
document (`LastOK`), and a client that none has still to reach shows it (`ShownOK`), by the broadcast that
was there last, or will by its greeting if no broadcast comes after that (`GreetOK`). A change that was not read is owed by a coroutine
that has not ended (`DirtyOK`), so it cannot be left when all is quiet.

Assumptions are the named `ASSUME`s of the modules: sizes are natural numbers, the ring
has a slot, a stream has a channel, a graph has an input or none for each
sink, a ring has room for the longest push, names of the HAL are not
reused, a sample is a multiple of some part of a step, the server has seen up to four sockets, a node is one that a constructor of the library makes, a buffer of a device has a channel, the log the server is started
with replays and stamps its adds in order. TLC evaluates all of them in the runs.

Model-checked only: `BlocksDoNotShow` of `SignalNodes`, whose reference goes back through every route and echo at once;
`StopReturns` and `DeathReported`, which are liveness under fairness. The library's induction theorems take an operator as a parameter and cannot
be cited, so induction here goes over a set (`Induction`, `SeqInduction`, from the least element of a set of
naturals).

## Not modelled

* Numerics: the filters' coefficients and tails, the shapes of the non-linear nodes (they are modelled
  by which samples they mix and when), the resampler's kernel, the servo of the drift compensator, the
  tuner's gradient descent and the differentiable layer. Nothing in them is a matter of order or state
  that the models above do not have, and TLC has no reals.
* `OfflineBackend` with one path for input and output, the RIFF chunk size (readers here go by the
  data chunk), headers other than the writer's own.
* The process tap (`.mm`), device enumeration and the example programs: calls into the system without
  state of their own.
* The Python bindings, which forward; the web UI; the HTTP GET endpoints and the agent's tools that only read.
* In the workbench: positions, ports and constructor arguments (part of a node's record), messages of
  an unknown type.
* The executor's reordering under weak memory (`fetch_add(release)` against the later load in `Retire`).
