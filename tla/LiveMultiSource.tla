---------------------------- MODULE LiveMultiSource ----------------------------
(***************************************************************************)
(* The recording tap of graph::LiveMultiSource                             *)
(* (include/aiudio/graph/live_multi_source.hpp): the control thread makes, *)
(* starts, stops and replaces the recorder, while pump(), on the thread of *)
(* the master device, tests recording_, follows recorder_ and pushes its   *)
(* block.  Recorders are numbered as they are made; number 0 is the null   *)
(* pointer.  What a recorder does with a block is module WavRecorder's     *)
(* concern; here it is armed or it is not, and it exists or it does not.   *)
(***************************************************************************)
EXTENDS Integers

CONSTANT MaxRecorders  \* bound: recorders made

ASSUME MaxRecordersAssumption == MaxRecorders \in Nat

VARIABLES
  recorder,      \* recorder_
  recording,     \* recording_
  life,          \* "unmade", "made" (active_ false), "armed" (active_ true), "stopped" or "destroyed"
  made,          \* recorders made
  call,           \* control thread: in recordToWav() or stopRecording()
  pump, held,     \* master thread in pump(), the recorder it has followed the pointer to
  span,          \* ghost: the recording that is on since the block began, 0 if none
  took,          \* ghost: the recorder that took the block, 0 if none
  straggler      \* ghost: "yes" if recording_ was cleared after the block had tested it

controlVars == <<recorder, recording, life, made, call>>
pumpVars == <<pump, held, took>>
tapVars == <<controlVars, pumpVars, span, straggler>>

Recorders == 1 .. MaxRecorders
Exists(r) == r \in Recorders /\ life[r] \in {"made", "armed", "stopped"}

TapInit ==
  /\ recorder = 0 /\ recording = 0 /\ life = [r \in Recorders |-> "unmade"] /\ made = 0
  /\ call = "idle" /\ pump = "idle" /\ held = 0
  /\ span = 0 /\ took = 0 /\ straggler = "no"

-----------------------------------------------------------------------------
(* recordToWav().                                                          *)

\* Mutant: a recording that is on does not keep the next one from starting.
BugNoGuard == call = "idle" /\ made < MaxRecorders

\* Only one recording at a time: otherwise the call returns false.
MayRecord == call = "idle" /\ recording = 0 /\ made < MaxRecorders

\* The new recorder takes the place of the one before, which is destroyed.
Replaced(r) == [q \in Recorders |-> IF q = made + 1 THEN "made"
                                    ELSE IF q = r THEN "destroyed" ELSE life[q]]

RecordMake ==
  /\ MayRecord
  /\ recorder' = made + 1 /\ made' = made + 1 /\ life' = Replaced(recorder)
  /\ call' = "start"
  /\ UNCHANGED <<recording, pumpVars, span, straggler>>

\* The file cannot be opened: the new recorder goes.
RecordFail ==
  /\ call = "start"
  /\ life' = [life EXCEPT ![recorder] = "destroyed"] /\ recorder' = 0
  /\ call' = "idle"
  /\ UNCHANGED <<recording, made, pumpVars, span, straggler>>

\* Mutant: a recorder is published that was not started.
BugPublishFirst ==
  /\ call = "start" /\ recording' = 1 /\ call' = "publish"
  /\ UNCHANGED <<recorder, life, made, pumpVars, span, straggler>>

RecordStart ==
  /\ call = "start"
  /\ life' = [life EXCEPT ![recorder] = "armed"] /\ call' = "publish"
  /\ UNCHANGED <<recorder, recording, made, pumpVars, span, straggler>>

RecordPublish ==
  /\ call = "publish" /\ recording' = 1 /\ call' = "idle"
  /\ UNCHANGED <<recorder, life, made, pumpVars, span, straggler>>

-----------------------------------------------------------------------------
(* stopRecording().                                                        *)

StopClear ==
  /\ call = "idle" /\ recording' = 0
  /\ call' = IF recorder = 0 THEN "idle" ELSE "stop"
  /\ span' = 0
  /\ straggler' = IF pump \in {"follow", "push"} THEN "yes" ELSE straggler
  /\ UNCHANGED <<recorder, life, made, pumpVars>>

StopRecorder ==
  /\ call = "stop"
  /\ life' = [life EXCEPT ![recorder] = "stopped"] /\ call' = "idle"
  /\ UNCHANGED <<recorder, recording, made, pumpVars, span, straggler>>

-----------------------------------------------------------------------------
(* pump(), on the master device's thread.                                  *)

\* Sources are pulled, the graph is rendered and its output handed to the device.
PumpBegin ==
  /\ pump = "idle" /\ pump' = "test" /\ held' = 0 /\ took' = 0
  /\ span' = IF recording = 1 /\ call = "idle" THEN recorder ELSE 0
  /\ straggler' = "no"
  /\ UNCHANGED controlVars

TapTest ==
  /\ pump = "test" /\ pump' = IF recording = 1 THEN "follow" ELSE "end"
  /\ UNCHANGED <<controlVars, held, took, span, straggler>>

TapFollow ==
  /\ pump = "follow" /\ held' = recorder /\ pump' = "push"
  /\ UNCHANGED <<controlVars, took, span, straggler>>

\* pushBlock() takes the block of an armed recorder and is a no-op on another.
TapPush ==
  /\ pump = "push" /\ pump' = "end"
  /\ took' = IF Exists(held) /\ life[held] = "armed" THEN held ELSE 0
  /\ UNCHANGED <<controlVars, held, span, straggler>>

PumpEnd ==
  /\ pump = "end" /\ pump' = "idle"
  /\ UNCHANGED <<controlVars, held, took, span, straggler>>

-----------------------------------------------------------------------------
CallStep == RecordMake \/ RecordFail \/ RecordStart \/ RecordPublish \/ StopClear \/ StopRecorder
PumpStep == PumpBegin \/ TapTest \/ TapFollow \/ TapPush \/ PumpEnd

TapNext == CallStep \/ PumpStep

TapSpec == TapInit /\ [][TapNext]_tapVars

-----------------------------------------------------------------------------
(* Properties.                                                             *)

\* Every variable has its type, and the one recorder that exists is the one pointed to.
TapTypeOK ==
  /\ recorder \in 0 .. MaxRecorders /\ recording \in {0, 1} /\ made \in 0 .. MaxRecorders
  /\ life \in [Recorders -> {"unmade", "made", "armed", "stopped", "destroyed"}]
  /\ call \in {"idle", "start", "publish", "stop"}
  /\ pump \in {"idle", "test", "follow", "push", "end"} /\ held \in 0 .. MaxRecorders
  /\ span \in 0 .. MaxRecorders /\ took \in 0 .. MaxRecorders /\ straggler \in {"no", "yes"}
  /\ \A r \in Recorders : Exists(r) <=> r = recorder

\* A block is safe in the tap unless stopRecording() came after its test of recording_:
\* what it follows the pointer to exists, and is a recorder that was started.
SafeUnlessStopped ==
  pump = "push" /\ straggler = "no" => Exists(held) /\ life[held] = "armed"

\* A block that began and ended while a recording was on is in that recording.
NothingMissed == pump = "end" /\ span # 0 => took = span

=============================================================================
