--------------------------- MODULE DeviceBackend ---------------------------
(***************************************************************************)
(* The Core Audio device backends: CoreAudioBackend ("output"),            *)
(* CoreAudioInputBackend ("input") and CoreAudioDuplexBackend ("duplex").  *)
(*                                                                         *)
(* Three threads meet in one object without a lock: the control thread,    *)
(* which opens, starts, stops and destroys it; the device's IO thread,     *)
(* which runs the IOProc; and the HAL's notification thread, which reports *)
(* a device that died.  open() and the destructor are lists of steps, one  *)
(* per call into the HAL, so that the other threads run in between; any    *)
(* call into the HAL may fail.                                             *)
(*                                                                         *)
(* The HAL (`hal') is external: devices die for good, an IOProc belongs to *)
(* one device, AudioDeviceStop waits for the block in progress, and taking *)
(* a listener away does not recall a notification already on its way.      *)
(***************************************************************************)
EXTENDS Integers, Sequences, FiniteSets, FiniteSetsExt, SequencesExt

CONSTANTS
  Devices,     \* physical devices
  Kinds,       \* the backends to consider
  Layouts,     \* buffer lists of the device: channels of each buffer
  BlockSizes,  \* frames per block the device may be set to
  MaxOpens,    \* bound: calls of open()
  None         \* kAudioObjectUnknown, a null IOProc

ASSUME BackendAssumption ==
  /\ Kinds \subseteq {"output", "input", "duplex"}
  /\ Layouts \subseteq Seq(Nat \ {0}) \ {<<>>}
  /\ BlockSizes \subseteq Nat \ {0}
  /\ MaxOpens \in Nat

VARIABLES
  kind,      \* which of the three classes this object is
  b,         \* its members
  todo,      \* steps the call in progress of the control thread has left
  opens,     \* calls of open() so far; names IOProcs and aggregates
  hal,       \* the system's side
  listener,  \* the notification thread
  block,     \* the block the IO thread is rendering
  hist       \* what happened before, for the properties only

vars == <<kind, b, todo, opens, hal, listener, block, hist>>

Aggregate(n) == <<"aggregate", n>>

\* Names are not reused: of a device, of an aggregate, of no object.
ASSUME NamesAssumption ==
  /\ None \notin Devices
  /\ \A n \in 1..MaxOpens : Aggregate(n) \notin Devices /\ None \notin {n, Aggregate(n)}

Format == [layout : Layouts, frames : BlockSizes]
NoBlock == [proc |-> None]
Current == <<b.dev, b.proc>>      \* the IOProc start() and stop() act on

----------------------------------------------------------------------------
(* The three classes: what open() and the destructor do, in order.        *)

\* Mutants: a re-open does not clear the disconnect; the aggregate is forgotten.
DuplexOpenUnarmed == <<"unlisten", "pair", "negotiate", "create", "listen">>
DuplexCloseKeeps == <<"stop", "unlisten", "free">>

OutputOpen == <<"unlisten", "find", "negotiate", "create", "arm", "listen">>
InputOpen  == <<"unlisten", "find", "negotiate", "create", "arm", "listen">>
DuplexOpen == <<"unlisten", "pair", "negotiate", "create", "arm", "listen">>

OutputClose == <<"stop", "unlisten", "free">>
InputClose  == <<"stop", "unlisten", "free">>
DuplexClose == <<"stop", "unlisten", "free", "dissolve">>

OpenSteps  == [output |-> OutputOpen, input |-> InputOpen, duplex |-> DuplexOpen]
CloseSteps == [output |-> OutputClose, input |-> InputClose, duplex |-> DuplexClose]

----------------------------------------------------------------------------
(* Steps of open() and of the destructor.  Each leaves `todo' to its      *)
(* caller: Go() continues with the rest of the list, Fail returns false.  *)

Go   == todo' = Tail(todo)
Fail == todo' = <<>> /\ hist' = [hist EXCEPT !.open = FALSE] 

removeAliveListener == [hal EXCEPT !.listeners = @ \ {b.dev}]

Unlisten ==
  /\ Go
  /\ b' = [b EXCEPT !.listening = FALSE]
  /\ hal' = IF b.listening THEN removeAliveListener ELSE hal
  /\ UNCHANGED hist

\* findByUID and defaultDevice see the devices that are there; the member is
\* assigned before it is looked at.
allDeviceIds == Devices \cap hal.alive
findByUID == allDeviceIds \cup {None}

Find ==
  \E callback \in BOOLEAN, d \in findByUID :
    /\ b' = [b EXCEPT !.callback = callback, !.dev = d]
    /\ UNCHANGED hal
    /\ IF d = None \/ ~callback THEN Fail ELSE Go /\ UNCHANGED hist

\* A failed createPrivateAggregate still assigns aggregateId_.
createPrivateAggregate ==
  \/ /\ b' = [b EXCEPT !.callback = TRUE, !.agg = Aggregate(opens), !.dev = Aggregate(opens)]
     /\ hal' = [hal EXCEPT !.alive = @ \cup {Aggregate(opens)}]
     /\ Go /\ UNCHANGED hist
  \/ b' = [b EXCEPT !.callback = TRUE, !.agg = None] /\ UNCHANGED hal /\ Fail

Pair ==
  \/ b' = [b EXCEPT !.callback = FALSE] /\ UNCHANGED hal /\ Fail
  \/ \E in, out \in findByUID :
       IF None \in {in, out} THEN b' = [b EXCEPT !.callback = TRUE] /\ UNCHANGED hal /\ Fail
       ELSE IF in # out THEN createPrivateAggregate
       ELSE b' = [b EXCEPT !.callback = TRUE, !.dev = in] /\ Go /\ UNCHANGED <<hal, hist>>

\* Channels are the sum over the device's buffers; a device that is gone has
\* none.  The scratch is reallocated whoever may be rendering into it.
channelsInScope == IF b.dev \in hal.alive THEN FoldLeft(+, 0, hal.format.layout) ELSE 0

bufferFrameSize == hal.format.frames

Negotiate ==
  /\ UNCHANGED hal
  /\ IF channelsInScope = 0
     THEN b' = [b EXCEPT !.channels = 0] /\ Fail
     ELSE /\ b' = [b EXCEPT !.channels = channelsInScope,
                            !.maxFrames = bufferFrameSize]
          /\ hist' = [hist EXCEPT !.format = hal.format,
                                  !.torn = @ \/ block # NoBlock]
          /\ Go

Create ==
  \/ /\ b.dev \in hal.alive
     /\ b' = [b EXCEPT !.proc = opens]
     /\ hal' = [hal EXCEPT !.procs = @ \cup {<<b.dev, opens>>}]
     /\ Go /\ UNCHANGED hist
  \/ Fail /\ UNCHANGED <<b, hal>>

\* Clearing the flag and registering the listener are two steps.
Arm ==
  /\ b' = [b EXCEPT !.disconnected = FALSE]
  /\ hist' = [hist EXCEPT !.overlap = listener = "notify", !.handled = 0]
  /\ Go /\ UNCHANGED hal

addAliveListener == [hal EXCEPT !.listeners = @ \cup {b.dev}]

Listen ==
  /\ \/ b' = [b EXCEPT !.listening = TRUE] /\ hal' = addAliveListener
     \/ UNCHANGED <<b, hal>>
  /\ hist' = [hist EXCEPT !.open = TRUE]
  /\ Go

\* stop(): AudioDeviceStop of an IOProc the device does not know does nothing.
StopCurrent ==
  /\ IF b.running /\ None \notin {b.dev, b.proc}
     THEN /\ block.proc # Current
          /\ b' = [b EXCEPT !.running = FALSE]
          /\ hal' = [hal EXCEPT !.playing = @ \ {Current}]
          /\ hist' = [hist EXCEPT !.stale = FALSE]
     ELSE UNCHANGED <<b, hal, hist>>

Free ==
  /\ hal' = IF None \in {b.dev, b.proc} THEN hal
            ELSE [hal EXCEPT !.procs = @ \ {Current}, !.playing = @ \ {Current}]
  /\ block.proc # Current
  /\ Go /\ UNCHANGED <<b, hist>>

\* The system without device d: its IOProcs are gone with it.
Without(d) ==
  [hal EXCEPT !.alive = @ \ {d},
              !.procs = {p \in @ : p[1] # d},
              !.playing = {p \in @ : p[1] # d}]

Dissolve ==
  /\ hal' = IF b.agg = None THEN hal ELSE Without(b.agg)
  /\ Go /\ UNCHANGED <<b, hist>>

Step ==
  /\ todo # <<>>
  /\ CASE Head(todo) = "unlisten"  -> Unlisten
       [] Head(todo) = "find"      -> Find
       [] Head(todo) = "pair"      -> Pair
       [] Head(todo) = "negotiate" -> Negotiate
       [] Head(todo) = "create"    -> Create
       [] Head(todo) = "arm"       -> Arm
       [] Head(todo) = "listen"    -> Listen
       [] Head(todo) = "stop"      -> StopCurrent /\ Go
       [] Head(todo) = "free"      -> Free
       [] Head(todo) = "dissolve"  -> Dissolve
  /\ UNCHANGED <<kind, opens, listener, block>>

----------------------------------------------------------------------------
(* Calls of the control thread.                                            *)

Idle == todo = <<>> /\ ~b.dying

\* open(): what the object still holds or still runs is not looked at.
Open ==
  /\ Idle
  /\ opens < MaxOpens
  /\ opens' = opens + 1
  /\ todo' = OpenSteps[kind]
  /\ hist' = [hist EXCEPT !.held = @ \/ b.proc # None \/ b.agg # None,
                          !.live = @ \/ b.running,
                          !.stale = b.running]
  /\ UNCHANGED <<kind, b, hal, listener, block>>

\* Mutants: running_ is not set, or set before it is known.
StartUnmarked(ok) ==
  IF None \in {b.dev, b.proc} THEN ~ok /\ UNCHANGED <<b, hal>>
  ELSE \/ ok /\ Current \in hal.procs /\ hal' = [hal EXCEPT !.playing = @ \cup {Current}]
          /\ UNCHANGED b
       \/ ~ok /\ UNCHANGED <<b, hal>>
StartMarkedEarly(ok) ==
  IF None \in {b.dev, b.proc} THEN ~ok /\ UNCHANGED <<b, hal>>
  ELSE IF b.running THEN ok /\ UNCHANGED <<b, hal>>
  ELSE /\ b' = [b EXCEPT !.running = TRUE]
       /\ \/ ok /\ Current \in hal.procs /\ hal' = [hal EXCEPT !.playing = @ \cup {Current}]
          \/ ~ok /\ UNCHANGED hal

\* start(): true without a further look when it is running already.
StartCurrent(ok) ==
  IF None \in {b.dev, b.proc} THEN ~ok /\ UNCHANGED <<b, hal>>
  ELSE IF b.running THEN ok /\ UNCHANGED <<b, hal>>
  ELSE \/ /\ ok /\ Current \in hal.procs
          /\ b' = [b EXCEPT !.running = TRUE]
          /\ hal' = [hal EXCEPT !.playing = @ \cup {Current}]
       \/ ~ok /\ UNCHANGED <<b, hal>>

Start ==
  /\ Idle /\ \E ok \in BOOLEAN : StartCurrent(ok)
  /\ UNCHANGED <<kind, todo, opens, listener, block, hist>>

Stop ==
  /\ Idle /\ StopCurrent
  /\ UNCHANGED <<kind, todo, opens, listener, block>>

Destroy ==
  /\ Idle
  /\ b' = [b EXCEPT !.dying = TRUE]
  /\ todo' = CloseSteps[kind]
  /\ UNCHANGED <<kind, opens, hal, listener, block, hist>>

Destroyed == b.dying /\ todo = <<>>

----------------------------------------------------------------------------
(* The IO thread: one block.  What goes into each buffer of the device (or *)
(* comes out of it) follows from the members open() left.                  *)

\* Frames are taken from the first buffer: its bytes over one float when there
\* are several buffers, over its channels when there is one.
Planar == Len(hal.format.layout) > 1
framesOfAll ==   \* mutant: without the clamp
  IF Planar THEN hal.format.layout[1] * hal.format.frames ELSE hal.format.frames
framesOf ==
  Min({b.maxFrames, IF Planar THEN hal.format.layout[1] * hal.format.frames
                    ELSE hal.format.frames})

\* Samples moved per buffer of the device.
Moved ==
  [i \in DOMAIN hal.format.layout |->
     IF ~Planar THEN b.channels * framesOf ELSE IF i <= b.channels THEN framesOf ELSE 0]
\* The callback's channels: all of them through the scratch, or one per buffer.
OutChannels == IF Planar THEN Min({Len(hal.format.layout), b.channels}) ELSE b.channels

RenderOutput == [in |-> 0, out |-> OutChannels, frames |-> framesOf, moved |-> Moved]
CaptureInput == [in |-> b.channels, out |-> 0, frames |-> framesOf, moved |-> Moved]
RenderDuplex == [in |-> b.channels, out |-> OutChannels, frames |-> framesOf, moved |-> Moved]

BlockBegin ==
  /\ block = NoBlock
  /\ \E p \in hal.playing :
       /\ b.callback
       /\ block' = [proc |-> p, format |-> hal.format,
                    view |-> CASE kind = "output" -> RenderOutput
                               [] kind = "input"  -> CaptureInput
                               [] kind = "duplex" -> RenderDuplex]
  /\ UNCHANGED <<kind, b, todo, opens, hal, listener, hist>>

BlockEnd ==
  /\ block # NoBlock
  /\ block' = NoBlock
  /\ UNCHANGED <<kind, b, todo, opens, hal, listener, hist>>

----------------------------------------------------------------------------
(* The notification thread: handleDeviceAliveChanged().                    *)

\* deviceIsAlive(deviceId_) looks at the device the object has now.
deviceIsAlive == b.dev \in hal.alive

CheckAliveRunning ==   \* mutant: the death of a stopped stream's device is dropped
  /\ listener = "pending"
  /\ listener' = IF deviceIsAlive \/ ~b.running THEN "idle" ELSE "notify"
  /\ UNCHANGED <<kind, b, todo, opens, hal, block, hist>>
\* A notification that is still under way once the destructor has run reads
\* what is left of the object, and may find anything there.
CheckAlive ==
  /\ listener = "pending"
  /\ listener' \in IF Destroyed THEN {"idle", "notify"}
                    ELSE {IF deviceIsAlive THEN "idle" ELSE "notify"}
  /\ UNCHANGED <<kind, b, todo, opens, hal, block, hist>>

\* The handler runs only for the exchange that found the flag clear; what a
\* notification of an object that is gone would call is not looked at.
notifyDisconnect ==
  /\ listener = "notify"
  /\ listener' = "idle"
  /\ IF Destroyed THEN UNCHANGED <<b, hist>>
     ELSE /\ b' = [b EXCEPT !.disconnected = TRUE]
          /\ hist' = [hist EXCEPT !.handled = IF b.disconnected THEN @ ELSE @ + 1]
  /\ UNCHANGED <<kind, todo, opens, hal, block>>

----------------------------------------------------------------------------
(* The system.                                                             *)

\* A device dies: its IOProcs stop, and whoever listens on it is told.
Die ==
  \E d \in hal.alive :
    /\ hal' = Without(d)
    /\ listener' = IF d \in hal.listeners /\ listener = "idle" THEN "pending" ELSE listener
    /\ block' = IF block # NoBlock /\ block.proc[1] = d THEN NoBlock ELSE block
    /\ UNCHANGED <<kind, b, todo, opens, hist>>

\* Another program changes the buffer size or the streams of the device.
Reformat ==
  /\ block = NoBlock
  /\ hal' \in {[hal EXCEPT !.format = f] : f \in Format}
  /\ UNCHANGED <<kind, b, todo, opens, listener, block, hist>>

----------------------------------------------------------------------------
Init ==
  /\ kind \in Kinds
  /\ b = [dev |-> None, agg |-> None, proc |-> None, callback |-> FALSE,
          running |-> FALSE, listening |-> FALSE, disconnected |-> FALSE,
          channels |-> 0, maxFrames |-> 0, dying |-> FALSE]
  /\ todo = <<>> /\ opens = 0 /\ listener = "idle" /\ block = NoBlock
  /\ \E f \in Format :
       /\ hal = [alive |-> Devices, procs |-> {}, playing |-> {}, listeners |-> {},
                 format |-> f]
       /\ hist = [open |-> FALSE, held |-> FALSE, live |-> FALSE, stale |-> FALSE,
                  overlap |-> FALSE, torn |-> FALSE, handled |-> 0, format |-> f]

Next ==
  \/ Open \/ Step \/ Start \/ Stop \/ Destroy
  \/ BlockBegin \/ BlockEnd
  \/ CheckAlive \/ notifyDisconnect
  \/ Die \/ Reformat

Fairness == WF_vars(CheckAlive) /\ WF_vars(notifyDisconnect)

Spec == Init /\ [][Next]_vars /\ Fairness
----------------------------------------------------------------------------
Ids == Devices \cup {Aggregate(n) : n \in 1..MaxOpens}
Members ==
  [dev : Ids \cup {None}, agg : Ids \cup {None}, proc : 1..MaxOpens \cup {None},
   callback : BOOLEAN, running : BOOLEAN, listening : BOOLEAN, disconnected : BOOLEAN,
   channels : Nat, maxFrames : Nat, dying : BOOLEAN]

(* The members have their types; what the HAL holds of this object is      *)
(* named after a device and the call of open() that made it.               *)
TypeOK ==
  /\ kind \in Kinds
  /\ b \in Members
  /\ opens \in 0..MaxOpens
  /\ listener \in {"idle", "pending", "notify"}
  /\ hal.alive \subseteq Ids /\ hal.format \in Format
  /\ hal.playing \subseteq hal.procs /\ hal.procs \subseteq hal.alive \X (1..MaxOpens)

(* The HAL calls this object back about exactly the device it has open, or *)
(* not at all: through every re-open, failed open and the destructor the   *)
(* registration, aliveListenerOn_ and deviceId_ stay in step, although     *)
(* open() unregisters before it moves to the next device and registers     *)
(* last.  A destructor that has run leaves neither IOProc, listener nor    *)
(* aggregate device in the system, if no open() found something of an      *)
(* earlier open() in the object: also after opens that failed half way.    *)
HalInStep ==
  /\ TypeOK
  /\ hal.listeners = IF b.listening THEN {b.dev} ELSE {}
  /\ Destroyed /\ ~hist.held =>
       hal.procs = {} /\ hal.listeners = {} /\ hal.alive \subseteq Devices

(* "Stop invoking the callback": with running_ clear no IOProc of this     *)
(* object runs and no block is under way, as long as open() was never      *)
(* called on a running backend.  open() does not stop the stream it        *)
(* replaces, and stop() then stops the new IOProc only.                    *)
StopSilences ==
  ~b.running /\ ~hist.live => hal.playing = {} /\ (block # NoBlock => block.proc \in hal.playing)

(* Where start() answers true because running_ is set, the current IOProc  *)
(* does run, or its device is dead, unless the backend was re-opened while *)
(* running and not stopped since: then running_ speaks of the IOProc that  *)
(* open() replaced.                                                        *)
StartBegins ==
  Idle /\ b.running /\ ~hist.stale => Current \in hal.playing \/ b.dev \notin hal.alive

(* An open stream is reported disconnected only when its device is dead,   *)
(* unless the notification of the device before it was past its check when *)
(* open() cleared the flag; and the handler runs at most once for each     *)
(* successful open().                                                      *)
DisconnectIsReal ==
  /\ hist.open /\ todo = <<>> /\ b.disconnected /\ ~hist.overlap => b.dev \notin hal.alive
  /\ hist.handled <= 1

(* Scratch is not reallocated under a block, and a block moves no more     *)
(* samples than the scratch or a buffer of the device holds, as long as    *)
(* the device has the buffers open() saw, and the block size too if one of *)
(* them is narrower than the first, which is the one frames are counted    *)
(* by.  It moves exactly the samples of the device's buffers if the block  *)
(* size is that of open() and the buffers are one, or of one channel each. *)
BlocksFit ==
  ~hist.live =>
    /\ ~hist.torn
    /\ block # NoBlock => block.view.frames <= b.maxFrames
    /\ block # NoBlock /\ block.format.layout = hist.format.layout =>
         LET layout == block.format.layout
             sized == block.format.frames = hist.format.frames
         IN \A i \in DOMAIN layout :
              LET size == layout[i] * block.format.frames IN
                /\ sized \/ layout[1] <= layout[i] => block.view.moved[i] <= size
                /\ sized /\ (Len(layout) = 1 \/ \A j \in DOMAIN layout : layout[j] = 1)
                     => block.view.moved[i] = size

(* The death of a device the object listens on is reported, unless the     *)
(* control thread opens or destroys the backend first.                     *)
DeathReported ==
  listener = "pending" /\ ~deviceIsAlive /\ todo = <<>>
    ~> b.disconnected \/ todo # <<>> \/ b.dying

=============================================================================
