------------------------------- MODULE WavFile -------------------------------
(***************************************************************************)
(* WavWriter and WavReader (src/io/wav_file.cpp), and OfflineBackend       *)
(* (src/io/offline_backend.cpp) that renders one file into another.  The   *)
(* disk can fill up while a file is written and the program can end        *)
(* between two blocks; the output of a rendering can be the input of the   *)
(* next.                                                                   *)
(*                                                                         *)
(* A file is its data size field and its body.  A sample is a multiple of  *)
(* 1 / (Full * Fine) of full scale: Full steps of a 16-bit file (32768 in  *)
(* the code) make full scale, and Fine parts of a float make a step.  The  *)
(* product that is rounded is exact here.  The callback passes its input   *)
(* on; nothing in start() throws (process() is noexcept).  Sizes are in    *)
(* bytes, modulo SizeMod in the header (2^32 in the code).                 *)
(***************************************************************************)
EXTENDS Integers, SequencesExt, FiniteSetsExt

CONSTANTS
  Full, Fine, SizeMod,
  Sources,     \* bound: bodies of the first input, sequences of samples
  Formats,     \* bound: formats of outputs, of "Int16", "Float32"
  BlockSizes,  \* bound: block sizes of open()
  Channels,    \* channels of the files; a frame is one sample for each
  MaxCopies    \* bound: backends made

ASSUME WavAssumption ==
  /\ Full \in Nat \ {0, 1} /\ Fine \in Nat \ {0} /\ SizeMod \in Nat \ {0} /\ Channels \in Nat \ {0}
  /\ BlockSizes \subseteq Nat \ {0} /\ MaxCopies \in Nat
  /\ Formats \subseteq {"Int16", "Float32"} /\ Sources \subseteq Seq(Int)

VARIABLES
  input, output, \* files: [fmt, data: size field, body: samples that are on the disk]
  reader,    \* [ok, total, read]: ok_, totalFrames_, framesRead_
  writer,    \* [open, bad, bytes, final]: the stream's state, dataBytes_, finalized_
  block,     \* blockSize_, 0: open() has not succeeded
  phase,     \* "idle", "render": inside start(), "gone": the program has ended
  rendered,  \* framesRendered_ of the last start()
  full,      \* ghost: the disk was full while output was written
  first,     \* ghost: the body of the first input
  lossy,     \* ghost: Int16 files on the way from it
  copies
vars == <<input, output, reader, writer, block, phase, rendered, full, first, lossy, copies>>

Absent == [fmt |-> "none", data |-> 0, body |-> <<>>]
Closed == [open |-> FALSE, bad |-> FALSE, bytes |-> 0, final |-> FALSE]

Bytes(fmt) == IF fmt = "Float32" THEN 4 ELSE 2
FrameBytes(fmt) == Channels * Bytes(fmt)

\* lround(): half away from zero.
Round(n, d) == IF n >= 0 THEN (2 * n + d) \div (2 * d) ELSE -((2 * (-n) + d) \div (2 * d))
Scale == Full * Fine
Clamped(s) == Max({-Scale, Min({Scale, s})})

\* Mutant: the encoder of conversions.cpp, which cuts off.
BugEncode(fmt, s) ==
  LET n == Clamped(s) * (Full - 1)
      steps == IF n >= 0 THEN n \div Scale ELSE -((-n) \div Scale)
  IN IF fmt = "Float32" THEN s ELSE steps * Fine

\* What a sample is in a file: for 16 bits a number of steps, scaled by one step
\* less than read() divides by.
Encode(fmt, s) == IF fmt = "Float32" THEN s ELSE Round(Clamped(s) * (Full - 1), Scale) * Fine

\* What the constructor of WavReader makes of a file.
Parse(file) ==
  LET ok == file.fmt # "none" /\ file.data # 0
  IN [ok |-> ok, read |-> 0, total |-> IF ok THEN file.data \div FrameBytes(file.fmt) ELSE 0]

\* read() from frame number r: what the stream has no bytes for reads as zero.
ReadFrames(file, r, n) ==
  [k \in 1 .. n * Channels |->
    LET at == r * Channels + k IN IF at <= Len(file.body) THEN file.body[at] ELSE 0]

-----------------------------------------------------------------------------
Init ==
  /\ first \in Sources
  /\ \E fmt \in Formats :
       /\ lossy = IF fmt = "Int16" THEN 1 ELSE 0
       /\ LET body == [k \in DOMAIN first |-> Encode(fmt, first[k])]
          IN input = [fmt |-> fmt, body |-> body, data |-> (Len(body) * Bytes(fmt)) % SizeMod]
  /\ output = Absent /\ writer = Closed
  /\ reader = Parse(input)
  /\ block = 0 /\ phase = "idle" /\ rendered = 0 /\ full = FALSE /\ copies = 1

\* open(): refused for a file that cannot be read.  The reader is not rewound.
Open(b) ==
  /\ phase = "idle" /\ reader.ok
  /\ block' = b
  /\ UNCHANGED <<input, output, reader, writer, phase, rendered, full, first, lossy, copies>>

\* start(): a new writer truncates the output and writes a header with no sizes.
Start(fmt) ==
  /\ phase = "idle" /\ block > 0
  /\ phase' = "render" /\ rendered' = 0 /\ full' = FALSE
  /\ output' = [fmt |-> fmt, data |-> 0, body |-> <<>>]
  /\ writer' = [Closed EXCEPT !.open = TRUE]
  /\ UNCHANGED <<input, reader, block, first, lossy, copies>>

\* Mutant: frames are counted, not samples.
BugWrite(samples, kept) ==
  /\ output' = [output EXCEPT !.body = @ \o SubSeq(samples, 1, kept)]
  /\ writer' = [writer EXCEPT !.bytes = @ + (Len(samples) \div Channels) * Bytes(output.fmt),
                              !.bad = @ \/ kept < Len(samples)]

\* write(): the disk takes the first `kept` samples, and none after it once was
\* full; all of them are counted.
Write(samples, kept) ==
  /\ output' = [output EXCEPT !.body = @ \o SubSeq(samples, 1, kept)]
  /\ writer' = [writer EXCEPT !.bytes = @ + Len(samples) * Bytes(output.fmt),
                              !.bad = @ \/ kept < Len(samples)]

\* One turn of start()'s loop that reads frames.
Render ==
  LET got == Min({block, reader.total - reader.read})
      samples == [k \in 1 .. got * Channels |->
                   Encode(output.fmt, ReadFrames(input, reader.read, got)[k])]
  IN /\ phase = "render" /\ got > 0
     /\ \E kept \in IF writer.bad THEN {0} ELSE 0 .. Len(samples) :
          /\ Write(samples, kept)
          /\ full' = (full \/ kept < Len(samples))
     /\ reader' = [reader EXCEPT !.read = @ + got]
     /\ rendered' = rendered + got
     /\ UNCHANGED <<input, block, phase, first, lossy, copies>>

\* Mutant: the sizes are patched whatever became of the stream.
BugFinalize == [output EXCEPT !.data = writer.bytes % SizeMod]

\* finalize(): nothing for a stream that has failed.
Finalize == IF writer.bad THEN output ELSE [output EXCEPT !.data = writer.bytes % SizeMod]

\* The loop ends: finalize(), the writer is destroyed, start() returns true.
Finish ==
  /\ phase = "render" /\ reader.read = reader.total
  /\ output' = Finalize
  /\ writer' = Closed /\ phase' = "idle"
  /\ UNCHANGED <<input, reader, block, rendered, full, first, lossy, copies>>

\* The program ends inside start(); of what was written, some has reached the disk.
Crash ==
  /\ phase = "render"
  /\ \E n \in 0 .. Len(output.body) : output' = [output EXCEPT !.body = SubSeq(@, 1, n)]
  /\ phase' = "gone" /\ writer' = Closed /\ block' = 0
  /\ UNCHANGED <<input, reader, rendered, full, first, lossy, copies>>

\* A backend, in this program or the next, that reads what was written.
Reuse ==
  /\ phase # "render" /\ output # Absent /\ copies < MaxCopies
  /\ input' = output /\ output' = Absent
  /\ reader' = Parse(output)
  /\ lossy' = lossy + (IF output.fmt = "Int16" THEN 1 ELSE 0)
  /\ block' = 0 /\ phase' = "idle" /\ rendered' = 0 /\ full' = FALSE /\ copies' = copies + 1
  /\ UNCHANGED <<writer, first>>

Next ==
  \/ \E b \in BlockSizes : Open(b)
  \/ \E fmt \in Formats : Start(fmt)
  \/ Render
  \/ Finish
  \/ Crash
  \/ Reuse

Spec == Init /\ [][Next]_vars

-----------------------------------------------------------------------------
(* Properties.                                                             *)

Files == [fmt : {"Int16", "Float32", "none"}, data : 0 .. SizeMod - 1, body : Seq(Int)]

\* Files, positions and counters have their types.
TypeOK ==
  /\ input \in Files /\ output \in Files
  /\ reader.read \in 0 .. reader.total /\ writer.bytes \in Nat
  /\ block \in BlockSizes \union {0} /\ phase \in {"idle", "render", "gone"} /\ rendered \in Nat

\* Whatever happens to a rendering, the end of the program or a full disk, its
\* file never claims a frame that is not in it: a reader refuses the file or
\* finds what it was told, and never takes silence for sound.
FramesAreBacked == TypeOK /\ Parse(output).total * Channels <= Len(output.body)

\* After start() has returned on a disk that was not full, and short of 2^32
\* bytes, the file reads back with as many frames as framesRendered() says and
\* they are the input's from where its reader stood, block by block in order.
FileIsTheRendering ==
  LET n == reader.read - rendered
      size == rendered * FrameBytes(output.fmt)
  IN phase = "idle" /\ output # Absent /\ ~full /\ 0 < size /\ size < SizeMod =>
       /\ Parse(output).ok /\ Parse(output).total = rendered
       /\ output.body = [k \in 1 .. rendered * Channels |->
                          Encode(output.fmt, ReadFrames(input, n, rendered)[k])]

\* Copies of copies stay close to the first: the first 16-bit file costs a sample
\* a step and a half at most, each one after it a step; a sample up to half of full
\* scale costs a step at most once, and every copy holds what the first one held.
CopiesStayClose ==
  \A k \in DOMAIN input.body : lossy > 0 =>
    LET s == Clamped(first[k])
        x == input.body[k]
        distance == Max({s, x}) - Min({s, x})
    IN /\ 2 * distance <= (2 * lossy + 1) * Fine
       /\ 2 * s \in -Scale .. Scale => distance <= Fine /\ x = Encode("Int16", s)

=============================================================================
