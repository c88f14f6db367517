---------------------------- MODULE WavFileProofs ----------------------------
(***************************************************************************)
(* Theorems about WavFile, for any number of channels, any sizes and any   *)
(* first input.                                                            *)
(*                                                                         *)
(* The argument: while a rendering is under way the header has no size,    *)
(* and as long as the stream has not failed the bytes counted are those    *)
(* of the body (Counted); so the size that finalize() patches in, if it    *)
(* does, is no more than there is (Backed).                                *)
(* Of copies: a file on the way is the one before it, encoded sample by    *)
(* sample (Copying).  The first 16-bit file makes a number of steps of a   *)
(* sample, a step and a half from it at most (FirstClose); a number of     *)
(* steps loses one in each file after it, or none up to half of full scale *)
(* (Shortened).  So the distance to the first input is bounded by the      *)
(* number of 16-bit files so far (Sourced).                                *)
(***************************************************************************)
EXTENDS WavFile, TLAPS

-----------------------------------------------------------------------------
(* Operators.                                                              *)

LEMMA Sizes ==
  /\ Full \in Nat /\ 1 < Full /\ Fine \in Nat /\ 0 < Fine /\ SizeMod \in Nat /\ 0 < SizeMod
  /\ Channels \in Nat /\ 0 < Channels
  /\ MaxCopies \in Nat
  BY WavAssumption

\* Full scale, a number of steps of Fine parts.
LEMMA ScaleIs == Scale \in Nat /\ 0 < Scale /\ Scale = Full * Fine
<1>1. Full * Fine \in Nat /\ 1 * Fine <= Full * Fine
  BY Sizes
<1> QED BY <1>1, Sizes DEF Scale

LEMMA FormatsAre == Formats \subseteq {"Int16", "Float32"} /\ Sources \subseteq Seq(Int)
  BY WavAssumption

\* The least and the greatest of two numbers.
LEMMA MinOfTwo ==
  ASSUME NEW m \in Int, NEW n \in Int
  PROVE  Min({m, n}) = IF m <= n THEN m ELSE n
<1> DEFINE least == IF m <= n THEN m ELSE n
<1>1. least \in {m, n} /\ \A y \in {m, n} : least <= y
  OBVIOUS
<1>2. \A x \in {m, n} : (\A y \in {m, n} : x <= y) => x = least
  OBVIOUS
<1> QED BY <1>1, <1>2 DEF Min

LEMMA MaxOfTwo ==
  ASSUME NEW m \in Int, NEW n \in Int
  PROVE  Max({m, n}) = IF m >= n THEN m ELSE n
<1> DEFINE most == IF m >= n THEN m ELSE n
<1>1. most \in {m, n} /\ \A y \in {m, n} : most >= y
  OBVIOUS
<1>2. \A x \in {m, n} : (\A y \in {m, n} : x >= y) => x = most
  OBVIOUS
<1> QED BY <1>1, <1>2 DEF Max

LEMMA ClampedRange ==
  ASSUME NEW s \in Int
  PROVE  Clamped(s) \in -Scale .. Scale
<1>1. Min({Scale, s}) = IF Scale <= s THEN Scale ELSE s
  BY MinOfTwo, ScaleIs
<1> DEFINE m == IF Scale <= s THEN Scale ELSE s
<1>2. m \in Int /\ m <= Scale
  BY ScaleIs
<1> HIDE DEF m
<1>3. Max({-Scale, m}) = IF -Scale >= m THEN -Scale ELSE m
  BY <1>2, MaxOfTwo, ScaleIs
<1>4. Clamped(s) = Max({-Scale, m})
  BY <1>1 DEF Clamped, m
<1> QED BY <1>2, <1>3, <1>4, ScaleIs

LEMMA RoundIsInt ==
  ASSUME NEW n \in Int, NEW d \in Nat, 0 < d
  PROVE  Round(n, d) \in Int
<1>1. CASE n >= 0
  <2>1. (2 * n + d) \div (2 * d) \in Int
    OBVIOUS
  <2> QED BY <1>1, <2>1 DEF Round
<1>2. CASE ~(n >= 0)
  <2>1. (2 * (-n) + d) \div (2 * d) \in Int
    OBVIOUS
  <2> QED BY <1>2, <2>1 DEF Round
<1> QED BY <1>1, <1>2

LEMMA EncodeIsInt ==
  ASSUME NEW fmt, NEW s \in Int
  PROVE  Encode(fmt, s) \in Int
<1> DEFINE n == Clamped(s) * (Full - 1)
<1>1. n \in Int
  BY ClampedRange, ScaleIs, Sizes
<1> HIDE DEF n
<1>2. Round(n, Scale) \in Int
  BY <1>1, ScaleIs, RoundIsInt
<1>3. Round(n, Scale) * Fine \in Int
  BY <1>2, Sizes
<1> QED BY <1>3 DEF Encode, n

\* A frame that a whole number of frames claims is in a body that long.
LEMMA ClaimIsBacked ==
  ASSUME NEW fmt \in {"Int16", "Float32"}, NEW data \in Nat, NEW size \in Nat,
         data <= size * Bytes(fmt)
  PROVE  /\ data \div FrameBytes(fmt) \in Nat
         /\ (data \div FrameBytes(fmt)) * Channels <= size
<1> DEFINE width == Channels * Bytes(fmt)
           total == data \div width
           samples == total * Channels
<1>1. Bytes(fmt) \in {2, 4} /\ width \in Nat /\ 0 < width
  BY Sizes DEF Bytes
<1>2. total \in Nat /\ total * width <= data
  <2> HIDE DEF width
  <2> QED BY <1>1
<1> HIDE DEF total
<1>3. samples \in Nat
  BY <1>2, Sizes
<1>4. total * width = samples * Bytes(fmt)
  BY <1>1, <1>2, Sizes
<1> HIDE DEF samples, width
<1>5. samples * Bytes(fmt) <= size * Bytes(fmt)
  <2>1. size * Bytes(fmt) \in Nat /\ samples * Bytes(fmt) \in Nat
    BY <1>1, <1>3
  <2> QED BY <1>2, <1>4, <2>1
<1>6. samples <= size
  BY <1>1, <1>3, <1>5
<1> QED BY <1>2, <1>6 DEF samples, total, width, FrameBytes

-----------------------------------------------------------------------------
(* The invariant.                                                          *)

Shape ==
  /\ DOMAIN reader = {"ok", "total", "read"} /\ DOMAIN writer = {"open", "bad", "bytes", "final"}
  /\ reader.total \in Nat
  /\ block > 0 => reader.ok

\* A rendering has its format, no size in its header yet, and counts its bytes.
Counted ==
  phase = "render" =>
    /\ output.fmt \in Formats /\ output.data = 0 /\ block > 0
    /\ ~writer.bad => writer.bytes = Len(output.body) * Bytes(output.fmt)

Backed ==
  output.fmt # "none" => output.data <= Len(output.body) * Bytes(output.fmt)

IInv == TypeOK /\ Shape /\ Counted /\ Backed

\* What is rendered from frame r on: n frames, encoded.
Rendering(fmt, file, r, n) == [k \in 1 .. n * Channels |-> Encode(fmt, ReadFrames(file, r, n)[k])]

LEMMA RenderingType ==
  ASSUME NEW fmt, NEW file \in Files, NEW r \in Nat, NEW n \in Nat
  PROVE  /\ Rendering(fmt, file, r, n) \in Seq(Int)
         /\ Len(Rendering(fmt, file, r, n)) = n * Channels
<1> DEFINE size == n * Channels
           frames == ReadFrames(file, r, n)
<1>1. size \in Nat
  BY Sizes
<1>2. \A k \in 1 .. size : frames[k] \in Int
  <2> SUFFICES ASSUME NEW k \in 1 .. size PROVE frames[k] \in Int
    OBVIOUS
  <2> DEFINE at == r * Channels + k
  <2>1. at \in Nat /\ at > 0
    BY <1>1, Sizes
  <2> HIDE DEF at
  <2>2. at <= Len(file.body) => file.body[at] \in Int
    BY <2>1 DEF Files
  <2> QED BY <2>2 DEF ReadFrames, at
<1> HIDE DEF size, frames
<1>3. \A k \in 1 .. size : Encode(fmt, frames[k]) \in Int
  BY <1>2, EncodeIsInt
<1>4. [k \in 1 .. size |-> Encode(fmt, frames[k])] \in Seq(Int)
  BY <1>1, <1>3
<1>5. Len([k \in 1 .. size |-> Encode(fmt, frames[k])]) = size
  BY <1>1, <1>3
<1> QED BY <1>4, <1>5 DEF Rendering, size, frames

LEMMA ParseType ==
  ASSUME NEW file \in Files
  PROVE  /\ Parse(file).total \in Nat /\ Parse(file).read = 0
         /\ DOMAIN Parse(file) = {"ok", "total", "read"}
<1>1. CASE file.fmt # "none"
  <2>1. file.data \div FrameBytes(file.fmt) \in Nat
    <3>1. FrameBytes(file.fmt) \in Nat /\ 0 < FrameBytes(file.fmt)
      BY Sizes DEF FrameBytes, Bytes
    <3>2. file.data \in Nat
      BY Sizes DEF Files
    <3> QED BY <3>1, <3>2
  <2> QED BY <1>1, <2>1 DEF Parse
<1>2. CASE file.fmt = "none"
  BY <1>2 DEF Parse
<1> QED BY <1>1, <1>2

LEMMA JoinedLength ==
  ASSUME NEW s \in Seq(Int), NEW t \in Seq(Int)
  PROVE  Len(s \o t) = Len(s) + Len(t) /\ Len(s) \in Nat
  OBVIOUS

LEMMA JoinedElement ==
  ASSUME NEW s \in Seq(Int), NEW t \in Seq(Int), NEW k \in 1 .. (Len(s) + Len(t))
  PROVE  (s \o t)[k] = IF k <= Len(s) THEN s[k] ELSE t[k - Len(s)]
  OBVIOUS

LEMMA SameSequence ==
  ASSUME NEW s \in Seq(Int), NEW t \in Seq(Int), Len(s) = Len(t),
         \A k \in 1 .. Len(s) : s[k] = t[k]
  PROVE  s = t
  OBVIOUS

LEMMA AbsentIsFile == Absent \in Files
  BY Sizes DEF Absent, Files

-----------------------------------------------------------------------------
(* Every step keeps the invariant.                                         *)

LEMMA InitIInv == Init => IInv
<1> SUFFICES ASSUME Init PROVE IInv
  OBVIOUS
<1>1. PICK fmt \in Formats :
        LET body == [k \in DOMAIN first |-> Encode(fmt, first[k])]
        IN input = [fmt |-> fmt, body |-> body, data |-> (Len(body) * Bytes(fmt)) % SizeMod]
  BY DEF Init
<1> DEFINE body == [k \in DOMAIN first |-> Encode(fmt, first[k])]
<1>2. first \in Seq(Int)
  BY FormatsAre DEF Init
<1>3. body \in Seq(Int)
  BY <1>2, EncodeIsInt
<1> HIDE DEF body
<1>4. (Len(body) * Bytes(fmt)) % SizeMod \in 0 .. SizeMod - 1
  <2>1. Len(body) * Bytes(fmt) \in Nat
    BY <1>3 DEF Bytes
  <2> QED BY <2>1, Sizes
<1>5. input = [fmt |-> fmt, body |-> body, data |-> (Len(body) * Bytes(fmt)) % SizeMod]
  BY <1>1 DEF body
<1>6. input \in Files
  BY <1>3, <1>4, <1>5, FormatsAre DEF Files
<1>7. reader.total \in Nat /\ reader.read = 0 /\ DOMAIN reader = {"ok", "total", "read"}
  BY <1>6, ParseType DEF Init
<1>8. TypeOK /\ Shape
  BY <1>6, <1>7, AbsentIsFile DEF Init, TypeOK, Shape, Closed
<1> QED BY <1>8 DEF IInv, Init, Counted, Backed, Absent

LEMMA OpenKeeps ==
  ASSUME IInv, NEW size \in BlockSizes, Open(size)
  PROVE  IInv'
  BY WavAssumption DEF IInv, TypeOK, Shape, Counted, Backed, Open

LEMMA StartKeeps ==
  ASSUME IInv, NEW fmt \in Formats, Start(fmt)
  PROVE  IInv'
<1>1. output' \in Files /\ output'.fmt = fmt /\ output'.data = 0 /\ output'.body = <<>>
  BY FormatsAre, Sizes DEF Start, Files
<1>2. writer'.bytes = 0 /\ ~writer'.bad /\ DOMAIN writer' = {"open", "bad", "bytes", "final"}
  BY DEF Start, Closed
<1>3. 0 * Bytes(fmt) = 0 /\ Len(output'.body) = 0
  BY <1>1 DEF Bytes
<1>4. TypeOK'
  BY <1>1, <1>2 DEF IInv, TypeOK, Start
<1>5. Shape'
  BY <1>2 DEF IInv, Shape, Start
<1>6. Counted'
  BY <1>1, <1>2, <1>3 DEF IInv, Counted, Start
<1>7. Backed'
  BY <1>1, <1>3 DEF Backed
<1> QED BY <1>4, <1>5, <1>6, <1>7 DEF IInv

LEMMA RenderKeeps ==
  ASSUME IInv, Render
  PROVE  IInv'
<1> DEFINE got == Min({block, reader.total - reader.read})
           samples == Rendering(output.fmt, input, reader.read, got)
<1>1. block \in Nat /\ block > 0 /\ reader.total \in Nat /\ reader.read \in Nat
      /\ phase = "render" /\ got > 0
  BY WavAssumption DEF IInv, TypeOK, Shape, Counted, Render
<1>2. got \in Nat /\ reader.read + got \in 0 .. reader.total
  <2>1. got = IF block <= reader.total - reader.read THEN block ELSE reader.total - reader.read
    BY <1>1, MinOfTwo
  <2> HIDE DEF got
  <2> QED BY <1>1, <2>1 DEF IInv, TypeOK
<1> HIDE DEF got
<1>3. samples \in Seq(Int) /\ Len(samples) = got * Channels
  BY <1>1, <1>2, RenderingType DEF IInv, TypeOK
<1>4. PICK kept \in 0 .. Len(samples) : Write(samples, kept)
  <2>1. \E kept \in IF writer.bad THEN {0} ELSE 0 .. Len(samples) : Write(samples, kept)
    BY DEF Render, got, samples, Rendering
  <2>2. Len(samples) \in Nat
    BY <1>3
  <2> QED BY <2>1, <2>2
<1> HIDE DEF samples
<1> DEFINE part == SubSeq(samples, 1, kept)
<1>5. part \in Seq(Int) /\ Len(part) = kept
  BY <1>3
<1> HIDE DEF part
<1>6. output' = [output EXCEPT !.body = @ \o part]
  BY <1>4 DEF Write, part
<1> DEFINE body == output.body \o part
<1>7. /\ output'.body = body /\ output'.fmt = output.fmt /\ output'.data = output.data
      /\ output' \in Files
  <2>1. output.body \in Seq(Int) /\ body \in Seq(Int)
    BY <1>5 DEF IInv, TypeOK, Files
  <2> HIDE DEF body
  <2>2. output' = [output EXCEPT !.body = body]
    BY <1>6 DEF body
  <2> QED BY <2>1, <2>2 DEF IInv, TypeOK, Files
<1>8. Len(output'.body) = Len(output.body) + kept /\ Len(output.body) \in Nat
  <2>1. output.body \in Seq(Int)
    BY DEF IInv, TypeOK, Files
  <2>2. Len(body) = Len(output.body) + Len(part) /\ Len(output.body) \in Nat
    BY <1>5, <2>1, JoinedLength
  <2> HIDE DEF body
  <2> QED BY <1>5, <1>7, <2>2
<1>9. output.fmt \in {"Int16", "Float32"} /\ Bytes(output.fmt) \in {2, 4}
  BY <1>1, FormatsAre DEF IInv, Counted, Bytes
<1>10. writer' = [writer EXCEPT !.bytes = @ + Len(samples) * Bytes(output.fmt),
                                !.bad = @ \/ kept < Len(samples)]
  BY <1>4 DEF Write
<1>11. DOMAIN writer' = DOMAIN writer /\ writer'.bytes \in Nat
  BY <1>3, <1>9, <1>10 DEF IInv, TypeOK, Shape
<1>12. ~writer'.bad => /\ ~writer.bad /\ kept = Len(samples)
                       /\ writer'.bytes = writer.bytes + Len(samples) * Bytes(output.fmt)
  <2>1. Len(samples) \in Nat /\ (kept < Len(samples) \/ kept = Len(samples))
    BY <1>3
  <2>2. (writer'.bad <=> writer.bad \/ kept < Len(samples))
        /\ writer'.bytes = writer.bytes + Len(samples) * Bytes(output.fmt)
    BY <1>10 DEF IInv, Shape
  <2> QED BY <2>1, <2>2
<1>13. reader'.read = reader.read + got /\ reader'.total = reader.total /\ reader'.ok = reader.ok
       /\ DOMAIN reader' = DOMAIN reader
  BY DEF IInv, Shape, Render, got
<1>14. rendered' \in Nat /\ UNCHANGED <<input, block, phase>>
  BY <1>2 DEF IInv, TypeOK, Render, got
<1>15. TypeOK'
  BY <1>2, <1>7, <1>11, <1>13, <1>14 DEF IInv, TypeOK
<1>16. Shape'
  BY <1>11, <1>13, <1>14 DEF IInv, Shape
<1>17. Counted'
  <2>1. ~writer'.bad => writer'.bytes = Len(output'.body) * Bytes(output'.fmt)
    BY <1>1, <1>3, <1>7, <1>8, <1>9, <1>12 DEF IInv, Counted
  <2> QED BY <1>1, <1>7, <1>14, <2>1 DEF IInv, Counted
<1>18. Backed'
  <2>1. output.data = 0
    BY <1>1 DEF IInv, Counted
  <2> QED BY <1>7, <1>8, <1>9, <2>1 DEF Backed
<1> QED BY <1>15, <1>16, <1>17, <1>18 DEF IInv

LEMMA FinishKeeps ==
  ASSUME IInv, Finish
  PROVE  IInv'
<1>1. CASE writer.bad
  BY <1>1 DEF IInv, TypeOK, Shape, Counted, Backed, Finish, Finalize, Closed
<1>2. CASE ~writer.bad
  <2>1. writer.bytes \in Nat /\ writer.bytes = Len(output.body) * Bytes(output.fmt)
    BY <1>2 DEF IInv, TypeOK, Counted, Finish
  <2> DEFINE size == writer.bytes % SizeMod
  <2>2. size \in 0 .. SizeMod - 1 /\ size <= writer.bytes
    BY <2>1, Sizes
  <2> HIDE DEF size
  <2>3. output' = [output EXCEPT !.data = size]
    BY <1>2 DEF Finish, Finalize, size
  <2>4. output' \in Files /\ output'.fmt = output.fmt /\ output'.body = output.body
        /\ output'.data = size
    BY <2>2, <2>3 DEF IInv, TypeOK, Files
  <2>5. TypeOK' /\ Shape'
    BY <2>4 DEF IInv, TypeOK, Shape, Finish, Closed
  <2>6. Counted'
    BY DEF Counted, Finish
  <2>7. Backed'
    BY <2>1, <2>2, <2>4 DEF Backed
  <2> QED BY <2>5, <2>6, <2>7 DEF IInv
<1> QED BY <1>1, <1>2

LEMMA CrashKeeps ==
  ASSUME IInv, Crash
  PROVE  IInv'
<1>1. PICK n \in 0 .. Len(output.body) : output' = [output EXCEPT !.body = SubSeq(@, 1, n)]
  BY DEF Crash
<1> DEFINE body == SubSeq(output.body, 1, n)
<1>2. body \in Seq(Int) /\ Len(body) \in Nat
  BY DEF IInv, TypeOK, Files
<1> HIDE DEF body
<1>3. output' \in Files /\ output'.fmt = output.fmt /\ output'.data = 0 /\ output'.body = body
  BY <1>1, <1>2 DEF IInv, TypeOK, Counted, Crash, Files, body
<1>4. 0 <= Len(output'.body) * Bytes(output'.fmt)
  BY <1>2, <1>3 DEF Bytes
<1>5. TypeOK' /\ Shape'
  BY <1>3 DEF IInv, TypeOK, Shape, Crash, Closed
<1>6. Counted' /\ Backed'
  BY <1>3, <1>4 DEF Counted, Backed, Crash
<1> QED BY <1>5, <1>6 DEF IInv

LEMMA ReuseKeeps ==
  ASSUME IInv, Reuse
  PROVE  IInv'
<1>1. output \in Files /\ reader' = Parse(output) /\ output' = Absent /\ input' = output
  BY DEF IInv, TypeOK, Reuse
<1>2. reader'.total \in Nat /\ reader'.read = 0 /\ DOMAIN reader' = {"ok", "total", "read"}
  BY <1>1, ParseType
<1>3. TypeOK' /\ Shape'
  BY <1>1, <1>2, AbsentIsFile DEF IInv, TypeOK, Shape, Reuse
<1>4. Counted' /\ Backed'
  BY <1>1 DEF Counted, Backed, Reuse, Absent
<1> QED BY <1>3, <1>4 DEF IInv

LEMMA Inductive == IInv /\ [Next]_vars => IInv'
<1>1. IInv /\ UNCHANGED vars => IInv'
  BY DEF vars, IInv, TypeOK, Shape, Counted, Backed
<1> QED BY <1>1, OpenKeeps, StartKeeps, RenderKeeps, FinishKeeps, CrashKeeps, ReuseKeeps DEF Next

\* Files, positions and counters have their types, and the invariant above holds.
THEOREM Invariance == Spec => []IInv
<1>1. Init => IInv
  BY InitIInv
<1>2. IInv /\ [Next]_vars => IInv'
  BY Inductive
<1> QED BY <1>1, <1>2, PTL DEF Spec

\* Whatever becomes of a rendering, the end of the program or a full disk, its file never
\* claims a frame that is not in it.
THEOREM NoClaimUnbacked == Spec => []FramesAreBacked
<1>1. IInv => FramesAreBacked
  <2> SUFFICES ASSUME IInv PROVE Parse(output).total * Channels <= Len(output.body)
    BY DEF IInv, FramesAreBacked
  <2>1. output.data \in Nat /\ Len(output.body) \in Nat /\ output.fmt \in {"Int16", "Float32", "none"}
    BY Sizes DEF IInv, TypeOK, Files
  <2>2. CASE Parse(output).ok
    <3>1. output.fmt \in {"Int16", "Float32"} /\ Parse(output).total = output.data \div FrameBytes(output.fmt)
      BY <2>1, <2>2 DEF Parse
    <3> QED BY <2>1, <3>1, ClaimIsBacked DEF IInv, Backed
  <2>3. CASE ~Parse(output).ok
    <3>1. Parse(output).total = 0
      BY <2>3 DEF Parse
    <3> QED BY <2>1, <3>1, Sizes
  <2> QED BY <2>2, <2>3
<1> QED BY <1>1, Invariance, PTL

-----------------------------------------------------------------------------
(* What is in the file.                                                    *)

\* Frames are rendered block by block as they are all at once.
Joins(fmt, file, r, m, n) ==
  Rendering(fmt, file, r, m) \o Rendering(fmt, file, r + m, n) = Rendering(fmt, file, r, m + n)

LEMMA RenderingJoins ==
  ASSUME NEW fmt, NEW file \in Files, NEW r \in Nat, NEW m \in Nat, NEW n \in Nat
  PROVE  Joins(fmt, file, r, m, n)
<1> DEFINE A == Rendering(fmt, file, r, m)
           B == Rendering(fmt, file, r + m, n)
           W == Rendering(fmt, file, r, m + n)
           mc == m * Channels
           nc == n * Channels
           rc == r * Channels
<1>1. mc \in Nat /\ nc \in Nat /\ rc \in Nat /\ (m + n) * Channels = mc + nc
      /\ (r + m) * Channels = rc + mc
  BY Sizes
<1>0. mc \in Nat /\ nc \in Nat /\ rc \in Nat
  BY <1>1
<1>2. A \in Seq(Int) /\ Len(A) = mc /\ B \in Seq(Int) /\ Len(B) = nc
      /\ W \in Seq(Int) /\ Len(W) = mc + nc
  BY <1>1, RenderingType
<1> DEFINE Sound(at) == Encode(fmt, IF at <= Len(file.body) THEN file.body[at] ELSE 0)
<1>3. \A k \in 1 .. mc : A[k] = Sound(rc + k)
  BY <1>1 DEF Rendering, ReadFrames
<1>4. \A k \in 1 .. nc : B[k] = Sound((rc + mc) + k)
  BY <1>1 DEF Rendering, ReadFrames
<1>5. \A k \in 1 .. (mc + nc) : W[k] = Sound(rc + k)
  BY <1>1 DEF Rendering, ReadFrames
<1> HIDE DEF A, B, W, Sound, mc, nc, rc
<1>6. A \o B \in Seq(Int) /\ Len(A \o B) = mc + nc
  BY <1>2
<1>7. \A k \in 1 .. (mc + nc) : (A \o B)[k] = W[k]
  <2> SUFFICES ASSUME NEW k \in 1 .. (mc + nc) PROVE (A \o B)[k] = W[k]
    OBVIOUS
  <2>1. CASE k <= mc
    <3>1. k \in 1 .. mc /\ (A \o B)[k] = A[k]
      BY <1>1, <1>2, <2>1
    <3> QED BY <1>3, <1>5, <3>1
  <2>2. CASE ~(k <= mc)
    <3>1. k - mc \in 1 .. nc /\ (A \o B)[k] = B[k - mc]
      <4>1. k \in 1 .. (Len(A) + Len(B)) /\ ~(k <= Len(A))
        BY <1>2, <2>2
      <4>2. (A \o B)[k] = B[k - Len(A)]
        BY <1>2, <4>1, JoinedElement
      <4>3. k - mc \in 1 .. nc
        BY <1>0, <2>2
      <4> QED BY <1>2, <4>2, <4>3
    <3>2. (rc + mc) + (k - mc) = rc + k
      BY <1>1
    <3> QED BY <1>4, <1>5, <3>1, <3>2
  <2> QED BY <2>1, <2>2
<1>8. A \o B = W
  BY <1>2, <1>6, <1>7, SameSequence
<1> QED BY <1>8 DEF Joins, A, B, W

\* While the disk is not full, what has been written is what has been rendered since start().
RenderedSoFar ==
  /\ rendered <= reader.read
  /\ output.body = Rendering(output.fmt, input, reader.read - rendered, rendered)
Faithful ==
  /\ phase = "render" => (writer.bad => full) /\ (~full => RenderedSoFar)
  /\ phase = "idle" /\ output # Absent /\ ~full =>
       /\ RenderedSoFar /\ output.fmt \in Formats
       /\ output.data = (Len(output.body) * Bytes(output.fmt)) % SizeMod

LEMMA RenderFaithful ==
  ASSUME IInv, Faithful, Render
  PROVE  Faithful'
<1> DEFINE got == Min({block, reader.total - reader.read})
           samples == Rendering(output.fmt, input, reader.read, got)
<1>1. block \in Nat /\ reader.total \in Nat /\ reader.read \in Nat /\ got > 0
  BY WavAssumption DEF IInv, TypeOK, Shape, Render
<1>2. got \in Nat
  <2>1. got = IF block <= reader.total - reader.read THEN block ELSE reader.total - reader.read
    BY <1>1, MinOfTwo
  <2> HIDE DEF got
  <2> QED BY <1>1, <2>1
<1>3. PICK kept \in IF writer.bad THEN {0} ELSE 0 .. Len(samples) :
        Write(samples, kept) /\ full' = (full \/ kept < Len(samples))
  BY DEF Render, got, samples, Rendering
<1>4. rendered' = rendered + got /\ reader'.read = reader.read + got
      /\ phase' = "render" /\ phase = "render" /\ UNCHANGED input
  BY DEF IInv, Shape, Render, got
<1> HIDE DEF got
<1>5. samples \in Seq(Int) /\ Len(samples) \in Nat
  BY <1>1, <1>2, RenderingType, Sizes DEF IInv, TypeOK
<1> HIDE DEF samples
<1>6. kept \in Nat /\ kept <= Len(samples)
  BY <1>3, <1>5
<1>7. writer'.bad <=> writer.bad \/ kept < Len(samples)
  BY <1>3 DEF IInv, Shape, Write
<1>8. writer'.bad => full'
  BY <1>3, <1>4, <1>7 DEF Faithful
<1>9. ASSUME ~full'
      PROVE  RenderedSoFar'
  <2>1. ~full /\ kept = Len(samples)
    <3>1. ~full /\ ~(kept < Len(samples))
      BY <1>3, <1>9
    <3> QED BY <1>5, <1>6, <3>1
  <2>2. rendered \in Nat /\ reader.read - rendered \in Nat
        /\ output.body = Rendering(output.fmt, input, reader.read - rendered, rendered)
    BY <1>1, <1>4, <2>1 DEF Faithful, RenderedSoFar, IInv, TypeOK
  <2>3. SubSeq(samples, 1, kept) = samples
    BY <1>5, <2>1
  <2>4. output'.body = output.body \o samples /\ output'.fmt = output.fmt
    BY <1>3, <2>3 DEF IInv, TypeOK, Files, Write
  <2> DEFINE from == reader.read - rendered
  <2>5. from \in Nat /\ from + rendered = reader.read /\ reader'.read - rendered' = from
        /\ rendered' <= reader'.read
    BY <1>1, <1>2, <1>4, <2>2
  <2>6. samples = Rendering(output.fmt, input, from + rendered, got)
    BY <2>5 DEF samples
  <2>7. output.body = Rendering(output.fmt, input, from, rendered)
    BY <2>2
  <2> HIDE DEF from
  <2>8. output.body \o samples = Rendering(output.fmt, input, from, rendered + got)
    <3>1. input \in Files
      BY DEF IInv, TypeOK
    <3>2. Joins(output.fmt, input, from, rendered, got)
      BY <1>2, <2>2, <2>5, <3>1, RenderingJoins
    <3> QED BY <2>6, <2>7, <3>2 DEF Joins
  <2> QED BY <1>4, <2>4, <2>5, <2>8 DEF RenderedSoFar
<1> QED BY <1>4, <1>8, <1>9 DEF Faithful

LEMMA FaithfulStep == IInv /\ Faithful /\ [Next]_vars => Faithful'
<1> SUFFICES ASSUME IInv, Faithful, [Next]_vars PROVE Faithful'
  OBVIOUS
<1>1. ASSUME NEW size \in BlockSizes, Open(size) PROVE Faithful'
  BY <1>1 DEF Open, Faithful, RenderedSoFar
<1>2. ASSUME NEW fmt \in Formats, Start(fmt) PROVE Faithful'
  <2>1. output'.body = <<>> /\ rendered' = 0 /\ reader' = reader /\ phase' = "render"
        /\ ~full' /\ ~writer'.bad
    BY <1>2 DEF Start, Closed
  <2>2. Rendering(fmt, input, reader.read, 0) = <<>>
    <3>1. 0 * Channels = 0
      BY Sizes
    <3>2. Rendering(fmt, input, reader.read, 0) \in Seq(Int)
          /\ Len(Rendering(fmt, input, reader.read, 0)) = 0
      BY <3>1, RenderingType DEF IInv, TypeOK, Shape
    <3> QED BY <3>2
  <2>3. reader.read \in Nat /\ reader'.read - rendered' = reader.read /\ rendered' <= reader'.read
    BY <2>1 DEF IInv, TypeOK, Shape
  <2>4. output'.fmt = fmt /\ input' = input
    BY <1>2 DEF Start
  <2> QED BY <2>1, <2>2, <2>3, <2>4 DEF Faithful, RenderedSoFar
<1>3. CASE Render
  BY <1>3, RenderFaithful
<1>4. ASSUME Finish PROVE Faithful'
  <2>1. phase = "render" /\ phase' = "idle" /\ UNCHANGED <<input, reader, rendered, full>>
    BY <1>4 DEF Finish
  <2>2. CASE full
    BY <2>1, <2>2 DEF Faithful
  <2>3. CASE ~full
    <3>1. ~writer.bad /\ RenderedSoFar
      BY <2>1, <2>3 DEF Faithful
    <3>2. output' = [output EXCEPT !.data = writer.bytes % SizeMod]
      BY <1>4, <3>1 DEF Finish, Finalize
    <3>3. output'.body = output.body /\ output'.fmt = output.fmt
          /\ output'.data = writer.bytes % SizeMod
      BY <3>2 DEF IInv, TypeOK, Files
    <3>4. output.fmt \in Formats /\ writer.bytes = Len(output.body) * Bytes(output.fmt)
      BY <2>1, <3>1 DEF IInv, Counted
    <3> QED BY <2>1, <3>1, <3>3, <3>4 DEF Faithful, RenderedSoFar
  <2> QED BY <2>2, <2>3
<1>5. CASE Crash
  BY <1>5 DEF Crash, Faithful
<1>6. CASE Reuse
  BY <1>6 DEF Reuse, Faithful
<1>7. CASE UNCHANGED vars
  BY <1>7 DEF vars, Faithful, RenderedSoFar
<1> QED BY <1>1, <1>2, <1>3, <1>4, <1>5, <1>6, <1>7 DEF Next

\* A number of frames in bytes, taken apart again.
LEMMA FramesOfBytes ==
  ASSUME NEW fmt \in {"Int16", "Float32"}, NEW n \in Nat
  PROVE  /\ (n * Channels) * Bytes(fmt) = n * FrameBytes(fmt)
         /\ (n * FrameBytes(fmt)) \div FrameBytes(fmt) = n
<1> DEFINE width == FrameBytes(fmt)
<1>1. width \in Nat /\ 0 < width /\ (n * Channels) * Bytes(fmt) = n * width
  BY Sizes DEF FrameBytes, Bytes
<1> HIDE DEF width
<1>2. (n * width) \div width = n
  BY <1>1
<1> QED BY <1>1, <1>2 DEF width

\* A rendering that found room on the disk reads back with as many frames as were rendered,
\* and they are the input's from where its reader stood, in order, whatever the blocks.
THEOREM RenderingReadsBack == Spec => []FileIsTheRendering
<1>1. Init => Faithful
  BY DEF Init, Faithful
<1>2. IInv /\ Faithful /\ [Next]_vars => Faithful'
  BY FaithfulStep
<1>3. IInv /\ Faithful => FileIsTheRendering
  <2> SUFFICES ASSUME IInv, Faithful, phase = "idle", output # Absent, ~full,
                      0 < rendered * FrameBytes(output.fmt),
                      rendered * FrameBytes(output.fmt) < SizeMod
               PROVE  /\ Parse(output).ok /\ Parse(output).total = rendered
                      /\ output.body = Rendering(output.fmt, input, reader.read - rendered, rendered)
    BY DEF FileIsTheRendering, Rendering
  <2>1. RenderedSoFar /\ output.fmt \in {"Int16", "Float32"}
        /\ output.data = (Len(output.body) * Bytes(output.fmt)) % SizeMod
    BY FormatsAre DEF Faithful
  <2>2. rendered \in Nat /\ reader.read - rendered \in Nat
    BY <2>1 DEF IInv, TypeOK, Shape, RenderedSoFar
  <2>3. Len(output.body) = rendered * Channels
    BY <2>1, <2>2, RenderingType DEF IInv, TypeOK, RenderedSoFar
  <2> DEFINE size == rendered * FrameBytes(output.fmt)
  <2>4. Len(output.body) * Bytes(output.fmt) = size /\ size \div FrameBytes(output.fmt) = rendered
    BY <2>1, <2>2, <2>3, FramesOfBytes
  <2>5. size \in Nat /\ 0 < size /\ size < SizeMod
    <3>1. FrameBytes(output.fmt) \in Nat
      BY <2>1, Sizes DEF FrameBytes, Bytes
    <3> QED BY <2>2, <3>1
  <2> HIDE DEF size
  <2>6. output.data = size /\ size # 0
    BY <2>1, <2>4, <2>5, Sizes
  <2> QED BY <2>1, <2>4, <2>6 DEF Parse, RenderedSoFar
<1> QED BY <1>1, <1>2, <1>3, Invariance, PTL DEF Spec

-----------------------------------------------------------------------------
(* What copies of copies cost.                                             *)

\* A quotient is known by the multiple below.
LEMMA DivIs ==
  ASSUME NEW a \in Int, NEW d \in Nat, 0 < d, NEW q \in Int, q * d <= a, a < q * d + d
  PROVE  a \div d = q
<1> DEFINE e == a \div d
           r == a % d
<1>1. e \in Int /\ r \in 0 .. d - 1 /\ a = d * e + r
  OBVIOUS
<1> HIDE DEF e, r
<1>2. ~(e < q)
  <2> SUFFICES ASSUME e < q PROVE FALSE
    OBVIOUS
  <2>1. d * e + d <= d * q
    <3>1. e + 1 <= q
      BY <1>1
    <3>2. d * (e + 1) <= d * q
      BY <1>1, <3>1
    <3> QED BY <1>1, <3>2
  <2> QED BY <1>1, <2>1
<1>3. ~(q < e)
  <2> SUFFICES ASSUME q < e PROVE FALSE
    OBVIOUS
  <2>1. d * q + d <= d * e
    <3>1. q + 1 <= e
      BY <1>1
    <3>2. d * (q + 1) <= d * e
      BY <1>1, <3>1
    <3> QED BY <1>1, <3>2
  <2> QED BY <1>1, <2>1
<1>4. e = q
  BY <1>1, <1>2, <1>3
<1> QED BY <1>4 DEF e

\* A number of steps, scaled by one step less than full scale and rounded: nothing up to half
\* of full scale, one step beyond.
LEMMA RoundedUp ==
  ASSUME NEW c \in Nat, c <= Full
  PROVE  Round(c * (Full - 1), Full) = IF 2 * c <= Full THEN c ELSE c - 1
<1> DEFINE m == c * Full
           n == c * (Full - 1)
           a == 2 * n + Full
<1>1. m \in Nat /\ n = m - c /\ n \in Nat
  <2>1. m \in Nat /\ n = m - c
    BY Sizes
  <2>2. c * 1 <= c * Full
    BY Sizes
  <2> QED BY <2>1, <2>2
<1>2. c * (2 * Full) = 2 * m /\ (c - 1) * (2 * Full) = 2 * m - 2 * Full
  BY Sizes
<1> HIDE DEF m, n
<1>3. a \in Nat /\ a = (2 * m - 2 * c) + Full
  BY <1>1, Sizes
<1>4. Round(n, Full) = a \div (2 * Full)
  BY <1>1 DEF Round
<1> HIDE DEF a
<1> DEFINE d == 2 * Full
<1>5. d \in Nat /\ 0 < d /\ d = 2 * Full /\ c * d = 2 * m /\ (c - 1) * d = 2 * m - d
  BY <1>2, Sizes
<1> HIDE DEF d
<1>6. ASSUME 2 * c <= Full
      PROVE  a \div d = c
  <2>1. c * d <= a /\ a < c * d + d
    BY <1>1, <1>3, <1>5, <1>6, Sizes
  <2>2. c \in Int /\ a \in Int
    BY <1>3
  <2> QED BY <1>5, <2>1, <2>2, DivIs
<1>7. ASSUME ~(2 * c <= Full)
      PROVE  a \div d = c - 1
  <2>1. (c - 1) * d <= a /\ a < (c - 1) * d + d
    BY <1>1, <1>3, <1>5, <1>7, Sizes
  <2>2. c - 1 \in Int /\ a \in Int
    BY <1>3
  <2> QED BY <1>5, <2>1, <2>2, DivIs
<1> QED BY <1>4, <1>6, <1>7 DEF n, d

LEMMA RoundedDown ==
  ASSUME NEW c \in Nat, 0 < c, c <= Full
  PROVE  Round((-c) * (Full - 1), Full) = -(IF 2 * c <= Full THEN c ELSE c - 1)
<1> DEFINE n == c * (Full - 1)
           m == (-c) * (Full - 1)
<1>1. m = -n /\ n \in Nat /\ 0 < n
  <2>1. m = -n /\ n \in Int
    BY Sizes
  <2>2. 1 * (Full - 1) <= c * (Full - 1)
    BY Sizes
  <2> QED BY <2>1, <2>2, Sizes
<1>2. Round(n, Full) = IF 2 * c <= Full THEN c ELSE c - 1
  BY RoundedUp
<1> HIDE DEF n, m
<1>3. ~(m >= 0) /\ n >= 0 /\ -m = n
  BY <1>1
<1>4. Round(m, Full) = -Round(n, Full)
  BY <1>3 DEF Round
<1> QED BY <1>2, <1>4 DEF m

\* A sample inside full scale is not clamped.
LEMMA ClampedIs ==
  ASSUME NEW s \in Int
  PROVE  /\ Scale <= s => Clamped(s) = Scale
         /\ s <= -Scale => Clamped(s) = -Scale
         /\ -Scale <= s /\ s <= Scale => Clamped(s) = s
<1> DEFINE m == IF Scale <= s THEN Scale ELSE s
<1>1. Min({Scale, s}) = m
  BY MinOfTwo, ScaleIs
<1>2. m \in Int
  BY ScaleIs
<1>3. (Scale <= s => m = Scale) /\ (s <= Scale => m = s)
  BY ScaleIs
<1> HIDE DEF m
<1>4. Max({-Scale, m}) = IF -Scale >= m THEN -Scale ELSE m
  BY <1>2, MaxOfTwo, ScaleIs
<1>5. Clamped(s) = IF -Scale >= m THEN -Scale ELSE m
  BY <1>1, <1>4 DEF Clamped
<1> QED BY <1>2, <1>3, <1>5, ScaleIs

\* A common factor of both sides.
LEMMA Cancel ==
  ASSUME NEW k \in Nat, 0 < k, NEW a \in Int, NEW b \in Int, k * a < k * b
  PROVE  a < b
<1> SUFFICES ASSUME b <= a PROVE FALSE
  OBVIOUS
<1>1. k * b <= k * a
  OBVIOUS
<1> QED BY <1>1

\* What the rounding of a quotient says of it.
LEMMA RoundBounds ==
  ASSUME NEW n \in Nat, NEW d \in Nat, 0 < d
  PROVE  LET q == Round(n, d)
         IN q \in Int /\ q * (2 * d) <= 2 * n + d /\ 2 * n + d < q * (2 * d) + 2 * d
<1> DEFINE a == 2 * n + d
           w == 2 * d
           q == a \div w
           r == a % w
<1>1. a \in Nat /\ w \in Nat /\ 0 < w
  OBVIOUS
<1> HIDE DEF a, w
<1>2. q \in Int /\ r \in 0 .. w - 1 /\ a = w * q + r
  BY <1>1
<1>3. Round(n, d) = q
  BY DEF Round, a, w
<1> HIDE DEF q, r
<1>4. q * w = w * q
  BY <1>1, <1>2
<1>5. q * w <= a /\ a < q * w + w
  BY <1>1, <1>2, <1>4
<1> QED BY <1>2, <1>3, <1>5 DEF a, w

LEMMA RoundMirrored ==
  ASSUME NEW n \in Int, NEW d \in Nat, 0 < d
  PROVE  n < 0 => Round(n, d) = -Round(-n, d)
<1> SUFFICES ASSUME n < 0 PROVE Round(n, d) = -Round(-n, d)
  OBVIOUS
<1> DEFINE m == -n
<1>1. ~(n >= 0) /\ m >= 0
  OBVIOUS
<1>2. Round(n, d) = -((2 * m + d) \div (2 * d))
  BY <1>1 DEF Round
<1>3. Round(m, d) = (2 * m + d) \div (2 * d)
  BY <1>1 DEF Round
<1> QED BY <1>2, <1>3

\* The steps a 16-bit file makes of a sample.
Steps(x) == Round(Clamped(x) * (Full - 1), Scale)

\* The first file: a step and a half at most, a step up to half of full scale.
LEMMA FirstUp ==
  ASSUME NEW c \in Nat, c <= Scale
  PROVE  LET q == Round(c * (Full - 1), Scale)
         IN /\ q \in Nat /\ q <= Full /\ q * Fine \in Int
            /\ 2 * (q * Fine - c) <= Fine /\ 2 * (c - q * Fine) <= 3 * Fine
            /\ 2 * c <= Scale => 2 * q <= Full /\ c - q * Fine <= Fine
<1> DEFINE n == c * (Full - 1)
           q == Round(n, Scale)
           y == q * Fine
           big == c * Full
           copy == Full * y
<1>1. big \in Nat /\ n = big - c /\ n \in Nat
  <2>1. big \in Nat /\ n = big - c
    BY Sizes
  <2>2. c * 1 <= c * Full
    BY Sizes
  <2> QED BY <2>1, <2>2
<1>2. q \in Int /\ q * (2 * Scale) <= 2 * n + Scale /\ 2 * n + Scale < q * (2 * Scale) + 2 * Scale
  BY <1>1, ScaleIs, RoundBounds
<1> HIDE DEF n, q
<1>3. y \in Int /\ copy \in Int /\ q * (2 * Scale) = 2 * copy
  BY <1>2, ScaleIs, Sizes
<1>4. 2 * copy <= (2 * big - 2 * c) + Scale /\ (2 * big - 2 * c) + Scale < 2 * copy + 2 * Scale
  BY <1>1, <1>2, <1>3, ScaleIs
<1>5. Full * (c - y) = big - copy
  BY <1>3, Sizes
<1>6. Full * Fine = Scale /\ Full * (2 * (c - y)) = 2 * (big - copy)
      /\ Full * (2 * (y - c)) = 2 * (copy - big) /\ Full * (3 * Fine + 1) = 3 * Scale + Full
      /\ Full * (Fine + 1) = Scale + Full
  BY <1>3, <1>5, ScaleIs, Sizes
<1> HIDE DEF y, big, copy
<1>7. 2 * (y - c) <= Fine
  <2>1. Full * (2 * (y - c)) < Full * (Fine + 1)
    BY <1>1, <1>3, <1>4, <1>6, ScaleIs, Sizes
  <2>2. 2 * (y - c) < Fine + 1
    BY <1>3, <2>1, Cancel, Sizes
  <2> QED BY <1>3, <2>2, Sizes
<1>8. 2 * (c - y) <= 3 * Fine
  <2>1. Full * (2 * (c - y)) < Full * (3 * Fine + 1)
    BY <1>1, <1>3, <1>4, <1>6, ScaleIs, Sizes
  <2>2. 2 * (c - y) < 3 * Fine + 1
    BY <1>3, <2>1, Cancel, Sizes
  <2> QED BY <1>3, <2>2, Sizes
<1>9. 0 <= q
  <2> SUFFICES ASSUME q < 0 PROVE FALSE
    BY <1>2
  <2>1. (q + 1) * (2 * Scale) <= 0
    <3>1. q + 1 <= 0 /\ q + 1 \in Int /\ 2 * Scale \in Nat
      BY <1>2, ScaleIs
    <3> QED BY <3>1
  <2>2. (q + 1) * (2 * Scale) = q * (2 * Scale) + 2 * Scale
    BY <1>2, ScaleIs
  <2> QED BY <1>1, <1>2, <2>1, <2>2, ScaleIs
<1>10. n <= Scale * Full - Scale /\ Scale * Full \in Nat
  <2>1. c * (Full - 1) <= Scale * (Full - 1)
    BY ScaleIs, Sizes
  <2>2. Scale * (Full - 1) = Scale * Full - Scale /\ Scale * Full \in Nat
    BY ScaleIs, Sizes
  <2> QED BY <2>1, <2>2 DEF n
<1>11. q * (2 * Scale) = Scale * (2 * q) /\ Scale * (2 * Full) = 2 * (Scale * Full)
       /\ Scale * (2 * Full + 1) = 2 * (Scale * Full) + Scale /\ Scale * (Full + 1) = Scale * Full + Scale
  BY <1>2, ScaleIs, Sizes
<1>12. q <= Full
  <2>1. Scale * (2 * q) < Scale * (2 * Full)
    <3>1. Scale * (2 * q) <= 2 * (Scale * Full) - Scale
      BY <1>1, <1>2, <1>10, <1>11, ScaleIs
    <3> QED BY <1>2, <1>10, <1>11, <3>1, ScaleIs
  <2>2. 2 * q < 2 * Full
    BY <1>2, <2>1, Cancel, ScaleIs, Sizes
  <2> QED BY <1>2, <2>2, Sizes
<1>13. ASSUME 2 * c <= Scale
       PROVE  2 * q <= Full /\ c - y <= Fine
  <2>1. 2 * n <= Scale * Full - Scale
    <3>1. (2 * c) * (Full - 1) <= Scale * (Full - 1)
      BY <1>13, ScaleIs, Sizes
    <3>2. (2 * c) * (Full - 1) = 2 * n
      BY Sizes DEF n
    <3>3. Scale * (Full - 1) = Scale * Full - Scale
      BY ScaleIs, Sizes
    <3> QED BY <3>1, <3>2, <3>3
  <2>2. 2 * q <= Full
    <3>1. Scale * (2 * q) < Scale * (Full + 1)
      BY <1>1, <1>2, <1>10, <1>11, <2>1, ScaleIs
    <3>2. 2 * q < Full + 1
      BY <1>2, <3>1, Cancel, ScaleIs, Sizes
    <3> QED BY <1>2, <3>2, Sizes
  <2>3. c - y <= Fine
    <3>1. Full * (c - y) < Full * (Fine + 1)
      BY <1>1, <1>3, <1>4, <1>5, <1>6, <1>13, ScaleIs, Sizes
    <3>2. c - y < Fine + 1
      BY <1>3, <3>1, Cancel, Sizes
    <3> QED BY <1>3, <3>2, Sizes
  <2> QED BY <2>2, <2>3
<1> QED BY <1>2, <1>3, <1>7, <1>8, <1>9, <1>12, <1>13 DEF n, q, y

LEMMA FirstClose ==
  ASSUME NEW s \in Int
  PROVE  LET c == Clamped(s)
             q == Steps(s)
         IN /\ c \in Int /\ q \in Int /\ -Full <= q /\ q <= Full /\ q * Fine \in Int
            /\ 2 * (q * Fine - c) <= 3 * Fine /\ 2 * (c - q * Fine) <= 3 * Fine
            /\ 2 * c <= Scale /\ -Scale <= 2 * c =>
                 /\ 2 * q <= Full /\ -Full <= 2 * q
                 /\ c - q * Fine <= Fine /\ q * Fine - c <= Fine
<1> DEFINE c == Clamped(s)
           q == Steps(s)
<1>1. c \in Int /\ -Scale <= c /\ c <= Scale
  BY ClampedRange, ScaleIs
<1>2. q = Round(c * (Full - 1), Scale)
  BY DEF Steps
<1> HIDE DEF c, q
<1>3. CASE 0 <= c
  <2> DEFINE y == q * Fine
  <2>1. /\ q \in Nat /\ q <= Full /\ y \in Int
        /\ 2 * (y - c) <= Fine /\ 2 * (c - y) <= 3 * Fine
        /\ 2 * c <= Scale => 2 * q <= Full /\ c - y <= Fine
    BY <1>1, <1>2, <1>3, FirstUp
  <2> HIDE DEF y
  <2>2. /\ 2 * (y - c) <= 3 * Fine /\ y - c <= Fine /\ -Full <= q /\ -Full <= 2 * q
    BY <1>1, <2>1, Sizes
  <2> QED BY <1>1, <2>1, <2>2 DEF c, q, y
<1>4. CASE c < 0
  <2> DEFINE b == -c
             p == Round(b * (Full - 1), Scale)
             y == p * Fine
  <2>1. b \in Nat /\ b <= Scale /\ c = -b
    BY <1>1, <1>4, ScaleIs
  <2>2. /\ p \in Nat /\ p <= Full /\ y \in Int
        /\ 2 * (y - b) <= Fine /\ 2 * (b - y) <= 3 * Fine
        /\ 2 * b <= Scale => 2 * p <= Full /\ b - y <= Fine
    BY <2>1, FirstUp
  <2>3. q = -p
    <3>1. c * (Full - 1) \in Int /\ c * (Full - 1) < 0 /\ -(c * (Full - 1)) = b * (Full - 1)
      <4>1. c * (Full - 1) = -(b * (Full - 1)) /\ 0 < b
        BY <1>4, <2>1, Sizes
      <4>2. b * (Full - 1) \in Int /\ 1 * (Full - 1) <= b * (Full - 1)
        BY <2>1, <4>1, Sizes
      <4> QED BY <4>1, <4>2, Sizes
    <3> QED BY <1>2, <3>1, ScaleIs, RoundMirrored
  <2> HIDE DEF p, b
  <2>4. q * Fine = -y
    BY <2>2, <2>3, Sizes
  <2> HIDE DEF y
  <2> DEFINE z == q * Fine
  <2>5. z = -y /\ z \in Int
    BY <2>2, <2>4
  <2> HIDE DEF z
  <2>6. /\ q \in Int /\ -Full <= q /\ q <= Full
        /\ 2 * (z - c) <= 3 * Fine /\ 2 * (c - z) <= 3 * Fine
    BY <2>1, <2>2, <2>3, <2>5, Sizes
  <2>7. 2 * c <= Scale /\ -Scale <= 2 * c =>
          2 * q <= Full /\ -Full <= 2 * q /\ c - z <= Fine /\ z - c <= Fine
    BY <1>4, <2>1, <2>2, <2>3, <2>5, Sizes, ScaleIs
  <2> QED BY <1>1, <2>5, <2>6, <2>7 DEF c, q, z
<1> QED BY <1>1, <1>3, <1>4

\* A file after the first: a number of steps becomes another.
LEMMA StepsAgain ==
  ASSUME NEW q \in Int, -Full <= q, q <= Full
  PROVE  Clamped(q * Fine) = q * Fine /\ Steps(q * Fine) = Round(q * (Full - 1), Full)
<1> DEFINE x == q * Fine
<1>1. x \in Int /\ -Scale <= x /\ x <= Scale
  <2>1. (-Full) * Fine <= q * Fine /\ q * Fine <= Full * Fine /\ (-Full) * Fine = -(Full * Fine)
    BY Sizes
  <2> QED BY <2>1, ScaleIs, Sizes
<1>2. Clamped(x) = x
  BY <1>1, ClampedIs
<1> DEFINE n == q * (Full - 1)
<1>3. n \in Int /\ x * (Full - 1) = n * Fine
  BY Sizes
<1>4. Steps(x) = Round(n * Fine, Scale)
  BY <1>2, <1>3 DEF Steps
<1> HIDE DEF n, x
<1>5. ASSUME NEW m \in Nat
      PROVE  Round(m * Fine, Scale) = Round(m, Full)
  <2> DEFINE r == Round(m, Full)
             h == r * (2 * Full)
             a == 2 * m + Full
  <2>1. r \in Int /\ h <= a /\ a < h + 2 * Full
    BY Sizes, RoundBounds
  <2>2. h \in Int /\ a \in Int
    BY <2>1, Sizes
  <2>3. m * Fine \in Nat /\ m * Fine >= 0
    BY Sizes
  <2>4. Round(m * Fine, Scale) = (2 * (m * Fine) + Scale) \div (2 * Scale)
    BY <2>3 DEF Round
  <2>5. r * (2 * Scale) = h * Fine /\ 2 * (m * Fine) + Scale = a * Fine
        /\ (h + 2 * Full) * Fine = h * Fine + 2 * Scale
    BY <2>1, ScaleIs, Sizes
  <2> HIDE DEF r, h, a
  <2>6. h * Fine <= a * Fine /\ a * Fine < (h + 2 * Full) * Fine
    BY <2>1, <2>2, Sizes
  <2> DEFINE u == 2 * (m * Fine) + Scale
             w == 2 * Scale
  <2>7. u \in Int /\ w \in Nat /\ 0 < w
    BY <2>3, ScaleIs
  <2>8. r * w <= u /\ u < r * w + w
    BY <2>5, <2>6
  <2> HIDE DEF u, w
  <2>9. u \div w = r
    BY <2>1, <2>7, <2>8, DivIs
  <2> QED BY <2>4, <2>9 DEF u, w, r
<1>6. CASE 0 <= n
  <2>1. n \in Nat
    BY <1>3, <1>6
  <2>2. Steps(x) = Round(n, Full)
    BY <1>4, <1>5, <2>1
  <2> QED BY <1>2, <2>2 DEF x, n
<1>7. CASE n < 0
  <2> DEFINE m == -n
  <2>1. m \in Nat /\ n = -m
    BY <1>3, <1>7
  <2>2. n * Fine \in Int /\ n * Fine < 0 /\ -(n * Fine) = m * Fine
    <3>1. n * Fine = -(m * Fine) /\ 0 < m
      BY <1>7, <2>1, Sizes
    <3>2. m * Fine \in Int /\ 1 * Fine <= m * Fine
      BY <2>1, <3>1, Sizes
    <3> QED BY <3>1, <3>2, Sizes
  <2>3. Round(n * Fine, Scale) = -Round(m * Fine, Scale)
    BY <2>2, ScaleIs, RoundMirrored
  <2>4. Round(n, Full) = -Round(m, Full)
    BY <1>3, <1>7, Sizes, RoundMirrored
  <2> QED BY <1>2, <1>4, <1>5, <2>1, <2>3, <2>4 DEF x, n
<1> QED BY <1>2, <1>3, <1>6, <1>7 DEF x

\* How far q steps may be from p after n more files: on their side of zero, never louder.
Apart(p, q, n) ==
  /\ 0 <= p => 0 <= q /\ q <= p /\ p - q <= n
  /\ p < 0 => q <= 0 /\ p <= q /\ q - p <= n
  /\ 2 * p <= Full /\ -Full <= 2 * p => q = p

\* What a 16-bit file makes of a number of steps.
LEMMA Shortened ==
  ASSUME NEW p \in Int, -Full <= p, p <= Full, NEW q \in Int, NEW n \in Nat, Apart(p, q, n)
  PROVE  /\ -Full <= q /\ q <= Full
         /\ Round(q * (Full - 1), Full) \in Int /\ Apart(p, Round(q * (Full - 1), Full), n + 1)
<1> DEFINE r == Round(q * (Full - 1), Full)
<1>1. -Full <= q /\ q <= Full
  BY Sizes DEF Apart
<1>2. ASSUME 0 <= q
      PROVE  r = IF 2 * q <= Full THEN q ELSE q - 1
  BY <1>1, <1>2, RoundedUp
<1>3. ASSUME q < 0
      PROVE  r = -(IF 2 * (-q) <= Full THEN -q ELSE (-q) - 1)
  <2> DEFINE m == -q
  <2>1. m \in Nat /\ 0 < m /\ m <= Full /\ q = -m
    BY <1>1, <1>3, Sizes
  <2> HIDE DEF m
  <2>2. Round((-m) * (Full - 1), Full) = -(IF 2 * m <= Full THEN m ELSE m - 1)
    BY <2>1, RoundedDown
  <2> QED BY <2>1, <2>2 DEF m
<1> HIDE DEF r
<1>4. r \in Int
  BY <1>2, <1>3
<1>5. 0 <= p => 0 <= r /\ r <= p /\ p - r <= n + 1
  BY <1>2, Sizes DEF Apart
<1>6. p < 0 => r <= 0 /\ p <= r /\ r - p <= n + 1
  BY <1>2, <1>3, Sizes DEF Apart
<1>7. 2 * p <= Full /\ -Full <= 2 * p => r = p
  BY <1>2, <1>3, Sizes DEF Apart
<1> QED BY <1>1, <1>4, <1>5, <1>6, <1>7 DEF Apart, r

\* x is what n 16-bit files have left of s.
Near(s, x, n) ==
  /\ n = 0 => x = s
  /\ 0 < n => \E q \in Int : x = q * Fine /\ Apart(Steps(s), q, n - 1)

\* One more file takes one more step, if it has 16 bits, and nothing otherwise.
LEMMA NearStill ==
  ASSUME NEW s \in Int, NEW x \in Int, NEW n \in Nat, Near(s, x, n)
  PROVE  /\ Near(s, Encode("Int16", x), n + 1)
         /\ Near(s, Encode("Float32", x), n)
<1> DEFINE p == Steps(s)
<1>1. p \in Int /\ -Full <= p /\ p <= Full
  BY FirstClose
<1>2. Encode("Float32", x) = x /\ Encode("Int16", x) = Steps(x) * Fine
  BY DEF Encode, Steps
<1>3. \E q \in Int : Steps(x) = q /\ Apart(p, q, n)
  <2>1. CASE n = 0
    <3>1. x = s
      BY <2>1 DEF Near
    <3> HIDE DEF p
    <3>2. Apart(p, p, n)
      BY <1>1, <2>1 DEF Apart
    <3> QED BY <1>1, <3>1, <3>2 DEF p
  <2>2. CASE 0 < n
    <3>1. PICK q \in Int : x = q * Fine /\ Apart(p, q, n - 1)
      BY <2>2 DEF Near
    <3> DEFINE r == Round(q * (Full - 1), Full)
    <3> HIDE DEF p
    <3>2. n - 1 \in Nat /\ (n - 1) + 1 = n
      BY <2>2
    <3>3. -Full <= q /\ q <= Full /\ r \in Int /\ Apart(p, r, (n - 1) + 1)
      BY <1>1, <3>1, <3>2, Shortened
    <3>4. Steps(x) = r
      BY <3>1, <3>3, StepsAgain
    <3> QED BY <3>2, <3>3, <3>4
  <2> QED BY <2>1, <2>2
<1>4. PICK q \in Int : Steps(x) = q /\ Apart(p, q, n)
  BY <1>3
<1>5. 0 < n + 1 /\ n + 1 # 0 /\ (n + 1) - 1 = n
  OBVIOUS
<1> QED BY <1>2, <1>4, <1>5 DEF Near

\* The input is the first one, `lossy` 16-bit files later, and its reader stays inside it.
Sourced ==
  /\ lossy \in Nat /\ first \in Seq(Int)
  /\ Len(input.body) <= Len(first)
  /\ \A k \in 1 .. Len(input.body) : Near(first[k], input.body[k], lossy)
  /\ reader.total * Channels <= Len(input.body)

\* An output that can be read is the input from its first sample on, encoded, as far as it goes.
Copying ==
  /\ output # Absent => output.fmt \in Formats
  /\ Len(output.body) <= Len(input.body)
  /\ \A k \in 1 .. Len(output.body) : output.body[k] = Encode(output.fmt, input.body[k])
  /\ phase = "idle" => reader.read \in {0, reader.total}
  /\ phase = "render" =>
       /\ reader.read = rendered \/ reader.read = reader.total
       /\ ~writer.bad /\ reader.read # reader.total => Len(output.body) = reader.read * Channels

\* A file of no format claims nothing, any other what it holds.
LEMMA ParsedInside ==
  ASSUME NEW file \in Files, file.fmt \in {"Int16", "Float32"},
         file.data <= Len(file.body) * Bytes(file.fmt)
  PROVE  Parse(file).total * Channels <= Len(file.body)
<1>1. file.data \in Nat /\ Len(file.body) \in Nat
  BY Sizes DEF Files
<1>2. CASE Parse(file).ok
  <2>1. Parse(file).total = file.data \div FrameBytes(file.fmt)
    BY <1>2 DEF Parse
  <2> QED BY <1>1, <2>1, ClaimIsBacked
<1>3. CASE ~Parse(file).ok
  <2>1. Parse(file).total = 0
    BY <1>3 DEF Parse
  <2> QED BY <1>1, <2>1, Sizes
<1> QED BY <1>2, <1>3

LEMMA CopyingInit == Init => Sourced /\ Copying
<1> SUFFICES ASSUME Init PROVE Sourced /\ Copying
  OBVIOUS
<1>1. IInv
  BY InitIInv
<1>2. PICK fmt \in Formats :
        /\ lossy = IF fmt = "Int16" THEN 1 ELSE 0
        /\ LET body == [k \in DOMAIN first |-> Encode(fmt, first[k])]
           IN input = [fmt |-> fmt, body |-> body, data |-> (Len(body) * Bytes(fmt)) % SizeMod]
  BY DEF Init
<1> DEFINE body == [k \in DOMAIN first |-> Encode(fmt, first[k])]
<1>3. first \in Seq(Int)
  BY FormatsAre DEF Init
<1>4. body \in Seq(Int) /\ Len(body) = Len(first)
  BY <1>3, EncodeIsInt
<1>5. \A k \in 1 .. Len(body) : body[k] = Encode(fmt, first[k]) /\ first[k] \in Int
  BY <1>3, <1>4
<1>6. input.fmt = fmt /\ input.body = body /\ input.data = (Len(body) * Bytes(fmt)) % SizeMod
  BY <1>2 DEF body
<1> HIDE DEF body
<1>7. \A k \in 1 .. Len(body) : Near(first[k], body[k], lossy)
  <2> SUFFICES ASSUME NEW k \in 1 .. Len(body) PROVE Near(first[k], body[k], lossy)
    OBVIOUS
  <2> DEFINE s == first[k]
  <2>1. s \in Int /\ body[k] = Encode(fmt, s)
    BY <1>5
  <2> HIDE DEF s
  <2>2. Near(s, s, 0)
    BY DEF Near
  <2>3. Near(s, Encode("Int16", s), 0 + 1) /\ Near(s, Encode("Float32", s), 0)
    BY <2>1, <2>2, NearStill
  <2>4. 0 + 1 = 1
    OBVIOUS
  <2>5. Near(s, body[k], lossy)
    BY <1>2, <2>1, <2>3, <2>4, FormatsAre
  <2> QED BY <2>5 DEF s
<1>8. reader.total * Channels <= Len(input.body)
  <2>1. input \in Files /\ input.fmt \in {"Int16", "Float32"}
    BY <1>1, <1>6, FormatsAre DEF IInv, TypeOK
  <2>2. Len(body) * Bytes(fmt) \in Nat
    BY <1>4 DEF Bytes
  <2>3. input.data <= Len(input.body) * Bytes(input.fmt)
    BY <1>6, <2>2, Sizes
  <2> QED BY <2>1, <2>3, ParsedInside DEF Init
<1>9. Sourced
  <2>1. lossy \in Nat
    BY <1>2
  <2> QED BY <1>3, <1>4, <1>6, <1>7, <1>8, <2>1 DEF Sourced
<1>10. Copying
  <2>1. output.body = <<>> /\ Len(output.body) = 0 /\ Len(input.body) \in Nat
    BY <1>4, <1>6 DEF Init, Absent
  <2>2. reader.read = 0
    BY <1>1, ParseType DEF Init, IInv, TypeOK
  <2> QED BY <2>1, <2>2 DEF Init, Copying
<1> QED BY <1>9, <1>10

\* What a turn of the loop renders is the input's next samples.
LEMMA RenderedSample ==
  ASSUME NEW fmt, NEW file \in Files, NEW r \in Nat, NEW n \in Nat,
         (r + n) * Channels <= Len(file.body),
         NEW k \in 1 .. n * Channels
  PROVE  Rendering(fmt, file, r, n)[k] = Encode(fmt, file.body[r * Channels + k])
<1> DEFINE rc == r * Channels
           nc == n * Channels
<1>1. rc \in Nat /\ nc \in Nat /\ (r + n) * Channels = rc + nc
  BY Sizes
<1>2. k \in 1 .. nc
  OBVIOUS
<1>3. Len(file.body) \in Nat
  BY DEF Files
<1>4. Rendering(fmt, file, r, n)[k]
        = Encode(fmt, IF rc + k <= Len(file.body) THEN file.body[rc + k] ELSE 0)
  BY DEF Rendering, ReadFrames
<1> HIDE DEF rc, nc
<1>5. rc + k <= Len(file.body)
  BY <1>1, <1>2, <1>3
<1> QED BY <1>4, <1>5 DEF rc

LEMMA CopyingRender ==
  ASSUME IInv, Sourced, Copying, Render
  PROVE  Sourced' /\ Copying'
<1> DEFINE got == Min({block, reader.total - reader.read})
           samples == Rendering(output.fmt, input, reader.read, got)
           at == Len(output.body)
<1>1. block \in Nat /\ reader.total \in Nat /\ reader.read \in Nat /\ got > 0
      /\ reader.read <= reader.total
  BY WavAssumption DEF IInv, TypeOK, Shape, Render
<1>2. got \in Nat /\ reader.read + got <= reader.total /\ reader.read # reader.total
  <2>1. got = IF block <= reader.total - reader.read THEN block ELSE reader.total - reader.read
    BY <1>1, MinOfTwo
  <2> HIDE DEF got
  <2> QED BY <1>1, <2>1
<1>3. PICK kept \in IF writer.bad THEN {0} ELSE 0 .. Len(samples) : Write(samples, kept)
  BY DEF Render, got, samples, Rendering
<1>4. /\ rendered' = rendered + got /\ reader'.read = reader.read + got
      /\ reader'.total = reader.total
      /\ phase' = "render" /\ phase = "render" /\ UNCHANGED <<input, first, lossy>>
  BY DEF IInv, Shape, Render, got
<1> HIDE DEF got
<1>5. samples \in Seq(Int) /\ Len(samples) = got * Channels /\ input \in Files
  BY <1>1, <1>2, RenderingType DEF IInv, TypeOK
<1>6. (reader.read + got) * Channels <= Len(input.body)
  <2>1. (reader.read + got) * Channels <= reader.total * Channels
    <3> DEFINE end == reader.read + got
    <3>1. end \in Nat /\ end <= reader.total
      BY <1>1, <1>2
    <3> HIDE DEF end
    <3>2. end * Channels <= reader.total * Channels
      BY <1>1, <3>1, Sizes
    <3> QED BY <3>2 DEF end
  <2>2. (reader.read + got) * Channels \in Nat /\ reader.total * Channels \in Nat
    BY <1>1, <1>2, Sizes
  <2>3. Len(input.body) \in Nat
    BY <1>5 DEF Files
  <2> QED BY <2>1, <2>2, <2>3 DEF Sourced
<1>7. \A k \in 1 .. got * Channels :
        samples[k] = Encode(output.fmt, input.body[reader.read * Channels + k])
  BY <1>1, <1>2, <1>5, <1>6, RenderedSample
<1> DEFINE rc == reader.read * Channels
           nc == got * Channels
           part == SubSeq(samples, 1, kept)
           body == output.body \o part
<1>8. rc \in Nat /\ nc \in Nat /\ (reader.read + got) * Channels = rc + nc
  BY <1>1, <1>2, Sizes
<1>9. kept \in Nat /\ kept <= nc /\ (writer.bad => kept = 0)
  <2>1. nc \in Nat /\ Len(samples) = nc
    BY <1>5, <1>8
  <2> HIDE DEF nc, samples
  <2> QED BY <1>3, <2>1
<1>10. part \in Seq(Int) /\ Len(part) = kept /\ \A k \in 1 .. kept : part[k] = samples[k]
  <2>1. kept \in 0 .. Len(samples)
    BY <1>5, <1>9
  <2> HIDE DEF samples
  <2> QED BY <1>5, <2>1
<1>11. output'.body = body /\ output'.fmt = output.fmt
  <2>1. output' = [output EXCEPT !.body = body]
    BY <1>3 DEF Write, body, part
  <2> HIDE DEF body
  <2> QED BY <2>1 DEF IInv, TypeOK, Files
<1>12. output.body \in Seq(Int) /\ at \in Nat /\ body \in Seq(Int) /\ Len(body) = at + kept
  <2>1. output.body \in Seq(Int)
    BY DEF IInv, TypeOK, Files
  <2> HIDE DEF part
  <2>2. Len(body) = Len(output.body) + kept /\ Len(output.body) \in Nat
    BY <1>10, <2>1, JoinedLength
  <2>3. body \in Seq(Int)
    BY <1>10, <2>1
  <2> QED BY <2>1, <2>2, <2>3
<1>13. \A k \in 1 .. at : body[k] = output.body[k]
  <2> HIDE DEF part
  <2> QED BY <1>10, <1>12
<1>14. \A k \in 1 .. kept : body[at + k] = part[k]
  <2> HIDE DEF part
  <2> QED BY <1>10, <1>12
<1>15. at <= Len(input.body) /\ Len(input.body) \in Nat
       /\ (~writer.bad => at = rc)
       /\ \A k \in 1 .. at : output.body[k] = Encode(output.fmt, input.body[k])
  BY <1>2, <1>4, <1>5 DEF Copying, Files
<1>16. writer'.bad <=> writer.bad \/ kept < Len(samples)
  BY <1>3 DEF IInv, Shape, Write
<1>17. \A k \in 1 .. kept : k \in 1 .. nc /\ samples[k] = Encode(output.fmt, input.body[rc + k])
  <2> SUFFICES ASSUME NEW k \in 1 .. kept
               PROVE  k \in 1 .. nc /\ samples[k] = Encode(output.fmt, input.body[rc + k])
    OBVIOUS
  <2>1. k \in 1 .. nc
    <3> HIDE DEF nc
    <3> QED BY <1>8, <1>9
  <2> QED BY <1>7, <2>1
<1>18. Len(samples) = nc /\ rc + nc <= Len(input.body)
  BY <1>5, <1>6, <1>8
<1> HIDE DEF rc, nc, part, body, samples, at
<1>19. at + kept <= Len(input.body)
  BY <1>8, <1>9, <1>12, <1>15, <1>18
<1>20. \A k \in 1 .. (at + kept) : body[k] = Encode(output.fmt, input.body[k])
  <2> SUFFICES ASSUME NEW k \in 1 .. (at + kept) PROVE body[k] = Encode(output.fmt, input.body[k])
    OBVIOUS
  <2>1. k \in Nat /\ 0 < k /\ (k <= at \/ at < k)
    BY <1>9, <1>12
  <2>2. CASE k <= at
    <3>1. k \in 1 .. at
      BY <1>12, <2>1, <2>2
    <3> QED BY <1>13, <1>15, <3>1
  <2>3. CASE at < k
    <3> DEFINE j == k - at
    <3>1. j \in 1 .. kept /\ at + j = k /\ ~writer.bad
      BY <1>9, <1>12, <2>1, <2>3
    <3> HIDE DEF j
    <3>2. body[k] = Encode(output.fmt, input.body[rc + j])
      BY <1>10, <1>14, <1>17, <3>1
    <3> QED BY <1>15, <3>1, <3>2
  <2> QED BY <2>1, <2>2, <2>3
<1>21. Sourced'
  BY <1>4 DEF Sourced
<1>22. /\ Len(output'.body) <= Len(input'.body)
       /\ \A k \in 1 .. Len(output'.body) : output'.body[k] = Encode(output'.fmt, input'.body[k])
  BY <1>4, <1>11, <1>12, <1>19, <1>20
<1>23. output' # Absent => output'.fmt \in Formats
  BY <1>4, <1>11 DEF IInv, Counted
<1>24. reader'.read = rendered' \/ reader'.read = reader'.total
  BY <1>2, <1>4 DEF Copying
<1>25. ~writer'.bad => Len(output'.body) = reader'.read * Channels
  <2> SUFFICES ASSUME ~writer'.bad PROVE Len(output'.body) = reader'.read * Channels
    OBVIOUS
  <2>1. ~writer.bad /\ ~(kept < nc)
    BY <1>16, <1>18
  <2>2. kept = nc /\ at = rc
    BY <1>8, <1>9, <1>15, <2>1
  <2> QED BY <1>4, <1>8, <1>11, <1>12, <2>2
<1> QED BY <1>4, <1>21, <1>22, <1>23, <1>24, <1>25 DEF Copying

LEMMA CopyingCrash ==
  ASSUME IInv, Sourced, Copying, Crash
  PROVE  Sourced' /\ Copying'
<1>1. PICK n \in 0 .. Len(output.body) : output' = [output EXCEPT !.body = SubSeq(@, 1, n)]
  BY DEF Crash
<1> DEFINE body == SubSeq(output.body, 1, n)
<1>2. output.body \in Seq(Int) /\ Len(output.body) \in Nat /\ Len(input.body) \in Nat
  BY DEF IInv, TypeOK, Files
<1>3. n \in Nat /\ n <= Len(output.body)
  BY <1>1, <1>2
<1>4. Len(body) = n /\ \A k \in 1 .. n : k \in 1 .. Len(output.body) /\ body[k] = output.body[k]
  BY <1>2, <1>3
<1>5. output'.body = body /\ output'.fmt = output.fmt
  <2>1. output' = [output EXCEPT !.body = body]
    BY <1>1
  <2> HIDE DEF body
  <2> QED BY <2>1 DEF IInv, TypeOK, Files
<1> HIDE DEF body
<1>6. phase' = "gone" /\ phase = "render" /\ UNCHANGED <<input, reader, first, lossy>>
  BY DEF Crash
<1>7. output.fmt \in Formats
  BY <1>6 DEF IInv, Counted
<1>8. Len(output'.body) <= Len(input'.body)
  BY <1>2, <1>3, <1>4, <1>5, <1>6 DEF Copying
<1>9. \A k \in 1 .. Len(output'.body) : output'.body[k] = Encode(output'.fmt, input'.body[k])
  BY <1>4, <1>5, <1>6 DEF Copying
<1>10. Sourced'
  BY <1>6 DEF Sourced
<1>11. Copying'
  BY <1>5, <1>6, <1>7, <1>8, <1>9 DEF Copying
<1> QED BY <1>10, <1>11

LEMMA CopyingReuse ==
  ASSUME IInv, Sourced, Copying, Reuse
  PROVE  Sourced' /\ Copying'
<1>1. /\ input' = output /\ output' = Absent /\ reader' = Parse(output) /\ first' = first
      /\ lossy' = lossy + (IF output.fmt = "Int16" THEN 1 ELSE 0)
      /\ phase' = "idle" /\ output # Absent
  BY DEF Reuse
<1>2. output.fmt \in {"Int16", "Float32"} /\ output \in Files /\ input \in Files
  BY <1>1, FormatsAre DEF Copying, IInv, TypeOK
<1>3. Len(output.body) \in Nat /\ Len(input.body) \in Nat /\ Len(first) \in Nat
  BY <1>2 DEF Files, Sourced
<1>4. Len(output.body) <= Len(input.body) /\ Len(output.body) <= Len(first)
  BY <1>3 DEF Sourced, Copying
<1>5. \A k \in 1 .. Len(output.body) : Near(first[k], output.body[k], lossy')
  <2> SUFFICES ASSUME NEW k \in 1 .. Len(output.body) PROVE Near(first[k], output.body[k], lossy')
    OBVIOUS
  <2> DEFINE s == first[k]
             x == input.body[k]
  <2>1. k \in 1 .. Len(input.body) /\ k \in 1 .. Len(first)
    BY <1>3, <1>4
  <2>2. s \in Int /\ x \in Int
    BY <1>2, <2>1 DEF Sourced, Files
  <2>3. Near(s, x, lossy) /\ lossy \in Nat
    BY <2>1 DEF Sourced
  <2>4. output.body[k] = Encode(output.fmt, x)
    BY DEF Copying
  <2> HIDE DEF s, x
  <2>5. Near(s, Encode("Int16", x), lossy + 1) /\ Near(s, Encode("Float32", x), lossy)
    BY <2>2, <2>3, NearStill
  <2>6. lossy + 0 = lossy
    BY <2>3
  <2>7. Near(s, output.body[k], lossy')
    BY <1>1, <1>2, <2>4, <2>5, <2>6
  <2> QED BY <2>7 DEF s
<1>6. reader'.total * Channels <= Len(output.body)
  <2>1. output.data <= Len(output.body) * Bytes(output.fmt)
    BY <1>2 DEF IInv, Backed
  <2> QED BY <1>1, <1>2, <2>1, ParsedInside
<1>7. lossy' \in Nat
  BY <1>1 DEF Sourced
<1>8. Sourced'
  BY <1>1, <1>4, <1>5, <1>6, <1>7 DEF Sourced
<1>9. Copying'
  <2>1. output'.body = <<>> /\ Len(output'.body) = 0
    BY <1>1 DEF Absent
  <2>2. reader'.read = 0
    BY <1>1, <1>2, ParseType
  <2> QED BY <1>1, <1>3, <2>1, <2>2 DEF Copying
<1> QED BY <1>8, <1>9

LEMMA CopyingStep == IInv /\ Sourced /\ Copying /\ [Next]_vars => Sourced' /\ Copying'
<1> SUFFICES ASSUME IInv, Sourced, Copying, [Next]_vars PROVE Sourced' /\ Copying'
  OBVIOUS
<1>1. ASSUME NEW size \in BlockSizes, Open(size) PROVE Sourced' /\ Copying'
  BY <1>1 DEF Open, Sourced, Copying
<1>2. ASSUME NEW fmt \in Formats, Start(fmt) PROVE Sourced' /\ Copying'
  <2>1. /\ output'.body = <<>> /\ output'.fmt = fmt /\ Len(output'.body) = 0
        /\ rendered' = 0 /\ phase = "idle" /\ phase' = "render" /\ ~writer'.bad
        /\ UNCHANGED <<input, reader, first, lossy>>
    BY <1>2 DEF Start, Closed
  <2>2. Len(input.body) \in Nat
    BY DEF IInv, TypeOK, Files
  <2>3. reader.read \in {0, reader.total} /\ 0 * Channels = 0
    BY <2>1, Sizes DEF Copying
  <2>4. Sourced'
    BY <2>1 DEF Sourced
  <2> QED BY <2>1, <2>2, <2>3, <2>4 DEF Copying
<1>3. CASE Render
  BY <1>3, CopyingRender
<1>4. ASSUME Finish PROVE Sourced' /\ Copying'
  <2>1. output'.body = output.body /\ output'.fmt = output.fmt
    BY <1>4 DEF Finish, Finalize, IInv, TypeOK, Files
  <2>2. phase = "render" /\ phase' = "idle" /\ reader.read = reader.total
        /\ UNCHANGED <<input, reader, first, lossy>>
    BY <1>4 DEF Finish
  <2>3. output.fmt \in Formats
    BY <2>2 DEF IInv, Counted
  <2>4. Sourced'
    BY <2>2 DEF Sourced
  <2> QED BY <2>1, <2>2, <2>3, <2>4 DEF Copying
<1>5. CASE Crash
  BY <1>5, CopyingCrash
<1>6. CASE Reuse
  BY <1>6, CopyingReuse
<1>7. CASE UNCHANGED vars
  BY <1>7 DEF vars, Sourced, Copying
<1> QED BY <1>1, <1>2, <1>3, <1>4, <1>5, <1>6, <1>7 DEF Next

\* However often a file is rendered into the next, the first 16-bit file on the way costs a
\* sample a step and a half at most and each one after it a step; a sample up to half of full
\* scale moves once, by a step at most.
THEOREM CopiesNeverDrift == Spec => []CopiesStayClose
<1>1. Init => Sourced /\ Copying
  BY CopyingInit
<1>2. IInv /\ Sourced /\ Copying /\ [Next]_vars => Sourced' /\ Copying'
  BY CopyingStep
<1>3. IInv /\ Sourced => CopiesStayClose
  <2> SUFFICES ASSUME IInv, Sourced, NEW k \in DOMAIN input.body, lossy > 0
               PROVE  LET c == Clamped(first[k])
                          x == input.body[k]
                          distance == Max({c, x}) - Min({c, x})
                      IN /\ 2 * distance <= (2 * lossy + 1) * Fine
                         /\ 2 * c \in -Scale .. Scale =>
                              distance <= Fine /\ x = Encode("Int16", c)
    BY DEF CopiesStayClose
  <2> DEFINE c == Clamped(first[k])
             x == input.body[k]
             p == Steps(first[k])
             y == p * Fine
  <2>1. k \in 1 .. Len(input.body) /\ x \in Int /\ Len(input.body) \in Nat
    BY DEF IInv, TypeOK, Files
  <2>2. k \in 1 .. Len(first) /\ first[k] \in Int /\ lossy \in Nat /\ Near(first[k], x, lossy)
    BY <2>1 DEF Sourced
  <2>3. PICK q \in Int : x = q * Fine /\ Apart(p, q, lossy - 1)
    BY <2>2 DEF Near
  <2>4. /\ c \in Int /\ p \in Int /\ y \in Int
        /\ 2 * (y - c) <= 3 * Fine /\ 2 * (c - y) <= 3 * Fine
        /\ 2 * c <= Scale /\ -Scale <= 2 * c =>
             2 * p <= Full /\ -Full <= 2 * p /\ c - y <= Fine /\ y - c <= Fine
    BY <2>2, FirstClose
  <2>5. Encode("Int16", c) = y
    <3>1. Clamped(c) = c
      <4>1. c \in -Scale .. Scale
        BY <2>2, ClampedRange
      <4> HIDE DEF c
      <4> QED BY <2>4, <4>1, ScaleIs, ClampedIs
    <3> QED BY <3>1 DEF Encode, Steps
  <2>6. Max({c, x}) - Min({c, x}) = IF c >= x THEN c - x ELSE x - c
    <3>1. (Max({c, x}) = IF c >= x THEN c ELSE x) /\ (Min({c, x}) = IF c <= x THEN c ELSE x)
      BY <2>1, <2>4, MaxOfTwo, MinOfTwo
    <3> HIDE DEF c, x
    <3> QED BY <2>1, <2>4, <3>1
  <2> DEFINE d == (lossy - 1) * Fine
             top == (2 * lossy + 1) * Fine
  <2>7. d \in Int /\ 0 <= d /\ top = 2 * d + 3 * Fine
    <3>1. lossy - 1 \in Nat /\ top = 2 * d + 3 * Fine
      BY <2>2, Sizes
    <3> QED BY <3>1, Sizes
  <2>8. (x <= y /\ y - x <= d) \/ (y <= x /\ x - y <= d)
    <3> HIDE DEF p, x, c
    <3>1. CASE 0 <= p
      <4>1. q <= p /\ p - q <= lossy - 1
        BY <2>3, <3>1 DEF Apart
      <4>2. q * Fine <= p * Fine /\ (p - q) * Fine <= (lossy - 1) * Fine
            /\ (p - q) * Fine = p * Fine - q * Fine
        BY <2>2, <2>4, <4>1, Sizes
      <4> QED BY <2>3, <2>4, <2>7, <4>2
    <3>2. CASE p < 0
      <4>1. p <= q /\ q - p <= lossy - 1
        BY <2>3, <3>2 DEF Apart
      <4>2. p * Fine <= q * Fine /\ (q - p) * Fine <= (lossy - 1) * Fine
            /\ (q - p) * Fine = q * Fine - p * Fine
        BY <2>2, <2>4, <4>1, Sizes
      <4> QED BY <2>3, <2>4, <2>7, <4>2
    <3> QED BY <2>4, <3>1, <3>2
  <2>9. 2 * c <= Scale /\ -Scale <= 2 * c => x = y
    BY <2>3, <2>4 DEF Apart
  <2> HIDE DEF c, x, p, y, d, top
  <2>10. 2 * (Max({c, x}) - Min({c, x})) <= top
    BY <2>1, <2>4, <2>6, <2>7, <2>8, Sizes
  <2>11. 2 * c \in -Scale .. Scale => Max({c, x}) - Min({c, x}) <= Fine /\ x = y
    BY <2>1, <2>4, <2>6, <2>9, ScaleIs, Sizes
  <2> QED BY <2>5, <2>10, <2>11 DEF c, x, top
<1> QED BY <1>1, <1>2, <1>3, Invariance, PTL DEF Spec

=============================================================================
