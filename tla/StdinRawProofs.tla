--------------------------- MODULE StdinRawProofs ---------------------------
(***************************************************************************)
(* Theorems about compressStdinRaw(), for every input, command line and    *)
(* size of the reads.  In raw mode a frame does not depend on the elements *)
(* of the input, so that the refinement of Framing is proved too, but for  *)
(* its fairness.                                                           *)
(***************************************************************************)
EXTENDS StdinRaw, FrameWriterProofs

(***************************************************************************)
(* The inductive invariant.                                                *)
(***************************************************************************)

Running == status = "running"

\* Where the bytes read are: with -s in frameBuf and in complete frames,
\* without it in the open frame too, and all of them in complete frames once
\* the loop is over.
Placed ==
  /\ rd <= Total(input)
  /\ Accounted
  /\ Streaming => got = 0
  /\ ~Streaming => push = 0 /\ ~fw.open /\ got <= frameSize
  /\ pc = "end" => rd = Total(input) /\ push = 0 /\ got = 0 /\ ~fw.open
  /\ status = "ok" => Complete(fw) = Total(input)

\* The open frame has no pledged size, is not empty and not full.
OpenFrame ==
  /\ status # "zstdError"
  /\ fw.open =>
       /\ fw.in = fw.zin /\ fw.pledged = Unknown
       /\ fw.in \in 1 .. maxBlockSize(opts) - 1

IInv ==
  TypeOK /\ opts.raw /\ Placed /\ OpenFrame
    /\ TableFits(fw.table, maxBlockSize(opts)) /\ Described(fw, opts)

(***************************************************************************)
(* Facts about the steps.                                                  *)
(***************************************************************************)

\* The sizes of a run, from the assumptions on the constants.
LEMMA Sizes ==
  ASSUME TypeOK
  PROVE  /\ maxBlockSize(opts) \in Nat \ {0} /\ maxBlockSize(opts) <= MaxFrameSize
         /\ minBlockSize(opts) \in Nat /\ minBlockSize(opts) <= MaxFrameSize
         /\ frameSize = minBlockSize(opts) /\ (Streaming <=> minBlockSize(opts) = 0)
         /\ MaxFrameSize \in Nat /\ MaxFrameSize < U32 /\ MaxFrameSize < U64Max
         /\ U32 \in Nat /\ U64Max \in Nat
         /\ Total(input) \in Nat /\ InChunk \in Nat \ {0}
<1>1. opts \in CommandLine /\ input \in Stream
  BY DEF TypeOK
<1>2. Total(input) \in Nat
  BY <1>1, TarAssumption DEF Total, Stream
<1>3. minBlockSize(opts) <= MaxFrameSize
  BY <1>1, ConfigAssumption DEF minBlockSize, CommandLine
<1> QED
  BY <1>1, <1>2, <1>3, BlockSizes, TarAssumption, ConfigAssumption, FrameWriterAssumption,
     StdinRawAssumption DEF frameSize, Streaming

\* The frame that one turn of pushBytesTar() fills.
Turn == Feed(IF fw.open THEN fw ELSE startFrame(fw, Unknown), canWrite(push))

\* One turn of pushBytesTar() pushes at least a byte, no more than fit in the
\* frame, and ends it where it is full.
LEMMA PushFacts ==
  ASSUME IInv, Push, NEW k, k = canWrite(push)
  PROVE  /\ k \in 1 .. push /\ status' = "running"
         /\ fw' \in FrameState /\ TableFits(fw'.table, maxBlockSize(opts))
         /\ Described(fw', opts) /\ Written(fw') = Written(fw) + k
         /\ \/ /\ fw'.open /\ fw'.in = fw'.zin /\ fw'.pledged = Unknown
               /\ fw'.in \in 1 .. maxBlockSize(opts) - 1 /\ fw'.ends = fw.ends
            \/ /\ ~fw'.open
               /\ fw'.ends = Append(fw.ends, Complete(fw) + maxBlockSize(opts))
               /\ Complete(fw') = Complete(fw) + maxBlockSize(opts)
<1>1. /\ status = "running" /\ push \in Nat /\ push > 0 /\ pushBytesTar(push)
      /\ fw \in FrameState /\ opts \in CommandLine
      /\ maxBlockSize(opts) \in Nat \ {0} /\ U64Max \in 0 .. U64Max
      /\ TableFits(fw.table, maxBlockSize(opts)) /\ Described(fw, opts)
  BY Sizes DEF Push, IInv, TypeOK
<1>2. fw.open => /\ fw.in \in Nat /\ fw.in = fw.zin /\ fw.in < maxBlockSize(opts)
                 /\ fw.pledged = Unknown
  BY <1>1 DEF IInv, OpenFrame
<1>3. k \in 1 .. push /\ k + (IF fw.open THEN fw.in ELSE 0) <= maxBlockSize(opts)
  BY <1>1, <1>2 DEF canWrite
<1>4. PICK g : g = IF fw.open THEN fw ELSE startFrame(fw, Unknown)
  OBVIOUS
<1>5. /\ g \in FrameState /\ g.open /\ g.in = g.zin /\ g.pledged = Unknown
      /\ g.in = IF fw.open THEN fw.in ELSE 0
      /\ g.ends = fw.ends /\ g.table = fw.table /\ g.skip = fw.skip /\ g.count = fw.count
  BY <1>1, <1>2, <1>4, StartFacts DEF Unknown
<1>6. PICK f : f = Turn
  OBVIOUS
<1>7. /\ f \in FrameState /\ f.open /\ f.in = g.in + k /\ f.zin = f.in /\ f.pledged = Unknown
      /\ f.ends = fw.ends /\ f.table = fw.table /\ f.skip = fw.skip /\ f.count = fw.count
  <2>1. f = Feed(g, k) /\ k \in Nat /\ g \in FrameState
    BY <1>3, <1>4, <1>5, <1>6 DEF Turn
  <2>2. /\ f \in FrameState
        /\ f.open = g.open /\ f.in = g.in + k /\ f.zin = g.zin + k /\ f.pledged = g.pledged
        /\ f.ends = g.ends /\ f.table = g.table /\ f.skip = g.skip /\ f.count = g.count
    BY <2>1, FeedFacts
  <2> QED
    BY <1>5, <2>2
<1>8. /\ Described(f, opts) /\ TableFits(f.table, maxBlockSize(opts))
      /\ ~Overfed(f) /\ ~PledgeBroken(f)
      /\ f.in \in 1 .. maxBlockSize(opts)
      /\ Complete(f) = Complete(fw) /\ Complete(fw) \in Nat
      /\ Complete(f) + f.zin = Written(fw) + k
  <2>1. Described(f, opts)
    BY <1>1, <1>7, SameFrames
  <2>2. f.in \in 1 .. maxBlockSize(opts)
    BY <1>1, <1>2, <1>3, <1>5, <1>7
  <2>3. Complete(f) = Complete(fw) /\ Complete(fw) \in Nat
    BY <1>1, <1>7, CompleteType DEF Complete
  <2>4. Complete(f) + f.zin = Written(fw) + k
    BY <1>1, <1>2, <1>3, <1>5, <1>7, <2>3 DEF Written
  <2> QED
    BY <1>1, <1>7, <2>1, <2>2, <2>3, <2>4 DEF Overfed, PledgeBroken
<1>9. \/ f.in < maxBlockSize(opts) /\ status' = status /\ fw' = f
      \/ f.in >= maxBlockSize(opts) /\ EndFrame(f)
  BY <1>1, <1>6, <1>8 DEF pushBytesTar, Turn
<1>10. CASE f.in < maxBlockSize(opts) /\ status' = status /\ fw' = f
  <2>1. Written(fw') = Written(fw) + k
    BY <1>7, <1>8, <1>10 DEF Written
  <2> QED
    BY <1>1, <1>3, <1>7, <1>8, <1>10, <2>1
<1>11. CASE f.in >= maxBlockSize(opts) /\ EndFrame(f)
  <2>1. f.in = maxBlockSize(opts) /\ f.zin = maxBlockSize(opts)
    BY <1>1, <1>7, <1>8, <1>11
  <2>2. /\ fw' \in FrameState /\ TableFits(fw'.table, maxBlockSize(opts))
        /\ Described(fw', opts)
        /\ status' = "running" /\ ~fw'.open /\ Complete(fw') = Complete(f) + f.zin
    BY <1>1, <1>7, <1>8, <1>11, EndFrameFacts
  <2>3. fw' = endFrameAndRecord(f)
    BY <1>8, <1>11 DEF EndFrame
  <2>4. fw'.ends = Append(fw.ends, Complete(fw) + maxBlockSize(opts))
    <3>1. fw'.ends = Append(f.ends, Complete(f) + f.zin)
      BY <1>7, <2>3, EndFacts
    <3> QED
      BY <1>7, <1>8, <2>1, <3>1, Zenon
  <2>5. Written(fw') = Written(fw) + k
    <3>1. Written(fw') = Complete(fw') + 0 /\ Complete(fw') \in Nat
      BY <2>2, CompleteType DEF Written
    <3> QED
      BY <1>8, <2>2, <3>1
  <2> QED
    BY <1>1, <1>3, <1>8, <2>1, <2>2, <2>4, <2>5
<1> QED
  BY <1>9, <1>10, <1>11

\* Ending the open frame at the end of the input.
LEMMA EndOpenFacts ==
  ASSUME IInv, ReadEnd, fw.open
  PROVE  /\ fw' \in FrameState /\ TableFits(fw'.table, maxBlockSize(opts))
         /\ Described(fw', opts) /\ status' = "running" /\ ~fw'.open
         /\ fw'.ends = Append(fw.ends, Total(input)) /\ Complete(fw') = Total(input)
<1>1. /\ fw \in FrameState /\ opts \in CommandLine /\ status = "running"
      /\ maxBlockSize(opts) \in Nat \ {0} /\ fw.in \in Nat /\ Complete(fw) \in Nat
      /\ TableFits(fw.table, maxBlockSize(opts)) /\ Described(fw, opts)
  BY Sizes, CompleteType DEF IInv, TypeOK, ReadEnd, At, FrameState
<1>2. /\ fw.in = fw.zin /\ fw.in \in 1 .. maxBlockSize(opts) /\ ~PledgeBroken(fw)
  BY <1>1 DEF IInv, OpenFrame, PledgeBroken
<1>3. Complete(fw) + fw.zin = Total(input)
  <2>1. push = 0 /\ got = 0 /\ rd = Total(input)
    BY DEF ReadEnd, At, IInv, Placed
  <2> QED
    BY <1>1, <1>2, <2>1 DEF IInv, Placed, Accounted, Written
<1>4. EndFrame(fw)
  BY DEF ReadEnd
<1>5. /\ fw' \in FrameState /\ TableFits(fw'.table, maxBlockSize(opts))
      /\ Described(fw', opts) /\ status' = "running" /\ ~fw'.open
      /\ Complete(fw') = Complete(fw) + fw.zin
  BY <1>1, <1>2, <1>4, EndFrameFacts
<1>6. fw' = endFrameAndRecord(fw)
  BY <1>2, <1>4 DEF EndFrame
<1>7. fw'.ends = Append(fw.ends, Complete(fw) + fw.zin)
  BY <1>1, <1>6, EndFacts
<1> QED
  BY <1>3, <1>5, <1>7

\* Compressing frameBuf, which fits in a frame, and is the end of the input if
\* it is not full.
LEMMA BufFacts ==
  ASSUME IInv, CompressBuf
  PROVE  /\ fw' \in FrameState /\ TableFits(fw'.table, maxBlockSize(opts))
         /\ Described(fw', opts) /\ ~fw'.open
         /\ fw'.ends = Append(fw.ends, Complete(fw) + got)
         /\ Complete(fw') = Complete(fw) + got /\ Complete(fw') = rd
         /\ got \in 1 .. frameSize /\ (got < frameSize => rd = Total(input))
<1>1. /\ fw \in FrameState /\ opts \in CommandLine /\ opts.raw /\ got \in Nat /\ got > 0
      /\ Complete(fw) \in Nat /\ push = 0 /\ ~fw.open /\ got <= frameSize
      /\ frameSize = minBlockSize(opts) /\ minBlockSize(opts) \in Nat
      /\ minBlockSize(opts) <= MaxFrameSize /\ MaxFrameSize \in Nat
      /\ maxBlockSize(opts) = MaxFrameSize /\ MaxFrameSize < U32
      /\ TableFits(fw.table, maxBlockSize(opts)) /\ Described(fw, opts)
  BY Sizes, CompleteType DEF IInv, TypeOK, CompressBuf, At, Placed, maxBlockSize
<1>2. fw' = CompressBuffer(fw, got) /\ got <= MaxFrameSize
  BY <1>1 DEF CompressBuf
<1>3. /\ fw' \in FrameState /\ Described(fw', opts) /\ fw'.open = fw.open
      /\ fw'.ends = Append(fw.ends, Complete(fw) + got)
      /\ Complete(fw') = Complete(fw) + got
  <2>1. PICK g : g = CompressBuffer(fw, got)
    OBVIOUS
  <2>2. /\ g \in FrameState /\ g.open = fw.open /\ Described(g, opts)
        /\ g.ends = Append(fw.ends, Complete(fw) + got)
        /\ Complete(g) = Complete(fw) + got
    <3>1. /\ opts \in CommandLine /\ fw \in FrameState /\ got \in Nat
          /\ got <= MaxFrameSize /\ Described(fw, opts)
      BY <1>1, <1>2
    <3> QED
      BY <2>1, <3>1, CompressFacts
  <2> QED
    BY <1>2, <2>1, <2>2
<1>4. Complete(fw) + got = rd
  BY <1>1 DEF IInv, Placed, Accounted, Written, CompressBuf, At
<1>5. TableFits(fw'.table, maxBlockSize(opts))
  <2>1. MaxFrameSize < U64Max /\ U64Max \in Nat /\ got \in 1 .. MaxFrameSize
    BY <1>1, <1>2, ConfigAssumption, TarAssumption
  <2>2. TableFits(CompressBuffer(fw, got).table, MaxFrameSize)
    BY <1>1, <2>1, CompressTable
  <2> QED
    BY <1>1, <1>2, <2>2
<1> QED
  BY <1>1, <1>3, <1>4, <1>5 DEF CompressBuf, Filled

(***************************************************************************)
(* The invariant holds at the start, and a step preserves it.              *)
(***************************************************************************)

\* Nothing was read.
LEMMA InitInv ==
  ASSUME Init
  PROVE  IInv
<1>1. input \in Stream /\ opts \in CommandLine /\ opts.raw
  BY ConfigAssumption DEF Init
<1>2. /\ fw \in FrameState /\ Described(fw, opts)
      /\ ~fw.open /\ fw.ends = <<>> /\ fw.table = <<>>
  BY <1>1, NoFramesFacts DEF Init
<1>3. TypeOK
  BY <1>1, <1>2 DEF Init, TypeOK, Statuses
<1>4. Placed
  <2>1. Written(fw) = 0
    BY <1>2 DEF Written, Complete
  <2> QED
    BY <1>2, <1>3, <2>1, Sizes DEF Init, Placed, Accounted
<1>5. OpenFrame
  BY <1>2 DEF Init, OpenFrame
<1>6. TableFits(fw.table, maxBlockSize(opts))
  BY <1>2 DEF TableFits
<1> QED
  BY <1>1, <1>2, <1>3, <1>4, <1>5, <1>6 DEF IInv

\* Every step keeps it.
LEMMA InvStep ==
  ASSUME IInv, [Next]_vars
  PROVE  IInv'
<1> USE DEF IInv, TypeOK, Placed, OpenFrame, At, given
<1>1. /\ TypeOK /\ Placed /\ OpenFrame /\ opts.raw
      /\ TableFits(fw.table, maxBlockSize(opts)) /\ Described(fw, opts)
      /\ Written(fw) \in Nat /\ Complete(fw) \in Nat
      /\ (~fw.open => Written(fw) = Complete(fw))
      /\ frameSize \in Nat /\ (Streaming <=> frameSize = 0)
      /\ Total(input) \in Nat /\ InChunk \in Nat \ {0}
  BY Sizes, WrittenType, CompleteType DEF Written
<1>2. CASE Read
  <2>1. rd' \in Nat /\ rd' - rd \in Nat /\ rd' <= Total(input) /\ rd' > rd
    BY <1>1, <1>2 DEF Read, fread
  <2> QED
    <3>1. Accounted'
      <4>1. Written(fw) + got = rd /\ push' = rd' - rd /\ rd \in Nat /\ got \in Nat
        BY <1>1, <1>2 DEF Read, Accounted
      <4>2. Written(fw) + push' + got = rd'
        BY <1>1, <2>1, <4>1
      <4> QED
        BY <1>2, <4>2 DEF Accounted, Read
    <3>2. push' \in Nat /\ rd' <= Total(input)
      BY <1>2, <2>1 DEF Read
    <3> QED
      BY <1>1, <1>2, <2>1, <3>1, <3>2 DEF Read, Streaming, frameSize
<1>3. CASE Push
  <2>1. PICK k : k = canWrite(push)
    OBVIOUS
  <2>2. /\ k \in 1 .. push /\ status' = "running"
        /\ fw' \in FrameState /\ TableFits(fw'.table, maxBlockSize(opts))
        /\ Described(fw', opts) /\ Written(fw') = Written(fw) + k
        /\ \/ /\ fw'.open /\ fw'.in = fw'.zin /\ fw'.pledged = Unknown
              /\ fw'.in \in 1 .. maxBlockSize(opts) - 1
           \/ ~fw'.open
    BY <1>3, <2>1, PushFacts
  <2>3. push' = push - k /\ push' \in Nat /\ pc = "read" /\ Streaming
    BY <1>1, <1>3, <2>1, <2>2 DEF Push
  <2>4. Streaming' = Streaming /\ frameSize' = frameSize
    BY <1>3 DEF Push, Streaming, frameSize
  <2>5. Accounted'
    <3>1. Written(fw') + push' + got = rd
      BY <1>1, <1>3, <2>2, <2>3 DEF Accounted, Push
    <3> QED
      BY <1>3, <3>1 DEF Accounted, Push
  <2> QED
    BY <1>1, <1>3, <2>2, <2>3, <2>4, <2>5 DEF Push, Statuses
<1>4. CASE ReadEnd
  <2>1. CASE fw.open
    <3>1. /\ fw' \in FrameState /\ TableFits(fw'.table, maxBlockSize(opts))
          /\ Described(fw', opts) /\ status' = "running" /\ ~fw'.open
          /\ Complete(fw') = Total(input)
      BY <1>4, <2>1, EndOpenFacts
    <3>2. Written(fw') = Total(input)
      BY <1>1, <3>1 DEF Written
    <3> QED
      BY <1>1, <1>4, <3>1, <3>2 DEF ReadEnd, Accounted, Streaming, Statuses
  <2>2. CASE ~fw.open
    BY <1>1, <1>4, <2>2 DEF ReadEnd, Accounted, Streaming
  <2> QED
    BY <2>1, <2>2
<1>5. CASE Fill
  <2>1. rd' \in Nat /\ rd' - rd \in 1 .. frameSize - got /\ rd' <= Total(input)
    BY <1>1, <1>5 DEF Fill, fread
  <2>2. got' = got + (rd' - rd) /\ got \in Nat /\ rd \in Nat
    BY <1>1, <1>5 DEF Fill
  <2>3. Streaming' = Streaming /\ frameSize' = frameSize
    BY <1>5 DEF Fill, Streaming, frameSize
  <2>4. got' \in Nat /\ got' <= frameSize
    <3>1. PICK d \in 1 .. frameSize - got : d = rd' - rd
      BY <2>1
    <3> QED
      BY <1>1, <2>2, <3>1
  <2>5. Accounted'
    <3>1. Written(fw) + push + got = rd
      BY <1>1, <1>5 DEF Fill, Accounted
    <3>2. Written(fw) + push + got' = rd'
      BY <1>1, <2>1, <2>2, <3>1
    <3> QED
      BY <1>5, <3>2 DEF Accounted, Fill
  <2> QED
    <3>1. /\ fw' = fw /\ opts' = opts /\ input' = input /\ status' = status
          /\ pc' = "read" /\ push' = push /\ ~Streaming /\ status = "running"
      BY <1>5 DEF Fill
    <3>2. Placed'
      BY <1>1, <2>1, <2>3, <2>4, <2>5, <3>1
    <3> QED
      BY <1>1, <2>1, <2>4, <3>1, <3>2
<1>6. CASE CompressBuf
  <2>1. /\ fw' \in FrameState /\ TableFits(fw'.table, maxBlockSize(opts))
        /\ Described(fw', opts) /\ ~fw'.open /\ Complete(fw') = rd
        /\ (got < frameSize => rd = Total(input)) /\ got <= frameSize
    BY <1>6, BufFacts
  <2>2. Written(fw') = rd
    BY <1>1, <2>1 DEF Written
  <2> QED
    BY <1>1, <1>6, <2>1, <2>2 DEF CompressBuf, Accounted, Streaming, frameSize
<1>7. CASE NoMoreData
  <2>1. rd = Total(input)
    BY <1>1, <1>7 DEF NoMoreData, Filled
  <2> QED
    BY <1>1, <1>7, <2>1 DEF NoMoreData, Accounted, Streaming, frameSize
<1>8. CASE Finish
  BY <1>1, <1>8 DEF Finish, locals, Accounted, Streaming, frameSize, Statuses
<1>9. CASE IOError
  BY <1>1, <1>9 DEF IOError, locals, Accounted, Streaming, frameSize, Statuses
<1>10. CASE UNCHANGED vars
  BY <1>1, <1>10 DEF vars, locals, Accounted, Streaming, frameSize
<1> QED
  BY <1>2, <1>3, <1>4, <1>5, <1>6, <1>7, <1>8, <1>9, <1>10 DEF Next, Step

\* The invariant holds in every state of every run.
LEMMA Inductive == Spec => []IInv
  BY InitInv, InvStep, PTL DEF Spec

(***************************************************************************)
(* What follows from it.                                                   *)
(***************************************************************************)

\* Every byte compressStdinRaw() read is in a frame, still to push or in
\* frameBuf, however many bytes each fread() returns.
THEOREM RawAccounted == Spec => []Accounted
<1>1. IInv => Accounted
  BY DEF IInv, Placed
<1> QED
  BY <1>1, Inductive, PTL

\* A run that succeeds has a seek table that describes every frame it wrote, or
\* none, with -j or when there are too many frames.
THEOREM RawTableDescribesFrames == Spec => []SeekTableDescribesFrames
<1>1. IInv => SeekTableDescribesFrames
  BY DEF IInv, Described, SeekTableDescribesFrames
<1> QED
  BY <1>1, Inductive, PTL

(***************************************************************************)
(* compressStdinRaw() writes the frames of Framing.                        *)
(***************************************************************************)

\* The frame that ends at byte `e' is the one Framing promises next.
LEMMA EmitStep ==
  ASSUME IInv, UNCHANGED given, status = "running", status' = "running",
         NEW e \in Nat, fw'.ends = Append(fw.ends, e),
         e > Complete(fw), e <= Total(input), e <= Complete(fw) + Abstract!Limit,
         e = Complete(fw) + Abstract!Limit \/ e = Total(input)
  PROVE  Abstract!Emit
<1>1. opts.raw /\ Complete(fw) \in Nat /\ Total(input) \in Nat
  BY Sizes, CompleteType DEF IInv, TypeOK
<1>2. Abstract!WellFormed /\ Abstract!Covered = Complete(fw)
  BY <1>1, SameOperators DEF Abstract!WellFormed, Abstract!Covered, Complete
<1>3. Abstract!FrameEnds = {Complete(fw) + Abstract!Limit, Total(input)}
  BY <1>1, <1>2, SameOperators DEF Abstract!FrameEnds
<1>4. Abstract!IsFrameEnd(e)
  BY <1>3 DEF Abstract!IsFrameEnd
<1> QED
  BY <1>1, <1>2, <1>3, <1>4, SameOperators DEF Abstract!Emit, Abstract!given, given

\* A step that ends no frame, and does not end the run, is no step of Framing.
LEMMA StutterStep ==
  ASSUME UNCHANGED given, status' = status, fw'.ends = fw.ends
  PROVE  UNCHANGED Abstract!vars
  BY DEF Abstract!vars, Abstract!given, given

\* Every step writes the next frame of Framing, ends the run as Framing does,
\* or is no step of it.
LEMMA FramingStep ==
  ASSUME IInv, [Next]_vars
  PROVE  [Abstract!Next]_(Abstract!vars)
<1> USE DEF At
<1>1. /\ TypeOK /\ opts.raw /\ Placed /\ Total(input) \in Nat /\ Complete(fw) \in Nat
      /\ maxBlockSize(opts) \in Nat \ {0} /\ frameSize = minBlockSize(opts)
      /\ minBlockSize(opts) \in Nat /\ (Streaming <=> minBlockSize(opts) = 0)
      /\ rd \in Nat /\ got \in Nat /\ push \in Nat
  BY Sizes, CompleteType DEF IInv, TypeOK
<1>2. Abstract!Limit = IF Streaming THEN maxBlockSize(opts) ELSE frameSize
  BY <1>1, SameOperators DEF Abstract!Limit
<1>3. CASE Read \/ Fill \/ NoMoreData
  BY <1>3, StutterStep DEF Read, Fill, NoMoreData
<1>4. CASE Push
  <2>1. PICK k : k = canWrite(push)
    OBVIOUS
  <2>2. /\ k \in 1 .. push /\ status' = "running"
        /\ Written(fw') = Written(fw) + k
        /\ \/ fw'.ends = fw.ends
           \/ /\ ~fw'.open
              /\ fw'.ends = Append(fw.ends, Complete(fw) + maxBlockSize(opts))
              /\ Complete(fw') = Complete(fw) + maxBlockSize(opts)
    BY <1>4, <2>1, PushFacts
  <2>3. UNCHANGED given /\ status = "running" /\ Streaming /\ Written(fw) + push + got = rd
        /\ rd <= Total(input)
    BY <1>1, <1>4 DEF Push, Placed, Accounted
  <2>4. CASE fw'.ends = fw.ends
    BY <2>2, <2>3, <2>4, StutterStep
  <2>5. CASE /\ ~fw'.open
             /\ fw'.ends = Append(fw.ends, Complete(fw) + maxBlockSize(opts))
             /\ Complete(fw') = Complete(fw) + maxBlockSize(opts)
    <3>1. Complete(fw') = Written(fw) + k
      <4>1. Written(fw') = Complete(fw') + 0
        BY <2>5 DEF Written
      <4> QED
        BY <1>1, <2>2, <2>5, <4>1
    <3>2. Written(fw) \in Nat
      BY <1>1, WrittenType DEF TypeOK
    <3>3. Complete(fw') <= Total(input)
      BY <1>1, <2>2, <2>3, <3>1, <3>2
    <3>4. PICK e \in Nat : e = Complete(fw) + maxBlockSize(opts)
      BY <1>1
    <3> QED
      BY <1>1, <1>2, <2>2, <2>3, <2>5, <3>3, <3>4, EmitStep DEF Abstract!Next
  <2> QED
    BY <2>2, <2>4, <2>5
<1>5. CASE ReadEnd
  <2>1. UNCHANGED given /\ status = "running" /\ rd = Total(input) /\ Streaming
    BY <1>5 DEF ReadEnd
  <2>2. CASE fw.open
    <3>1. fw'.ends = Append(fw.ends, Total(input)) /\ status' = "running"
      BY <1>5, <2>2, EndOpenFacts
    <3>2. /\ Complete(fw) + fw.in = Total(input)
          /\ fw.in \in 1 .. maxBlockSize(opts) - 1
      BY <1>1, <1>5, <2>1, <2>2 DEF IInv, OpenFrame, Placed, Accounted, Written, ReadEnd
    <3> QED
      BY <1>1, <1>2, <2>1, <3>1, <3>2, EmitStep DEF Abstract!Next
  <2>3. CASE ~fw.open
    BY <1>5, <2>1, <2>3, StutterStep DEF ReadEnd
  <2> QED
    BY <2>2, <2>3
<1>6. CASE CompressBuf
  <2>1. UNCHANGED given /\ status = "running" /\ status' = "running" /\ ~Streaming
    BY <1>6 DEF CompressBuf
  <2>2. /\ fw'.ends = Append(fw.ends, Complete(fw) + got)
        /\ Complete(fw') = Complete(fw) + got /\ Complete(fw') = rd
        /\ got \in 1 .. frameSize /\ (got < frameSize => rd = Total(input))
    BY <1>6, BufFacts
  <2>3. PICK e \in Nat : e = Complete(fw) + got
    BY <1>1
  <2>4. /\ e > Complete(fw) /\ e <= Total(input) /\ e <= Complete(fw) + Abstract!Limit
        /\ e = Complete(fw) + Abstract!Limit \/ e = Total(input)
    BY <1>1, <1>2, <2>1, <2>2, <2>3 DEF Placed
  <2> QED
    BY <2>1, <2>2, <2>3, <2>4, EmitStep DEF Abstract!Next
<1>7. CASE Finish
  <2>1. Complete(fw) = Total(input)
    BY <1>1, <1>7 DEF Finish, Placed, Accounted, Written
  <2>2. Abstract!WellFormed /\ Abstract!Covered = Total(input)
    BY <1>1, <2>1, SameOperators DEF Abstract!WellFormed, Abstract!Covered, Complete
  <2>3. Abstract!Finish
    BY <1>7, <2>2, SameOperators DEF Finish, Abstract!Finish, Abstract!given, given
  <2> QED
    BY <2>3 DEF Abstract!Next
<1>8. CASE IOError
  <2>1. Abstract!IOError
    BY <1>8 DEF IOError, Abstract!IOError, Abstract!given, given
  <2> QED
    BY <2>1 DEF Abstract!Next
<1>9. CASE UNCHANGED vars
  BY <1>9, StutterStep DEF vars
<1> QED
  BY <1>3, <1>4, <1>5, <1>6, <1>7, <1>8, <1>9 DEF Next, Step

\* compressStdinRaw() implements the safety of Framing, for every input, size
\* of the blocks and of the reads: the frames it writes are those that raw mode
\* promises, whatever each fread() returns.
THEOREM RawImplementsFraming == Spec => Abstract!Init /\ [][Abstract!Next]_(Abstract!vars)
<1>1. Init => Abstract!Init
  <2> SUFFICES ASSUME Init PROVE Abstract!Init
    OBVIOUS
  <2>1. opts \in Options /\ input \in Inputs /\ opts \in CommandLine
    BY ConfigAssumption DEF Init
  <2>2. fw.ends = <<>>
    BY <2>1, NoFramesFacts DEF Init
  <2> QED
    BY <2>1, <2>2, SameOperators DEF Init, Abstract!Init
<1>2. IInv /\ [Next]_vars => [Abstract!Next]_(Abstract!vars)
  BY FramingStep
<1> QED
  BY <1>1, <1>2, Inductive, PTL DEF Spec

\* The frames of raw data are those that the documentation promises: the whole
\* of it is in them when the run succeeds, and with -s all have that size but
\* the last.
THEOREM RawFramesAsDocumented == Spec => []FramesAsDocumented
  BY RawImplementsFraming, FramingDocumented, PTL

(***************************************************************************)
(* The same input given as a file to a second run, one of compressFile().  *)
(***************************************************************************)

VARIABLES fileFw, fileStatus, filePc, fileHeaderIdx, fileReadBuff, fileJoinNext,
          filePaxNextSize, fileLastChunk, fileResidual, fileBlockSize

\* For it, the frames of standard input are those of the other run.
File == INSTANCE MmapFileProofs WITH
  fw <- fileFw, status <- fileStatus, pc <- filePc, tarHeaderIdx <- fileHeaderIdx,
  readBuff <- fileReadBuff, joinNext <- fileJoinNext, paxNextSize <- filePaxNextSize,
  lastChunk <- fileLastChunk, residual <- fileResidual, blockSize <- fileBlockSize,
  otherEnds <- fw.ends,
  otherStatus <- IF status \in {"rejected", "zstdError"} THEN "failed" ELSE status

FileFramesAgree == status = "ok" /\ fileStatus = "ok" => fw.ends = fileFw.ends

\* The assumptions on the constants are those of the second run too.
LEMMA FileAssumptions ==
  /\ File!TarAssumption /\ File!ConfigAssumption
  /\ File!InputsAssumption /\ File!FrameWriterAssumption
<1>1. File!TarAssumption /\ File!FrameWriterAssumption
  BY TarAssumption, FrameWriterAssumption
<1>2. File!ConfigAssumption
  BY ConfigAssumption, Zenon DEF Stream, Block, Types, CommandLine, File!Stream, File!Block,
     File!Types, File!CommandLine
<1>3. File!InputsAssumption
  BY InputsAssumption DEF Total, File!Total
<1> QED
  BY <1>1, <1>2, <1>3

\* Framing is the same for both.
LEMMA SameFraming ==
  /\ Abstract!Init => File!Other!Init
  /\ [Abstract!Next]_(Abstract!vars) => [File!Other!Next]_(File!Other!vars)
<1>1. Abstract!Layout(input) = File!Other!Layout(input)
  BY DEF
     Abstract!Layout, File!Other!Layout, Abstract!Rest, File!Other!Rest, Abstract!Places,
     File!Other!Places, Abstract!LayoutAt, File!Other!LayoutAt, Abstract!WithEnd,
     File!Other!WithEnd, Abstract!HasBlock, File!Other!HasBlock, Abstract!Total,
     File!Other!Total, Abstract!BlockAt, File!Other!BlockAt, Abstract!IsNullBlock,
     File!Other!IsNullBlock, Abstract!isZeroTarBlock, File!Other!isZeroTarBlock,
     Abstract!IsWholeEntry, File!Other!IsWholeEntry, Abstract!isTarHeader,
     File!Other!isTarHeader, Abstract!TooLarge, File!Other!TooLarge, Abstract!tarEntrySize,
     File!Other!tarEntrySize, Abstract!isExtensionHeader, File!Other!isExtensionHeader,
     Abstract!EntryEnd, File!Other!EntryEnd, Abstract!SparseExt, File!Other!SparseExt,
     Abstract!hasSparseExtension, File!Other!hasSparseExtension, Abstract!Padded,
     File!Other!Padded, Abstract!PaxNext, File!Other!PaxNext, Abstract!paxSize,
     File!Other!paxSize, Abstract!PaxLeft, File!Other!PaxLeft, Abstract!joinsNextEntry,
     File!Other!joinsNextEntry, Abstract!NoSize, File!Other!NoSize, Abstract!Min,
     File!Other!Min
<1>2. /\ Abstract!Total(input) = File!Other!Total(input)
      /\ Abstract!minBlockSize(opts) = File!Other!minBlockSize(opts)
      /\ Abstract!maxBlockSize(opts) = File!Other!maxBlockSize(opts)
  BY DEF Abstract!Total, File!Other!Total, Abstract!minBlockSize, File!Other!minBlockSize,
     Abstract!maxBlockSize, File!Other!maxBlockSize
<1>3. Abstract!Init => File!Other!Init
  BY <1>1 DEF Abstract!Init, File!Other!Init
<1>4. Abstract!Limit = File!Other!Limit /\ Abstract!Covered = File!Other!Covered
  BY <1>2 DEF Abstract!Limit, File!Other!Limit, Abstract!Covered, File!Other!Covered
<1>5. /\ Abstract!WellFormed = File!Other!WellFormed
      /\ Abstract!FrameEnds = File!Other!FrameEnds
  BY <1>2, <1>4 DEF Abstract!WellFormed, File!Other!WellFormed, Abstract!FrameEnds,
     File!Other!FrameEnds
<1>6. Abstract!Emit => File!Other!Emit
  BY <1>2, <1>4, <1>5 DEF Abstract!Emit, File!Other!Emit, Abstract!IsFrameEnd,
     File!Other!IsFrameEnd, Abstract!given, File!Other!given
<1>7. Abstract!Finish \/ Abstract!Reject \/ Abstract!IOError => File!Other!Next
  BY <1>2, <1>4, <1>5 DEF Abstract!Finish, Abstract!Reject, Abstract!IOError,
     File!Other!Next, File!Other!Finish, File!Other!Reject, File!Other!IOError,
     Abstract!given, File!Other!given
<1>8. UNCHANGED Abstract!vars => UNCHANGED File!Other!vars
  BY DEF Abstract!vars, File!Other!vars, Abstract!given, File!Other!given
<1> QED
  BY <1>3, <1>6, <1>7, <1>8 DEF Abstract!Next, File!Other!Next

\* Raw data on standard input is cut into the same frames as the same data in a
\* file, whatever each fread() returns.
THEOREM RawFramesAsOfFile == Spec /\ File!Spec => []FileFramesAgree
<1>1. /\ File!Spec /\ File!Other!Init /\ [][File!Other!Next]_(File!Other!vars)
      => []File!FramesAgree
  BY FileAssumptions, File!MappedFramesAgree
<1>2. File!FramesAgree => FileFramesAgree
  BY DEF File!FramesAgree, FileFramesAgree
<1>3. Abstract!Init => File!Other!Init
  BY SameFraming
<1>4. [Abstract!Next]_(Abstract!vars) => [File!Other!Next]_(File!Other!vars)
  BY SameFraming
<1> QED
  BY <1>1, <1>2, <1>3, <1>4, RawImplementsFraming, PTL
=============================================================================
